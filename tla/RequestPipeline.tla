-------------------------- MODULE RequestPipeline ---------------------------
(***************************************************************************)
(* The way of a request through net/http and the middleware of app.go and  *)
(* route.go: the timeout, which runs everything behind it in a goroutine   *)
(* and answers 408 when that takes too long; the mutex of the rate limiter *)
(* (RateLimiter says what it counts); the handler and its queries.  A slot *)
(* is one connection with one request; time is the ages of what waits.     *)
(***************************************************************************)
EXTENDS Integers

CONSTANTS Request,        \* the requests of a behaviour
          Probe,          \* those of them that are GET /health/live
          Nobody,         \* not a request: the mutex is free
          Queries,        \* bound on the queries of a handler
          Timeouts,       \* values of REQUEST_TIMEOUT_SECONDS, in ticks
          WriteTimeout,   \* httpServer.WriteTimeout, in ticks
          HeaderTimeout   \* httpServer.ReadHeaderTimeout, in ticks

ASSUME RequestAssumption == Probe \subseteq Request /\ Nobody \notin Request
ASSUME QueriesAssumption == Queries \in Nat
\* Validate does not look at the timeout; not even its sign is checked.
ASSUME TimeoutsAssumption == Timeouts \subseteq Int
ASSUME ServerAssumption == WriteTimeout \in Nat \ {0} /\ HeaderTimeout \in Nat \ {0}

VARIABLES pc,             \* where the goroutine of a request is
          answer,         \* what its client got
          age,            \* ticks since its connection or its request came
          queries,        \* its queries that have succeeded
          mu,             \* who holds RateLimiter.mu
          limited,        \* RATE_LIMIT_PER_MINUTE is positive
          requestTimeout  \* REQUEST_TIMEOUT_SECONDS

config == <<limited, requestTimeout>>
pipeline == <<pc, answer, age, queries, mu, config>>

InChain(r) == pc[r] \in {"waiting", "handling"}
Unanswered(r) == InChain(r) /\ answer[r] = "none"

\* Mutant: a connection without a request is not waited for.
InUseAnswering(r) == Unanswered(r)

\* httpServer sees a connection in use: its request is on its way, or is not
\* answered yet.  A handler that goes on behind a 408 is not seen.
InUse(r) == pc[r] = "connected" \/ Unanswered(r)
-----------------------------------------------------------------------------

PipelineInit ==
  /\ pc = [r \in Request |-> "idle"]
  /\ answer = [r \in Request |-> "none"]
  /\ age = [r \in Request |-> 0]
  /\ queries = [r \in Request |-> 0]
  /\ mu = Nobody
  /\ limited \in BOOLEAN
  /\ requestTimeout \in Timeouts

\* Go sets the deadline for writing when the headers are read: an answer that
\* is ready later than WriteTimeout after that does not reach the client.
Written(r, a) ==
  (IF age[r] <= WriteTimeout THEN {a} ELSE {})
    \cup (IF age[r] >= WriteTimeout THEN {"lost"} ELSE {})

\* Mutant: what the handler answers goes out behind the 408.
EndAnswers(r, a) ==
  /\ pc' = [pc EXCEPT ![r] = "done"]
  /\ mu' = IF mu = r THEN Nobody ELSE mu
  /\ \E w \in Written(r, a) : answer' = [answer EXCEPT ![r] = w]
  /\ age' = [age EXCEPT ![r] = 0]

\* Mutant: a handler that ends behind its 408 keeps the mutex.
EndKeepsLock(r, a) ==
  /\ pc' = [pc EXCEPT ![r] = "done"]
  /\ mu' = IF mu = r /\ answer[r] = "none" THEN Nobody ELSE mu
  /\ IF answer[r] = "none"
       THEN \E w \in Written(r, a) : answer' = [answer EXCEPT ![r] = w]
       ELSE UNCHANGED answer
  /\ age' = [age EXCEPT ![r] = 0]

\* The chain has ended, by a return or a panic.  Its answer is written unless
\* the timeout was first; the age of what is over is of no interest.
End(r, a) ==
  /\ pc' = [pc EXCEPT ![r] = "done"]
  /\ mu' = IF mu = r THEN Nobody ELSE mu
  /\ IF answer[r] = "none"
       THEN \E w \in Written(r, a) : answer' = [answer EXCEPT ![r] = w]
       ELSE UNCHANGED answer
  /\ age' = [age EXCEPT ![r] = 0]

\* A client connects; httpServer waits for its request.
Open(r) ==
  /\ pc[r] = "idle"
  /\ pc' = [pc EXCEPT ![r] = "connected"]
  /\ UNCHANGED <<answer, age, queries, mu, config>>

\* ReadHeaderTimeout: no request has come.
Hangup(r) ==
  /\ pc[r] = "connected"
  /\ pc' = [pc EXCEPT ![r] = "done"]
  /\ age' = [age EXCEPT ![r] = 0]
  /\ UNCHANGED <<answer, queries, mu, config>>

Arrive(r) ==
  /\ pc[r] = "connected"
  /\ pc' = [pc EXCEPT ![r] = "waiting"]
  /\ age' = [age EXCEPT ![r] = 0]
  /\ UNCHANGED <<answer, queries, mu, config>>

CanEnter == limited => mu = Nobody

\* LimitMiddleware, if it is installed, takes its mutex and keeps it.
Enter(r) ==
  /\ pc[r] = "waiting" /\ CanEnter
  /\ mu' = IF limited THEN r ELSE mu
  /\ pc' = [pc EXCEPT ![r] = "handling"]
  /\ UNCHANGED <<answer, age, queries, config>>

\* It takes the mutex and gives it back at once: it answers 429, or finds a
\* chain that the timeout has aborted.
Refuse(r) ==
  /\ pc[r] = "waiting"
  /\ limited /\ mu = Nobody
  /\ End(r, "reply")
  /\ UNCHANGED <<queries, config>>

\* A query of a handler; on a closed database it fails, and the handler ends.
Query(r, open) ==
  /\ pc[r] = "handling" /\ r \notin Probe /\ queries[r] < Queries
  /\ IF open
       THEN /\ queries' = [queries EXCEPT ![r] = @ + 1]
            /\ UNCHANGED <<pc, answer, age, mu, config>>
       ELSE End(r, "reply") /\ UNCHANGED <<queries, config>>

Return(r) ==
  /\ pc[r] = "handling"
  /\ End(r, "reply")
  /\ UNCHANGED <<queries, config>>

\* Mutant: the comparison is off by one.
TimedOutLate(r) == Unanswered(r) /\ age[r] > requestTimeout

\* The timer of the middleware; a timeout that is not positive runs out at once.
TimedOut(r) == Unanswered(r) /\ age[r] >= requestTimeout

\* Mutant: the timeout is installed behind the limiter.
TimeoutInHandler(r) ==
  /\ TimedOut(r) /\ pc[r] = "handling"
  /\ \E w \in Written(r, "408") : answer' = [answer EXCEPT ![r] = w]
  /\ age' = [age EXCEPT ![r] = 0]
  /\ UNCHANGED <<pc, queries, mu, config>>

\* Mutant: the timeout gives the mutex of the goroutine it leaves behind back.
TimeoutUnlocks(r) ==
  /\ TimedOut(r)
  /\ \E w \in Written(r, "408") : answer' = [answer EXCEPT ![r] = w]
  /\ age' = [age EXCEPT ![r] = 0]
  /\ mu' = IF mu = r THEN Nobody ELSE mu
  /\ UNCHANGED <<pc, queries, config>>

\* TimeoutMiddleware answers; the goroutine stays where it is.
Timeout(r) ==
  /\ TimedOut(r)
  /\ \E w \in Written(r, "408") : answer' = [answer EXCEPT ![r] = w]
  /\ age' = [age EXCEPT ![r] = 0]
  /\ UNCHANGED <<pc, queries, mu, config>>

\* A timer has run out, or a goroutine waits for nothing: time does not pass
\* before its step.
Due(r) ==
  \/ pc[r] = "connected" /\ age[r] >= HeaderTimeout
  \/ TimedOut(r)
  \/ pc[r] = "waiting" /\ CanEnter
  \/ pc[r] = "handling" /\ r \in Probe

Waiting == age' = [r \in Request |-> IF InUse(r) THEN age[r] + 1 ELSE age[r]]

\* The steps of the goroutine of a request that wait for no answer of others.
Prompt(r) == Enter(r) \/ Refuse(r) \/ (r \in Probe /\ Return(r))

Chain(r, open) == Prompt(r) \/ Query(r, open) \/ (r \notin Probe /\ Return(r))
=============================================================================
