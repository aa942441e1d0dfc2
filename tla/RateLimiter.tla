---------------------------- MODULE RateLimiter -----------------------------
(***************************************************************************)
(* internal/interfaces/http/middleware/limit_middleware.go: a fixed window *)
(* of requests per client address.  The middleware takes the mutex and     *)
(* gives it back when it returns, which is after c.Next(): the rest of the *)
(* chain and the handler run inside the critical section.  The two maps    *)
(* are only touched under the mutex, so what a request does between        *)
(* mu.Lock() and c.Next() is one step; a panic below unlocks like a return.*)
(***************************************************************************)
EXTENDS Integers, FiniteSets, Functions

CONSTANTS Request,          \* the requests of a behaviour
          IP,               \* c.ClientIP()
          limit,            \* RateLimiter.limit
          windowDuration,   \* RateLimiter.windowDuration, in ticks
          MaxTime           \* bound on the clock, for model checking

\* route.go installs the middleware only when the limit is positive.
ASSUME LimitAssumption == limit \in Nat \ {0} /\ windowDuration \in Nat \ {0}
ASSUME MaxTimeAssumption == MaxTime \in Nat

VARIABLES now,         \* the wall clock
          requests,    \* RateLimiter.requests: address -> requests in its window
          resetTime,   \* RateLimiter.resetTime: address -> end of its window
          mu,          \* the requests that hold RateLimiter.mu
          pc,          \* where a request is
          clientIP,    \* where it came from
          admitted,    \* when it was let through
          header       \* X-RateLimit-Remaining and X-RateLimit-Reset

maps == <<requests, resetTime>>
slots == <<pc, clientIP, admitted, header>>
vars == <<now, maps, mu, slots>>

Put(f, k, v) == [x \in DOMAIN f \cup {k} |-> IF x = k THEN v ELSE f[x]]
-----------------------------------------------------------------------------

Init ==
  /\ now = 0
  /\ requests = [i \in {} |-> 0] /\ resetTime = [i \in {} |-> 0]
  /\ mu = {}
  /\ pc = [r \in Request |-> "idle"]
  /\ clientIP \in [Request -> IP]
  /\ admitted = [r \in Request |-> 0]
  /\ header = [r \in Request |-> [remaining |-> 0, reset |-> 0]]

Arrive(r) ==
  /\ pc[r] = "idle"
  /\ pc' = [pc EXCEPT ![r] = "waiting"]
  /\ UNCHANGED <<now, maps, mu, clientIP, admitted, header>>

\* The address has no window, or the clock is past its end.
NewWindow(i) == i \notin DOMAIN resetTime \/ now > resetTime[i]

\* Mutant: the local count is not reset with the map's.
countNotReset(i) == IF i \in DOMAIN requests THEN requests[i] ELSE 0

count(i) == IF NewWindow(i) THEN 0 ELSE requests[i]
reset(i) == IF NewWindow(i) THEN now + windowDuration ELSE resetTime[i]

\* Mutant: the comparison is off by one.
FullOffByOne(i) == i \in DOMAIN requests /\ count(i) > limit

Full(i) == i \in DOMAIN requests /\ count(i) >= limit

\* Mutant: the mutex is not given back on the early return.
RefuseKeepsLock(r) ==
  /\ pc[r] = "waiting" /\ mu = {}
  /\ Full(clientIP[r])
  /\ mu' = {r}
  /\ pc' = [pc EXCEPT ![r] = "refused"]
  /\ UNCHANGED <<now, maps, clientIP, admitted, header>>

\* 429.  The limit is positive, so a window that has just been reset is not
\* full and the maps stay as they are.
Refuse(r) ==
  /\ pc[r] = "waiting" /\ mu = {}
  /\ Full(clientIP[r])
  /\ pc' = [pc EXCEPT ![r] = "refused"]
  /\ UNCHANGED <<now, maps, mu, clientIP, admitted, header>>

\* The request is counted, in the window that is now current, and told "told"
\* as the end of that window.
Pass(r, told) ==
  LET i == clientIP[r] IN
  /\ pc[r] = "waiting" /\ mu = {}
  /\ ~Full(i)
  /\ requests' = Put(requests, i, count(i) + 1)
  /\ resetTime' = Put(resetTime, i, reset(i))
  /\ pc' = [pc EXCEPT ![r] = "handling"]
  /\ admitted' = [admitted EXCEPT ![r] = now]
  /\ header' = [header EXCEPT ![r] = [remaining |-> limit - (count(i) + 1), reset |-> told]]
  /\ UNCHANGED <<now, clientIP>>

\* Mutant: the mutex is given back before c.Next().
AdmitUnlocks(r) == Pass(r, reset(clientIP[r])) /\ UNCHANGED mu

\* Mutant: the local resetTime is not refreshed with the map's.
AdmitTellsOldReset(r) ==
  /\ Pass(r, IF clientIP[r] \in DOMAIN resetTime THEN resetTime[clientIP[r]] ELSE 0)
  /\ mu' = {r}

\* c.Next() is called with the mutex held.
Admit(r) == Pass(r, reset(clientIP[r])) /\ mu' = {r}

\* c.Next() returns or panics, and the deferred unlock runs.
Return(r) ==
  /\ pc[r] = "handling"
  /\ mu' = mu \ {r}
  /\ pc' = [pc EXCEPT ![r] = "done"]
  /\ UNCHANGED <<now, maps, clientIP, admitted, header>>

\* Mutant: every window is dropped, not only those that have ended.
cleanupAll ==
  /\ mu = {} /\ DOMAIN resetTime # {}
  /\ requests' = [i \in {} |-> 0] /\ resetTime' = [i \in {} |-> 0]
  /\ UNCHANGED <<now, mu, slots>>

\* The clean-up goroutine takes its turn at the mutex.
cleanup ==
  LET kept == {i \in DOMAIN resetTime : ~(now > resetTime[i])} IN
  /\ mu = {} /\ kept # DOMAIN resetTime
  /\ requests' = Restrict(requests, kept)
  /\ resetTime' = Restrict(resetTime, kept)
  /\ UNCHANGED <<now, mu, slots>>

Tick == now < MaxTime /\ now' = now + 1 /\ UNCHANGED <<maps, mu, slots>>

Next ==
  \/ \E r \in Request : Arrive(r) \/ Refuse(r) \/ Admit(r) \/ Return(r)
  \/ cleanup
  \/ Tick

Spec == Init /\ [][Next]_vars

\* sync.Mutex hands itself to the waiter that has waited a millisecond, and
\* every handler is taken to return: no endpoint but the readiness probe, which
\* is not a part of this module, waits without a bound.
FairSpec ==
  /\ Spec
  /\ \A r \in Request : WF_vars(Return(r)) /\ SF_vars(Admit(r) \/ Refuse(r))

-----------------------------------------------------------------------------

\* The two maps have the same addresses, and no count passes the limit.
TypeOK ==
  /\ now \in Nat
  /\ DOMAIN requests \subseteq IP
  /\ DOMAIN resetTime = DOMAIN requests
  /\ requests \in [DOMAIN requests -> 1 .. limit]
  /\ resetTime \in [DOMAIN requests -> Nat]
  /\ mu \subseteq Request
  /\ pc \in [Request -> {"idle", "waiting", "handling", "refused", "done"}]
  /\ clientIP \in [Request -> IP]
  /\ admitted \in [Request -> Nat]
  /\ header \in [Request -> [remaining : Int, reset : Nat]]

Admitted(i) == {r \in Request : clientIP[r] = i /\ pc[r] \in {"handling", "done"}}

\* Handlers do not overlap, and one that runs holds the mutex: the whole
\* server behind the middleware is serial.
HandlersSerialized ==
  \A r, q \in Request :
    pc[r] = "handling" => mu = {r} /\ (pc[q] = "handling" => q = r)

\* The headers tell the truth: two requests an address is served in one
\* window are told different remaining budgets, all below the limit, so that
\* a window serves at most the limit.
HeadersTruthful ==
  \A i \in IP : \A r, q \in Admitted(i) :
    /\ header[r].remaining \in 0 .. (limit - 1)
    /\ header[r].reset = header[q].reset /\ header[r].remaining = header[q].remaining => r = q

\* The window is fixed, not sliding: a span as long as a window may serve an
\* address the end of one window and the start of the next, and never more.
SlidingBound ==
  \A i \in IP : \A from \in 0 .. now :
    Cardinality({r \in Admitted(i) : from <= admitted[r] /\ admitted[r] <= from + windowDuration})
      <= 2 * limit

\* What the middleware shows of its maps: a window that has ended is none,
\* whether the clean-up has come by or not.
Open == {i \in DOMAIN resetTime : now <= resetTime[i]}

Verdict(r) ==
  CASE pc[r] \in {"handling", "done"} -> "allowed"
    [] pc[r] = "refused" -> "denied"
    [] OTHER -> "none"

OpenWindows == [i \in Open |-> [end |-> resetTime[i], served |-> requests[i]]]

Answer(r) ==
  [verdict |-> Verdict(r), remaining |-> header[r].remaining, reset |-> header[r].reset]


Promise ==
  INSTANCE FixedWindow WITH origin <- clientIP, window <- OpenWindows,
                            answer <- [r \in Request |-> Answer(r)]

\* Whatever the order in which requests, handlers and the clean-up get the
\* mutex, each request is decided at one instant by the window that is open
\* then: nobody is refused without a window that is used up, a stale count
\* or a clean-up never changes a verdict, and the headers are that window's.
ImplementsFixedWindow == Promise!Spec

\* Whoever asks is served or refused in the end.
EveryRequestDecided ==
  \A r \in Request : pc[r] = "waiting" ~> pc[r] \in {"refused", "done"}
=============================================================================
