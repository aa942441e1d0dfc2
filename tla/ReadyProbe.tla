----------------------------- MODULE ReadyProbe -----------------------------
(***************************************************************************)
(* InfraController.Ready, internal/interfaces/http/controller/             *)
(* infra_controller.go: readiness probes share the result of one database  *)
(* ping for cacheTTL.  A probe looks at the cache under the read lock, and *)
(* when it is stale once more under the write lock, which it keeps while   *)
(* it pings.  Nothing bounds the ping: sql.DB.Ping has no deadline.        *)
(***************************************************************************)
EXTENDS Integers

CONSTANTS Probe,         \* the calls of a behaviour
          cacheTTL,      \* InfraController.cacheTTL, in ticks
          MaxTime        \* bound on the clock, for model checking

ASSUME TTLAssumption == cacheTTL \in Nat \ {0}
ASSUME MaxTimeAssumption == MaxTime \in Nat

VARIABLES now,                \* the wall clock
          lastCheckTime,      \* InfraController.lastCheckTime
          cachedAllHealthy,   \* InfraController.cachedAllHealthy
          mu,                 \* the probes that hold the write lock
          pc,                 \* where a probe is
          started,            \* when it started to ping, or Never
          answer,             \* what it has answered
          answered            \* when it answered

Never == -1

cache == <<lastCheckTime, cachedAllHealthy>>
vars == <<now, cache, mu, pc, started, answer, answered>>
-----------------------------------------------------------------------------

\* lastCheckTime is the zero time at first, further back than any TTL.
Init ==
  /\ now = 0
  /\ lastCheckTime = - cacheTTL /\ cachedAllHealthy = FALSE
  /\ mu = {}
  /\ pc = [p \in Probe |-> "idle"]
  /\ started = [p \in Probe |-> Never]
  /\ answer = [p \in Probe |-> FALSE]
  /\ answered = [p \in Probe |-> 0]

Fresh == now - lastCheckTime < cacheTTL

Answer(p, healthy) ==
  /\ pc' = [pc EXCEPT ![p] = "answered"]
  /\ answer' = [answer EXCEPT ![p] = healthy]
  /\ answered' = [answered EXCEPT ![p] = now]

\* The section under the read lock: one step, as no writer can be in it.
Look(p) ==
  /\ pc[p] = "idle" /\ mu = {}
  /\ IF Fresh
       THEN Answer(p, cachedAllHealthy)
       ELSE pc' = [pc EXCEPT ![p] = "stale"] /\ UNCHANGED <<answer, answered>>
  /\ UNCHANGED <<now, cache, mu, started>>

\* Mutant: the cache is not looked at again under the write lock.
LockWithoutLook(p) ==
  /\ pc[p] = "stale" /\ mu = {}
  /\ mu' = {p}
  /\ pc' = [pc EXCEPT ![p] = "pinging"]
  /\ started' = [started EXCEPT ![p] = now]
  /\ UNCHANGED <<now, cache, answer, answered>>

\* The write lock is taken, and kept if the cache is still stale.
Lock(p) ==
  /\ pc[p] = "stale" /\ mu = {}
  /\ IF Fresh
       THEN Answer(p, cachedAllHealthy) /\ UNCHANGED <<mu, started>>
       ELSE /\ mu' = {p}
            /\ pc' = [pc EXCEPT ![p] = "pinging"]
            /\ started' = [started EXCEPT ![p] = now]
            /\ UNCHANGED <<answer, answered>>
  /\ UNCHANGED <<now, cache>>

\* Mutant: a failed ping does not replace the cached health.
PingedKeepsHealth(p) ==
  /\ pc[p] = "pinging"
  /\ \E healthy \in BOOLEAN :
       Answer(p, healthy) /\ cachedAllHealthy' = (healthy \/ cachedAllHealthy)
  /\ lastCheckTime' = now
  /\ mu' = mu \ {p}
  /\ UNCHANGED <<now, started>>

\* The ping returns, with or without an error, and its result is cached.
Pinged(p) ==
  /\ pc[p] = "pinging"
  /\ \E healthy \in BOOLEAN : Answer(p, healthy) /\ cachedAllHealthy' = healthy
  /\ lastCheckTime' = now
  /\ mu' = mu \ {p}
  /\ UNCHANGED <<now, started>>

Tick ==
  /\ now < MaxTime /\ now' = now + 1
  /\ UNCHANGED <<cache, mu, pc, started, answer, answered>>

Next == Tick \/ \E p \in Probe : Look(p) \/ Lock(p) \/ Pinged(p)

Spec == Init /\ [][Next]_vars

-----------------------------------------------------------------------------

\* A probe that pings holds the lock, and only such a probe.
TypeOK ==
  /\ now \in Nat
  /\ lastCheckTime \in Int /\ lastCheckTime <= now
  /\ cachedAllHealthy \in BOOLEAN
  /\ pc \in [Probe -> {"idle", "stale", "pinging", "answered"}]
  /\ started \in [Probe -> Nat \cup {Never}] /\ answer \in [Probe -> BOOLEAN]
  /\ answered \in [Probe -> Nat]
  /\ mu = {p \in Probe : pc[p] = "pinging"}

\* The probes that have asked the database; the cache answered the others.
Pinging == {p \in Probe : started[p] # Never}
HasPinged == {p \in Pinging : pc[p] = "answered"}

\* At most one ping per cacheTTL: a ping is not started while another runs,
\* nor within cacheTTL of the end of another, however many probes found the
\* cache stale at the same time.
PingsSpaced ==
  \A p, q \in Pinging :
    p # q => \/ p \in HasPinged /\ started[q] - answered[p] >= cacheTTL
             \/ q \in HasPinged /\ started[p] - answered[q] >= cacheTTL

\* A probe reports what a ping that ended less than cacheTTL ago has found.
AnswersRecent ==
  \A p \in Probe :
    pc[p] = "answered" =>
      \E q \in HasPinged : /\ answer[q] = answer[p]
                           /\ answered[p] - answered[q] \in 0 .. (cacheTTL - 1)
=============================================================================
