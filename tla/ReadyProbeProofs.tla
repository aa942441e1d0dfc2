-------------------------- MODULE ReadyProbeProofs --------------------------
(***************************************************************************)
(* Proofs about ReadyProbe, for any probes, TTL and bound on the clock.    *)
(***************************************************************************)
EXTENDS ReadyProbe, TLAPS

USE DEF Never, Pinging, HasPinged

\* The pings are the probes that have been under the write lock, and the cache
\* holds the result and the date of the last one that has ended.
CacheOfLastPing ==
  /\ \A p \in Probe : pc[p] = "pinging" => started[p] # Never
  /\ \A p \in Pinging : pc[p] \in {"pinging", "answered"} /\ started[p] <= now
  /\ \A p \in HasPinged : answered[p] <= lastCheckTime
  /\ \/ lastCheckTime = - cacheTTL
     \/ \E q \in HasPinged : answered[q] = lastCheckTime /\ answer[q] = cachedAllHealthy

Inv == TypeOK /\ CacheOfLastPing /\ PingsSpaced /\ AnswersRecent

\* An answer from the cache is the answer of the last ping.
LEMMA CachedAnswer ==
  ASSUME Inv, NEW p \in Probe, pc[p] \in {"idle", "stale"}, Fresh, Answer(p, cachedAllHealthy),
         UNCHANGED <<now, cache, mu, started>>
  PROVE  Inv'
<1> USE DEF Inv, TypeOK, CacheOfLastPing, Answer, cache
<1>1. TypeOK'
  OBVIOUS
<1>2. p \notin Pinging
  OBVIOUS
<1>3. /\ Pinging' = Pinging /\ HasPinged' = HasPinged
      /\ \A q \in Probe : q # p => answered'[q] = answered[q] /\ answer'[q] = answer[q]
  BY <1>2
<1>4. CacheOfLastPing'
  BY <1>2, <1>3
<1>5. PingsSpaced'
  BY <1>2, <1>3 DEF PingsSpaced
<1>6. PICK last \in HasPinged : answered[last] = lastCheckTime /\ answer[last] = cachedAllHealthy
  BY TTLAssumption DEF Fresh
<1>7. AnswersRecent'
  <2> SUFFICES ASSUME NEW q \in Probe, pc'[q] = "answered"
               PROVE  \E s \in HasPinged' : /\ answer'[s] = answer'[q]
                                            /\ answered'[q] - answered'[s] \in 0 .. (cacheTTL - 1)
    BY DEF AnswersRecent
  <2>1. CASE q = p
    <3>1. answer'[p] = cachedAllHealthy /\ answered'[p] = now
      OBVIOUS
    <3>2. now - lastCheckTime \in 0 .. (cacheTTL - 1)
      BY TTLAssumption DEF Fresh
    <3>3. last # p /\ last \in HasPinged'
      BY <1>2, <1>3, <1>6
    <3> QED
      BY <1>3, <1>6, <2>1, <3>1, <3>2, <3>3
  <2>2. CASE q # p
    <3>1. pc[q] = "answered"
      BY <2>2
    <3>2. PICK s \in HasPinged : /\ answer[s] = answer[q]
                                 /\ answered[q] - answered[s] \in 0 .. (cacheTTL - 1)
      BY <3>1 DEF AnswersRecent
    <3>3. s # p /\ s \in HasPinged'
      BY <1>2, <1>3, <3>2
    <3> QED
      BY <1>3, <2>2, <3>2, <3>3
  <2> QED
    BY <2>1, <2>2
<1> QED
  BY <1>1, <1>4, <1>5, <1>7

\* The lock is taken with a stale cache: all pings ended cacheTTL ago or more.
LEMMA PingStarts ==
  ASSUME Inv, NEW p \in Probe, pc[p] = "stale", mu = {}, ~Fresh,
         mu' = {p}, pc' = [pc EXCEPT ![p] = "pinging"], started' = [started EXCEPT ![p] = now],
         UNCHANGED <<now, cache, answer, answered>>
  PROVE  Inv'
<1> USE DEF Inv, TypeOK, CacheOfLastPing, cache
<1>1. TypeOK'
  OBVIOUS
<1>2. /\ p \notin Pinging
      /\ Pinging' = Pinging \cup {p} /\ HasPinged' = HasPinged
      /\ \A q \in Pinging : q \in HasPinged
  OBVIOUS
<1>3. CacheOfLastPing'
  BY <1>2
<1>4. \A q \in HasPinged : now - answered[q] >= cacheTTL
  BY TTLAssumption DEF Fresh
<1>5. PingsSpaced'
  BY <1>2, <1>4 DEF PingsSpaced
<1>6. AnswersRecent'
  BY <1>2 DEF AnswersRecent
<1> QED
  BY <1>1, <1>3, <1>5, <1>6

LEMMA PingEnds ==
  ASSUME Inv, NEW p \in Probe, Pinged(p)
  PROVE  Inv'
<1> USE DEF Inv, TypeOK, CacheOfLastPing, Pinged, Answer
<1>1. TypeOK'
  OBVIOUS
<1>2. /\ p \in Pinging /\ p \notin HasPinged
      /\ Pinging' = Pinging /\ HasPinged' = HasPinged \cup {p}
      /\ \A q \in Probe : q # p => answered'[q] = answered[q] /\ answer'[q] = answer[q]
  OBVIOUS
<1>3. lastCheckTime' = now /\ answered'[p] = now /\ answer'[p] = cachedAllHealthy'
  OBVIOUS
<1>4. CacheOfLastPing'
  BY <1>2, <1>3
<1>5. PingsSpaced'
  BY <1>2 DEF PingsSpaced
<1>6. AnswersRecent'
  <2> SUFFICES ASSUME NEW q \in Probe, pc'[q] = "answered"
               PROVE  \E s \in HasPinged' : /\ answer'[s] = answer'[q]
                                            /\ answered'[q] - answered'[s] \in 0 .. (cacheTTL - 1)
    BY DEF AnswersRecent
  <2>1. CASE q = p
    BY <1>2, <1>3, <2>1, TTLAssumption
  <2>2. CASE q # p
    <3>1. PICK s \in HasPinged : /\ answer[s] = answer[q]
                                 /\ answered[q] - answered[s] \in 0 .. (cacheTTL - 1)
      BY <2>2 DEF AnswersRecent
    <3> QED
      BY <1>2, <2>2, <3>1
  <2> QED
    BY <2>1, <2>2
<1> QED
  BY <1>1, <1>4, <1>5, <1>6

\* A step that changes nothing but the clock, or sends a probe to the lock.
LEMMA ProbeQuiet ==
  ASSUME Inv, now' \in {now, now + 1}, UNCHANGED <<cache, mu, started, answer, answered>>,
         \/ pc' = pc
         \/ \E p \in Probe : pc[p] = "idle" /\ pc' = [pc EXCEPT ![p] = "stale"]
  PROVE  Inv'
<1> USE DEF Inv, TypeOK, CacheOfLastPing, cache
<1>1. TypeOK'
  OBVIOUS
<1>2. /\ Pinging' = Pinging /\ HasPinged' = HasPinged
      /\ \A q \in Probe : pc'[q] = "answered" <=> pc[q] = "answered"
  OBVIOUS
<1>3. CacheOfLastPing'
  BY <1>2
<1>4. PingsSpaced'
  BY <1>2 DEF PingsSpaced
<1>5. AnswersRecent'
  BY <1>2 DEF AnswersRecent
<1> QED
  BY <1>1, <1>3, <1>4, <1>5

LEMMA InvInductive == Spec => []Inv
<1>1. Init => Inv
  <2> SUFFICES ASSUME Init
               PROVE  Inv
    OBVIOUS
  <2>1. Pinging = {} /\ HasPinged = {} /\ \A p \in Probe : pc[p] = "idle"
    BY DEF Init
  <2>2. TypeOK
    <3>1. mu = {} /\ {p \in Probe : pc[p] = "pinging"} = {}
      BY DEF Init
    <3>2. - cacheTTL \in Int /\ - cacheTTL <= 0
      BY TTLAssumption
    <3> QED
      BY <3>1, <3>2 DEF Init, TypeOK
  <2>3. CacheOfLastPing
    BY <2>1 DEF Init, CacheOfLastPing
  <2>4. PingsSpaced /\ AnswersRecent
    BY <2>1 DEF PingsSpaced, AnswersRecent
  <2> QED
    BY <2>2, <2>3, <2>4 DEF Inv
<1>2. Inv /\ [Next]_vars => Inv'
  <2> SUFFICES ASSUME Inv, [Next]_vars
               PROVE  Inv'
    OBVIOUS
  <2>1. ASSUME NEW p \in Probe, Look(p)
        PROVE  Inv'
    <3>1. CASE Fresh
      BY <2>1, <3>1, CachedAnswer DEF Look
    <3>2. CASE ~Fresh
      BY <2>1, <3>2, ProbeQuiet DEF Look
    <3> QED
      BY <3>1, <3>2
  <2>2. ASSUME NEW p \in Probe, Lock(p)
        PROVE  Inv'
    <3>1. CASE Fresh
      BY <2>2, <3>1, CachedAnswer DEF Lock
    <3>2. CASE ~Fresh
      BY <2>2, <3>2, PingStarts DEF Lock
    <3> QED
      BY <3>1, <3>2
  <2>3. ASSUME NEW p \in Probe, Pinged(p)
        PROVE  Inv'
    BY <2>3, PingEnds
  <2>4. CASE Tick
    BY <2>4, ProbeQuiet DEF Tick
  <2>5. CASE UNCHANGED vars
    BY <2>5, ProbeQuiet DEF vars, cache
  <2> QED
    BY <2>1, <2>2, <2>3, <2>4, <2>5 DEF Next
<1> QED
  BY <1>1, <1>2, PTL DEF Spec

\* A probe that pings holds the write lock, and only such a probe does (Ready).
THEOREM TypeCorrect == Spec => []TypeOK
  BY InvInductive, PTL DEF Inv

\* However many probes find the cache stale together, pings never overlap and
\* are cacheTTL apart (Ready: the second look under the write lock).
THEOREM PingsAreSpaced == Spec => []PingsSpaced
  BY InvInductive, PTL DEF Inv

\* No probe reports a health older than cacheTTL, or one no ping has found.
THEOREM AnswersAreRecent == Spec => []AnswersRecent
  BY InvInductive, PTL DEF Inv
=============================================================================
