------------------------- MODULE RateLimiterProofs --------------------------
(***************************************************************************)
(* Proofs about RateLimiter, for any requests, addresses, limit, window    *)
(* and bound on the clock.                                                 *)
(***************************************************************************)
EXTENDS RateLimiter, FiniteSetTheorems, TLAPS

\* The window a request is counted in.
LEMMA WindowTypes ==
  ASSUME TypeOK, NEW i \in IP, ~Full(i)
  PROVE  /\ count(i) \in Nat /\ count(i) + 1 \in 1 .. limit
         /\ reset(i) \in Nat
  BY LimitAssumption DEF TypeOK, Full, count, reset, NewWindow

LEMMA PassTyped ==
  ASSUME TypeOK, NEW r \in Request, Admit(r)
  PROVE  TypeOK'
<1> DEFINE i == clientIP[r]
<1>1. i \in IP /\ ~Full(i) /\ count(i) + 1 \in 1 .. limit /\ reset(i) \in Nat
  BY WindowTypes DEF TypeOK, Admit, Pass
<1>2. /\ requests' = Put(requests, i, count(i) + 1)
      /\ resetTime' = Put(resetTime, i, reset(i))
  BY DEF Admit, Pass
<1>3. /\ DOMAIN requests' \subseteq IP /\ DOMAIN resetTime' = DOMAIN requests'
      /\ requests' \in [DOMAIN requests' -> 1 .. limit]
      /\ resetTime' \in [DOMAIN requests' -> Nat]
  BY <1>1, <1>2 DEF TypeOK, Put
<1>4. limit - (count(i) + 1) \in Int
  BY <1>1, LimitAssumption
<1>5. header' \in [Request -> [remaining : Int, reset : Nat]]
  BY <1>1, <1>4 DEF TypeOK, Admit, Pass
<1> QED
  BY <1>3, <1>5 DEF TypeOK, Admit, Pass

LEMMA TypeInductive == TypeOK /\ [Next]_vars => TypeOK'
<1> SUFFICES ASSUME TypeOK, [Next]_vars
             PROVE  TypeOK'
  OBVIOUS
<1>1. ASSUME NEW r \in Request, Arrive(r)
      PROVE  TypeOK'
  BY <1>1 DEF TypeOK, Arrive, maps
<1>2. ASSUME NEW r \in Request, Refuse(r)
      PROVE  TypeOK'
  BY <1>2 DEF TypeOK, Refuse, maps
<1>3. ASSUME NEW r \in Request, Admit(r)
      PROVE  TypeOK'
  BY <1>3, PassTyped
<1>4. ASSUME NEW r \in Request, Return(r)
      PROVE  TypeOK'
  BY <1>4 DEF TypeOK, Return, maps
<1>5. CASE cleanup
  BY <1>5 DEF TypeOK, cleanup, Restrict, slots
<1>6. CASE Tick
  BY <1>6 DEF TypeOK, Tick, maps, slots
<1>7. CASE UNCHANGED vars
  BY <1>7 DEF TypeOK, vars, maps, slots
<1> QED
  BY <1>1, <1>2, <1>3, <1>4, <1>5, <1>6, <1>7 DEF Next

\* The maps keep the same addresses and no window counts past the limit
\* (LimitMiddleware, cleanup).
THEOREM TypeCorrect == Spec => []TypeOK
<1>1. Init => TypeOK
  BY DEF Init, TypeOK
<1> QED
  BY <1>1, TypeInductive, PTL DEF Spec

-----------------------------------------------------------------------------
(* The mutex.                                                              *)

Locked == \A r \in Request : pc[r] = "handling" <=> r \in mu

LEMMA LockInductive ==
  ASSUME TypeOK, Locked, HandlersSerialized, [Next]_vars
  PROVE  Locked' /\ HandlersSerialized'
<1> USE DEF TypeOK, Locked, HandlersSerialized
<1>1. ASSUME NEW r \in Request, Arrive(r) \/ Refuse(r) \/ Return(r)
      PROVE  Locked' /\ HandlersSerialized'
  BY <1>1 DEF Arrive, Refuse, Return
<1>2. ASSUME NEW r \in Request, Admit(r)
      PROVE  Locked' /\ HandlersSerialized'
  BY <1>2 DEF Admit, Pass
<1>3. CASE cleanup \/ Tick \/ UNCHANGED vars
  BY <1>3 DEF cleanup, Tick, vars, slots
<1> QED
  BY <1>1, <1>2, <1>3 DEF Next

\* Behind the middleware no two handlers overlap (LimitMiddleware: the
\* deferred unlock runs after c.Next()).
THEOREM HandlersAreSerialized == Spec => []HandlersSerialized
<1>1. Init => Locked /\ HandlersSerialized
  BY DEF Init, Locked, HandlersSerialized
<1>2. TypeOK /\ (Locked /\ HandlersSerialized) /\ [Next]_vars => (Locked /\ HandlersSerialized)'
  BY LockInductive
<1> QED
  BY <1>1, <1>2, TypeCorrect, PTL DEF Spec

-----------------------------------------------------------------------------
(* The budget.                                                             *)

\* What the maps remember of the windows that served requests: a window that
\* was dropped or replaced has ended, and the remaining budgets told in the
\* current one are the ones already used up.
Budget ==
  \A i \in IP : \A r \in Admitted(i) :
    /\ header[r].remaining \in 0 .. (limit - 1)
    /\ i \notin DOMAIN resetTime => header[r].reset < now
    /\ i \in DOMAIN resetTime => /\ header[r].reset <= resetTime[i]
                                 /\ header[r].reset = resetTime[i] =>
                                      header[r].remaining >= limit - requests[i]

Truthful == Budget /\ HeadersTruthful

\* A step that lets nobody through and at most drops ended windows.
LEMMA TruthfulQuiet ==
  ASSUME TypeOK, TypeOK', Truthful,
         now' \in {now, now + 1}, clientIP' = clientIP, header' = header,
         \A i \in IP : Admitted(i)' = Admitted(i),
         DOMAIN resetTime' \subseteq DOMAIN resetTime,
         \A i \in DOMAIN resetTime' : resetTime'[i] = resetTime[i] /\ requests'[i] = requests[i],
         \A i \in DOMAIN resetTime \ DOMAIN resetTime' : now > resetTime[i]
  PROVE  Truthful'
<1>1. ASSUME NEW i \in IP, NEW r \in Admitted(i)'
      PROVE  /\ header'[r].remaining \in 0 .. (limit - 1)
             /\ i \notin DOMAIN resetTime' => header'[r].reset < now'
             /\ i \in DOMAIN resetTime' => /\ header'[r].reset <= resetTime'[i]
                                           /\ header'[r].reset = resetTime'[i] =>
                                                header'[r].remaining >= limit - requests'[i]
  <2>1. /\ r \in Admitted(i) /\ r \in Request /\ now \in Nat /\ header[r].reset \in Nat
        /\ i \in DOMAIN resetTime => resetTime[i] \in Nat
    BY <1>1 DEF Admitted, TypeOK
  <2> QED
    BY <2>1 DEF Truthful, Budget
<1>2. HeadersTruthful'
  BY DEF Truthful, HeadersTruthful
<1> QED
  BY <1>1, <1>2 DEF Truthful, Budget

\* The request let through is told less than all before it in its window.
LEMMA TruthfulAdmit ==
  ASSUME TypeOK, TypeOK', Truthful, NEW r \in Request, Admit(r)
  PROVE  Truthful'
<1>0. PICK i \in IP : i = clientIP[r]
  BY DEF TypeOK
<1>1. /\ count(i) \in Nat /\ count(i) + 1 \in 1 .. limit /\ reset(i) \in Nat
      /\ limit \in Nat /\ windowDuration \in Nat \ {0} /\ now \in Nat /\ now' = now
  BY <1>0, WindowTypes, LimitAssumption DEF TypeOK, Admit, Pass
<1>2. /\ requests' = Put(requests, i, count(i) + 1)
      /\ resetTime' = Put(resetTime, i, reset(i))
      /\ clientIP' = clientIP
      /\ header' = [header EXCEPT ![r] =
                      [remaining |-> limit - (count(i) + 1), reset |-> reset(i)]]
      /\ pc' = [pc EXCEPT ![r] = "handling"] /\ pc[r] = "waiting"
  BY <1>0 DEF Admit, Pass
<1>3. /\ DOMAIN resetTime' = DOMAIN resetTime \cup {i}
      /\ resetTime'[i] = reset(i) /\ requests'[i] = count(i) + 1
      /\ \A j \in DOMAIN resetTime : j # i => /\ resetTime'[j] = resetTime[j]
                                              /\ requests'[j] = requests[j]
  BY <1>2 DEF Put, TypeOK
<1>4. /\ header'[r].remaining = limit - (count(i) + 1) /\ header'[r].reset = reset(i)
      /\ \A q \in Request : q # r => header'[q] = header[q]
  BY <1>2 DEF TypeOK
<1>5. /\ Admitted(i)' = Admitted(i) \cup {r} /\ r \notin Admitted(i)
      /\ \A j \in IP : j # i => Admitted(j)' = Admitted(j) /\ r \notin Admitted(j)
  BY <1>0, <1>2 DEF Admitted, TypeOK
<1>6. ASSUME NEW q \in Admitted(i)
      PROVE  /\ header[q].remaining \in 0 .. (limit - 1)
             /\ header[q].reset <= reset(i)
             /\ header[q].reset = reset(i) => header[q].remaining >= limit - count(i)
  <2>1. q \in Request /\ header[q].reset \in Nat /\ header[q].remaining \in Int
    BY DEF Admitted, TypeOK
  <2>2. i \in DOMAIN resetTime => resetTime[i] \in Nat /\ requests[i] \in Nat
    BY DEF TypeOK
  <2>3. /\ header[q].remaining \in 0 .. (limit - 1)
        /\ i \notin DOMAIN resetTime => header[q].reset < now
        /\ i \in DOMAIN resetTime =>
             /\ header[q].reset <= resetTime[i]
             /\ header[q].reset = resetTime[i] => header[q].remaining >= limit - requests[i]
    BY <1>1 DEF Truthful, Budget
  <2>4. CASE NewWindow(i)
    BY <1>1, <2>1, <2>2, <2>3, <2>4 DEF NewWindow, reset
  <2>5. CASE ~NewWindow(i)
    BY <1>1, <2>1, <2>2, <2>3, <2>5 DEF NewWindow, reset, count
  <2> QED
    BY <2>4, <2>5
<1>7. Budget'
  <2> SUFFICES ASSUME NEW j \in IP, NEW q \in Admitted(j)'
               PROVE  /\ header'[q].remaining \in 0 .. (limit - 1)
                      /\ j \notin DOMAIN resetTime' => header'[q].reset < now'
                      /\ j \in DOMAIN resetTime' =>
                           /\ header'[q].reset <= resetTime'[j]
                           /\ header'[q].reset = resetTime'[j] =>
                                header'[q].remaining >= limit - requests'[j]
    BY DEF Budget
  <2>1. q \in Request
    BY DEF Admitted
  <2>2. CASE j = i /\ q = r
    BY <1>1, <1>3, <1>4, <2>2
  <2>3. CASE j = i /\ q # r
    <3>1. q \in Admitted(i) /\ header'[q] = header[q]
      BY <1>4, <1>5, <2>1, <2>3
    <3>2. header[q].remaining \in Int /\ header[q].reset \in Nat
      BY <2>1 DEF TypeOK
    <3> QED
      BY <1>1, <1>3, <1>6, <2>3, <3>1, <3>2
  <2>4. CASE j # i
    <3>1. q \in Admitted(j) /\ header'[q] = header[q]
      BY <1>4, <1>5, <2>1, <2>4
    <3> QED
      BY <1>1, <1>3, <2>4, <3>1 DEF Truthful, Budget
  <2> QED
    BY <2>2, <2>3, <2>4
<1>8. HeadersTruthful'
  <2>2. ASSUME NEW q \in Admitted(i)
        PROVE  ~(header[q].reset = reset(i) /\ header[q].remaining = limit - (count(i) + 1))
    <3>1. header[q].remaining \in Int
      BY <1>6
    <3> QED
      BY <1>1, <1>6, <3>1
  <2> SUFFICES ASSUME NEW j \in IP, NEW p \in Admitted(j)', NEW q \in Admitted(j)'
               PROVE  /\ header'[p].remaining \in 0 .. (limit - 1)
                      /\ header'[p].reset = header'[q].reset
                           /\ header'[p].remaining = header'[q].remaining => p = q
    BY DEF HeadersTruthful
  <2>3. header'[p].remaining \in 0 .. (limit - 1)
    BY <1>7 DEF Budget
  <2>4. p \in Request /\ q \in Request
    BY DEF Admitted
  <2>5. CASE p # r /\ q # r
    <3>1. p \in Admitted(j) /\ q \in Admitted(j) /\ header'[p] = header[p] /\ header'[q] = header[q]
      BY <1>4, <1>5, <2>4, <2>5
    <3> QED
      BY <2>3, <3>1 DEF Truthful, HeadersTruthful
  <2>6. CASE p = r \/ q = r
    BY <1>4, <1>5, <2>2, <2>3, <2>4, <2>6
  <2> QED
    BY <2>5, <2>6
<1> QED
  BY <1>7, <1>8 DEF Truthful

LEMMA TruthfulInductive == TypeOK /\ TypeOK' /\ Truthful /\ [Next]_vars => Truthful'
<1> SUFFICES ASSUME TypeOK, TypeOK', Truthful, [Next]_vars
             PROVE  Truthful'
  OBVIOUS
<1>1. now \in Nat
  BY DEF TypeOK
<1>2. ASSUME NEW r \in Request, Arrive(r) \/ Refuse(r) \/ Return(r)
      PROVE  Truthful'
  <2>1. \A i \in IP : Admitted(i)' = Admitted(i)
    BY <1>2 DEF Admitted, TypeOK, Arrive, Refuse, Return
  <2> QED
    BY <1>2, <2>1, TruthfulQuiet DEF Arrive, Refuse, Return, maps
<1>3. ASSUME NEW r \in Request, Admit(r)
      PROVE  Truthful'
  BY <1>3, TruthfulAdmit
<1>4. CASE cleanup
  <2>1. \A i \in IP : Admitted(i)' = Admitted(i)
    BY <1>4 DEF Admitted, cleanup, slots
  <2>2. /\ DOMAIN resetTime' \subseteq DOMAIN resetTime
        /\ \A i \in DOMAIN resetTime' : resetTime'[i] = resetTime[i] /\ requests'[i] = requests[i]
        /\ \A i \in DOMAIN resetTime \ DOMAIN resetTime' : now > resetTime[i]
    BY <1>4 DEF cleanup, Restrict
  <2> QED
    BY <1>4, <2>1, <2>2, TruthfulQuiet DEF cleanup, slots
<1>5. CASE Tick \/ UNCHANGED vars
  <2>1. \A i \in IP : Admitted(i)' = Admitted(i)
    BY <1>5 DEF Admitted, Tick, vars, slots
  <2> QED
    BY <1>5, <2>1, TruthfulQuiet DEF Tick, vars, maps, slots
<1> QED
  BY <1>2, <1>3, <1>4, <1>5 DEF Next

\* No window serves an address past the limit, and the headers number what is
\* left of it without a repetition, whatever the clean-up drops
\* (LimitMiddleware, cleanup).
THEOREM HeadersAreTruthful == Spec => []HeadersTruthful
<1>1. Init => Truthful
  BY DEF Init, Truthful, Budget, HeadersTruthful, Admitted
<1> QED
  BY <1>1, TruthfulInductive, TypeCorrect, PTL DEF Spec, Truthful

-----------------------------------------------------------------------------
(* The sliding bound.                                                      *)

\* A window is as long as windowDuration, it ends after the clock when it is
\* opened, and the next one is opened when it has ended.
Windows ==
  /\ \A i \in DOMAIN resetTime : resetTime[i] <= now + windowDuration
  /\ \A i \in IP : \A r \in Admitted(i) :
       /\ header[r].reset - windowDuration <= admitted[r]
       /\ admitted[r] <= header[r].reset
       /\ i \in DOMAIN resetTime /\ header[r].reset < resetTime[i] =>
            header[r].reset + windowDuration < resetTime[i]
       /\ \A q \in Admitted(i) :
            header[r].reset < header[q].reset =>
              header[r].reset + windowDuration < header[q].reset

LEMMA WindowsQuiet ==
  ASSUME TypeOK, Windows, now' \in {now, now + 1}, UNCHANGED <<header, admitted>>,
         \A i \in IP : Admitted(i)' = Admitted(i),
         DOMAIN resetTime' \subseteq DOMAIN resetTime,
         \A i \in DOMAIN resetTime' : resetTime'[i] = resetTime[i]
  PROVE  Windows'
<1>1. now \in Nat /\ windowDuration \in Nat /\ \A i \in DOMAIN resetTime : resetTime[i] \in Nat
  BY LimitAssumption DEF TypeOK
<1>2. \A i \in DOMAIN resetTime' : resetTime'[i] <= now' + windowDuration
  BY <1>1 DEF Windows
<1> QED
  BY <1>2 DEF Windows

LEMMA WindowsAdmit ==
  ASSUME TypeOK, Budget, Windows, NEW r \in Request, Admit(r)
  PROVE  Windows'
<1>0. PICK i \in IP : i = clientIP[r]
  BY DEF TypeOK
<1>1. /\ ~Full(i) /\ reset(i) \in Nat
      /\ windowDuration \in Nat \ {0} /\ now \in Nat /\ now' = now
  BY <1>0, WindowTypes, LimitAssumption DEF TypeOK, Admit, Pass
<1>2. /\ resetTime' = Put(resetTime, i, reset(i))
      /\ clientIP' = clientIP
      /\ header' = [header EXCEPT ![r] =
                      [remaining |-> limit - (count(i) + 1), reset |-> reset(i)]]
      /\ admitted' = [admitted EXCEPT ![r] = now]
      /\ pc' = [pc EXCEPT ![r] = "handling"] /\ pc[r] = "waiting"
  BY <1>0 DEF Admit, Pass
<1>3. now <= reset(i) /\ reset(i) <= now + windowDuration
  BY <1>1 DEF reset, NewWindow, Windows, TypeOK
<1>4. \A j \in DOMAIN resetTime' : resetTime'[j] <= now' + windowDuration
  BY <1>1, <1>2, <1>3 DEF Put, Windows
<1>5. /\ header'[r].reset = reset(i) /\ admitted'[r] = now
      /\ \A q \in Request : q # r => header'[q] = header[q] /\ admitted'[q] = admitted[q]
  BY <1>2 DEF TypeOK
<1>6. /\ Admitted(i)' = Admitted(i) \cup {r} /\ r \notin Admitted(i)
      /\ \A j \in IP : j # i => Admitted(j)' = Admitted(j) /\ r \notin Admitted(j)
  BY <1>0, <1>2 DEF Admitted, TypeOK
<1>7. ASSUME NEW q \in Admitted(i)
      PROVE  /\ header[q].reset \in Nat
             /\ header[q].reset <= reset(i)
             /\ header[q].reset < reset(i) => header[q].reset + windowDuration < reset(i)
  <2>1. q \in Request /\ header[q].reset \in Nat
    BY DEF Admitted, TypeOK
  <2>2. /\ i \in DOMAIN resetTime => resetTime[i] \in Nat /\ header[q].reset <= resetTime[i]
        /\ i \notin DOMAIN resetTime => header[q].reset < now
    BY DEF Budget, TypeOK
  <2>3. CASE NewWindow(i)
    BY <1>1, <2>1, <2>2, <2>3 DEF NewWindow, reset
  <2>4. CASE ~NewWindow(i)
    BY <1>1, <2>1, <2>2, <2>4 DEF NewWindow, reset, Windows
  <2> QED
    BY <2>3, <2>4
<1>8. /\ resetTime'[i] = reset(i)
      /\ \A j \in DOMAIN resetTime' : j # i => j \in DOMAIN resetTime /\ resetTime'[j] = resetTime[j]
  BY <1>2 DEF Put
<1>9. ASSUME NEW j \in IP, NEW p \in Admitted(j)'
      PROVE  /\ header'[p].reset - windowDuration <= admitted'[p]
             /\ admitted'[p] <= header'[p].reset
             /\ j \in DOMAIN resetTime' /\ header'[p].reset < resetTime'[j] =>
                  header'[p].reset + windowDuration < resetTime'[j]
             /\ \A q \in Admitted(j)' :
                  header'[p].reset < header'[q].reset =>
                    header'[p].reset + windowDuration < header'[q].reset
  <2>1. p \in Request /\ \A q \in Admitted(j)' : q \in Request
    BY DEF Admitted
  <2>2. CASE j = i /\ p = r
    <3>1. \A q \in Admitted(i) : header'[q] = header[q]
      BY <1>5, <1>6 DEF Admitted
    <3> QED
      BY <1>1, <1>3, <1>5, <1>6, <1>7, <1>8, <2>2, <3>1
  <2>3. CASE j = i /\ p # r
    <3>1. p \in Admitted(i) /\ header'[p] = header[p] /\ admitted'[p] = admitted[p]
      BY <1>5, <1>6, <2>1, <2>3
    <3>2. \A q \in Admitted(i) : header'[q] = header[q]
      BY <1>5, <1>6 DEF Admitted
    <3>3. /\ header[p].reset - windowDuration <= admitted[p]
          /\ admitted[p] <= header[p].reset
          /\ \A q \in Admitted(i) : header[p].reset < header[q].reset =>
               header[p].reset + windowDuration < header[q].reset
      BY <3>1 DEF Windows
    <3> QED
      BY <1>5, <1>6, <1>7, <1>8, <2>3, <3>1, <3>2, <3>3
  <2>4. CASE j # i
    <3>1. /\ Admitted(j)' = Admitted(j)
          /\ \A q \in Admitted(j) : header'[q] = header[q] /\ admitted'[q] = admitted[q]
      BY <1>5, <1>6, <2>4 DEF Admitted
    <3> QED
      BY <1>8, <2>4, <3>1 DEF Windows
  <2> QED
    BY <2>2, <2>3, <2>4
<1> QED
  BY <1>4, <1>9 DEF Windows

LEMMA WindowsInductive == TypeOK /\ Budget /\ Windows /\ [Next]_vars => Windows'
<1> SUFFICES ASSUME TypeOK, Budget, Windows, [Next]_vars
             PROVE  Windows'
  OBVIOUS
<1>1. ASSUME NEW r \in Request, Arrive(r) \/ Refuse(r) \/ Return(r)
      PROVE  Windows'
  <2>1. \A i \in IP : Admitted(i)' = Admitted(i)
    BY <1>1 DEF Admitted, TypeOK, Arrive, Refuse, Return
  <2> QED
    BY <1>1, <2>1, WindowsQuiet DEF Arrive, Refuse, Return, maps
<1>2. ASSUME NEW r \in Request, Admit(r)
      PROVE  Windows'
  BY <1>2, WindowsAdmit
<1>3. CASE cleanup
  <2>1. /\ \A i \in IP : Admitted(i)' = Admitted(i)
        /\ DOMAIN resetTime' \subseteq DOMAIN resetTime
        /\ \A i \in DOMAIN resetTime' : resetTime'[i] = resetTime[i]
    BY <1>3 DEF Admitted, cleanup, slots, Restrict
  <2> QED
    BY <1>3, <2>1, WindowsQuiet DEF cleanup, slots
<1>4. CASE Tick \/ UNCHANGED vars
  <2>1. \A i \in IP : Admitted(i)' = Admitted(i)
    BY <1>4 DEF Admitted, Tick, vars, slots
  <2> QED
    BY <1>4, <2>1, WindowsQuiet DEF Tick, vars, maps, slots
<1> QED
  BY <1>1, <1>2, <1>3, <1>4 DEF Next

\* The requests served in the window that ends at "end".
ServedIn(i, end) == {r \in Admitted(i) : header[r].reset = end}

LEMMA WindowServesLimit ==
  ASSUME HeadersTruthful, NEW i \in IP, NEW end
  PROVE  /\ IsFiniteSet(ServedIn(i, end))
         /\ Cardinality(ServedIn(i, end)) \in Nat
         /\ Cardinality(ServedIn(i, end)) <= limit
<1> DEFINE S == ServedIn(i, end)
           f == [r \in S |-> header[r].remaining]
<1>1. f \in Injection(S, 0 .. (limit - 1))
  BY DEF HeadersTruthful, ServedIn, Injection, IsInjective
<1>2. limit \in Nat /\ limit # 0
  BY LimitAssumption
<1>3. IsFiniteSet(0 .. (limit - 1)) /\ Cardinality(0 .. (limit - 1)) = limit
  BY <1>2, FS_Interval
<1>4. IsFiniteSet(S) /\ Cardinality(S) <= limit
  BY <1>1, <1>3, FS_Injection
<1> QED
  BY <1>4, FS_CardinalityType

\* A span as long as a window meets at most two of them.
LEMMA SpanMeetsTwoWindows ==
  ASSUME TypeOK, Windows, NEW i \in IP, NEW from \in Nat
  PROVE  \E a, b \in Nat :
           {r \in Admitted(i) : from <= admitted[r] /\ admitted[r] <= from + windowDuration}
             \subseteq ServedIn(i, a) \cup ServedIn(i, b)
<1> DEFINE S == {r \in Admitted(i) : from <= admitted[r] /\ admitted[r] <= from + windowDuration}
<1> SUFFICES \E a, b \in Nat : S \subseteq ServedIn(i, a) \cup ServedIn(i, b)
  OBVIOUS
<1>1. windowDuration \in Nat /\ \A r \in S : header[r].reset \in Nat /\ admitted[r] \in Nat
  BY LimitAssumption DEF TypeOK, Admitted
<1>2. \A r \in S : /\ from <= header[r].reset
                   /\ header[r].reset <= from + windowDuration + windowDuration
  BY <1>1 DEF Windows
<1>3. \A r, q \in S : header[r].reset < header[q].reset =>
                        header[r].reset + windowDuration < header[q].reset
  BY DEF Windows
<1>4. CASE S = {}
  BY <1>4
<1>5. CASE \E r \in S : \A q \in S : header[q].reset = header[r].reset
  <2>1. PICK r \in S : \A q \in S : header[q].reset = header[r].reset
    BY <1>5
  <2>2. S \subseteq ServedIn(i, header[r].reset) \cup ServedIn(i, header[r].reset)
    BY <2>1 DEF ServedIn
  <2>3. header[r].reset \in Nat
    BY <1>1
  <2> HIDE DEF S
  <2> QED
    BY <2>2, <2>3
<1>6. CASE \E r, q \in S : header[r].reset < header[q].reset
  <2>1. PICK r \in S, q \in S : header[r].reset < header[q].reset
    BY <1>6
  <2>2. ASSUME NEW p \in S
        PROVE  header[p].reset = header[r].reset \/ header[p].reset = header[q].reset
    <3>1. ~(header[p].reset < header[r].reset)
      BY <1>1, <1>2, <1>3, <2>1
    <3>2. ~(header[r].reset < header[p].reset /\ header[p].reset < header[q].reset)
      BY <1>1, <1>2, <1>3, <2>1
    <3>3. ~(header[q].reset < header[p].reset)
      BY <1>1, <1>2, <1>3, <2>1
    <3> QED
      BY <1>1, <3>1, <3>2, <3>3
  <2>3. S \subseteq ServedIn(i, header[r].reset) \cup ServedIn(i, header[q].reset)
    BY <2>2 DEF ServedIn
  <2>4. header[r].reset \in Nat /\ header[q].reset \in Nat
    BY <1>1
  <2> HIDE DEF S
  <2> QED
    BY <2>3, <2>4
<1>7. S = {} \/ (\E r \in S : \A q \in S : header[q].reset = header[r].reset)
             \/ (\E r, q \in S : header[r].reset < header[q].reset)
  BY <1>1
<1> HIDE DEF S
<1> QED
  BY <1>4, <1>5, <1>6, <1>7

\* No span as long as a window serves an address more than twice the limit
\* (LimitMiddleware, cleanup).
THEOREM SlidingBoundHolds == Spec => []SlidingBound
<1>1. Init => Windows
  BY DEF Init, Windows, Admitted
<1>2. TypeOK /\ HeadersTruthful /\ Windows => SlidingBound
  <2> SUFFICES ASSUME TypeOK, HeadersTruthful, Windows, NEW i \in IP, NEW from \in 0 .. now
               PROVE  Cardinality({r \in Admitted(i) : /\ from <= admitted[r]
                                                       /\ admitted[r] <= from + windowDuration})
                        <= 2 * limit
    BY DEF SlidingBound
  <2> DEFINE S == {r \in Admitted(i) : from <= admitted[r] /\ admitted[r] <= from + windowDuration}
  <2>0. from \in Nat
    BY DEF TypeOK
  <2>1. PICK a \in Nat, b \in Nat : S \subseteq ServedIn(i, a) \cup ServedIn(i, b)
    BY <2>0, SpanMeetsTwoWindows
  <2> DEFINE A == ServedIn(i, a)
             B == ServedIn(i, b)
  <2>2. /\ IsFiniteSet(A) /\ Cardinality(A) \in Nat /\ Cardinality(A) <= limit
        /\ IsFiniteSet(B) /\ Cardinality(B) \in Nat /\ Cardinality(B) <= limit
    BY WindowServesLimit
  <2> HIDE DEF A, B, S
  <2>3. /\ IsFiniteSet(A \cup B)
        /\ Cardinality(A \cup B) = Cardinality(A) + Cardinality(B) - Cardinality(A \cap B)
    BY <2>2, FS_Union
  <2>4. Cardinality(A \cap B) \in Nat
    <3>1. IsFiniteSet(A \cap B)
      BY <2>2, FS_Subset
    <3> QED
      BY <3>1, FS_CardinalityType
  <2>5. IsFiniteSet(S) /\ Cardinality(S) <= Cardinality(A \cup B)
    BY <2>1, <2>3, FS_Subset DEF A, B
  <2>6. Cardinality(S) \in Nat /\ Cardinality(A \cup B) \in Nat
    BY <2>3, <2>5, FS_CardinalityType
  <2>7. Cardinality(S) <= 2 * limit
    BY <2>2, <2>3, <2>4, <2>5, <2>6, LimitAssumption
  <2> QED
    BY <2>7 DEF S
<1>3. Spec => []Truthful
  <2>1. Init => Truthful
    BY DEF Init, Truthful, Budget, HeadersTruthful, Admitted
  <2> QED
    BY <2>1, TruthfulInductive, TypeCorrect, PTL DEF Spec
<1>4. Truthful => Budget /\ HeadersTruthful
  BY DEF Truthful
<1> QED
  BY <1>1, <1>2, <1>3, <1>4, WindowsInductive, TypeCorrect, PTL DEF Spec

-----------------------------------------------------------------------------
(* The promise of a fixed window.                                          *)

\* Who has not been decided has been told nothing.
Unanswered ==
  \A r \in Request :
    pc[r] \in {"idle", "waiting"} => header[r] = [remaining |-> 0, reset |-> 0]

LEMMA UnansweredInductive == TypeOK /\ Unanswered /\ [Next]_vars => Unanswered'
<1> SUFFICES ASSUME TypeOK, Unanswered, [Next]_vars
             PROVE  Unanswered'
  OBVIOUS
<1> USE DEF TypeOK, Unanswered
<1>1. ASSUME NEW r \in Request, Arrive(r) \/ Refuse(r) \/ Return(r)
      PROVE  Unanswered'
  BY <1>1 DEF Arrive, Refuse, Return
<1>2. ASSUME NEW r \in Request, Admit(r)
      PROVE  Unanswered'
  BY <1>2 DEF Admit, Pass
<1>3. CASE cleanup \/ Tick \/ UNCHANGED vars
  BY <1>3 DEF cleanup, Tick, vars, slots
<1> QED
  BY <1>1, <1>2, <1>3 DEF Next

\* The window a request is counted in is the one the promise counts it in.
LEMMA CountedInWindow ==
  ASSUME TypeOK, NEW i \in IP
  PROVE  /\ i \in Open <=> ~NewWindow(i)
         /\ ~Full(i) => Promise!Counted(i) = [end |-> reset(i), served |-> count(i) + 1]
<1>1. i \in Open <=> ~NewWindow(i)
  BY DEF TypeOK, Open, NewWindow
<1>2. DOMAIN OpenWindows = Open
  BY DEF OpenWindows
<1>3. CASE i \in Open
  <2>1. OpenWindows[i] = [end |-> resetTime[i], served |-> requests[i]]
    BY <1>3 DEF OpenWindows
  <2> QED
    BY <1>1, <1>2, <1>3, <2>1 DEF Promise!Counted, reset, count
<1>4. CASE i \notin Open
  BY <1>1, <1>2, <1>4 DEF Promise!Counted, reset, count
<1> QED
  BY <1>1, <1>3, <1>4

Answers == [r \in Request |-> Answer(r)]

\* One request is answered.
LEMMA OneAnswered ==
  ASSUME NEW r \in Request, NEW a,
         \A q \in Request \ {r} : Answer(q)' = Answer(q), Answer(r)' = a
  PROVE  Answers' = [Answers EXCEPT ![r] = a]
  BY DEF Answers

\* A request let through is counted in the open window, or opens one.
LEMMA AdmitAllows ==
  ASSUME TypeOK, Unanswered, NEW r \in Request, Admit(r)
  PROVE  Promise!Allow(r)
<1>0. PICK i \in IP : i = clientIP[r]
  BY DEF TypeOK
<1>1. /\ pc[r] = "waiting" /\ ~Full(i) /\ now' = now /\ clientIP' = clientIP
      /\ requests' = Put(requests, i, count(i) + 1)
      /\ resetTime' = Put(resetTime, i, reset(i))
      /\ pc' = [pc EXCEPT ![r] = "handling"]
      /\ header' = [header EXCEPT ![r] = [remaining |-> limit - (count(i) + 1),
                                          reset |-> reset(i)]]
  BY <1>0 DEF Admit, Pass
<1>2. count(i) + 1 \in 1 .. limit /\ reset(i) \in Nat /\ limit \in Nat
  BY <1>1, WindowTypes, LimitAssumption
<1>3. Promise!Counted(i) = [end |-> reset(i), served |-> count(i) + 1]
  BY <1>1, CountedInWindow
<1>4. Answers[r] = Promise!Silent
  BY <1>1 DEF Answers, Answer, Promise!Silent, Verdict, Unanswered
<1>5. OpenWindows' = [j \in Open \cup {i} |->
                        IF j = i THEN Promise!Counted(i) ELSE OpenWindows[j]]
  <2>1. now <= reset(i)
    BY <1>1, <1>2, LimitAssumption DEF TypeOK, reset, NewWindow
  <2>2. Open' = Open \cup {i}
    BY <1>1, <2>1 DEF TypeOK, Open, Put
  <2>3. \A j \in Open \cup {i} :
          [end |-> resetTime'[j], served |-> requests'[j]]
            = IF j = i THEN Promise!Counted(i) ELSE OpenWindows[j]
    BY <1>1, <1>3 DEF TypeOK, Open, OpenWindows, Put
  <2> QED
    BY <2>2, <2>3 DEF OpenWindows
<1>6. Answers' = [Answers EXCEPT ![r] = [verdict |-> "allowed",
                                         remaining |-> limit - (count(i) + 1),
                                         reset |-> reset(i)]]
  <2>1. \A q \in Request \ {r} : Answer(q)' = Answer(q)
    BY <1>1 DEF TypeOK, Answer, Verdict
  <2>2. header'[r] = [remaining |-> limit - (count(i) + 1), reset |-> reset(i)]
    BY <1>1 DEF TypeOK
  <2>3. Verdict(r)' = "allowed"
    BY <1>1 DEF TypeOK, Verdict
  <2>4. Answer(r)' = [verdict |-> "allowed", remaining |-> limit - (count(i) + 1),
                      reset |-> reset(i)]
    BY <2>2, <2>3 DEF Answer
  <2> QED
    BY <2>1, <2>4, OneAnswered
<1>7. DOMAIN OpenWindows = Open
  BY DEF OpenWindows
<1> QED
  BY <1>0, <1>1, <1>2, <1>3, <1>4, <1>5, <1>6, <1>7 DEF Promise!Allow, Answers

\* A refusal is never spurious: the window is open and used up.
LEMMA RefuseDenies ==
  ASSUME TypeOK, Unanswered, NEW r \in Request, Refuse(r)
  PROVE  Promise!Deny(r)
<1>0. PICK i \in IP : i = clientIP[r]
  BY DEF TypeOK
<1>1. /\ pc[r] = "waiting" /\ Full(i) /\ now' = now /\ clientIP' = clientIP
      /\ requests' = requests /\ resetTime' = resetTime /\ header' = header
      /\ pc' = [pc EXCEPT ![r] = "refused"]
  BY <1>0 DEF Refuse, maps
<1>2. Answers[r] = Promise!Silent
  BY <1>1 DEF Answers, Answer, Promise!Silent, Verdict, Unanswered
<1>3. ~NewWindow(i) /\ requests[i] = limit
  <2>1. i \in DOMAIN requests /\ requests[i] \in 1 .. limit /\ count(i) >= limit
    BY <1>1 DEF TypeOK, Full
  <2>2. ~NewWindow(i)
    BY <2>1, LimitAssumption DEF count
  <2> QED
    BY <2>1, <2>2, LimitAssumption DEF count
<1>4. i \in DOMAIN OpenWindows /\ OpenWindows[i].served = limit
  BY <1>3, CountedInWindow DEF OpenWindows
<1>5. OpenWindows' = OpenWindows
  BY <1>1 DEF OpenWindows, Open
<1>6. Answers' = [Answers EXCEPT ![r] = [Promise!Silent EXCEPT !.verdict = "denied"]]
  <2>1. \A q \in Request \ {r} : Answer(q)' = Answer(q)
    BY <1>1 DEF TypeOK, Answer, Verdict
  <2>2. Verdict(r)' = "denied"
    BY <1>1 DEF TypeOK, Verdict
  <2>3. Answer(r)' = [Promise!Silent EXCEPT !.verdict = "denied"]
    BY <1>1, <2>2 DEF Answer, Promise!Silent, Unanswered
  <2> QED
    BY <2>1, <2>3, OneAnswered
<1> QED
  BY <1>0, <1>1, <1>2, <1>4, <1>5, <1>6 DEF Promise!Deny, Answers

\* A step that decides nothing and at most drops windows that have ended.
LEMMA QuietIsInvisible ==
  ASSUME TypeOK, now' = now, clientIP' = clientIP, header' = header,
         \A r \in Request : Verdict(r)' = Verdict(r),
         Open' = Open,
         \A i \in Open : resetTime'[i] = resetTime[i] /\ requests'[i] = requests[i]
  PROVE  UNCHANGED Promise!vars
<1>1. OpenWindows' = OpenWindows
  BY DEF OpenWindows
<1>2. Answers' = Answers
  BY DEF Answers, Answer
<1> QED
  BY <1>1, <1>2 DEF Promise!vars, Answers

\* The clock alone closes windows, each when it has passed the window's end.
LEMMA TickCloses ==
  ASSUME TypeOK, Tick
  PROVE  Promise!Elapse
<1> DEFINE kept == {i \in Open : now' <= OpenWindows[i].end}
<1>1. /\ now \in Nat /\ now < MaxTime /\ now' = now + 1
      /\ requests' = requests /\ resetTime' = resetTime
      /\ pc' = pc /\ header' = header /\ clientIP' = clientIP
  BY DEF TypeOK, Tick, maps, slots
<1>2. \A i \in DOMAIN resetTime : resetTime[i] \in Nat
  BY DEF TypeOK
<1>3. DOMAIN OpenWindows = Open /\ \A i \in Open : OpenWindows[i].end = resetTime[i]
  BY DEF OpenWindows
<1>4. Open' = kept
  BY <1>1, <1>2, <1>3 DEF Open
<1>5. OpenWindows' = [i \in kept |-> OpenWindows[i]]
  BY <1>1, <1>4 DEF OpenWindows
<1>6. Answers' = Answers
  BY <1>1 DEF Answers, Answer, Verdict
<1> QED
  BY <1>1, <1>3, <1>5, <1>6 DEF Promise!Elapse, Promise!Restrict, Answers

\* The mutex, the maps and the clean-up keep the promise of a fixed window
\* (LimitMiddleware, cleanup).
THEOREM LimiterImplementsFixedWindow == Spec => ImplementsFixedWindow
<1>1. Init => Promise!Init /\ Unanswered
  BY DEF Init, Unanswered, Promise!Init, Promise!Silent, OpenWindows, Open, Answer, Verdict
<1>2. TypeOK /\ Unanswered /\ [Next]_vars => [Promise!Next]_(Promise!vars)
  <2> SUFFICES ASSUME TypeOK, Unanswered, [Next]_vars
               PROVE  Promise!Next \/ UNCHANGED Promise!vars
    OBVIOUS
  <2>1. ASSUME NEW r \in Request, Arrive(r) \/ Return(r)
        PROVE  UNCHANGED Promise!vars
    <3>1. \A q \in Request : Verdict(q)' = Verdict(q)
      BY <2>1 DEF TypeOK, Arrive, Return, Verdict
    <3>2. Open' = Open
      BY <2>1 DEF Arrive, Return, Open, maps
    <3> QED
      BY <2>1, <3>1, <3>2, QuietIsInvisible DEF Arrive, Return, maps
  <2>2. ASSUME NEW r \in Request, Refuse(r)
        PROVE  Promise!Next
    BY <2>2, RefuseDenies DEF Promise!Next
  <2>3. ASSUME NEW r \in Request, Admit(r)
        PROVE  Promise!Next
    BY <2>3, AdmitAllows DEF Promise!Next
  <2>4. CASE cleanup
    <3>1. Open' = Open
      BY <2>4 DEF TypeOK, cleanup, Restrict, Open
    <3>2. \A i \in Open : resetTime'[i] = resetTime[i] /\ requests'[i] = requests[i]
      BY <2>4 DEF TypeOK, cleanup, Restrict, Open
    <3> QED
      BY <2>4, <3>1, <3>2, QuietIsInvisible DEF cleanup, slots, Verdict
  <2>5. CASE Tick
    BY <2>5, TickCloses DEF Promise!Next
  <2>6. CASE UNCHANGED vars
    BY <2>6 DEF vars, maps, slots, Promise!vars, OpenWindows, Open, Answer, Verdict
  <2> QED
    BY <2>1, <2>2, <2>3, <2>4, <2>5, <2>6 DEF Next
<1> QED
  BY <1>1, <1>2, UnansweredInductive, TypeCorrect, PTL
     DEF Spec, ImplementsFixedWindow, Promise!Spec
=============================================================================
