------------------------ MODULE TokenBlacklistProofs ------------------------
(***************************************************************************)
(* Proofs about TokenBlacklist, for any tokens, any natural durations and  *)
(* any bound on the clock: the type invariant, and that the map with its   *)
(* background clean-up implements the promised revocation list.            *)
(***************************************************************************)
EXTENDS TokenBlacklist, TLAPS

\* The map always sends tokens to instants (blacklist.go: AddToken, cleanup).
THEOREM TypeCorrect == Spec => []TypeOK
<1>1. Init => TypeOK
  BY DEF Init, TypeOK
<1>2. TypeOK /\ [Next]_vars => TypeOK'
  <2> SUFFICES ASSUME TypeOK, [Next]_vars
               PROVE  TypeOK'
    OBVIOUS
  <2>1. ASSUME NEW t \in Token, NEW d \in Durations, AddToken(t, d)
        PROVE  TypeOK'
    BY <2>1, DurationsAssumption DEF TypeOK, AddToken
  <2>2. CASE Cleanup
    BY <2>2 DEF TypeOK, Cleanup, Expired, Restrict
  <2>3. CASE Tick
    BY <2>3 DEF TypeOK, Tick
  <2>4. CASE UNCHANGED vars
    BY <2>4 DEF TypeOK, vars
  <2> QED
    BY <2>1, <2>2, <2>3, <2>4 DEF Next
<1> QED
  BY <1>1, <1>2, PTL DEF Spec

Live == [t \in {x \in Token : IsTokenBlacklisted(x)} |-> blacklist[t]]

LEMMA LiveDomain == /\ DOMAIN Live = {x \in Token : IsTokenBlacklisted(x)}
                    /\ \A x \in DOMAIN Live : Live[x] = blacklist[x]
  BY DEF Live

\* AddToken revokes the token, whatever was remembered of it.
LEMMA AddTokenRevokes ==
  ASSUME TypeOK, NEW t \in Token, NEW d \in Durations, AddToken(t, d)
  PROVE  Promise!Revoke(t, d)
<1> DEFINE new == [x \in DOMAIN Live \cup {t} |-> IF x = t THEN now + d ELSE Live[x]]
<1>1. now \in Nat /\ d \in Nat /\ now' = now
  BY DurationsAssumption DEF TypeOK, AddToken
<1>2. \A x \in Token : IsTokenBlacklisted(x)' <=> x = t \/ IsTokenBlacklisted(x)
  BY <1>1 DEF AddToken, IsTokenBlacklisted
<1>3. \A x \in DOMAIN blacklist' :
        blacklist'[x] = IF x = t THEN now + d ELSE blacklist[x]
  BY DEF AddToken
<1>4. {x \in Token : IsTokenBlacklisted(x)}' = DOMAIN Live \cup {t}
  BY <1>2, LiveDomain
<1>5. \A x \in DOMAIN Live \cup {t} : blacklist'[x] = IF x = t THEN now + d ELSE Live[x]
  BY <1>3, <1>4, LiveDomain DEF IsTokenBlacklisted
<1>6. Live' = new
  BY <1>4, <1>5 DEF Live
<1> QED
  BY <1>1, <1>6 DEF Promise!Revoke, Live

\* A pass of the clean-up is invisible.
LEMMA CleanupIsInvisible ==
  ASSUME TypeOK, Cleanup
  PROVE  UNCHANGED Promise!vars
<1>1. now' = now /\ blacklist' = [x \in DOMAIN blacklist \ Expired |-> blacklist[x]]
  BY DEF Cleanup, Restrict
<1>2. \A x \in Token : IsTokenBlacklisted(x)' <=> IsTokenBlacklisted(x)
  BY <1>1 DEF IsTokenBlacklisted, Expired
<1>3. \A x \in Token : IsTokenBlacklisted(x) => blacklist'[x] = blacklist[x]
  BY <1>1 DEF IsTokenBlacklisted, Expired
<1>4. Live' = Live
  BY <1>2, <1>3 DEF Live
<1> QED
  BY <1>1, <1>4 DEF Promise!vars, Live

\* The clock alone makes entries lapse, each when its deadline has passed.
LEMMA TickElapses ==
  ASSUME TypeOK, Tick
  PROVE  Promise!Elapse
<1> DEFINE kept == {x \in DOMAIN Live : now' <= Live[x]}
<1>1. now \in Nat /\ now < MaxTime /\ now' = now + 1 /\ blacklist' = blacklist
  BY DEF TypeOK, Tick
<1>2. \A x \in DOMAIN blacklist : blacklist[x] \in Nat
  BY DEF TypeOK
<1>3. {x \in Token : IsTokenBlacklisted(x)}' = kept
  BY <1>1, <1>2, LiveDomain DEF IsTokenBlacklisted
<1>4. Live' = [x \in kept |-> Live[x]]
  BY <1>1, <1>3, LiveDomain DEF Live
<1> QED
  BY <1>1, <1>4 DEF Promise!Elapse, Promise!Restrict, Live

\* The concurrent map with its hourly clean-up keeps the promise of the
\* revocation list (AddToken, IsTokenBlacklisted, startCleanupRoutine).
THEOREM BlacklistImplementsRevocationList == Spec => ImplementsRevocationList
<1>1. Init => Promise!Init
  BY DEF Init, Promise!Init, IsTokenBlacklisted
<1>2. TypeOK /\ [Next]_vars => [Promise!Next]_(Promise!vars)
  <2> SUFFICES ASSUME TypeOK, [Next]_vars
               PROVE  Promise!Next \/ UNCHANGED Promise!vars
    OBVIOUS
  <2>1. ASSUME NEW t \in Token, NEW d \in Durations, AddToken(t, d)
        PROVE  Promise!Next
    BY <2>1, AddTokenRevokes DEF Promise!Next
  <2>2. CASE Cleanup
    BY <2>2, CleanupIsInvisible
  <2>3. CASE Tick
    BY <2>3, TickElapses DEF Promise!Next
  <2>4. CASE UNCHANGED vars
    BY <2>4 DEF vars, Promise!vars, IsTokenBlacklisted
  <2> QED
    BY <2>1, <2>2, <2>3, <2>4 DEF Next
<1> QED
  BY <1>1, <1>2, TypeCorrect, PTL DEF Spec, ImplementsRevocationList, Promise!Spec
=============================================================================
