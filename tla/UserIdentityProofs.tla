------------------------- MODULE UserIdentityProofs -------------------------
(***************************************************************************)
(* Proofs about UserIdentity, for any people, any number of them, any      *)
(* widths of an identifier and any rounding that keeps what it has rounded *)
(* once (Float64Assumption).                                               *)
(***************************************************************************)
EXTENDS UserIdentity, TLAPS

\* Who has no account has no token and has seen nothing.
NothingBefore == \A u \in User : id[u] = None => Reach(u) = {}

Inv == TypeOK /\ NothingBefore /\ OwnWhileExact /\ ConfusedOnlyNearby

-----------------------------------------------------------------------------
(* What the steps add to a person's reach.                                 *)

LEMMA Rounds ==
  ASSUME NEW n \in Id
  PROVE  /\ UserID(n) \in Nat
         /\ n <= Exact => UserID(n) = n
         /\ UserID(n) \in Id => UserID(UserID(n)) = UserID(n)
  BY Float64Assumption DEF UserID

LEMMA TypeParts == TypeOK => /\ \A u \in User : id[u] \in Nat
                             /\ Id \subseteq Nat \ {None} /\ Exact \in Nat
  BY SpanAssumption, Float64Assumption DEF TypeOK, Id, None

\* The identifiers of accounts.
Known == {n \in Id : Exists(n)}

\* A person's reach grows by one identifier, its own or what is read from one of
\* its tokens; no row changes.
Gains(u, n) ==
  /\ UNCHANGED <<time, id>>
  /\ n \in Id
  /\ id[u] # None
  /\ n = id[u] \/ \E signed \in holds[u] : n = UserID(signed)
  /\ holds' \in [User -> SUBSET Known] /\ shown' \in [User -> SUBSET Known]
  /\ allowed' \in [User -> SUBSET Id]
  /\ \A v \in User : Reach(v)' = IF v = u THEN Reach(v) \cup {n} ELSE Reach(v)

LEMMA StepsGain ==
  ASSUME Inv, NEW u \in User
  PROVE  /\ Login(u) => Gains(u, id[u])
         /\ \A signed \in holds[u] :
              /\ Refresh(u, signed) => Gains(u, UserID(signed))
              /\ GetCurrentUser(u, signed) => Gains(u, UserID(signed))
              /\ \A target \in Id : EnsureSelf(u, signed, target) => Gains(u, target)
<1>0. /\ id \in [User -> Id \cup {None}]
      /\ holds \in [User -> SUBSET Known] /\ shown \in [User -> SUBSET Known]
      /\ allowed \in [User -> SUBSET Id]
  BY DEF Inv, TypeOK, Known
<1>1. \A n : Exists(n) => n \in Known
  BY <1>0 DEF Exists, Known
<1>2. id[u] # None => id[u] \in Known
  BY <1>1 DEF Exists
<1>3. \A signed \in holds[u] : id[u] # None
  BY DEF Inv, NothingBefore, Reach
<1>4. Known \subseteq Id
  BY DEF Known
<1>5. Login(u) => Gains(u, id[u])
  BY <1>0, <1>2, <1>4 DEF Login, Gains, Reach
<1>6. ASSUME NEW signed \in holds[u], Refresh(u, signed) PROVE Gains(u, UserID(signed))
  BY <1>0, <1>1, <1>3, <1>4, <1>6 DEF Refresh, Gains, Reach
<1>7. ASSUME NEW signed \in holds[u], GetCurrentUser(u, signed) PROVE Gains(u, UserID(signed))
  BY <1>0, <1>1, <1>3, <1>4, <1>7 DEF GetCurrentUser, Gains, Reach
<1>8. ASSUME NEW signed \in holds[u], NEW target \in Id, EnsureSelf(u, signed, target)
      PROVE  Gains(u, target)
  BY <1>0, <1>3, <1>8 DEF EnsureSelf, Gains, Reach
<1> QED
  BY <1>5, <1>6, <1>7, <1>8

\* What is gained is what the person had, or its float64.
LEMMA GainsKeep ==
  ASSUME Inv, NEW u \in User, NEW n, Gains(u, n)
  PROVE  Inv'
<1>1. TypeOK' /\ NothingBefore'
  <2>1. UNCHANGED Known
    BY DEF Gains, Known, Exists
  <2> QED
    BY <2>1 DEF Inv, Gains, TypeOK, NothingBefore, Known
<1>2. n = id[u] \/ \E signed \in holds[u] : n = UserID(signed)
  BY DEF Gains
<1>3. id[u] \in Id /\ id[u] # None /\ n \in Id
  BY DEF Inv, TypeOK, Gains
<1>4. \A signed \in holds[u] :
        /\ signed \in Id
        /\ UserID(signed) = UserID(id[u])
        /\ id[u] <= Exact => signed = id[u]
  BY DEF Inv, TypeOK, ConfusedOnlyNearby, OwnWhileExact, Reach
<1>5. UserID(n) = UserID(id[u]) /\ (id[u] <= Exact => n = id[u])
  <2>1. CASE n = id[u]
    BY <2>1
  <2>2. ASSUME NEW signed \in holds[u], n = UserID(signed)
        PROVE  UserID(n) = UserID(id[u]) /\ (id[u] <= Exact => n = id[u])
    BY <2>2, <1>3, <1>4, Rounds
  <2> QED
    BY <1>2, <2>1, <2>2
<1>6. OwnWhileExact' /\ ConfusedOnlyNearby'
  BY <1>5 DEF Inv, Gains, OwnWhileExact, ConfusedOnlyNearby, UserID
<1> QED
  BY <1>1, <1>6 DEF Inv

\* A new account takes no identifier away, and has nothing to its name.
LEMMA RegisterKeeps ==
  ASSUME Inv, NEW u \in User, Register(u)
  PROVE  Inv'
<1>1. PICK n \in Id : id' = [id EXCEPT ![u] = n] /\ id[u] = None
  BY DEF Register, NextID
<1>2. \A v \in User : Reach(v)' = Reach(v)
  BY DEF Register, Reach
<1>3. Reach(u) = {}
  BY DEF Inv, NothingBefore, Register
<1>4. TypeOK'
  <2>1. \A k : Exists(k) => Exists(k)'
    BY <1>1 DEF Exists, Inv, TypeOK
  <2> QED
    BY <1>1, <2>1 DEF Inv, TypeOK, Register
<1>5. NothingBefore' /\ OwnWhileExact' /\ ConfusedOnlyNearby'
  BY <1>1, <1>2, <1>3, TypeParts
     DEF Inv, TypeOK, NothingBefore, OwnWhileExact, ConfusedOnlyNearby, UserID
<1> QED
  BY <1>4, <1>5 DEF Inv

LEMMA Inductive == Spec => []Inv
<1>1. Init => Inv
  <2> SUFFICES ASSUME Init PROVE Inv
    OBVIOUS
  <2>1. \A u \in User : id[u] = None /\ Reach(u) = {}
    BY DEF Init, Reach
  <2>2. TypeOK
    BY DEF Init, TypeOK
  <2>3. NothingBefore /\ OwnWhileExact /\ ConfusedOnlyNearby
    BY <2>1 DEF NothingBefore, OwnWhileExact, ConfusedOnlyNearby
  <2> QED
    BY <2>2, <2>3 DEF Inv
<1>2. Inv /\ [Next]_vars => Inv'
  <2> SUFFICES ASSUME Inv, [Next]_vars PROVE Inv'
    OBVIOUS
  <2>1. ASSUME NEW u \in User, Register(u) PROVE Inv'
    BY <2>1, RegisterKeeps
  <2>2. ASSUME NEW u \in User, Login(u) PROVE Inv'
    BY <2>2, StepsGain, GainsKeep
  <2>3. ASSUME NEW u \in User, NEW signed \in holds[u],
               Refresh(u, signed) \/ GetCurrentUser(u, signed)
        PROVE  Inv'
    BY <2>3, StepsGain, GainsKeep
  <2>4. ASSUME NEW u \in User, NEW signed \in holds[u], NEW target \in Id,
               EnsureSelf(u, signed, target)
        PROVE  Inv'
    BY <2>4, StepsGain, GainsKeep
  <2>5. CASE Tick
    BY <2>5 DEF Tick, Inv, TypeOK, NothingBefore, OwnWhileExact, ConfusedOnlyNearby,
                Reach, UserID, Exists
  <2>6. CASE UNCHANGED vars
    BY <2>6 DEF vars, Inv, TypeOK, NothingBefore, OwnWhileExact, ConfusedOnlyNearby,
                Reach, UserID, Exists
  <2> QED
    BY <2>1, <2>2, <2>3, <2>4, <2>5, <2>6 DEF Next
<1> QED
  BY <1>1, <1>2, PTL DEF Spec

-----------------------------------------------------------------------------

\* Whatever a token is read as, GenerateTokenPair signs and GetUserByID shows
\* only the identifier of an account (FindByID in RefreshToken and GetUserByID).
THEOREM TypeCorrect == Spec => []TypeOK
<1>1. Inv => TypeOK
  BY DEF Inv
<1> QED
  BY <1>1, Inductive, PTL

\* Identifiers that a float64 holds pass through claims["user_id"].(float64) and
\* back: the token of a person stands for that person.
THEOREM OwnDataWhileExact == Spec => []OwnWhileExact
<1>1. Inv => OwnWhileExact
  BY DEF Inv
<1> QED
  BY <1>1, Inductive, PTL

\* Beyond those, the account a token is taken for has the float64 of the right
\* one, after any number of refreshes.
THEOREM ConfusionIsBounded == Spec => []ConfusedOnlyNearby
<1>1. Inv => ConfusedOnlyNearby
  BY DEF Inv
<1> QED
  BY <1>1, Inductive, PTL
=============================================================================
