---------------------------- MODULE UserIdentity ----------------------------
(***************************************************************************)
(* Who a token stands for.  A user's id comes from the snowflake node      *)
(* (pkg/utils/snowflake) when its row is created; jwt_authenticator.go     *)
(* signs it as a JSON number and reads it back as a float64;               *)
(* JWTAuthMiddleware hands what it read to the routes of users, where      *)
(* EnsureSelfMiddleware compares it with the id in the path.  Expiry and   *)
(* revocation are AuthSessions' subject and left out.                      *)
(***************************************************************************)
EXTENDS Integers

CONSTANTS User,          \* the people who register, and their accounts
          MachineBits,   \* SNOWFLAKE_MACHINE_BITS
          StepBits,      \* SNOWFLAKE_STEP_BITS
          MaxTime,       \* bound on the clock, for model checking
          MaxId,         \* the largest int64
          Exact,         \* float64 has every integer up to here: 2^53
          Float64(_)     \* the float64 next to an integer

\* uint8(config.MachineBits): of a setting of 256 or more eight bits are left.
bits(setting, default) == IF setting > 0 THEN setting % 256 ELSE default

\* The identifiers of one millisecond; the library orders machine and step.
Span == 2 ^ (bits(MachineBits, 10) + bits(StepBits, 12))

Id == 1 .. MaxId
None == 0

ASSUME SpanAssumption == Span \in Nat /\ MaxTime \in Nat /\ MaxId \in Nat
\* IEEE 754: rounding keeps what can be represented, and rounds once.
ASSUME Float64Assumption ==
  /\ Exact \in Nat
  /\ \A n \in Id : /\ Float64(n) \in Nat
                   /\ n <= Exact => Float64(n) = n
                   /\ Float64(n) \in Id => Float64(Float64(n)) = Float64(n)

VARIABLES time,      \* milliseconds since SNOWFLAKE_EPOCH
          id,        \* users.id of an account
          holds,     \* the ids signed in the tokens a person was given
          shown,     \* the rows GET /users/current showed to a person
          allowed    \* the rows EnsureSelfMiddleware let a person through to

vars == <<time, id, holds, shown, allowed>>
-----------------------------------------------------------------------------

Init ==
  /\ time = 0
  /\ id = [u \in User |-> None]
  /\ holds = [u \in User |-> {}]
  /\ shown = [u \in User |-> {}]
  /\ allowed = [u \in User |-> {}]

\* node.NextID(): of this millisecond.  That it is new is the library's business
\* and not assumed: after a restart, on a second machine, or with machine bits
\* that were cut, a node may yield what another has yielded.  When it fails it
\* panics, and no row is written.
NextID == {n \in Id : n \div Span = time}

Exists(n) == n # None /\ \E u \in User : id[u] = n

\* Register: BeforeCreate takes an identifier, and the primary key refuses one
\* that a row has.
Register(u) ==
  /\ id[u] = None
  /\ \E n \in NextID : ~Exists(n) /\ id' = [id EXCEPT ![u] = n]
  /\ UNCHANGED <<time, holds, shown, allowed>>

\* Mutant: the claim is read as an integer of fewer bits.
UserIDCut(signed) == signed % (Exact \div 2)

\* int64(claims["user_id"].(float64)).
UserID(signed) == Float64(signed)

\* The user is found by name, and its own id is signed.
Login(u) ==
  /\ id[u] # None
  /\ holds' = [holds EXCEPT ![u] = @ \cup {id[u]}]
  /\ UNCHANGED <<time, id, shown, allowed>>

\* Mutant: the user is not looked up.
RefreshUnknown(u, signed) ==
  /\ holds' = [holds EXCEPT ![u] = @ \cup {UserID(signed)}]
  /\ UNCHANGED <<time, id, shown, allowed>>

\* RefreshToken finds the user by what it read, and signs the id it found.
Refresh(u, signed) ==
  /\ Exists(UserID(signed))
  /\ holds' = [holds EXCEPT ![u] = @ \cup {UserID(signed)}]
  /\ UNCHANGED <<time, id, shown, allowed>>

\* GET /users/current: the row of what JWTAuthMiddleware has read.
GetCurrentUser(u, signed) ==
  /\ Exists(UserID(signed))
  /\ shown' = [shown EXCEPT ![u] = @ \cup {UserID(signed)}]
  /\ UNCHANGED <<time, id, holds, allowed>>

\* Mutant: the path is not compared.
EnsureNothing(u, signed, target) ==
  /\ allowed' = [allowed EXCEPT ![u] = @ \cup {target}]
  /\ UNCHANGED <<time, id, holds, shown>>

\* PUT /users/:id: anyone but the user of that id is answered 403.
EnsureSelf(u, signed, target) ==
  /\ UserID(signed) = target
  /\ allowed' = [allowed EXCEPT ![u] = @ \cup {target}]
  /\ UNCHANGED <<time, id, holds, shown>>

Tick == time < MaxTime /\ time' = time + 1 /\ UNCHANGED <<id, holds, shown, allowed>>

Next ==
  \/ \E u \in User :
       \/ Register(u)
       \/ Login(u)
       \/ \E signed \in holds[u] :
            \/ Refresh(u, signed)
            \/ GetCurrentUser(u, signed)
            \/ \E target \in Id : EnsureSelf(u, signed, target)
  \/ Tick

Spec == Init /\ [][Next]_vars

-----------------------------------------------------------------------------

\* Only identifiers of accounts are signed or shown, however a token was read.
TypeOK ==
  /\ time \in Nat
  /\ id \in [User -> Id \cup {None}]
  /\ holds \in [User -> SUBSET {n \in Id : Exists(n)}]
  /\ shown \in [User -> SUBSET {n \in Id : Exists(n)}]
  /\ allowed \in [User -> SUBSET Id]

\* All that the tokens of a person open: accounts to sign for, rows to see and
\* rows to change.
Reach(u) == holds[u] \cup shown[u] \cup allowed[u]

\* While identifiers fit a float64, a person reaches its own account alone,
\* however often tokens are refreshed.
OwnWhileExact == \A u \in User : id[u] <= Exact => Reach(u) \subseteq {id[u]}

\* Beyond that a person reaches only accounts with the float64 of its own: the
\* error is made once and does not grow with further refreshes.
ConfusedOnlyNearby ==
  \A u \in User : \A n \in Reach(u) : UserID(n) = UserID(id[u])

-----------------------------------------------------------------------------
\* What the repository says and the code does not do.

\* The current user only operates on its own data.
OwnData == \A u \in User : shown[u] \cup allowed[u] \subseteq {id[u]}
=============================================================================
