-------------------------- MODULE JwtAuthenticator --------------------------
(***************************************************************************)
(* internal/infrastructure/auth/jwt_authenticator.go.  A signed token is a *)
(* function of its claims and of the secret of its kind, so it is modelled *)
(* by them: two tokens with the same claims are the same string.  The user *)
(* stands for user_id and username.  The clock runs in ticks, of which     *)
(* there are Second to a second: the iat and exp claims are whole seconds. *)
(***************************************************************************)
EXTENDS Integers

CONSTANTS User,              \* the users of the database
          Second,            \* clock ticks per second
          AccessLifetime,    \* accessExpiration, in ticks
          RefreshLifetime,   \* refreshExpiration, in ticks
          NoToken            \* the empty string

ASSUME SecondAssumption == Second \in Nat \ {0}
\* With a lifetime that is not positive the exp claim is left out and
\* extractStandardClaims panics on every token: such a server serves no one.
ASSUME LifetimeAssumption == /\ AccessLifetime \in Nat \ {0}
                             /\ RefreshLifetime \in Nat \ {0}
-----------------------------------------------------------------------------

\* time.Time.Unix: the instant with its fraction of a second dropped.
Unix(t) == t - (t % Second)

\* The tokens each secret can sign.
AccessJWT == [kind : {"access"}, user : User, iat : Nat, exp : Nat]
RefreshJWT == [kind : {"refresh"}, user : User, iat : Nat, exp : Nat]
JWT == AccessJWT \cup RefreshJWT

\* iat and exp come from two readings of the clock.
generateAccessToken(u, issued, read) ==
  [kind |-> "access", user |-> u, iat |-> Unix(issued), exp |-> Unix(read + AccessLifetime)]

generateRefreshToken(u, issued, read) ==
  [kind |-> "refresh", user |-> u, iat |-> Unix(issued), exp |-> Unix(read + RefreshLifetime)]

\* jwt.Parse and extractClaims: the secret of the kind must have signed the
\* token, and the clock must be before exp.
Validate(kind, t, at) == t # NoToken /\ t.kind = kind /\ at < t.exp
ValidateAccessToken(t, at) == Validate("access", t, at)
ValidateRefreshToken(t, at) == Validate("refresh", t, at)
=============================================================================
