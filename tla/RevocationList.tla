--------------------------- MODULE RevocationList ---------------------------
(***************************************************************************)
(* What the token blacklist promises to the authenticator: a revoked token *)
(* is rejected up to and including its deadline, and is forgotten by the   *)
(* clock alone, never earlier and never later.  There is no clean-up here: *)
(* how the memory of lapsed entries is reclaimed is not part of the        *)
(* promise.                                                                *)
(***************************************************************************)
EXTENDS Naturals, Functions

CONSTANTS Token,       \* the token strings
          Durations,   \* for how long a caller may revoke a token
          MaxTime      \* bound on the clock

VARIABLES now,   \* the wall clock
          live   \* the revoked tokens, each with its deadline

vars == <<now, live>>

-----------------------------------------------------------------------------

Init == now = 0 /\ live = [t \in {} |-> 0]

Revoke(t, d) ==
  /\ live' = [x \in DOMAIN live \cup {t} |-> IF x = t THEN now + d ELSE live[x]]
  /\ UNCHANGED now

\* Time passes and exactly the entries whose deadline it passes lapse.
Elapse ==
  /\ now < MaxTime
  /\ now' = now + 1
  /\ live' = Restrict(live, {t \in DOMAIN live : now' <= live[t]})

Next == Elapse \/ \E t \in Token, d \in Durations : Revoke(t, d)

Spec == Init /\ [][Next]_vars
=============================================================================
