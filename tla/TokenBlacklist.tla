--------------------------- MODULE TokenBlacklist ---------------------------
(***************************************************************************)
(* internal/infrastructure/auth/blacklist.go: the in-memory map from a     *)
(* revoked token to the instant up to which it is rejected.  AddToken and  *)
(* the clean-up goroutine hold the write lock and IsTokenBlacklisted the   *)
(* read lock for their whole body, and each reads the clock once inside    *)
(* it, so each is one step.                                                *)
(***************************************************************************)
EXTENDS Naturals, Functions

CONSTANTS Token,       \* the token strings
          Durations,   \* the durations callers pass to AddToken
          MaxTime      \* bound on the clock, for model checking

ASSUME DurationsAssumption == Durations \subseteq Nat
ASSUME MaxTimeAssumption == MaxTime \in Nat

VARIABLES now,        \* time.Now(), in clock ticks
          blacklist   \* TokenBlacklist.blacklist: token -> expiration

vars == <<now, blacklist>>

-----------------------------------------------------------------------------

Init == now = 0 /\ blacklist = [t \in {} |-> 0]

\* expiration exists and time.Now() is not after it
IsTokenBlacklisted(t) == t \in DOMAIN blacklist /\ ~(now > blacklist[t])

\* An entry that is there already is overwritten, whatever its expiration.
AddToken(t, d) ==
  /\ blacklist' = [x \in DOMAIN blacklist \cup {t} |->
                     IF x = t THEN now + d ELSE blacklist[x]]
  /\ UNCHANGED now

Expired == {t \in DOMAIN blacklist : now > blacklist[t]}

\* Mutant: !now.Before(expiration) where the code has now.After(expiration).
CleanupTakesDeadline ==
  /\ {t \in DOMAIN blacklist : now >= blacklist[t]} # {}
  /\ blacklist' = [t \in {x \in DOMAIN blacklist : now < blacklist[x]} |-> blacklist[t]]
  /\ UNCHANGED now

\* Mutant: the comparison of the loop is inverted.
CleanupInverted ==
  /\ Expired # {}
  /\ blacklist' = Restrict(blacklist, Expired)
  /\ UNCHANGED now

\* One pass of the ticker loop over the map.
Cleanup ==
  /\ Expired # {}
  /\ blacklist' = Restrict(blacklist, DOMAIN blacklist \ Expired)
  /\ UNCHANGED now

Tick == now < MaxTime /\ now' = now + 1 /\ UNCHANGED blacklist

Next ==
  \/ \E t \in Token, d \in Durations : AddToken(t, d)
  \/ Cleanup
  \/ Tick

Spec == Init /\ [][Next]_vars

\* The ticker of startCleanupRoutine never stops and sync.RWMutex does not
\* starve a writer, so a pass that has work to do is eventually made.
FairSpec == Spec /\ WF_vars(Cleanup)

-----------------------------------------------------------------------------

\* The clock is a natural number and the map sends some of the tokens to
\* instants (NewTokenBlacklist, AddToken).
TypeOK ==
  /\ now \in Nat
  /\ DOMAIN blacklist \subseteq Token
  /\ blacklist \in [DOMAIN blacklist -> Nat]

\* The map with its lapsed entries hidden is the promised revocation list:
\* every AddToken revokes from that instant, an entry stops being reported
\* exactly when the clock passes its expiration, and a pass of the clean-up
\* goroutine, whenever it runs, is invisible to IsTokenBlacklisted.
Promise ==
  INSTANCE RevocationList
    WITH live <- [t \in {x \in Token : IsTokenBlacklisted(x)} |-> blacklist[t]]

ImplementsRevocationList == Promise!Spec

\* The map does not grow for ever: a lapsed entry is removed or revoked anew
\* (startCleanupRoutine against AddToken).
ExpiredIsReclaimed == \A t \in Token : t \in Expired ~> t \notin Expired
=============================================================================
