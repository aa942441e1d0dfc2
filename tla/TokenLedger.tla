---------------------------- MODULE TokenLedger -----------------------------
(***************************************************************************)
(* What the sessions promise to clients: a ledger of the tokens that were  *)
(* handed out and of those that are spent.  A refresh token is accepted    *)
(* until it expires or is spent, and for no other reason; a refresh spends *)
(* it and hands out a pair for the same user in one instant.  How spent    *)
(* tokens are remembered, and forgotten, is not a part of the promise.     *)
(* Its weaknesses are: the client of a refresh may be left without a pair, *)
(* a new pair may repeat a token that is spent, a restart forgets what was *)
(* spent, and only an exclusive ledger never exchanges a token twice.      *)
(***************************************************************************)
EXTENDS Naturals

CONSTANTS Request,        \* the requests of clients
          AccessToken,    \* the access tokens, records with a user and an exp
          RefreshToken,   \* the refresh tokens, likewise
          MaxTime         \* bound on the clock

VARIABLES now,         \* the wall clock
          held,        \* the tokens that were handed out to clients
          success,     \* the requests that succeeded, each with the token it spent
          accepted,    \* the refresh tokens that buy a new pair
          exclusive    \* requests are handled one after another

vars == <<now, held, success, accepted, exclusive>>

Nothing == [op |-> "none", spent |-> {}]

\* The tokens that are spent, and what is accepted when they are.
Spent(done) == UNION {done[r].spent : r \in Request}
Good(tokens, used, at) == {t \in tokens : t \in RefreshToken /\ at < t.exp /\ t \notin used}

-----------------------------------------------------------------------------

Init ==
  /\ now = 0
  /\ held = {} /\ accepted = {}
  /\ success = [r \in Request |-> Nothing]
  /\ exclusive \in BOOLEAN

\* What is accepted follows from what is held, spent and expired.
Settle == accepted' = Good(held', Spent(success'), now') /\ UNCHANGED exclusive

Succeed(r, o, tokens) ==
  /\ success[r] = Nothing
  /\ success' = [success EXCEPT ![r] = [op |-> o, spent |-> tokens]]

\* A pair is handed out, both tokens for user u.
Grant(u) ==
  \E a, f \in held' :
    /\ a \in AccessToken /\ a.user = u
    /\ f \in RefreshToken /\ f.user = u
    /\ held' = held \cup {a, f}

\* A login whose client has gone hands out nothing.
Login(r) ==
  /\ Succeed(r, "login", {})
  /\ (\E t \in held' : Grant(t.user)) \/ UNCHANGED held
  /\ UNCHANGED now
  /\ Settle

\* The token is spent even if its client has gone and gets no pair.
Exchange(r, t) ==
  /\ t \in RefreshToken
  /\ exclusive => t \notin Spent(success)
  /\ Succeed(r, "refresh", {t})
  /\ Grant(t.user) \/ UNCHANGED held
  /\ UNCHANGED now
  /\ Settle

Logout(r, t) ==
  /\ Succeed(r, "logout", {t})
  /\ UNCHANGED <<now, held>>
  /\ Settle

Elapse ==
  /\ now < MaxTime /\ now' = now + 1
  /\ UNCHANGED <<held, success>>
  /\ Settle

Restart ==
  /\ success' = [r \in Request |-> Nothing]
  /\ UNCHANGED <<now, held>>
  /\ Settle

Next ==
  \/ \E r \in Request : Login(r) \/ \E t \in held : Exchange(r, t) \/ Logout(r, t)
  \/ Elapse
  \/ Restart

Spec == Init /\ [][Next]_vars
=============================================================================
