---------------------------- MODULE AuthSessions ----------------------------
(***************************************************************************)
(* The token life of internal/usecase/auth_usecase.go: Login, RefreshToken *)
(* and Logout run in concurrent requests over the authenticator and its    *)
(* blacklist.  A request is a slot that is used once.  Each handler is cut *)
(* where another request, the clean-up goroutine, the clock, a timeout or  *)
(* a restart of the process can come in between.                           *)
(***************************************************************************)
EXTENDS JwtAuthenticator, FiniteSets, Functions

CONSTANTS Request,      \* the requests of a behaviour
          MaxTime       \* bound on the clock, for model checking

ASSUME ClockAssumption == MaxTime \in Nat
ASSUME NoTokenAssumption == NoToken \notin JWT

VARIABLES now,         \* the wall clock
          blacklist,   \* TokenBlacklist.blacklist
          op,          \* the operation a slot is used for
          pc,          \* where its handler is, or how it ended
          given,       \* the tokens the client sent
          user,        \* the user a slot acts for
          since,       \* when it had loaded the user
          pair,        \* the tokens it has generated
          gone,        \* the client was sent a 408 or has disconnected
          serialized   \* the rate limiter is configured: its mutex is held across c.Next()

request == <<op, pc, given, user, since, pair, gone>>
vars == <<now, blacklist, request, serialized>>

TokenBlacklist == INSTANCE TokenBlacklist
                    WITH Token <- JWT, Durations <- {RefreshLifetime}

Nothing == [access |-> NoToken, refresh |-> NoToken]
-----------------------------------------------------------------------------

InHandler(r) == pc[r] \in {"login", "check", "find", "mint", "revoke", "logout"}

\* A RefreshToken or Logout that has succeeded since the process was started has
\* revoked the token it was given.
Revokes(r) == pc[r] = "ok" /\ op[r] \in {"refresh", "logout"}
Revoked(t) == \E r \in Request : Revokes(r) /\ given[r].refresh = t

\* The tokens clients hold: those of every answer that reached its client.
Answered == {r \in Request : pc[r] = "ok" /\ ~gone[r]}
Held == (UNION {{pair[r].access, pair[r].refresh} : r \in Answered}) \ {NoToken}

\* The user of a slot is not looked at before the slot is used.
Init ==
  /\ now = 0
  /\ blacklist = [t \in {} |-> 0]
  /\ op = [r \in Request |-> "none"]
  /\ pc = [r \in Request |-> "idle"]
  /\ given = [r \in Request |-> Nothing]
  /\ \E u \in User : user = [r \in Request |-> u]
  /\ since = [r \in Request |-> 0]
  /\ pair = [r \in Request |-> Nothing]
  /\ gone = [r \in Request |-> FALSE]
  /\ serialized \in BOOLEAN

\* A request for user u reaches its handler.  Behind the rate limiter it has
\* waited for every earlier handler to return, timed out or not.
Enter(r, o, u, tokens, at) ==
  /\ pc[r] = "idle"
  /\ serialized => \A q \in Request : ~InHandler(q)
  /\ op' = [op EXCEPT ![r] = o]
  /\ user' = [user EXCEPT ![r] = u]
  /\ given' = [given EXCEPT ![r] = tokens]
  /\ pc' = [pc EXCEPT ![r] = at]
  /\ UNCHANGED <<now, blacklist, since, pair, gone, serialized>>

\* The handler goes on to "at" and touches nothing else.
Goto(r, at) ==
  /\ pc' = [pc EXCEPT ![r] = at]
  /\ UNCHANGED <<now, blacklist, op, given, user, since, pair, gone, serialized>>

\* The user is at hand: GenerateTokenPair is called.
Loaded(r) ==
  /\ pc' = [pc EXCEPT ![r] = "mint"]
  /\ since' = [since EXCEPT ![r] = now]
  /\ UNCHANGED <<now, blacklist, op, given, user, pair, gone, serialized>>

StartLogin(r, u) == Enter(r, "login", u, Nothing, "login")

\* FindByUsername, then the password: no such user or a wrong password is a
\* 401; a database error, or a pair that cannot be signed, is a 500.
FindByUsername(r) ==
  /\ pc[r] = "login"
  /\ Loaded(r) \/ Goto(r, "unauthorized") \/ Goto(r, "error")

StartRefresh(r, t) ==
  Enter(r, "refresh", t.user, [Nothing EXCEPT !.refresh = t], "check")

\* Mutant: the old token is blacklisted as soon as it has passed the check.
CheckAndBurn(r) ==
  /\ pc[r] = "check"
  /\ IF TokenBlacklist!IsTokenBlacklisted(given[r].refresh)
       THEN Goto(r, "unauthorized")
       ELSE /\ TokenBlacklist!AddToken(given[r].refresh, RefreshLifetime)
            /\ pc' = [pc EXCEPT ![r] = "find"]
            /\ UNCHANGED <<op, given, user, since, pair, gone, serialized>>

\* Mutant: the blacklist is not asked.
CheckNothing(r) == pc[r] = "check" /\ Goto(r, "find")

CheckBlacklist(r) ==
  /\ pc[r] = "check"
  /\ IF TokenBlacklist!IsTokenBlacklisted(given[r].refresh)
       THEN Goto(r, "unauthorized")
       ELSE Goto(r, "find")

\* ValidateRefreshToken, then FindByID.  The row may be gone, and the database
\* or the signing may fail; a request that was given up may fail here as well,
\* because its context is cancelled.
FindByID(r) ==
  /\ pc[r] = "find"
  /\ IF ValidateRefreshToken(given[r].refresh, now)
       THEN Loaded(r) \/ Goto(r, "error")
       ELSE Goto(r, "unauthorized")

\* Mutant: the two tokens of the pair are swapped.
MintSwapped(r) ==
  /\ pc[r] = "mint"
  /\ pair' = [pair EXCEPT ![r] =
                 [access |-> generateRefreshToken(user[r], now, now),
                  refresh |-> generateAccessToken(user[r], now, now)]]
  /\ pc' = [pc EXCEPT ![r] = IF op[r] = "login" THEN "ok" ELSE "revoke"]
  /\ since' = [since EXCEPT ![r] = 0]
  /\ UNCHANGED <<now, blacklist, op, given, user, gone, serialized>>

\* GenerateTokenPair reads the clock for each iat and each exp: for the last
\* exp now, for the claims before it at an instant since the user was loaded.
Mint(r) ==
  /\ pc[r] = "mint"
  /\ \E read \in since[r] .. now :
       pair' = [pair EXCEPT ![r] =
                  [access |-> generateAccessToken(user[r], read, read),
                   refresh |-> generateRefreshToken(user[r], read, now)]]
  /\ pc' = [pc EXCEPT ![r] = IF op[r] = "login" THEN "ok" ELSE "revoke"]
  /\ since' = [since EXCEPT ![r] = 0]
  /\ UNCHANGED <<now, blacklist, op, given, user, gone, serialized>>

\* Mutant: the token is blacklisted for AccessTokenLifetime only.
BlacklistTokenBriefly(r) ==
  /\ TokenBlacklist!AddToken(given[r].refresh, AccessLifetime)
  /\ pc' = [pc EXCEPT ![r] = "ok"]
  /\ UNCHANGED <<op, given, user, since, pair, gone, serialized>>

\* Mutant: of the two refresh tokens the new one is blacklisted.
BlacklistNewToken(r) ==
  /\ TokenBlacklist!AddToken(
       IF op[r] = "refresh" THEN pair[r].refresh ELSE given[r].refresh, RefreshLifetime)
  /\ pc' = [pc EXCEPT ![r] = "ok"]
  /\ UNCHANGED <<op, given, user, since, pair, gone, serialized>>

\* BlacklistToken(req.RefreshToken, RefreshTokenLifetime), and the answer.
BlacklistToken(r) ==
  /\ TokenBlacklist!AddToken(given[r].refresh, RefreshLifetime)
  /\ pc' = [pc EXCEPT ![r] = "ok"]
  /\ UNCHANGED <<op, given, user, since, pair, gone, serialized>>

RevokeOld(r) == pc[r] = "revoke" /\ BlacklistToken(r)

\* JWTAuthMiddleware guards the route with the access token; the handler does
\* not look at whom the refresh token belongs to.
StartLogout(r, a, t) ==
  Enter(r, "logout", a.user, [access |-> a, refresh |-> t],
        IF ValidateAccessToken(a, now) THEN "logout" ELSE "unauthorized")

\* The token is not validated, only blacklisted, unless ctx is done.
Logout(r) ==
  /\ pc[r] = "logout"
  /\ BlacklistToken(r) \/ (gone[r] /\ Goto(r, "error"))

\* The client disconnects, or TimeoutMiddleware answers 408 while the handler
\* goes on.  Either cancels ctx, the timeout a moment later than its answer.
GiveUp(r) ==
  /\ InHandler(r) /\ ~gone[r]
  /\ gone' = [gone EXCEPT ![r] = TRUE]
  /\ UNCHANGED <<now, blacklist, op, pc, given, user, since, pair, serialized>>

\* Mutant: a pass drops what lapses before the next one, too.
CleanupAhead ==
  LET kept == {t \in DOMAIN blacklist : blacklist[t] > now + Second} IN
  /\ kept # DOMAIN blacklist
  /\ blacklist' = Restrict(blacklist, kept)
  /\ UNCHANGED <<now, request, serialized>>

Cleanup == TokenBlacklist!Cleanup /\ UNCHANGED <<request, serialized>>
Tick == TokenBlacklist!Tick /\ UNCHANGED <<request, serialized>>

\* The process stops and is started again, with an empty blacklist: of the
\* requests it has had, only what clients hold remains.
Restart ==
  /\ blacklist' = [t \in {} |-> 0]
  /\ pc' = [r \in Request |-> IF InHandler(r) THEN "lost" ELSE pc[r]]
  /\ op' = [r \in Request |-> "none"]
  /\ given' = [r \in Request |-> Nothing]
  /\ UNCHANGED <<now, user, since, pair, gone, serialized>>

Handler(r) ==
  \/ FindByUsername(r) \/ CheckBlacklist(r) \/ FindByID(r)
  \/ Mint(r) \/ RevokeOld(r) \/ Logout(r)

Next ==
  \/ \E r \in Request :
       \/ \E u \in User : StartLogin(r, u)
       \/ \E t \in Held : StartRefresh(r, t)
       \/ \E a, t \in Held : StartLogout(r, a, t)
       \/ Handler(r)
       \/ GiveUp(r)
  \/ Cleanup
  \/ Tick
  \/ Restart

Spec == Init /\ [][Next]_vars

-----------------------------------------------------------------------------

\* RefreshToken would get past its two checks with this token.
Accepts(t) == ValidateRefreshToken(t, now) /\ ~TokenBlacklist!IsTokenBlacklisted(t)

\* A handler ends where its operation can end, what it has generated is a pair
\* of tokens of the right kinds, and what it was given are tokens.
TypeOK ==
  /\ now \in Nat
  /\ DOMAIN blacklist \subseteq JWT /\ blacklist \in [DOMAIN blacklist -> Nat]
  /\ op \in [Request -> {"none", "login", "refresh", "logout"}]
  /\ pc \in [Request -> {"idle", "login", "check", "find", "mint", "revoke", "logout",
                         "ok", "unauthorized", "error", "lost"}]
  /\ given \in [Request -> [access : JWT \cup {NoToken}, refresh : JWT \cup {NoToken}]]
  /\ user \in [Request -> User]
  /\ since \in [Request -> Nat]
  /\ pair \in [Request -> [access : AccessJWT \cup {NoToken}, refresh : RefreshJWT \cup {NoToken}]]
  /\ gone \in [Request -> BOOLEAN]
  /\ serialized \in BOOLEAN

\* From the instant RefreshToken or Logout has answered with success, the
\* refresh token it was given is not accepted, however long the blacklist
\* remembers it and whatever the clean-up goroutine has deleted, until the
\* process is restarted.
RevokedStaysRejected ==
  \A r \in Request : Revokes(r) => ~Accepts(given[r].refresh)

\* A refresh token a client holds is good until it expires or a refresh or
\* logout with it has succeeded: a RefreshToken that failed after its checks
\* has not burned it.
GoodUntilRevoked ==
  \A t \in Held :
    ValidateRefreshToken(t, now) /\ ~Revoked(t) => Accepts(t)

\* Rejection is final: no refresh token that was refused once, as lapsed or as
\* revoked, is accepted later on, unless the process is restarted.
RejectionIsFinal == [][Restart \/ \A t \in Held : ~Accepts(t) => ~Accepts(t)']_vars

\* Two RefreshToken calls with one token have both succeeded since the process
\* was started.
Replayed ==
  \E r, q \in Request :
    /\ r # q
    /\ op[r] = "refresh" /\ pc[r] = "ok"
    /\ op[q] = "refresh" /\ pc[q] = "ok"
    /\ given[r].refresh = given[q].refresh

\* Behind the rate limiter a refresh token buys one new pair in a life of the
\* process: no two RefreshToken calls with it both succeed.
SingleUse == serialized => ~Replayed

\* The success of a request as its client and the others see it, which lasts
\* for this life of the process.
Success(r) ==
  [op |-> IF pc[r] = "ok" THEN op[r] ELSE "none",
   spent |-> IF Revokes(r) THEN {given[r].refresh} ELSE {}]

Ledger ==
  INSTANCE TokenLedger
    WITH AccessToken <- AccessJWT, RefreshToken <- RefreshJWT,
         held <- Held,
         success <- [r \in Request |-> Success(r)],
         accepted <- {t \in Held : Accepts(t)},
         exclusive <- serialized

\* Seen by the clients, the concurrent handlers, their timeouts, the blacklist
\* and its clean-up are a ledger: every success is one instant at which a token
\* is spent and its own user's pair is handed out, and what is accepted at any
\* time is what is held, not expired and not spent in this life of the process.
ImplementsTokenLedger == Ledger!Spec

-----------------------------------------------------------------------------
\* What the repository says and the code does not do.

\* A refresh token that has been used cannot be used again (the comment "prevent
\* replay attacks" in RefreshToken).
ReplayPrevented == ~Replayed

\* A successful refresh hands out a refresh token other than the old one.
RotationYieldsNewToken ==
  \A r \in Request :
    op[r] = "refresh" /\ pc[r] = "ok" => pair[r].refresh # given[r].refresh
=============================================================================
