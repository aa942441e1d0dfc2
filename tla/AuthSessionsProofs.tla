------------------------- MODULE AuthSessionsProofs -------------------------
(***************************************************************************)
(* Proofs about AuthSessions, for any requests, users, lifetimes and bound *)
(* on the clock.  The invariants come in layers, each inductive given the  *)
(* ones before it, Typed, Bounded, Covered, Exclusive and Owned; the last  *)
(* part is the refinement of TokenLedger.                                  *)
(***************************************************************************)
EXTENDS AuthSessions, TLAPS

USE DEF JWT, AccessJWT, RefreshJWT, Nothing

-----------------------------------------------------------------------------
(* The clock and the tokens.                                               *)

LEMMA UnixBound == \A t \in Nat : Unix(t) \in Nat /\ Unix(t) <= t
  BY SecondAssumption, SMT DEF Unix

LEMMA Generated ==
  ASSUME NEW u \in User, NEW issued \in Nat, NEW read \in Nat
  PROVE  /\ generateAccessToken(u, issued, read) \in AccessJWT
         /\ generateRefreshToken(u, issued, read) \in RefreshJWT
         /\ generateRefreshToken(u, issued, read).exp <= read + RefreshLifetime
<1>1. read + AccessLifetime \in Nat /\ read + RefreshLifetime \in Nat
  BY LifetimeAssumption
<1> QED
  BY <1>1, UnixBound DEF generateAccessToken, generateRefreshToken

-----------------------------------------------------------------------------
(* Layer 1: types, and which operation a program counter belongs to.       *)

Flow ==
  \A r \in Request :
    /\ pc[r] = "idle" => op[r] = "none"
    /\ pc[r] = "login" => op[r] = "login"
    /\ pc[r] = "mint" => op[r] \in {"login", "refresh"}
    /\ pc[r] \in {"check", "find", "revoke"} => op[r] = "refresh"
    /\ pc[r] = "logout" => op[r] = "logout"
    /\ op[r] \in {"refresh", "logout"} => given[r].refresh \in JWT

Typed == TypeOK /\ Flow

LEMMA HeldTokens ==
  ASSUME Typed, NEW t \in Held
  PROVE  /\ t \in JWT
         /\ t.kind = "refresh" => \E q \in Request : pair[q].refresh = t
<1>1. PICK q \in Request : t \in {pair[q].access, pair[q].refresh}
  BY DEF Held, Answered
<1>2. t # NoToken
  BY DEF Held, Answered
<1>3. /\ pair[q].access \in AccessJWT \cup {NoToken}
      /\ pair[q].refresh \in RefreshJWT \cup {NoToken}
  BY DEF Typed, TypeOK
<1> QED
  BY <1>1, <1>2, <1>3

LEMMA EnterTyped ==
  ASSUME Typed, NEW r \in Request, NEW o \in {"login", "refresh", "logout"}, NEW u \in User,
         NEW tokens \in [access : JWT \cup {NoToken}, refresh : JWT \cup {NoToken}],
         NEW at, Enter(r, o, u, tokens, at),
         \/ o = "login" /\ at = "login"
         \/ o = "refresh" /\ at = "check"
         \/ o = "logout" /\ at \in {"logout", "unauthorized"},
         o \in {"refresh", "logout"} => tokens.refresh \in JWT
  PROVE  Typed'
<1>1. TypeOK'
  BY DEF Typed, TypeOK, Enter
<1>2. Flow'
  BY DEF Typed, TypeOK, Flow, Enter
<1> QED
  BY <1>1, <1>2 DEF Typed

LEMMA GotoTyped ==
  ASSUME Typed, NEW r \in Request, NEW at, Goto(r, at),
         \/ at \in {"unauthorized", "error"}
         \/ at = "find" /\ pc[r] = "check"
  PROVE  Typed'
  BY DEF Typed, TypeOK, Flow, Goto

LEMMA LoadedTyped ==
  ASSUME Typed, NEW r \in Request, Loaded(r), pc[r] \in {"login", "find"}
  PROVE  Typed'
  BY DEF Typed, TypeOK, Flow, Loaded

\* The token lands on the blacklist and the handler ends.
LEMMA BlacklistTokenTyped ==
  ASSUME Typed, NEW r \in Request, BlacklistToken(r), pc[r] \in {"revoke", "logout"}
  PROVE  Typed'
<1>1. /\ given[r].refresh \in JWT
      /\ op[r] \in {"refresh", "logout"}
  BY DEF Typed, Flow
<1>2. now + RefreshLifetime \in Nat /\ now' = now
  BY LifetimeAssumption DEF Typed, TypeOK, BlacklistToken, TokenBlacklist!AddToken
<1>3. /\ DOMAIN blacklist' \subseteq JWT
      /\ blacklist' \in [DOMAIN blacklist' -> Nat]
  BY <1>1, <1>2 DEF Typed, TypeOK, BlacklistToken, TokenBlacklist!AddToken
<1>4. TypeOK'
  BY <1>2, <1>3 DEF Typed, TypeOK, BlacklistToken
<1>5. Flow'
  BY <1>1 DEF Typed, TypeOK, Flow, BlacklistToken
<1> QED
  BY <1>4, <1>5 DEF Typed

LEMMA MintTyped ==
  ASSUME Typed, NEW r \in Request, Mint(r)
  PROVE  Typed'
<1>1. PICK read \in since[r] .. now :
        pair' = [pair EXCEPT ![r] =
                   [access |-> generateAccessToken(user[r], read, read),
                    refresh |-> generateRefreshToken(user[r], read, now)]]
  BY DEF Mint
<1>2. read \in Nat /\ now \in Nat /\ user[r] \in User
  BY <1>1 DEF Typed, TypeOK
<1>3. pair'[r] \in [access : AccessJWT, refresh : RefreshJWT]
  BY <1>1, <1>2, Generated DEF Typed, TypeOK
<1>4. pair' \in [Request -> [access : AccessJWT \cup {NoToken}, refresh : RefreshJWT \cup {NoToken}]]
  BY <1>1, <1>3 DEF Typed, TypeOK
<1>5. TypeOK'
  BY <1>4 DEF Typed, TypeOK, Mint
<1>6. Flow'
  BY DEF Typed, TypeOK, Flow, Mint
<1> QED
  BY <1>5, <1>6 DEF Typed

LEMMA RequestTyped ==
  ASSUME Typed, NEW r \in Request,
         \/ \E u \in User : StartLogin(r, u)
         \/ \E t \in Held : StartRefresh(r, t)
         \/ \E a, t \in Held : StartLogout(r, a, t)
         \/ Handler(r)
         \/ GiveUp(r)
  PROVE  Typed'
<1>1. ASSUME NEW u \in User, StartLogin(r, u)
      PROVE  Typed'
  BY <1>1, EnterTyped DEF StartLogin
<1>2. ASSUME NEW t \in Held, StartRefresh(r, t)
      PROVE  Typed'
  <2> DEFINE tokens == [Nothing EXCEPT !.refresh = t]
  <2>1. t \in JWT /\ t.user \in User
    BY HeldTokens
  <2>2. /\ tokens \in [access : JWT \cup {NoToken}, refresh : JWT \cup {NoToken}]
        /\ tokens.refresh = t
    BY <2>1
  <2>3. Enter(r, "refresh", t.user, tokens, "check")
    BY <1>2 DEF StartRefresh
  <2> HIDE DEF tokens
  <2> QED
    BY <2>1, <2>2, <2>3, EnterTyped
<1>3. ASSUME NEW a \in Held, NEW t \in Held, StartLogout(r, a, t)
      PROVE  Typed'
  <2>1. a \in JWT /\ t \in JWT /\ a.user \in User
    BY HeldTokens
  <2> DEFINE at == IF ValidateAccessToken(a, now) THEN "logout" ELSE "unauthorized"
             tokens == [access |-> a, refresh |-> t]
  <2>2. at \in {"logout", "unauthorized"}
    OBVIOUS
  <2>3. Enter(r, "logout", a.user, tokens, at)
    BY <1>3 DEF StartLogout
  <2>4. /\ tokens \in [access : JWT \cup {NoToken}, refresh : JWT \cup {NoToken}]
        /\ tokens.refresh = t
    BY <2>1
  <2> HIDE DEF at, tokens
  <2> QED
    BY <2>1, <2>2, <2>3, <2>4, EnterTyped
<1>4. CASE FindByUsername(r)
  BY <1>4, GotoTyped, LoadedTyped DEF FindByUsername
<1>5. CASE CheckBlacklist(r)
  BY <1>5, GotoTyped DEF CheckBlacklist
<1>6. CASE FindByID(r)
  BY <1>6, GotoTyped, LoadedTyped DEF FindByID
<1>7. CASE Mint(r)
  BY <1>7, MintTyped
<1>8. CASE RevokeOld(r)
  BY <1>8, BlacklistTokenTyped DEF RevokeOld
<1>9. CASE Logout(r)
  BY <1>9, BlacklistTokenTyped, GotoTyped DEF Logout
<1>10. CASE GiveUp(r)
  BY <1>10 DEF Typed, TypeOK, Flow, GiveUp
<1> QED
  BY <1>1, <1>2, <1>3, <1>4, <1>5, <1>6, <1>7, <1>8, <1>9, <1>10 DEF Handler

LEMMA TypedInductive == Spec => []Typed
<1>1. Init => Typed
  <2>2. Init => Flow
    BY DEF Init, Flow
  <2>3. Init => user \in [Request -> User]
    BY DEF Init
  <2>4. Init => TypeOK
    <3>1. Init => DOMAIN blacklist = {} /\ blacklist \in [DOMAIN blacklist -> Nat]
      BY DEF Init
    <3>2. Init => /\ op \in [Request -> {"none", "login", "refresh", "logout"}]
                  /\ given \in [Request -> [access : JWT \cup {NoToken},
                                           refresh : JWT \cup {NoToken}]]
                  /\ pair \in [Request -> [access : AccessJWT \cup {NoToken},
                                          refresh : RefreshJWT \cup {NoToken}]]
      BY DEF Init
    <3>3. Init => /\ now \in Nat /\ since \in [Request -> Nat]
                  /\ gone \in [Request -> BOOLEAN]
      BY DEF Init
    <3>5. Init => serialized \in BOOLEAN
      BY DEF Init
    <3>4. Init => pc \in [Request -> {"idle", "login", "check", "find", "mint", "revoke",
                                      "logout", "ok", "unauthorized", "error", "lost"}]
      BY DEF Init
    <3> QED
      BY <2>3, <3>1, <3>2, <3>3, <3>4, <3>5 DEF TypeOK
  <2> QED
    BY <2>2, <2>4 DEF Typed
<1>2. Typed /\ [Next]_vars => Typed'
  <2> SUFFICES ASSUME Typed, [Next]_vars
               PROVE  Typed'
    OBVIOUS
  <2>1. ASSUME NEW r \in Request,
               \/ \E u \in User : StartLogin(r, u)
               \/ \E t \in Held : StartRefresh(r, t)
               \/ \E a, t \in Held : StartLogout(r, a, t)
               \/ Handler(r)
               \/ GiveUp(r)
        PROVE  Typed'
    BY <2>1, RequestTyped
  <2>2. CASE Cleanup
    BY <2>2 DEF Cleanup, TokenBlacklist!Cleanup, TokenBlacklist!Restrict, request,
                Typed, TypeOK, Flow
  <2>3. CASE Tick
    BY <2>3 DEF Tick, TokenBlacklist!Tick, request, Typed, TypeOK, Flow
  <2>4. CASE Restart
    <3>1. Nothing \in [access : JWT \cup {NoToken}, refresh : JWT \cup {NoToken}]
      OBVIOUS
    <3>2. /\ DOMAIN blacklist' = {} /\ blacklist' \in [DOMAIN blacklist' -> Nat]
          /\ given' \in [Request -> [access : JWT \cup {NoToken}, refresh : JWT \cup {NoToken}]]
      BY <2>4, <3>1 DEF Restart
    <3>3. /\ pc' \in [Request -> {"idle", "login", "check", "find", "mint", "revoke", "logout",
                                  "ok", "unauthorized", "error", "lost"}]
          /\ op' \in [Request -> {"none", "login", "refresh", "logout"}]
          /\ \A r \in Request : op'[r] = "none" /\ ~InHandler(r)'
      BY <2>4 DEF Restart, Typed, TypeOK, InHandler
    <3>4. TypeOK'
      BY <2>4, <3>2, <3>3 DEF Restart, Typed, TypeOK
    <3>5. Flow'
      BY <3>3 DEF Flow, InHandler
    <3> QED
      BY <3>4, <3>5 DEF Typed
  <2>5. CASE UNCHANGED vars
    BY <2>5 DEF vars, request, Typed, TypeOK, Flow
  <2> QED
    BY <2>1, <2>2, <2>3, <2>4, <2>5 DEF Next
<1> QED
  BY <1>1, <1>2, PTL DEF Spec

\* Handlers end where their operation can end and only ever handle tokens of
\* the right kind, with restarts and without (auth_usecase.go: Login,
\* RefreshToken, Logout).
THEOREM TypeCorrect == Spec => []TypeOK
  BY TypedInductive, PTL DEF Typed

-----------------------------------------------------------------------------
(* Layer 2: no refresh token in the system outlives the longest time the   *)
(* blacklist would remember it if it were revoked now.                     *)

ShortLived(t, at) == t \in RefreshJWT => t.exp <= at + RefreshLifetime

Bounded ==
  \A r \in Request : ShortLived(given[r].refresh, now) /\ ShortLived(pair[r].refresh, now)

LEMMA ClockAdvances ==
  ASSUME Typed, [Next]_vars
  PROVE  now \in Nat /\ now' \in Nat /\ now <= now'
<1>1. now \in Nat
  BY DEF Typed, TypeOK
<1>2. now' = now \/ now' = now + 1
  BY DEF Next, vars, Handler, FindByUsername, CheckBlacklist, FindByID, Mint, RevokeOld, Logout,
         BlacklistToken, Goto, Loaded, Enter, StartLogin, StartRefresh, StartLogout, GiveUp,
         Cleanup, Tick, Restart, TokenBlacklist!AddToken, TokenBlacklist!Cleanup,
         TokenBlacklist!Tick
<1> QED
  BY <1>1, <1>2

LEMMA StaysShortLived ==
  ASSUME Typed, [Next]_vars, NEW t, ShortLived(t, now)
  PROVE  ShortLived(t, now')
<1>1. RefreshLifetime \in Nat
  BY LifetimeAssumption
<1>2. CASE t \in RefreshJWT
  <2>1. t.exp \in Nat
    BY <1>2
  <2> QED
    BY <1>1, <1>2, <2>1, ClockAdvances DEF ShortLived
<1> QED
  BY <1>2 DEF ShortLived

\* What a client holds and sends was in a pair before.
LEMMA HeldShortLived ==
  ASSUME Typed, Bounded, NEW t \in Held
  PROVE  ShortLived(t, now)
  BY HeldTokens DEF Bounded, ShortLived

\* A step leaves what a slot was given alone, or the slot is given something
\* a client holds; it leaves the slot's pair alone, or mints it.
LEMMA GivenChanges ==
  ASSUME Typed, [Next]_vars, NEW r \in Request
  PROVE  \/ given'[r].refresh = given[r].refresh
         \/ given'[r].refresh = NoToken
         \/ given'[r].refresh \in Held
<1>1. CASE given' = given
  BY <1>1
<1>2. ASSUME NEW q \in Request, NEW u \in User, StartLogin(q, u)
      PROVE  given'[r].refresh \in {given[r].refresh, NoToken}
  BY <1>2 DEF StartLogin, Enter, Typed, TypeOK
<1>3. ASSUME NEW q \in Request, NEW t \in Held, StartRefresh(q, t)
      PROVE  given'[r].refresh \in {given[r].refresh, t}
  BY <1>3 DEF StartRefresh, Enter, Typed, TypeOK
<1>4. ASSUME NEW q \in Request, NEW a \in Held, NEW t \in Held, StartLogout(q, a, t)
      PROVE  given'[r].refresh \in {given[r].refresh, t}
  BY <1>4 DEF StartLogout, Enter, Typed, TypeOK
<1>5. \/ given' = given
      \/ Restart
      \/ \E q \in Request :
           \/ \E u \in User : StartLogin(q, u)
           \/ \E t \in Held : StartRefresh(q, t)
           \/ \E a, t \in Held : StartLogout(q, a, t)
  BY DEF Next, vars, request, Handler, FindByUsername, CheckBlacklist, FindByID, Mint, RevokeOld,
         Logout, BlacklistToken, Goto, Loaded, GiveUp, Cleanup, Tick
<1>6. CASE Restart
  BY <1>6 DEF Restart
<1> QED
  BY <1>1, <1>2, <1>3, <1>4, <1>5, <1>6

LEMMA PairChanges ==
  ASSUME Typed, [Next]_vars, NEW r \in Request
  PROVE  pair'[r].refresh = pair[r].refresh \/ ShortLived(pair'[r].refresh, now')
<1>1. ASSUME NEW q \in Request, Mint(q)
      PROVE  pair'[r].refresh = pair[r].refresh \/ ShortLived(pair'[r].refresh, now')
  <2>1. PICK read \in since[q] .. now :
          pair' = [pair EXCEPT ![q] =
                     [access |-> generateAccessToken(user[q], read, read),
                      refresh |-> generateRefreshToken(user[q], read, now)]]
    BY <1>1 DEF Mint
  <2>2. read \in Nat /\ now \in Nat /\ now' = now /\ user[q] \in User
    BY <1>1, <2>1 DEF Mint, Typed, TypeOK
  <2>3. generateRefreshToken(user[q], read, now).exp <= now + RefreshLifetime
    BY <2>2, Generated
  <2>4. CASE q = r
    <3>1. pair'[r].refresh = generateRefreshToken(user[q], read, now)
      BY <2>1, <2>4 DEF Typed, TypeOK
    <3> QED
      BY <2>2, <2>3, <3>1 DEF ShortLived
  <2>5. CASE q # r
    BY <2>1, <2>5 DEF Typed, TypeOK
  <2> QED
    BY <2>4, <2>5
<1>2. pair' = pair \/ \E q \in Request : Mint(q)
  BY DEF Next, vars, request, Handler, FindByUsername, CheckBlacklist, FindByID, RevokeOld,
         Logout, BlacklistToken, Goto, Loaded, GiveUp, Cleanup, Tick, Restart, Enter,
         StartLogin, StartRefresh, StartLogout
<1> QED
  BY <1>1, <1>2

LEMMA BoundedInductive == Spec => []Bounded
<1>1. Init => Bounded
  BY NoTokenAssumption DEF Init, Bounded, ShortLived
<1>2. Typed /\ Bounded /\ [Next]_vars => Bounded'
  <2> SUFFICES ASSUME Typed, Bounded, [Next]_vars, NEW r \in Request
               PROVE  ShortLived(given'[r].refresh, now') /\ ShortLived(pair'[r].refresh, now')
    BY DEF Bounded
  <2>1. ShortLived(given'[r].refresh, now')
    <3>1. CASE given'[r].refresh = NoToken
      BY <3>1, NoTokenAssumption DEF ShortLived
    <3>2. CASE given'[r].refresh = given[r].refresh \/ given'[r].refresh \in Held
      <4>1. ShortLived(given'[r].refresh, now)
        BY <3>2, HeldShortLived DEF Bounded
      <4> QED
        BY <4>1, StaysShortLived
    <3> QED
      BY <3>1, <3>2, GivenChanges
  <2>2. ShortLived(pair'[r].refresh, now')
    <3>1. CASE pair'[r].refresh = pair[r].refresh
      <4>1. ShortLived(pair'[r].refresh, now)
        BY <3>1 DEF Bounded
      <4> QED
        BY <4>1, StaysShortLived
    <3>2. CASE ShortLived(pair'[r].refresh, now')
      BY <3>2 DEF ShortLived
    <3> QED
      BY <3>1, <3>2, PairChanges
  <2> QED
    BY <2>1, <2>2
<1> QED
  BY <1>1, <1>2, TypedInductive, PTL DEF Spec

-----------------------------------------------------------------------------
(* Layer 3: a successful revocation is remembered for as long as its token *)
(* lives, and nothing else is remembered.                                  *)

Settled(t) == now >= t.exp \/ (t \in DOMAIN blacklist /\ t.exp <= blacklist[t])

Covered ==
  /\ \A r \in Request :
       Revokes(r) /\ given[r].refresh \in RefreshJWT => Settled(given[r].refresh)
  /\ \A t \in DOMAIN blacklist : Revoked(t)

Remembering == Typed /\ Bounded /\ Covered

\* A success is never taken back in this life of the process.
LEMMA RevokesStays ==
  ASSUME Typed, [Next]_vars, ~Restart, NEW r \in Request, Revokes(r)
  PROVE  Revokes(r)' /\ given'[r] = given[r]
<1> USE DEF Revokes, Typed, TypeOK
<1>1. ASSUME NEW q \in Request,
             NEW o \in {"login", "refresh", "logout"}, NEW u, NEW tokens, NEW at,
             Enter(q, o, u, tokens, at)
      PROVE  Revokes(r)' /\ given'[r] = given[r]
  BY <1>1 DEF Enter
<1>2. ASSUME NEW q \in Request, Handler(q) \/ GiveUp(q)
      PROVE  Revokes(r)' /\ given'[r] = given[r]
  BY <1>2 DEF Handler, FindByUsername, CheckBlacklist, FindByID, Mint, RevokeOld, Logout,
              BlacklistToken, Goto, Loaded, GiveUp
<1>3. CASE Cleanup \/ Tick \/ UNCHANGED vars
  BY <1>3 DEF Cleanup, Tick, vars, request
<1> QED
  BY <1>1, <1>2, <1>3 DEF Next, StartLogin, StartRefresh, StartLogout

\* Only four kinds of step matter to the blacklist.
LEMMA StepKinds ==
  ASSUME Typed, [Next]_vars
  PROVE  \/ \E r \in Request : BlacklistToken(r) /\ pc[r] \in {"revoke", "logout"}
         \/ Cleanup
         \/ Tick
         \/ Restart
         \/ /\ UNCHANGED <<now, blacklist>>
            /\ \A q \in Request : Revokes(q)' => Revokes(q)
<1> DEFINE quiet == /\ UNCHANGED <<now, blacklist>>
                    /\ \A q \in Request : Revokes(q)' => Revokes(q)
<1> USE DEF Revokes, Typed, TypeOK
<1>1. ASSUME NEW r \in Request,
             NEW o \in {"login", "refresh", "logout"}, NEW u, NEW tokens, NEW at,
             Enter(r, o, u, tokens, at), at # "ok"
      PROVE  quiet
  BY <1>1 DEF Enter
<1>2. ASSUME NEW r \in Request, NEW at, Goto(r, at), at # "ok"
      PROVE  quiet
  BY <1>2 DEF Goto
<1>3. ASSUME NEW r \in Request, Loaded(r)
      PROVE  quiet
  BY <1>3 DEF Loaded
<1>4. ASSUME NEW r \in Request, Mint(r) \/ GiveUp(r)
      PROVE  quiet
  BY <1>4 DEF Mint, GiveUp
<1>5. CASE UNCHANGED vars
  BY <1>5 DEF vars, request
<1>6. ASSUME NEW r \in Request, Handler(r)
      PROVE  quiet \/ (BlacklistToken(r) /\ pc[r] \in {"revoke", "logout"})
  BY <1>2, <1>3, <1>4, <1>6 DEF Handler, FindByUsername, CheckBlacklist, FindByID, RevokeOld, Logout
<1>7. ASSUME NEW r \in Request,
             \/ \E u \in User : StartLogin(r, u)
             \/ \E t \in Held : StartRefresh(r, t)
             \/ \E a, t \in Held : StartLogout(r, a, t)
      PROVE  quiet
  BY <1>1, <1>7 DEF StartLogin, StartRefresh, StartLogout
<1> QED
  BY <1>4, <1>5, <1>6, <1>7 DEF Next

\* The new entry outlives its token, and leaves the others as they are.
LEMMA RevocationCovers ==
  ASSUME Remembering, NEW r \in Request, BlacklistToken(r), pc[r] \in {"revoke", "logout"},
         [Next]_vars
  PROVE  Covered'
<1> DEFINE tok == given[r].refresh
<1>1. /\ tok \in JWT /\ op[r] \in {"refresh", "logout"}
      /\ now \in Nat /\ RefreshLifetime \in Nat /\ now' = now
  BY LifetimeAssumption
  DEF Remembering, Typed, TypeOK, Flow, BlacklistToken, TokenBlacklist!AddToken
<1>2. /\ blacklist' = [x \in DOMAIN blacklist \cup {tok} |->
                         IF x = tok THEN now + RefreshLifetime ELSE blacklist[x]]
      /\ given' = given
      /\ \A q \in Request : Revokes(q)' <=> Revokes(q) \/ q = r
  BY <1>1 DEF Remembering, Typed, TypeOK, Revokes, BlacklistToken, TokenBlacklist!AddToken
<1>3. tok \in RefreshJWT => tok.exp <= now + RefreshLifetime
  BY DEF Remembering, Bounded, ShortLived
<1>4. ASSUME NEW q \in Request, Revokes(q)', given'[q].refresh \in RefreshJWT
      PROVE  Settled(given[q].refresh)'
  <2>1. CASE given[q].refresh = tok
    BY <1>2, <1>3, <1>4, <2>1 DEF Settled
  <2>2. CASE given[q].refresh # tok
    <3>1. Settled(given[q].refresh)
      BY <1>2, <1>4, <2>2 DEF Remembering, Covered
    <3> QED
      BY <1>1, <1>2, <2>2, <3>1 DEF Settled
  <2> QED
    BY <2>1, <2>2
<1>5. ASSUME NEW t \in DOMAIN blacklist'
      PROVE  Revoked(t)'
  BY <1>2, <1>5 DEF Remembering, Covered, Revoked
<1> QED
  BY <1>4, <1>5 DEF Covered

LEMMA CleanupCovers ==
  ASSUME Remembering, Cleanup
  PROVE  Covered'
<1> DEFINE expired == TokenBlacklist!Expired
<1>1. /\ now' = now /\ given' = given /\ pc' = pc /\ op' = op
      /\ blacklist' = [x \in DOMAIN blacklist \ expired |-> blacklist[x]]
  BY DEF Cleanup, request, TokenBlacklist!Cleanup, TokenBlacklist!Restrict
<1>2. now \in Nat /\ blacklist \in [DOMAIN blacklist -> Nat]
  BY DEF Remembering, Typed, TypeOK
<1>3. ASSUME NEW t \in RefreshJWT, Settled(t)
      PROVE  Settled(t)'
  <2>1. t.exp \in Nat
    OBVIOUS
  <2>2. CASE t \in expired
    BY <1>1, <1>2, <1>3, <2>1, <2>2 DEF Settled, TokenBlacklist!Expired
  <2>3. CASE t \notin expired
    BY <1>1, <1>3, <2>3 DEF Settled
  <2> QED
    BY <2>2, <2>3
<1> QED
  BY <1>1, <1>3 DEF Remembering, Covered, Revokes, Revoked

LEMMA CoveredInductive == Spec => []Covered
<1>1. Init => Covered
  BY DEF Init, Covered, Revokes, Revoked
<1>2. Remembering /\ [Next]_vars => Covered'
  <2> SUFFICES ASSUME Remembering, [Next]_vars
               PROVE  Covered'
    OBVIOUS
  <2>1. ASSUME NEW r \in Request, BlacklistToken(r), pc[r] \in {"revoke", "logout"}
        PROVE  Covered'
    BY <2>1, RevocationCovers
  <2>2. CASE Cleanup
    BY <2>2, CleanupCovers
  <2>3. CASE Tick
    <3>1. /\ now' = now + 1 /\ now \in Nat /\ blacklist' = blacklist
          /\ given' = given /\ pc' = pc /\ op' = op
      BY <2>3 DEF Remembering, Typed, TypeOK, Tick, TokenBlacklist!Tick, request
    <3>2. ASSUME NEW t \in RefreshJWT, Settled(t)
          PROVE  Settled(t)'
      <4>1. t.exp \in Nat
        OBVIOUS
      <4> QED
        BY <3>1, <3>2, <4>1 DEF Settled
    <3> QED
      BY <3>1, <3>2 DEF Remembering, Covered, Revokes, Revoked
  <2>4. CASE /\ ~Restart
             /\ UNCHANGED <<now, blacklist>>
             /\ \A q \in Request : Revokes(q)' => Revokes(q)
    <3>1. ASSUME NEW q \in Request, Revokes(q)
          PROVE  Revokes(q)' /\ given'[q] = given[q]
      BY <2>4, <3>1, RevokesStays DEF Remembering
    <3>2. ASSUME NEW t
          PROVE  /\ Settled(t) <=> Settled(t)'
                 /\ Revoked(t) <=> Revoked(t)'
      BY <2>4, <3>1 DEF Settled, Revoked
    <3> QED
      BY <2>4, <3>1, <3>2 DEF Remembering, Covered
  <2>5. CASE Restart
    <3>1. DOMAIN blacklist' = {}
      BY <2>5 DEF Restart
    <3>2. \A r \in Request : op'[r] = "none"
      BY <2>5 DEF Restart
    <3> QED
      BY <3>1, <3>2 DEF Covered, Revokes
  <2> QED
    BY <2>1, <2>2, <2>3, <2>4, <2>5, StepKinds DEF Remembering
<1> QED
  BY <1>1, <1>2, TypedInductive, BoundedInductive, PTL DEF Spec, Remembering

LEMMA RememberingInductive == Spec => []Remembering
  BY TypedInductive, BoundedInductive, CoveredInductive, PTL DEF Remembering

\* A token whose revocation succeeded is refused.
LEMMA CoveredRefused ==
  ASSUME Remembering, NEW r \in Request, Revokes(r)
  PROVE  ~Accepts(given[r].refresh)
<1> DEFINE tok == given[r].refresh
<1>1. SUFFICES ASSUME ValidateRefreshToken(tok, now)
               PROVE  TokenBlacklist!IsTokenBlacklisted(tok)
  BY DEF Accepts
<1>2. tok \in RefreshJWT /\ now < tok.exp
  <2>1. tok \in JWT
    BY DEF Remembering, Typed, Flow, Revokes
  <2> QED
    BY <1>1, <2>1 DEF ValidateRefreshToken, Validate
<1>3. Settled(tok)
  BY <1>2 DEF Remembering, Covered
<1>4. now \in Nat /\ tok.exp \in Nat /\ blacklist \in [DOMAIN blacklist -> Nat]
  BY <1>2 DEF Remembering, Typed, TypeOK
<1> QED
  BY <1>2, <1>3, <1>4 DEF Settled, TokenBlacklist!IsTokenBlacklisted

LEMMA RememberingRejects == Remembering => RevokedStaysRejected
  BY CoveredRefused DEF RevokedStaysRejected

\* Until the process is restarted, a refresh token is refused from the instant
\* its refresh or logout has succeeded (RefreshToken, Logout, AddToken,
\* startCleanupRoutine).
THEOREM RevokedTokensStayRejected == Spec => []RevokedStaysRejected
  BY RememberingRejects, RememberingInductive, PTL

\* A failed RefreshToken leaves the token it was called with good.
THEOREM TokensGoodUntilRevoked == Spec => []GoodUntilRevoked
<1>1. Remembering => GoodUntilRevoked
  BY DEF Remembering, Covered, GoodUntilRevoked, Accepts, TokenBlacklist!IsTokenBlacklisted
<1> QED
  BY <1>1, RememberingInductive, PTL

\* No step but a restart makes a refused refresh token good again, whatever the
\* clean-up has forgotten (startCleanupRoutine, IsTokenBlacklisted,
\* ValidateRefreshToken).
THEOREM RejectionsAreFinal == Spec => RejectionIsFinal
<1>1. Remembering /\ Remembering' /\ [Next]_vars =>
        [Restart \/ \A t \in Held : ~Accepts(t) => ~Accepts(t)']_vars
  <2> SUFFICES ASSUME Remembering, Remembering', [Next]_vars, ~Restart,
                      NEW t \in Held, ~Accepts(t)
               PROVE  ~Accepts(t)'
    OBVIOUS
  <2>1. CASE ~ValidateRefreshToken(t, now)
    <3>1. t \in JWT /\ t # NoToken
      BY HeldTokens DEF Remembering, Held
    <3>2. now \in Nat /\ now' \in Nat /\ now <= now' /\ t.exp \in Nat
      BY <3>1, ClockAdvances DEF Remembering
    <3> QED
      BY <2>1, <3>1, <3>2 DEF Accepts, ValidateRefreshToken, Validate
  <2>2. CASE TokenBlacklist!IsTokenBlacklisted(t)
    <3>1. PICK r \in Request : Revokes(r) /\ given[r].refresh = t
      BY <2>2 DEF Remembering, Covered, Revoked, TokenBlacklist!IsTokenBlacklisted
    <3>2. Revokes(r)' /\ given'[r].refresh = t
      BY <3>1, RevokesStays DEF Remembering
    <3>3. RevokedStaysRejected'
      BY RememberingRejects, PTL
    <3> QED
      BY <3>2, <3>3 DEF RevokedStaysRejected
  <2> QED
    BY <2>1, <2>2 DEF Accepts
<1> QED
  BY <1>1, RememberingInductive, PTL DEF Spec, RejectionIsFinal

-----------------------------------------------------------------------------
(* Layer 4: behind the rate limiter's mutex, a refresh token that another  *)
(* refresh or logout has spent does not get through the checks.            *)

Exclusive ==
  /\ \A r, q \in Request : InHandler(r) /\ InHandler(q) => r = q
  /\ \A r, q \in Request :
       /\ op[r] = "refresh" /\ Revokes(q) /\ given[q].refresh = given[r].refresh
       /\ given[r].refresh \in RefreshJWT
       => /\ pc[r] = "find" => now >= given[r].refresh.exp
          /\ pc[r] \notin {"mint", "revoke"}
  /\ \A r \in Request :
       op[r] = "refresh" /\ pc[r] \in {"mint", "revoke", "ok"} => given[r].refresh \in RefreshJWT
  /\ ~Replayed

Guarded == Remembering /\ Exclusive

LEMMA GuardedEnter ==
  ASSUME Guarded, serialized, NEW r \in Request,
         NEW o \in {"login", "refresh", "logout"}, NEW u, NEW tokens,
         NEW at \in {"login", "check", "logout", "unauthorized"}, Enter(r, o, u, tokens, at)
  PROVE  Exclusive'
<1> USE DEF Guarded, Remembering, Typed, TypeOK, Enter
<1>1. \A p, q \in Request : InHandler(p)' /\ InHandler(q)' => p = q
  BY DEF InHandler
<1>2. \A q \in Request : Revokes(q)' => Revokes(q) /\ given'[q] = given[q]
  BY DEF Revokes
<1>3. \A q \in Request : pc'[q] \in {"find", "mint", "revoke", "ok"} =>
        pc'[q] = pc[q] /\ op'[q] = op[q] /\ given'[q] = given[q]
  OBVIOUS
<1>4. now' = now
  OBVIOUS
<1> HIDE DEF Guarded, Remembering, Typed, TypeOK, Enter
<1>5. ~Replayed'
  BY <1>3 DEF Guarded, Exclusive, Replayed
<1> QED
  BY <1>1, <1>2, <1>3, <1>4, <1>5 DEF Exclusive, Guarded

\* A handler that ends without success.
LEMMA GuardedEnd ==
  ASSUME Guarded, NEW r \in Request, NEW at \in {"unauthorized", "error"}, Goto(r, at)
  PROVE  Exclusive'
  BY DEF Guarded, Remembering, Typed, TypeOK, Exclusive, Replayed, Revokes, InHandler, Goto

\* The blacklist has not heard of the token, or only after it expired.
LEMMA GuardedCheck ==
  ASSUME Guarded, NEW r \in Request, CheckBlacklist(r)
  PROVE  Exclusive'
<1>1. CASE TokenBlacklist!IsTokenBlacklisted(given[r].refresh)
  BY <1>1, GuardedEnd DEF CheckBlacklist
<1>2. CASE ~TokenBlacklist!IsTokenBlacklisted(given[r].refresh)
  <2> DEFINE tok == given[r].refresh
  <2>1. pc[r] = "check" /\ Goto(r, "find")
    BY <1>2 DEF CheckBlacklist
  <2>2. ASSUME NEW q \in Request, Revokes(q), given[q].refresh = tok, tok \in RefreshJWT
        PROVE  now >= tok.exp
    <3>1. Settled(tok)
      BY <2>2 DEF Guarded, Remembering, Covered, Revokes
    <3>2. now \in Nat /\ tok.exp \in Nat /\ blacklist \in [DOMAIN blacklist -> Nat]
      BY <2>2 DEF Guarded, Remembering, Typed, TypeOK
    <3> QED
      BY <1>2, <3>1, <3>2 DEF Settled, TokenBlacklist!IsTokenBlacklisted
  <2> QED
    BY <2>1, <2>2
    DEF Guarded, Remembering, Typed, TypeOK, Exclusive, Replayed, Revokes, InHandler, Goto
<1> QED
  BY <1>1, <1>2

\* A token that is still valid has not been used by another refresh.
LEMMA GuardedFind ==
  ASSUME Guarded, NEW r \in Request, FindByID(r)
  PROVE  Exclusive'
<1>1. CASE ~(ValidateRefreshToken(given[r].refresh, now) /\ Loaded(r))
  BY <1>1, GuardedEnd DEF FindByID
<1>2. CASE ValidateRefreshToken(given[r].refresh, now) /\ Loaded(r)
  <2> DEFINE tok == given[r].refresh
  <2>1. pc[r] = "find" /\ op[r] = "refresh"
    BY DEF FindByID, Guarded, Remembering, Typed, Flow
  <2>2. tok \in RefreshJWT /\ now < tok.exp
    BY <1>2, <2>1 DEF Guarded, Remembering, Typed, Flow, ValidateRefreshToken, Validate
  <2>3. now \in Nat /\ tok.exp \in Nat
    BY <2>2 DEF Guarded, Remembering, Typed, TypeOK
  <2>4. \A q \in Request : ~(Revokes(q) /\ given[q].refresh = tok)
    BY <2>1, <2>2, <2>3 DEF Guarded, Exclusive
  <2> QED
    BY <1>2, <2>1, <2>2, <2>4
    DEF Guarded, Remembering, Typed, TypeOK, Exclusive, Replayed, Revokes, InHandler, Loaded
<1> QED
  BY <1>1, <1>2

LEMMA GuardedLogin ==
  ASSUME Guarded, NEW r \in Request, FindByUsername(r)
  PROVE  Exclusive'
<1>1. CASE Goto(r, "unauthorized") \/ Goto(r, "error")
  BY <1>1, GuardedEnd
<1>2. CASE Loaded(r)
  <2>1. pc[r] = "login" /\ op[r] = "login"
    BY DEF FindByUsername, Guarded, Remembering, Typed, Flow
  <2> QED
    BY <1>2, <2>1
    DEF Guarded, Remembering, Typed, TypeOK, Exclusive, Replayed, Revokes, InHandler, Loaded
<1> QED
  BY <1>1, <1>2 DEF FindByUsername

LEMMA GuardedMint ==
  ASSUME Guarded, NEW r \in Request, Mint(r)
  PROVE  Exclusive'
<1>1. pc[r] = "mint" /\ op[r] \in {"login", "refresh"}
  BY DEF Mint, Guarded, Remembering, Typed, Flow
<1> QED
  BY <1>1
  DEF Guarded, Remembering, Typed, TypeOK, Exclusive, Replayed, Revokes, InHandler, Mint

\* The one step that makes a refresh succeed: no other is in a handler.
LEMMA GuardedRevocation ==
  ASSUME Guarded, NEW r \in Request, BlacklistToken(r), pc[r] \in {"revoke", "logout"}
  PROVE  Exclusive'
<1> DEFINE tok == given[r].refresh
<1>1. /\ op' = op /\ given' = given /\ now' = now
      /\ pc' = [pc EXCEPT ![r] = "ok"]
      /\ pc \in [Request -> {"idle", "login", "check", "find", "mint", "revoke", "logout",
                              "ok", "unauthorized", "error", "lost"}]
      /\ InHandler(r)
  BY DEF BlacklistToken, TokenBlacklist!AddToken, Guarded, Remembering, Typed, TypeOK, InHandler
<1>2. \A q \in Request : Revokes(q)' => Revokes(q) \/ q = r
  BY <1>1 DEF Revokes
<1>3. op[r] = "refresh" => /\ pc[r] = "revoke" /\ tok \in RefreshJWT
                           /\ \A q \in Request : ~(Revokes(q) /\ given[q].refresh = tok)
  <2>1. pc[r] = "logout" => op[r] = "logout"
    BY DEF Guarded, Remembering, Typed, Flow
  <2> QED
    BY <2>1 DEF Guarded, Exclusive
<1>4. \A p, q \in Request : InHandler(p)' /\ InHandler(q)' => p = q
  BY <1>1 DEF InHandler, Guarded, Exclusive
<1>5. \A p \in Request : pc'[p] \notin {"find", "mint", "revoke"}
  BY <1>1 DEF InHandler, Guarded, Exclusive
<1>6. ~Replayed'
  BY <1>1, <1>2, <1>3 DEF Revokes, Guarded, Exclusive, Replayed
<1>7. \A p \in Request :
        op'[p] = "refresh" /\ pc'[p] \in {"mint", "revoke", "ok"} => given'[p].refresh \in RefreshJWT
  BY <1>1, <1>3 DEF Guarded, Exclusive
<1> QED
  BY <1>4, <1>5, <1>6, <1>7 DEF Exclusive

LEMMA GuardedQuiet ==
  ASSUME Guarded, UNCHANGED <<op, pc, given>>, now \in Nat, now' \in Nat, now <= now'
  PROVE  Exclusive'
<1>1. \A r \in Request : given[r].refresh \in RefreshJWT => given[r].refresh.exp \in Nat
  OBVIOUS
<1> QED
  BY <1>1 DEF Guarded, Exclusive, Replayed, Revokes, InHandler

\* No step turns the rate limiter on or off.
LEMMA SerializedStays ==
  ASSUME [Next]_vars
  PROVE  serialized' = serialized
  BY DEF Next, vars, Handler, FindByUsername, CheckBlacklist, FindByID, Mint, RevokeOld, Logout,
         BlacklistToken, Goto, Loaded, Enter, StartLogin, StartRefresh, StartLogout, GiveUp,
         Cleanup, Tick, Restart

LEMMA ExclusiveInductive == Spec => [](serialized => Exclusive)
<1>1. Init => Exclusive
  BY DEF Init, Exclusive, Replayed, Revokes, InHandler
<1>2. Remembering /\ (serialized => Exclusive) /\ [Next]_vars => (serialized => Exclusive)'
  <2> SUFFICES ASSUME Guarded, serialized, [Next]_vars
               PROVE  Exclusive'
    BY SerializedStays DEF Guarded
  <2>1. now \in Nat /\ now' \in Nat /\ now <= now'
    BY ClockAdvances DEF Guarded, Remembering
  <2>2. ASSUME NEW r \in Request,
               \/ \E u \in User : StartLogin(r, u)
               \/ \E t \in Held : StartRefresh(r, t)
               \/ \E a, t \in Held : StartLogout(r, a, t)
        PROVE  Exclusive'
    BY <2>2, GuardedEnter DEF StartLogin, StartRefresh, StartLogout
  <2>3. ASSUME NEW r \in Request, Handler(r)
        PROVE  Exclusive'
    BY <2>3, GuardedLogin, GuardedCheck, GuardedFind, GuardedMint, GuardedRevocation, GuardedEnd
    DEF Handler, RevokeOld, Logout
  <2>4. ASSUME NEW r \in Request, GiveUp(r)
        PROVE  Exclusive'
    BY <2>1, <2>4, GuardedQuiet DEF GiveUp
  <2>5. CASE Cleanup \/ Tick \/ UNCHANGED vars
    BY <2>1, <2>5, GuardedQuiet DEF Cleanup, Tick, vars, request
  <2>6. CASE Restart
    BY <2>6 DEF Restart, Guarded, Remembering, Typed, TypeOK,
                Exclusive, Replayed, Revokes, InHandler
  <2> QED
    BY <2>2, <2>3, <2>4, <2>5, <2>6 DEF Next
<1> QED
  BY <1>1, <1>2, RememberingInductive, PTL DEF Spec

\* As long as the rate limiter serialises the handlers, one refresh token yields
\* one new pair in each life of the process (RefreshToken, LimitMiddleware).
THEOREM RefreshIsSingleUse == Spec => []SingleUse
<1>1. Exclusive => ~Replayed
  BY DEF Exclusive
<1> QED
  BY <1>1, ExclusiveInductive, PTL DEF SingleUse

-----------------------------------------------------------------------------
(* Layer 5: a request that is on its way to success acts for the user of   *)
(* the token it was sent, holds a pair for that user and nothing before it *)
(* is minted, and was sent a token that some client holds.                 *)

PairFor(p, u) ==
  /\ p.access \in AccessJWT /\ p.access.user = u
  /\ p.refresh \in RefreshJWT /\ p.refresh.user = u

Owned ==
  \A r \in Request :
    /\ op[r] = "refresh" /\ InHandler(r) => user[r] = given[r].refresh.user
    /\ op[r] = "refresh" /\ pc[r] \in {"mint", "revoke"} => given[r].refresh \in RefreshJWT
    /\ pc[r] \in {"idle", "login", "check", "find", "mint", "logout"} => pair[r] = Nothing
    /\ pc[r] = "revoke" => PairFor(pair[r], user[r])
    /\ InHandler(r) /\ op[r] \in {"refresh", "logout"} => given[r].refresh \in Held

\* What has reached its client stays there, restarts included.
LEMMA AnswersStay ==
  ASSUME Typed, [Next]_vars, NEW r \in Request, pc[r] = "ok"
  PROVE  pc'[r] = "ok" /\ pair'[r] = pair[r] /\ gone'[r] = gone[r]
<1> USE DEF Typed, TypeOK
<1>1. ASSUME NEW q \in Request,
             NEW o \in {"login", "refresh", "logout"}, NEW u, NEW tokens, NEW at,
             Enter(q, o, u, tokens, at)
      PROVE  pc'[r] = "ok" /\ pair'[r] = pair[r] /\ gone'[r] = gone[r]
  BY <1>1 DEF Enter
<1>2. ASSUME NEW q \in Request, Handler(q) \/ GiveUp(q)
      PROVE  pc'[r] = "ok" /\ pair'[r] = pair[r] /\ gone'[r] = gone[r]
  BY <1>2 DEF Handler, FindByUsername, CheckBlacklist, FindByID, Mint, RevokeOld, Logout,
              BlacklistToken, Goto, Loaded, GiveUp, InHandler
<1>3. CASE Cleanup \/ Tick \/ UNCHANGED vars
  BY <1>3 DEF Cleanup, Tick, vars, request
<1>4. CASE Restart
  BY <1>4 DEF Restart, InHandler
<1> QED
  BY <1>1, <1>2, <1>3, <1>4 DEF Next, StartLogin, StartRefresh, StartLogout

LEMMA HeldStays ==
  ASSUME Typed, [Next]_vars, NEW t \in Held
  PROVE  t \in Held'
<1>1. PICK q \in Request : /\ pc[q] = "ok" /\ ~gone[q]
                           /\ t \in {pair[q].access, pair[q].refresh}
  BY DEF Held, Answered
<1>2. pc'[q] = "ok" /\ pair'[q] = pair[q] /\ ~gone'[q]
  BY <1>1, AnswersStay
<1>3. t # NoToken
  BY DEF Held
<1> QED
  BY <1>1, <1>2, <1>3 DEF Held, Answered

LEMMA OwnedEnter ==
  ASSUME Typed, Owned, [Next]_vars, NEW r \in Request, NEW o \in {"login", "refresh", "logout"},
         NEW u, NEW tokens, NEW at \in {"login", "check", "logout", "unauthorized"},
         Enter(r, o, u, tokens, at),
         o = "login" <=> at = "login", o = "refresh" <=> at = "check",
         o = "refresh" => u = tokens.refresh.user,
         o \in {"refresh", "logout"} => tokens.refresh \in Held
  PROVE  Owned'
<1>1. /\ pair' = pair
      /\ op'[r] = o /\ user'[r] = u /\ given'[r] = tokens /\ pc'[r] = at
      /\ pc[r] = "idle"
      /\ \A q \in Request : q # r => /\ op'[q] = op[q] /\ user'[q] = user[q]
                                     /\ given'[q] = given[q] /\ pc'[q] = pc[q]
  BY DEF Enter, Typed, TypeOK
<1>2. \A q \in Request : q # r => (InHandler(q)' <=> InHandler(q))
  BY <1>1 DEF InHandler
<1>3. \A t \in Held : t \in Held'
  BY HeldStays
<1> QED
  BY <1>1, <1>2, <1>3 DEF Owned

\* A step of one handler that leaves what all the others look at alone.
LEMMA OwnedStep ==
  ASSUME Typed, Owned, [Next]_vars, NEW r \in Request,
         UNCHANGED <<op, given, user>>,
         \A q \in Request : q # r => pc'[q] = pc[q] /\ pair'[q] = pair[q],
         InHandler(r)' => InHandler(r),
         pc'[r] \in {"mint", "revoke"} /\ op[r] = "refresh" => given[r].refresh \in RefreshJWT,
         pc'[r] \in {"idle", "login", "check", "find", "mint", "logout"} => pair'[r] = Nothing,
         pc'[r] = "revoke" => PairFor(pair'[r], user[r])
  PROVE  Owned'
<1>1. \A q \in Request : InHandler(q)' => InHandler(q)
  BY DEF InHandler
<1>2. \A t \in Held : t \in Held'
  BY HeldStays
<1> QED
  BY <1>1, <1>2 DEF Owned

LEMMA MintedPair ==
  ASSUME Typed, NEW r \in Request, Mint(r)
  PROVE  /\ PairFor(pair'[r], user[r])
         /\ \A q \in Request : q # r => pair'[q] = pair[q]
<1>1. PICK read \in since[r] .. now :
        pair' = [pair EXCEPT ![r] =
                   [access |-> generateAccessToken(user[r], read, read),
                    refresh |-> generateRefreshToken(user[r], read, now)]]
  BY DEF Mint
<1>2. read \in Nat /\ now \in Nat /\ user[r] \in User
  BY <1>1 DEF Typed, TypeOK
<1>3. /\ pair'[r].access = generateAccessToken(user[r], read, read)
      /\ pair'[r].refresh = generateRefreshToken(user[r], read, now)
  BY <1>1 DEF Typed, TypeOK
<1>4. /\ generateAccessToken(user[r], read, read).user = user[r]
      /\ generateRefreshToken(user[r], read, now).user = user[r]
  BY DEF generateAccessToken, generateRefreshToken
<1> QED
  BY <1>1, <1>2, <1>3, <1>4, Generated DEF PairFor, Typed, TypeOK

LEMMA OwnedHandler ==
  ASSUME Typed, Owned, [Next]_vars, NEW r \in Request, Handler(r)
  PROVE  Owned'
<1> USE DEF InHandler
<1>1. ASSUME NEW at \in {"unauthorized", "error"}, Goto(r, at)
      PROVE  Owned'
  BY <1>1, OwnedStep DEF Goto, Typed, TypeOK
<1>2. CASE FindByUsername(r)
  <2>1. CASE Loaded(r)
    <3>1. pc[r] = "login" /\ op[r] = "login" /\ pair[r] = Nothing
      BY <1>2 DEF FindByUsername, Typed, Flow, Owned
    <3> QED
      BY <2>1, <3>1, OwnedStep DEF Loaded, Typed, TypeOK
  <2> QED
    BY <1>1, <1>2, <2>1 DEF FindByUsername
<1>3. CASE CheckBlacklist(r)
  <2>1. CASE Goto(r, "find")
    <3>1. pc[r] = "check" /\ pair[r] = Nothing
      BY <1>3 DEF CheckBlacklist, Owned
    <3> QED
      BY <2>1, <3>1, OwnedStep DEF Goto, Typed, TypeOK
  <2> QED
    BY <1>1, <1>3, <2>1 DEF CheckBlacklist
<1>4. CASE FindByID(r)
  <2>1. CASE ValidateRefreshToken(given[r].refresh, now) /\ Loaded(r)
    <3>1. pc[r] = "find" /\ op[r] = "refresh" /\ pair[r] = Nothing
      BY <1>4 DEF FindByID, Typed, Flow, Owned
    <3>2. given[r].refresh \in RefreshJWT
      BY <2>1, <3>1 DEF Typed, Flow, ValidateRefreshToken, Validate
    <3> QED
      BY <2>1, <3>1, <3>2, OwnedStep DEF Loaded, Typed, TypeOK
  <2> QED
    BY <1>1, <1>4, <2>1 DEF FindByID
<1>5. CASE Mint(r)
  <2>1. /\ pc[r] = "mint" /\ op[r] \in {"login", "refresh"}
        /\ pc' = [pc EXCEPT ![r] = IF op[r] = "login" THEN "ok" ELSE "revoke"]
        /\ UNCHANGED <<op, given, user>>
    BY <1>5 DEF Mint, Typed, Flow
  <2>2. op[r] = "refresh" => given[r].refresh \in RefreshJWT
    BY <2>1 DEF Owned
  <2> QED
    BY <1>5, <2>1, <2>2, MintedPair, OwnedStep DEF Typed, TypeOK
<1>6. CASE BlacklistToken(r) /\ pc[r] \in {"revoke", "logout"}
  BY <1>6, OwnedStep DEF BlacklistToken, Typed, TypeOK
<1> QED
  BY <1>1, <1>2, <1>3, <1>4, <1>5, <1>6 DEF Handler, RevokeOld, Logout

LEMMA OwnedInductive == Spec => []Owned
<1>1. Init => Owned
  BY DEF Init, Owned, InHandler
<1>2. Typed /\ Owned /\ [Next]_vars => Owned'
  <2> SUFFICES ASSUME Typed, Owned, [Next]_vars
               PROVE  Owned'
    OBVIOUS
  <2>1. ASSUME NEW r \in Request, NEW u \in User, StartLogin(r, u)
        PROVE  Owned'
    BY <2>1, OwnedEnter DEF StartLogin
  <2>2. ASSUME NEW r \in Request, NEW t \in Held, StartRefresh(r, t)
        PROVE  Owned'
    <3> DEFINE tokens == [Nothing EXCEPT !.refresh = t]
    <3>1. tokens.refresh = t
      OBVIOUS
    <3>2. Enter(r, "refresh", t.user, tokens, "check")
      BY <2>2 DEF StartRefresh
    <3> HIDE DEF tokens
    <3> QED
      BY <3>1, <3>2, OwnedEnter
  <2>3. ASSUME NEW r \in Request, NEW a \in Held, NEW t \in Held, StartLogout(r, a, t)
        PROVE  Owned'
    <3> DEFINE at == IF ValidateAccessToken(a, now) THEN "logout" ELSE "unauthorized"
               tokens == [access |-> a, refresh |-> t]
    <3>1. tokens.refresh = t /\ at \in {"logout", "unauthorized"}
      OBVIOUS
    <3>2. Enter(r, "logout", a.user, tokens, at)
      BY <2>3 DEF StartLogout
    <3> HIDE DEF at, tokens
    <3> QED
      BY <3>1, <3>2, OwnedEnter
  <2>4. ASSUME NEW r \in Request, Handler(r)
        PROVE  Owned'
    BY <2>4, OwnedHandler
  <2>5. CASE UNCHANGED <<op, pc, given, user, pair>>
    <3>1. \A t \in Held : t \in Held'
      BY HeldStays
    <3> QED
      BY <2>5, <3>1 DEF Owned, InHandler
  <2>6. CASE Restart
    BY <2>6 DEF Restart, Owned, InHandler, Typed, TypeOK
  <2> QED
    BY <2>1, <2>2, <2>3, <2>4, <2>5, <2>6 DEF Next, GiveUp, Cleanup, Tick, vars, request
<1> QED
  BY <1>1, <1>2, TypedInductive, PTL DEF Spec

-----------------------------------------------------------------------------
(* The refinement: seen by their clients the sessions are a TokenLedger.   *)
(* A success is the step on which a handler reaches "ok"; every other step *)
(* of a handler, and the clean-up, is invisible.                           *)

Successes == [r \in Request |-> Success(r)]
Accepted == {t \in Held : Accepts(t)}

Handing == Remembering /\ (serialized => Exclusive) /\ Owned

\* What the two checks of RefreshToken let through is what is held, not expired
\* and not spent.
LEMMA AcceptedIsGood ==
  Remembering => Accepted = Ledger!Good(Held, Ledger!Spent(Successes), now)
<1> SUFFICES ASSUME Remembering, NEW t \in Held
             PROVE  Accepts(t) <=> /\ t \in RefreshJWT /\ now < t.exp
                                   /\ t \notin Ledger!Spent(Successes)
  BY DEF Accepted, Ledger!Good
<1>1. t \in Ledger!Spent(Successes) <=> Revoked(t)
  BY DEF Ledger!Spent, Successes, Success, Revoked
<1>2. t \in JWT /\ t # NoToken
  BY HeldTokens DEF Remembering, Held
<1>3. ValidateRefreshToken(t, now) <=> t \in RefreshJWT /\ now < t.exp
  BY <1>2 DEF ValidateRefreshToken, Validate
<1>4. Revoked(t) => ~Accepts(t)
  BY CoveredRefused DEF Revoked
<1>5. ValidateRefreshToken(t, now) /\ ~Revoked(t) => Accepts(t)
  BY DEF Remembering, Covered, Accepts, TokenBlacklist!IsTokenBlacklisted
<1> QED
  BY <1>1, <1>3, <1>4, <1>5 DEF Accepts

LEMMA LedgerSettles ==
  ASSUME Remembering', serialized' = serialized
  PROVE  Ledger!Settle
<1>1. (Accepted = Ledger!Good(Held, Ledger!Spent(Successes), now))'
  BY AcceptedIsGood, PTL
<1> QED
  BY <1>1 DEF Accepted, Successes, Ledger!Settle, Ledger!Good, Ledger!Spent

\* A step on which no request begins to succeed, or is forgotten.
LEMMA QuietInLedger ==
  ASSUME Remembering, Remembering', now' = now, serialized' = serialized,
         \A q \in Request :
           /\ pc'[q] = "ok" <=> pc[q] = "ok"
           /\ pc[q] = "ok" => /\ op'[q] = op[q] /\ given'[q] = given[q]
                              /\ pair'[q] = pair[q] /\ gone'[q] = gone[q]
  PROVE  UNCHANGED Ledger!vars
<1>1. Answered' = Answered /\ \A q \in Answered : pair'[q] = pair[q]
  BY DEF Answered
<1>2. Held' = Held
  BY <1>1 DEF Held
<1>3. \A q \in Request : Success(q)' = Success(q)
  BY DEF Success, Revokes
<1>4. Successes' = Successes
  BY <1>3 DEF Successes
<1>5. Accepted' = Ledger!Good(Held', Ledger!Spent(Successes'), now')
  <2>1. (Accepted = Ledger!Good(Held, Ledger!Spent(Successes), now))'
    BY AcceptedIsGood, PTL
  <2> QED
    BY <2>1 DEF Ledger!Good, Ledger!Spent
<1>6. Accepted' = Accepted
  BY <1>2, <1>4, <1>5, AcceptedIsGood
<1> QED
  BY <1>2, <1>4, <1>6 DEF Ledger!vars, Successes, Accepted

\* A step on which exactly request r succeeds.
Succeeds(r) ==
  /\ pc[r] # "ok" /\ pc' = [pc EXCEPT ![r] = "ok"]
  /\ UNCHANGED <<now, op, given, gone, serialized>>
  /\ \A q \in Request : q # r => pair'[q] = pair[q]

LEMMA SuccessIsRecorded ==
  ASSUME Typed, NEW r \in Request, Succeeds(r)
  PROVE  Ledger!Succeed(r, op[r], IF op[r] \in {"refresh", "logout"}
                                    THEN {given[r].refresh} ELSE {})
<1>1. Success(r) = Ledger!Nothing
  BY DEF Success, Revokes, Succeeds, Ledger!Nothing
<1>2. \A q \in Request : q # r => Success(q)' = Success(q)
  BY DEF Success, Revokes, Succeeds, Typed, TypeOK
<1>3. Success(r)' = [op |-> op[r], spent |-> IF op[r] \in {"refresh", "logout"}
                                              THEN {given[r].refresh} ELSE {}]
  BY DEF Success, Revokes, Succeeds, Typed, TypeOK
<1>4. Successes' = [Successes EXCEPT ![r] =
                      [op |-> op[r], spent |-> IF op[r] \in {"refresh", "logout"}
                                                THEN {given[r].refresh} ELSE {}]]
  BY <1>2, <1>3 DEF Successes
<1> QED
  BY <1>1, <1>4 DEF Successes, Ledger!Succeed

LEMMA SuccessHandsOut ==
  ASSUME Typed, NEW r \in Request, Succeeds(r)
  PROVE  Held' = Held \cup (IF gone[r] THEN {}
                                       ELSE {pair'[r].access, pair'[r].refresh} \ {NoToken})
<1>1. Answered' = Answered \cup (IF gone[r] THEN {} ELSE {r}) /\ r \notin Answered
  BY DEF Answered, Succeeds, Typed, TypeOK
<1>2. \A q \in Answered : pair'[q] = pair[q]
  BY <1>1 DEF Succeeds, Answered
<1> QED
  BY <1>1, <1>2 DEF Held

\* A pair that was minted for u reaches its client, or the client has gone.
LEMMA PairIsGranted ==
  ASSUME Typed, NEW r \in Request, Succeeds(r), NEW u, PairFor(pair'[r], u)
  PROVE  \/ UNCHANGED Held
         \/ Ledger!Grant(u) /\ \E t \in Held' : t.user = u
<1>1. CASE gone[r]
  BY <1>1, SuccessHandsOut
<1>2. CASE ~gone[r]
  <2> DEFINE a == pair'[r].access
             f == pair'[r].refresh
  <2>1. a \in AccessJWT /\ a.user = u /\ f \in RefreshJWT /\ f.user = u
    BY DEF PairFor
  <2>2. Held' = Held \cup {a, f}
    BY <1>2, <2>1, SuccessHandsOut, NoTokenAssumption
  <2> HIDE DEF a, f
  <2>3. a \in Held' /\ f \in Held'
    BY <2>2
  <2> QED
    BY <2>1, <2>2, <2>3 DEF Ledger!Grant
<1> QED
  BY <1>1, <1>2

\* GenerateTokenPair of a login.
LEMMA LoginIsEntered ==
  ASSUME Handing, Handing', NEW r \in Request, Mint(r), op[r] = "login"
  PROVE  Ledger!Login(r)
<1>1. Typed
  BY DEF Handing, Remembering
<1>2. Succeeds(r)
  BY <1>1, MintedPair DEF Succeeds, Mint, Typed, TypeOK
<1>3. PairFor(pair'[r], user[r])
  BY <1>1, MintedPair
<1>4. UNCHANGED Held \/ \E t \in Held' : Ledger!Grant(t.user)
  BY <1>1, <1>2, <1>3, PairIsGranted
<1>5. Ledger!Succeed(r, "login", {})
  BY <1>1, <1>2, SuccessIsRecorded
<1>6. now' = now /\ Ledger!Settle
  BY <1>2, LedgerSettles DEF Succeeds, Handing
<1> QED
  BY <1>4, <1>5, <1>6 DEF Ledger!Login

\* BlacklistToken of a refresh: behind the rate limiter's mutex the token has
\* not been spent by anyone else since it was checked.
LEMMA ExchangeIsEntered ==
  ASSUME Handing, Handing', NEW r \in Request, RevokeOld(r)
  PROVE  given[r].refresh \in Held /\ Ledger!Exchange(r, given[r].refresh)
<1> DEFINE tok == given[r].refresh
<1>1. Typed /\ Owned /\ (serialized => Exclusive)
  BY DEF Handing, Remembering
<1>2. pc[r] = "revoke" /\ op[r] = "refresh"
  BY <1>1 DEF RevokeOld, Typed, Flow
<1>3. Succeeds(r) /\ pair' = pair
  BY <1>1, <1>2 DEF RevokeOld, BlacklistToken, TokenBlacklist!AddToken, Succeeds, Typed, TypeOK
<1>4. tok \in Held /\ tok \in RefreshJWT /\ PairFor(pair[r], tok.user)
  BY <1>1, <1>2 DEF Owned, InHandler
<1>5. serialized => tok \notin Ledger!Spent(Successes)
  BY <1>1, <1>2, <1>4 DEF Exclusive, Ledger!Spent, Successes, Success
<1>6. Ledger!Succeed(r, "refresh", {tok})
  BY <1>1, <1>2, <1>3, SuccessIsRecorded
<1>7. UNCHANGED Held \/ Ledger!Grant(tok.user)
  BY <1>1, <1>3, <1>4, PairIsGranted
<1>8. now' = now /\ Ledger!Settle
  BY <1>3, LedgerSettles DEF Succeeds, Handing
<1> HIDE DEF tok
<1>9. Ledger!Exchange(r, tok)
  BY <1>4, <1>5, <1>6, <1>7, <1>8 DEF Ledger!Exchange, Successes
<1> QED
  BY <1>4, <1>9 DEF tok

LEMMA LogoutIsEntered ==
  ASSUME Handing, Handing', NEW r \in Request, pc[r] = "logout", BlacklistToken(r)
  PROVE  given[r].refresh \in Held /\ Ledger!Logout(r, given[r].refresh)
<1>1. Typed /\ Owned
  BY DEF Handing, Remembering
<1>2. op[r] = "logout" /\ given[r].refresh \in Held /\ pair[r] = Nothing
  BY <1>1 DEF Typed, Flow, Owned, InHandler
<1>3. Succeeds(r) /\ pair' = pair
  BY <1>1 DEF BlacklistToken, TokenBlacklist!AddToken, Succeeds, Typed, TypeOK
<1>4. Ledger!Succeed(r, "logout", {given[r].refresh})
  BY <1>1, <1>2, <1>3, SuccessIsRecorded
<1>5. Held' = Held
  BY <1>1, <1>2, <1>3, SuccessHandsOut
<1>6. now' = now /\ Ledger!Settle
  BY <1>3, LedgerSettles DEF Succeeds, Handing
<1> QED
  BY <1>2, <1>4, <1>5, <1>6 DEF Ledger!Logout

\* The process is started again: what was spent is forgotten, what is held is
\* not.
LEMMA RestartIsEntered ==
  ASSUME Handing, Handing', Restart
  PROVE  Ledger!Restart
<1>1. \A q \in Request : /\ Success(q)' = Ledger!Nothing
                         /\ pc'[q] = "ok" <=> pc[q] = "ok"
  BY DEF Restart, Success, Revokes, InHandler, Ledger!Nothing, Handing, Remembering, Typed, TypeOK
<1>2. Answered' = Answered /\ pair' = pair
  BY <1>1 DEF Answered, Restart
<1>3. Held' = Held
  BY <1>2 DEF Held
<1>4. now' = now /\ Ledger!Settle
  BY LedgerSettles DEF Restart, Handing
<1> QED
  BY <1>1, <1>3, <1>4 DEF Ledger!Restart

LEMMA TickIsEntered ==
  ASSUME Handing, Handing', Tick
  PROVE  Ledger!Elapse
<1>1. now < MaxTime /\ now' = now + 1 /\ UNCHANGED <<op, pc, given, pair, gone, serialized>>
  BY DEF Tick, TokenBlacklist!Tick, request
<1>2. Held' = Held
  BY <1>1 DEF Held, Answered
<1>3. \A q \in Request : Success(q)' = Success(q)
  BY <1>1 DEF Success, Revokes
<1>4. Ledger!Settle
  BY <1>1, LedgerSettles DEF Handing
<1> QED
  BY <1>1, <1>2, <1>3, <1>4 DEF Ledger!Elapse

\* The steps of a request that its client cannot see: it comes in, a check or
\* a query is made, the pair of a refresh is minted, it fails or is given up.
LEMMA RequestIsInvisible ==
  ASSUME Handing, Handing', NEW r \in Request,
         \/ \E u \in User : StartLogin(r, u)
         \/ \E t \in Held : StartRefresh(r, t)
         \/ \E a, t \in Held : StartLogout(r, a, t)
         \/ FindByUsername(r)
         \/ CheckBlacklist(r)
         \/ FindByID(r)
         \/ Mint(r) /\ op[r] = "refresh"
         \/ pc[r] = "logout" /\ Goto(r, "error")
         \/ GiveUp(r)
  PROVE  UNCHANGED Ledger!vars
<1> USE DEF Handing
<1>0. Remembering /\ Remembering' /\ Typed
  BY DEF Remembering
<1>1. ASSUME NEW o, NEW u, NEW tokens, NEW at \in {"login", "check", "logout", "unauthorized"},
             Enter(r, o, u, tokens, at)
      PROVE  UNCHANGED Ledger!vars
  BY <1>0, <1>1, QuietInLedger DEF Enter, Typed, TypeOK
<1>2. ASSUME NEW at \in {"unauthorized", "error", "find"}, Goto(r, at), pc[r] # "ok"
      PROVE  UNCHANGED Ledger!vars
  BY <1>0, <1>2, QuietInLedger DEF Goto, Typed, TypeOK
<1>3. ASSUME Loaded(r), pc[r] # "ok"
      PROVE  UNCHANGED Ledger!vars
  BY <1>0, <1>3, QuietInLedger DEF Loaded, Typed, TypeOK
<1>4. CASE Mint(r) /\ op[r] = "refresh"
  BY <1>0, <1>4, QuietInLedger, MintedPair DEF Mint, Typed, TypeOK
<1>5. CASE GiveUp(r)
  BY <1>0, <1>5, QuietInLedger DEF GiveUp, InHandler, Typed, TypeOK
<1> QED
  BY <1>1, <1>2, <1>3, <1>4, <1>5
  DEF StartLogin, StartRefresh, StartLogout, FindByUsername, CheckBlacklist, FindByID

\* The handlers of Login, RefreshToken and Logout, run concurrently, timed out
\* and restarted, over a blacklist that forgets, keep the promise of a ledger
\* (auth_usecase.go, jwt_authenticator.go, blacklist.go).
THEOREM SessionsImplementLedger == Spec => ImplementsTokenLedger
<1>1. Init => Ledger!Init
  <2> SUFFICES ASSUME Init PROVE Ledger!Init
    OBVIOUS
  <2>1. Held = {}
    BY DEF Init, Held, Answered
  <2>2. \A r \in Request : Success(r) = Ledger!Nothing
    BY DEF Init, Success, Revokes, Ledger!Nothing
  <2> QED
    BY <2>1, <2>2 DEF Init, Ledger!Init
<1>2. Handing /\ Handing' /\ [Next]_vars => [Ledger!Next]_(Ledger!vars)
  <2> SUFFICES ASSUME Handing, Handing', [Next]_vars
               PROVE  Ledger!Next \/ UNCHANGED Ledger!vars
    OBVIOUS
  <2>1. ASSUME NEW r \in Request, Mint(r)
        PROVE  Ledger!Next \/ UNCHANGED Ledger!vars
    <3>1. op[r] \in {"login", "refresh"}
      BY <2>1 DEF Mint, Handing, Remembering, Typed, Flow
    <3> QED
      BY <2>1, <3>1, LoginIsEntered, RequestIsInvisible DEF Ledger!Next
  <2>2. ASSUME NEW r \in Request, RevokeOld(r)
        PROVE  Ledger!Next
    BY <2>2, ExchangeIsEntered DEF Ledger!Next
  <2>3. ASSUME NEW r \in Request, Logout(r)
        PROVE  Ledger!Next \/ UNCHANGED Ledger!vars
    BY <2>3, LogoutIsEntered, RequestIsInvisible DEF Logout, Ledger!Next
  <2>4. ASSUME NEW r \in Request,
               \/ \E u \in User : StartLogin(r, u)
               \/ \E t \in Held : StartRefresh(r, t)
               \/ \E a, t \in Held : StartLogout(r, a, t)
               \/ FindByUsername(r)
               \/ CheckBlacklist(r)
               \/ FindByID(r)
               \/ GiveUp(r)
        PROVE  UNCHANGED Ledger!vars
    BY <2>4, RequestIsInvisible
  <2>5. CASE Cleanup \/ UNCHANGED vars
    <3>1. UNCHANGED <<now, op, pc, given, pair, gone, serialized>>
      BY <2>5 DEF Cleanup, TokenBlacklist!Cleanup, vars, request
    <3> QED
      BY <3>1, QuietInLedger DEF Handing
  <2>6. CASE Tick
    BY <2>6, TickIsEntered DEF Ledger!Next
  <2>7. CASE Restart
    BY <2>7, RestartIsEntered DEF Ledger!Next
  <2> QED
    BY <2>1, <2>2, <2>3, <2>4, <2>5, <2>6, <2>7 DEF Next, Handler
<1> QED
  BY <1>1, <1>2, RememberingInductive, ExclusiveInductive, OwnedInductive, PTL
  DEF Spec, Handing, ImplementsTokenLedger, Ledger!Spec
=============================================================================
