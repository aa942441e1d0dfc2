# Verification of boot-backend-go-clean

TLA+ models of the Go backend in `src/`, model-checked with TLC and proved with
TLAPS. The program is an HTTP server (Gin) in clean-architecture layers: users
register, log in, refresh and revoke JWT sessions; a rate limiter, a request
timeout and health probes stand around the handlers; PostgreSQL or MySQL keeps
the users. All state but the database's lives in the memory of one process.

Paths below are relative to `src/`; `internal/` is abbreviated to `i/`.

## 1. Inventory

| Component | State it keeps | Operations | Hard behaviours | What makes it correct |
|---|---|---|---|---|
| Token blacklist `i/infrastructure/auth/blacklist.go` | map token → deadline, `RWMutex` | `AddToken`, `IsTokenBlacklisted`, hourly clean-up goroutine | clean-up between an add and a look-up; deadline boundary; memory lost on restart | a revoked token is refused exactly up to its deadline, whenever the clean-up runs; lapsed entries go |
| JWT authenticator `i/infrastructure/auth/jwt_authenticator.go` | secrets, issuer, lifetimes (constant) | `GenerateTokenPair`, `Validate*Token`, `BlacklistToken` | whole-second claims, no token id, clock read several times per pair, `float64` claims | kinds never mix; a token is good from mint to `exp` |
| Auth sessions `i/usecase/auth_usecase.go`, controllers, `JWTAuthMiddleware` | none of their own | `Register`, `Login`, `RefreshToken`, `Logout` | check-then-act across a database query; failure half-way; answer lost by timeout | a used or revoked refresh token stays refused; an unused one stays good; one refresh per token |
| Rate limiter `i/interfaces/http/middleware/limit_middleware.go` | two maps address → count / window end, `Mutex` | `LimitMiddleware`, clean-up goroutine | mutex held across `c.Next()`; fixed-window edges; clean-up against requests | exact counts, truthful headers, bounded service, nobody waits for ever |
| Readiness probe `i/interfaces/http/controller/infra_controller.go` | cached health and its time, `RWMutex` | `Ready` (and stateless `Live`, `Welcome`) | many probes find the cache stale at once; ping of unbounded length under the lock | pings at least a TTL apart, answers recent |
| Request pipeline `i/app/server/app.go`, `timeout_middleware.go`, `route.go` | connections and their deadlines; who holds the limiter's mutex | timeout, limiter, handlers with queries, liveness probe | the handler goes on behind its 408, with the mutex; the write deadline | one answer per request, and one for every request |
| Application lifecycle `i/app/server/app.go`, `cmd/main.go` | server, database handle, identifier node | `NewApplication`, `Initialize`, `Run`, drain, `shutdown` | signal against server error; detached handlers against `DB.Close`; drain against its deadline | serves only when ready, drains before it closes, always ends |
| User store `i/infrastructure/persistence/*`, `i/usecase/user_usecase.go`, `Register` | table `users` with unique columns and soft deletion | `Create`, `Find*`, `Update`, `SoftDelete`, `WithTx` | check-then-insert, whole-row save against deletion, a commit whose answer is lost | names unique, deletions told once and lasting, statuses that tell the truth |
| User routes `user_controller.go`, `ensure_self_middleware.go` | none | get, current, update (self only) | path id, token id and body id are three; the token's went through a `float64` | only one's own row is reached |
| Errors, responses `i/domain/errors`, `i/domain/entity/response`, `error_handler_middleware.go` | none | error → status, pagination | wrapped errors, 64-bit products | each domain error gets its own status |
| Configuration `pkg/configs/config.go` | none after start | `LoadConfig`, `Validate` | values nothing bounds (timeout, bits) | what is let through can serve |
| Snowflake `pkg/utils/snowflake` | global node, `sync.Once` | `InitNode`, `NextID` | `uint8` conversion; identifiers beyond 53 bits | an identifier opens its owner's row alone |
| Logger `pkg/logger` | global logger; per logger its level, core or handler, fields | `New*Logger`, `With*`, `Clone`, `SetLevel`, `SetFormat`, `SetOutput`, `ShouldLog`, writing; three back ends | levels shared by some derived loggers and copied by others; handlers built anew | what is said is what is written; a logger changes by calls on it only |
| Database connections `pkg/database`, access log, metrics, CORS, request id, moderation, banner, helpers, mocks | – | – | – | not modelled: I/O, library wrappers, no decisions |

How they interact. A request passes, in this order, request id, access log,
recovery, error handler, **timeout**, **rate limiter**, CORS, metrics, and for
guarded routes **JWTAuthMiddleware** (`app.go:53-65`, `route.go:31-52`). The
timeout runs everything behind it in a goroutine, so a handler goes on after
the 408. The limiter keeps its mutex until everything behind it has returned,
so with `RATE_LIMIT_PER_MINUTE > 0` at most one handler of the whole server
runs at a time. `authUseCase` calls the repository (database) and the
authenticator, which shares the blacklist with its clean-up goroutine. `Ready`
pings the database under its own lock, inside the limiter's.

## 2. Modules

| Module | Models | State ↔ code |
|---|---|---|
| `RevocationList` | abstract promise of the blacklist: revoke up to a deadline, lapse by the clock alone | `live` ↔ what `IsTokenBlacklisted` can observe |
| `TokenBlacklist` | `blacklist.go` | `blacklist` ↔ the map, `now` ↔ `time.Now()` in ticks |
| `JwtAuthenticator` | `jwt_authenticator.go` as operators | a token ↔ its claims and the kind of its secret |
| `AuthSessions` | `Login`, `RefreshToken`, `Logout` over the two above (`TokenBlacklist` by `INSTANCE`) | `pc[r]` ↔ where request `r`'s handler is; `given`, `pair`, `user` ↔ its arguments and locals; `gone[r]` ↔ its client was answered 408 or left |
| `TokenLedger` | abstract promise of the sessions: a token is accepted until it expires or is spent; a refresh spends it and hands out its user's pair in one instant | `held` ↔ what clients hold, `success` ↔ which requests succeeded and the token each spent, `accepted` ↔ what `RefreshToken` lets through |
| `FixedWindow` | abstract promise of the limiter: a counter per address and window | `window` ↔ the two maps where a window has not lapsed; `answer` ↔ what each request was told |
| `RateLimiter` | `limit_middleware.go` | `requests`, `resetTime`, `mu` ↔ the fields of those names; `header[r]` ↔ the headers request `r` was sent |
| `ReadyProbe` | `InfraController.Ready` | `lastCheckTime`, `cachedAllHealthy`, `mu` ↔ the fields; `started`, `answered` record when a probe pinged and answered |
| `AccountRegistry` | abstract promise of the store: each operation takes effect at one instant between its call and its answer | `accounts` ↔ the committed rows; `ask`, `reply` ↔ what a call asks for and is told |
| `UserStore` | `Register`, `UpdateUser`, `SoftDeleteUser` over the repository | `users` ↔ the committed rows; `pending` ↔ rows inserted by open transactions; `entity[r]`, `email[r]` ↔ the normalised user and the e-mail as sent; `pc[r]` ↔ the query call `r` is at; `gone` ↔ the calls whose client was answered 408; `changes`, `took`, `found` record the order in which updates and deletions take effect |
| `AppLifecycle` | `main`, `Initialize`, `Run`, `shutdown` | `main` ↔ where the main goroutine is; `listener`, `serverErr`, `signalled`, `db`, `node` ↔ `httpServer`, the channel, `ctx.Done()`, `app.DB`, `snowflake.node` |
| `RequestPipeline` | a request's way through `net/http`, timeout, limiter and handler | `pc[r]` ↔ where its goroutine is; `answer[r]` ↔ what its client got; `mu` ↔ the limiter's mutex; `age[r]` ↔ the timers that run for it |
| `GracefulServer` | abstract promise of the process to its clients: connect while it serves, one answer each, nobody left waiting by a clean end | `phase`, `verdict` ↔ what the listener and `Shutdown` show; `client`, `handler` ↔ what a request's client sees and how far its handler is |
| `Server` | `AppLifecycle` and `RequestPipeline` composed | a connection is accepted while the listener is up, a query asks `db`, `Shutdown` waits for connections, time passes for both, the process takes its goroutines with it |
| `UserIdentity` | `NextID`, `BeforeCreate`, the `user_id` claim, `JWTAuthMiddleware`, `/users/current`, `EnsureSelfMiddleware` | `id[u]` ↔ `users.id`; `holds[u]` ↔ the ids signed in a person's tokens; `shown`, `allowed` ↔ the rows it was shown or let through to |
| `LogLevels` | `LogLevel` and the three conversions | as operators |
| `LoggerContract` | the `Logger` interface taken at its word: every logger a value of its own | `loggers[l]` ↔ the levels it writes, those it says it writes, its fields |
| `ZapLogger`, `SlogLogger`, `ZerologLogger` | the three back ends | a logger ↔ its struct: level, core or handler, fields; `atomic` ↔ zap's `AtomicLevel`s, `opts` ↔ slog's shared `HandlerOptions` |
| `LoggerBackends` | the same calls on all three back ends (by `INSTANCE`) | `cloned`, `rebuilt`, `reread`, `retuned` record which calls a logger has behind it |
| `MC*` | symmetry sets and, for `UserIdentity`, a small `float64` | – |
| `*Proofs` | theorems | – |

How handlers are cut into steps. A body that runs entirely under a lock and
reads the clock once is one action (`AddToken`, `IsTokenBlacklisted`, a pass of
a clean-up, everything in `LimitMiddleware` between `mu.Lock()` and
`c.Next()`, each of the two critical sections of `Ready`). A handler is cut
wherever another goroutine, the clock, a timeout or a restart can come between:
`RefreshToken` is `CheckBlacklist`, `FindByID`, `Mint`, `RevokeOld`, with the
database free to fail at `FindByID` and the clock free to move in between.
`Mint` lets the clock be read at different instants for `iat` and for `exp`, as
`GenerateTokenPair` does. `GiveUp` can happen at any point of a handler, which
goes on; only `Logout` looks at its context again, so only it may end early,
and `FindByID` may fail because the context is cancelled.

In `UserStore` each query is a step, as anything may commit between two
queries. The database is PostgreSQL at its default READ COMMITTED: an insertion
that meets an uncommitted row with its name waits for that transaction, one that
meets a committed row fails, deleted rows included. `Save` and `SoftDelete` run
in a transaction of their own (gorm's default) and are one step each. gorm's
`Save` of a row that is not live inserts it over the deleted one. A commit may
succeed and its call still fail (`Committed`), and any query may fail (`Fail`).
`changes`, `took` and `found` are history variables that no guard reads.
Of the three operations only `Register` reaches the database through a route:
`DeleteUser` has no route, and an entity from JSON has no password, so that the
`Validate` of every `PUT` fails (`Refused`). `StartUpdate` and `StartDelete` are
calls from Go code, as the use case's interface offers them. `TimeOut` is the
408 of the timeout middleware: the registration goes on and may commit behind
it. `Status` is the status a call is answered with: 408 if its time ran out, an
`AppError`'s own, wherever it is wrapped, and the controller's fallback for any
other error. In the sessions `serialized` is drawn in `Init` and never changes:
with it the rate limiter is installed.

In `Server` a request is cut where it can be overtaken: at the arrival of its
headers, at the limiter's mutex, at every query, at its end. `Timeout` answers
408 and leaves `pc[r]` and the mutex as they are: gin-contrib's timeout runs the
chain in a goroutine of its own, which goes on. `Refuse` stands for a 429, and
for a chain that meets the limiter after its 408 and is aborted there. An answer
written at the write deadline may or may not arrive, later it does not
(`Written`). `Shutdown` waits for connections, not for goroutines, so
`InUse` ends with the answer. Time is told in ages, one per request and one for
the drain, which run only while someone waits on them; a tick comes only when no
timer is due and no goroutine can step, so that a deadline is one and not a
lower bound. A handler that has work to do at the database is never due: it may
take any time, and for ever.

In `UserIdentity` every claim is read through `UserID`, the `float64` next to
what was signed; a refresh signs the id it has read. `NextID` is any identifier
of the current millisecond, one that a row has included: that a node does not
repeat itself, over a restart or beside a second machine, is the library's
business and not assumed. The primary key refuses the second row, and
`Register` writes none when the node fails, which is a panic.

The logger modules make each call one step, slog's `SetLevel` with its three
plain writes included: no logger of this package has a lock, so calls on
siblings at a time would be data races, and nothing in `src/` makes them. The
writing methods change nothing and are the set of levels they let through.

Abstractions. An e-mail is an address and whether it is spelt in lower case;
white space around it behaves as upper case does. A signed token is its claims
and the kind of its secret: two tokens are the same string exactly when these
are equal (HS256 is deterministic). Malformed and foreign tokens are not
enumerated: `extractClaims` refuses them before any state is touched. (`Logout`
would store one in the blacklist, where nothing ever looks for it.) Passwords,
users and the database are reduced to their outcomes. Slots in `AuthSessions`,
`RateLimiter`, `ReadyProbe`, `UserStore` and `Server` are used once; this bounds
the number of requests in a behaviour and nothing else. In `Server` a connection
carries one request, `Queries` bounds the queries of a handler, and the body is
a part of the handler. Expiry and revocation are left out of `UserIdentity`, and
what a logger writes apart from whether it writes and with which fields out of
the loggers.

## 3. Runs

| Run | Configuration | Question | Result |
|---|---|---|---|
| `blacklist` | 2 tokens, durations 0–2, time ≤ 5 | does the map with its clean-up implement `RevocationList`, and is memory reclaimed? | holds |
| `sessions` | 3 concurrent requests of 2 users, with and without limiter, restarts, time ≤ 5 | `RevokedStaysRejected`, `GoodUntilRevoked`, `RejectionIsFinal`; behind the limiter `SingleUse`; does it all implement `TokenLedger`? | hold |
| `sessions_replay` | as above, 1 user, time ≤ 6 | `ReplayPrevented` | **violated** without the limiter: check at `auth_usecase.go:115`, revocation at `:141` |
| `sessions_same_second` | as above | `RotationYieldsNewToken` | **violated**: whole-second claims without a token id |
| `rate_limiter` | 4 requests, 2 addresses, limit 1, window 1, time ≤ 4 | does the limiter implement `FixedWindow`, with truthful headers, `2 * limit` per span of a window, serial handlers, nobody waits for ever | hold |
| `ready_probe` | 4 probes, TTL 2, time ≤ 6 | `PingsSpaced`, `AnswersRecent` | hold |
| `user_store` | 3 calls, 2 usernames, 2 addresses in 2 spellings | `UniqueAccounts`, `DeletedOnce`, `OnlyOvertakenUpdatesUndelete`, `AnswersTellTheOutcome`; are the operations linearizable (`AccountRegistry`)? | hold |
| `server` | 2 requests, one a liveness probe; timeout 0–3, write timeout 2, header timeout 1, grace 3, 2 queries; with and without limiter | from start-up to exit: ready before serving, one answer per request, one handler at a time behind the limiter, clean drains in time, and the process ends; does it implement `GracefulServer`? | hold |
| `server_live` | the same with timeout 1 | `LiveAnswers` | **violated**: the probe waits for the limiter behind a slow handler and gets a 408 |
| `logger` | 3 loggers; levels warn, error, fatal are set | what the back ends have in common, what each writes against what its `ShouldLog` says, and that zerolog implements `LoggerContract` | hold |
| `identity` | 2 accounts, 1 + 1 bits, 5 ms, identifiers ≤ 23, floats of 3 bits | only identifiers of accounts are signed or shown (`TypeOK`), one's own account while they are exact, and only its neighbours by rounding beyond | hold |
| `identity_float` | as above | `OwnData` | **violated** above the integers a `float64` has |

The four violated properties are statements of the repository's own comments
and tests; `PROJECT.json` quotes each at its line under `findings`. More
disagreements take no model checker to see, or follow from one step, and have
no run:

* `Logout` revokes the refresh token alone; the access token stays good until it
  expires, where `domain/usecase/auth_usecase.go:23` invalidates "the user's
  current session".
* A duplicate registration that the look-ups miss and the unique columns refuse
  is answered 500, where `docs/TESTING.md:133` expects 409.
* From Go code, `UpdateUser` brings back a user who is deleted between its
  look-up and gorm's `Save`. `OnlyOvertakenUpdatesUndelete` says that nothing
  else does.
* No `PUT /users/:id` updates anything: `Validate` asks for the password, which
  `json:"-"` (`i/domain/entity/user.go:14`) keeps out of the body, and
  `UpdateUser` returns its plain error, which becomes a 500. The comment at
  `i/interfaces/http/route/user_route.go:21` has the route update the profile,
  and `docs/TESTING.md:178` and `:179` expect 200, and 400 for a body that does
  not pass. The controller's test calls a mock and does not see it. It is one
  step to read and no model shows more.
* The ping of `Ready` has no deadline, where the comment at
  `infra_controller.go:68` gives it two seconds: while it hangs every other
  probe waits for the lock.
* The blacklist does not survive a restart.
* Two back ends depart from the `Logger` interface (`logger.go:140-178`). A zap
  `Clone` goes on to write at the original's level. A slog logger writes all
  from error on whatever its level, so that one set to fatal or panic writes
  errors that its `ShouldLog` denies; it loses its fields when its handler is
  built again, and takes over another logger's level when `SetFormat` or
  `SetOutput` builds it. `ShouldLogTruthful` and `FieldsAgree` state these
  exceptions.

Bounds, and why they are enough. Time is capped by `MaxTime` in the guard of
every `Tick`. In `AuthSessions` a second has two ticks, so that two mints can
fall in one second or in two; an access token lives 2 ticks and a refresh token
4, so within 5 ticks a token is minted, used, expires and has its blacklist
entry deleted. Three requests are a login and two uses of its token, or of the
token that its first use gave. Two users tell whose pair a refresh hands out;
the violated runs compare tokens alone, for which one is enough. In
`RateLimiter` four requests over a limit of 1 give a full window, the refusal
after it and a second window, for one address while the other one interferes. A
request that counts into a window another one opened takes a limit of 2, where
`SlidingBound` takes five requests and more time than a run should; the proofs
are for every limit. In `ReadyProbe` four probes are two pings and two probes
that race with each of them. In `UserStore` three calls are two registrations
that race over a name and a third call, or a user with an update and a deletion,
or two deletions, of it; two deletions with an update between them take a
fourth, and there `DeletedOnce` rests on its proof. In `Server` two requests are
one that holds the mutex and one that waits for it, and any that hangs; the
timeouts lie below, at and above the write deadline, and fit into the grace
period or do not; a timeout of 0 stands for all that are not positive. In
`LoggerBackends` three loggers are an original, one derived from it and one
derived from that; the levels that are set are fatal, where the libraries'
orders part and slog has nothing, error, the last one slog has, and one below.
In `UserIdentity` identifiers up to 23 have exact values up to 8, gaps of 2 up
to 16 and of 4 beyond, with ties rounded to even. Requests, users, usernames,
people and probes are interchangeable, so symmetry is used in runs that check
invariants and actions, never in one that checks liveness.

Deadlock is not checked in the limiter, the probe, the store, the server, the
loggers and the identities: slots run out, a level or a token that is set or
given again is no new state, and the clock stops at its bound. The model ends
there, the program does not, but for the server's process, which is meant to
end. In `blacklist` and the sessions it is checked: tokens can always be added,
and the process can always restart.

Fairness. `TokenBlacklist!FairSpec` assumes that a pass of the clean-up that has
work to do is eventually made: its ticker never stops, and a Go `RWMutex` does
not starve writers. `RateLimiter!FairSpec` assumes that handlers return (weak
fairness of `Return`) and that a waiter gets the mutex if it is free again and
again (strong fairness of `Admit \/ Refuse`): a Go `Mutex` hands itself to the
waiter that has waited for a millisecond. That handlers return is an assumption
on what stands behind the limiter, and the readiness probe is the one endpoint
known to break it. `Server!FairSpec` does without it: the clock goes on, timers
that have run out fire, headers come or time out, the main goroutine takes its
steps and a goroutine that waits for nothing (at a free mutex, in the liveness
probe) is scheduled, all weakly fair. Of a handler at the database nothing is
assumed; `EveryRequestAnswered` and `StopsWhenAsked` hold even if none ever
returns.

The type invariants of the blacklist, the probe and the loggers are no part of a
run: they are proved, as `TypeCorrect`, for every value of the constants.

Every property of a passing run has a mutant: a changed definition, standing
next to the one it changes in its module, under which TLC finds the property
violated.

## 4. Proofs

All theorems hold for every value of the constants that satisfies the named
`ASSUME`s: positive lifetimes, limit, window and TTL, a clock of natural
numbers, positive grace period and server time limits, a `float64` that keeps
integers up to `Exact` and rounds once; `UserStore` needs none, and the request
timeout may be any integer. Each is proved from an inductive invariant.

* `TokenBlacklistProofs`. `BlacklistImplementsRevocationList`: the refinement
  mapping hides the lapsed entries; `AddToken` maps to `Revoke`, `Tick` to
  `Elapse`, and `Cleanup` to a stutter, because what it deletes was hidden
  already.
* `AuthSessionsProofs`, in layers, each on top of the ones before.
  *Typed*: `TypeOK` and where each operation's handler can be.
  *Bounded*: every token handed out or given back expires at most
  `RefreshLifetime` after now. It is needed because `AddToken` counts its
  deadline from the revocation: the entry outlives the token only if the token
  was minted before.
  *Covered*: the entry of every used-up token lasts at least until the token
  expires. The three together give `RevokedTokensStayRejected` and
  `RejectionsAreFinal`, and the converse inclusion, that every blacklist
  entry was used up, gives `TokensGoodUntilRevoked`. Restarts are in: what a
  request of an earlier life has done is no longer counted as a revocation,
  which is what the empty blacklist means.
  *Exclusive*: with `serialized` one handler at a time is inside, and the one
  past its blacklist check holds a token nobody has refreshed or logged out
  with: `RefreshIsSingleUse`.
  *Owned*: a request works for the user of the token it was sent, has no pair
  before it mints one, mints one for that user, and was sent a token that some
  client holds. With it `SessionsImplementLedger` follows: an operation is one
  step of the ledger, the one in which it succeeds (`RefreshToken` as it revokes
  the token it was sent), and a clean-up is a stutter, as are a failure and
  every step before that one.
* `RateLimiterProofs`. Type correctness with the two maps' agreement;
  `HandlersAreSerialized`; `HeadersAreTruthful`, which needs that those
  admitted in the current window hold the budgets the counter has passed; and
  `SlidingBoundHolds`, which needs that windows of one address do not overlap
  and each admits at most `limit`, so that a span of a window's length, meeting
  at most two of them, sees at most `2 * limit`. `LimiterImplementsFixedWindow`
  hides the windows that have lapsed: the clean-up, the wait for the mutex and
  the return of a handler become stutters, `Admit` counts and `Refuse` denies.
  It needs *Unanswered*: a request that has not got past the mutex has been told
  nothing.
* `ReadyProbeProofs`. `TypeCorrect`, `PingsAreSpaced` and `AnswersAreRecent`,
  from an invariant tying the cache to the last ping that ended.
* `UserStoreProofs`. `AccountsAreUnique`: the invariant `Distinct` extends
  uniqueness to the rows of open transactions, which no later insertion can
  clash with, and says that what is stored is in lower case, so that two
  e-mails that differ have different addresses. `DeletionsAreToldOnce`,
  `DeletionsLast` and `AnswersAreTruthful` come from `Consistent`: *Accounted*
  (which calls a row, and a call past its look-up, go back to), *Numbered*
  (every update and deletion that takes effect has a place of its own in their
  order), *StaysDeleted* (a deletion lasts, or it overtook an update),
  *Overtaken* (an update about to save its row found it before every deletion
  that lasts) and *Between* (between two deletions of one user is an update).
  The last three need each other: a deletion finds a live row, so an earlier one
  was undone, and only by an update that had found the row before.
  `StoreImplementsRegistry` says at which
  instant each operation takes effect: a registration at its commit, even when
  the answer to the commit is lost, an update at `Save`, a deletion at
  `SoftDelete`, a refusal at the look-up or the insertion that meets the
  conflict; all other queries stutter. It needs *AsGiven*: `Validate` changes no
  more than the spelling of an e-mail, and a slot not in use asks for nothing.
* `ServerProofs`. *Phases* says in which phase of the process database, node,
  listener and drain are in which state; it gives `ServesOnlyWhenReady` and,
  with the fact that only an accepted connection brings a new one into use,
  `CleanDrain`. `AnswersAreFinal` is read off the steps. *Ages* bounds the age of
  an unanswered request by its timeout (time does not pass over a timer that is
  due), hence `AnswersArrive`. *Deadline* ties the age of the drain to the ages
  of what it waits for: a connection has been open at least as long as the drain
  lasts, as none is accepted any more, and a request came at most the header
  timeout after that. So the drain lasts at most the header timeout and the
  request timeout together: `DrainsInTime`, for any number of requests.
  *MutexHeld* (a handler past the limiter holds its mutex until it returns,
  through a 408 as well) gives `HandlersAreSerialized`, the assumption that
  `AuthSessions` calls `serialized`. `ServerIsGraceful` hides timers, mutex,
  queries, start-up and `Run`'s select; it rests on all of these, and on
  *Leaving* (the process goes only after its drain) and *Unasked* (a request
  that did not come has no handler).
* `UserIdentityProofs`. One invariant of all the properties and the fact that
  who has no account has no token. What a person gains in a step is its own
  identifier or the `float64` of one it had (*Gains*), always one of an account
  where it is signed or shown: `TypeCorrect`. Rounding a second time changes
  nothing: `OwnDataWhileExact` and `ConfusionIsBounded`.
* `LoggerProofs`. *GatesTrue* (the level a logger says is the level it writes
  at, with the exceptions by name, and all zap loggers have one core) and
  *SameLevel* (until a level is set on one of several, all loggers of the three
  back ends have one level) give `ShouldLogIsTruthful` and `BackendsAreAlike`;
  `ZerologImplements` maps every call to a step of `LoggerContract`, `With` and
  `Clone` to `Derive`, and slog's rebuilding to a stutter.

Only model-checked: the four liveness properties (`ExpiredIsReclaimed`,
`EveryRequestDecided`, `EveryRequestAnswered`, `StopsWhenAsked`), since the
provers do not handle fairness, and the four violated properties, for which the
counterexample is the result. Every other property of every run is a theorem.

## 5. Not modelled, and the plan

Left out, with the reason:

* Request binding, formatting of answers and logs, metrics, CORS, request ids,
  migrations, connection pools, the content-moderation wrapper, banner and
  version: library calls or pure I/O that take no decision the properties
  depend on.
* `Welcome`, `/metrics` and pprof, which keep no state; `GET /users/:id`, which
  lets anybody with a token read any row.
* Pagination in `response.go`: no route uses it. `ErrorHandlerMiddleware`: no
  handler calls `c.Error`.
* Tokens without `exp`, which only a negative configured lifetime mints.
* In the loggers: `Sync`, file rotation, `SetOutput` of zerolog's, which changes
  neither level nor fields, and the race of `InitLogger` with a first
  `GetLogger`, which main's order of calls excludes. That `Fatal` ends the
  process and `Panic` the goroutine is the same in all back ends.
* In `Server`: keep-alive, several requests on one connection, the reading of
  bodies, and connections cut off by their clients. A client that leaves is in
  `AuthSessions` (`gone`).
* How two processes draw their machine numbers for identifiers, and what is left
  of them when the number of machine bits is cut to eight (`snowflake.go:31`):
  that is the snowflake library's and the network's. No property says that
  identifiers are distinct; the primary key does.
* gin's pool of contexts, by which a handler that goes on behind its 408 could
  meet the context of another request: that is gin's and gin-contrib's.

What could follow:

1. `Server` over the full `RateLimiter` and `ReadyProbe` instead of their
   mutexes, and `AuthSessions` over `Server` instead of its constant
   `serialized`; today `HandlersAreSerialized` is the link between them.
2. Pagination with 64-bit products, once a route pages.
