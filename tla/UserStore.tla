----------------------------- MODULE UserStore ------------------------------
(***************************************************************************)
(* The users of the database: Register of internal/usecase/auth_usecase.go,*)
(* UpdateUser and SoftDeleteUser of internal/usecase/user_usecase.go over  *)
(* internal/infrastructure/persistence.  Every query is a step; what other *)
(* calls commit between two queries is seen (PostgreSQL, READ COMMITTED).  *)
(* The columns username and email are unique, deleted rows included; all   *)
(* lookups skip deleted rows.  A call is a slot that is used once, and the *)
(* row a Register creates is known by its slot, as the primary key refuses *)
(* an identifier that another row has.                                     *)
(***************************************************************************)
EXTENDS Naturals

CONSTANTS Request,    \* the calls of a behaviour
          Username,   \* the usernames
          Address     \* the e-mail addresses, upper and lower case apart

VARIABLES users,     \* the committed rows
          pending,   \* the Register calls whose row is inserted and not committed
          op,        \* the operation a slot is used for
          pc,        \* where it is, or how it ended
          target,    \* the row it is about
          entity,    \* the username and the normalised e-mail of its entity
          email,     \* the e-mail as it was sent to Register
          gone       \* the calls whose client was answered 408 while they went on

\* History variables, which no guard reads: they number the updates and the
\* deletions in the order in which they take effect.
VARIABLES changes,   \* how many have taken effect
          took,      \* the number of a call's own, 0 when it has not taken effect
          found      \* how many had when the look-up of an update found its row

calls == <<op, pc, target, entity, email, gone>>
history == <<changes, took, found>>
vars == <<users, pending, calls, history>>

\* An e-mail is an address and whether it is spelt in lower case.
Email == [address : Address, lower : BOOLEAN]
Entity == [username : Username, email : Email]
Row == [username : Username, email : Email, deleted : BOOLEAN]

-----------------------------------------------------------------------------

\* An entity and its e-mail are not looked at before the call has started.
Init ==
  /\ users = [i \in {} |-> 0]
  /\ pending = {} /\ gone = {}
  /\ op = [r \in Request |-> "none"]
  /\ pc = [r \in Request |-> "idle"]
  /\ target = [r \in Request |-> r]
  /\ \E n \in Username, a \in Address :
       LET e == [address |-> a, lower |-> TRUE]
       IN /\ entity = [r \in Request |-> [username |-> n, email |-> e]]
          /\ email = [r \in Request |-> e]
  /\ changes = 0
  /\ took = [r \in Request |-> 0]
  /\ found = [r \in Request |-> 0]

Live(i) == i \in DOMAIN users /\ ~users[i].deleted

Goto(r, at) ==
  /\ pc' = [pc EXCEPT ![r] = at]
  /\ UNCHANGED <<users, pending, op, target, entity, email, gone, history>>

\* Mutant: the e-mail is validated and not normalised.
NotNormalised(n, e) == [username |-> n, email |-> e]

\* What Validate leaves in the entity: the e-mail in lower case.
Normalised(n, e) == [username |-> n, email |-> [e EXCEPT !.lower = TRUE]]

Start(r, o, i, x, at) ==
  /\ pc[r] = "idle"
  /\ op' = [op EXCEPT ![r] = o]
  /\ target' = [target EXCEPT ![r] = i]
  /\ entity' = [entity EXCEPT ![r] = x]
  /\ pc' = [pc EXCEPT ![r] = at]
  /\ UNCHANGED <<users, pending, gone, history>>

\* The entity is valid, and its password is hashed.
StartRegister(r, n, e) ==
  /\ Start(r, "register", r, Normalised(n, e), "byUsername")
  /\ email' = [email EXCEPT ![r] = e]

\* Called from Go.  What comes through PUT /users/:id never is valid, as the
\* password that Validate asks for is not a part of the JSON of a user.
StartUpdate(r, i, n, e) ==
  Start(r, "update", i, Normalised(n, e), "byID") /\ UNCHANGED email

\* Called from Go: no route leads to DeleteUser.
StartDelete(r, i) ==
  Start(r, "delete", i, entity[r], "byID") /\ UNCHANGED email

\* Validate refuses the entity, which is not looked at again.
Refused(r, o, i) ==
  Start(r, o, i, entity[r], "invalid") /\ UNCHANGED email

\* Mutant: a query that fails is taken for one that finds the username.
FindByUsernameFailing(r) ==
  /\ pc[r] = "byUsername"
  /\ \/ Goto(r, "conflict")
     \/ /\ \A i \in DOMAIN users : Live(i) => users[i].username # entity[r].username
        /\ Goto(r, "byEmail")

FindByUsername(r) ==
  /\ pc[r] = "byUsername"
  /\ IF \E i \in DOMAIN users : Live(i) /\ users[i].username = entity[r].username
       THEN Goto(r, "conflict")
       ELSE Goto(r, "byEmail")

\* The e-mail is looked up as it was sent.
FindByEmail(r) ==
  /\ pc[r] = "byEmail"
  /\ IF \E i \in DOMAIN users : Live(i) /\ users[i].email = email[r]
       THEN Goto(r, "conflict")
       ELSE Goto(r, "create")

\* Two rows that the unique columns do not let stand together.
Clash(a, b) == a.username = b.username \/ a.email = b.email

\* An insertion or update waits for the open transactions that hold the same
\* name; it fails when a committed row has it.
Waits(r) == \E q \in pending : Clash(entity[q], entity[r])

Duplicate(r) == \E i \in DOMAIN users \ {target[r]} : Clash(users[i], entity[r])

Create(r) ==
  /\ pc[r] = "create" /\ ~Waits(r)
  /\ IF Duplicate(r)
       THEN Goto(r, "duplicate")
       ELSE /\ pending' = pending \cup {r}
            /\ pc' = [pc EXCEPT ![r] = "commit"]
            /\ UNCHANGED <<users, op, target, entity, email, gone, history>>

\* The row of r with the columns of its entity, and not deleted.
Stored(r) ==
  [i \in DOMAIN users \cup {target[r]} |->
     IF i = target[r]
       THEN [username |-> entity[r].username, email |-> entity[r].email, deleted |-> FALSE]
       ELSE users[i]]

\* How a call ends whose change is committed: its connection may have broken
\* before it was told.
Committed(r) == pc' \in {[pc EXCEPT ![r] = "ok"], [pc EXCEPT ![r] = "failed"]}

Commit(r) ==
  /\ pc[r] = "commit"
  /\ users' = Stored(r)
  /\ pending' = pending \ {r}
  /\ Committed(r)
  /\ UNCHANGED <<op, target, entity, email, gone, history>>

\* The row is there: an update is about to save it, a deletion to delete it.
Found(r) ==
  /\ pc' = [pc EXCEPT ![r] = IF op[r] = "update" THEN "save" ELSE "softDelete"]
  /\ found' = IF op[r] = "update" THEN [found EXCEPT ![r] = changes] ELSE found
  /\ UNCHANGED <<users, pending, op, target, entity, email, gone, changes, took>>

\* Mutant: deleted rows are found as well.
FindByIDUnscoped(r) ==
  /\ pc[r] = "byID"
  /\ IF target[r] \in DOMAIN users THEN Found(r) ELSE Goto(r, "notFound")

FindByID(r) ==
  /\ pc[r] = "byID"
  /\ IF Live(target[r]) THEN Found(r) ELSE Goto(r, "notFound")

TakesEffect(r) ==
  /\ changes' = changes + 1
  /\ took' = [took EXCEPT ![r] = changes + 1]
  /\ UNCHANGED found

\* gorm's Save updates every column of the live row, and when there is none
\* inserts the row, overwriting the deleted one with the same identifier.
Save(r) ==
  /\ pc[r] = "save" /\ ~Waits(r)
  /\ IF Duplicate(r)
       THEN Goto(r, "duplicate")
       ELSE /\ users' = Stored(r)
            /\ TakesEffect(r) /\ Committed(r)
            /\ UNCHANGED <<pending, op, target, entity, email, gone>>

\* Mutant: RowsAffected is not looked at.
SoftDeleteAnyway(r) ==
  /\ pc[r] = "softDelete"
  /\ users' = [users EXCEPT ![target[r]].deleted = TRUE]
  /\ TakesEffect(r) /\ Committed(r)
  /\ UNCHANGED <<pending, op, target, entity, email, gone>>

\* Only a live row is affected; none is ErrNoRowsAffected.
SoftDelete(r) ==
  /\ pc[r] = "softDelete"
  /\ IF Live(target[r])
       THEN /\ users' = [users EXCEPT ![target[r]].deleted = TRUE]
            /\ TakesEffect(r) /\ Committed(r)
            /\ UNCHANGED <<pending, op, target, entity, email, gone>>
       ELSE Goto(r, "notFound")

AtDatabase(r) ==
  pc[r] \in {"byUsername", "byEmail", "create", "commit", "byID", "save", "softDelete"}

\* Mutant: the transaction is not rolled back.
FailWithoutRollback(r) == AtDatabase(r) /\ Goto(r, "failed")

\* The database fails or the context is done: a transaction is rolled back.
Fail(r) ==
  /\ AtDatabase(r)
  /\ pending' = pending \ {r}
  /\ pc' = [pc EXCEPT ![r] = "failed"]
  /\ UNCHANGED <<users, op, target, entity, email, gone, history>>

Query(r) ==
  \/ FindByUsername(r) \/ FindByEmail(r) \/ Create(r) \/ Commit(r)
  \/ FindByID(r) \/ Save(r) \/ SoftDelete(r)

\* TimeoutMiddleware answers the client of a registration, which goes on: of the
\* three operations it is the one that a route leads to the database.
TimeOut(r) ==
  /\ op[r] = "register" /\ AtDatabase(r) /\ r \notin gone
  /\ gone' = gone \cup {r}
  /\ UNCHANGED <<users, pending, op, pc, target, entity, email, history>>

Next ==
  \E r \in Request :
    \/ \E n \in Username, e \in Email :
         \/ StartRegister(r, n, e)
         \/ \E i \in Request : StartUpdate(r, i, n, e)
    \/ \E i \in Request : StartDelete(r, i)
    \/ Refused(r, "register", r)
    \/ \E i \in Request : Refused(r, "update", i)
    \/ Query(r)
    \/ Fail(r)
    \/ TimeOut(r)

Spec == Init /\ [][Next]_vars

\* The statuses of the AppErrors that the three operations return.
HTTPCode ==
  [e \in {"invalid", "conflict", "notFound"} |->
     CASE e = "invalid" -> 400 [] e = "conflict" -> 409 [] e = "notFound" -> 404]

\* What Register's Validate says is wrapped in ErrValidationFailed; what
\* UpdateUser's says, and what the database says, is not an AppError.
IsAppError(r) ==
  pc[r] \in {"conflict", "notFound"} \/ (pc[r] = "invalid" /\ op[r] = "register")

\* Mutant: Register falls back to the status that Login falls back to.
StatusLikeLogin(r) ==
  IF r \in gone THEN 408 ELSE IF IsAppError(r) THEN HTTPCode[pc[r]]
  ELSE IF pc[r] = "ok" THEN 201 ELSE 401

\* The status a call that has ended is answered with: 408 when its time ran out
\* before, an AppError's own, and 500 for every other error (HTTPCodeFromError).
Status(r) ==
  IF r \in gone THEN 408
  ELSE IF IsAppError(r) THEN HTTPCode[pc[r]]
  ELSE IF pc[r] = "ok" THEN (IF op[r] = "register" THEN 201 ELSE 200)
  ELSE 500

-----------------------------------------------------------------------------

\* Every call is where its operation can be, and the open transactions are
\* those of the Register calls that are about to commit.
TypeOK ==
  /\ DOMAIN users \subseteq Request
  /\ users \in [DOMAIN users -> Row]
  /\ op \in [Request -> {"none", "register", "update", "delete"}]
  /\ pc \in [Request -> {"idle", "byUsername", "byEmail", "create", "commit", "byID", "save",
                         "softDelete", "ok", "invalid", "notFound", "conflict", "duplicate",
                         "failed"}]
  /\ target \in [Request -> Request]
  /\ entity \in [Request -> Entity]
  /\ email \in [Request -> Email]
  /\ gone \subseteq {r \in Request : op[r] = "register"}
  /\ changes \in Nat
  /\ took \in [Request -> 0 .. changes]
  /\ found \in [Request -> 0 .. changes]
  /\ pending = {r \in Request : pc[r] = "commit"}

\* No two rows, deleted ones included, share a username or an address in
\* whatever spelling: it takes both the unique columns and the normalisation
\* of Validate, the checks of Register do not suffice.
UniqueAccounts ==
  \A i, j \in DOMAIN users :
    i # j => /\ users[i].username # users[j].username
             /\ users[i].email.address # users[j].email.address

\* Of two deletions of one user only one is told that it succeeded, unless an
\* update took effect between them and brought the user back.
DeletedOnce ==
  \A r, q \in Request :
    /\ r # q
    /\ op[r] = "delete" /\ pc[r] = "ok"
    /\ op[q] = "delete" /\ pc[q] = "ok"
    /\ target[r] = target[q]
    => \E u \in Request : /\ op[u] = "update" /\ target[u] = target[r]
                         /\ \/ took[r] < took[u] /\ took[u] < took[q]
                            \/ took[q] < took[u] /\ took[u] < took[r]

\* A user is deleted for good, and what undoes a deletion, whether it was told
\* that it succeeded or lost its answer, is an update that it overtook: one that
\* found the row before the deletion and saved it after.
OnlyOvertakenUpdatesUndelete ==
  \A d \in Request :
    op[d] = "delete" /\ took[d] > 0 =>
      \/ users[target[d]].deleted
      \/ \E u \in Request : /\ op[u] = "update" /\ target[u] = target[d]
                            /\ found[u] < took[d] /\ took[d] < took[u]

\* What a client learns of its registration: after a 201 there is an account,
\* after a 4xx other than 408 there is none and it may be tried again.  After a
\* 500 it cannot know, as the commit may have been made, nor after a 408, as the
\* registration goes on behind it and may commit later: a retry is then told 409
\* of the client's own account.
AnswersTellTheOutcome ==
  \A r \in Request : op[r] = "register" =>
    /\ Status(r) = 201 => r \in DOMAIN users
    /\ Status(r) \in (400 .. 499) \ {408} => r \notin DOMAIN users

\* The rows without the spelling of their e-mails, what a call was given, and
\* what it is told.
Account(i) ==
  [username |-> users[i].username, address |-> users[i].email.address,
   deleted |-> users[i].deleted]

Asked(r) ==
  [op |-> op[r], target |-> target[r],
   username |-> entity[r].username, address |-> entity[r].email.address]

Told(r) ==
  CASE pc[r] = "ok" -> "ok"
    [] pc[r] = "failed" -> "unknown"
    [] pc[r] \in {"invalid", "notFound", "conflict", "duplicate"} -> "refused"
    [] OTHER -> "none"

Promise ==
  INSTANCE AccountRegistry
    WITH accounts <- [i \in DOMAIN users |-> Account(i)],
         ask <- [r \in Request |-> Asked(r)],
         reply <- [r \in Request |-> Told(r)]

\* However the queries of concurrent calls interleave, the three operations are
\* linearizable: each takes effect at one instant between its start and its
\* end, exactly when it is not refused, and a refusal names a conflict or an
\* absence that is real at that instant.
ImplementsAccountRegistry == Promise!Spec
=============================================================================
