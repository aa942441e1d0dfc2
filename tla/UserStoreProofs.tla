--------------------------- MODULE UserStoreProofs ---------------------------
(***************************************************************************)
(* Proofs about UserStore, for any calls, usernames and addresses.         *)
(***************************************************************************)
EXTENDS UserStore, TLAPS

-----------------------------------------------------------------------------

\* Which operation a program counter belongs to, and what its entity is.
Flow ==
  \A r \in Request :
    /\ pc[r] \in {"byUsername", "byEmail", "create", "commit"} =>
         op[r] = "register" /\ target[r] = r
    /\ pc[r] \in {"create", "commit", "save", "byEmail", "byUsername"} =>
         entity[r].email.lower
    /\ pc[r] = "byID" /\ op[r] = "update" => entity[r].email.lower
    /\ pc[r] = "idle" => op[r] = "none"

Typed == TypeOK /\ Flow

\* A call that moves on and touches no row, nor what it was given.
LEMMA GotoTyped ==
  ASSUME Typed, NEW r \in Request, NEW at, Goto(r, at), pc[r] # "commit",
         at \in {"byEmail", "create", "save", "softDelete", "ok", "invalid", "notFound",
                 "conflict", "duplicate", "failed"},
         at \in {"byEmail", "create"} => pc[r] \in {"byUsername", "byEmail"},
         at = "save" => pc[r] = "byID" /\ op[r] = "update"
  PROVE  Typed'
<1>1. pc' \in [Request -> {"idle", "byUsername", "byEmail", "create", "commit", "byID", "save",
                           "softDelete", "ok", "invalid", "notFound", "conflict", "duplicate",
                           "failed"}]
  BY DEF Goto, Typed, TypeOK
<1>2. pending' = {q \in Request : pc'[q] = "commit"}
  BY DEF Goto, Typed, TypeOK
<1>3. TypeOK'
  BY <1>1, <1>2 DEF Goto, history, Typed, TypeOK
<1>4. Flow'
  BY DEF Goto, Typed, TypeOK, Flow
<1> QED
  BY <1>3, <1>4 DEF Typed

LEMMA NormalisedTyped ==
  ASSUME NEW n \in Username, NEW e \in Email
  PROVE  Normalised(n, e) \in Entity /\ Normalised(n, e).email.lower
  BY DEF Normalised, Entity, Email

\* A call that starts: an update or a registration with a normalised entity.
LEMMA StartTyped ==
  ASSUME Typed, NEW r \in Request, NEW o \in {"register", "update", "delete"}, NEW i \in Request,
         NEW x \in Entity, NEW at, Start(r, o, i, x, at), email' \in [Request -> Email],
         \/ at = "invalid"
         \/ at = "byUsername" /\ o = "register" /\ i = r /\ x.email.lower
         \/ at = "byID" /\ o = "update" /\ x.email.lower
         \/ at = "byID" /\ o = "delete"
  PROVE  Typed'
<1>1. pending' = {q \in Request : pc'[q] = "commit"}
  BY DEF Start, Typed, TypeOK
<1>2. gone' \subseteq {q \in Request : op'[q] = "register"}
  <2>1. r \notin gone
    BY DEF Start, Typed, TypeOK, Flow
  <2> QED
    BY <2>1 DEF Start, Typed, TypeOK
<1>3. TypeOK'
  BY <1>1, <1>2 DEF Start, history, Typed, TypeOK
<1>4. Flow'
  BY DEF Start, Typed, TypeOK, Flow
<1> QED
  BY <1>3, <1>4 DEF Typed

\* What has taken effect is numbered on.
LEMMA TakesEffectTyped ==
  ASSUME Typed, NEW r \in Request, TakesEffect(r)
  PROVE  /\ changes' \in Nat
         /\ took' \in [Request -> 0 .. changes'] /\ found' \in [Request -> 0 .. changes']
<1>1. changes \in Nat /\ took \in [Request -> 0 .. changes] /\ found \in [Request -> 0 .. changes]
  BY DEF Typed, TypeOK
<1>2. 0 .. changes \subseteq 0 .. changes' /\ changes + 1 \in 0 .. changes' /\ changes' \in Nat
  BY <1>1 DEF TakesEffect
<1> QED
  BY <1>1, <1>2 DEF TakesEffect

\* A call that ends, with its transaction if it had one.
LEMMA EndTyped ==
  ASSUME Typed, NEW r \in Request, NEW end \in {"ok", "failed"},
         pc' = [pc EXCEPT ![r] = end],
         pending' = pending \ {r},
         UNCHANGED <<op, target, entity, email, gone>>,
         changes' \in Nat,
         took' \in [Request -> 0 .. changes'], found' \in [Request -> 0 .. changes'],
         DOMAIN users' \subseteq Request /\ users' \in [DOMAIN users' -> Row]
  PROVE  Typed'
<1>1. pending' = {q \in Request : pc'[q] = "commit"}
  BY DEF Typed, TypeOK
<1>2. TypeOK'
  BY <1>1 DEF Typed, TypeOK
<1>3. Flow'
  BY DEF Typed, TypeOK, Flow
<1> QED
  BY <1>2, <1>3 DEF Typed

LEMMA StoredTyped ==
  ASSUME Typed, NEW r \in Request
  PROVE  DOMAIN Stored(r) \subseteq Request /\ Stored(r) \in [DOMAIN Stored(r) -> Row]
<1>1. target[r] \in Request /\ entity[r] \in Entity
  BY DEF Typed, TypeOK
<1>2. [username |-> entity[r].username, email |-> entity[r].email, deleted |-> FALSE] \in Row
  BY <1>1 DEF Entity, Row
<1> QED
  BY <1>1, <1>2 DEF Stored, Typed, TypeOK

LEMMA MarkedDeleted ==
  ASSUME Typed, NEW i \in DOMAIN users, users' = [users EXCEPT ![i].deleted = TRUE]
  PROVE  /\ DOMAIN users' = DOMAIN users
         /\ users' \in [DOMAIN users' -> Row]
         /\ \A j \in DOMAIN users : /\ users'[j].username = users[j].username
                                    /\ users'[j].email = users[j].email
<1>1. users[i] \in Row
  BY DEF Typed, TypeOK
<1>2. /\ [users[i] EXCEPT !.deleted = TRUE] \in Row
      /\ [users[i] EXCEPT !.deleted = TRUE].username = users[i].username
      /\ [users[i] EXCEPT !.deleted = TRUE].email = users[i].email
  BY <1>1 DEF Row
<1>3. users' = [users EXCEPT ![i] = [users[i] EXCEPT !.deleted = TRUE]]
  OBVIOUS
<1>4. users \in [DOMAIN users -> Row]
  BY DEF Typed, TypeOK
<1> QED
  BY <1>2, <1>3, <1>4

LEMMA TypedInductive == Spec => []Typed
<1>1. Init => Typed
  <2> SUFFICES ASSUME Init PROVE Typed
    OBVIOUS
  <2>1. PICK n \in Username, a \in Address :
          /\ entity = [r \in Request |-> [username |-> n, email |-> [address |-> a, lower |-> TRUE]]]
          /\ email = [r \in Request |-> [address |-> a, lower |-> TRUE]]
    BY DEF Init
  <2>2. entity \in [Request -> Entity] /\ email \in [Request -> Email]
    BY <2>1 DEF Entity, Email
  <2>3. users \in [DOMAIN users -> Row] /\ DOMAIN users \subseteq Request
    BY DEF Init
  <2>4. pending = {r \in Request : pc[r] = "commit"} /\ gone \subseteq {r \in Request : op[r] = "register"}
    BY DEF Init
  <2>5. changes \in Nat /\ took \in [Request -> 0 .. changes] /\ found \in [Request -> 0 .. changes]
    BY DEF Init
  <2>6. TypeOK
    BY <2>2, <2>3, <2>4, <2>5 DEF Init, TypeOK
  <2>7. Flow
    BY DEF Init, Flow
  <2> QED
    BY <2>6, <2>7 DEF Typed
<1>2. Typed /\ [Next]_vars => Typed'
  <2> SUFFICES ASSUME Typed, [Next]_vars PROVE Typed'
    OBVIOUS
  <2>1. ASSUME NEW r \in Request, NEW n \in Username, NEW e \in Email, StartRegister(r, n, e)
        PROVE  Typed'
    <3>1. email' \in [Request -> Email]
      BY <2>1 DEF StartRegister, Typed, TypeOK
    <3> QED
      BY <2>1, <3>1, NormalisedTyped, StartTyped DEF StartRegister
  <2>2. ASSUME NEW r \in Request, NEW n \in Username, NEW e \in Email, NEW i \in Request,
               StartUpdate(r, i, n, e)
        PROVE  Typed'
    <3>1. email' \in [Request -> Email]
      BY <2>2 DEF StartUpdate, Typed, TypeOK
    <3> QED
      BY <2>2, <3>1, NormalisedTyped, StartTyped DEF StartUpdate
  <2>3. ASSUME NEW r \in Request, NEW i \in Request, NEW o \in {"register", "update"},
               StartDelete(r, i) \/ Refused(r, o, i)
        PROVE  Typed'
    <3>1. email' \in [Request -> Email] /\ entity[r] \in Entity
      BY <2>3 DEF StartDelete, Refused, Typed, TypeOK
    <3> QED
      BY <2>3, <3>1, StartTyped DEF StartDelete, Refused
  <2>4. ASSUME NEW r \in Request, FindByUsername(r) \/ FindByEmail(r)
        PROVE  Typed'
    BY <2>4, GotoTyped DEF FindByUsername, FindByEmail
  <2>5. ASSUME NEW r \in Request, FindByID(r)
        PROVE  Typed'
    <3>1. CASE ~Live(target[r])
      BY <2>5, <3>1, GotoTyped DEF FindByID
    <3>2. CASE Live(target[r])
      <4>1. Found(r) /\ pc[r] = "byID"
        BY <2>5, <3>2 DEF FindByID
      <4>2. pending' = {q \in Request : pc'[q] = "commit"}
        BY <4>1 DEF Found, Typed, TypeOK
      <4>3. found' \in [Request -> 0 .. changes] /\ changes' = changes /\ took' = took
        BY <4>1 DEF Found, Typed, TypeOK
      <4>4. TypeOK'
        BY <4>1, <4>2, <4>3 DEF Found, Typed, TypeOK
      <4>5. Flow'
        BY <4>1 DEF Found, Typed, TypeOK, Flow
      <4> QED
        BY <4>4, <4>5 DEF Typed
    <3> QED
      BY <3>1, <3>2
  <2>6. ASSUME NEW r \in Request, Create(r)
        PROVE  Typed'
    <3>1. CASE Duplicate(r)
      BY <2>6, <3>1, GotoTyped DEF Create
    <3>2. CASE ~Duplicate(r)
      <4>0. pc' = [pc EXCEPT ![r] = "commit"] /\ pending' = pending \cup {r}
        BY <2>6, <3>2 DEF Create
      <4>1. pending' = {q \in Request : pc'[q] = "commit"}
        BY <4>0 DEF Typed, TypeOK
      <4>2. TypeOK'
        <5>1. pc' \in [Request -> {"idle", "byUsername", "byEmail", "create", "commit", "byID",
                                   "save", "softDelete", "ok", "invalid", "notFound", "conflict",
                                   "duplicate", "failed"}]
          BY <4>0 DEF Typed, TypeOK
        <5>2. UNCHANGED <<users, op, target, entity, email, gone, changes, took, found>>
          BY <2>6, <3>2 DEF Create, history
        <5> QED
          BY <4>1, <5>1, <5>2 DEF Typed, TypeOK
      <4>3. Flow'
        <5>1. pc[r] = "create" /\ op' = op /\ target' = target /\ entity' = entity
          BY <2>6, <3>2 DEF Create
        <5>2. op[r] = "register" /\ target[r] = r /\ entity[r].email.lower
          BY <5>1 DEF Typed, Flow
        <5>3. \A q \in Request : pc'[q] = IF q = r THEN "commit" ELSE pc[q]
          BY <4>0 DEF Typed, TypeOK
        <5>4. SUFFICES ASSUME NEW q \in Request
                       PROVE  /\ pc'[q] \in {"byUsername", "byEmail", "create", "commit"} =>
                                   op[q] = "register" /\ target[q] = q
                              /\ pc'[q] \in {"create", "commit", "save", "byEmail", "byUsername"} =>
                                   entity[q].email.lower
                              /\ pc'[q] = "byID" /\ op[q] = "update" => entity[q].email.lower
                              /\ pc'[q] = "idle" => op[q] = "none"
          BY <5>1 DEF Flow
        <5> QED
          BY <5>2, <5>3 DEF Typed, Flow
      <4> QED
        BY <4>2, <4>3 DEF Typed
    <3> QED
      BY <3>1, <3>2
  <2>7. ASSUME NEW r \in Request, Commit(r)
        PROVE  Typed'
    <3>1. UNCHANGED <<changes, took, found>>
      BY <2>7 DEF Commit, history
    <3>2. /\ changes' \in Nat
          /\ took' \in [Request -> 0 .. changes'] /\ found' \in [Request -> 0 .. changes']
      BY <3>1 DEF Typed, TypeOK
    <3> QED
      BY <2>7, <3>2, StoredTyped, EndTyped DEF Commit, Committed
  <2>8. ASSUME NEW r \in Request, Save(r)
        PROVE  Typed'
    <3>1. CASE Duplicate(r)
      BY <2>8, <3>1, GotoTyped DEF Save
    <3>2. CASE ~Duplicate(r)
      <4>1. pending' = pending \ {r}
        BY <2>8, <3>2 DEF Save, Typed, TypeOK
      <4> QED
        BY <2>8, <3>2, <4>1, StoredTyped, TakesEffectTyped, EndTyped DEF Save, Committed
    <3> QED
      BY <3>1, <3>2
  <2>9. ASSUME NEW r \in Request, SoftDelete(r)
        PROVE  Typed'
    <3>1. CASE Live(target[r])
      <4>1. /\ users' = [users EXCEPT ![target[r]].deleted = TRUE]
            /\ pending' = pending /\ r \notin pending
        BY <2>9, <3>1 DEF SoftDelete, Typed, TypeOK
      <4>2. DOMAIN users' \subseteq Request /\ users' \in [DOMAIN users' -> Row]
        BY <3>1, <4>1, MarkedDeleted DEF Live, Typed, TypeOK
      <4>3. /\ pc' = [pc EXCEPT ![r] = "ok"] \/ pc' = [pc EXCEPT ![r] = "failed"]
            /\ pending' = pending \ {r}
            /\ UNCHANGED <<op, target, entity, email, gone>>
            /\ TakesEffect(r)
        BY <2>9, <3>1, <4>1 DEF SoftDelete, Committed
      <4> QED
        BY <4>2, <4>3, TakesEffectTyped, EndTyped
    <3>2. CASE ~Live(target[r])
      BY <2>9, <3>2, GotoTyped DEF SoftDelete
    <3> QED
      BY <3>1, <3>2
  <2>10. ASSUME NEW r \in Request, Fail(r)
         PROVE  Typed'
    BY <2>10, EndTyped DEF Fail, history, Typed, TypeOK
  <2>11. ASSUME NEW r \in Request, TimeOut(r)
         PROVE  Typed'
    BY <2>11 DEF TimeOut, history, Typed, TypeOK, Flow
  <2>12. CASE UNCHANGED vars
    BY <2>12 DEF vars, calls, history, Typed, TypeOK, Flow
  <2> QED
    BY <2>1, <2>2, <2>3, <2>4, <2>5, <2>6, <2>7, <2>8, <2>9, <2>10, <2>11, <2>12 DEF Next, Query
<1> QED
  BY <1>1, <1>2, PTL DEF Spec

\* Every call is where its operation can be, and a transaction is open exactly
\* while its Register is about to commit.
THEOREM TypeCorrect == Spec => []TypeOK
  BY TypedInductive, PTL DEF Typed

-----------------------------------------------------------------------------

\* The rows, committed or pending, that the unique columns see.
Distinct ==
  /\ \A i \in DOMAIN users : users[i].email.lower
  /\ \A i, j \in DOMAIN users : i # j => ~Clash(users[i], users[j])
  /\ \A q \in pending : \A i \in DOMAIN users \ {q} : ~Clash(users[i], entity[q])
  /\ \A p, q \in pending : p # q => ~Clash(entity[p], entity[q])

\* A row that clashes with none is stored.
LEMMA StoredDistinct ==
  ASSUME Typed, Distinct, NEW r \in Request,
         pc[r] \in {"commit", "save"}, ~Duplicate(r),
         \A q \in pending \ {target[r], r} : ~Clash(entity[q], entity[r]),
         pc[r] = "save" => \A q \in pending : ~Clash(entity[q], entity[r]),
         users' = Stored(r), entity' = entity, pending' = pending \ {r}
  PROVE  Distinct'
<1> DEFINE t == target[r]
<1>1. /\ DOMAIN users' = DOMAIN users \cup {t}
      /\ \A i \in DOMAIN users : i # t => users'[i] = users[i]
      /\ users'[t].username = entity[r].username
      /\ users'[t].email = entity[r].email
  BY DEF Stored
<1>2. entity[r].email.lower
  BY DEF Typed, Flow
<1>3. \A i \in DOMAIN users : i # t => ~Clash(users[i], users'[t]) /\ ~Clash(users'[t], users[i])
  BY <1>1 DEF Duplicate, Clash
<1>4. \A i \in DOMAIN users' : users'[i].email.lower
  BY <1>1, <1>2 DEF Distinct
<1>5. \A i, j \in DOMAIN users' : i # j => ~Clash(users'[i], users'[j])
  BY <1>1, <1>3 DEF Distinct
<1>6. \A q \in pending' : q # t => ~Clash(users'[t], entity[q])
  BY <1>1 DEF Clash
<1>7. \A q \in pending' : \A i \in DOMAIN users' \ {q} : ~Clash(users'[i], entity'[q])
  BY <1>1, <1>6 DEF Distinct
<1>8. \A p, q \in pending' : p # q => ~Clash(entity'[p], entity'[q])
  BY DEF Distinct
<1> QED
  BY <1>4, <1>5, <1>7, <1>8 DEF Distinct, Clash

LEMMA DistinctInductive == Spec => []Distinct
<1>1. Init => Distinct
  BY DEF Init, Distinct
<1>2. Typed /\ Distinct /\ [Next]_vars => Distinct'
  <2> SUFFICES ASSUME Typed, Distinct, [Next]_vars PROVE Distinct'
    OBVIOUS
  <2>1. ASSUME users' = users, pending' \subseteq pending,
               \A q \in pending : entity'[q] = entity[q]
        PROVE  Distinct'
    BY <2>1 DEF Distinct, Clash
  <2>2. ASSUME NEW r \in Request, pc[r] = "idle",
               NEW x, entity' = [entity EXCEPT ![r] = x], users' = users, pending' = pending
        PROVE  Distinct'
    BY <2>1, <2>2 DEF Typed, TypeOK
  <2>3. ASSUME NEW r \in Request,
               \/ \E n \in Username, e \in Email :
                    \/ StartRegister(r, n, e)
                    \/ \E i \in Request : StartUpdate(r, i, n, e)
               \/ \E i \in Request : StartDelete(r, i) \/ \E o : Refused(r, o, i)
        PROVE  Distinct'
    BY <2>2, <2>3 DEF StartRegister, StartUpdate, StartDelete, Refused, Start
  <2>4. ASSUME NEW r \in Request, FindByUsername(r) \/ FindByEmail(r) \/ FindByID(r) \/ Fail(r)
                                  \/ TimeOut(r)
        PROVE  Distinct'
    BY <2>1, <2>4 DEF FindByUsername, FindByEmail, FindByID, Found, Fail, TimeOut, Goto
  <2>5. ASSUME NEW r \in Request, Create(r)
        PROVE  Distinct'
    <3>1. CASE Duplicate(r)
      BY <2>1, <2>5, <3>1 DEF Create, Goto
    <3>2. CASE ~Duplicate(r)
      <4>1. /\ users' = users /\ entity' = entity /\ pending' = pending \cup {r}
            /\ target[r] = r
        BY <2>5, <3>2 DEF Create, Typed, Flow
      <4>2. \A i \in DOMAIN users \ {r} : ~Clash(users[i], entity[r])
        BY <3>2, <4>1 DEF Duplicate
      <4>3. \A q \in pending : ~Clash(entity[q], entity[r]) /\ ~Clash(entity[r], entity[q])
        BY <2>5 DEF Create, Waits, Clash
      <4> QED
        BY <4>1, <4>2, <4>3 DEF Distinct, Clash
    <3> QED
      BY <3>1, <3>2
  <2>6. ASSUME NEW r \in Request, Commit(r)
        PROVE  Distinct'
    <3>1. /\ target[r] = r /\ r \in pending
          /\ users' = Stored(r) /\ entity' = entity /\ pending' = pending \ {r}
          /\ pc[r] = "commit"
      BY <2>6 DEF Commit, Typed, TypeOK, Flow
    <3>2. ~Duplicate(r)
      BY <3>1 DEF Distinct, Duplicate
    <3>3. \A q \in pending \ {r} : ~Clash(entity[q], entity[r])
      BY <3>1 DEF Distinct
    <3> QED
      BY <3>1, <3>2, <3>3, StoredDistinct
  <2>7. ASSUME NEW r \in Request, Save(r)
        PROVE  Distinct'
    <3>1. CASE Duplicate(r)
      BY <2>1, <2>7, <3>1 DEF Save, Goto
    <3>2. CASE ~Duplicate(r)
      <4>1. pc[r] = "save" /\ \A q \in pending : ~Clash(entity[q], entity[r])
        BY <2>7 DEF Save, Waits
      <4>2. pending \ {r} = pending
        BY <4>1 DEF Typed, TypeOK
      <4>3. users' = Stored(r) /\ entity' = entity /\ pending' = pending \ {r}
        BY <2>7, <3>2, <4>2 DEF Save
      <4> QED
        BY <3>2, <4>1, <4>3, StoredDistinct
    <3> QED
      BY <3>1, <3>2
  <2>8. ASSUME NEW r \in Request, SoftDelete(r)
        PROVE  Distinct'
    <3>1. CASE Live(target[r])
      <4>1. /\ DOMAIN users' = DOMAIN users
            /\ \A i \in DOMAIN users : /\ users'[i].username = users[i].username
                                       /\ users'[i].email = users[i].email
            /\ entity' = entity /\ pending' = pending
        BY <2>8, <3>1, MarkedDeleted DEF SoftDelete, Live
      <4> QED
        BY <4>1 DEF Distinct, Clash
    <3>2. CASE ~Live(target[r])
      BY <2>1, <2>8, <3>2 DEF SoftDelete, Goto
    <3> QED
      BY <3>1, <3>2
  <2>9. CASE UNCHANGED vars
    BY <2>1, <2>9 DEF vars, calls
  <2> QED
    BY <2>3, <2>4, <2>5, <2>6, <2>7, <2>8, <2>9 DEF Next, Query
<1> QED
  BY <1>1, <1>2, TypedInductive, PTL DEF Spec

\* No two rows share a username or an address, in whatever spelling: Validate
\* spells every stored e-mail in lower case, and the unique columns keep the
\* spellings apart.
THEOREM AccountsAreUnique == Spec => []UniqueAccounts
<1>1. Typed /\ Distinct => UniqueAccounts
  <2> SUFFICES ASSUME Typed, Distinct, NEW i \in DOMAIN users, NEW j \in DOMAIN users, i # j
               PROVE  /\ users[i].username # users[j].username
                      /\ users[i].email.address # users[j].email.address
    BY DEF UniqueAccounts
  <2>1. users[i].username # users[j].username /\ users[i].email # users[j].email
    BY DEF Distinct, Clash
  <2>2. users[i].email \in Email /\ users[j].email \in Email
    BY DEF Typed, TypeOK, Row
  <2>3. users[i].email.lower = TRUE /\ users[j].email.lower = TRUE
    BY <2>2 DEF Distinct, Email
  <2> QED
    BY <2>1, <2>2, <2>3 DEF Email
<1> QED
  BY <1>1, TypedInductive, DistinctInductive, PTL

-----------------------------------------------------------------------------

\* Every row is the row of a Register that has ended with or after its commit,
\* and a row stays; what an UpdateUser or SoftDeleteUser has found is a row.
Accounted ==
  /\ \A i \in DOMAIN users : op[i] = "register" /\ pc[i] \in {"ok", "failed"}
  /\ \A r \in Request : op[r] = "register" /\ pc[r] = "ok" => r \in DOMAIN users
  /\ \A r \in Request : pc[r] = "save" => op[r] = "update" /\ target[r] \in DOMAIN users
  /\ \A r \in Request : pc[r] = "softDelete" => op[r] = "delete" /\ target[r] \in DOMAIN users
  /\ \A r \in Request : pc[r] = "byID" => op[r] \in {"update", "delete"}

\* What a deletion or an update is numbered with: a place of its own once it has
\* taken effect, and none before.
Numbered ==
  /\ \A r \in Request : took[r] > 0 => pc[r] \in {"ok", "failed"}
  /\ \A r \in Request : op[r] = "delete" /\ pc[r] = "ok" => took[r] > 0
  /\ \A r, q \in Request : r # q /\ took[r] > 0 => took[r] # took[q]

\* An update of the same user that the deletion d overtook.
Undone(d) ==
  \E u \in Request : /\ op[u] = "update" /\ target[u] = target[d]
                     /\ found[u] < took[d] /\ took[d] < took[u]

\* A deletion that has taken effect lasts, unless it overtook an update; an
\* update that is about to save its row found it before every deletion of it
\* that lasts, and between two deletions of one user is an update.
StaysDeleted ==
  \A d \in Request : op[d] = "delete" /\ took[d] > 0 =>
    target[d] \in DOMAIN users /\ (users[target[d]].deleted \/ Undone(d))

Overtaken ==
  \A u, d \in Request :
    pc[u] = "save" /\ op[d] = "delete" /\ took[d] > 0 /\ target[u] = target[d] =>
      found[u] < took[d] \/ Undone(d)

Between ==
  \A r, q \in Request :
    /\ op[r] = "delete" /\ op[q] = "delete" /\ target[r] = target[q]
    /\ took[r] > 0 /\ took[r] < took[q]
    => \E u \in Request : /\ op[u] = "update" /\ target[u] = target[r]
                         /\ took[r] < took[u] /\ took[u] < took[q]

Consistent == Accounted /\ Numbered /\ StaysDeleted /\ Overtaken /\ Between

LEMMA Numbers ==
  ASSUME Typed
  PROVE  /\ changes \in Nat
         /\ \A r \in Request : /\ took[r] \in Nat /\ took[r] <= changes
                               /\ found[r] \in Nat /\ found[r] <= changes
  BY DEF Typed, TypeOK

\* A call that is not at its end goes on, or ends, and touches no row.
LEMMA QuietConsistent ==
  ASSUME Typed, Consistent, NEW r \in Request, NEW at,
         pc[r] \notin {"ok", "failed"},
         pc' = [pc EXCEPT ![r] = at], UNCHANGED <<users, op, target, changes, took>>,
         at \in {"byUsername", "byEmail", "create", "commit", "save", "softDelete",
                 "invalid", "notFound", "conflict", "duplicate", "failed"},
         at = "save" => pc[r] = "byID" /\ op[r] = "update" /\ Live(target[r]),
         at = "softDelete" => pc[r] = "byID" /\ op[r] = "delete" /\ target[r] \in DOMAIN users,
         \A q \in Request \ {r} : found'[q] = found[q],
         at # "save" => found'[r] = found[r]
  PROVE  Consistent'
<1>1. \A q \in Request : pc'[q] = IF q = r THEN at ELSE pc[q]
  BY DEF Typed, TypeOK
<1>2. \A q \in Request : pc[q] \in {"ok", "failed"} => pc'[q] = pc[q]
  BY <1>1
<1>3. \A q \in Request : pc'[q] = "ok" => pc[q] = "ok"
  BY <1>1
<1>4. Accounted'
  <2>1. \A i \in DOMAIN users : i \in Request
    BY DEF Typed, TypeOK
  <2>2. \A i \in DOMAIN users : op[i] = "register" /\ pc'[i] \in {"ok", "failed"}
    BY <1>2, <2>1 DEF Consistent, Accounted
  <2>3. \A q \in Request : pc'[q] \in {"save", "softDelete", "byID"} =>
          \/ q = r /\ pc'[q] = at /\ at # "byID"
          \/ pc'[q] = pc[q]
    BY <1>1
  <2>4. \A q \in Request :
          /\ pc'[q] = "save" => op[q] = "update" /\ target[q] \in DOMAIN users
          /\ pc'[q] = "softDelete" => op[q] = "delete" /\ target[q] \in DOMAIN users
          /\ pc'[q] = "byID" => op[q] \in {"update", "delete"}
    BY <2>3 DEF Consistent, Accounted, Live
  <2> QED
    BY <1>3, <2>2, <2>4 DEF Consistent, Accounted
<1>5. took[r] = 0 /\ \A q \in Request : took[q] \in Nat
  BY Numbers DEF Consistent, Numbered
<1>6. Numbered'
  BY <1>2, <1>3 DEF Consistent, Numbered
<1>7. \A d \in Request : Undone(d) => Undone(d)'
  <2> SUFFICES ASSUME NEW d \in Request, NEW u \in Request,
                      op[u] = "update" /\ target[u] = target[d],
                      found[u] < took[d] /\ took[d] < took[u]
               PROVE  Undone(d)'
    BY DEF Undone
  <2>1. u # r
    BY <1>5
  <2> QED
    BY <2>1 DEF Undone
<1>8. StaysDeleted'
  BY <1>7 DEF Consistent, StaysDeleted
<1>9. Overtaken'
  <2> SUFFICES ASSUME NEW u \in Request, NEW d \in Request, pc'[u] = "save", op[d] = "delete",
                      took[d] > 0, target[u] = target[d]
               PROVE  found'[u] < took[d] \/ Undone(d)'
    BY DEF Overtaken
  <2>1. CASE u = r
    <3>1. ~users[target[d]].deleted
      BY <1>1, <2>1 DEF Live
    <3> QED
      BY <1>7, <3>1 DEF Consistent, StaysDeleted
  <2>2. CASE u # r
    BY <1>1, <1>7, <2>2 DEF Consistent, Overtaken
  <2> QED
    BY <2>1, <2>2
<1>10. Between'
  BY DEF Consistent, Between
<1> QED
  BY <1>4, <1>6, <1>8, <1>9, <1>10 DEF Consistent

\* A call that starts.
LEMMA StartConsistent ==
  ASSUME Typed, Consistent, NEW r \in Request, NEW o, NEW i \in Request, NEW at,
         pc[r] = "idle",
         pc' = [pc EXCEPT ![r] = at], op' = [op EXCEPT ![r] = o],
         target' = [target EXCEPT ![r] = i], UNCHANGED <<users, changes, took, found>>,
         at \in {"byUsername", "byID", "invalid"},
         at = "byID" => o \in {"update", "delete"}
  PROVE  Consistent'
<1>1. \A q \in Request : q # r => pc'[q] = pc[q] /\ op'[q] = op[q] /\ target'[q] = target[q]
  BY DEF Typed, TypeOK
<1>2. pc'[r] = at /\ op'[r] = o
  BY DEF Typed, TypeOK
<1>3. DOMAIN users \subseteq Request /\ r \notin DOMAIN users
  BY DEF Consistent, Accounted, Typed, TypeOK
<1>4. \A q \in Request : took[q] \in Nat /\ (took[q] > 0 => q # r)
  BY Numbers DEF Consistent, Numbered
<1>5. Accounted'
  <2>1. \A j \in DOMAIN users : op'[j] = "register" /\ pc'[j] \in {"ok", "failed"}
    BY <1>1, <1>3 DEF Consistent, Accounted
  <2>2. ASSUME NEW q \in Request
        PROVE  /\ op'[q] = "register" /\ pc'[q] = "ok" => q \in DOMAIN users
               /\ pc'[q] = "save" => op'[q] = "update" /\ target'[q] \in DOMAIN users
               /\ pc'[q] = "softDelete" => op'[q] = "delete" /\ target'[q] \in DOMAIN users
               /\ pc'[q] = "byID" => op'[q] \in {"update", "delete"}
    <3>1. CASE q = r
      BY <1>2, <3>1
    <3>2. CASE q # r
      BY <1>1, <3>2 DEF Consistent, Accounted
    <3> QED
      BY <3>1, <3>2
  <2> QED
    BY <2>1, <2>2 DEF Accounted
<1>6. Numbered'
  <2>1. \A q \in Request : took[q] > 0 => pc'[q] \in {"ok", "failed"}
    BY <1>1, <1>4 DEF Consistent, Numbered
  <2>2. \A q \in Request : op'[q] = "delete" /\ pc'[q] = "ok" => took[q] > 0
    BY <1>1, <1>2 DEF Consistent, Numbered
  <2> QED
    BY <2>1, <2>2 DEF Consistent, Numbered
<1>7. \A d \in Request : took[d] > 0 /\ Undone(d) => Undone(d)'
  <2> SUFFICES ASSUME NEW d \in Request, took[d] > 0, NEW u \in Request,
                      op[u] = "update" /\ target[u] = target[d],
                      found[u] < took[d] /\ took[d] < took[u]
               PROVE  Undone(d)'
    BY DEF Undone
  <2>1. d # r /\ u # r
    BY <1>4
  <2> QED
    BY <1>1, <2>1 DEF Undone
<1>8. StaysDeleted'
  BY <1>1, <1>4, <1>7 DEF Consistent, StaysDeleted
<1>9. Overtaken'
  BY <1>1, <1>2, <1>4, <1>7 DEF Consistent, Overtaken
<1>10. Between'
  <2> SUFFICES ASSUME NEW p \in Request, NEW q \in Request,
                      op'[p] = "delete" /\ op'[q] = "delete" /\ target'[p] = target'[q],
                      took[p] > 0 /\ took[p] < took[q]
               PROVE  \E u \in Request : /\ op'[u] = "update" /\ target'[u] = target'[p]
                                         /\ took[p] < took[u] /\ took[u] < took[q]
    BY DEF Between
  <2>1. p # r /\ q # r
    BY <1>4
  <2>2. PICK u \in Request : /\ op[u] = "update" /\ target[u] = target[p]
                             /\ took[p] < took[u] /\ took[u] < took[q]
    BY <1>1, <2>1 DEF Consistent, Between
  <2>3. u # r
    BY <1>4, <2>2
  <2> QED
    BY <1>1, <2>1, <2>2, <2>3
<1> QED
  BY <1>5, <1>6, <1>8, <1>9, <1>10 DEF Consistent

\* Every call but r stays, and r ends.
LEMMA EndAccounted ==
  ASSUME Typed, Accounted, NEW r \in Request, NEW end \in {"ok", "failed"},
         pc[r] \in {"commit", "save", "softDelete"},
         pc' = [pc EXCEPT ![r] = end], UNCHANGED <<op, target>>,
         \/ DOMAIN users' = DOMAIN users
         \/ DOMAIN users' = DOMAIN users \cup {r} /\ op[r] = "register",
         op[r] = "register" => r \in DOMAIN users'
  PROVE  /\ Accounted'
         /\ \A q \in Request : pc'[q] = IF q = r THEN end ELSE pc[q]
<1>1. \A q \in Request : pc'[q] = IF q = r THEN end ELSE pc[q]
  BY DEF Typed, TypeOK
<1>2. DOMAIN users \subseteq Request /\ DOMAIN users \subseteq DOMAIN users'
  BY DEF Typed, TypeOK
<1>3. \A j \in DOMAIN users' : op[j] = "register" /\ pc'[j] \in {"ok", "failed"}
  BY <1>1, <1>2 DEF Accounted
<1>4. ASSUME NEW q \in Request
      PROVE  /\ op[q] = "register" /\ pc'[q] = "ok" => q \in DOMAIN users'
             /\ pc'[q] = "save" => op[q] = "update" /\ target[q] \in DOMAIN users'
             /\ pc'[q] = "softDelete" => op[q] = "delete" /\ target[q] \in DOMAIN users'
             /\ pc'[q] = "byID" => op[q] \in {"update", "delete"}
  <2>1. CASE q = r
    BY <1>1, <2>1
  <2>2. CASE q # r
    <3>1. pc'[q] = pc[q]
      BY <1>1, <2>2
    <3> QED
      BY <1>2, <3>1 DEF Accounted
  <2> QED
    BY <2>1, <2>2
<1> QED
  BY <1>1, <1>3, <1>4 DEF Accounted

\* A Register commits: its row is a new one.
LEMMA CommitConsistent ==
  ASSUME Typed, Consistent, NEW r \in Request, Commit(r)
  PROVE  Consistent'
<1>1. PICK end \in {"ok", "failed"} : pc' = [pc EXCEPT ![r] = end]
  BY DEF Commit, Committed
<1>2. /\ pc[r] = "commit" /\ op[r] = "register" /\ target[r] = r /\ r \notin DOMAIN users
      /\ UNCHANGED <<op, target, changes, took, found>>
  BY DEF Commit, history, Typed, Flow, Consistent, Accounted
<1>3. /\ DOMAIN users' = DOMAIN users \cup {r}
      /\ \A i \in DOMAIN users : users'[i] = users[i]
  BY <1>2 DEF Commit, Stored
<1>4. Accounted' /\ \A q \in Request : pc'[q] = IF q = r THEN end ELSE pc[q]
  BY <1>1, <1>2, <1>3, EndAccounted DEF Consistent
<1>5. Numbered'
  BY <1>2, <1>4 DEF Consistent, Numbered
<1>6. \A d : Undone(d)' <=> Undone(d)
  BY <1>2 DEF Undone
<1>7. StaysDeleted' /\ Overtaken' /\ Between'
  BY <1>2, <1>3, <1>4, <1>6 DEF Consistent, StaysDeleted, Overtaken, Between
<1> QED
  BY <1>4, <1>5, <1>7 DEF Consistent

\* What an update or a deletion that takes effect leaves as it was.
LEMMA EffectKeeps ==
  ASSUME Typed, Consistent, NEW r \in Request, NEW end \in {"ok", "failed"},
         pc[r] \in {"save", "softDelete"}, TakesEffect(r),
         pc' = [pc EXCEPT ![r] = end], UNCHANGED <<op, target>>,
         DOMAIN users' = DOMAIN users
  PROVE  /\ Accounted' /\ Numbered'
         /\ took[r] = 0 /\ took'[r] = changes + 1
         /\ \A q \in Request : q # r => took'[q] = took[q]
         /\ \A q \in Request : pc'[q] = IF q = r THEN end ELSE pc[q]
         /\ \A d \in Request \ {r} : Undone(d) => Undone(d)'
<1>1. op[r] \in {"update", "delete"}
  BY DEF Consistent, Accounted
<1>2. Accounted' /\ \A q \in Request : pc'[q] = IF q = r THEN end ELSE pc[q]
  BY <1>1, EndAccounted DEF Consistent
<1>3. took[r] = 0
  BY Numbers DEF Consistent, Numbered
<1>4. took'[r] = changes + 1 /\ \A q \in Request : q # r => took'[q] = took[q]
  BY DEF TakesEffect, Typed, TypeOK
<1>5. Numbered'
  <2>1. \A q \in Request : took'[q] > 0 => pc'[q] \in {"ok", "failed"}
    BY <1>2, <1>4 DEF Consistent, Numbered
  <2>2. \A q \in Request : op[q] = "delete" /\ pc'[q] = "ok" => took'[q] > 0
    BY <1>2, <1>4, Numbers DEF Consistent, Numbered
  <2>3. \A p, q \in Request : p # q /\ took'[p] > 0 => took'[p] # took'[q]
    BY <1>4, Numbers DEF Consistent, Numbered
  <2> QED
    BY <2>1, <2>2, <2>3 DEF Numbered
<1>6. ASSUME NEW d \in Request \ {r}, Undone(d) PROVE Undone(d)'
  <2>1. PICK u \in Request : /\ op[u] = "update" /\ target[u] = target[d]
                             /\ found[u] < took[d] /\ took[d] < took[u]
    BY <1>6 DEF Undone
  <2>2. u # r
    BY <1>3, <2>1, Numbers
  <2>3. found' = found
    BY DEF TakesEffect
  <2> QED
    BY <1>4, <2>1, <2>2, <2>3 DEF Undone
<1> QED
  BY <1>2, <1>3, <1>4, <1>5, <1>6

\* An update saves its row, which may have been deleted since it was found.
LEMMA SaveConsistent ==
  ASSUME Typed, Consistent, NEW r \in Request, NEW end \in {"ok", "failed"},
         pc[r] = "save", users' = Stored(r), TakesEffect(r),
         pc' = [pc EXCEPT ![r] = end], UNCHANGED <<op, target>>
  PROVE  Consistent'
<1>1. op[r] = "update" /\ target[r] \in DOMAIN users
  BY DEF Consistent, Accounted
<1>2. /\ DOMAIN users' = DOMAIN users
      /\ \A i \in DOMAIN users : i # target[r] => users'[i] = users[i]
  BY <1>1 DEF Stored
<1>3. /\ Accounted' /\ Numbered'
      /\ took'[r] = changes + 1
      /\ \A q \in Request : q # r => took'[q] = took[q]
      /\ \A q \in Request : pc'[q] = IF q = r THEN end ELSE pc[q]
      /\ \A d \in Request \ {r} : Undone(d) => Undone(d)'
  BY <1>2, EffectKeeps
<1>4. found' = found
  BY DEF TakesEffect
<1>5. StaysDeleted'
  <2> SUFFICES ASSUME NEW d \in Request, op[d] = "delete", took'[d] > 0
               PROVE  target[d] \in DOMAIN users /\ (users'[target[d]].deleted \/ Undone(d)')
    BY <1>2 DEF StaysDeleted
  <2>1. d # r /\ took'[d] = took[d]
    BY <1>1, <1>3
  <2>2. target[d] \in DOMAIN users /\ (users[target[d]].deleted \/ Undone(d))
    BY <2>1 DEF Consistent, StaysDeleted
  <2>3. CASE target[d] # target[r]
    BY <1>2, <1>3, <2>1, <2>2, <2>3
  <2>4. CASE target[d] = target[r]
    <3>1. found[r] < took[d] \/ Undone(d)
      BY <2>1, <2>4 DEF Consistent, Overtaken
    <3>2. took'[d] < took'[r]
      BY <1>3, <2>1, Numbers
    <3>3. found[r] < took[d] => Undone(d)'
      BY <1>1, <1>4, <2>1, <2>4, <3>2 DEF Undone
    <3> QED
      BY <1>3, <2>1, <2>2, <3>1, <3>3
  <2> QED
    BY <2>3, <2>4
<1>6. Overtaken'
  <2> SUFFICES ASSUME NEW u \in Request, NEW d \in Request, pc'[u] = "save", op[d] = "delete",
                      took'[d] > 0, target[u] = target[d]
               PROVE  found[u] < took'[d] \/ Undone(d)'
    BY <1>4 DEF Overtaken
  <2>1. u # r /\ d # r
    BY <1>1, <1>3
  <2> QED
    BY <1>3, <2>1 DEF Consistent, Overtaken
<1>7. Between'
  <2> SUFFICES ASSUME NEW p \in Request, NEW q \in Request,
                      op[p] = "delete" /\ op[q] = "delete" /\ target[p] = target[q],
                      took'[p] > 0 /\ took'[p] < took'[q]
               PROVE  \E u \in Request : /\ op[u] = "update" /\ target[u] = target[p]
                                         /\ took'[p] < took'[u] /\ took'[u] < took'[q]
    BY DEF Between
  <2>1. p # r /\ q # r /\ took'[p] = took[p] /\ took'[q] = took[q]
    BY <1>1, <1>3
  <2>2. PICK u \in Request : /\ op[u] = "update" /\ target[u] = target[p]
                             /\ took[p] < took[u] /\ took[u] < took[q]
    BY <2>1 DEF Consistent, Between
  <2>3. u # r
    BY <2>2, Numbers DEF Consistent, Numbered
  <2> QED
    BY <1>3, <2>1, <2>2, <2>3
<1> QED
  BY <1>3, <1>5, <1>6, <1>7 DEF Consistent

\* A SoftDeleteUser ends that has deleted its row: it was a live one.
LEMMA DeleteConsistent ==
  ASSUME Typed, Consistent, NEW r \in Request, NEW end \in {"ok", "failed"},
         pc[r] = "softDelete", Live(target[r]), TakesEffect(r),
         users' = [users EXCEPT ![target[r]].deleted = TRUE],
         pc' = [pc EXCEPT ![r] = end], UNCHANGED <<op, target>>
  PROVE  Consistent'
<1>1. op[r] = "delete" /\ target[r] \in DOMAIN users /\ ~users[target[r]].deleted
  BY DEF Consistent, Accounted, Live
<1>2. /\ DOMAIN users' = DOMAIN users
      /\ \A i \in DOMAIN users : i # target[r] => users'[i] = users[i]
      /\ users'[target[r]].deleted
  <2>1. users[target[r]] \in Row
    BY <1>1 DEF Typed, TypeOK
  <2> QED
    BY <1>1, <2>1 DEF Row, Typed, TypeOK
<1>3. /\ Accounted' /\ Numbered'
      /\ took'[r] = changes + 1
      /\ \A q \in Request : q # r => took'[q] = took[q]
      /\ \A q \in Request : pc'[q] = IF q = r THEN end ELSE pc[q]
      /\ \A d \in Request \ {r} : Undone(d) => Undone(d)'
  BY <1>2, EffectKeeps
<1>4. found' = found
  BY DEF TakesEffect
<1>5. StaysDeleted'
  <2> SUFFICES ASSUME NEW d \in Request, op[d] = "delete", took'[d] > 0
               PROVE  target[d] \in DOMAIN users /\ (users'[target[d]].deleted \/ Undone(d)')
    BY <1>2 DEF StaysDeleted
  <2>1. CASE target[d] = target[r]
    BY <1>1, <1>2, <2>1
  <2>2. CASE target[d] # target[r]
    <3>1. d # r /\ took'[d] = took[d]
      BY <1>3, <2>2
    <3> QED
      BY <1>2, <1>3, <2>2, <3>1 DEF Consistent, StaysDeleted
  <2> QED
    BY <2>1, <2>2
<1>6. Overtaken'
  <2> SUFFICES ASSUME NEW u \in Request, NEW d \in Request, pc'[u] = "save", op[d] = "delete",
                      took'[d] > 0, target[u] = target[d]
               PROVE  found[u] < took'[d] \/ Undone(d)'
    BY <1>4 DEF Overtaken
  <2>1. pc[u] = "save"
    BY <1>3
  <2>2. CASE d = r
    BY <1>3, <2>2, Numbers
  <2>3. CASE d # r
    BY <1>3, <2>1, <2>3 DEF Consistent, Overtaken
  <2> QED
    BY <2>2, <2>3
<1>7. Between'
  <2> SUFFICES ASSUME NEW p \in Request, NEW q \in Request,
                      op[p] = "delete" /\ op[q] = "delete" /\ target[p] = target[q],
                      took'[p] > 0 /\ took'[p] < took'[q]
               PROVE  \E u \in Request : /\ op[u] = "update" /\ target[u] = target[p]
                                         /\ took'[p] < took'[u] /\ took'[u] < took'[q]
    BY DEF Between
  <2>1. p # r /\ took'[p] = took[p]
    <3>1. p # r
      <4> SUFFICES ASSUME p = r PROVE FALSE
        OBVIOUS
      <4>1. q # r /\ took'[q] = took[q]
        BY <1>3, Numbers
      <4> QED
        BY <1>3, <4>1, Numbers
    <3> QED
      BY <1>3, <3>1
  <2>2. \E u \in Request : /\ op[u] = "update" /\ target[u] = target[p]
                           /\ took[p] < took[u] /\ (q = r \/ took[u] < took[q])
    <3>1. CASE q = r
      <4>1. Undone(p)
        BY <1>1, <2>1, <3>1 DEF Consistent, StaysDeleted
      <4> QED
        BY <3>1, <4>1 DEF Undone
    <3>2. CASE q # r
      <4>1. took'[q] = took[q]
        BY <1>3, <3>2
      <4> QED
        BY <2>1, <4>1 DEF Consistent, Between
    <3> QED
      BY <3>1, <3>2
  <2>3. PICK u \in Request : /\ op[u] = "update" /\ target[u] = target[p]
                             /\ took[p] < took[u] /\ (q = r \/ took[u] < took[q])
    BY <2>2
  <2>4. u # r /\ took'[u] = took[u]
    BY <1>1, <1>3, <2>3
  <2>5. took[u] < took'[q]
    BY <1>3, <2>3, Numbers
  <2> QED
    BY <2>1, <2>3, <2>4, <2>5
<1> QED
  BY <1>3, <1>5, <1>6, <1>7 DEF Consistent

LEMMA ConsistentInductive == Spec => []Consistent
<1>1. Init => Consistent
  BY DEF Init, Consistent, Accounted, Numbered, StaysDeleted, Overtaken, Between
<1>2. Typed /\ Consistent /\ [Next]_vars => Consistent'
  <2> SUFFICES ASSUME Typed, Consistent, [Next]_vars PROVE Consistent'
    OBVIOUS
  <2> USE DEF history
  <2>1. ASSUME NEW r \in Request, NEW n \in Username, NEW e \in Email, StartRegister(r, n, e)
        PROVE  Consistent'
    BY <2>1, StartConsistent DEF StartRegister, Start
  <2>2. ASSUME NEW r \in Request, NEW n \in Username, NEW e \in Email, NEW i \in Request,
               StartUpdate(r, i, n, e)
        PROVE  Consistent'
    BY <2>2, StartConsistent DEF StartUpdate, Start
  <2>3. ASSUME NEW r \in Request, NEW i \in Request, NEW o \in {"register", "update"},
               StartDelete(r, i) \/ Refused(r, o, i)
        PROVE  Consistent'
    BY <2>3, StartConsistent DEF StartDelete, Refused, Start
  <2>4. ASSUME NEW r \in Request, FindByUsername(r) \/ FindByEmail(r)
        PROVE  Consistent'
    BY <2>4, QuietConsistent DEF FindByUsername, FindByEmail, Goto
  <2>5. ASSUME NEW r \in Request, FindByID(r)
        PROVE  Consistent'
    <3>1. CASE ~Live(target[r])
      BY <2>5, <3>1, QuietConsistent DEF FindByID, Goto
    <3>2. CASE Live(target[r])
      <4> DEFINE at == IF op[r] = "update" THEN "save" ELSE "softDelete"
      <4>1. /\ pc[r] = "byID" /\ op[r] \in {"update", "delete"} /\ target[r] \in DOMAIN users
            /\ pc' = [pc EXCEPT ![r] = at] /\ UNCHANGED <<users, op, target, changes, took>>
        BY <2>5, <3>2 DEF FindByID, Found, Live, Consistent, Accounted
      <4>2. /\ \A q \in Request \ {r} : found'[q] = found[q]
            /\ at # "save" => found'[r] = found[r]
        BY <2>5, <3>2 DEF FindByID, Found, Typed, TypeOK
      <4>3. /\ at \in {"save", "softDelete"}
            /\ at = "save" => op[r] = "update"
            /\ at = "softDelete" => op[r] = "delete"
        BY <4>1
      <4> HIDE DEF at
      <4> QED
        BY <3>2, <4>1, <4>2, <4>3, QuietConsistent
    <3> QED
      BY <3>1, <3>2
  <2>6. ASSUME NEW r \in Request, Create(r)
        PROVE  Consistent'
    BY <2>6, QuietConsistent DEF Create, Goto
  <2>7. ASSUME NEW r \in Request, Commit(r)
        PROVE  Consistent'
    BY <2>7, CommitConsistent
  <2>8. ASSUME NEW r \in Request, Save(r)
        PROVE  Consistent'
    BY <2>8, SaveConsistent, QuietConsistent DEF Save, Committed, Goto
  <2>9. ASSUME NEW r \in Request, SoftDelete(r)
        PROVE  Consistent'
    BY <2>9, DeleteConsistent, QuietConsistent DEF SoftDelete, Committed, Goto
  <2>10. ASSUME NEW r \in Request, Fail(r)
         PROVE  Consistent'
    BY <2>10, QuietConsistent DEF Fail, AtDatabase
  <2>11. CASE UNCHANGED <<users, op, pc, target, changes, took, found>>
    BY <2>11 DEF Consistent, Accounted, Numbered, StaysDeleted, Overtaken, Between, Undone
  <2>12. ASSUME NEW r \in Request, TimeOut(r)
         PROVE  Consistent'
    BY <2>11, <2>12 DEF TimeOut
  <2> QED
    BY <2>1, <2>2, <2>3, <2>4, <2>5, <2>6, <2>7, <2>8, <2>9, <2>10, <2>11, <2>12
       DEF Next, Query, vars, calls
<1> QED
  BY <1>1, <1>2, TypedInductive, PTL DEF Spec

\* Of two deletions of one user only one is told that it succeeded, unless an
\* update took effect after the one and before the other (SoftDeleteUser,
\* RowsAffected in SoftDelete).
THEOREM DeletionsAreToldOnce == Spec => []DeletedOnce
<1>1. Typed /\ Consistent => DeletedOnce
  <2> SUFFICES ASSUME Typed, Consistent, NEW r \in Request, NEW q \in Request, r # q,
                      op[r] = "delete" /\ pc[r] = "ok",
                      op[q] = "delete" /\ pc[q] = "ok",
                      target[r] = target[q]
               PROVE  \E u \in Request : /\ op[u] = "update" /\ target[u] = target[r]
                                         /\ \/ took[r] < took[u] /\ took[u] < took[q]
                                            \/ took[q] < took[u] /\ took[u] < took[r]
    BY DEF DeletedOnce
  <2>1. took[r] > 0 /\ took[q] > 0 /\ took[r] # took[q]
    BY DEF Consistent, Numbered
  <2>2. took[r] < took[q] \/ took[q] < took[r]
    BY <2>1, Numbers
  <2> QED
    BY <2>1, <2>2 DEF Consistent, Between
<1> QED
  BY <1>1, TypedInductive, ConsistentInductive, PTL

\* Only an UpdateUser whose FindByID came before a deletion and whose Save came
\* after it brings a user back.
THEOREM DeletionsLast == Spec => []OnlyOvertakenUpdatesUndelete
<1>1. Consistent => OnlyOvertakenUpdatesUndelete
  BY DEF Consistent, StaysDeleted, Undone, OnlyOvertakenUpdatesUndelete
<1> QED
  BY <1>1, ConsistentInductive, PTL

\* A registration whose client is told 201 has left its row, and one whose client
\* is told 4xx, but not the 408 of TimeoutMiddleware, has left none (Register,
\* WithTx, HTTPCodeFromError).
THEOREM AnswersAreTruthful == Spec => []AnswersTellTheOutcome
<1>1. Consistent => AnswersTellTheOutcome
  <2> SUFFICES ASSUME Consistent, NEW r \in Request, op[r] = "register"
               PROVE  /\ Status(r) = 201 => r \in DOMAIN users
                      /\ Status(r) \in (400 .. 499) \ {408} => r \notin DOMAIN users
    BY DEF AnswersTellTheOutcome
  <2>1. pc[r] = "ok" => r \in DOMAIN users
    BY DEF Consistent, Accounted
  <2>2. r \in DOMAIN users => pc[r] \in {"ok", "failed"}
    BY DEF Consistent, Accounted
  <2>3. Status(r) = 201 => pc[r] = "ok"
    BY DEF Status, IsAppError, HTTPCode
  <2>4. pc[r] \in {"ok", "failed"} => Status(r) \in {201, 408, 500}
    BY DEF Status, IsAppError
  <2> QED
    BY <2>1, <2>2, <2>3, <2>4
<1> QED
  BY <1>1, ConsistentInductive, PTL

-----------------------------------------------------------------------------
(* The promise of an account registry.                                     *)

\* Validate changes the spelling of the e-mail of a registration and nothing else.
AsGiven ==
  \A r \in Request :
    op[r] \in {"none", "register"} => entity[r].email.address = email[r].address

LEMMA AsGivenInductive == Spec => []AsGiven
<1>1. Init => AsGiven
  <2> SUFFICES ASSUME Init PROVE AsGiven
    OBVIOUS
  <2>1. PICK n \in Username, a \in Address :
          /\ entity = [r \in Request |-> [username |-> n, email |-> [address |-> a, lower |-> TRUE]]]
          /\ email = [r \in Request |-> [address |-> a, lower |-> TRUE]]
    BY DEF Init
  <2> QED
    BY <2>1 DEF AsGiven
<1>2. Typed /\ AsGiven /\ [Next]_vars => AsGiven'
  <2> SUFFICES ASSUME Typed, AsGiven, [Next]_vars PROVE AsGiven'
    OBVIOUS
  <2>1. ASSUME NEW r \in Request, NEW n \in Username, NEW e \in Email, StartRegister(r, n, e)
        PROVE  AsGiven'
    <3>1. Normalised(n, e).email.address = e.address
      BY DEF Normalised, Email
    <3> QED
      BY <2>1, <3>1 DEF StartRegister, Start, AsGiven, Typed, TypeOK
  <2>2. ASSUME NEW r \in Request, NEW n \in Username, NEW e \in Email, NEW i \in Request,
               StartUpdate(r, i, n, e)
        PROVE  AsGiven'
    BY <2>2 DEF StartUpdate, Start, AsGiven, Typed, TypeOK
  <2>3. ASSUME NEW r \in Request, NEW i \in Request, NEW o, StartDelete(r, i) \/ Refused(r, o, i)
        PROVE  AsGiven'
    <3>1. op[r] = "none" /\ UNCHANGED email /\ entity' = [entity EXCEPT ![r] = entity[r]]
      BY <2>3 DEF StartDelete, Refused, Start, Typed, Flow
    <3>2. entity' = entity
      BY <3>1 DEF Typed, TypeOK
    <3>3. \A q \in Request \ {r} : op'[q] = op[q]
      BY <2>3 DEF StartDelete, Refused, Start, Typed, TypeOK
    <3> QED
      BY <3>1, <3>2, <3>3 DEF AsGiven
  <2>4. ASSUME NEW r \in Request, Query(r) \/ Fail(r) \/ TimeOut(r)
        PROVE  AsGiven'
    <3>1. UNCHANGED <<op, entity, email>>
      BY <2>4 DEF Query, FindByUsername, FindByEmail, Create, Commit, FindByID, Found, Save,
                  SoftDelete, Fail, TimeOut, Goto
    <3> QED
      BY <3>1 DEF AsGiven
  <2>5. CASE UNCHANGED vars
    BY <2>5 DEF vars, calls, AsGiven
  <2> QED
    BY <2>1, <2>2, <2>3, <2>4, <2>5 DEF Next
<1> QED
  BY <1>1, <1>2, TypedInductive, PTL DEF Spec

Rows == [i \in DOMAIN users |-> Account(i)]
Asks == [r \in Request |-> Asked(r)]
Replies == [r \in Request |-> Told(r)]

\* What the steps of a call rely on.
Sound == Typed /\ Distinct /\ Accounted /\ AsGiven

\* A name is taken exactly when another row clashes: all stored e-mails are
\* spelt alike.
LEMMA ClashIsTaken ==
  ASSUME Sound, NEW r \in Request, entity[r].email.lower
  PROVE  Duplicate(r) <=> Promise!Taken(r)
<1>1. DOMAIN Rows = DOMAIN users /\ Asks[r].target = target[r]
  BY DEF Rows, Asks, Asked
<1>2. ASSUME NEW i \in DOMAIN users
      PROVE  Clash(users[i], entity[r]) <=>
               Rows[i].username = Asks[r].username \/ Rows[i].address = Asks[r].address
  <2>1. users[i].email \in Email /\ entity[r].email \in Email
    BY DEF Sound, Typed, TypeOK, Row, Entity
  <2>2. users[i].email.lower = TRUE /\ entity[r].email.lower = TRUE
    BY <2>1 DEF Sound, Distinct, Email
  <2>3. users[i].email = entity[r].email <=> users[i].email.address = entity[r].email.address
    BY <2>1, <2>2 DEF Email
  <2> QED
    BY <2>3 DEF Clash, Rows, Account, Asks, Asked
<1> QED
  BY <1>1, <1>2 DEF Duplicate, Promise!Taken, Rows, Asks

LEMMA LiveIsLive == \A i : Live(i) <=> Promise!Live(i)
  BY DEF Live, Promise!Live, Account

\* One call is told its answer.
LEMMA OneTold ==
  ASSUME Typed, NEW r \in Request, NEW at, pc' = [pc EXCEPT ![r] = at]
  PROVE  Replies' = [Replies EXCEPT ![r] = Told(r)']
<1>1. \A q \in Request \ {r} : Told(q)' = Told(q)
  BY DEF Typed, TypeOK, Told
<1> QED
  BY <1>1 DEF Replies

\* A call that touches no row.
LEMMA QuietPromise ==
  ASSUME Typed, NEW r \in Request, NEW at,
         pc' = [pc EXCEPT ![r] = at], UNCHANGED <<users, op, target, entity>>
  PROVE  /\ Rows' = Rows /\ Asks' = Asks
         /\ Replies' = [Replies EXCEPT ![r] = Told(r)']
         /\ pc'[r] = at
<1>1. Rows' = Rows
  BY DEF Rows, Account
<1>2. Asks' = Asks
  BY DEF Asks, Asked
<1>3. pc'[r] = at
  BY DEF Typed, TypeOK
<1> QED
  BY <1>1, <1>2, <1>3, OneTold

\* A call that moves on without an answer is not seen.
LEMMA MoveIsInvisible ==
  ASSUME Typed, NEW r \in Request, Told(r) = "none",
         NEW at \in {"byEmail", "create", "commit", "save", "softDelete"},
         pc' = [pc EXCEPT ![r] = at], UNCHANGED <<users, op, target, entity>>
  PROVE  UNCHANGED Promise!vars
<1>1. Told(r)' = "none"
  BY QuietPromise DEF Told
<1>2. Replies[r] = "none"
  BY DEF Replies
<1>3. Replies' = Replies
  BY <1>1, <1>2, QuietPromise DEF Replies
<1> QED
  BY <1>3, QuietPromise DEF Promise!vars, Rows, Asks, Replies

\* A call that is refused has a reason.
LEMMA RefusalHasReason ==
  ASSUME Typed, NEW r \in Request, Told(r) = "none",
         NEW at \in {"notFound", "conflict", "duplicate"},
         pc' = [pc EXCEPT ![r] = at], UNCHANGED <<users, op, target, entity>>,
         \/ op[r] = "register" /\ Promise!Taken(r)
         \/ op[r] = "update" /\ (Promise!Taken(r) \/ ~Live(target[r]))
         \/ op[r] = "delete" /\ ~Live(target[r])
  PROVE  Promise!Refuse(r)
<1>1. Told(r)' = "refused"
  BY QuietPromise DEF Told
<1>2. /\ Asks[r].op = op[r] /\ Asks[r].target = target[r] /\ Replies[r] = "none"
      /\ (Promise!Live(target[r]) <=> Live(target[r]))
  BY LiveIsLive DEF Asks, Asked, Replies
<1>3. Replies' = [Replies EXCEPT ![r] = "refused"]
  BY <1>1, QuietPromise
<1> QED
  BY <1>2, <1>3, QuietPromise DEF Promise!Refuse, Promise!Open, Promise!Tell, Rows, Asks, Replies

\* A call is told how it ended once its change is committed.
LEMMA CommittedTold ==
  ASSUME Typed, NEW r \in Request, Committed(r), UNCHANGED <<op, target, entity>>
  PROVE  /\ Asks' = Asks
         /\ \E a \in {"ok", "unknown"} : Replies' = [Replies EXCEPT ![r] = a]
<1>1. Asks' = Asks
  BY DEF Asks, Asked
<1>2. PICK at \in {"ok", "failed"} : pc' = [pc EXCEPT ![r] = at]
  BY DEF Committed
<1>3. pc'[r] = at
  BY <1>2 DEF Typed, TypeOK
<1>4. Told(r)' \in {"ok", "unknown"}
  BY <1>3 DEF Told
<1> QED
  BY <1>1, <1>2, <1>4, OneTold

\* The row of a call is what it asks for.
LEMMA StoredIsWritten ==
  ASSUME NEW r \in Request, users' = Stored(r)
  PROVE  Promise!Write(r)
<1> DEFINE t == target[r]
<1>1. DOMAIN Rows' = DOMAIN Rows \cup {t} /\ DOMAIN Rows = DOMAIN users
  BY DEF Rows, Stored
<1>2. /\ Asks[r].target = t /\ Asks[r].username = entity[r].username
      /\ Asks[r].address = entity[r].email.address
  BY DEF Asks, Asked
<1>3. \A i \in DOMAIN Rows \cup {t} :
        Rows'[i] = IF i = t
                     THEN [username |-> Asks[r].username, address |-> Asks[r].address,
                           deleted |-> FALSE]
                     ELSE Rows[i]
  BY <1>1, <1>2 DEF Rows, Account, Stored
<1>4. Rows' = [i \in DOMAIN Rows \cup {t} |->
                 IF i = t
                   THEN [username |-> Asks[r].username, address |-> Asks[r].address,
                         deleted |-> FALSE]
                   ELSE Rows[i]]
  BY <1>1, <1>3 DEF Rows
<1> QED
  BY <1>2, <1>4 DEF Promise!Write, Rows, Asks

\* A call that starts asks, and may be refused at once.
LEMMA StartAsks ==
  ASSUME Typed, NEW r \in Request, NEW at \in {"byUsername", "byID", "invalid"},
         pc[r] = "idle", op[r] = "none",
         pc' = [pc EXCEPT ![r] = at], users' = users,
         NEW o \in {"register", "update", "delete"}, NEW i \in Request, o = "register" => i = r,
         op' = [op EXCEPT ![r] = o], target' = [target EXCEPT ![r] = i],
         NEW x \in Entity, entity' = [entity EXCEPT ![r] = x]
  PROVE  Promise!Start(r)
<1> DEFINE a == [op |-> o, target |-> i, username |-> x.username, address |-> x.email.address]
<1>1. x.username \in Username /\ x.email.address \in Address
  BY DEF Entity, Email
<1>2. a \in Promise!Ask /\ (a.op = "register" => a.target = r)
  BY <1>1 DEF Promise!Ask
<1>3. Asks' = [Asks EXCEPT ![r] = a]
  <2>1. \A q \in Request \ {r} : Asked(q)' = Asked(q)
    BY DEF Typed, TypeOK, Asked
  <2>2. Asked(r)' = a
    BY DEF Typed, TypeOK, Asked
  <2> QED
    BY <2>1, <2>2 DEF Asks
<1>4. Asks[r].op = "none" /\ Replies[r] = "none"
  BY DEF Asks, Asked, Replies, Told
<1>5. Rows' = Rows
  BY DEF Rows, Account
<1>6. Told(r)' \in {"none", "refused"}
  BY DEF Told, Typed, TypeOK
<1>7. \E b \in {"none", "refused"} : Replies' = [Replies EXCEPT ![r] = b]
  BY <1>6, OneTold
<1> QED
  BY <1>2, <1>3, <1>4, <1>5, <1>7
     DEF Promise!Start, Promise!Open, Promise!Tell, Rows, Asks, Replies

\* The lookups of Register: a conflict is with a row that has the name.
LEMMA LookupKeepsPromise ==
  ASSUME Sound, NEW r \in Request, FindByUsername(r) \/ FindByEmail(r)
  PROVE  Promise!Refuse(r) \/ UNCHANGED Promise!vars
<1>1. /\ op[r] = "register" /\ target[r] = r /\ r \notin DOMAIN users
      /\ entity[r].email.lower /\ Told(r) = "none"
  <2>1. pc[r] \in {"byUsername", "byEmail"}
    BY DEF FindByUsername, FindByEmail
  <2> QED
    BY <2>1 DEF Sound, Typed, Flow, Accounted, Told
<1>2. CASE \E i \in DOMAIN users : Clash(users[i], entity[r])
  <2>1. Promise!Taken(r)
    BY <1>1, <1>2, ClashIsTaken DEF Duplicate
  <2>2. PICK at \in {"conflict", "byEmail", "create"} : Goto(r, at)
    BY DEF FindByUsername, FindByEmail
  <2>3. CASE at = "conflict"
    BY <1>1, <2>1, <2>2, <2>3, RefusalHasReason DEF Goto, Sound
  <2>4. CASE at # "conflict"
    BY <1>1, <2>2, <2>4, MoveIsInvisible DEF Goto, Sound
  <2> QED
    BY <2>3, <2>4
<1>3. CASE ~ \E i \in DOMAIN users : Clash(users[i], entity[r])
  <2>1. \A i \in DOMAIN users : users[i].username # entity[r].username
    BY <1>3 DEF Clash
  <2>2. \A i \in DOMAIN users : users[i].email # email[r]
    <3> SUFFICES ASSUME NEW i \in DOMAIN users, users[i].email = email[r]
                 PROVE  FALSE
      OBVIOUS
    <3>1. users[i].email \in Email /\ entity[r].email \in Email
      BY DEF Sound, Typed, TypeOK, Row, Entity
    <3>2. users[i].email.lower = TRUE /\ entity[r].email.lower = TRUE
      BY <1>1, <3>1 DEF Sound, Distinct, Email
    <3>3. users[i].email.address = entity[r].email.address
      BY <1>1, <3>1 DEF Sound, AsGiven
    <3> QED
      BY <1>3, <3>1, <3>2, <3>3 DEF Clash, Email
  <2>3. PICK at \in {"byEmail", "create"} : Goto(r, at)
    BY <2>1, <2>2 DEF FindByUsername, FindByEmail
  <2> QED
    BY <1>1, <2>3, MoveIsInvisible DEF Goto, Sound
<1> QED
  BY <1>2, <1>3

\* FindByID: what is not found is not there.
LEMMA FindByIDKeepsPromise ==
  ASSUME Sound, NEW r \in Request, FindByID(r)
  PROVE  Promise!Refuse(r) \/ UNCHANGED Promise!vars
<1>1. op[r] \in {"update", "delete"} /\ Told(r) = "none"
  BY DEF FindByID, Sound, Accounted, Told
<1>2. CASE Live(target[r])
  <2>1. PICK at \in {"save", "softDelete"} :
          pc' = [pc EXCEPT ![r] = at] /\ UNCHANGED <<users, op, target, entity>>
    BY <1>2 DEF FindByID, Found
  <2> QED
    BY <1>1, <2>1, MoveIsInvisible DEF Sound
<1>3. CASE ~Live(target[r])
  BY <1>1, <1>3, RefusalHasReason DEF FindByID, Goto, Sound
<1> QED
  BY <1>2, <1>3

\* Create: the row is not seen before its commit, and a duplicate is one.
LEMMA CreateKeepsPromise ==
  ASSUME Sound, NEW r \in Request, Create(r)
  PROVE  Promise!Refuse(r) \/ UNCHANGED Promise!vars
<1>1. op[r] = "register" /\ entity[r].email.lower /\ Told(r) = "none"
  BY DEF Create, Sound, Typed, Flow, Told
<1>2. CASE Duplicate(r)
  BY <1>1, <1>2, ClashIsTaken, RefusalHasReason DEF Create, Goto, Sound
<1>3. CASE ~Duplicate(r)
  BY <1>1, <1>3, MoveIsInvisible DEF Create, Sound
<1> QED
  BY <1>2, <1>3

\* Commit: the instant at which a registration takes effect.
LEMMA CommitRegisters ==
  ASSUME Sound, NEW r \in Request, Commit(r)
  PROVE  Promise!Register(r)
<1>1. /\ pc[r] = "commit" /\ r \in pending
      /\ op[r] = "register" /\ target[r] = r /\ entity[r].email.lower
      /\ r \notin DOMAIN users /\ Told(r) = "none"
  BY DEF Commit, Sound, Typed, TypeOK, Flow, Accounted, Told
<1>2. ~Promise!Taken(r)
  BY <1>1, ClashIsTaken DEF Sound, Distinct, Duplicate
<1>3. Promise!Write(r)
  BY StoredIsWritten DEF Commit
<1>4. /\ Asks' = Asks
      /\ \E a \in {"ok", "unknown"} : Replies' = [Replies EXCEPT ![r] = a]
  BY CommittedTold DEF Commit, Sound
<1>5. Asks[r].op = "register" /\ Replies[r] = "none" /\ r \notin DOMAIN Rows
  BY <1>1 DEF Asks, Asked, Replies, Rows
<1> QED
  BY <1>2, <1>3, <1>4, <1>5
     DEF Promise!Register, Promise!Open, Promise!Tell, Asks, Replies, Rows

\* Save: the instant at which an update takes effect, on a row that is there.
LEMMA SaveKeepsPromise ==
  ASSUME Sound, NEW r \in Request, Save(r)
  PROVE  Promise!Update(r) \/ Promise!Refuse(r)
<1>1. /\ op[r] = "update" /\ target[r] \in DOMAIN users
      /\ entity[r].email.lower /\ Told(r) = "none"
  BY DEF Save, Sound, Typed, Flow, Accounted, Told
<1>2. CASE Duplicate(r)
  BY <1>1, <1>2, ClashIsTaken, RefusalHasReason DEF Save, Goto, Sound
<1>3. CASE ~Duplicate(r)
  <2>1. ~Promise!Taken(r)
    BY <1>1, <1>3, ClashIsTaken
  <2>2. Promise!Write(r)
    BY <1>3, StoredIsWritten DEF Save
  <2>3. /\ Asks' = Asks
        /\ \E a \in {"ok", "unknown"} : Replies' = [Replies EXCEPT ![r] = a]
    BY <1>3, CommittedTold DEF Save, Sound
  <2>4. Asks[r].op = "update" /\ Replies[r] = "none" /\ Asks[r].target \in DOMAIN Rows
    BY <1>1 DEF Asks, Asked, Replies, Rows
  <2> QED
    BY <2>1, <2>2, <2>3, <2>4
       DEF Promise!Update, Promise!Open, Promise!Tell, Asks, Replies, Rows
<1> QED
  BY <1>2, <1>3

LEMMA FieldSet ==
  ASSUME NEW u, NEW a, NEW d, NEW x
  PROVE  [[username |-> u, address |-> a, deleted |-> d] EXCEPT !.deleted = x] =
           [username |-> u, address |-> a, deleted |-> x]
  OBVIOUS

LEMMA AccountDeleted ==
  ASSUME NEW i
  PROVE  [Account(i) EXCEPT !.deleted = TRUE] =
           [username |-> users[i].username, address |-> users[i].email.address, deleted |-> TRUE]
  BY FieldSet, Zenon DEF Account

\* SoftDelete: the instant at which a deletion takes effect, on a live row.
LEMMA SoftDeleteKeepsPromise ==
  ASSUME Sound, NEW r \in Request, SoftDelete(r)
  PROVE  Promise!Delete(r) \/ Promise!Refuse(r)
<1>1. op[r] = "delete" /\ Told(r) = "none"
  BY DEF SoftDelete, Sound, Accounted, Told
<1>2. CASE ~Live(target[r])
  BY <1>1, <1>2, RefusalHasReason DEF SoftDelete, Goto, Sound
<1>3. CASE Live(target[r])
  <2>0. PICK t \in Request : t = target[r]
    BY DEF Sound, Typed, TypeOK
  <2>1. users' = [users EXCEPT ![t].deleted = TRUE] /\ t \in DOMAIN users
    BY <1>3, <2>0 DEF SoftDelete, Live
  <2>2. Rows' = [Rows EXCEPT ![t].deleted = TRUE]
    <3>1. users[t] \in Row /\ DOMAIN users' = DOMAIN users
      BY <2>1 DEF Sound, Typed, TypeOK
    <3>2. users'[t] = [users[t] EXCEPT !.deleted = TRUE]
      BY <2>1, <3>1
    <3>3. /\ users'[t].username = users[t].username /\ users'[t].email = users[t].email
          /\ users'[t].deleted = TRUE
      BY <3>1, <3>2 DEF Row
    <3>4. Account(t)' = [username |-> users[t].username, address |-> users[t].email.address,
                         deleted |-> TRUE]
      BY <3>3 DEF Account
    <3>5. Account(t)' = [Account(t) EXCEPT !.deleted = TRUE]
      BY <3>4, AccountDeleted
    <3>6. \A i \in DOMAIN users \ {t} : users'[i] = users[i]
      BY <2>1 DEF Sound, Typed, TypeOK
    <3>7. \A i \in DOMAIN users \ {t} : Account(i)' = Account(i)
      BY <3>6 DEF Account
    <3>8. Rows' = [Rows EXCEPT ![t] = [Account(t) EXCEPT !.deleted = TRUE]]
      BY <2>1, <3>1, <3>5, <3>7 DEF Rows
    <3>9. Rows[t] = Account(t)
      BY <2>1 DEF Rows
    <3> QED
      BY <3>8, <3>9
  <2>3. /\ Asks' = Asks
        /\ \E a \in {"ok", "unknown"} : Replies' = [Replies EXCEPT ![r] = a]
    BY <1>3, CommittedTold DEF SoftDelete, Sound
  <2>4. /\ Asks[r].op = "delete" /\ Asks[r].target = t /\ Replies[r] = "none"
        /\ Promise!Live(t)
    BY <1>1, <1>3, <2>0, LiveIsLive DEF Asks, Asked, Replies
  <2> QED
    BY <2>2, <2>3, <2>4 DEF Promise!Delete, Promise!Open, Promise!Tell, Asks, Replies, Rows
<1> QED
  BY <1>2, <1>3

\* Fail: nothing has taken effect, and the caller cannot know.
LEMMA FailKeepsPromise ==
  ASSUME Sound, NEW r \in Request, Fail(r)
  PROVE  Promise!Fail(r)
<1>1. Told(r) = "none" /\ op[r] # "none"
  BY DEF Fail, AtDatabase, Told, Sound, Typed, Flow, Accounted
<1>2. pc' = [pc EXCEPT ![r] = "failed"] /\ UNCHANGED <<users, op, target, entity>>
  BY DEF Fail
<1>3. Told(r)' = "unknown"
  BY <1>2, QuietPromise DEF Told, Sound
<1>4. Rows' = Rows /\ Asks' = Asks /\ Replies' = [Replies EXCEPT ![r] = "unknown"]
  BY <1>2, <1>3, QuietPromise DEF Sound
<1>5. Replies[r] = "none" /\ Asks[r].op # "none"
  BY <1>1 DEF Replies, Asks, Asked
<1> QED
  BY <1>4, <1>5 DEF Promise!Fail, Promise!Tell, Rows, Asks, Replies

\* Each of Register, UpdateUser and SoftDeleteUser, over transactions, unique
\* columns and lookups that skip deleted rows, is linearizable
\* (auth_usecase.go, user_usecase.go, tx_manager.go).
THEOREM StoreImplementsRegistry == Spec => ImplementsAccountRegistry
<1>1. Init => Promise!Init
  <2> SUFFICES ASSUME Init PROVE Promise!Init
    OBVIOUS
  <2>1. PICK n \in Username, a \in Address :
          entity = [r \in Request |-> [username |-> n, email |-> [address |-> a, lower |-> TRUE]]]
    BY DEF Init
  <2>2. Asks \in [Request -> [op : {"none"}, target : Request,
                              username : Username, address : Address]]
    BY <2>1 DEF Init, Asks, Asked
  <2>3. Rows = [i \in {} |-> 0]
    BY DEF Init, Rows
  <2>4. Replies = [r \in Request |-> "none"]
    BY DEF Init, Replies, Told
  <2> QED
    BY <2>2, <2>3, <2>4 DEF Promise!Init, Rows, Asks, Replies
<1>2. Sound /\ [Next]_vars => [Promise!Next]_(Promise!vars)
  <2> SUFFICES ASSUME Sound, [Next]_vars
               PROVE  Promise!Next \/ UNCHANGED Promise!vars
    OBVIOUS
  <2>1. ASSUME NEW r \in Request, NEW o \in {"register", "update", "delete"}, NEW i \in Request,
               o = "register" => i = r, NEW x \in Entity,
               NEW at \in {"byUsername", "byID", "invalid"}, Start(r, o, i, x, at)
        PROVE  Promise!Start(r)
    BY <2>1, StartAsks DEF Start, Sound, Typed, Flow
  <2>2. ASSUME NEW r \in Request, NEW n \in Username, NEW e \in Email,
               \/ StartRegister(r, n, e)
               \/ \E i \in Request : StartUpdate(r, i, n, e)
        PROVE  Promise!Start(r)
    BY <2>1, <2>2, NormalisedTyped DEF StartRegister, StartUpdate
  <2>3. ASSUME NEW r \in Request, NEW i \in Request,
               StartDelete(r, i) \/ Refused(r, "update", i) \/ Refused(r, "register", r)
        PROVE  Promise!Start(r)
    <3>1. entity[r] \in Entity
      BY DEF Sound, Typed, TypeOK
    <3> QED
      BY <2>1, <2>3, <3>1 DEF StartDelete, Refused
  <2>4. ASSUME NEW r \in Request, Query(r)
        PROVE  \/ Promise!Register(r) \/ Promise!Update(r) \/ Promise!Delete(r)
               \/ Promise!Refuse(r) \/ UNCHANGED Promise!vars
    BY <2>4, LookupKeepsPromise, FindByIDKeepsPromise, CreateKeepsPromise, CommitRegisters,
       SaveKeepsPromise, SoftDeleteKeepsPromise DEF Query
  <2>5. ASSUME NEW r \in Request, Fail(r)
        PROVE  Promise!Fail(r)
    BY <2>5, FailKeepsPromise
  <2>6. ASSUME UNCHANGED <<users, op, pc, target, entity>>
        PROVE  UNCHANGED Promise!vars
    BY <2>6 DEF Promise!vars, Account, Asked, Told
  <2>7. ASSUME NEW r \in Request, TimeOut(r)
        PROVE  UNCHANGED Promise!vars
    BY <2>6, <2>7 DEF TimeOut
  <2> QED
    BY <2>2, <2>3, <2>4, <2>5, <2>6, <2>7 DEF Next, Promise!Next, vars, calls
<1>3. Typed /\ Distinct /\ Consistent /\ AsGiven => Sound
  BY DEF Sound, Consistent
<1> QED
  BY <1>1, <1>2, <1>3, TypedInductive, DistinctInductive, ConsistentInductive, AsGivenInductive,
     PTL DEF Spec, ImplementsAccountRegistry, Promise!Spec
=============================================================================
