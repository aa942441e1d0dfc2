-------------------------- MODULE AccountRegistry ---------------------------
(***************************************************************************)
(* What the user store promises to its callers: one registry in which each *)
(* call takes effect at a single instant, or not at all, and is refused    *)
(* only for a reason that stands at that instant.  Queries, transactions,  *)
(* the normalisation of e-mails and the unique columns are how the promise *)
(* is kept.  Two weaknesses are a part of it: a call that is told of a     *)
(* failure may have taken effect, and a change that has started may bring  *)
(* back an account that is deleted before it ends.                         *)
(***************************************************************************)

CONSTANTS Request,    \* the calls; an account is known by the call that registers it
          Username,   \* the usernames
          Address     \* the e-mail addresses, whatever their spelling

VARIABLES accounts,   \* the accounts, deleted ones included
          ask,        \* what each call asks for
          reply       \* what it is told

vars == <<accounts, ask, reply>>

Ask == [op : {"register", "update", "delete"}, target : Request,
        username : Username, address : Address]

-----------------------------------------------------------------------------

Init ==
  /\ accounts = [i \in {} |-> 0]
  /\ ask \in [Request -> [op : {"none"}, target : Request, username : Username, address : Address]]
  /\ reply = [r \in Request |-> "none"]

Live(i) == i \in DOMAIN accounts /\ ~accounts[i].deleted

\* A username and an address belong to one account, for ever.
Taken(r) ==
  \E i \in DOMAIN accounts \ {ask[r].target} :
    accounts[i].username = ask[r].username \/ accounts[i].address = ask[r].address

Open(r, o) == ask[r].op = o /\ reply[r] = "none"

Tell(r, answers) == \E a \in answers : reply' = [reply EXCEPT ![r] = a]

\* A call starts; what it asks for may be refused as invalid at once.
Start(r) ==
  /\ Open(r, "none")
  /\ \E a \in Ask : /\ a.op = "register" => a.target = r
                    /\ ask' = [ask EXCEPT ![r] = a]
  /\ Tell(r, {"none", "refused"})
  /\ UNCHANGED accounts

\* The account as the call asks for it.
Write(r) ==
  accounts' = [i \in DOMAIN accounts \cup {ask[r].target} |->
                 IF i = ask[r].target
                   THEN [username |-> ask[r].username, address |-> ask[r].address,
                         deleted |-> FALSE]
                   ELSE accounts[i]]

Register(r) ==
  /\ Open(r, "register") /\ r \notin DOMAIN accounts /\ ~Taken(r)
  /\ Write(r)
  /\ Tell(r, {"ok", "unknown"})
  /\ UNCHANGED ask

Update(r) ==
  /\ Open(r, "update") /\ ask[r].target \in DOMAIN accounts /\ ~Taken(r)
  /\ Write(r)
  /\ Tell(r, {"ok", "unknown"})
  /\ UNCHANGED ask

Delete(r) ==
  /\ Open(r, "delete") /\ Live(ask[r].target)
  /\ accounts' = [accounts EXCEPT ![ask[r].target].deleted = TRUE]
  /\ Tell(r, {"ok", "unknown"})
  /\ UNCHANGED ask

Refuse(r) ==
  /\ \/ Open(r, "register") /\ Taken(r)
     \/ Open(r, "update") /\ (Taken(r) \/ ~Live(ask[r].target))
     \/ Open(r, "delete") /\ ~Live(ask[r].target)
  /\ Tell(r, {"refused"})
  /\ UNCHANGED <<accounts, ask>>

\* The call takes no effect and its caller cannot know.
Fail(r) ==
  /\ reply[r] = "none" /\ ask[r].op # "none"
  /\ Tell(r, {"unknown"})
  /\ UNCHANGED <<accounts, ask>>

Next ==
  \E r \in Request :
    Start(r) \/ Register(r) \/ Update(r) \/ Delete(r) \/ Refuse(r) \/ Fail(r)

Spec == Init /\ [][Next]_vars
=============================================================================
