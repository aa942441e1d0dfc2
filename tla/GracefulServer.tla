--------------------------- MODULE GracefulServer ---------------------------
(***************************************************************************)
(* What the process promises to the clients that connect to it.  It lets   *)
(* them connect while it serves and not before or after; whoever asks gets *)
(* one answer, and what goes on behind that answer does not change it; a   *)
(* drain that is called clean leaves nobody waiting.  How the process is   *)
(* started, what handlers wait for and how long is not a part of it.  Its  *)
(* weaknesses: a drain may be cut short unless the timeouts are patient    *)
(* enough for it, an answer may be lost unless they are prompt enough, and *)
(* handlers run one at a time only if they are made exclusive.             *)
(***************************************************************************)
CONSTANT Request      \* the requests of clients, each on a connection of its own

VARIABLES phase,      \* what the process does about connections
          verdict,    \* how it took leave of its clients
          client,     \* what each client does or has got
          handler,    \* what is done about its request
          exclusive, prompt, patient    \* what the settings are good for

settings == <<exclusive, prompt, patient>>
vars == <<phase, verdict, client, handler, settings>>

Expectant == {"connected", "waiting"}

-----------------------------------------------------------------------------

Init ==
  /\ phase = "starting" /\ verdict = "none"
  /\ client = [r \in Request |-> "absent"]
  /\ handler = [r \in Request |-> "ahead"]
  /\ settings \in BOOLEAN \X BOOLEAN \X BOOLEAN

\* The client of request r goes from one state to another.
Client(r, from, to) == client[r] = from /\ client' = [client EXCEPT ![r] = to]

Answer(r, a) ==
  \E got \in {a, "lost"} : (prompt => got = a) /\ Client(r, "waiting", got)

Connect(r) ==
  /\ phase = "serving"
  /\ Client(r, "absent", "connected")
  /\ UNCHANGED <<phase, verdict, handler, settings>>

Ask(r) ==
  /\ Client(r, "connected", "waiting")
  /\ UNCHANGED <<phase, verdict, handler, settings>>

\* The client never asks; the server closes the connection.
HangUp(r) ==
  /\ Client(r, "connected", "none")
  /\ handler' = [handler EXCEPT ![r] = "over"]
  /\ UNCHANGED <<phase, verdict, settings>>

\* The handler starts, maybe for a client that has its answer already.
Begin(r) ==
  /\ handler[r] = "ahead" /\ client[r] \notin {"absent", "connected"}
  /\ exclusive => \A q \in Request : handler[q] # "running"
  /\ handler' = [handler EXCEPT ![r] = "running"]
  /\ UNCHANGED <<phase, verdict, client, settings>>

GiveUp(r) ==
  /\ Answer(r, "408")
  /\ UNCHANGED <<phase, verdict, handler, settings>>

\* The handler ends, or the request is over without one.
End(r) ==
  /\ handler[r] # "over" /\ client[r] \notin {"absent", "connected"}
  /\ handler' = [handler EXCEPT ![r] = "over"]
  /\ Answer(r, "reply") \/ (client[r] # "waiting" /\ UNCHANGED client)
  /\ UNCHANGED <<phase, verdict, settings>>

Phase(from, to) ==
  /\ phase \in from /\ phase' = to
  /\ UNCHANGED <<verdict, client, handler, settings>>

\* It is clean only if nobody expects anything, and cut short only if the
\* settings allow for it; the server may also have failed.
TakeLeave(how) ==
  /\ phase = "closed" /\ verdict = "none"
  /\ how = "clean" => \A r \in Request : client[r] \notin Expectant
  /\ how = "cut" => ~patient
  /\ verdict' = how
  /\ UNCHANGED <<phase, client, handler, settings>>

\* The end of the process ends everything; one that has let clients in has
\* taken leave of them.
Stop ==
  /\ phase = "closed" => verdict # "none"
  /\ Phase({"starting", "closed"}, "stopped")

Next ==
  \/ /\ phase # "stopped"
     /\ \E r \in Request : Connect(r) \/ Ask(r) \/ HangUp(r) \/ Begin(r) \/ GiveUp(r) \/ End(r)
  \/ Phase({"starting"}, "serving")
  \/ Phase({"starting", "serving"}, "closed")
  \/ \E how \in {"clean", "cut", "failed"} : TakeLeave(how)
  \/ Stop

Spec == Init /\ [][Next]_vars
=============================================================================
