------------------------------- MODULE Server -------------------------------
(***************************************************************************)
(* The process and the requests it serves: AppLifecycle and                *)
(* RequestPipeline meet where a connection is accepted, where a handler    *)
(* asks the database, where Shutdown waits for connections, in time, and   *)
(* at the end of the process, which takes every goroutine with it.         *)
(***************************************************************************)
EXTENDS AppLifecycle, RequestPipeline

vars == <<app, pipeline>>
-----------------------------------------------------------------------------

Init == AppInit /\ PipelineInit

Accept(r) == listener = "up" /\ Open(r) /\ UNCHANGED app

Connection(r) == (Arrive(r) \/ Hangup(r) \/ Timeout(r)) /\ UNCHANGED app

Handler(r) == Chain(r, db = "open") /\ UNCHANGED app

Main == (Boot \/ Signal \/ Listen \/ ServeFails) /\ UNCHANGED pipeline

\* Mutant: Shutdown waits for the handlers, those behind a 408 included.
HandlersDone == \A r \in Request : pc[r] \in {"idle", "done"}

\* What Shutdown waits for.
Idle == \A r \in Request : ~InUse(r)

\* Mutant: it waits for the handlers, and without a deadline.
DrainForHandlers == Drained(HandlersDone) /\ drained' = "clean" /\ UNCHANGED pipeline

Drain == Drained(Idle) /\ UNCHANGED pipeline

Finish == Stop /\ UNCHANGED pipeline

\* Timers and the scheduler are prompt: no time passes while one that has run out
\* has not fired, a goroutine could run, or Shutdown could return.  Time that
\* nobody waits in is of no interest.
Tick ==
  /\ ~Idle
  /\ ~ \E r \in Request : Due(r)
  /\ main = "drain" => drainAge < Grace
  /\ Waiting /\ Draining
  /\ UNCHANGED <<pc, answer, queries, mu, config>>
  /\ UNCHANGED <<main, node, db, listener, serverErr, signalled, drained, result>>

Next ==
  /\ Alive
  /\ \/ \E r \in Request : Accept(r) \/ Connection(r) \/ Handler(r)
     \/ Main \/ Drain \/ Finish
     \/ Tick

Spec == Init /\ [][Next]_vars

\* The clock goes on, timers fire, main takes its steps, and goroutines that can
\* run do.  Nothing is assumed of the handlers that ask the database: any of them
\* may hang for ever, in front of its client or behind a 408.
FairSpec ==
  /\ Spec
  /\ WF_vars(Tick) /\ WF_vars(Alive /\ Drain) /\ WF_vars(Alive /\ Finish)
  /\ \A r \in Request :
       WF_vars(Alive /\ Connection(r)) /\ WF_vars(Alive /\ Prompt(r) /\ UNCHANGED app)

-----------------------------------------------------------------------------

\* Every part is where it can be, and the mutex is held by a handler that runs,
\* be its client answered or not.
TypeOK ==
  /\ main \in {"config", "node", "connect", "migrate", "setup",
              "run", "drain", "close", "stopping", "exited"}
  /\ node \in BOOLEAN /\ serverErr \in BOOLEAN /\ signalled \in BOOLEAN
  /\ db \in {"none", "open", "closed"}
  /\ listener \in {"down", "up", "failed", "shut"}
  /\ drainAge \in 0 .. Grace
  /\ drained \in {"no", "clean", "cut"}
  /\ result \in {"none", "nil", "error"}
  /\ pc \in [Request -> {"idle", "connected", "waiting", "handling", "done"}]
  /\ answer \in [Request -> {"none", "reply", "408", "lost"}]
  /\ age \in [Request -> Nat]
  /\ queries \in [Request -> 0 .. Queries]
  /\ limited \in BOOLEAN /\ requestTimeout \in Timeouts
  /\ mu # Nobody => mu \in Request /\ limited /\ pc[mu] = "handling"

\* While connections are accepted the database is open and identifiers can be
\* made: start-up listens last, and shutdown closes the listeners first.
ServesWhenReady == listener = "up" => db = "open" /\ node

\* When Shutdown has returned nil, and until the process ends, no client waits
\* for an answer: every handler that may meet the closed database has had its
\* request answered 408 before.
CleanDrainLeavesNoClient == drained = "clean" => \A r \in Request : ~InUse(r)

\* Shutdown does not run into its deadline if the time for the headers and the
\* timeout of the request fit into it, whatever the handlers do and however
\* long they wait for the limiter.
DrainInTime ==
  HeaderTimeout < Grace /\ requestTimeout + HeaderTimeout < Grace => drained # "cut"

\* A timeout shorter than WriteTimeout is one the client is told of.
AnswersReachClients ==
  requestTimeout < WriteTimeout => \A r \in Request : answer[r] # "lost"

\* Behind the rate limiter one handler runs at a time, those included that go on
\* behind a 408 or a lost answer.  That is what AuthSessions calls serialized.
HandlersDoNotOverlap ==
  limited => \A r, q \in Request : pc[r] = "handling" /\ pc[q] = "handling" => r = q

\* A client has one answer: nothing a handler does behind a 408 changes it.
AnswerIsFinal == [][\A r \in Request : answer[r] # "none" => answer'[r] = answer[r]]_vars

\* The process, and the request of a client, as the clients know them.
Standing ==
  CASE ~Alive -> "stopped"
    [] Alive /\ listener = "down" -> "starting"
    [] Alive /\ listener = "up" -> "serving"
    [] Alive /\ listener \in {"failed", "shut"} -> "closed"

Verdict == IF drained # "no" THEN drained ELSE IF result = "error" THEN "failed" ELSE "none"

Sees(r) ==
  CASE pc[r] = "idle" -> "absent"
    [] pc[r] = "connected" -> "connected"
    [] Unanswered(r) -> "waiting"
    [] pc[r] = "done" \/ (InChain(r) /\ answer[r] # "none") -> answer[r]

Progress(r) ==
  CASE pc[r] \in {"idle", "connected", "waiting"} -> "ahead"
    [] pc[r] = "handling" -> "running"
    [] pc[r] = "done" -> "over"

Promise ==
  INSTANCE GracefulServer
    WITH phase <- Standing, verdict <- Verdict,
         client <- [r \in Request |-> Sees(r)],
         handler <- [r \in Request |-> Progress(r)],
         exclusive <- limited,
         prompt <- requestTimeout < WriteTimeout,
         patient <- HeaderTimeout < Grace /\ requestTimeout + HeaderTimeout < Grace

\* Start-up, the select of Run, the drain and its deadline, the timers and the
\* mutex that the requests meet on are, to the clients, a graceful server: who
\* connects is served or told so, once, and is not left waiting by an end of
\* the process that claims to be clean.
ImplementsGracefulServer == Promise!Spec

\* Every request is answered, even if no handler ever returns, unless the
\* process ends before.
EveryRequestAnswered ==
  \A r \in Request : Unanswered(r) ~> (~Unanswered(r) \/ ~Alive)

\* A signal, and a server that cannot serve, end the process, even if no
\* handler ever returns.
StopsWhenAsked == (signalled \/ listener = "failed") ~> ~Alive

-----------------------------------------------------------------------------
\* What the repository says and the code does not do.

\* The liveness probe answers 200 as long as the process runs.
LiveAnswers == \A r \in Probe : answer[r] # "408"
=============================================================================
