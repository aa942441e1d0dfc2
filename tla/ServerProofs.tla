---------------------------- MODULE ServerProofs ----------------------------
(***************************************************************************)
(* Proofs about Server, for any requests, probes, numbers of queries and   *)
(* time limits: the invariants of its parts, layer by layer, and last the  *)
(* refinement of GracefulServer.                                           *)
(***************************************************************************)
EXTENDS Server, TLAPS

-----------------------------------------------------------------------------
(* What the steps of a request do to it.                                   *)

LEMMA RequestParts == TypeOK => /\ pc \in [Request -> {"idle", "connected", "waiting", "handling", "done"}]
                                /\ answer \in [Request -> {"none", "reply", "408", "lost"}]
                                /\ age \in [Request -> Nat]
                                /\ queries \in [Request -> 0 .. Queries]
                                /\ requestTimeout \in Int /\ WriteTimeout \in Nat \ {0}
                                /\ HeaderTimeout \in Nat \ {0}
  BY TimeoutsAssumption, ServerAssumption DEF TypeOK

LEMMA WrittenAnswers ==
  ASSUME TypeOK, NEW r \in Request, NEW a, NEW w \in Written(r, a)
  PROVE  w = a \/ (w = "lost" /\ age[r] >= WriteTimeout)
  BY DEF Written

\* A chain that ends, before or behind a 408.
LEMMA EndChanges ==
  ASSUME TypeOK, NEW r \in Request, End(r, "reply")
  PROVE  /\ pc' = [pc EXCEPT ![r] = "done"]
         /\ mu' = IF mu = r THEN Nobody ELSE mu
         /\ answer' \in [Request -> {"none", "reply", "408", "lost"}]
         /\ \A q \in Request : q # r \/ answer[q] # "none" => answer'[q] = answer[q]
         /\ answer'[r] = "lost" => answer[r] = "lost" \/ (answer[r] = "none" /\ age[r] >= WriteTimeout)
         /\ age' = [age EXCEPT ![r] = 0]
<1>1. CASE answer[r] # "none"
  BY <1>1, RequestParts DEF End
<1>2. CASE answer[r] = "none"
  <2>1. PICK w \in Written(r, "reply") : answer' = [answer EXCEPT ![r] = w]
    BY <1>2 DEF End
  <2>2. w = "reply" \/ (w = "lost" /\ age[r] >= WriteTimeout)
    BY <2>1, WrittenAnswers
  <2> QED
    BY <1>2, <2>1, <2>2, RequestParts DEF End
<1> QED
  BY <1>1, <1>2

LEMMA TimeoutChanges ==
  ASSUME TypeOK, NEW r \in Request, Timeout(r)
  PROVE  /\ Unanswered(r)
         /\ UNCHANGED <<pc, queries, mu, config>>
         /\ answer' \in [Request -> {"none", "reply", "408", "lost"}]
         /\ answer'[r] # "none"
         /\ \A q \in Request \ {r} : answer'[q] = answer[q]
         /\ answer'[r] = "lost" => age[r] >= WriteTimeout
         /\ age' = [age EXCEPT ![r] = 0]
<1>1. PICK w \in Written(r, "408") : answer' = [answer EXCEPT ![r] = w]
  BY DEF Timeout
<1>2. w = "408" \/ (w = "lost" /\ age[r] >= WriteTimeout)
  BY <1>1, WrittenAnswers
<1> QED
  BY <1>1, <1>2, RequestParts DEF Timeout, TimedOut

\* The steps of a request, told apart by what they do to it.
Ends(r) == InChain(r) /\ End(r, "reply") /\ UNCHANGED <<queries, config>>
Asks(r) ==
  /\ pc[r] = "handling" /\ queries[r] < Queries
  /\ queries' = [queries EXCEPT ![r] = @ + 1]
  /\ UNCHANGED <<pc, answer, age, mu, config>>

LEMMA RequestSteps ==
  ASSUME NEW r \in Request, Accept(r) \/ Connection(r) \/ Handler(r)
  PROVE  /\ UNCHANGED app
         /\ \/ listener = "up" /\ Open(r)
            \/ Arrive(r) \/ Hangup(r) \/ Timeout(r)
            \/ Enter(r) \/ Ends(r) \/ Asks(r)
  BY DEF Accept, Connection, Handler, Chain, Prompt, Refuse, Query, Return, Ends, Asks, InChain

-----------------------------------------------------------------------------
(* Type correctness.                                                       *)

LEMMA EndTyped ==
  ASSUME TypeOK, NEW r \in Request, Ends(r), UNCHANGED app
  PROVE  TypeOK'
<1>1. End(r, "reply") /\ UNCHANGED <<queries, config>>
  BY DEF Ends
<1>2. mu' # Nobody => mu' \in Request /\ limited' /\ pc'[mu'] = "handling"
  BY <1>1, EndChanges DEF TypeOK, config
<1>3. /\ pc' \in [Request -> {"idle", "connected", "waiting", "handling", "done"}]
      /\ age' \in [Request -> Nat]
  BY <1>1, EndChanges DEF TypeOK
<1> QED
  BY <1>1, <1>2, <1>3, EndChanges DEF TypeOK, app, config

LEMMA RequestTyped ==
  ASSUME TypeOK, NEW r \in Request, Accept(r) \/ Connection(r) \/ Handler(r)
  PROVE  TypeOK'
<1>1. UNCHANGED app
  BY RequestSteps
<1>2. CASE Open(r)
  BY <1>1, <1>2 DEF Open, TypeOK, app, config
<1>3. CASE Arrive(r)
  BY <1>1, <1>3 DEF Arrive, TypeOK, app, config
<1>4. CASE Hangup(r)
  BY <1>1, <1>4 DEF Hangup, TypeOK, app, config
<1>5. CASE Timeout(r)
  BY <1>1, <1>5, TimeoutChanges DEF TypeOK, app, config
<1>6. CASE Enter(r)
  <2>1. pc' = [pc EXCEPT ![r] = "handling"] /\ mu = Nobody
    BY <1>6 DEF Enter, CanEnter, TypeOK
  <2>2. mu' # Nobody => mu' \in Request /\ limited /\ pc'[mu'] = "handling"
    BY <1>6, <2>1 DEF Enter, TypeOK
  <2> QED
    BY <1>1, <1>6, <2>1, <2>2 DEF Enter, TypeOK, app, config
<1>7. CASE Ends(r)
  BY <1>1, <1>7, EndTyped
<1>8. CASE Asks(r)
  <2>1. queries' \in [Request -> 0 .. Queries]
    BY <1>8, QueriesAssumption DEF Asks, TypeOK
  <2> QED
    BY <1>1, <1>8, <2>1 DEF Asks, TypeOK, app, config
<1> QED
  BY <1>2, <1>3, <1>4, <1>5, <1>6, <1>7, <1>8, RequestSteps

\* The steps of the process that leave the requests alone.
Process == (Main \/ Drain \/ Finish) /\ UNCHANGED pipeline

LEMMA ProcessSteps == Main \/ Drain \/ Finish => Process
  BY DEF Main, Drain, Finish, Process

LEMMA TypedInductive == Spec => []TypeOK
<1>1. Init => TypeOK
  <2> SUFFICES ASSUME Init PROVE TypeOK
    OBVIOUS
  <2>1. node \in BOOLEAN /\ serverErr \in BOOLEAN /\ signalled \in BOOLEAN /\ limited \in BOOLEAN
    BY DEF Init, AppInit, PipelineInit
  <2>2. drainAge \in 0 .. Grace /\ queries \in [Request -> 0 .. Queries] /\ age \in [Request -> Nat]
    BY GraceAssumption, QueriesAssumption DEF Init, AppInit, PipelineInit
  <2> QED
    BY <2>1, <2>2 DEF Init, AppInit, PipelineInit, TypeOK
<1>2. TypeOK /\ [Next]_vars => TypeOK'
  <2> SUFFICES ASSUME TypeOK, [Next]_vars PROVE TypeOK'
    OBVIOUS
  <2>1. ASSUME NEW r \in Request, Accept(r) \/ Connection(r) \/ Handler(r)
        PROVE  TypeOK'
    BY <2>1, RequestTyped
  <2>2. CASE Main
    <3>1. UNCHANGED pipeline /\ (Boot \/ Signal \/ Listen \/ ServeFails)
      BY <2>2 DEF Main
    <3>2. CASE Boot
      <4>1. node' \in BOOLEAN /\ serverErr' \in BOOLEAN /\ signalled' \in BOOLEAN
        BY <3>2 DEF Boot, Die, NewApplication, InitNode, Connect, AutoMigrate, Run, TypeOK
      <4> QED
        BY <3>1, <3>2, <4>1 DEF Boot, Die, NewApplication, InitNode, Connect, AutoMigrate, Run,
                                Goto, TypeOK, pipeline, config
    <3>3. CASE Signal
      BY <3>1, <3>3 DEF Signal, TypeOK, pipeline, config
    <3>4. CASE Listen
      BY <3>1, <3>4 DEF Listen, TypeOK, pipeline, config
    <3>5. CASE ServeFails
      BY <3>1, <3>5 DEF ServeFails, TypeOK, pipeline, config
    <3> QED
      BY <3>1, <3>2, <3>3, <3>4, <3>5
  <2>3. CASE Drain
    BY <2>3 DEF Drain, Drained, Goto, TypeOK, pipeline, config
  <2>4. CASE Finish
    BY <2>4 DEF Finish, Stop, ServerFailed, Shutdown, shutdown, Exit, Goto, TypeOK, pipeline, config
  <2>5. CASE Tick
    <3>1. drainAge' \in 0 .. Grace
      BY <2>5, GraceAssumption DEF Tick, Draining, TypeOK
    <3>2. age' \in [Request -> Nat]
      BY <2>5 DEF Tick, Waiting, TypeOK
    <3> QED
      BY <2>5, <3>1, <3>2 DEF Tick, TypeOK, config
  <2>6. CASE UNCHANGED vars
    BY <2>6 DEF vars, app, pipeline, config, TypeOK
  <2> QED
    BY <2>1, <2>2, <2>3, <2>4, <2>5, <2>6 DEF Next
<1> QED
  BY <1>1, <1>2, PTL DEF Spec

\* Main, the connections and the handlers are where they can be, and whoever
\* holds the limiter's mutex is in its handler (LimitMiddleware), whatever the
\* timeout has answered meanwhile.
THEOREM TypeCorrect == Spec => []TypeOK
  BY TypedInductive

-----------------------------------------------------------------------------
(* The phases of the process.                                              *)

\* What main has done when it is somewhere, and when it listens.
Phases ==
  /\ main \in {"connect", "migrate", "setup", "run"} => node
  /\ main \in {"migrate", "setup", "run"} => db = "open"
  /\ Booting => listener = "down"
  /\ listener = "up" => main = "run"
  /\ serverErr => listener = "failed"
  /\ Booting \/ main = "run" => drainAge = 0
  /\ drained # "no" => main \in {"close", "stopping", "exited"}

LEMMA PhasesInductive == Spec => []Phases
<1>1. Init => Phases
  BY DEF Init, AppInit, Phases, Booting
<1>2. Phases /\ [Next]_vars => Phases'
  <2> SUFFICES ASSUME Phases, [Next]_vars PROVE Phases'
    OBVIOUS
  <2>1. ASSUME NEW r \in Request, Accept(r) \/ Connection(r) \/ Handler(r)
        PROVE  Phases'
    BY <2>1, RequestSteps DEF app, Phases, Booting
  <2>2. CASE Main
    <3>1. CASE Boot
      BY <3>1 DEF Boot, Die, NewApplication, InitNode, Connect, AutoMigrate, Run, Goto, Phases, Booting
    <3>2. CASE Signal \/ Listen \/ ServeFails
      BY <3>2 DEF Signal, Listen, ServeFails, Phases, Booting
    <3> QED
      BY <2>2, <3>1, <3>2 DEF Main
  <2>3. CASE Drain
    BY <2>3 DEF Drain, Drained, Goto, Phases, Booting
  <2>4. CASE Finish
    BY <2>4 DEF Finish, Stop, ServerFailed, Shutdown, shutdown, Exit, Goto, Phases, Booting
  <2>5. CASE Tick
    BY <2>5 DEF Tick, Draining, Phases, Booting
  <2>6. CASE UNCHANGED vars
    BY <2>6 DEF vars, app, Phases, Booting
  <2> QED
    BY <2>1, <2>2, <2>3, <2>4, <2>5, <2>6 DEF Next
<1> QED
  BY <1>1, <1>2, PTL DEF Spec

\* Initialize opens the database and makes the node before Run listens, and
\* Shutdown closes the listeners before the database is closed (app.go), also
\* when the server fails and a signal comes at once.
THEOREM ServesOnlyWhenReady == Spec => []ServesWhenReady
<1>1. Phases => ServesWhenReady
  BY DEF Phases, ServesWhenReady
<1> QED
  BY <1>1, PhasesInductive, PTL

-----------------------------------------------------------------------------
(* What a client and Shutdown see.                                         *)

\* Only a connection makes a request one that Shutdown waits for.
LEMMA OnlyOpenUses ==
  ASSUME TypeOK, NEW r \in Request, NEW q \in Request,
         Arrive(r) \/ Hangup(r) \/ Timeout(r) \/ Enter(r) \/ Ends(r) \/ Asks(r),
         InUse(q)'
  PROVE  InUse(q)
<1>1. CASE Arrive(r) \/ Hangup(r) \/ Enter(r) \/ Asks(r)
  BY <1>1, RequestParts DEF Arrive, Hangup, Enter, Asks, InUse, Unanswered, InChain
<1>2. CASE Timeout(r)
  BY <1>2, TimeoutChanges, RequestParts DEF InUse, Unanswered, InChain
<1>3. CASE Ends(r)
  BY <1>3, EndChanges, RequestParts DEF Ends, InUse, Unanswered, InChain
<1> QED
  BY <1>1, <1>2, <1>3

\* Once Shutdown has returned nil nobody waits, because nobody connects.
THEOREM CleanDrain == Spec => []CleanDrainLeavesNoClient
<1>1. Init => CleanDrainLeavesNoClient
  BY DEF Init, AppInit, CleanDrainLeavesNoClient
<1>2. TypeOK /\ Phases /\ CleanDrainLeavesNoClient /\ [Next]_vars => CleanDrainLeavesNoClient'
  <2> SUFFICES ASSUME TypeOK, Phases, CleanDrainLeavesNoClient, [Next]_vars
               PROVE  CleanDrainLeavesNoClient'
    OBVIOUS
  <2>1. ASSUME NEW r \in Request, Accept(r) \/ Connection(r) \/ Handler(r)
        PROVE  CleanDrainLeavesNoClient'
    <3>1. UNCHANGED app
      BY <2>1, RequestSteps
    <3>2. CASE listener = "up"
      BY <3>1, <3>2 DEF Phases, app, CleanDrainLeavesNoClient
    <3>3. CASE listener # "up"
      <4>1. Arrive(r) \/ Hangup(r) \/ Timeout(r) \/ Enter(r) \/ Ends(r) \/ Asks(r)
        BY <2>1, <3>3, RequestSteps
      <4>2. \A q \in Request : InUse(q)' => InUse(q)
        BY <4>1, OnlyOpenUses
      <4> QED
        BY <3>1, <4>2 DEF app, CleanDrainLeavesNoClient
    <3> QED
      BY <3>2, <3>3
  <2>2. CASE Main
    <3>1. UNCHANGED <<pipeline, drained>>
      BY <2>2 DEF Main, Boot, Die, NewApplication, InitNode, Connect, AutoMigrate, Run, Signal, Listen, ServeFails
    <3> QED
      BY <3>1 DEF pipeline, CleanDrainLeavesNoClient, InUse, Unanswered, InChain
  <2>3. CASE Drain
    BY <2>3 DEF Drain, Drained, Idle, pipeline, CleanDrainLeavesNoClient, InUse, Unanswered, InChain
  <2>4. CASE Finish
    BY <2>4 DEF Finish, Stop, ServerFailed, Shutdown, shutdown, Exit, pipeline,
                CleanDrainLeavesNoClient, InUse, Unanswered, InChain
  <2>5. CASE Tick
    BY <2>5 DEF Tick, CleanDrainLeavesNoClient, InUse, Unanswered, InChain
  <2>6. CASE UNCHANGED vars
    BY <2>6 DEF vars, app, pipeline, CleanDrainLeavesNoClient, InUse, Unanswered, InChain
  <2> QED
    BY <2>1, <2>2, <2>3, <2>4, <2>5, <2>6 DEF Next
<1> QED
  BY <1>1, <1>2, TypedInductive, PhasesInductive, PTL DEF Spec

\* The timeout middleware and a handler that ends behind it write one answer
\* between them (TimeoutMiddleware).
THEOREM AnswersAreFinal == Spec => AnswerIsFinal
<1>1. TypeOK /\ [Next]_vars
        => [\A r \in Request : answer[r] # "none" => answer'[r] = answer[r]]_vars
  <2> SUFFICES ASSUME TypeOK, Next
               PROVE  \A q \in Request : answer[q] # "none" => answer'[q] = answer[q]
    OBVIOUS
  <2>1. ASSUME NEW r \in Request, Accept(r) \/ Connection(r) \/ Handler(r)
        PROVE  \A q \in Request : answer[q] # "none" => answer'[q] = answer[q]
    <3>1. CASE Open(r) \/ Arrive(r) \/ Hangup(r) \/ Enter(r) \/ Asks(r)
      BY <3>1 DEF Open, Arrive, Hangup, Enter, Asks
    <3>2. CASE Timeout(r)
      BY <3>2, TimeoutChanges DEF Unanswered
    <3>3. CASE Ends(r)
      BY <3>3, EndChanges DEF Ends
    <3> QED
      BY <2>1, <3>1, <3>2, <3>3, RequestSteps
  <2>2. CASE Main \/ Drain \/ Finish
    BY <2>2, ProcessSteps DEF Process, pipeline
  <2>3. CASE Tick
    BY <2>3 DEF Tick
  <2> QED
    BY <2>1, <2>2, <2>3 DEF Next
<1> QED
  BY <1>1, TypedInductive, PTL DEF Spec, AnswerIsFinal

-----------------------------------------------------------------------------
(* Time: nobody waits longer than a timer lets it.                         *)

Age(r) ==
  /\ pc[r] = "idle" => age[r] = 0
  /\ pc[r] = "connected" => age[r] <= HeaderTimeout
  /\ Unanswered(r) => age[r] <= requestTimeout \/ age[r] = 0

Ages == \A r \in Request : Age(r)

\* A step of a request keeps its age, or it is over or has just arrived; it
\* leaves the other requests alone.
LEMMA AgesOfSteps ==
  ASSUME TypeOK, Ages, NEW r \in Request, NEW q \in Request,
         Accept(r) \/ Connection(r) \/ Handler(r)
  PROVE  Age(q)' /\ requestTimeout' = requestTimeout
<1> USE RequestParts DEF Ages, Age, Unanswered, InChain
<1>1. CASE Open(r)
  BY <1>1, ServerAssumption DEF Open, config
<1>2. CASE Arrive(r)
  BY <1>2 DEF Arrive, config
<1>3. CASE Hangup(r) \/ Enter(r)
  BY <1>3 DEF Hangup, Enter, config
<1>4. CASE Timeout(r)
  BY <1>4, TimeoutChanges DEF config
<1>5. CASE Ends(r)
  BY <1>5, EndChanges DEF Ends, config
<1>6. CASE Asks(r)
  BY <1>6 DEF Asks, config
<1> QED
  BY <1>1, <1>2, <1>3, <1>4, <1>5, <1>6, RequestSteps

\* Time passes only for those whose timer has not run out.
LEMMA AgesOfTime ==
  ASSUME TypeOK, Ages, Tick, NEW q \in Request
  PROVE  Age(q)' /\ requestTimeout' = requestTimeout
<1>1. age'[q] = IF InUse(q) THEN age[q] + 1 ELSE age[q]
  BY DEF Tick, Waiting
<1>2. ~Due(q) /\ UNCHANGED <<pc, answer, config>>
  BY DEF Tick
<1> QED
  BY <1>1, <1>2, RequestParts
     DEF Ages, Age, Due, TimedOut, InUse, Unanswered, InChain, config

LEMMA AgesInductive == Spec => []Ages
<1>1. Init => Ages
  BY DEF Init, PipelineInit, Ages, Age, Unanswered, InChain
<1>2. TypeOK /\ Ages /\ [Next]_vars => Ages'
  <2> SUFFICES ASSUME TypeOK, Ages, [Next]_vars, NEW q \in Request PROVE Age(q)'
    BY DEF Ages
  <2>1. ASSUME NEW r \in Request, Accept(r) \/ Connection(r) \/ Handler(r) PROVE Age(q)'
    BY <2>1, AgesOfSteps
  <2>2. CASE Main \/ Drain \/ Finish \/ UNCHANGED vars
    <3>1. UNCHANGED pipeline
      BY <2>2, ProcessSteps DEF Process, vars
    <3> QED
      BY <3>1 DEF pipeline, config, Ages, Age, Unanswered, InChain
  <2>3. CASE Tick
    BY <2>3, AgesOfTime
  <2> QED
    BY <2>1, <2>2, <2>3 DEF Next
<1> QED
  BY <1>1, <1>2, TypedInductive, PTL DEF Spec

\* The deadline for writing (app.go's WriteTimeout) is behind that of the
\* middleware if the timeout is shorter: the 408, and every reply before it,
\* is written in time.
THEOREM AnswersArrive == Spec => []AnswersReachClients
<1>1. Init => AnswersReachClients
  BY DEF Init, PipelineInit, AnswersReachClients
<1>2. TypeOK /\ Ages /\ AnswersReachClients /\ [Next]_vars => AnswersReachClients'
  <2> SUFFICES ASSUME TypeOK, Ages, AnswersReachClients, [Next]_vars, NEW q \in Request,
                      requestTimeout' < WriteTimeout
               PROVE  answer'[q] # "lost"
    BY DEF AnswersReachClients
  <2>1. ASSUME NEW r \in Request, Accept(r) \/ Connection(r) \/ Handler(r)
        PROVE  answer'[q] # "lost"
    <3>1. requestTimeout < WriteTimeout
      BY <2>1, AgesOfSteps
    <3>2. \A p \in Request : answer[p] # "lost" /\ (Unanswered(p) => age[p] < WriteTimeout)
      BY <3>1, RequestParts DEF AnswersReachClients, Ages, Age
    <3>3. CASE Open(r) \/ Arrive(r) \/ Hangup(r) \/ Enter(r) \/ Asks(r)
      BY <3>2, <3>3 DEF Open, Arrive, Hangup, Enter, Asks
    <3>4. CASE Timeout(r)
      BY <3>2, <3>4, TimeoutChanges, RequestParts
    <3>5. CASE Ends(r)
      BY <3>2, <3>5, EndChanges, RequestParts DEF Ends, Unanswered
    <3> QED
      BY <2>1, <3>3, <3>4, <3>5, RequestSteps
  <2>2. CASE Main \/ Drain \/ Finish \/ UNCHANGED vars
    <3>1. UNCHANGED pipeline
      BY <2>2, ProcessSteps DEF Process, vars
    <3> QED
      BY <3>1 DEF pipeline, config, AnswersReachClients
  <2>3. CASE Tick
    BY <2>3, AgesOfTime DEF Tick, AnswersReachClients
  <2> QED
    BY <2>1, <2>2, <2>3 DEF Next
<1> QED
  BY <1>1, <1>2, TypedInductive, AgesInductive, PTL DEF Spec

\* While main drains, whoever is in use has waited since the drain began, but
\* for the time its request took to come; and so the drain is no older than
\* the timers of those it waits for.
Deadline ==
  main = "drain" =>
    /\ \A r \in Request : /\ pc[r] = "connected" => drainAge <= age[r]
                          /\ Unanswered(r) => drainAge <= age[r] + HeaderTimeout
    /\ drainAge <= HeaderTimeout \/ drainAge <= HeaderTimeout + requestTimeout

LEMMA DeadlineOfSteps ==
  ASSUME TypeOK, Phases, Ages, Deadline, NEW r \in Request,
         Accept(r) \/ Connection(r) \/ Handler(r)
  PROVE  Deadline'
<1>1. UNCHANGED app
  BY RequestSteps
<1>2. SUFFICES ASSUME main = "drain", NEW q \in Request
               PROVE  /\ pc'[q] = "connected" => drainAge <= age'[q]
                      /\ Unanswered(q)' => drainAge <= age'[q] + HeaderTimeout
  BY <1>1, AgesOfSteps DEF Deadline, app
<1>3. drainAge \in Int
  BY GraceAssumption DEF TypeOK
<1> USE <1>2, <1>3, RequestParts DEF Deadline, Ages, Age, Unanswered, InChain
<1>4. CASE Arrive(r)
  BY <1>4 DEF Arrive
<1>5. CASE Hangup(r) \/ Enter(r) \/ Asks(r)
  BY <1>5 DEF Hangup, Enter, Asks
<1>6. CASE Timeout(r)
  BY <1>6, TimeoutChanges
<1>7. CASE Ends(r)
  BY <1>7, EndChanges DEF Ends
<1>8. listener # "up"
  BY DEF Phases
<1> QED
  BY <1>4, <1>5, <1>6, <1>7, <1>8, RequestSteps

LEMMA DeadlineOfTime ==
  ASSUME TypeOK, Ages, Deadline, Tick
  PROVE  Deadline'
<1>1. SUFFICES ASSUME main = "drain"
               PROVE  Deadline'
  BY DEF Deadline, Tick
<1>2. drainAge' = drainAge + 1 /\ drainAge \in Int /\ UNCHANGED <<main, pc, answer, config>>
  BY <1>1, GraceAssumption DEF Tick, Draining, TypeOK
<1>3. ASSUME NEW q \in Request
      PROVE  /\ pc[q] = "connected" => drainAge + 1 <= age'[q]
             /\ Unanswered(q) => drainAge + 1 <= age'[q] + HeaderTimeout
  <2>1. age'[q] = IF InUse(q) THEN age[q] + 1 ELSE age[q]
    BY DEF Tick, Waiting
  <2> QED
    BY <1>1, <1>2, <2>1, RequestParts DEF Deadline, InUse
<1>4. PICK p \in Request : InUse(p) /\ ~Due(p)
  BY DEF Tick, Idle
<1>5. drainAge + 1 <= HeaderTimeout \/ drainAge + 1 <= HeaderTimeout + requestTimeout
  BY <1>1, <1>2, <1>4, RequestParts DEF Deadline, InUse, Due, TimedOut
<1> QED
  BY <1>2, <1>3, <1>5 DEF Deadline, Unanswered, InChain, config

\* The bound of Deadline meets Shutdown's deadline (shutdownGracePeriod).
THEOREM DrainsInTime == Spec => []DrainInTime
<1>1. Init => Deadline /\ DrainInTime
  BY DEF Init, AppInit, Deadline, DrainInTime
<1>2. TypeOK /\ Phases /\ Ages /\ Deadline /\ DrainInTime /\ [Next]_vars
        => Deadline' /\ DrainInTime'
  <2> SUFFICES ASSUME TypeOK, Phases, Ages, Deadline, DrainInTime, [Next]_vars
               PROVE  Deadline' /\ DrainInTime'
    OBVIOUS
  <2>1. ASSUME NEW r \in Request, Accept(r) \/ Connection(r) \/ Handler(r)
        PROVE  Deadline' /\ DrainInTime'
    BY <2>1, DeadlineOfSteps, AgesOfSteps, RequestSteps DEF app, DrainInTime
  <2>2. CASE Main \/ Drain \/ Finish \/ UNCHANGED vars
    <3>1. UNCHANGED pipeline
      BY <2>2, ProcessSteps DEF Process, vars
    <3>2. drained' = drained \/ Drain
      BY <2>2 DEF Main, Boot, Die, NewApplication, InitNode, Connect, AutoMigrate, Run, Signal,
                  Listen, ServeFails, Finish, Stop, ServerFailed, Shutdown, shutdown, Exit, vars, app
    <3>3. main' = "drain" => drainAge' = drainAge /\ (main = "drain" \/ drainAge = 0)
      BY <2>2 DEF Main, Boot, Die, NewApplication, InitNode, Connect, AutoMigrate, Run, Signal,
                  Listen, ServeFails, Drain, Drained, Finish, Stop, ServerFailed, Shutdown,
                  shutdown, Exit, Goto, vars, app, Phases
    <3>4. Deadline'
      BY <3>1, <3>3, RequestParts DEF Deadline, pipeline, config, Unanswered, InChain
    <3>5. CASE Drain
      <4>1. drainAge \in Int /\ Grace \in Int /\ UNCHANGED requestTimeout
        BY <3>1, GraceAssumption DEF TypeOK, pipeline, config
      <4>2. /\ drainAge <= HeaderTimeout \/ drainAge <= HeaderTimeout + requestTimeout
            /\ drained' = "clean" \/ (drained' = "cut" /\ drainAge >= Grace)
        BY <3>5 DEF Drain, Drained, Deadline
      <4>3. DrainInTime'
        BY <4>1, <4>2, RequestParts DEF DrainInTime
      <4> QED
        BY <3>4, <4>3
    <3> QED
      BY <3>1, <3>2, <3>4, <3>5 DEF DrainInTime, pipeline, config
  <2>3. CASE Tick
    BY <2>3, DeadlineOfTime DEF Tick, DrainInTime, config
  <2> QED
    BY <2>1, <2>2, <2>3 DEF Next
<1> QED
  BY <1>1, <1>2, TypedInductive, PhasesInductive, AgesInductive, PTL DEF Spec

-----------------------------------------------------------------------------
(* The mutex of the limiter.                                               *)

\* A handler behind the limiter holds its mutex until it ends.
MutexHeld == limited => \A r \in Request : pc[r] = "handling" => mu = r

LEMMA MutexHeldInductive == Spec => []MutexHeld
<1>1. Init => MutexHeld
  BY DEF Init, PipelineInit, MutexHeld
<1>2. TypeOK /\ MutexHeld /\ [Next]_vars => MutexHeld'
  <2> SUFFICES ASSUME TypeOK, MutexHeld, [Next]_vars
               PROVE  MutexHeld'
    OBVIOUS
  <2>1. ASSUME NEW r \in Request, Accept(r) \/ Connection(r) \/ Handler(r)
        PROVE  MutexHeld'
    <3>1. CASE Open(r) \/ Arrive(r) \/ Hangup(r) \/ Asks(r)
      BY <3>1, RequestParts DEF Open, Arrive, Hangup, Asks, MutexHeld, config
    <3>2. CASE Enter(r)
      BY <3>2, RequestParts, RequestAssumption DEF Enter, CanEnter, MutexHeld, config
    <3>3. CASE Timeout(r)
      BY <3>3, TimeoutChanges DEF MutexHeld, config
    <3>4. CASE Ends(r)
      BY <3>4, EndChanges, RequestParts DEF Ends, MutexHeld, config
    <3> QED
      BY <2>1, <3>1, <3>2, <3>3, <3>4, RequestSteps
  <2>2. CASE Main \/ Drain \/ Finish \/ UNCHANGED vars
    <3>1. UNCHANGED pipeline
      BY <2>2, ProcessSteps DEF Process, vars
    <3> QED
      BY <3>1 DEF pipeline, config, MutexHeld
  <2>3. CASE Tick
    BY <2>3 DEF Tick, MutexHeld, config
  <2> QED
    BY <2>1, <2>2, <2>3 DEF Next
<1> QED
  BY <1>1, <1>2, TypedInductive, PTL DEF Spec

\* Handlers are serialised by the limiter, whatever the timeout has answered
\* for them: what AuthSessions assumes when its handlers are serialized.
THEOREM HandlersAreSerialized == Spec => []HandlersDoNotOverlap
<1>1. MutexHeld => HandlersDoNotOverlap
  BY DEF MutexHeld, HandlersDoNotOverlap
<1> QED
  BY <1>1, MutexHeldInductive, PTL

-----------------------------------------------------------------------------
(* The refinement: seen by its clients the process is a GracefulServer.    *)

Clients == [r \in Request |-> Sees(r)]
Handlers == [r \in Request |-> Progress(r)]

\* How main comes to its end: it has drained or has the error of the server,
\* and listens no more; before that it has told nothing.
Leaving ==
  /\ main \in {"config", "node", "connect", "migrate", "setup", "run", "drain"}
       => drained = "no" /\ result = "none"
  /\ main \in {"drain", "close", "stopping"} => listener \in {"failed", "shut"}
  /\ main \in {"close", "stopping"} => drained # "no" \/ result = "error"

LEMMA LeavingInductive == Spec => []Leaving
<1>1. Init => Leaving
  BY DEF Init, AppInit, Leaving
<1>2. TypeOK /\ Phases /\ Leaving /\ [Next]_vars => Leaving'
  <2> SUFFICES ASSUME TypeOK, Phases, Leaving, [Next]_vars
               PROVE  Leaving'
    OBVIOUS
  <2>1. ASSUME NEW r \in Request, Accept(r) \/ Connection(r) \/ Handler(r)
        PROVE  Leaving'
    BY <2>1, RequestSteps DEF app, Leaving
  <2>2. CASE Main
    BY <2>2 DEF Main, Boot, Die, NewApplication, InitNode, Connect, AutoMigrate, Run, Signal,
                Listen, ServeFails, Goto, Leaving
  <2>3. CASE Drain
    BY <2>3 DEF Drain, Drained, Goto, Leaving
  <2>4. CASE Finish
    <3>1. CASE ServerFailed
      BY <3>1 DEF ServerFailed, Goto, Phases, Leaving
    <3>2. CASE Shutdown
      BY <3>2 DEF Shutdown, Goto, Leaving
    <3>3. CASE shutdown \/ Exit
      BY <3>3 DEF shutdown, Exit, Goto, Leaving
    <3> QED
      BY <2>4, <3>1, <3>2, <3>3 DEF Finish, Stop
  <2>5. CASE Tick \/ UNCHANGED vars
    BY <2>5 DEF Tick, vars, app, Leaving
  <2> QED
    BY <2>1, <2>2, <2>3, <2>4, <2>5 DEF Next
<1> QED
  BY <1>1, <1>2, TypedInductive, PhasesInductive, PTL DEF Spec

\* Who has not asked has no answer.
Unasked == \A r \in Request : pc[r] \in {"idle", "connected"} => answer[r] = "none"

LEMMA UnaskedInductive == Spec => []Unasked
<1>1. Init => Unasked
  BY DEF Init, PipelineInit, Unasked
<1>2. TypeOK /\ Unasked /\ [Next]_vars => Unasked'
  <2> SUFFICES ASSUME TypeOK, Unasked, [Next]_vars
               PROVE  Unasked'
    OBVIOUS
  <2>1. ASSUME NEW r \in Request, Accept(r) \/ Connection(r) \/ Handler(r)
        PROVE  Unasked'
    <3>1. CASE Open(r) \/ Arrive(r) \/ Hangup(r) \/ Enter(r) \/ Asks(r)
      BY <3>1, RequestParts DEF Open, Arrive, Hangup, Enter, Asks, Unasked
    <3>2. CASE Timeout(r)
      BY <3>2, TimeoutChanges DEF Unanswered, InChain, Unasked
    <3>3. CASE Ends(r)
      BY <3>3, EndChanges, RequestParts DEF Ends, InChain, Unasked
    <3> QED
      BY <2>1, <3>1, <3>2, <3>3, RequestSteps
  <2>2. CASE Main \/ Drain \/ Finish \/ UNCHANGED vars
    <3>1. UNCHANGED pipeline
      BY <2>2, ProcessSteps DEF Process, vars
    <3> QED
      BY <3>1 DEF pipeline, Unasked
  <2>3. CASE Tick
    BY <2>3 DEF Tick, Unasked
  <2> QED
    BY <2>1, <2>2, <2>3 DEF Next
<1> QED
  BY <1>1, <1>2, TypedInductive, PTL DEF Spec

Graceful ==
  /\ TypeOK /\ Phases /\ Leaving /\ MutexHeld /\ Unasked
  /\ AnswersReachClients /\ DrainInTime

\* Where a request is and what its client has got tell all that is promised.
LEMMA SeenAlike ==
  ASSUME TypeOK, NEW q \in Request, pc'[q] = pc[q], answer'[q] = answer[q]
  PROVE  Sees(q)' = Sees(q) /\ Progress(q)' = Progress(q)
  BY DEF Sees, Progress, Unanswered, InChain

LEMMA Unseen ==
  ASSUME TypeOK, UNCHANGED <<pc, answer, config>>
  PROVE  UNCHANGED <<Clients, Handlers, Promise!settings>>
<1>1. \A q \in Request : Sees(q)' = Sees(q) /\ Progress(q)' = Progress(q)
  BY SeenAlike
<1>2. UNCHANGED <<Clients, Handlers>>
  BY <1>1 DEF Clients, Handlers
<1> QED
  BY <1>2 DEF config, Promise!settings

\* A step of one request is a step of its client, of its handler, or of both.
LEMMA SeenOfOne ==
  ASSUME TypeOK, NEW r \in Request,
         \A q \in Request : q # r => pc'[q] = pc[q] /\ answer'[q] = answer[q]
  PROVE  /\ Clients' = [Clients EXCEPT ![r] = Sees(r)']
         /\ Handlers' = [Handlers EXCEPT ![r] = Progress(r)']
<1>1. \A q \in Request : q # r => Sees(q)' = Sees(q) /\ Progress(q)' = Progress(q)
  BY SeenAlike
<1> QED
  BY <1>1 DEF Clients, Handlers

LEMMA ProcessSeen ==
  ASSUME UNCHANGED app
  PROVE  Standing' = Standing /\ Verdict' = Verdict
  BY DEF app, Standing, Verdict, Alive

\* To its clients the process has stopped when main has returned.
LEMMA AliveStands ==
  ASSUME TypeOK
  PROVE  Alive <=> Standing # "stopped"
  BY DEF TypeOK, Standing, Alive

LEMMA EndAnswered ==
  ASSUME Graceful, NEW r \in Request, Ends(r), AnswersReachClients'
  PROVE  /\ pc' = [pc EXCEPT ![r] = "done"]
         /\ \A q \in Request : q # r => answer'[q] = answer[q]
         /\ answer[r] # "none" => answer' = answer
         /\ answer[r] = "none" => /\ answer'[r] \in {"reply", "lost"}
                                  /\ requestTimeout < WriteTimeout => answer'[r] = "reply"
<1>1. CASE answer[r] # "none"
  BY <1>1, RequestParts DEF Graceful, Ends, End
<1>2. CASE answer[r] = "none"
  <2>1. PICK w \in Written(r, "reply") : answer' = [answer EXCEPT ![r] = w]
    BY <1>2 DEF Ends, End
  <2>2. w \in {"reply", "lost"}
    BY DEF Written
  <2>3. requestTimeout' = requestTimeout
    BY DEF Ends, config
  <2>4. answer'[r] = w /\ \A q \in Request : q # r => answer'[q] = answer[q]
    BY <2>1, RequestParts DEF Graceful
  <2>5. requestTimeout < WriteTimeout => w # "lost"
    BY <2>3, <2>4 DEF AnswersReachClients
  <2> QED
    BY <1>2, <2>2, <2>4, <2>5 DEF Ends, End
<1> QED
  BY <1>1, <1>2

LEMMA TimeoutAnswered ==
  ASSUME Graceful, NEW r \in Request, Timeout(r), AnswersReachClients'
  PROVE  /\ Unanswered(r)
         /\ UNCHANGED <<pc, config>>
         /\ \A q \in Request : q # r => answer'[q] = answer[q]
         /\ answer'[r] \in {"408", "lost"}
         /\ requestTimeout < WriteTimeout => answer'[r] = "408"
<1>1. PICK w \in Written(r, "408") : answer' = [answer EXCEPT ![r] = w]
  BY DEF Timeout
<1>2. w \in {"408", "lost"}
  BY DEF Written
<1>3. requestTimeout' = requestTimeout
  BY DEF Timeout, config
<1>4. answer'[r] = w /\ \A q \in Request : q # r => answer'[q] = answer[q]
  BY <1>1, RequestParts DEF Graceful
<1>5. requestTimeout < WriteTimeout => w # "lost"
  BY <1>3, <1>4 DEF AnswersReachClients
<1> QED
  BY <1>2, <1>4, <1>5 DEF Timeout, TimedOut

\* Accept, the first bytes, the limiter, the handler, the timers.
LEMMA RequestKeepsPromise ==
  ASSUME Graceful, Graceful', Alive, NEW r \in Request,
         Accept(r) \/ Connection(r) \/ Handler(r)
  PROVE  Promise!Next \/ UNCHANGED Promise!vars
<1>1. /\ Standing' = Standing /\ Verdict' = Verdict /\ Standing # "stopped"
      /\ TypeOK /\ Unasked
  BY RequestSteps, ProcessSeen, AliveStands DEF Graceful
<1>2. Clients[r] = Sees(r) /\ Handlers[r] = Progress(r)
  BY DEF Clients, Handlers
<1>3. UNCHANGED config => UNCHANGED Promise!settings
  BY DEF config, Promise!settings
<1>4. CASE listener = "up" /\ Open(r)
  <2>1. Sees(r) = "absent" /\ Sees(r)' = "connected" /\ Progress(r)' = Progress(r)
    BY <1>1, <1>4, RequestParts DEF Open, Sees, Progress, Unanswered, InChain
  <2>2. Standing = "serving"
    BY <1>1, <1>4 DEF Standing, Alive
  <2>3. Clients' = [Clients EXCEPT ![r] = "connected"] /\ Handlers' = Handlers
    BY <1>1, <1>2, <1>4, <2>1, SeenOfOne, RequestParts DEF Open, Handlers
  <2>4. Promise!Connect(r)
    BY <1>1, <1>2, <1>3, <1>4, <2>1, <2>2, <2>3
    DEF Promise!Connect, Promise!Client, Clients, Handlers, Open
  <2> QED
    BY <1>1, <2>4 DEF Promise!Next
<1>5. CASE Arrive(r)
  <2>1. Sees(r) = "connected" /\ Sees(r)' = "waiting" /\ Progress(r)' = Progress(r)
    BY <1>1, <1>5, RequestParts DEF Arrive, Sees, Progress, Unanswered, InChain, Unasked
  <2>2. Clients' = [Clients EXCEPT ![r] = "waiting"] /\ Handlers' = Handlers
    BY <1>1, <1>2, <1>5, <2>1, SeenOfOne, RequestParts DEF Arrive, Handlers
  <2>3. Promise!Ask(r)
    BY <1>1, <1>2, <1>3, <1>5, <2>1, <2>2
    DEF Promise!Ask, Promise!Client, Clients, Handlers, Arrive
  <2> QED
    BY <1>1, <2>3 DEF Promise!Next
<1>6. CASE Hangup(r)
  <2>1. Sees(r) = "connected" /\ Sees(r)' = "none" /\ Progress(r)' = "over"
    BY <1>1, <1>6, RequestParts DEF Hangup, Sees, Progress, Unanswered, InChain, Unasked
  <2>2. /\ Clients' = [Clients EXCEPT ![r] = "none"]
        /\ Handlers' = [Handlers EXCEPT ![r] = "over"]
    BY <1>1, <1>6, <2>1, SeenOfOne, RequestParts DEF Hangup
  <2>3. Promise!HangUp(r)
    BY <1>1, <1>2, <1>3, <1>6, <2>1, <2>2
    DEF Promise!HangUp, Promise!Client, Clients, Handlers, Hangup
  <2> QED
    BY <1>1, <2>3 DEF Promise!Next
<1>7. CASE Enter(r)
  <2>1. /\ Sees(r)' = Sees(r) /\ Sees(r) \notin {"absent", "connected"}
        /\ Progress(r) = "ahead" /\ Progress(r)' = "running"
    BY <1>1, <1>7, RequestParts DEF Enter, Sees, Progress, Unanswered, InChain
  <2>2. Clients' = Clients /\ Handlers' = [Handlers EXCEPT ![r] = "running"]
    BY <1>1, <1>2, <1>7, <2>1, SeenOfOne, RequestParts DEF Enter, Clients
  <2>3. limited => \A q \in Request : Handlers[q] # "running"
    <3>1. limited => \A q \in Request : pc[q] # "handling"
      BY <1>7, RequestAssumption DEF Enter, CanEnter, Graceful, MutexHeld
    <3> QED
      BY <1>1, <3>1, RequestParts DEF Handlers, Progress
  <2>4. Promise!Begin(r)
    BY <1>1, <1>2, <1>3, <1>7, <2>1, <2>2, <2>3
    DEF Promise!Begin, Clients, Handlers, Enter
  <2> QED
    BY <1>1, <2>4 DEF Promise!Next
<1>8. CASE Timeout(r)
  <2>1. /\ Unanswered(r) /\ UNCHANGED <<pc, config>>
        /\ \A q \in Request : q # r => answer'[q] = answer[q]
        /\ answer'[r] \in {"408", "lost"}
        /\ requestTimeout < WriteTimeout => answer'[r] = "408"
    BY <1>8, TimeoutAnswered DEF Graceful
  <2>2. Sees(r) = "waiting" /\ Sees(r)' = answer'[r] /\ Progress(r)' = Progress(r)
    BY <1>1, <2>1, RequestParts DEF Sees, Progress, Unanswered, InChain
  <2>3. Clients' = [Clients EXCEPT ![r] = answer'[r]] /\ Handlers' = Handlers
    BY <1>1, <1>2, <2>1, <2>2, SeenOfOne DEF Handlers
  <2>4. Promise!Answer(r, "408")
    BY <1>2, <2>1, <2>2, <2>3 DEF Promise!Answer, Promise!Client, Clients
  <2>5. Promise!GiveUp(r)
    BY <1>1, <1>3, <2>1, <2>3, <2>4 DEF Promise!GiveUp, Handlers
  <2> QED
    BY <1>1, <2>5 DEF Promise!Next
<1>9. CASE Ends(r)
  <2>1. /\ pc' = [pc EXCEPT ![r] = "done"] /\ UNCHANGED config /\ InChain(r)
        /\ \A q \in Request : q # r => answer'[q] = answer[q]
        /\ answer[r] # "none" => answer' = answer
        /\ answer[r] = "none" => /\ answer'[r] \in {"reply", "lost"}
                                 /\ requestTimeout < WriteTimeout => answer'[r] = "reply"
    BY <1>9, EndAnswered DEF Graceful, Ends
  <2>2. Progress(r) # "over" /\ Progress(r)' = "over" /\ Sees(r)' = answer'[r]
    BY <1>1, <2>1, RequestParts DEF Sees, Progress, Unanswered, InChain
  <2>3. /\ Clients' = [Clients EXCEPT ![r] = answer'[r]]
        /\ Handlers' = [Handlers EXCEPT ![r] = "over"]
    BY <1>1, <2>1, <2>2, SeenOfOne, RequestParts
  <2>4. CASE answer[r] = "none"
    <3>1. Sees(r) = "waiting"
      BY <1>1, <2>1, <2>4, RequestParts DEF Sees, Unanswered, InChain
    <3>2. Promise!Answer(r, "reply")
      BY <1>2, <2>1, <2>3, <2>4, <3>1 DEF Promise!Answer, Promise!Client, Clients
    <3> QED
      BY <1>1, <1>2, <1>3, <2>1, <2>2, <2>3, <3>1, <3>2
      DEF Promise!End, Promise!Next, Clients, Handlers
  <2>5. CASE answer[r] # "none"
    <3>1. Sees(r) = answer[r] /\ Sees(r) \notin {"absent", "connected", "waiting"}
      BY <1>1, <2>1, <2>5, RequestParts DEF Sees, Unanswered, InChain
    <3>2. Clients' = Clients
      BY <1>2, <2>1, <2>3, <2>5, <3>1 DEF Clients
    <3> QED
      BY <1>1, <1>2, <1>3, <2>1, <2>2, <2>3, <3>1, <3>2
      DEF Promise!End, Promise!Next, Clients, Handlers
  <2> QED
    BY <2>4, <2>5
<1>10. CASE Asks(r)
  <2>1. UNCHANGED <<pc, answer, config>>
    BY <1>10 DEF Asks
  <2> QED
    BY <1>1, <2>1, Unseen DEF Promise!vars, Clients, Handlers
<1> QED
  BY <1>4, <1>5, <1>6, <1>7, <1>8, <1>9, <1>10, RequestSteps

\* Start-up, the serving goroutine and the signal.
LEMMA MainKeepsPromise ==
  ASSUME Graceful, Graceful', Alive, Main
  PROVE  Promise!Next \/ UNCHANGED Promise!vars
<1>1. UNCHANGED pipeline /\ UNCHANGED <<Clients, Handlers, Promise!settings>>
  BY Unseen DEF Main, Graceful, pipeline
<1>2. Verdict' = Verdict
  BY DEF Main, Boot, Die, NewApplication, InitNode, Connect, AutoMigrate, Run, Signal, Listen,
         ServeFails, Verdict
<1>3. CASE Die
  <2>1. Standing = "starting" /\ Standing' = "stopped"
    BY <1>3 DEF Die, Goto, Standing, Alive, Graceful, Phases
  <2> QED
    BY <1>1, <1>2, <2>1
    DEF Promise!Next, Promise!Stop, Promise!Phase, Clients, Handlers
<1>4. CASE NewApplication \/ InitNode \/ Connect \/ AutoMigrate \/ Run \/ Signal
  <2>1. Standing' = Standing
    BY <1>4 DEF NewApplication, InitNode, Connect, AutoMigrate, Run, Signal, Goto, Standing, Alive
  <2> QED
    BY <1>1, <1>2, <2>1 DEF Promise!vars, Clients, Handlers
<1>5. CASE Listen
  <2>1. Standing = "starting" /\ Standing' = "serving"
    BY <1>5 DEF Listen, Standing, Alive
  <2> QED
    BY <1>1, <1>2, <2>1 DEF Promise!Next, Promise!Phase, Clients, Handlers
<1>6. CASE ServeFails
  <2>1. Standing \in {"starting", "serving"} /\ Standing' = "closed"
    BY <1>6 DEF ServeFails, Standing, Alive
  <2> QED
    BY <1>1, <1>2, <2>1 DEF Promise!Next, Promise!Phase, Clients, Handlers
<1> QED
  BY <1>3, <1>4, <1>5, <1>6 DEF Main, Boot

\* Shutdown returns, cleanly or cut short.
LEMMA DrainKeepsPromise ==
  ASSUME Graceful, Graceful', Alive, Drain
  PROVE  Promise!Next
<1>1. UNCHANGED pipeline /\ UNCHANGED <<Clients, Handlers, Promise!settings>>
  BY Unseen DEF Drain, Graceful, pipeline
<1>2. main = "drain" /\ main' = "close" /\ listener \in {"failed", "shut"} /\ listener' = listener
  BY DEF Drain, Drained, Goto, Graceful, Leaving
<1>3. Standing = "closed" /\ Standing' = Standing
  BY <1>2 DEF Standing, Alive
<1>4. Verdict = "none" /\ Verdict' = drained' /\ drained' \in {"clean", "cut"}
  BY <1>2 DEF Drain, Drained, Verdict, Graceful, Leaving
<1>5. drained' = "clean" => \A r \in Request : Clients[r] \notin Promise!Expectant
  <2>1. drained' = "clean" => \A r \in Request : ~InUse(r)
    BY DEF Drain, Drained, Idle
  <2>2. ASSUME NEW r \in Request, ~InUse(r)
        PROVE  Sees(r) \notin {"connected", "waiting"}
    BY <2>2, RequestParts DEF Sees, InUse, Unanswered, InChain, Graceful
  <2> QED
    BY <2>1, <2>2 DEF Clients, Promise!Expectant
<1>6. drained' = "cut" => ~(HeaderTimeout < Grace /\ requestTimeout + HeaderTimeout < Grace)
  BY <1>1 DEF Graceful, DrainInTime, pipeline, config
<1>7. Promise!TakeLeave(drained')
  BY <1>1, <1>3, <1>4, <1>5, <1>6 DEF Promise!TakeLeave, Clients, Handlers
<1> QED
  BY <1>4, <1>7 DEF Promise!Next

\* The select, app.shutdown() and the return from main.
LEMMA FinishKeepsPromise ==
  ASSUME Graceful, Graceful', Alive, Finish
  PROVE  Promise!Next \/ UNCHANGED Promise!vars
<1>1. UNCHANGED pipeline /\ UNCHANGED <<Clients, Handlers, Promise!settings>>
  BY Unseen DEF Finish, Graceful, pipeline
<1>2. CASE ServerFailed
  <2>1. Standing = "closed" /\ Standing' = Standing
    BY <1>2 DEF ServerFailed, Goto, Standing, Alive, Graceful, Phases
  <2>2. Verdict = "none" /\ Verdict' = "failed"
    BY <1>2 DEF ServerFailed, Verdict, Graceful, Leaving
  <2> QED
    BY <1>1, <2>1, <2>2 DEF Promise!Next, Promise!TakeLeave, Clients, Handlers
<1>3. CASE Shutdown
  <2>1. Standing' = "closed" /\ Standing \in {"starting", "serving", "closed"}
    BY <1>3 DEF Shutdown, Goto, Standing, Alive, Graceful, TypeOK
  <2>2. Verdict' = Verdict
    BY <1>3 DEF Shutdown, Verdict
  <2> QED
    BY <1>1, <2>1, <2>2 DEF Promise!Next, Promise!Phase, Promise!vars, Clients, Handlers
<1>4. CASE shutdown
  <2>1. Standing' = Standing /\ Verdict' = Verdict
    BY <1>4 DEF shutdown, Goto, Standing, Alive, Verdict
  <2> QED
    BY <1>1, <2>1 DEF Promise!vars, Clients, Handlers
<1>5. CASE Exit
  <2>1. Standing = "closed" /\ Standing' = "stopped"
    BY <1>5 DEF Exit, Goto, Standing, Alive, Graceful, Leaving
  <2>2. Verdict # "none" /\ Verdict' = Verdict
    BY <1>5 DEF Exit, Verdict, Graceful, Leaving, TypeOK
  <2> QED
    BY <1>1, <2>1, <2>2 DEF Promise!Next, Promise!Stop, Promise!Phase, Clients, Handlers
<1> QED
  BY <1>2, <1>3, <1>4, <1>5 DEF Finish, Stop

LEMMA Truths ==
  ASSUME NEW x \in BOOLEAN, NEW y \in BOOLEAN, NEW z \in BOOLEAN
  PROVE  <<x, y, z>> \in BOOLEAN \X BOOLEAN \X BOOLEAN
  OBVIOUS

\* The process of app.go and the requests in it keep the promise of a graceful
\* server, for any requests, timeouts and grace period (app.go: Run;
\* timeout_middleware.go, limit_middleware.go).
THEOREM ServerIsGraceful == Spec => ImplementsGracefulServer
<1>1. Init => Promise!Init
  <2> SUFFICES ASSUME Init PROVE Promise!Init
    OBVIOUS
  <2>1. Standing = "starting" /\ Verdict = "none"
    BY DEF Init, AppInit, Standing, Alive, Verdict
  <2>2. \A r \in Request : Sees(r) = "absent" /\ Progress(r) = "ahead"
    BY DEF Init, PipelineInit, Sees, Progress, Unanswered, InChain
  <2>3. Promise!settings \in BOOLEAN \X BOOLEAN \X BOOLEAN
    <3>1. limited \in BOOLEAN
      BY DEF Init, PipelineInit
    <3>2. (requestTimeout < WriteTimeout) \in BOOLEAN
      OBVIOUS
    <3>3. (HeaderTimeout < Grace /\ requestTimeout + HeaderTimeout < Grace) \in BOOLEAN
      OBVIOUS
    <3> QED
      BY <3>1, <3>2, <3>3, Truths DEF Promise!settings
  <2> QED
    BY <2>1, <2>2, <2>3 DEF Promise!Init
<1>2. Graceful /\ Graceful' /\ [Next]_vars => [Promise!Next]_(Promise!vars)
  <2> SUFFICES ASSUME Graceful, Graceful', [Next]_vars
               PROVE  Promise!Next \/ UNCHANGED Promise!vars
    OBVIOUS
  <2>1. CASE Tick \/ UNCHANGED vars
    <3>1. UNCHANGED <<pc, answer, config, main, listener, drained, result>>
      BY <2>1 DEF Tick, vars, app, pipeline
    <3>2. UNCHANGED <<Clients, Handlers, Promise!settings>>
      BY <3>1, Unseen DEF Graceful
    <3>3. Standing' = Standing /\ Verdict' = Verdict
      BY <3>1 DEF Standing, Verdict, Alive
    <3> QED
      BY <3>2, <3>3 DEF Promise!vars, Clients, Handlers
  <2> QED
    BY <2>1, RequestKeepsPromise, MainKeepsPromise, DrainKeepsPromise, FinishKeepsPromise DEF Next
<1>3. TypeOK /\ Phases /\ Leaving /\ MutexHeld /\ Unasked /\ AnswersReachClients /\ DrainInTime
        => Graceful
  BY DEF Graceful
<1> QED
  BY <1>1, <1>2, <1>3, TypedInductive, PhasesInductive, LeavingInductive, MutexHeldInductive,
     UnaskedInductive, AnswersArrive, DrainsInTime, PTL
  DEF Spec, ImplementsGracefulServer, Promise!Spec
=============================================================================
