---------------------------- MODULE AppLifecycle ----------------------------
(***************************************************************************)
(* The process of cmd/main.go and internal/app/server/app.go: start-up,    *)
(* the goroutine that serves, and Run, which waits for the server to fail  *)
(* or a signal to come, drains, and closes the database.  What is to be    *)
(* drained are the requests of RequestPipeline; Server composes the two.   *)
(* Any start-up step may fail and then ends the process (log.Fatalf).      *)
(***************************************************************************)
EXTENDS Integers

CONSTANT Grace      \* shutdownGracePeriod, in ticks

ASSUME GraceAssumption == Grace \in Nat \ {0}

VARIABLES main,       \* where main is
          node,       \* snowflake.node is there
          db,         \* app.DB
          listener,   \* httpServer
          serverErr,  \* the channel of that name has an error
          signalled,  \* ctx is done
          drainAge,   \* ticks since Shutdown was called
          drained,    \* what Shutdown returned
          result      \* what Run returned

app == <<main, node, db, listener, serverErr, signalled, drainAge, drained, result>>

Booting == main \in {"config", "node", "connect", "migrate", "setup"}
Alive == main # "exited"
-----------------------------------------------------------------------------

AppInit ==
  /\ main = "config"
  /\ node = FALSE
  /\ db = "none"
  /\ listener = "down"
  /\ serverErr = FALSE
  /\ signalled = FALSE
  /\ drainAge = 0
  /\ drained = "no"
  /\ result = "none"

Goto(at) == main' = at

\* log.Fatalf, or a signal nobody has asked to be notified of.
Die ==
  /\ Booting
  /\ Goto("exited")
  /\ UNCHANGED <<node, db, listener, serverErr, signalled, drainAge, drained, result>>

NewApplication ==
  /\ main = "config" /\ Goto("node")
  /\ UNCHANGED <<node, db, listener, serverErr, signalled, drainAge, drained, result>>

InitNode ==
  /\ main = "node" /\ Goto("connect")
  /\ node' = TRUE
  /\ UNCHANGED <<db, listener, serverErr, signalled, drainAge, drained, result>>

Connect ==
  /\ main = "connect" /\ Goto("migrate")
  /\ db' = "open"
  /\ UNCHANGED <<node, listener, serverErr, signalled, drainAge, drained, result>>

AutoMigrate ==
  /\ main = "migrate" /\ Goto("setup")
  /\ UNCHANGED <<node, db, listener, serverErr, signalled, drainAge, drained, result>>

\* The dependencies are built, the context is made, and Run starts the
\* goroutine that serves.
Run ==
  /\ main = "setup" /\ Goto("run")
  /\ UNCHANGED <<node, db, listener, serverErr, signalled, drainAge, drained, result>>

Signal ==
  /\ main \in {"run", "drain", "close", "stopping"} /\ ~signalled
  /\ signalled' = TRUE
  /\ UNCHANGED <<main, node, db, listener, serverErr, drainAge, drained, result>>

Listen ==
  /\ main = "run" /\ listener = "down"
  /\ listener' = "up"
  /\ UNCHANGED <<main, node, db, serverErr, signalled, drainAge, drained, result>>

\* ListenAndServe cannot bind, or Accept fails later on.
ServeFails ==
  /\ main = "run" /\ listener \in {"down", "up"}
  /\ listener' = "failed"
  /\ serverErr' = TRUE
  /\ UNCHANGED <<main, node, db, signalled, drainAge, drained, result>>

\* The branch of the select for serverErr: nothing is drained.
ServerFailed ==
  /\ main = "run" /\ serverErr
  /\ Goto("close")
  /\ result' = "error"
  /\ UNCHANGED <<node, db, listener, serverErr, signalled, drainAge, drained>>

\* Mutant: Shutdown is called without closing the listeners first.
ShutdownListens ==
  /\ main = "run" /\ signalled
  /\ Goto("drain")
  /\ UNCHANGED <<node, db, listener, serverErr, signalled, drainAge, drained, result>>

\* The branch of the select for ctx.Done(), which may be taken when both are
\* ready, and the call of Shutdown: it closes the listeners.
Shutdown ==
  /\ main = "run" /\ signalled
  /\ Goto("drain")
  /\ listener' = IF listener = "failed" THEN "failed" ELSE "shut"
  /\ UNCHANGED <<node, db, serverErr, signalled, drainAge, drained, result>>

\* Mutant: the error of a Shutdown that ran into its deadline is dropped.
DrainedRegardless(idle) ==
  /\ main = "drain"
  /\ idle \/ drainAge >= Grace
  /\ drained' = "clean"
  /\ Goto("close")
  /\ result' = "nil"
  /\ UNCHANGED <<node, db, listener, serverErr, signalled, drainAge>>

\* Shutdown returns: every connection is idle, or its context is done.
Drained(idle) ==
  /\ main = "drain"
  /\ \/ idle /\ drained' = "clean"
     \/ drainAge >= Grace /\ drained' = "cut"
  /\ Goto("close")
  /\ result' = "nil"
  /\ UNCHANGED <<node, db, listener, serverErr, signalled, drainAge>>

\* app.shutdown(): an error of DB.Close is only logged.
shutdown ==
  /\ main = "close" /\ Goto("stopping")
  /\ db' = "closed"
  /\ UNCHANGED <<node, listener, serverErr, signalled, drainAge, drained, result>>

\* Run returns, and main with it; whatever still runs ends here.
Exit ==
  /\ main = "stopping" /\ Goto("exited")
  /\ UNCHANGED <<node, db, listener, serverErr, signalled, drainAge, drained, result>>

\* The part of a second that passes for Shutdown.
Draining == drainAge' = IF main = "drain" THEN drainAge + 1 ELSE drainAge

Boot == Die \/ NewApplication \/ InitNode \/ Connect \/ AutoMigrate \/ Run

\* The steps of main after the select, which wait for nothing but each other.
Stop == ServerFailed \/ Shutdown \/ shutdown \/ Exit
=============================================================================
