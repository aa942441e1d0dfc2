--------------------------- MODULE LoggerContract ---------------------------
(***************************************************************************)
(* The Logger interface of pkg/logger/logger.go taken at its word: every   *)
(* logger is a value of its own.  With and its variants return a new       *)
(* logger with fields added, Clone a copy, SetLevel sets the level of the  *)
(* logger it is called on, and a logger writes what ShouldLog says.        *)
(***************************************************************************)
EXTENDS LogLevels

CONSTANT Logger   \* the loggers of a behaviour

VARIABLE loggers  \* what the loggers that exist are: the levels they write,
                  \* and the With calls whose fields they carry

Value == [writes : SUBSET LogLevel, says : SUBSET LogLevel, fields : SUBSET Logger]

From(level) == level .. PanicLevel

Init ==
  \E root \in Logger, level \in LogLevel :
    loggers = [s \in {root} |-> [writes |-> From(level), says |-> From(level), fields |-> {}]]

Derive(s, t) ==
  /\ s \in DOMAIN loggers /\ t \in Logger \ DOMAIN loggers
  /\ \E added \in {{}, {t}} :
       loggers' = Extended(loggers, t, [loggers[s] EXCEPT !.fields = @ \cup added])

SetLevel(s) ==
  /\ s \in DOMAIN loggers
  /\ \E level \in LogLevel :
       loggers' = [loggers EXCEPT ![s].writes = From(level), ![s].says = From(level)]

Next == \E s \in Logger : SetLevel(s) \/ \E t \in Logger : Derive(s, t)

Spec == Init /\ [][Next]_loggers
=============================================================================
