--------------------------- MODULE LoggerBackends ---------------------------
(***************************************************************************)
(* The three backends of pkg/logger under the same calls.  NewLogger lets  *)
(* a configuration choose the backend, so callers may rely on what all     *)
(* three have in common only: this module says what that is.               *)
(***************************************************************************)
EXTENDS LogLevels

CONSTANTS Logger,     \* the loggers of a behaviour
          Settable    \* the levels it sets, for model checking

ASSUME SettableAssumption == Settable \subseteq LogLevel

VARIABLES zap, atomic, slog, opts, zerolog,
          cloned,    \* loggers with a Clone between them and the first one
          rebuilt,   \* loggers whose slog handler, or one it comes from, was rebuilt
          reread,    \* those whose slog handler took its level from the shared
                     \* options, in SetFormat or SetOutput, not from SetLevel
          retuned    \* a level was set when there was more than one logger

backends == <<zap, atomic, slog, opts, zerolog>>
vars == <<backends, cloned, rebuilt, reread, retuned>>

Zap == INSTANCE ZapLogger
Slog == INSTANCE SlogLogger
Zerolog == INSTANCE ZerologLogger

Loggers == DOMAIN zerolog

Inherited(set, s, t) == IF s \in set THEN set \cup {t} ELSE set

-----------------------------------------------------------------------------

\* NewLogger.
Init ==
  /\ \E root \in Logger, level \in Settable :
       Zap!New(root, level) /\ Slog!New(root, level) /\ Zerolog!New(root, level)
  /\ cloned = {} /\ rebuilt = {} /\ reread = {} /\ retuned = FALSE

With(s, t) ==
  /\ s \in Loggers /\ t \in Logger \ Loggers
  /\ Zap!With(s, t) /\ Slog!With(s, t) /\ Zerolog!With(s, t)
  /\ cloned' = Inherited(cloned, s, t)
  /\ rebuilt' = Inherited(rebuilt, s, t) /\ reread' = Inherited(reread, s, t)
  /\ UNCHANGED retuned

Clone(s, t) ==
  /\ s \in Loggers /\ t \in Logger \ Loggers
  /\ Zap!Clone(s, t) /\ Slog!Clone(s, t) /\ Zerolog!Clone(s, t)
  /\ cloned' = cloned \cup {t}
  /\ rebuilt' = Inherited(rebuilt, s, t) /\ reread' = Inherited(reread, s, t)
  /\ UNCHANGED retuned

SetLevel(s, level) ==
  /\ s \in Loggers
  /\ Zap!SetLevel(s, level) /\ Slog!SetLevel(s, level) /\ Zerolog!SetLevel(s, level)
  /\ rebuilt' = rebuilt \cup {s} /\ reread' = reread \ {s}
  /\ retuned' = (retuned \/ Loggers # {s})
  /\ UNCHANGED cloned

\* Only slog's loggers are ConfigurableLoggers.
Reconfigure(s) ==
  /\ s \in Loggers
  /\ Slog!Rebuild(s)
  /\ rebuilt' = rebuilt \cup {s} /\ reread' = reread \cup {s}
  /\ UNCHANGED <<zap, atomic, zerolog, cloned, retuned>>

Next ==
  \E s \in Logger :
    \/ \E t \in Logger : With(s, t) \/ Clone(s, t)
    \/ \E level \in Settable : SetLevel(s, level)
    \/ Reconfigure(s)

Spec == Init /\ [][Next]_vars

-----------------------------------------------------------------------------

Value == [level : LogLevel, gate : Int, fields : SUBSET Logger]

\* The three families have the same loggers, and a zap logger's level and core
\* are AtomicLevels that exist.
TypeOK ==
  /\ Loggers \subseteq Logger
  /\ zerolog \in [Loggers -> Value]
  /\ slog \in [Loggers -> Value] /\ opts \in Int
  /\ zap \in [Loggers -> [level : DOMAIN atomic, core : DOMAIN atomic, fields : SUBSET Logger]]
  /\ atomic \in [DOMAIN atomic -> -1 .. 5] /\ DOMAIN atomic \subseteq Loggers
  /\ cloned \subseteq Loggers /\ rebuilt \subseteq Loggers /\ reread \subseteq Loggers
  /\ retuned \in BOOLEAN

\* zerolog does what the Logger interface says.
Contract == INSTANCE LoggerContract WITH loggers <- Zerolog!Contract
ZerologImplementsContract == Contract!Spec

\* Until a level is set on one of several loggers, the three backends say the
\* same, write the same and have the same level, whoever was derived from whom,
\* as long as that level is not above error (slog would still write errors, and
\* zap's fatal leaves out panics).
BackendsAgree ==
  ~retuned => \A s \in Loggers : Zerolog!GetLevel(s) <= ErrorLevel =>
    /\ Zap!GetLevel(s) = Zerolog!GetLevel(s) /\ Slog!GetLevel(s) = Zerolog!GetLevel(s)
    /\ Zap!ShouldLog(s) = Zerolog!ShouldLog(s) /\ Slog!ShouldLog(s) = Zerolog!ShouldLog(s)
    /\ Zap!Writes(s) = Zerolog!Writes(s) /\ Slog!Writes(s) = Zerolog!Writes(s)

\* What a logger writes against what its ShouldLog says.  All zap loggers write
\* what one core lets through, so ShouldLog tells the truth until there is a Clone
\* and a level is set on one of several loggers.  A slog logger writes what its
\* ShouldLog says and, whatever the level, every error, fatal and panic: its
\* handler knows no level above error, so at fatal and panic ShouldLog denies what
\* is written.  That fails only for a handler built by SetFormat or SetOutput,
\* which takes the level some other logger may have left in the shared options.
ShouldLogTruthful ==
  \A s \in Loggers :
    /\ s \notin cloned \/ ~retuned => Zap!ShouldLog(s) = Zap!Writes(s)
    /\ \A t \in Loggers : Zap!Writes(s) = Zap!Writes(t)
    /\ s \notin reread \/ ~retuned
         => Slog!Writes(s) = Slog!ShouldLog(s) \cup (ErrorLevel .. PanicLevel)

\* The same fields are carried by all backends, but a slog logger has lost them
\* whose handler was rebuilt.
FieldsAgree ==
  \A s \in Loggers :
    /\ zap[s].fields = zerolog[s].fields
    /\ s \notin rebuilt => slog[s].fields = zerolog[s].fields

\* What a slog logger writes and carries is changed by calls on it only, though
\* it shares its options with the loggers it comes from.
SlogIsolated ==
  [][\A s \in Loggers :
       \/ Slog!Writes(s)' = Slog!Writes(s) /\ slog'[s].fields = slog[s].fields
       \/ Reconfigure(s)
       \/ \E level \in Settable : SetLevel(s, level)]_vars
=============================================================================
