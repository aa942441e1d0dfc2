----------------------------- MODULE SlogLogger -----------------------------
(***************************************************************************)
(* pkg/logger/slog_logger.go: the loggers of a family share one            *)
(* HandlerOptions, which a handler copies when it is built.  A handler is  *)
(* built anew, from the options and without its fields, by SetLevel,       *)
(* SetFormat and SetOutput.                                                *)
(***************************************************************************)
EXTENDS LogLevels

VARIABLES slog,   \* logger -> the level it says it has, the level of its
                  \* handler, and the With calls whose fields it carries
          opts    \* the level in the HandlerOptions all loggers share

New(root, level) ==
  /\ opts = convertToSlogLevel(level)
  /\ slog = [s \in {root} |->
               [level |-> level, gate |-> convertToSlogLevel(level), fields |-> {}]]

\* Mutant: the fields are added to the logger itself as well.
WithInPlace(s, t) ==
  LET added == [slog[s] EXCEPT !.fields = @ \cup {t}] IN
  /\ slog' = Extended(Extended(slog, s, added), t, added)
  /\ UNCHANGED opts

\* With, WithFields, WithName, WithTrace and WithError.
With(s, t) ==
  /\ slog' = Extended(slog, t, [slog[s] EXCEPT !.fields = @ \cup {t}])
  /\ UNCHANGED opts

Clone(s, t) == slog' = Extended(slog, t, slog[s]) /\ UNCHANGED opts

\* The writes to the level, the options and the handler are taken as one step: the
\* logger has no lock, so calls on siblings at a time would be a data race, and
\* nothing in src/ makes them.
SetLevel(s, level) ==
  /\ opts' = convertToSlogLevel(level)
  /\ slog' = [slog EXCEPT ![s] = [level |-> level, gate |-> opts', fields |-> {}]]

\* SetFormat and SetOutput build the handler from the shared options.
Rebuild(s) ==
  /\ slog' = [slog EXCEPT ![s].gate = opts, ![s].fields = {}]
  /\ UNCHANGED opts

GetLevel(s) == slog[s].level
ShouldLog(s) == {level \in LogLevel : level >= slog[s].level}

\* Mutant: the handler looks at the shared options, as it would at a LevelVar.
WritesShared(s) == {level \in LogLevel : convertToSlogLevel(level) >= opts}

\* The levels at which Debug to Panicf and Log write a message.
Writes(s) == {level \in LogLevel : convertToSlogLevel(level) >= slog[s].gate}
=============================================================================
