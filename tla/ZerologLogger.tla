--------------------------- MODULE ZerologLogger ----------------------------
(* pkg/logger/zerolog_logger.go: zerolog.Logger is a value, so a derived   *)
(* logger has a level of its own.                                          *)
EXTENDS LogLevels

VARIABLE zerolog   \* logger -> the level it says it has, the level of its
                   \* zerolog.Logger, and the With calls whose fields it carries

New(root, level) ==
  zerolog = [s \in {root} |->
               [level |-> level, gate |-> convertToZerologLevel(level), fields |-> {}]]

\* With, WithFields, WithName, WithTrace and WithError.
With(s, t) == zerolog' = Extended(zerolog, t, [zerolog[s] EXCEPT !.fields = @ \cup {t}])

Clone(s, t) == zerolog' = Extended(zerolog, t, zerolog[s])

\* Mutant: the zerolog.Logger is not told.
SetLevelOnly(s, level) == zerolog' = [zerolog EXCEPT ![s].level = level]

SetLevel(s, level) ==
  zerolog' = [zerolog EXCEPT ![s] =
                [@ EXCEPT !.level = level, !.gate = convertToZerologLevel(level)]]

GetLevel(s) == zerolog[s].level
ShouldLog(s) == {level \in LogLevel : zerolog[s].level <= level}

\* The levels at which Debug to Panicf and Log write a message.
Writes(s) == {level \in LogLevel : convertToZerologLevel(level) >= zerolog[s].gate}

Contract == [s \in DOMAIN zerolog |->
               [writes |-> Writes(s), says |-> ShouldLog(s), fields |-> zerolog[s].fields]]
=============================================================================
