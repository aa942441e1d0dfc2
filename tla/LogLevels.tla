----------------------------- MODULE LogLevels ------------------------------
(***************************************************************************)
(* The levels of pkg/logger/logger.go and what the three backends make of  *)
(* them.  Each library orders its own levels: zap puts panic below fatal,  *)
(* log/slog knows nothing above error, zerolog agrees with LogLevel.       *)
(***************************************************************************)
EXTENDS Integers

DebugLevel == 0
InfoLevel == 1
WarnLevel == 2
ErrorLevel == 3
FatalLevel == 4
PanicLevel == 5

LogLevel == DebugLevel .. PanicLevel

convertToZapLevel(level) ==
  IF level = FatalLevel THEN 5 ELSE IF level = PanicLevel THEN 4 ELSE level - 1

\* Mutant: the case of WarnLevel is missing, and the default is info.
convertToSlogLevelNoWarn(level) ==
  IF level > ErrorLevel THEN 8 ELSE IF level = WarnLevel THEN 0 ELSE 4 * (level - 1)

convertToSlogLevel(level) == IF level > ErrorLevel THEN 8 ELSE 4 * (level - 1)

\* zerolog numbers its levels from debug to panic like LogLevel.
convertToZerologLevel(level) == level

-----------------------------------------------------------------------------
\* A family of loggers is a function from the loggers it has to what they are.

Extended(family, logger, value) ==
  [s \in DOMAIN family \cup {logger} |-> IF s = logger THEN value ELSE family[s]]
=============================================================================
