----------------------------- MODULE ZapLogger ------------------------------
(***************************************************************************)
(* pkg/logger/zap_logger.go: ShouldLog, SetLevel and GetLevel go to the    *)
(* logger's AtomicLevel, what is written is up to the AtomicLevel of the   *)
(* core.  With keeps both, Clone keeps the core and takes a new level.     *)
(***************************************************************************)
EXTENDS LogLevels

VARIABLES zap,     \* logger -> its AtomicLevel, its core's, and the With
                   \* calls whose fields it carries
          atomic   \* AtomicLevel -> its level; known by the logger it was made for

New(root, level) ==
  /\ zap = [s \in {root} |-> [level |-> root, core |-> root, fields |-> {}]]
  /\ atomic = [c \in {root} |-> convertToZapLevel(level)]

\* Mutant: With takes a level of its own, as Clone does.
WithOwnLevel(s, t) ==
  /\ zap' = Extended(zap, t, [zap[s] EXCEPT !.level = t, !.fields = @ \cup {t}])
  /\ atomic' = Extended(atomic, t, atomic[zap[s].level])

\* With, WithFields, WithName, WithTrace and WithError.
With(s, t) ==
  /\ zap' = Extended(zap, t, [zap[s] EXCEPT !.fields = @ \cup {t}])
  /\ UNCHANGED atomic

Clone(s, t) ==
  /\ zap' = Extended(zap, t, [zap[s] EXCEPT !.level = t])
  /\ atomic' = Extended(atomic, t, atomic[zap[s].level])

SetLevel(s, level) ==
  /\ atomic' = [atomic EXCEPT ![zap[s].level] = convertToZapLevel(level)]
  /\ UNCHANGED zap

\* The level with that number in zap.
GetLevel(s) == CHOOSE level \in LogLevel : convertToZapLevel(level) = atomic[zap[s].level]

ShouldLog(s) == {level \in LogLevel : convertToZapLevel(level) >= atomic[zap[s].level]}

\* The levels at which Debug to Panicf and Log write a message.
Writes(s) == {level \in LogLevel : convertToZapLevel(level) >= atomic[zap[s].core]}
=============================================================================
