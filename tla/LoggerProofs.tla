---------------------------- MODULE LoggerProofs ----------------------------
(***************************************************************************)
(* Proofs about LoggerBackends, for any loggers and any levels set.        *)
(***************************************************************************)
EXTENDS LoggerBackends, TLAPS

USE DEF DebugLevel, InfoLevel, WarnLevel, ErrorLevel, FatalLevel, PanicLevel

\* The levels, as the instances of the backends know them.
LEMMA Levels ==
  ASSUME NEW level \in LogLevel
  PROVE  /\ Zap!convertToZapLevel(level) \in -1 .. 5
         /\ Slog!convertToSlogLevel(level) \in Int
         /\ Zerolog!convertToZerologLevel(level) = level
  BY DEF LogLevel, Zap!convertToZapLevel, Slog!convertToSlogLevel, Zerolog!convertToZerologLevel,
         Zap!DebugLevel, Zap!PanicLevel, Zap!FatalLevel, Slog!ErrorLevel

-----------------------------------------------------------------------------
(* The loggers of each backend.                                            *)

ZapValue(cells) == [level : cells, core : cells, fields : SUBSET Logger]

ZapTyped ==
  /\ zap \in [Loggers -> ZapValue(DOMAIN atomic)]
  /\ atomic \in [DOMAIN atomic -> -1 .. 5] /\ DOMAIN atomic \subseteq Loggers

SlogTyped == slog \in [Loggers -> Value] /\ opts \in Int

ZerologTyped ==
  /\ Loggers \subseteq Logger
  /\ zerolog \in [Loggers -> Value]

Ghosts ==
  /\ cloned \subseteq Loggers /\ rebuilt \subseteq Loggers /\ reread \subseteq Loggers
  /\ retuned \in BOOLEAN

LEMMA TypedParts == TypeOK <=> ZapTyped /\ SlogTyped /\ ZerologTyped /\ Ghosts
  BY DEF TypeOK, ZapTyped, ZapValue, SlogTyped, ZerologTyped, Ghosts

LEMMA InitTyped == Init => TypeOK
<1> SUFFICES ASSUME NEW root \in Logger, NEW level \in LogLevel,
                    Zap!New(root, level), Slog!New(root, level), Zerolog!New(root, level),
                    cloned = {}, rebuilt = {}, reread = {}, retuned = FALSE
             PROVE  TypeOK
  BY SettableAssumption DEF Init
<1>1. Loggers = {root}
  BY DEF Zerolog!New, Loggers
<1>2. ZerologTyped
  BY <1>1, Levels DEF ZerologTyped, Zerolog!New, Value, LogLevel
<1>3. SlogTyped
  BY <1>1, Levels DEF SlogTyped, Slog!New, Value
<1>4. ZapTyped
  BY <1>1, Levels DEF ZapTyped, ZapValue, Zap!New
<1>5. Ghosts
  BY DEF Ghosts
<1> QED
  BY <1>2, <1>3, <1>4, <1>5, TypedParts

LEMMA WithFields ==
  ASSUME NEW t \in Logger
  PROVE  /\ \A v \in Value : [v EXCEPT !.fields = @ \cup {t}] \in Value
         /\ \A cells : \A v \in ZapValue(cells) : [v EXCEPT !.fields = @ \cup {t}] \in ZapValue(cells)
  BY DEF Value, ZapValue

\* A logger that is derived has a value of its kind in each backend.
LEMMA ZerologJoins ==
  ASSUME ZerologTyped, NEW t \in Logger, NEW v \in Value, zerolog' = Zerolog!Extended(zerolog, t, v)
  PROVE  ZerologTyped' /\ Loggers' = Loggers \cup {t}
  BY DEF ZerologTyped, Zerolog!Extended, Loggers

LEMMA SlogJoins ==
  ASSUME SlogTyped, NEW t, NEW v \in Value, slog' = Slog!Extended(slog, t, v), UNCHANGED opts,
         Loggers' = Loggers \cup {t}
  PROVE  SlogTyped'
  BY DEF SlogTyped, Slog!Extended, Value

LEMMA ZapJoins ==
  ASSUME ZapTyped, NEW t, NEW cells, NEW v \in ZapValue(cells), zap' = Zap!Extended(zap, t, v),
         DOMAIN atomic \subseteq cells,
         cells \subseteq Loggers', atomic' \in [cells -> -1 .. 5], Loggers' = Loggers \cup {t}
  PROVE  ZapTyped'
<1>1. DOMAIN atomic' = cells
  OBVIOUS
<1>2. zap \in [Loggers -> ZapValue(cells)]
  BY DEF ZapTyped, ZapValue
<1>3. zap' \in [Loggers \cup {t} -> ZapValue(cells)]
  BY <1>2 DEF Zap!Extended
<1> QED
  BY <1>1, <1>3 DEF ZapTyped

LEMMA WithTyped ==
  ASSUME TypeOK, NEW s \in Logger, NEW t \in Logger, With(s, t)
  PROVE  TypeOK' /\ Loggers' = Loggers \cup {t}
<1>1. /\ s \in Loggers /\ t \notin Loggers
      /\ Zap!With(s, t) /\ Slog!With(s, t) /\ Zerolog!With(s, t)
      /\ cloned' = Inherited(cloned, s, t) /\ rebuilt' = Inherited(rebuilt, s, t)
      /\ reread' = Inherited(reread, s, t) /\ UNCHANGED retuned
  BY DEF With
<1>2. ZapTyped /\ SlogTyped /\ ZerologTyped /\ Ghosts
  BY TypedParts
<1>3. ZerologTyped' /\ Loggers' = Loggers \cup {t}
  <2>1. [zerolog[s] EXCEPT !.fields = @ \cup {t}] \in Value
    BY <1>1, <1>2, WithFields DEF ZerologTyped
  <2> QED
    BY <1>1, <1>2, <2>1, ZerologJoins DEF Zerolog!With
<1>4. SlogTyped'
  <2>1. [slog[s] EXCEPT !.fields = @ \cup {t}] \in Value
    BY <1>1, <1>2, WithFields DEF SlogTyped
  <2> QED
    BY <1>1, <1>2, <1>3, <2>1, SlogJoins DEF Slog!With
<1>5. ZapTyped'
  <2>1. [zap[s] EXCEPT !.fields = @ \cup {t}] \in ZapValue(DOMAIN atomic)
    BY <1>1, <1>2, WithFields DEF ZapTyped
  <2>2. DOMAIN atomic \subseteq Loggers' /\ atomic' \in [DOMAIN atomic -> -1 .. 5]
    BY <1>1, <1>2, <1>3 DEF Zap!With, ZapTyped
  <2> QED
    BY <1>1, <1>2, <1>3, <2>1, <2>2, ZapJoins DEF Zap!With
<1>6. Ghosts'
  BY <1>1, <1>2, <1>3 DEF Inherited, Ghosts
<1> QED
  BY <1>3, <1>4, <1>5, <1>6 DEF TypeOK, ZapTyped, ZapValue, SlogTyped, ZerologTyped, Ghosts

LEMMA CloneTyped ==
  ASSUME TypeOK, NEW s \in Logger, NEW t \in Logger, Clone(s, t)
  PROVE  TypeOK' /\ Loggers' = Loggers \cup {t}
<1>1. /\ s \in Loggers /\ t \notin Loggers
      /\ Zap!Clone(s, t) /\ Slog!Clone(s, t) /\ Zerolog!Clone(s, t)
      /\ cloned' = cloned \cup {t} /\ rebuilt' = Inherited(rebuilt, s, t)
      /\ reread' = Inherited(reread, s, t) /\ UNCHANGED retuned
  BY DEF Clone
<1>2. ZapTyped /\ SlogTyped /\ ZerologTyped /\ Ghosts
  BY TypedParts
<1>3. ZerologTyped' /\ Loggers' = Loggers \cup {t}
  <2>1. zerolog[s] \in Value
    BY <1>1, <1>2 DEF ZerologTyped
  <2> QED
    BY <1>1, <1>2, <2>1, ZerologJoins DEF Zerolog!Clone
<1>4. SlogTyped'
  <2>1. slog[s] \in Value
    BY <1>1, <1>2 DEF SlogTyped
  <2> QED
    BY <1>1, <1>2, <1>3, <2>1, SlogJoins DEF Slog!Clone
<1>5. ZapTyped'
  <2> DEFINE cells == DOMAIN atomic \cup {t}
  <2>1. zap[s] \in ZapValue(DOMAIN atomic)
    BY <1>1, <1>2 DEF ZapTyped
  <2>2. [zap[s] EXCEPT !.level = t] \in ZapValue(cells)
    BY <2>1 DEF ZapValue
  <2>3. atomic' \in [cells -> -1 .. 5]
    <3>1. atomic[zap[s].level] \in -1 .. 5
      BY <1>2, <2>1 DEF ZapTyped, ZapValue
    <3> QED
      BY <1>1, <1>2, <3>1 DEF Zap!Clone, Zap!Extended, ZapTyped
  <2>4. cells \subseteq Loggers' /\ DOMAIN atomic \subseteq cells
    BY <1>2, <1>3 DEF ZapTyped
  <2> HIDE DEF cells
  <2> QED
    BY <1>1, <1>2, <1>3, <2>2, <2>3, <2>4, ZapJoins DEF Zap!Clone
<1>6. Ghosts'
  BY <1>1, <1>2, <1>3 DEF Inherited, Ghosts
<1> QED
  BY <1>3, <1>4, <1>5, <1>6 DEF TypeOK, ZapTyped, ZapValue, SlogTyped, ZerologTyped, Ghosts

LEMMA SetLevelTyped ==
  ASSUME TypeOK, NEW s \in Logger, NEW level \in LogLevel, SetLevel(s, level)
  PROVE  TypeOK' /\ Loggers' = Loggers
<1>1. /\ s \in Loggers
      /\ Zap!SetLevel(s, level) /\ Slog!SetLevel(s, level) /\ Zerolog!SetLevel(s, level)
      /\ rebuilt' = rebuilt \cup {s} /\ reread' = reread \ {s}
      /\ retuned' = (retuned \/ Loggers # {s}) /\ UNCHANGED cloned
  BY DEF SetLevel
<1>2. ZapTyped /\ SlogTyped /\ ZerologTyped /\ Ghosts
  BY TypedParts
<1>3. Loggers' = Loggers
  BY <1>1 DEF Zerolog!SetLevel, Loggers
<1>4. ZerologTyped'
  <2>1. [zerolog[s] EXCEPT !.level = level, !.gate = Zerolog!convertToZerologLevel(level)] \in Value
    <3>1. zerolog[s] \in Value /\ Zerolog!convertToZerologLevel(level) \in Int
      BY <1>1, <1>2, Levels DEF ZerologTyped, LogLevel
    <3> QED
      BY <3>1 DEF Value
  <2> QED
    BY <1>1, <1>2, <1>3, <2>1 DEF Zerolog!SetLevel, ZerologTyped
<1>5. SlogTyped'
  BY <1>1, <1>2, <1>3, Levels DEF Slog!SetLevel, SlogTyped, Value
<1>6. ZapTyped'
  BY <1>1, <1>2, <1>3, Levels DEF Zap!SetLevel, ZapTyped, ZapValue
<1>7. Ghosts'
  BY <1>1, <1>2, <1>3 DEF Ghosts
<1> QED
  BY <1>3, <1>4, <1>5, <1>6, <1>7 DEF TypeOK, ZapTyped, ZapValue, SlogTyped, ZerologTyped, Ghosts

LEMMA ReconfigureTyped ==
  ASSUME TypeOK, NEW s \in Logger, Reconfigure(s)
  PROVE  TypeOK' /\ Loggers' = Loggers
<1>1. /\ s \in Loggers /\ Slog!Rebuild(s) /\ rebuilt' = rebuilt \cup {s} /\ reread' = reread \cup {s}
      /\ UNCHANGED <<zap, atomic, zerolog, cloned, retuned>>
  BY DEF Reconfigure
<1>2. Loggers' = Loggers
  BY <1>1 DEF Loggers
<1>3. SlogTyped'
  BY <1>1, <1>2, TypedParts DEF Slog!Rebuild, SlogTyped, Value
<1> QED
  BY <1>1, <1>2, <1>3 DEF TypeOK, SlogTyped

LEMMA TypedInductive == Spec => []TypeOK
<1>1. TypeOK /\ [Next]_vars => TypeOK'
  <2> SUFFICES ASSUME TypeOK, [Next]_vars PROVE TypeOK'
    OBVIOUS
  <2>1. ASSUME NEW s \in Logger, NEW t \in Logger, With(s, t) \/ Clone(s, t) PROVE TypeOK'
    BY <2>1, WithTyped, CloneTyped
  <2>2. ASSUME NEW s \in Logger, NEW level \in Settable, SetLevel(s, level) PROVE TypeOK'
    BY <2>2, SetLevelTyped, SettableAssumption
  <2>3. ASSUME NEW s \in Logger, Reconfigure(s) PROVE TypeOK'
    BY <2>3, ReconfigureTyped
  <2>4. CASE UNCHANGED vars
    BY <2>4 DEF vars, backends, TypeOK, Loggers
  <2> QED
    BY <2>1, <2>2, <2>3, <2>4 DEF Next
<1> QED
  BY <1>1, InitTyped, PTL DEF Spec

\* The loggers of the three backends, their levels and fields are what they can
\* be, and a zap logger's AtomicLevels exist (zap_logger.go, New and Clone).
THEOREM TypeCorrect == Spec => []TypeOK
  BY TypedInductive

-----------------------------------------------------------------------------
(* What a derived logger takes over.                                       *)

Origin(x, s, t) == IF x = t THEN s ELSE x

\* With and Clone keep every level, and tell which loggers are not what their
\* origin was.
LEMMA DerivedLevels ==
  ASSUME TypeOK, NEW s \in Logger, NEW t \in Logger, With(s, t) \/ Clone(s, t),
         NEW x \in Loggers \cup {t}, NEW o, o = Origin(x, s, t)
  PROVE  /\ s \in Loggers /\ t \notin Loggers /\ o \in Loggers
         /\ zerolog'[x].level = zerolog[o].level /\ zerolog'[x].gate = zerolog[o].gate
         /\ slog'[x].level = slog[o].level /\ slog'[x].gate = slog[o].gate /\ opts' = opts
         /\ zap'[x].core = zap[o].core /\ atomic'[zap'[x].core] = atomic[zap[o].core]
         /\ atomic'[zap'[x].level] = atomic[zap[o].level]
         /\ x \notin cloned' => o \notin cloned /\ zap'[x].level = zap[o].level
         /\ x \notin rebuilt' => o \notin rebuilt
         /\ x \notin reread' => o \notin reread
         /\ retuned' = retuned
<1> USE DEF Origin
<1>1. ZapTyped /\ SlogTyped /\ ZerologTyped /\ Ghosts
  BY TypedParts
<1>2. s \in Loggers /\ t \notin Loggers /\ o \in Loggers
  BY DEF With, Clone
<1>3. zap[o] \in ZapValue(DOMAIN atomic) /\ slog[o] \in Value /\ zerolog[o] \in Value
  BY <1>1, <1>2 DEF ZapTyped, SlogTyped, ZerologTyped
<1>4. (x \notin rebuilt' => o \notin rebuilt) /\ (x \notin reread' => o \notin reread)
  BY <1>1, <1>2 DEF With, Clone, Inherited, Ghosts
<1>5. CASE With(s, t)
  <2>1. zerolog'[x].level = zerolog[o].level /\ zerolog'[x].gate = zerolog[o].gate
    BY <1>1, <1>2, <1>3, <1>5 DEF With, Zerolog!With, Zerolog!Extended, ZerologTyped, Value
  <2>2. slog'[x].level = slog[o].level /\ slog'[x].gate = slog[o].gate /\ opts' = opts
    BY <1>1, <1>2, <1>3, <1>5 DEF With, Slog!With, Slog!Extended, SlogTyped, Value
  <2>3. zap'[x].core = zap[o].core /\ zap'[x].level = zap[o].level /\ atomic' = atomic
    BY <1>1, <1>2, <1>3, <1>5 DEF With, Zap!With, Zap!Extended, ZapTyped, ZapValue
  <2>4. (x \notin cloned' => o \notin cloned) /\ retuned' = retuned
    BY <1>1, <1>2, <1>5 DEF With, Inherited, Ghosts
  <2> QED
    BY <1>2, <1>4, <2>1, <2>2, <2>3, <2>4
<1>6. CASE Clone(s, t)
  <2>1. zerolog'[x].level = zerolog[o].level /\ zerolog'[x].gate = zerolog[o].gate
    BY <1>1, <1>2, <1>6 DEF Clone, Zerolog!Clone, Zerolog!Extended, ZerologTyped
  <2>2. slog'[x].level = slog[o].level /\ slog'[x].gate = slog[o].gate /\ opts' = opts
    BY <1>1, <1>2, <1>6 DEF Clone, Slog!Clone, Slog!Extended, SlogTyped
  <2>3. zap'[x].core = zap[o].core /\ zap'[x].level = IF x = t THEN t ELSE zap[x].level
    BY <1>1, <1>2, <1>3, <1>6 DEF Clone, Zap!Clone, Zap!Extended, ZapTyped, ZapValue
  <2>4. t \notin DOMAIN atomic /\ zap[o].core \in DOMAIN atomic /\ zap[o].level \in DOMAIN atomic
    BY <1>1, <1>2, <1>3 DEF ZapTyped, ZapValue
  <2>5. atomic' = [c \in DOMAIN atomic \cup {t} |-> IF c = t THEN atomic[zap[s].level] ELSE atomic[c]]
    BY <1>6 DEF Clone, Zap!Clone, Zap!Extended
  <2>6. (x \notin cloned' => o \notin cloned /\ x # t) /\ retuned' = retuned
    BY <1>2, <1>6 DEF Clone
  <2> QED
    BY <1>2, <1>4, <2>1, <2>2, <2>3, <2>4, <2>5, <2>6
<1> QED
  BY <1>5, <1>6

Added(x, s, t) == IF With(s, t) /\ x = t THEN {t} ELSE {}

\* With adds the same field in each backend, Clone none.
LEMMA DerivedFields ==
  ASSUME TypeOK, NEW s \in Logger, NEW t \in Logger, With(s, t) \/ Clone(s, t),
         NEW x \in Loggers \cup {t}, NEW o, o = Origin(x, s, t), NEW f, f = Added(x, s, t)
  PROVE  /\ zerolog'[x].fields = zerolog[o].fields \cup f
         /\ slog'[x].fields = slog[o].fields \cup f
         /\ zap'[x].fields = zap[o].fields \cup f
<1> USE DEF Origin
<1>1. ZapTyped /\ SlogTyped /\ ZerologTyped
  BY TypedParts
<1>2. s \in Loggers /\ t \notin Loggers /\ o \in Loggers
  BY DEF With, Clone
<1>3. zap[o] \in ZapValue(DOMAIN atomic) /\ slog[o] \in Value /\ zerolog[o] \in Value
  BY <1>1, <1>2 DEF ZapTyped, SlogTyped, ZerologTyped
<1>4. CASE With(s, t)
  <2>1. f = IF x = t THEN {t} ELSE {}
    BY <1>4 DEF Added
  <2>2. zerolog'[x].fields = zerolog[o].fields \cup f
    BY <1>1, <1>2, <1>3, <1>4, <2>1 DEF With, Zerolog!With, Zerolog!Extended, ZerologTyped, Value
  <2>3. slog'[x].fields = slog[o].fields \cup f
    BY <1>1, <1>2, <1>3, <1>4, <2>1 DEF With, Slog!With, Slog!Extended, SlogTyped, Value
  <2>4. zap'[x].fields = zap[o].fields \cup f
    BY <1>1, <1>2, <1>3, <1>4, <2>1 DEF With, Zap!With, Zap!Extended, ZapTyped, ZapValue
  <2> QED
    BY <2>2, <2>3, <2>4
<1>5. CASE ~With(s, t)
  <2>1. f = {} /\ Zap!Clone(s, t) /\ Slog!Clone(s, t) /\ Zerolog!Clone(s, t)
    BY <1>5 DEF Added, Clone
  <2>2. zerolog'[x].fields = zerolog[o].fields /\ slog'[x].fields = slog[o].fields
    BY <1>1, <1>2, <2>1
       DEF Zerolog!Clone, Zerolog!Extended, ZerologTyped, Slog!Clone, Slog!Extended, SlogTyped
  <2>3. zap'[x].fields = zap[o].fields
    BY <1>1, <1>2, <1>3, <2>1 DEF Zap!Clone, Zap!Extended, ZapTyped, ZapValue
  <2> QED
    BY <2>1, <2>2, <2>3
<1> QED
  BY <1>4, <1>5

\* SetLevel, in each backend.
LEMMA RetunedLoggers ==
  ASSUME TypeOK, NEW s \in Logger, NEW level \in LogLevel, SetLevel(s, level)
  PROVE  /\ s \in Loggers
         /\ zerolog'[s].level = level /\ zerolog'[s].gate = level
         /\ zerolog'[s].fields = zerolog[s].fields
         /\ \A x \in Loggers \ {s} : zerolog'[x] = zerolog[x] /\ slog'[x] = slog[x]
         /\ slog'[s].level = level /\ slog'[s].gate = Slog!convertToSlogLevel(level)
         /\ zap' = zap /\ atomic' = [atomic EXCEPT ![zap[s].level] = Zap!convertToZapLevel(level)]
         /\ rebuilt' = rebuilt \cup {s} /\ reread' = reread \ {s}
         /\ cloned' = cloned /\ retuned' = (retuned \/ Loggers # {s})
<1>1. s \in Loggers /\ ZapTyped /\ SlogTyped /\ ZerologTyped
  BY TypedParts DEF SetLevel
<1>2. zerolog[s] \in Value /\ Zerolog!convertToZerologLevel(level) = level
  BY <1>1, Levels DEF ZerologTyped
<1>3. zerolog'[s] = [zerolog[s] EXCEPT !.level = level, !.gate = Zerolog!convertToZerologLevel(level)]
  BY <1>1 DEF SetLevel, Zerolog!SetLevel, ZerologTyped
<1>4. \A v \in Value : \A a, b :
        LET w == [v EXCEPT !.level = a, !.gate = b]
        IN w.level = a /\ w.gate = b /\ w.fields = v.fields
  BY DEF Value
<1>5. /\ zerolog'[s].level = level /\ zerolog'[s].gate = level
      /\ zerolog'[s].fields = zerolog[s].fields
  BY <1>2, <1>3, <1>4
<1>6. \A x \in Loggers \ {s} : zerolog'[x] = zerolog[x] /\ slog'[x] = slog[x]
  BY <1>1 DEF SetLevel, Zerolog!SetLevel, ZerologTyped, Slog!SetLevel, SlogTyped
<1>7. slog'[s].level = level /\ slog'[s].gate = Slog!convertToSlogLevel(level)
  BY <1>1 DEF SetLevel, Slog!SetLevel, SlogTyped
<1> QED
  BY <1>1, <1>5, <1>6, <1>7 DEF SetLevel, Zap!SetLevel

\* SetFormat and SetOutput, of which only slog's loggers know.
LEMMA RebuiltLoggers ==
  ASSUME TypeOK, NEW s \in Logger, Reconfigure(s)
  PROVE  /\ s \in Loggers
         /\ UNCHANGED <<zap, atomic, zerolog, cloned, retuned, opts>>
         /\ rebuilt' = rebuilt \cup {s} /\ reread' = reread \cup {s}
         /\ \A x \in Loggers \ {s} : slog'[x] = slog[x]
         /\ slog'[s].level = slog[s].level /\ slog'[s].gate = opts
<1>1. s \in Loggers /\ Slog!Rebuild(s) /\ rebuilt' = rebuilt \cup {s} /\ reread' = reread \cup {s} /\ SlogTyped
      /\ UNCHANGED <<zap, atomic, zerolog, cloned, retuned>>
  BY TypedParts DEF Reconfigure
<1>2. slog[s] \in Value
  BY <1>1 DEF SlogTyped
<1> QED
  BY <1>1, <1>2 DEF Slog!Rebuild, SlogTyped, Value

-----------------------------------------------------------------------------
(* Fields.                                                                 *)

\* With, in all three backends, adds to the fields of the logger it returns and
\* leaves the one it is called on alone; only slog's SetLevel, SetFormat and
\* SetOutput lose them.
THEOREM FieldsStayTogether == Spec => []FieldsAgree
<1>1. Init => FieldsAgree
  BY DEF Init, Zap!New, Slog!New, Zerolog!New, Loggers, FieldsAgree
<1>2. TypeOK /\ FieldsAgree /\ [Next]_vars => FieldsAgree'
  <2> SUFFICES ASSUME TypeOK, FieldsAgree, [Next]_vars PROVE FieldsAgree'
    OBVIOUS
  <2>1. ASSUME NEW s \in Logger, NEW t \in Logger, With(s, t) \/ Clone(s, t) PROVE FieldsAgree'
    <3> SUFFICES ASSUME NEW x \in Loggers \cup {t}
                 PROVE  /\ zap'[x].fields = zerolog'[x].fields
                        /\ x \notin rebuilt' => slog'[x].fields = zerolog'[x].fields
      BY <2>1, WithTyped, CloneTyped DEF FieldsAgree
    <3> DEFINE o == Origin(x, s, t)
               f == Added(x, s, t)
    <3>1. o \in Loggers /\ (x \notin rebuilt' => o \notin rebuilt)
      BY <2>1, DerivedLevels
    <3>2. /\ zerolog'[x].fields = zerolog[o].fields \cup f
          /\ slog'[x].fields = slog[o].fields \cup f
          /\ zap'[x].fields = zap[o].fields \cup f
      BY <2>1, DerivedFields
    <3> HIDE DEF o, f
    <3> QED
      BY <3>1, <3>2 DEF FieldsAgree
  <2>2. ASSUME NEW s \in Logger, NEW level \in Settable, SetLevel(s, level) PROVE FieldsAgree'
    <3>1. level \in LogLevel /\ Loggers' = Loggers
      BY <2>2, SetLevelTyped, SettableAssumption
    <3> QED
      BY <2>2, <3>1, RetunedLoggers DEF FieldsAgree
  <2>3. ASSUME NEW s \in Logger, Reconfigure(s) PROVE FieldsAgree'
    BY <2>3, ReconfigureTyped, RebuiltLoggers DEF FieldsAgree
  <2>4. CASE UNCHANGED vars
    BY <2>4 DEF vars, backends, FieldsAgree, Loggers
  <2> QED
    BY <2>1, <2>2, <2>3, <2>4 DEF Next
<1> QED
  BY <1>1, <1>2, TypedInductive, PTL DEF Spec

-----------------------------------------------------------------------------
(* Levels.                                                                 *)

\* What decides whether a message is written is what ShouldLog looks at, and all
\* zap loggers have one core.
GatesTrue ==
  \A s \in Loggers :
    /\ s \notin cloned => zap[s].core = zap[s].level
    /\ \A t \in Loggers : zap[s].core = zap[t].core
    /\ s \notin reread => slog[s].gate = Slog!convertToSlogLevel(slog[s].level)
    /\ zerolog[s].gate = zerolog[s].level

LEMMA GatesInductive == Spec => []GatesTrue
<1>1. Init => GatesTrue
  BY Levels, SettableAssumption DEF Init, Zap!New, Slog!New, Zerolog!New, Loggers, GatesTrue
<1>2. TypeOK /\ GatesTrue /\ [Next]_vars => GatesTrue'
  <2> SUFFICES ASSUME TypeOK, GatesTrue, [Next]_vars PROVE GatesTrue'
    OBVIOUS
  <2>1. ASSUME NEW s \in Logger, NEW t \in Logger, With(s, t) \/ Clone(s, t) PROVE GatesTrue'
    <3> SUFFICES ASSUME NEW x \in Loggers \cup {t}
                 PROVE  /\ x \notin cloned' => zap'[x].core = zap'[x].level
                        /\ \A y \in Loggers \cup {t} : zap'[x].core = zap'[y].core
                        /\ x \notin reread' => slog'[x].gate = Slog!convertToSlogLevel(slog'[x].level)
                        /\ zerolog'[x].gate = zerolog'[x].level
      BY <2>1, WithTyped, CloneTyped DEF GatesTrue, Slog!convertToSlogLevel, Slog!ErrorLevel
    <3>1. \A y \in Loggers \cup {t} :
            Origin(y, s, t) \in Loggers /\ zap'[y].core = zap[Origin(y, s, t)].core
      BY <2>1, DerivedLevels
    <3>2. \A y \in Loggers \cup {t} : zap'[x].core = zap'[y].core
      BY <3>1 DEF GatesTrue
    <3> DEFINE o == Origin(x, s, t)
    <3> HIDE DEF o
    <3> QED
      BY <2>1, <3>2, DerivedLevels DEF GatesTrue, o
  <2>2. ASSUME NEW s \in Logger, NEW level \in Settable, SetLevel(s, level) PROVE GatesTrue'
    <3>1. level \in LogLevel /\ Loggers' = Loggers
      BY <2>2, SetLevelTyped, SettableAssumption
    <3> QED
      BY <2>2, <3>1, RetunedLoggers DEF GatesTrue, Slog!convertToSlogLevel, Slog!ErrorLevel
  <2>3. ASSUME NEW s \in Logger, Reconfigure(s) PROVE GatesTrue'
    BY <2>3, ReconfigureTyped, RebuiltLoggers DEF GatesTrue, Slog!convertToSlogLevel, Slog!ErrorLevel
  <2>4. CASE UNCHANGED vars
    BY <2>4 DEF vars, backends, GatesTrue, Loggers, Slog!convertToSlogLevel, Slog!ErrorLevel
  <2> QED
    BY <2>1, <2>2, <2>3, <2>4 DEF Next
<1> QED
  BY <1>1, <1>2, TypedInductive, PTL DEF Spec

\* What a slog logger writes up to error if its handler has its own level.
LEMMA SlogWrites ==
  ASSUME NEW level \in LogLevel, level <= ErrorLevel
  PROVE  {l \in Slog!LogLevel : Slog!convertToSlogLevel(l) >= Slog!convertToSlogLevel(level)}
           = {l \in Slog!LogLevel : l >= level}
  BY DEF LogLevel, Slog!LogLevel, Slog!DebugLevel, Slog!PanicLevel, Slog!ErrorLevel,
         Slog!convertToSlogLevel

\* Until a level is set on one of several loggers, each logger has the level of
\* the first in every backend, and slog's options have it as well.
SameLevel ==
  ~retuned => \A s \in Loggers :
    /\ slog[s].level = zerolog[s].level
    /\ slog[s].gate = Slog!convertToSlogLevel(zerolog[s].level)
    /\ opts = Slog!convertToSlogLevel(zerolog[s].level)
    /\ atomic[zap[s].level] = Zap!convertToZapLevel(zerolog[s].level)
    /\ atomic[zap[s].core] = Zap!convertToZapLevel(zerolog[s].level)

LEMMA SameLevelInductive == Spec => []SameLevel
<1> USE DEF Slog!convertToSlogLevel, Slog!ErrorLevel, Zap!convertToZapLevel, Zap!FatalLevel, Zap!PanicLevel
<1>1. Init => SameLevel
  BY DEF Init, Zap!New, Slog!New, Zerolog!New, Loggers, SameLevel
<1>2. TypeOK /\ SameLevel /\ [Next]_vars => SameLevel'
  <2> SUFFICES ASSUME TypeOK, SameLevel, [Next]_vars PROVE SameLevel'
    OBVIOUS
  <2>1. ASSUME NEW s \in Logger, NEW t \in Logger, With(s, t) \/ Clone(s, t) PROVE SameLevel'
    <3>1. ASSUME NEW x \in Loggers \cup {t}, ~retuned
          PROVE  /\ slog'[x].level = zerolog'[x].level
                 /\ slog'[x].gate = Slog!convertToSlogLevel(zerolog'[x].level)
                 /\ opts' = Slog!convertToSlogLevel(zerolog'[x].level)
                 /\ atomic'[zap'[x].level] = Zap!convertToZapLevel(zerolog'[x].level)
                 /\ atomic'[zap'[x].core] = Zap!convertToZapLevel(zerolog'[x].level)
      <4> DEFINE o == Origin(x, s, t)
      <4> HIDE DEF o
      <4>1. /\ o \in Loggers
            /\ zerolog'[x].level = zerolog[o].level
            /\ slog'[x].level = slog[o].level /\ slog'[x].gate = slog[o].gate /\ opts' = opts
            /\ atomic'[zap'[x].core] = atomic[zap[o].core]
            /\ atomic'[zap'[x].level] = atomic[zap[o].level]
        BY <2>1, DerivedLevels DEF o
      <4> QED
        BY <3>1, <4>1 DEF SameLevel
    <3>2. retuned' = retuned
      BY <2>1 DEF With, Clone
    <3>3. Loggers' = Loggers \cup {t}
      BY <2>1, WithTyped, CloneTyped
    <3> QED
      BY <3>1, <3>2, <3>3 DEF SameLevel
  <2>2. ASSUME NEW s \in Logger, NEW level \in Settable, SetLevel(s, level) PROVE SameLevel'
    <3>1. level \in LogLevel /\ Loggers' = Loggers
      BY <2>2, SetLevelTyped, SettableAssumption
    <3>2. opts' = Slog!convertToSlogLevel(level)
      BY <2>2 DEF SetLevel, Slog!SetLevel
    <3>3. ASSUME ~retuned' PROVE Loggers = {s} /\ zap[s].level = s /\ zap[s].core = s /\ s \in DOMAIN atomic
      <4>1. Loggers = {s}
        BY <2>2, <3>3 DEF SetLevel
      <4>2. zap[s].level \in DOMAIN atomic /\ zap[s].core \in DOMAIN atomic /\ DOMAIN atomic \subseteq {s}
        BY <4>1 DEF TypeOK
      <4> QED
        BY <4>1, <4>2
    <3>4. /\ zerolog'[s].level = level
          /\ slog'[s].level = level /\ slog'[s].gate = Slog!convertToSlogLevel(level)
          /\ zap' = zap /\ atomic' = [atomic EXCEPT ![zap[s].level] = Zap!convertToZapLevel(level)]
      BY <2>2, <3>1, RetunedLoggers
    <3> QED
      BY <3>1, <3>2, <3>3, <3>4 DEF SameLevel
  <2>3. ASSUME NEW s \in Logger, Reconfigure(s) PROVE SameLevel'
    <3>1. Loggers' = Loggers
      BY <2>3, ReconfigureTyped
    <3> QED
      BY <2>3, <3>1, RebuiltLoggers DEF SameLevel
  <2>4. CASE UNCHANGED vars
    BY <2>4 DEF vars, backends, SameLevel, Loggers
  <2> QED
    BY <2>1, <2>2, <2>3, <2>4 DEF Next
<1> QED
  BY <1>1, <1>2, TypedInductive, PTL DEF Spec

\* What a slog logger writes if its handler has its own level: what the level
\* lets through, and all from error on.
LEMMA SlogGate ==
  ASSUME NEW level \in LogLevel
  PROVE  {l \in Slog!LogLevel : Slog!convertToSlogLevel(l) >= Slog!convertToSlogLevel(level)}
           = {l \in Slog!LogLevel : l >= level} \cup (ErrorLevel .. PanicLevel)
  BY DEF LogLevel, Slog!LogLevel, Slog!DebugLevel, Slog!PanicLevel, Slog!ErrorLevel,
         Slog!convertToSlogLevel

\* ShouldLog guards the building of costly messages.  It says what is written by
\* zap (zap_logger.go: ShouldLog, Clone), but for loggers that come from a Clone
\* once a level was set on one of several, and all zap loggers write the same.
\* With slog (slog_logger.go: ShouldLog, SetLevel, SetFormat, SetOutput) all from
\* error on is written besides, which ShouldLog denies of a logger set to fatal or
\* panic; a handler built by SetFormat or SetOutput after a level was set on one
\* of several may have any level.
THEOREM ShouldLogIsTruthful == Spec => []ShouldLogTruthful
<1>1. TypeOK /\ GatesTrue /\ SameLevel => ShouldLogTruthful
  <2> SUFFICES ASSUME TypeOK, GatesTrue, SameLevel, NEW s \in Loggers
               PROVE  /\ s \notin cloned \/ ~retuned => Zap!ShouldLog(s) = Zap!Writes(s)
                      /\ \A t \in Loggers : Zap!Writes(s) = Zap!Writes(t)
                      /\ s \notin reread \/ ~retuned
                           => Slog!Writes(s) = Slog!ShouldLog(s) \cup (ErrorLevel .. PanicLevel)
    BY DEF ShouldLogTruthful
  <2>1. s \notin cloned \/ ~retuned => Zap!ShouldLog(s) = Zap!Writes(s)
    <3>1. s \notin cloned \/ ~retuned => atomic[zap[s].core] = atomic[zap[s].level]
      BY DEF GatesTrue, SameLevel
    <3> QED
      BY <3>1 DEF Zap!ShouldLog, Zap!Writes
  <2>2. \A t \in Loggers : Zap!Writes(s) = Zap!Writes(t)
    BY DEF GatesTrue, Zap!Writes
  <2>3. s \notin reread \/ ~retuned
          => Slog!Writes(s) = Slog!ShouldLog(s) \cup (ErrorLevel .. PanicLevel)
    <3>1. slog[s].level \in LogLevel
      BY DEF TypeOK, Value
    <3>2. s \notin reread \/ ~retuned => slog[s].gate = Slog!convertToSlogLevel(slog[s].level)
      BY DEF GatesTrue, SameLevel, Slog!convertToSlogLevel, Slog!ErrorLevel
    <3> QED
      BY <3>1, <3>2, SlogGate DEF Slog!ShouldLog, Slog!Writes
  <2> QED
    BY <2>1, <2>2, <2>3
<1> QED
  BY <1>1, TypedInductive, GatesInductive, SameLevelInductive, PTL

\* zap's numbers are those of LogLevel up to error, and above that each level
\* has one of its own.
LEMMA ZapNumbers ==
  ASSUME NEW level \in LogLevel, level <= ErrorLevel
  PROVE  /\ \A l \in Zap!LogLevel : Zap!convertToZapLevel(l) = Zap!convertToZapLevel(level) <=> l = level
         /\ \A l \in Zap!LogLevel : Zap!convertToZapLevel(l) >= Zap!convertToZapLevel(level) <=> l >= level
         /\ level \in Zap!LogLevel
  BY DEF LogLevel, Zap!LogLevel, Zap!DebugLevel, Zap!PanicLevel, Zap!FatalLevel, Zap!convertToZapLevel

\* The convertTo functions of the three files agree up to error, and New, With
\* and Clone carry the level along.
THEOREM BackendsAreAlike == Spec => []BackendsAgree
<1>1. TypeOK /\ GatesTrue /\ SameLevel => BackendsAgree
  <2> SUFFICES ASSUME TypeOK, GatesTrue, SameLevel, ~retuned, NEW s \in Loggers,
                      NEW level, level = zerolog[s].level, level <= ErrorLevel
               PROVE  /\ Zap!GetLevel(s) = level /\ Slog!GetLevel(s) = level
                      /\ Zap!ShouldLog(s) = Zerolog!ShouldLog(s) /\ Slog!ShouldLog(s) = Zerolog!ShouldLog(s)
                      /\ Zap!Writes(s) = Zerolog!Writes(s) /\ Slog!Writes(s) = Zerolog!Writes(s)
    BY DEF BackendsAgree, Zerolog!GetLevel
  <2>1. level \in LogLevel
    BY DEF TypeOK, Value
  <2>2. /\ slog[s].level = level /\ slog[s].gate = Slog!convertToSlogLevel(level)
        /\ atomic[zap[s].level] = Zap!convertToZapLevel(level)
        /\ atomic[zap[s].core] = Zap!convertToZapLevel(level)
        /\ zerolog[s].gate = level
    BY DEF SameLevel, GatesTrue
  <2>3. Zap!GetLevel(s) = level /\ Slog!GetLevel(s) = level
    <3>1. \A l \in Zap!LogLevel : Zap!convertToZapLevel(l) = atomic[zap[s].level] <=> l = level
      BY <2>1, <2>2, ZapNumbers
    <3> QED
      BY <2>1, <2>2, <3>1, ZapNumbers DEF Zap!GetLevel, Slog!GetLevel
  <2> DEFINE Above == {l \in LogLevel : l >= level}
  <2>4. Zap!LogLevel = LogLevel /\ Slog!LogLevel = LogLevel /\ Zerolog!LogLevel = LogLevel
    BY DEF LogLevel, Zap!LogLevel, Zap!DebugLevel, Zap!PanicLevel, Slog!LogLevel, Slog!DebugLevel,
           Slog!PanicLevel, Zerolog!LogLevel, Zerolog!DebugLevel, Zerolog!PanicLevel
  <2>5. Zap!ShouldLog(s) = Above /\ Zap!Writes(s) = Above
    BY <2>1, <2>2, <2>4, ZapNumbers DEF Zap!ShouldLog, Zap!Writes
  <2>6. Slog!ShouldLog(s) = Above /\ Slog!Writes(s) = Above
    BY <2>1, <2>2, <2>4, SlogWrites DEF Slog!ShouldLog, Slog!Writes
  <2>7. Zerolog!ShouldLog(s) = Above /\ Zerolog!Writes(s) = Above
    BY <2>1, <2>2, <2>4 DEF Zerolog!ShouldLog, Zerolog!Writes, Zerolog!convertToZerologLevel, LogLevel
  <2> QED
    BY <2>3, <2>5, <2>6, <2>7
<1> QED
  BY <1>1, TypedInductive, GatesInductive, SameLevelInductive, PTL

\* A handler copies the options it is built from: what SetLevel writes into the
\* shared HandlerOptions reaches no other logger that is not built again.
THEOREM SlogLoggersAreIsolated == Spec => SlogIsolated
<1>1. TypeOK /\ [Next]_vars =>
        [\A s \in Loggers :
           \/ Slog!Writes(s)' = Slog!Writes(s) /\ slog'[s].fields = slog[s].fields
           \/ Reconfigure(s)
           \/ \E level \in Settable : SetLevel(s, level)]_vars
  <2> SUFFICES ASSUME TypeOK, Next, NEW x \in Loggers, ~Reconfigure(x),
                      ~ \E level \in Settable : SetLevel(x, level)
               PROVE  slog'[x] = slog[x]
    BY DEF Slog!Writes, Slog!LogLevel, Slog!convertToSlogLevel, Slog!DebugLevel, Slog!PanicLevel,
           Slog!ErrorLevel
  <2>1. ASSUME NEW s \in Logger, NEW t \in Logger, With(s, t) \/ Clone(s, t)
        PROVE  slog'[x] = slog[x]
    BY <2>1 DEF With, Clone, Slog!With, Slog!Clone, Slog!Extended, TypeOK
  <2>2. ASSUME NEW s \in Logger, NEW level \in Settable, SetLevel(s, level)
        PROVE  slog'[x] = slog[x]
    BY <2>2, RetunedLoggers, SettableAssumption
  <2>3. ASSUME NEW s \in Logger, Reconfigure(s) PROVE slog'[x] = slog[x]
    BY <2>3, RebuiltLoggers
  <2> QED
    BY <2>1, <2>2, <2>3 DEF Next
<1> QED
  BY <1>1, TypedInductive, PTL DEF Spec, SlogIsolated

-----------------------------------------------------------------------------
(* zerolog's loggers are what the interface promises.                      *)

\* A zerolog logger as its contract sees it.
LEMMA ZerologValues ==
  ASSUME NEW level \in LogLevel
  PROVE  /\ {l \in Zerolog!LogLevel : Zerolog!convertToZerologLevel(l) >= level} = Contract!From(level)
         /\ {l \in Zerolog!LogLevel : level <= l} = Contract!From(level)
         /\ level \in Contract!LogLevel
  BY DEF LogLevel, Zerolog!LogLevel, Zerolog!DebugLevel, Zerolog!PanicLevel, Contract!LogLevel,
         Contract!DebugLevel, Contract!PanicLevel, Contract!From, Zerolog!convertToZerologLevel

Promised(level, fields) ==
  [writes |-> Contract!From(level), says |-> Contract!From(level), fields |-> fields]

LEMMA PromisedWith ==
  ASSUME NEW level, NEW fields, NEW f
  PROVE  [Promised(level, fields) EXCEPT !.fields = @ \cup f] = Promised(level, fields \cup f)
<1> DEFINE r == Promised(level, fields)
           w == Contract!From(level)
<1>1. /\ r \in [writes : {w}, says : {w}, fields : {fields}]
      /\ r.writes = w /\ r.says = w /\ r.fields = fields
  BY DEF Promised
<1>2. [writes |-> w, says |-> w, fields |-> fields \cup f] = Promised(level, fields \cup f)
  BY DEF Promised
<1> HIDE DEF r, w
<1>3. [r EXCEPT !.fields = @ \cup f] = [writes |-> r.writes, says |-> r.says, fields |-> r.fields \cup f]
  BY <1>1
<1> QED
  BY <1>1, <1>2, <1>3 DEF r

Mapped == Zerolog!Contract = [x \in Loggers |-> Promised(zerolog[x].level, zerolog[x].fields)]

LEMMA ContractMapped == TypeOK /\ GatesTrue => Mapped
<1> SUFFICES ASSUME TypeOK, GatesTrue, NEW x \in Loggers
             PROVE  Zerolog!Writes(x) = Contract!From(zerolog[x].level)
                    /\ Zerolog!ShouldLog(x) = Contract!From(zerolog[x].level)
  BY DEF Mapped, Promised, Zerolog!Contract, Loggers
<1>1. zerolog[x].level \in LogLevel /\ zerolog[x].gate = zerolog[x].level
  BY DEF TypeOK, Value, GatesTrue
<1> QED
  BY <1>1, ZerologValues DEF Zerolog!Writes, Zerolog!ShouldLog

\* zerolog.Logger is a value and SetLevel replaces it (zerolog_logger.go), so
\* that a derived logger has a life of its own, as the Logger interface has it.
THEOREM ZerologImplements == Spec => ZerologImplementsContract
<1>1. TypeOK' /\ GatesTrue' => Mapped'
  BY ContractMapped, PTL
<1>2. Init => Contract!Init
  <2> SUFFICES ASSUME NEW root \in Logger, NEW level \in LogLevel, Zerolog!New(root, level)
               PROVE  Zerolog!Contract
                        = [s \in {root} |-> [writes |-> Contract!From(level),
                                             says |-> Contract!From(level), fields |-> {}]]
                      /\ level \in Contract!LogLevel
    BY ZerologValues, SettableAssumption DEF Init, Contract!Init
  <2>1. DOMAIN zerolog = {root} /\ zerolog[root].level = level /\ zerolog[root].gate = level
        /\ zerolog[root].fields = {}
    BY Levels DEF Zerolog!New
  <2>2. Zerolog!Writes(root) = Contract!From(level) /\ Zerolog!ShouldLog(root) = Contract!From(level)
    BY <2>1, ZerologValues DEF Zerolog!Writes, Zerolog!ShouldLog
  <2> QED
    BY <2>1, <2>2, ZerologValues DEF Zerolog!Contract
<1>3. TypeOK /\ GatesTrue /\ TypeOK' /\ GatesTrue' /\ [Next]_vars
        => [Contract!Next]_(Zerolog!Contract)
  <2> SUFFICES ASSUME TypeOK, GatesTrue, TypeOK', GatesTrue', [Next]_vars
               PROVE  Contract!Next \/ Zerolog!Contract' = Zerolog!Contract
    OBVIOUS
  <2> DEFINE old == Zerolog!Contract
             new == Zerolog!Contract'
  <2>1. /\ old = [x \in Loggers |-> Promised(zerolog[x].level, zerolog[x].fields)]
        /\ new = [x \in Loggers' |-> Promised(zerolog'[x].level, zerolog'[x].fields)]
    BY <1>1, ContractMapped DEF Mapped, Promised, Contract!From, Contract!PanicLevel
  <2>2. ASSUME NEW s \in Logger, NEW t \in Logger, With(s, t) \/ Clone(s, t)
        PROVE  Contract!Next
    <3>1. s \in Loggers /\ t \notin Loggers /\ Loggers' = Loggers \cup {t}
      BY <2>2, WithTyped, CloneTyped DEF With, Clone
    <3> DEFINE f == Added(t, s, t)
    <3>2. zerolog'[t].level = zerolog[s].level /\ zerolog'[t].fields = zerolog[s].fields \cup f
      BY <2>2, DerivedLevels, DerivedFields DEF Origin
    <3>3. \A x \in Loggers : zerolog'[x].level = zerolog[x].level /\ zerolog'[x].fields = zerolog[x].fields
      <4> SUFFICES ASSUME NEW x \in Loggers
                   PROVE  zerolog'[x].level = zerolog[x].level /\ zerolog'[x].fields = zerolog[x].fields
        OBVIOUS
      <4>1. Origin(x, s, t) = x /\ Added(x, s, t) = {}
        BY <3>1 DEF Origin, Added
      <4> DEFINE o == Origin(x, s, t)
                 g == Added(x, s, t)
      <4>2. zerolog'[x].level = zerolog[o].level
        BY <2>2, DerivedLevels
      <4>3. zerolog'[x].fields = zerolog[o].fields \cup g
        BY <2>2, DerivedFields
      <4> HIDE DEF o, g
      <4> QED
        BY <4>1, <4>2, <4>3 DEF o, g
    <3>4. f \in {{}, {t}}
      BY DEF Added
    <3> HIDE DEF f
    <3>5. new = Contract!Extended(old, t, [old[s] EXCEPT !.fields = @ \cup f])
      <4>1. [old[s] EXCEPT !.fields = @ \cup f]
              = Promised(zerolog[s].level, zerolog[s].fields \cup f)
        <5> DEFINE level == zerolog[s].level
                   fields == zerolog[s].fields
        <5>1. old[s] = Promised(level, fields)
          BY <2>1, <3>1
        <5> HIDE DEF old, level, fields
        <5>2. [Promised(level, fields) EXCEPT !.fields = @ \cup f] = Promised(level, fields \cup f)
          BY PromisedWith
        <5> QED
          BY <5>1, <5>2 DEF level, fields
      <4>2. DOMAIN old = Loggers
        BY <2>1
      <4>3. new = [x \in Loggers \cup {t} |->
                     IF x = t THEN Promised(zerolog[s].level, zerolog[s].fields \cup f) ELSE old[x]]
        BY <2>1, <3>1, <3>2, <3>3
      <4> HIDE DEF old, new
      <4> QED
        BY <4>1, <4>2, <4>3 DEF Contract!Extended
    <3>6. Contract!Derive(s, t)
      BY <2>1, <3>1, <3>4, <3>5 DEF Contract!Derive
    <3> QED
      BY <3>6 DEF Contract!Next
  <2>3. ASSUME NEW s \in Logger, NEW level \in Settable, SetLevel(s, level)
        PROVE  Contract!Next
    <3>1. level \in LogLevel /\ Loggers' = Loggers
      BY <2>3, SetLevelTyped, SettableAssumption
    <3>2. /\ s \in Loggers /\ zerolog'[s].level = level /\ zerolog'[s].fields = zerolog[s].fields
          /\ \A x \in Loggers \ {s} : zerolog'[x] = zerolog[x]
      BY <2>3, <3>1, RetunedLoggers
    <3>3. new = [old EXCEPT ![s] = Promised(level, zerolog[s].fields)]
      BY <2>1, <3>1, <3>2
    <3>4. new = [old EXCEPT ![s].writes = Contract!From(level), ![s].says = Contract!From(level)]
      BY <2>1, <3>2, <3>3 DEF Promised
    <3>5. Contract!SetLevel(s)
      BY <2>1, <3>1, <3>2, <3>4, ZerologValues DEF Contract!SetLevel
    <3> QED
      BY <3>5 DEF Contract!Next
  <2>4. ASSUME NEW s \in Logger, Reconfigure(s) PROVE new = old
    BY <2>1, <2>4, RebuiltLoggers, ReconfigureTyped
  <2>5. CASE UNCHANGED vars
    BY <2>1, <2>5 DEF vars, backends, Loggers
  <2> QED
    BY <2>2, <2>3, <2>4, <2>5 DEF Next
<1> QED
  BY <1>2, <1>3, TypedInductive, GatesInductive, PTL DEF Spec, ZerologImplementsContract, Contract!Spec
=============================================================================
