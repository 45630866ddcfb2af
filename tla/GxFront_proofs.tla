--------------------------- MODULE GxFront_proofs ---------------------------
(***************************************************************************)
(* Theorems about the front end, for every set of worlds.                  *)
(*                                                                         *)
(* Precedence says in one formula which source a setting is taken from.    *)
(* The code has no such formula: it visits the sources one after the other *)
(* and each visit changes only what is not known.  The invariant Visited   *)
(* says, for each place of Configure, that the settings are those of the   *)
(* sources visited so far.                                                 *)
(***************************************************************************)
EXTENDS GxFront, SequenceTheorems, WellFoundedInduction, TLAPS

-----------------------------------------------------------------------------
(* Types.  A file is only read if it exists.                               *)
TypeInv ==
    /\ TypeOK /\ world \in World
    /\ pc = "file" => next = 1
    /\ pc = "read" => config \in DOMAIN world.files

LEMMA WorldTypes ==
    ASSUME world \in World
    PROVE  /\ Len(world.argv) \in Nat /\ DOMAIN world.argv = 1 .. Len(world.argv)
           /\ \A i \in 1 .. Len(world.argv) :
                world.argv[i].opt = "set" => world.argv[i].key \in Setting \cup {"GCCXML_CONFIG"}
           /\ "" \notin DOMAIN world.files
  BY WorldAssumption DEF IsSequence

LEMMA OptionTypes ==
    ASSUME world \in World, MoreOptions, next \in Nat \ {0}
    PROVE  /\ next \in 1 .. Len(world.argv)
           /\ Option.opt = "set" => Option.key \in Setting \cup {"GCCXML_CONFIG"}
<1>1. next \in 1 .. Len(world.argv)
  <2>1. Len(world.argv) \in Nat
    BY WorldTypes
  <2> QED
    BY <2>1 DEF MoreOptions
<1> QED
  BY <1>1, WorldTypes DEF Option

LEMMA LineTypes ==
    ASSUME TypeInv, pc = "read"
    PROVE  /\ Len(Lines) \in Nat /\ DOMAIN Lines = 1 .. Len(Lines)
           /\ \A i \in 1 .. Len(Lines) : Lines[i].line = "set" => Lines[i].key \in Setting
  BY WorldAssumption DEF IsSequence, TypeInv, Lines

(* The file to read is named, found, or there is none.                     *)
LEMMA FileOpened ==
    ASSUME CheckConfigFile
    PROVE  /\ pc' \in {"late", "read", "failed"}
           /\ config' = IF config = "" THEN FoundConfig ELSE config
           /\ pc' = "read" => config' \in DOMAIN world.files
           /\ pc' = "late" => config' = ""
  BY DEF CheckConfigFile

(* A visit leaves the settings a function.                                 *)
LEMMA TakenTypes ==
    ASSUME TypeInv, NEW source, TakeUnknown(source)
    PROVE  settings' = [k \in Setting |-> settings'[k]] /\ haveCxxflags' \in BOOLEAN
  BY DEF TypeInv, TypeOK, TakeUnknown

LEMMA InitTyped == ASSUME Init PROVE TypeInv
<1>1. world \in World /\ Len(world.argv) \in Nat
  BY WorldTypes, Zenon DEF Init, ConfigInit
<1>2. settings = [k \in Setting |-> settings[k]]
  BY Zenon DEF Init, ConfigInit
<1>3. /\ pc = "argv" /\ next = 1 /\ child = "none" /\ childStatus = 2 /\ exit = 2
      /\ haveCxxflags \in BOOLEAN /\ haveRoot \in BOOLEAN /\ checkedEnvironment \in BOOLEAN
      /\ flagsFound \in BOOLEAN /\ guess = {}
  BY DEF Init, ConfigInit, NotYet
<1> QED
  BY <1>1, <1>2, <1>3 DEF TypeInv, TypeOK, Status, NotYet

LEMMA ConfigPlaces ==
    ASSUME ConfigNext
    PROVE  /\ pc \in {"argv", "file", "read", "late", "cxx", "defaults"}
           /\ pc' \in {"argv", "file", "read", "late", "cxx", "defaults", "configured", "failed"}
           /\ world' = world
<1>1. CASE OtherOption
  BY <1>1, Zenon DEF OtherOption, MoreOptions
<1>2. CASE CheckEnvironmentFirst \/ CheckConfigFile \/ CheckEnvironmentLate
  BY <1>2 DEF CheckEnvironmentFirst, CheckConfigFile, CheckEnvironmentLate
<1>3. CASE ReadLine \/ EndOfFile \/ CheckCxxEnvironment \/ SetDefaults
  BY <1>3 DEF ReadLine, EndOfFile, CheckCxxEnvironment, SetDefaults, configVars
<1>4. CASE SetOption \/ ReadArgumentFile \/ BadOption
  BY <1>4 DEF SetOption, ReadArgumentFile, BadOption, MoreOptions, configVars
<1> QED
  BY <1>1, <1>2, <1>3, <1>4 DEF ConfigNext

LEMMA ConfigTyped ==
    ASSUME TypeInv, ConfigNext, UNCHANGED mainVars
    PROVE  TypeInv'
<1> USE DEF TypeInv, TypeOK, configVars, mainVars
<1>0. Len(world.argv) \in Nat
  BY WorldTypes
<1>1. CASE SetOption
  BY <1>0, <1>1, OptionTypes DEF SetOption, MoreOptions
<1>2. CASE ReadArgumentFile
  BY <1>0, <1>2, OptionTypes DEF ReadArgumentFile, MoreOptions
<1>3. CASE OtherOption
  <2>1. MoreOptions /\ next' = next + 1
        /\ UNCHANGED <<world, pc, settings, config, haveCxxflags, haveRoot, checkedEnvironment>>
    BY <1>3, Zenon DEF OtherOption
  <2> QED
    BY <1>0, <2>1, OptionTypes DEF MoreOptions
<1>4. CASE BadOption
  BY <1>4 DEF BadOption, MoreOptions
<1>5. CASE CheckEnvironmentFirst
  <2>1. settings' = [k \in Setting |-> settings'[k]] /\ haveCxxflags' \in BOOLEAN
        /\ checkedEnvironment' \in BOOLEAN
    BY <1>5, TakenTypes DEF CheckEnvironmentFirst, CheckEnvironment
  <2>2. pc' = "file" /\ next' = 1 /\ UNCHANGED <<world, haveRoot, mainVars>>
    BY <1>5 DEF CheckEnvironmentFirst
  <2> QED
    BY <2>1, <2>2
<1>6. CASE CheckConfigFile
  <2>1. /\ pc' \in {"late", "read", "failed"}
        /\ pc' = "read" => config' \in DOMAIN world.files
    BY <1>6, FileOpened
  <2>2. pc = "file" /\ UNCHANGED <<world, settings, haveCxxflags, haveRoot, checkedEnvironment, next>>
    BY <1>6, Zenon DEF CheckConfigFile
  <2>3. pc' = "read" => Len(Lines') \in Nat
    BY <2>1, <2>2, WorldAssumption DEF IsSequence, Lines
  <2> QED
    BY <2>1, <2>2, <2>3
<1>7. CASE ReadLine
  BY <1>7, LineTypes, TakenTypes DEF ReadLine, Lines
<1>8. CASE EndOfFile
  BY <1>8 DEF EndOfFile
<1>9. CASE CheckEnvironmentLate
  BY <1>9, TakenTypes DEF CheckEnvironmentLate, CheckEnvironment
<1>10. CASE CheckCxxEnvironment
  <2>1. settings' = [k \in Setting |-> settings'[k]] /\ haveCxxflags' \in BOOLEAN
    BY <1>10, TakenTypes DEF CheckCxxEnvironment
  <2> QED
    BY <1>10, <2>1 DEF CheckCxxEnvironment
<1>11. CASE SetDefaults
  BY <1>11 DEF SetDefaults
<1> QED
  BY <1>1, <1>2, <1>3, <1>4, <1>5, <1>6, <1>7, <1>8, <1>9, <1>10, <1>11 DEF ConfigNext

(* The steps of main change neither the settings, but for the flags that   *)
(* are guessed, nor what they were found in.                               *)
MainNext ==
    \/ ConfigureFails \/ Inform \/ FlagsGiven \/ FlagsNotFound
    \/ FindFlagsGCC \/ FindFlagsScript
    \/ PrintConfiguration \/ NothingToDo \/ CannotRun
    \/ Execute \/ ChildExits \/ Waited

LEMMA NextIs == Next <=> Configure \/ MainNext \/ Exited
  BY DEF Next, MainNext

LEMMA MainKeeps ==
    ASSUME MainNext
    PROVE  /\ UNCHANGED <<world, config, haveCxxflags, haveRoot, arguments, shows,
                          checkedEnvironment, next>>
           /\ pc \in {"failed", "configured", "flags", "wait"}
           /\ pc' \in {"flags", "wait", "exit"}
           /\ \/ UNCHANGED settings
              \/ /\ pc = "configured" /\ pc' = "flags"
                 /\ settings["GCCXML_FLAGS"] = ""
                 /\ settings' = [settings EXCEPT !["GCCXML_FLAGS"] = "guessed"]
<1>1. CASE FindFlagsGCC
  <2>1. \E parts : Guessed(parts)
    BY <1>1, Zenon DEF FindFlagsGCC
  <2> QED
    BY <2>1 DEF Guessed, StartFlags
<1>2. CASE FindFlagsScript
  BY <1>2 DEF FindFlagsScript, Guessed, StartFlags
<1>3. CASE ~FindFlagsGCC /\ ~FindFlagsScript
  BY <1>3 DEF MainNext, ConfigureFails, Inform, FlagsGiven, FlagsNotFound, StartFlags, ToDo,
              PrintConfiguration, NothingToDo, CannotRun, Execute, ChildExits, Waited, configVars
<1> QED
  BY <1>1, <1>2, <1>3

(* The parser is waited for only after the flags have been looked for.     *)
LEMMA MainSettled ==
    ASSUME MainNext
    PROVE  pc' \in {"flags", "wait"} => pc \in {"configured", "flags", "wait"}
<1>1. CASE ConfigureFails
  BY <1>1 DEF ConfigureFails
<1>2. CASE FindFlagsGCC
  <2>1. \E parts : Guessed(parts)
    BY <1>2, Zenon DEF FindFlagsGCC
  <2> QED
    BY <2>1 DEF Guessed, StartFlags
<1>3. CASE ~ConfigureFails /\ ~FindFlagsGCC
  BY <1>3 DEF MainNext, Inform, FlagsGiven, FlagsNotFound, StartFlags, FindFlagsScript, Guessed,
              ToDo, PrintConfiguration, NothingToDo, CannotRun, Execute, ChildExits, Waited
<1> QED
  BY <1>1, <1>2, <1>3

LEMMA MainTyped ==
    ASSUME TypeInv, MainNext
    PROVE  TypeInv'
<1>1. settings' = [k \in Setting |-> settings'[k]]
  BY MainKeeps DEF TypeInv, TypeOK
<1>2. /\ flagsFound' \in BOOLEAN /\ guess' \subseteq {"macros", "wrappers", "includes", "script"}
      /\ child' \in {"none", "running", "exited", "lost"}
      /\ childStatus' \in Status \cup {NotYet} /\ exit' \in Status \cup {NotYet}
  BY DEF TypeInv, TypeOK, MainNext, ConfigureFails, Inform, FlagsGiven, FlagsNotFound,
         FindFlagsGCC, FindFlagsScript, Guessed, PrintConfiguration, NothingToDo,
         CannotRun, Execute, ChildExits, Waited, ChildResult, Status, NotYet
<1> QED
  BY <1>1, <1>2, MainKeeps DEF TypeInv, TypeOK

(* The front end is type correct in all worlds: it reads no option after   *)
(* the last one and no line after the end of the file.                     *)
THEOREM TypeInductive == Spec => []TypeInv
<1>1. Init => TypeInv
  BY InitTyped
<1>2. TypeInv /\ [Next]_vars => TypeInv'
  <2> SUFFICES ASSUME TypeInv, [Next]_vars PROVE TypeInv'
    OBVIOUS
  <2>1. CASE Configure
    BY <2>1, ConfigTyped DEF Configure
  <2>2. CASE MainNext
    BY <2>2, MainTyped
  <2>3. CASE Exited \/ UNCHANGED vars
    BY <2>3 DEF Exited, vars, configVars, mainVars, TypeInv, TypeOK, Lines
  <2> QED
    BY <2>1, <2>2, <2>3, NextIs
<1> QED
  BY <1>1, <1>2, PTL DEF Spec

THEOREM TypeCorrect == Spec => []TypeOK
<1>1. TypeInv => TypeOK
  BY DEF TypeInv
<1> QED
  BY <1>1, TypeInductive, PTL

-----------------------------------------------------------------------------
(* The parser and the exit status.                                         *)

(* No parser before "wait" and no exit status before "exit"; flags that    *)
(* are found are there.                                                    *)
Running ==
    /\ pc \notin {"wait", "exit"} => child = "none"
    /\ pc = "wait" => child # "none"
    /\ pc # "exit" => exit = NotYet
    /\ pc = "flags" /\ flagsFound => settings["GCCXML_FLAGS"] # ""
    /\ NeverRunBlind /\ ExitTellsTheTruth

LEMMA RunningInductive == Spec => []Running
<1>1. Init => Running
  BY DEF Init, ConfigInit, Running, NeverRunBlind, ExitTellsTheTruth, NotYet
<1>2. TypeInv /\ Running /\ [Next]_vars => Running'
  <2> SUFFICES ASSUME TypeInv, Running, [Next]_vars PROVE Running'
    OBVIOUS
  <2>1. CASE Configure
    <3>1. pc \in {"argv", "file", "read", "late", "cxx", "defaults"}
          /\ pc' \in {"argv", "file", "read", "late", "cxx", "defaults", "configured", "failed"}
      BY <2>1, ConfigPlaces DEF Configure
    <3>2. UNCHANGED <<flagsFound, guess, child, childStatus, exit>>
      BY <2>1 DEF Configure, mainVars
    <3>3. child = "none" /\ exit = 2
      BY <3>1 DEF Running, NotYet
    <3>4. pc' \notin {"wait", "exit", "flags"} /\ child' = "none" /\ exit' = 2
      BY <3>1, <3>2, <3>3
    <3>5. NeverRunBlind'
      BY <3>4 DEF NeverRunBlind
    <3>6. ExitTellsTheTruth'
      <4>1. exit' # 0
        BY <3>4
      <4> QED
        BY <4>1, Zenon DEF ExitTellsTheTruth
    <3> QED
      BY <3>4, <3>5, <3>6 DEF Running, NotYet
  <2>2. CASE MainNext
    <3>1. CASE ConfigureFails \/ Inform
      BY <3>1 DEF ConfigureFails, Inform, configVars, Running, NeverRunBlind,
                  ExitTellsTheTruth, Selected, NotYet
    <3>2. CASE FlagsGiven \/ FlagsNotFound
      BY <3>2 DEF FlagsGiven, FlagsNotFound, StartFlags, configVars, Running, NeverRunBlind,
                  ExitTellsTheTruth, Selected, NotYet
    <3>3. CASE FindFlagsGCC \/ FindFlagsScript
      <4>1. \E parts : Guessed(parts)
        BY <3>3, Zenon DEF FindFlagsGCC, FindFlagsScript
      <4>2. settings'["GCCXML_FLAGS"] = "guessed"
        <5>1. DOMAIN settings = Setting
          BY DEF TypeInv, TypeOK
        <5> QED
          BY <4>1, <5>1 DEF Guessed, Setting
      <4> QED
        BY <4>1, <4>2 DEF Guessed, StartFlags, Running, NeverRunBlind, ExitTellsTheTruth, NotYet
    <3>4. CASE PrintConfiguration \/ NothingToDo \/ CannotRun
      BY <3>4 DEF PrintConfiguration, NothingToDo, CannotRun, ToDo, configVars, Running,
                  NeverRunBlind, ExitTellsTheTruth, Selected, NotYet
    <3>5. CASE Execute
      BY <3>5 DEF Execute, ToDo, configVars, Running, NeverRunBlind, ExitTellsTheTruth,
                  Selected, NotYet
    <3>6. CASE ChildExits
      BY <3>6 DEF ChildExits, configVars, Running, NeverRunBlind, ExitTellsTheTruth,
                  Selected, NotYet
    <3>7. CASE Waited
      BY <3>7 DEF Waited, ChildResult, configVars, Running, NeverRunBlind, ExitTellsTheTruth,
                  Selected, NotYet, TypeInv, TypeOK
    <3> QED
      BY <2>2, <3>1, <3>2, <3>3, <3>4, <3>5, <3>6, <3>7 DEF MainNext
  <2>3. CASE Exited \/ UNCHANGED vars
    <3>1. UNCHANGED <<pc, settings, shows, arguments, flagsFound, child, childStatus, exit>>
      BY <2>3 DEF Exited, vars, configVars, mainVars
    <3> QED
      BY <3>1 DEF Running, NeverRunBlind, ExitTellsTheTruth, Selected
  <2> QED
    BY <2>1, <2>2, <2>3, NextIs
<1> QED
  BY <1>1, <1>2, TypeInductive, PTL DEF Spec

(* In no world is the parser run without flags or without a program.       *)
THEOREM ParserHasFlags == Spec => []NeverRunBlind
<1>1. Running => NeverRunBlind
  BY DEF Running
<1> QED
  BY <1>1, RunningInductive, PTL

(* Exit status 0 means that what was asked for has been done: whatever the *)
(* command line asks for, whatever becomes of the parser.                  *)
THEOREM ZeroMeansDone == Spec => []ExitTellsTheTruth
<1>1. Running => ExitTellsTheTruth
  BY DEF Running
<1> QED
  BY <1>1, RunningInductive, PTL

-----------------------------------------------------------------------------
(* Sources and what is chosen from them.                                   *)

Settling(k, sources) ==
    {i \in DOMAIN sources : k \in DOMAIN sources[i] /\ Settles(k, sources[i][k])}
IsChosen(k, v, sources) ==
    \/ v = "" /\ Settling(k, sources) = {}
    \/ \E i \in Settling(k, sources) :
          v = sources[i][k] /\ \A j \in Settling(k, sources) : i <= j

(* The settings, and haveCxxflags, are those of these sources.             *)
AreFrom(values, have, sources) ==
    /\ \A k \in Setting : IsChosen(k, values[k], sources)
    /\ have <=> \E i \in DOMAIN sources : "GCCXML_CXXFLAGS" \in DOMAIN sources[i]

LEMMA ChosenIs ==
    ASSUME NEW k, NEW v, NEW sources, DOMAIN sources \subseteq Nat, IsChosen(k, v, sources)
    PROVE  v = Chosen(k, sources)
<1> DEFINE at == Settling(k, sources)
<1>0. Chosen(k, sources) =
          IF at = {} THEN "" ELSE sources[CHOOSE i \in at : \A j \in at : i <= j][k]
  BY DEF Chosen, Settling
<1>1. CASE at = {}
  BY <1>0, <1>1 DEF IsChosen
<1>2. CASE at # {}
  <2>1. PICK i \in at : v = sources[i][k] /\ \A j \in at : i <= j
    BY <1>2 DEF IsChosen
  <2>2. \A l \in at : (\A j \in at : l <= j) => l = i
    <3>1. at \subseteq Nat
      BY DEF Settling
    <3> HIDE DEF at
    <3> QED
      BY <2>1, <3>1
  <2> HIDE DEF at
  <2>3. (CHOOSE l \in at : \A j \in at : l <= j) = i
    BY <2>1, <2>2
  <2> QED
    BY <1>0, <1>2, <2>1, <2>3
<1> QED
  BY <1>1, <1>2

(* Known(k) says that a source visited so far settles the setting.         *)
LEMMA KnownIs ==
    ASSUME NEW sources, AreFrom(settings, haveCxxflags, sources), NEW k \in Setting
    PROVE  /\ Known(k) <=> Settling(k, sources) # {}
           /\ ~Known(k) => settings[k] = ""
<1>1. IsChosen(k, settings[k], sources)
  BY DEF AreFrom
<1>2. CASE k = "GCCXML_CXXFLAGS"
  BY <1>1, <1>2 DEF Known, AreFrom, Settling, Settles, IsChosen
<1>3. CASE k # "GCCXML_CXXFLAGS"
  <2>1. settings[k] = "" <=> Settling(k, sources) = {}
    BY <1>1, <1>3 DEF IsChosen, Settling, Settles
  <2> QED
    BY <1>3, <2>1 DEF Known
<1> QED
  BY <1>2, <1>3

(* more is what is known after source has been added to what was known.    *)
Gives(k, source) == k \in DOMAIN source /\ Settles(k, source[k])
Adds(was, source, more) ==
    \A k \in Setting :
        /\ k \in DOMAIN was => Settles(k, was[k]) /\ k \in DOMAIN more /\ more[k] = was[k]
        /\ k \notin DOMAIN was /\ Gives(k, source) => k \in DOMAIN more /\ more[k] = source[k]
        /\ k \notin DOMAIN was /\ ~Gives(k, source) => ~Gives(k, more)

(* A visit to a source adds it to the sources, behind those visited before. *)
LEMMA Visit ==
    ASSUME TypeInv, NEW s, NEW t, NEW n \in 1 .. 4, DOMAIN s = 1 .. 4, DOMAIN t = 1 .. 4,
           \A i \in 1 .. 4 : i # n => t[i] = s[i],
           \A i \in n + 1 .. 4 : DOMAIN s[i] = {},
           NEW source, Adds(s[n], source, t[n]),
           AreFrom(settings, haveCxxflags, s), TakeUnknown(source)
    PROVE  AreFrom(settings', haveCxxflags', t)
<1>1. ASSUME NEW k \in Setting PROVE IsChosen(k, settings'[k], t)
  <2>0. /\ \A i \in 1 .. 4 : i \in Settling(k, s) <=> Gives(k, s[i])
        /\ \A i \in 1 .. 4 : i \in Settling(k, t) <=> Gives(k, t[i])
        /\ Settling(k, s) \subseteq 1 .. 4 /\ Settling(k, t) \subseteq 1 .. 4
        /\ \A i \in 1 .. 4 : i # n => (Gives(k, s[i]) <=> Gives(k, t[i]))
        /\ \A i \in n + 1 .. 4 : ~Gives(k, s[i])
    BY DEF Settling, Gives
  <2>1. settings'[k] = IF Known(k) \/ k \notin DOMAIN source THEN settings[k] ELSE source[k]
    BY DEF TakeUnknown
  <2>2. CASE Known(k)
    <3>1. PICK i \in Settling(k, s) :
              settings[k] = s[i][k] /\ \A j \in Settling(k, s) : i <= j
      BY <2>2, KnownIs DEF AreFrom, IsChosen
    <3>2. i \in 1 .. n
      BY <2>0, <3>1
    <3>3. i \in Settling(k, t) /\ t[i][k] = s[i][k]
      <4>1. CASE i # n
        BY <2>0, <3>1, <3>2, <4>1
      <4>2. CASE i = n
        <5>1. k \in DOMAIN s[n]
          BY <2>0, <3>1, <4>2 DEF Gives
        <5> QED
          BY <2>0, <4>2, <5>1 DEF Adds, Gives
      <4> QED
        BY <4>1, <4>2
    <3>4. \A j \in Settling(k, t) : i <= j
      <4>1. \A j \in Settling(k, t) : j # n => j \in Settling(k, s)
        BY <2>0
      <4> QED
        BY <2>0, <3>1, <3>2, <4>1
    <3> QED
      BY <2>1, <2>2, <3>1, <3>3, <3>4 DEF IsChosen
  <2>3. CASE ~Known(k)
    <3>1. Settling(k, s) = {} /\ settings[k] = ""
      BY <2>3, KnownIs
    <3>2. k \notin DOMAIN s[n]
      BY <2>0, <3>1 DEF Adds, Gives
    <3>3. \A j \in Settling(k, t) : j = n
      BY <2>0, <3>1
    <3>4. CASE Gives(k, source)
      <4>1. t[n][k] = source[k] /\ n \in Settling(k, t)
        BY <2>0, <3>2, <3>4 DEF Adds, Gives
      <4>2. settings'[k] = source[k]
        BY <2>1, <2>3, <3>4 DEF Gives
      <4>3. \A j \in Settling(k, t) : n <= j
        BY <3>3
      <4>4. \E i \in Settling(k, t) :
              settings'[k] = t[i][k] /\ \A j \in Settling(k, t) : i <= j
        BY <4>1, <4>2, <4>3
      <4> QED
        BY <4>4 DEF IsChosen
    <3>5. CASE ~Gives(k, source)
      <4>1. Settling(k, t) = {}
        BY <2>0, <3>2, <3>3, <3>5 DEF Adds
      <4>2. settings'[k] = ""
        BY <2>1, <2>3, <3>1, <3>5 DEF Gives, Settles
      <4> QED
        BY <4>1, <4>2 DEF IsChosen
    <3> QED
      BY <3>4, <3>5
  <2> QED
    BY <2>2, <2>3
<1>2. haveCxxflags' <=> \E i \in DOMAIN t : "GCCXML_CXXFLAGS" \in DOMAIN t[i]
  <2>1. "GCCXML_CXXFLAGS" \in DOMAIN t[n] <=>
            "GCCXML_CXXFLAGS" \in DOMAIN s[n] \/ "GCCXML_CXXFLAGS" \in DOMAIN source
    BY DEF Adds, Gives, Settles, Setting
  <2> QED
    BY <2>1 DEF TakeUnknown, AreFrom
<1> QED
  BY <1>1, <1>2 DEF AreFrom

(* A source with an empty domain, and a source nothing was known of, are   *)
(* added as they are.                                                      *)
LEMMA AddsToNothing ==
    ASSUME NEW was, NEW source, DOMAIN was = {}
    PROVE  Adds(was, source, source)
  BY DEF Adds, Gives

LEMMA AddsNothing ==
    ASSUME NEW was, \A k \in DOMAIN was : Settles(k, was[k])
    PROVE  Adds(was, Nowhere, was)
  BY DEF Adds, Nowhere, Gives

(* Taking nothing is taking what is unknown from an empty source.          *)
LEMMA TakeNothing ==
    ASSUME TypeInv, UNCHANGED <<settings, haveCxxflags>>
    PROVE  TakeUnknown(Nowhere)
<1>1. settings' = [k \in Setting |-> settings[k]]
  BY DEF TypeInv, TypeOK
<1>2. DOMAIN Nowhere = {}
  BY DEF Nowhere
<1>3. settings' = [k \in Setting |->
                      IF Known(k) \/ k \notin DOMAIN Nowhere THEN settings[k] ELSE Nowhere[k]]
  BY <1>1, <1>2
<1>4. haveCxxflags' = (haveCxxflags \/ "GCCXML_CXXFLAGS" \in DOMAIN Nowhere)
  <2>1. haveCxxflags \in BOOLEAN /\ "GCCXML_CXXFLAGS" \notin DOMAIN Nowhere
    BY <1>2 DEF TypeInv, TypeOK
  <2> QED
    BY <2>1
<1> QED
  BY <1>3, <1>4, Zenon DEF TakeUnknown

-----------------------------------------------------------------------------
(* The lines of a file.                                                    *)

LEMMA LeastNumber ==
    ASSUME NEW S \in SUBSET Nat, S # {}
    PROVE  \E k \in S : \A l \in S : k <= l
<1> DEFINE Smaller == OpToRel(<, Nat)
<1>1. \A l, k \in Nat : l < k => <<l, k>> \in Smaller
  BY DEF OpToRel
<1>2. IsWellFoundedOn(Smaller, Nat)
  BY NatLessThanWellFounded, Zenon
<1> HIDE DEF Smaller
<1>3. PICK k \in S : \A l \in S : ~ (<<l, k>> \in Smaller)
  BY <1>2, WFMin, Zenon
<1>4. \A l \in S : ~ (l < k)
  BY <1>1, <1>3
<1> QED
  BY <1>4

SettlingLines(k, lines) ==
    {i \in DOMAIN lines : lines[i].line = "set" /\ lines[i].key = k /\ Settles(k, lines[i].value)}

LEMMA InFileIs ==
    ASSUME NEW lines, DOMAIN lines \subseteq Nat, NEW k
    PROVE  /\ k \in DOMAIN InFile(lines) <=> k \in Setting /\ SettlingLines(k, lines) # {}
           /\ k \in DOMAIN InFile(lines) =>
                \E i \in SettlingLines(k, lines) :
                    /\ \A j \in SettlingLines(k, lines) : i <= j
                    /\ InFile(lines)[k] = lines[i].value
<1>1. InFile(lines) =
        [l \in {m \in Setting : SettlingLines(m, lines) # {}} |->
            lines[CHOOSE i \in SettlingLines(l, lines) :
                      \A j \in SettlingLines(l, lines) : i <= j].value]
  BY DEF InFile, SettlingLines
<1>2. ASSUME k \in DOMAIN InFile(lines)
      PROVE  \E i \in SettlingLines(k, lines) :
                /\ \A j \in SettlingLines(k, lines) : i <= j
                /\ InFile(lines)[k] = lines[i].value
  <2> DEFINE at == SettlingLines(k, lines)
  <2>1. at # {} /\ InFile(lines)[k] = lines[CHOOSE i \in at : \A j \in at : i <= j].value
    BY <1>1, <1>2
  <2>2. at \in SUBSET Nat
    BY DEF SettlingLines
  <2> HIDE DEF at
  <2>3. \E i \in at : \A j \in at : i <= j
    BY <2>1, <2>2, LeastNumber
  <2> QED
    BY <2>1, <2>3 DEF at
<1> QED
  BY <1>1, <1>2

(* One more line adds what the line sets.                                  *)
LEMMA LineAdded ==
    ASSUME NEW n \in Nat, NEW lines, NEW more, DOMAIN lines = 1 .. n, DOMAIN more = 1 .. n + 1,
           \A i \in 1 .. n : more[i] = lines[i]
    PROVE  /\ more[n + 1].line = "set" =>
                Adds(InFile(lines), [k \in {more[n + 1].key} |-> more[n + 1].value], InFile(more))
           /\ more[n + 1].line # "set" => Adds(InFile(lines), Nowhere, InFile(more))
<1> DEFINE source == IF more[n + 1].line = "set"
                     THEN [k \in {more[n + 1].key} |-> more[n + 1].value] ELSE Nowhere
<1>1. ASSUME NEW k \in Setting
      PROVE  /\ SettlingLines(k, lines) \subseteq 1 .. n
             /\ SettlingLines(k, more) =
                    SettlingLines(k, lines) \cup (IF Gives(k, source) THEN {n + 1} ELSE {})
             /\ Gives(k, source) => source[k] = more[n + 1].value
  <2>1. Gives(k, source) <=> /\ more[n + 1].line = "set" /\ more[n + 1].key = k
                             /\ Settles(k, more[n + 1].value)
    BY DEF Gives, Nowhere
  <2>2. \A i \in 1 .. n : i \in SettlingLines(k, more) <=> i \in SettlingLines(k, lines)
    BY DEF SettlingLines
  <2>3. n + 1 \in SettlingLines(k, more) <=> Gives(k, source)
    BY <2>1 DEF SettlingLines
  <2>4. SettlingLines(k, lines) \subseteq 1 .. n /\ SettlingLines(k, more) \subseteq 1 .. n + 1
    BY DEF SettlingLines
  <2>5. Gives(k, source) => source[k] = more[n + 1].value
    BY DEF Gives, Nowhere
  <2> HIDE DEF source
  <2> QED
    BY <2>2, <2>3, <2>4, <2>5
<1> HIDE DEF source
<1>2. Adds(InFile(lines), source, InFile(more))
  <2> SUFFICES ASSUME NEW k \in Setting
        PROVE  /\ k \in DOMAIN InFile(lines) =>
                    /\ Settles(k, InFile(lines)[k])
                    /\ k \in DOMAIN InFile(more) /\ InFile(more)[k] = InFile(lines)[k]
               /\ k \notin DOMAIN InFile(lines) /\ Gives(k, source) =>
                    k \in DOMAIN InFile(more) /\ InFile(more)[k] = source[k]
               /\ k \notin DOMAIN InFile(lines) /\ ~Gives(k, source) => ~Gives(k, InFile(more))
    BY DEF Adds
  <2>1. /\ k \in DOMAIN InFile(lines) <=> SettlingLines(k, lines) # {}
        /\ k \in DOMAIN InFile(more) <=> SettlingLines(k, more) # {}
    BY InFileIs
  <2>2. CASE k \in DOMAIN InFile(lines)
    <3>1. PICK i \in SettlingLines(k, lines) :
                /\ \A j \in SettlingLines(k, lines) : i <= j
                /\ InFile(lines)[k] = lines[i].value
      BY <2>2, InFileIs
    <3>2. k \in DOMAIN InFile(more)
      BY <1>1, <2>1, <2>2
    <3>3. PICK l \in SettlingLines(k, more) :
                /\ \A j \in SettlingLines(k, more) : l <= j
                /\ InFile(more)[k] = more[l].value
      BY <3>2, InFileIs
    <3>4. l = i /\ i \in 1 .. n
      BY <1>1, <3>1, <3>3
    <3>5. Settles(k, lines[i].value)
      BY <3>1 DEF SettlingLines
    <3> QED
      BY <2>2, <3>1, <3>2, <3>3, <3>4, <3>5
  <2>3. CASE k \notin DOMAIN InFile(lines) /\ Gives(k, source)
    <3>1. SettlingLines(k, more) = {n + 1} /\ k \in DOMAIN InFile(more)
      BY <1>1, <2>1, <2>3
    <3>2. InFile(more)[k] = more[n + 1].value
      BY <3>1, InFileIs
    <3> QED
      BY <1>1, <2>3, <3>1, <3>2
  <2>4. CASE k \notin DOMAIN InFile(lines) /\ ~Gives(k, source)
    BY <1>1, <2>1, <2>4 DEF Gives
  <2> QED
    BY <2>2, <2>3, <2>4
<1> QED
  BY <1>2 DEF source

LEMMA InFileSettles ==
    ASSUME NEW lines, DOMAIN lines \subseteq Nat
    PROVE  \A k \in DOMAIN InFile(lines) : Settles(k, InFile(lines)[k])
<1> SUFFICES ASSUME NEW k \in DOMAIN InFile(lines) PROVE Settles(k, InFile(lines)[k])
  OBVIOUS
<1>1. PICK i \in SettlingLines(k, lines) : InFile(lines)[k] = lines[i].value
  BY InFileIs
<1> QED
  BY <1>1 DEF SettlingLines

LEMMA Prefix ==
    ASSUME NEW s, NEW n \in Nat
    PROVE  DOMAIN SubSeq(s, 1, n) = 1 .. n /\ \A i \in 1 .. n : SubSeq(s, 1, n)[i] = s[i]
<1> DEFINE S == {s[i] : i \in 1 .. n}
<1>1. \A i \in 1 .. n : s[i] \in S
  OBVIOUS
<1> HIDE DEF S
<1>2. /\ SubSeq(s, 1, n) \in Seq(S)
      /\ Len(SubSeq(s, 1, n)) = IF 1 <= n THEN n - 1 + 1 ELSE 0
      /\ \A i \in 1 .. n - 1 + 1 : SubSeq(s, 1, n)[i] = s[1 + i - 1]
  BY <1>1, SubSeqProperties
<1>3. DOMAIN SubSeq(s, 1, n) = 1 .. Len(SubSeq(s, 1, n))
  BY <1>2
<1> QED
  BY <1>2, <1>3

LEMMA NoLines ==
    ASSUME NEW lines, DOMAIN lines = {}
    PROVE  InFile(lines) = Nowhere
<1>1. \A k : SettlingLines(k, lines) = {}
  BY DEF SettlingLines
<1>2. InFile(lines) =
        [l \in {m \in Setting : SettlingLines(m, lines) # {}} |->
            lines[CHOOSE i \in SettlingLines(l, lines) :
                      \A j \in SettlingLines(l, lines) : i <= j].value]
  BY DEF InFile, SettlingLines
<1>3. {m \in Setting : SettlingLines(m, lines) # {}} = {}
  BY <1>1
<1> QED
  BY <1>2, <1>3 DEF Nowhere

(* What gxConfiguration has read of a file when it stops: all lines before *)
(* the first one that does not fit.                                        *)
Fitting(file) ==
    LET fits(n) == \A i \in 1 .. n : file[i].line # "long"
    IN SubSeq(file, 1, CHOOSE n \in 0 .. Len(file) :
                           fits(n) /\ (n < Len(file) => ~fits(n + 1)))

LEMMA FittingIs ==
    ASSUME NEW file, NEW n \in Nat, Len(file) \in Nat, n <= Len(file),
           \A i \in 1 .. n : file[i].line # "long",
           n < Len(file) => file[n + 1].line = "long"
    PROVE  Fitting(file) = SubSeq(file, 1, n)
<1> DEFINE fits(m) == \A i \in 1 .. m : file[i].line # "long"
<1> DEFINE last(m) == fits(m) /\ (m < Len(file) => ~fits(m + 1))
<1>1. Fitting(file) = SubSeq(file, 1, CHOOSE m \in 0 .. Len(file) : last(m))
  BY DEF Fitting
<1>2. n \in 0 .. Len(file) /\ last(n)
  OBVIOUS
<1>3. ASSUME NEW m \in 0 .. Len(file), last(m) PROVE m = n
  <2>1. CASE m < n
    BY <1>3, <2>1
  <2>2. CASE n < m
    BY <1>3, <2>2
  <2> QED
    BY <2>1, <2>2
<1> HIDE DEF last
<1>4. (CHOOSE m \in 0 .. Len(file) : last(m)) = n
  BY <1>2, <1>3
<1> QED
  BY <1>1, <1>4

-----------------------------------------------------------------------------
(* The command line.                                                       *)

SetsAt(argv, i, k) == argv[i].opt = "set" /\ argv[i].key = k

(* v is the last value the first n options give to k, "" if there is none. *)
GivenIn(argv, n, k, v) ==
    \/ v = "" /\ \A i \in 1 .. n : ~SetsAt(argv, i, k)
    \/ \E i \in 1 .. n : /\ SetsAt(argv, i, k) /\ v = argv[i].value
                         /\ \A j \in i + 1 .. n : ~SetsAt(argv, j, k)

CommandLineRead ==
    /\ \A k \in Setting : GivenIn(world.argv, next - 1, k, settings[k])
    /\ GivenIn(world.argv, next - 1, "GCCXML_CONFIG", config)
    /\ haveCxxflags <=> \E i \in 1 .. next - 1 : SetsAt(world.argv, i, "GCCXML_CXXFLAGS")

LEMMA GivenNext ==
    ASSUME NEW argv, NEW n \in Nat, NEW k, NEW v, GivenIn(argv, n, k, v)
    PROVE  /\ ~SetsAt(argv, n + 1, k) => GivenIn(argv, n + 1, k, v)
           /\ SetsAt(argv, n + 1, k) => GivenIn(argv, n + 1, k, argv[n + 1].value)
<1>0. \A i \in 1 .. n + 1 : i \in 1 .. n \/ i = n + 1
  OBVIOUS
<1>1. ASSUME ~SetsAt(argv, n + 1, k) PROVE GivenIn(argv, n + 1, k, v)
  <2>1. CASE v = "" /\ \A i \in 1 .. n : ~SetsAt(argv, i, k)
    BY <1>0, <1>1, <2>1 DEF GivenIn
  <2>2. CASE \E i \in 1 .. n : /\ SetsAt(argv, i, k) /\ v = argv[i].value
                               /\ \A j \in i + 1 .. n : ~SetsAt(argv, j, k)
    <3>1. PICK i \in 1 .. n : /\ SetsAt(argv, i, k) /\ v = argv[i].value
                              /\ \A j \in i + 1 .. n : ~SetsAt(argv, j, k)
      BY <2>2
    <3>2. i \in 1 .. n + 1 /\ \A j \in i + 1 .. n + 1 : j \in i + 1 .. n \/ j = n + 1
      OBVIOUS
    <3>3. \A j \in i + 1 .. n + 1 : ~SetsAt(argv, j, k)
      BY <1>1, <3>1, <3>2
    <3> QED
      BY <3>1, <3>2, <3>3 DEF GivenIn
  <2> QED
    BY <2>1, <2>2 DEF GivenIn
<1>2. ASSUME SetsAt(argv, n + 1, k) PROVE GivenIn(argv, n + 1, k, argv[n + 1].value)
  <2>1. n + 1 \in 1 .. n + 1 /\ \A j \in n + 1 + 1 .. n + 1 : ~SetsAt(argv, j, k)
    OBVIOUS
  <2> QED
    BY <1>2, <2>1 DEF GivenIn
<1> QED
  BY <1>1, <1>2

LEMMA OnCommandLineIs ==
    ASSUME world \in World, NEW k \in Setting \cup {"GCCXML_CONFIG"}
    PROVE  /\ k \in DOMAIN OnCommandLine <=>
                \E i \in 1 .. Len(world.argv) : SetsAt(world.argv, i, k)
           /\ \A v : GivenIn(world.argv, Len(world.argv), k, v) =>
                IF k \in DOMAIN OnCommandLine THEN OnCommandLine[k] = v ELSE v = ""
<1> DEFINE at(l) == {i \in DOMAIN world.argv : SetsAt(world.argv, i, l)}
<1>1. OnCommandLine =
        [l \in {m \in Setting \cup {"GCCXML_CONFIG"} : at(m) # {}} |->
            world.argv[CHOOSE i \in at(l) : \A j \in at(l) : j <= i].value]
  BY DEF OnCommandLine, SetsAt
<1>2. DOMAIN world.argv = 1 .. Len(world.argv) /\ Len(world.argv) \in Nat
  BY WorldTypes
<1>3. k \in DOMAIN OnCommandLine <=> at(k) # {}
  BY <1>1
<1>4. at(k) # {} <=> \E i \in 1 .. Len(world.argv) : SetsAt(world.argv, i, k)
  BY <1>2
<1>5. ASSUME NEW v, GivenIn(world.argv, Len(world.argv), k, v)
      PROVE  IF k \in DOMAIN OnCommandLine THEN OnCommandLine[k] = v ELSE v = ""
  <2>2. CASE at(k) = {}
    <3>1. v = ""
      BY <1>4, <1>5, <2>2 DEF GivenIn
    <3> QED
      BY <1>3, <2>2, <3>1
  <2>3. CASE at(k) # {}
    <3>1. PICK i \in 1 .. Len(world.argv) :
              /\ SetsAt(world.argv, i, k) /\ v = world.argv[i].value
              /\ \A j \in i + 1 .. Len(world.argv) : ~SetsAt(world.argv, j, k)
      BY <1>4, <1>5, <2>3 DEF GivenIn
    <3>2. i \in at(k) /\ at(k) \subseteq 1 .. Len(world.argv)
      BY <1>2, <3>1
    <3>3. \A j \in at(k) : j <= i
      BY <1>2, <3>1, <3>2
    <3> DEFINE a == at(k)
    <3> HIDE DEF a
    <3>4. i \in a /\ a \subseteq Nat /\ \A j \in a : j <= i
      BY <1>2, <3>2, <3>3 DEF a
    <3>5. (CHOOSE l \in a : \A j \in a : j <= l) = i
      <4>1. \A l \in a : (\A j \in a : j <= l) => l = i
        BY <3>4
      <4> QED
        BY <3>4, <4>1
    <3>6. OnCommandLine[k] = world.argv[CHOOSE l \in a : \A j \in a : j <= l].value
      BY <1>1, <2>3 DEF a
    <3> QED
      BY <1>3, <2>3, <3>1, <3>5, <3>6
  <2> QED
    BY <2>2, <2>3
<1> QED
  BY <1>3, <1>4, <1>5

-----------------------------------------------------------------------------
(* The sources visited so far, in the order of the code.                   *)
SoFar(lines, env, cxx) ==
    IF ConfigOnCommandLine THEN <<OnCommandLine, InFile(lines), env, cxx>>
                           ELSE <<OnCommandLine, world.env, InFile(lines), cxx>>
LateEnvironment == IF EnvironmentIgnored THEN Nowhere ELSE world.env
FromSoFar(lines, env, cxx) == AreFrom(settings, haveCxxflags, SoFar(lines, env, cxx))

(* The environment has been checked before the file, or will be after it.  *)
EnvironmentAccounted == IF ConfigOnCommandLine THEN config # "" ELSE checkedEnvironment

Visited ==
    /\ pc = "argv" => CommandLineRead
    /\ pc = "file" => FromSoFar(<<>>, Nowhere, Nowhere)
    /\ pc = "read" => /\ FromSoFar(SubSeq(Lines, 1, next - 1), Nowhere, Nowhere)
                      /\ \A i \in 1 .. next - 1 : Lines[i].line # "long"
    /\ pc = "late" => FromSoFar(FittingLines, Nowhere, Nowhere)
    /\ pc = "cxx" => FromSoFar(FittingLines, LateEnvironment, Nowhere)
    /\ pc = "defaults" => FromSoFar(FittingLines, LateEnvironment, InCxx)
    /\ pc \in {"file", "read", "late"} => EnvironmentAccounted
    /\ Precedence

LEMMA SoFarIs ==
    ASSUME NEW lines, NEW env, NEW cxx
    PROVE  /\ DOMAIN SoFar(lines, env, cxx) = 1 .. 4
           /\ SoFar(lines, env, cxx)[1] = OnCommandLine /\ SoFar(lines, env, cxx)[4] = cxx
           /\ ConfigOnCommandLine => /\ SoFar(lines, env, cxx)[2] = InFile(lines)
                                     /\ SoFar(lines, env, cxx)[3] = env
           /\ ~ConfigOnCommandLine => /\ SoFar(lines, env, cxx)[2] = world.env
                                      /\ SoFar(lines, env, cxx)[3] = InFile(lines)
  BY DEF SoFar

LEMMA SameSources ==
    ASSUME world' = world
    PROVE  /\ OnCommandLine' = OnCommandLine /\ (ConfigOnCommandLine' <=> ConfigOnCommandLine)
           /\ InCxx' = InCxx /\ world.env' = world.env
           /\ config' = config => /\ FittingLines' = FittingLines /\ Lines' = Lines
                                  /\ WholeFile' = WholeFile
           /\ \A lines, env, cxx : SoFar(lines, env, cxx)' = SoFar(lines, env, cxx)
<1>1. OnCommandLine' = OnCommandLine /\ InCxx' = InCxx /\ world.env' = world.env
  BY DEF OnCommandLine, InCxx
<1>2. ConfigOnCommandLine' <=> ConfigOnCommandLine
  BY <1>1 DEF ConfigOnCommandLine
<1>3. config' = config => Lines' = Lines /\ WholeFile' = WholeFile
  BY DEF Lines, WholeFile
<1>4. config' = config => FittingLines' = FittingLines
  BY <1>3 DEF FittingLines
<1> QED
  BY <1>1, <1>2, <1>3, <1>4 DEF SoFar

(* All options are read.                                                   *)
LEMMA CommandLineDone ==
    ASSUME TypeInv, CommandLineRead, pc = "argv", next > Len(world.argv)
    PROVE  /\ AreFrom(settings, haveCxxflags, <<OnCommandLine, Nowhere, Nowhere, Nowhere>>)
           /\ config # "" <=> ConfigOnCommandLine
<1> DEFINE s == <<OnCommandLine, Nowhere, Nowhere, Nowhere>>
<1>1. next - 1 = Len(world.argv) /\ world \in World
  <2>1. Len(world.argv) \in Nat /\ world \in World
    BY WorldTypes DEF TypeInv
  <2>2. next \in Nat /\ next <= Len(world.argv) + 1
    BY DEF TypeInv, TypeOK
  <2> QED
    BY <2>1, <2>2
<1>2. DOMAIN s = 1 .. 4 /\ s[1] = OnCommandLine /\ \A i \in 2 .. 4 : DOMAIN s[i] = {}
  BY DEF Nowhere
<1> HIDE DEF s
<1>3. ASSUME NEW k \in Setting PROVE IsChosen(k, settings[k], s)
  <2>1. IF k \in DOMAIN OnCommandLine THEN OnCommandLine[k] = settings[k] ELSE settings[k] = ""
    BY <1>1, OnCommandLineIs DEF CommandLineRead
  <2>2. Settling(k, s) \subseteq {1}
    BY <1>2 DEF Settling
  <2>3. CASE k \in DOMAIN OnCommandLine /\ Settles(k, OnCommandLine[k])
    <3>1. 1 \in Settling(k, s)
      BY <1>2, <2>3 DEF Settling
    <3>2. \A j \in Settling(k, s) : 1 <= j
      BY <2>2
    <3>3. settings[k] = s[1][k]
      BY <1>2, <2>1, <2>3
    <3> QED
      BY <3>1, <3>2, <3>3 DEF IsChosen
  <2>4. CASE ~(k \in DOMAIN OnCommandLine /\ Settles(k, OnCommandLine[k]))
    <3>1. Settling(k, s) = {}
      BY <1>2, <2>2, <2>4 DEF Settling
    <3>2. settings[k] = ""
      BY <2>1, <2>4 DEF Settles
    <3> QED
      BY <3>1, <3>2 DEF IsChosen
  <2> QED
    BY <2>3, <2>4
<1>4. haveCxxflags <=> \E i \in DOMAIN s : "GCCXML_CXXFLAGS" \in DOMAIN s[i]
  <2>1. haveCxxflags <=> "GCCXML_CXXFLAGS" \in DOMAIN OnCommandLine
    BY <1>1, OnCommandLineIs DEF CommandLineRead, Setting
  <2> QED
    BY <1>2, <2>1
<1>5. config # "" <=> ConfigOnCommandLine
  <2>1. GivenIn(world.argv, Len(world.argv), "GCCXML_CONFIG", config)
    BY <1>1 DEF CommandLineRead
  <2>2. IF "GCCXML_CONFIG" \in DOMAIN OnCommandLine THEN OnCommandLine["GCCXML_CONFIG"] = config
                                                  ELSE config = ""
    BY <1>1, <2>1, OnCommandLineIs
  <2> QED
    BY <2>2 DEF ConfigOnCommandLine
<1> QED
  BY <1>3, <1>4, <1>5 DEF AreFrom, s

LEMMA OptionVisited ==
    ASSUME TypeInv, Visited, SetOption \/ ReadArgumentFile \/ OtherOption
    PROVE  Visited'
<1> DEFINE n == next - 1
<1>1. MoreOptions /\ next' = next + 1 /\ UNCHANGED <<world, pc>>
  <2>1. CASE OtherOption
    BY <2>1, Zenon DEF OtherOption
  <2> QED
    BY <2>1 DEF SetOption, ReadArgumentFile
<1>2. n \in Nat /\ n + 1 = next /\ next' - 1 = n + 1 /\ pc = "argv" /\ pc' = "argv"
  BY <1>1 DEF TypeInv, TypeOK, MoreOptions
<1>3. CommandLineRead
  BY <1>2 DEF Visited
<1> HIDE DEF n
<1>4. CommandLineRead'
  <2>0. /\ \A k \in Setting : GivenIn(world.argv, n, k, settings[k])
        /\ GivenIn(world.argv, n, "GCCXML_CONFIG", config)
        /\ haveCxxflags <=> \E i \in 1 .. n : SetsAt(world.argv, i, "GCCXML_CXXFLAGS")
    BY <1>3 DEF CommandLineRead, n
  <2>1. Option = world.argv[n + 1]
    BY <1>2 DEF Option
  <2>2. CASE ReadArgumentFile \/ OtherOption
    <3>1. \A k : ~SetsAt(world.argv, n + 1, k)
      <4>1. Option.opt # "set"
        <5>1. CASE OtherOption
          <6>1. Option.opt \in {"show", "output", "ignore", "pass"}
            BY <5>1, Zenon DEF OtherOption
          <6> QED
            BY <6>1
        <5> QED
          BY <2>2, <5>1 DEF ReadArgumentFile
      <4> QED
        BY <2>1, <4>1 DEF SetsAt
    <3>2. UNCHANGED <<settings, config, haveCxxflags>>
      <4>1. CASE OtherOption
        BY <4>1, Zenon DEF OtherOption
      <4> QED
        BY <2>2, <4>1 DEF ReadArgumentFile
    <3>3. /\ \A k \in Setting : GivenIn(world.argv, n + 1, k, settings[k])
          /\ GivenIn(world.argv, n + 1, "GCCXML_CONFIG", config)
      BY <1>2, <2>0, <3>1, GivenNext
    <3>4. haveCxxflags <=> \E i \in 1 .. n + 1 : SetsAt(world.argv, i, "GCCXML_CXXFLAGS")
      BY <1>2, <2>0, <3>1
    <3> QED
      BY <1>1, <1>2, <3>2, <3>3, <3>4 DEF CommandLineRead
  <2>3. CASE SetOption
    <3> DEFINE key == Option.key
    <3>1. \A k : SetsAt(world.argv, n + 1, k) <=> k = key
      BY <2>1, <2>3 DEF SetOption, SetsAt
    <3>2. key \in Setting \cup {"GCCXML_CONFIG"} /\ "GCCXML_CONFIG" \notin Setting
      BY <1>1, <2>3, OptionTypes DEF SetOption, TypeInv, TypeOK, Setting
    <3>3. ASSUME NEW k \in Setting PROVE GivenIn(world.argv, n + 1, k, settings'[k])
      <4>1. DOMAIN settings = Setting
        BY DEF TypeInv, TypeOK
      <4>2. settings'[k] = IF k = key THEN world.argv[n + 1].value ELSE settings[k]
        BY <2>1, <2>3, <3>2, <4>1 DEF SetOption
      <4> HIDE DEF key
      <4> QED
        BY <1>2, <2>0, <3>1, <4>2, GivenNext
    <3>4. GivenIn(world.argv, n + 1, "GCCXML_CONFIG", config')
      <4>1. config' = IF "GCCXML_CONFIG" = key THEN world.argv[n + 1].value ELSE config
        BY <2>1, <2>3 DEF SetOption
      <4> HIDE DEF key
      <4> QED
        BY <1>2, <2>0, <3>1, <4>1, GivenNext
    <3>5. haveCxxflags' <=> \E i \in 1 .. n + 1 : SetsAt(world.argv, i, "GCCXML_CXXFLAGS")
      <4>1. haveCxxflags' <=> haveCxxflags \/ key = "GCCXML_CXXFLAGS"
        BY <2>3 DEF SetOption
      <4> HIDE DEF key
      <4> QED
        BY <1>2, <2>0, <3>1, <4>1
    <3> QED
      BY <1>1, <1>2, <3>3, <3>4, <3>5 DEF CommandLineRead
  <2> QED
    BY <2>2, <2>3
<1> QED
  BY <1>2, <1>4 DEF Visited, Precedence, Settled

LEMMA EnvironmentVisitedFirst ==
    ASSUME TypeInv, Visited, CheckEnvironmentFirst
    PROVE  Visited'
<1> DEFINE s == <<OnCommandLine, Nowhere, Nowhere, Nowhere>>
<1> DEFINE t == SoFar(<<>>, Nowhere, Nowhere)
<1>1. pc = "argv" /\ next > Len(world.argv) /\ pc' = "file" /\ world' = world
  BY DEF CheckEnvironmentFirst
<1>2. AreFrom(settings, haveCxxflags, s) /\ (config # "" <=> ConfigOnCommandLine)
  BY <1>1, CommandLineDone DEF Visited
<1>3. DOMAIN s = 1 .. 4 /\ s[1] = OnCommandLine /\ \A i \in 2 .. 4 : s[i] = Nowhere
  OBVIOUS
<1>4. InFile(<<>>) = Nowhere /\ DOMAIN Nowhere = {}
  BY NoLines DEF Nowhere
<1>5. AreFrom(settings', haveCxxflags', t) /\ EnvironmentAccounted'
  <2>1. CASE config = ""
    <3>1. TakeUnknown(world.env) /\ checkedEnvironment' = TRUE
      BY <2>1 DEF CheckEnvironmentFirst, CheckEnvironment
    <3>2. DOMAIN t = 1 .. 4 /\ t[1] = OnCommandLine /\ t[2] = world.env
          /\ t[3] = Nowhere /\ t[4] = Nowhere
      <4>1. ~ConfigOnCommandLine
        BY <1>2, <2>1
      <4> QED
        BY <1>4, <4>1, SoFarIs
    <3> HIDE DEF s, t
    <3> DEFINE n == 2
    <3>3. Adds(s[n], world.env, t[n])
      BY <1>3, <1>4, <3>2, AddsToNothing
    <3>4. /\ n \in 1 .. 4 /\ \A i \in 1 .. 4 : i # n => t[i] = s[i]
          /\ \A i \in n + 1 .. 4 : DOMAIN s[i] = {}
      BY <1>3, <1>4, <3>2
    <3> HIDE DEF n
    <3>5. AreFrom(settings', haveCxxflags', t)
      BY <1>2, <1>3, <3>1, <3>2, <3>3, <3>4, Visit
    <3> QED
      BY <1>1, <1>2, <2>1, <3>1, <3>5, SameSources DEF EnvironmentAccounted
  <2>2. CASE config # ""
    <3>1. UNCHANGED <<settings, haveCxxflags, config>>
      BY <2>2 DEF CheckEnvironmentFirst
    <3>2. t = s
      BY <1>2, <1>4, <2>2 DEF SoFar
    <3> QED
      BY <1>1, <1>2, <2>2, <3>1, <3>2, SameSources DEF EnvironmentAccounted
  <2> QED
    BY <2>1, <2>2
<1> HIDE DEF s, t
<1>6. FromSoFar(<<>>, Nowhere, Nowhere)'
  <2>1. SoFar(<<>>, Nowhere, Nowhere)' = t
    BY <1>1, SameSources DEF t
  <2> QED
    BY <1>5, <2>1 DEF FromSoFar
<1> QED
  BY <1>1, <1>5, <1>6 DEF Visited, Precedence, Settled

LEMMA FileVisited ==
    ASSUME TypeInv, Visited, CheckConfigFile
    PROVE  Visited'
<1> DEFINE t == SoFar(<<>>, Nowhere, Nowhere)
<1>1. pc = "file" /\ next = 1 /\ next' = 1
      /\ UNCHANGED <<world, settings, haveCxxflags, checkedEnvironment>>
  BY DEF CheckConfigFile, TypeInv
<1>2. /\ pc' \in {"late", "read", "failed"}
      /\ config' = IF config = "" THEN FoundConfig ELSE config
      /\ pc' = "late" => config' = ""
  BY FileOpened
<1>3. AreFrom(settings, haveCxxflags, t) /\ EnvironmentAccounted
  BY <1>1 DEF Visited, FromSoFar
<1>4. EnvironmentAccounted'
  BY <1>1, <1>2, <1>3, SameSources DEF EnvironmentAccounted
<1>5. t' = t
  BY <1>1, SameSources
<1>6. ASSUME pc' = "read" PROVE SubSeq(Lines', 1, next' - 1) = <<>>
  BY <1>1, SubSeqEmpty
<1>7. ASSUME pc' = "late" PROVE FittingLines' = <<>>
  <2>1. WholeFile' = <<>>
    BY <1>1, <1>2, <1>7, WorldTypes DEF WholeFile, TypeInv
  <2>2. FittingLines' = Fitting(<<>>)
    BY <2>1 DEF FittingLines, Fitting
  <2>3. Fitting(<<>>) = SubSeq(<<>>, 1, 0)
    BY FittingIs
  <2> QED
    BY <2>2, <2>3, SubSeqEmpty
<1>8. /\ pc' = "read" => FromSoFar(SubSeq(Lines, 1, next - 1), Nowhere, Nowhere)'
      /\ pc' = "late" => FromSoFar(FittingLines, Nowhere, Nowhere)'
  BY <1>1, <1>3, <1>5, <1>6, <1>7, SameSources DEF FromSoFar
<1> HIDE DEF t
<1>9. (\A i \in 1 .. next - 1 : Lines[i].line # "long")'
  BY <1>1
<1> QED
  BY <1>2, <1>4, <1>8, <1>9 DEF Visited, Precedence, Settled

(* A line of the file, and its end.                                        *)
LEMMA LineVisited ==
    ASSUME TypeInv, Visited, ReadLine
    PROVE  Visited'
<1> DEFINE n == next - 1
           lines == SubSeq(Lines, 1, n)
           more == SubSeq(Lines, 1, n + 1)
           s == SoFar(lines, Nowhere, Nowhere)
           t == SoFar(more, Nowhere, Nowhere)
           place == IF ConfigOnCommandLine THEN 2 ELSE 3
<1>1. pc = "read" /\ next <= Len(Lines) /\ Lines[next].line # "long" /\ next' = next + 1
      /\ UNCHANGED <<world, pc, config, checkedEnvironment>>
  BY DEF ReadLine
<1>2. n \in Nat /\ n + 1 = next /\ next' - 1 = n + 1 /\ Len(Lines) \in Nat /\ n + 1 <= Len(Lines)
  BY <1>1, LineTypes DEF TypeInv, TypeOK
<1>3. /\ AreFrom(settings, haveCxxflags, s) /\ EnvironmentAccounted
      /\ \A i \in 1 .. n : Lines[i].line # "long"
  BY <1>1 DEF Visited, FromSoFar
<1> HIDE DEF n
<1>4. /\ DOMAIN lines = 1 .. n /\ DOMAIN more = 1 .. n + 1
      /\ \A i \in 1 .. n : lines[i] = Lines[i]
      /\ \A i \in 1 .. n + 1 : more[i] = Lines[i]
  BY <1>2, Prefix
<1> HIDE DEF lines, more
<1>5. PICK source : Adds(InFile(lines), source, InFile(more)) /\ TakeUnknown(source)
  <2>1. \A i \in 1 .. n : more[i] = lines[i]
    BY <1>2, <1>4
  <2>2. more[n + 1] = Lines[next]
    BY <1>2, <1>4
  <2>3. CASE Lines[next].line = "set"
    <3>1. TakeUnknown([k \in {Lines[next].key} |-> Lines[next].value])
      BY <2>3 DEF ReadLine
    <3>2. Adds(InFile(lines), [k \in {Lines[next].key} |-> Lines[next].value], InFile(more))
      BY <1>2, <1>4, <2>1, <2>2, <2>3, LineAdded
    <3> QED
      BY <3>1, <3>2
  <2>4. CASE Lines[next].line # "set"
    <3>1. TakeUnknown(Nowhere)
      BY <2>4, TakeNothing DEF ReadLine
    <3>2. Adds(InFile(lines), Nowhere, InFile(more))
      BY <1>2, <1>4, <2>1, <2>2, <2>4, LineAdded
    <3> QED
      BY <3>1, <3>2
  <2> QED
    BY <2>3, <2>4
<1>6. AreFrom(settings', haveCxxflags', t)
  <2>1. /\ DOMAIN s = 1 .. 4 /\ DOMAIN t = 1 .. 4 /\ place \in 1 .. 4
        /\ s[place] = InFile(lines) /\ t[place] = InFile(more)
        /\ \A i \in 1 .. 4 : i # place => t[i] = s[i]
        /\ \A i \in place + 1 .. 4 : s[i] = Nowhere
    <3>1. CASE ConfigOnCommandLine
      BY <3>1, SoFarIs
    <3>2. CASE ~ConfigOnCommandLine
      BY <3>2, SoFarIs
    <3> QED
      BY <3>1, <3>2
  <2> HIDE DEF s, t, place
  <2>2. \A i \in place + 1 .. 4 : DOMAIN s[i] = {}
    BY <2>1 DEF Nowhere
  <2> QED
    BY <1>3, <1>5, <2>1, <2>2, Visit
<1>7. (FromSoFar(SubSeq(Lines, 1, next - 1), Nowhere, Nowhere))'
  <2>1. SubSeq(Lines', 1, next' - 1) = more
    BY <1>1, <1>2, SameSources DEF more
  <2> QED
    BY <1>1, <1>6, <2>1, SameSources DEF FromSoFar, t
<1>8. (\A i \in 1 .. next - 1 : Lines[i].line # "long")'
  <2>1. \A i \in 1 .. n + 1 : Lines[i].line # "long"
    BY <1>1, <1>2, <1>3
  <2> QED
    BY <1>1, <1>2, <2>1, SameSources
<1>9. EnvironmentAccounted'
  BY <1>1, <1>3, SameSources DEF EnvironmentAccounted
<1> QED
  BY <1>1, <1>7, <1>8, <1>9 DEF Visited, Precedence, Settled

LEMMA FileEnds ==
    ASSUME TypeInv, Visited, EndOfFile
    PROVE  Visited'
<1> DEFINE n == next - 1
<1>1. pc = "read" /\ pc' = "late" /\ UNCHANGED configVars
      /\ (next <= Len(Lines) => Lines[next].line = "long")
  BY DEF EndOfFile
<1>2. n \in Nat /\ n + 1 = next /\ Len(Lines) \in Nat /\ n <= Len(Lines)
      /\ (n < Len(Lines) => Lines[n + 1].line = "long")
  BY <1>1, LineTypes DEF TypeInv, TypeOK
<1>3. /\ FromSoFar(SubSeq(Lines, 1, n), Nowhere, Nowhere) /\ EnvironmentAccounted
      /\ \A i \in 1 .. n : Lines[i].line # "long"
  BY <1>1 DEF Visited
<1> HIDE DEF n
<1>4. WholeFile = Lines
  BY <1>1 DEF WholeFile, TypeInv
<1>5. FittingLines = SubSeq(Lines, 1, n)
  <2>1. FittingLines = Fitting(Lines)
    BY <1>4 DEF FittingLines, Fitting
  <2> QED
    BY <1>2, <1>3, <2>1, FittingIs
<1>6. FromSoFar(FittingLines, Nowhere, Nowhere)' /\ EnvironmentAccounted'
  BY <1>1, <1>3, <1>5, SameSources DEF FromSoFar, EnvironmentAccounted, configVars
<1> QED
  BY <1>1, <1>6 DEF Visited, Precedence, Settled

(* The environment, after a file named on the command line.                *)
LEMMA EnvironmentVisitedLate ==
    ASSUME TypeInv, Visited, CheckEnvironmentLate
    PROVE  Visited'
<1> DEFINE s == SoFar(FittingLines, Nowhere, Nowhere)
           t == SoFar(FittingLines, LateEnvironment, Nowhere)
<1>1. pc = "late" /\ pc' = "cxx" /\ UNCHANGED <<world, checkedEnvironment>>
  BY DEF CheckEnvironmentLate
<1>2. AreFrom(settings, haveCxxflags, s) /\ EnvironmentAccounted
  BY <1>1 DEF Visited, FromSoFar
<1>3. config' = config
  BY <1>2 DEF CheckEnvironmentLate, CheckEnvironment, EnvironmentAccounted
<1>4. AreFrom(settings', haveCxxflags', t)
  <2>1. CASE checkedEnvironment
    <3>1. t = s
      BY <2>1 DEF LateEnvironment, EnvironmentIgnored, SoFar
    <3>2. UNCHANGED <<settings, haveCxxflags>>
      BY <2>1 DEF CheckEnvironmentLate
    <3> QED
      BY <1>2, <3>1, <3>2
  <2>2. CASE ~checkedEnvironment
    <3>1. ConfigOnCommandLine /\ LateEnvironment = world.env
      BY <1>2, <2>2 DEF EnvironmentAccounted, LateEnvironment, EnvironmentIgnored
    <3>2. TakeUnknown(world.env)
      BY <2>2 DEF CheckEnvironmentLate, CheckEnvironment
    <3> DEFINE n == 3
    <3>3. /\ DOMAIN s = 1 .. 4 /\ DOMAIN t = 1 .. 4 /\ n \in 1 .. 4
          /\ s[n] = Nowhere /\ t[n] = world.env
          /\ \A i \in 1 .. 4 : i # n => t[i] = s[i]
          /\ \A i \in n + 1 .. 4 : s[i] = Nowhere
      BY <3>1, SoFarIs
    <3> HIDE DEF s, t, n
    <3>4. DOMAIN Nowhere = {}
      BY DEF Nowhere
    <3>5. Adds(s[n], world.env, t[n]) /\ \A i \in n + 1 .. 4 : DOMAIN s[i] = {}
      BY <3>3, <3>4, AddsToNothing
    <3> QED
      BY <1>2, <3>2, <3>3, <3>5, Visit
  <2> QED
    BY <2>1, <2>2
<1>5. LateEnvironment' = LateEnvironment
  BY <1>1, SameSources DEF LateEnvironment, EnvironmentIgnored
<1>6. FromSoFar(FittingLines, LateEnvironment, Nowhere)'
  BY <1>1, <1>3, <1>4, <1>5, SameSources DEF FromSoFar
<1> QED
  BY <1>1, <1>6 DEF Visited, Precedence, Settled

LEMMA CxxVisited ==
    ASSUME TypeInv, Visited, CheckCxxEnvironment
    PROVE  Visited'
<1> DEFINE s == SoFar(FittingLines, LateEnvironment, Nowhere)
           t == SoFar(FittingLines, LateEnvironment, InCxx)
           n == 4
<1>1. pc = "cxx" /\ pc' = "defaults" /\ UNCHANGED <<world, config, checkedEnvironment>>
  BY DEF CheckCxxEnvironment
<1>2. AreFrom(settings, haveCxxflags, s)
  BY <1>1 DEF Visited, FromSoFar
<1>3. TakeUnknown(InCxx)
  BY DEF CheckCxxEnvironment, InCxx
<1>4. /\ DOMAIN s = 1 .. 4 /\ DOMAIN t = 1 .. 4 /\ n \in 1 .. 4
      /\ s[n] = Nowhere /\ t[n] = InCxx
      /\ \A i \in 1 .. 4 : i # n => t[i] = s[i]
      /\ \A i \in n + 1 .. 4 : FALSE
  <2>1. CASE ConfigOnCommandLine
    BY <2>1, SoFarIs
  <2>2. CASE ~ConfigOnCommandLine
    BY <2>2, SoFarIs
  <2> QED
    BY <2>1, <2>2
<1> HIDE DEF s, t, n
<1>5. DOMAIN Nowhere = {}
  BY DEF Nowhere
<1>6. Adds(s[n], InCxx, t[n])
  BY <1>4, <1>5, AddsToNothing
<1>7. AreFrom(settings', haveCxxflags', t)
  BY <1>2, <1>3, <1>4, <1>6, Visit
<1>8. LateEnvironment' = LateEnvironment
  BY <1>1, SameSources DEF LateEnvironment, EnvironmentIgnored
<1>9. FromSoFar(FittingLines, LateEnvironment, InCxx)'
  BY <1>1, <1>7, <1>8, SameSources DEF FromSoFar, t
<1> QED
  BY <1>1, <1>9 DEF Visited, Precedence, Settled

(* All sources are visited: what is chosen is what Chosen says.            *)
LEMMA AllVisited ==
    ASSUME FromSoFar(FittingLines, LateEnvironment, InCxx), NEW k \in Setting
    PROVE  settings[k] = Chosen(k, Sources(FittingLines, LateEnvironment))
<1> DEFINE s == SoFar(FittingLines, LateEnvironment, InCxx)
<1>1. Sources(FittingLines, LateEnvironment) = s
  BY DEF Sources, SoFar, LateEnvironment, EnvironmentIgnored
<1>2. DOMAIN s \subseteq Nat /\ IsChosen(k, settings[k], s)
  BY SoFarIs DEF FromSoFar, AreFrom
<1> HIDE DEF s
<1> QED
  BY <1>1, <1>2, ChosenIs

LEMMA DefaultsSet ==
    ASSUME TypeInv, Visited, SetDefaults
    PROVE  Visited'
<1>1. pc = "defaults" /\ pc' = "configured" /\ UNCHANGED <<world, config, checkedEnvironment>>
  BY DEF SetDefaults
<1>2. \A k \in Setting : settings[k] = Chosen(k, Sources(FittingLines, LateEnvironment))
  BY <1>1, AllVisited DEF Visited
<1>3. \A k \in Setting : settings'[k] = settings[k] \/ (k \in HaveDefault /\ settings[k] = "")
  <2>1. DOMAIN settings = Setting
    BY DEF TypeInv, TypeOK
  <2> QED
    BY <2>1 DEF SetDefaults, Or, HaveDefault
<1>4. Sources(FittingLines, LateEnvironment)' = Sources(FittingLines, LateEnvironment)
  BY <1>1, SameSources DEF Sources, LateEnvironment, EnvironmentIgnored
<1>5. Precedence'
  BY <1>2, <1>3, <1>4 DEF Precedence, SettledBy, LateEnvironment
<1> QED
  BY <1>1, <1>5 DEF Visited

(* main changes no setting but the flags it guesses.                       *)
LEMMA MainVisited ==
    ASSUME TypeInv, Visited, MainNext
    PROVE  Visited'
<1>1. /\ UNCHANGED <<world, config, checkedEnvironment>>
      /\ pc' \in {"flags", "wait", "exit"} /\ pc \in {"failed", "configured", "flags", "wait"}
      /\ \/ UNCHANGED settings
         \/ /\ pc = "configured" /\ pc' = "flags" /\ settings["GCCXML_FLAGS"] = ""
            /\ settings' = [settings EXCEPT !["GCCXML_FLAGS"] = "guessed"]
  BY MainKeeps
<1>2. pc' \in {"flags", "wait"} => Settled
  BY MainSettled DEF Settled
<1>3. Sources(FittingLines, LateEnvironment)' = Sources(FittingLines, LateEnvironment)
  BY <1>1, SameSources DEF Sources, LateEnvironment, EnvironmentIgnored
<1>4. Settled => SettledBy(Sources(FittingLines, LateEnvironment))
  BY DEF Visited, Precedence, LateEnvironment
<1>5. \A k \in Setting : settings'[k] = settings[k] \/ (k = "GCCXML_FLAGS" /\ settings[k] = "")
  <2>1. DOMAIN settings = Setting
    BY DEF TypeInv, TypeOK
  <2> QED
    BY <1>1, <2>1
<1>6. Settled' => SettledBy(Sources(FittingLines, LateEnvironment))'
  <2>1. Settled' => Settled
    BY <1>1, <1>2 DEF Settled
  <2> QED
    BY <1>3, <1>4, <1>5, <2>1 DEF SettledBy, HaveDefault
<1> QED
  BY <1>1, <1>6 DEF Visited, Precedence, LateEnvironment

LEMMA VisitedStays ==
    ASSUME Visited,
           UNCHANGED <<pc, world, settings, config, haveCxxflags, checkedEnvironment, next>>
    PROVE  Visited'
<1>1. /\ LateEnvironment' = LateEnvironment
      /\ Sources(FittingLines, LateEnvironment)' = Sources(FittingLines, LateEnvironment)
  BY SameSources DEF Sources, LateEnvironment, EnvironmentIgnored
<1>2. Precedence => Precedence'
  BY <1>1 DEF Precedence, Settled, SettledBy, LateEnvironment
<1>3. CommandLineRead => CommandLineRead'
  BY DEF CommandLineRead
<1>4. EnvironmentAccounted => EnvironmentAccounted'
  BY SameSources DEF EnvironmentAccounted
<1>5. \A lines, env, cxx : FromSoFar(lines, env, cxx) =>
            AreFrom(settings', haveCxxflags', SoFar(lines, env, cxx))
  BY DEF FromSoFar
<1>6. /\ FromSoFar(<<>>, Nowhere, Nowhere) => FromSoFar(<<>>, Nowhere, Nowhere)'
      /\ FromSoFar(SubSeq(Lines, 1, next - 1), Nowhere, Nowhere) =>
            FromSoFar(SubSeq(Lines, 1, next - 1), Nowhere, Nowhere)'
      /\ FromSoFar(FittingLines, Nowhere, Nowhere) => FromSoFar(FittingLines, Nowhere, Nowhere)'
      /\ FromSoFar(FittingLines, LateEnvironment, Nowhere) =>
            FromSoFar(FittingLines, LateEnvironment, Nowhere)'
      /\ FromSoFar(FittingLines, LateEnvironment, InCxx) =>
            FromSoFar(FittingLines, LateEnvironment, InCxx)'
  BY <1>1, SameSources DEF FromSoFar
<1>7. (\A i \in 1 .. next - 1 : Lines[i].line # "long") =>
            (\A i \in 1 .. next - 1 : Lines[i].line # "long")'
  BY SameSources
<1> QED
  BY <1>2, <1>3, <1>4, <1>6, <1>7 DEF Visited

LEMMA VisitedInductive == Spec => []Visited
<1>1. Init => Visited
  <2> SUFFICES ASSUME Init PROVE Visited
    OBVIOUS
  <2>0. haveCxxflags = FALSE
    BY DEF Init, ConfigInit
  <2>1. pc = "argv" /\ next = 1 /\ config = ""
    BY DEF Init, ConfigInit
  <2>2. \A k \in Setting : settings[k] = ""
    BY DEF Init, ConfigInit
  <2>3. CommandLineRead
    <3>1. next - 1 = 0
      <4>1. next = 1
        BY <2>1
      <4>2. ASSUME NEW x, x = 1 PROVE x - 1 = 0
        BY <4>2
      <4> QED
        BY <4>1, <4>2
    <3>2. \A i \in 1 .. 0 : FALSE
      OBVIOUS
    <3>3. \A k : GivenIn(world.argv, 0, k, "")
      BY <3>2 DEF GivenIn
    <3> QED
      BY <2>0, <2>1, <2>2, <3>1, <3>2, <3>3 DEF CommandLineRead
  <2> QED
    BY <2>1, <2>3 DEF Visited, Precedence, Settled
<1>2. TypeInv /\ Visited /\ [Next]_vars => Visited'
  <2> SUFFICES ASSUME TypeInv, Visited, [Next]_vars PROVE Visited'
    OBVIOUS
  <2>1. CASE Configure
    <3>1. CASE BadOption
      BY <3>1 DEF BadOption, Visited, Precedence, Settled
    <3> QED
      BY <2>1, <3>1, OptionVisited, EnvironmentVisitedFirst, FileVisited, LineVisited, FileEnds,
         EnvironmentVisitedLate, CxxVisited, DefaultsSet DEF Configure, ConfigNext
  <2>2. CASE MainNext
    BY <2>2, MainVisited
  <2>3. CASE Exited \/ UNCHANGED vars
    <3>1. UNCHANGED <<pc, configVars>>
      BY <2>3 DEF Exited, vars
    <3>2. UNCHANGED <<pc, world, settings, config, haveCxxflags, checkedEnvironment, next>>
      BY <3>1 DEF configVars
    <3> QED
      BY <3>2, VisitedStays
  <2> QED
    BY <2>1, <2>2, <2>3, NextIs
<1> QED
  BY <1>1, <1>2, TypeInductive, PTL DEF Spec

(* In every world a setting has the value of the first source that settles *)
(* it: the command line, then the environment and the file in the order    *)
(* the command line decides, then CXX and CXXFLAGS.                        *)
THEOREM FirstSourceWins == Spec => []Precedence
<1>1. Visited => Precedence
  BY DEF Visited
<1> QED
  BY <1>1, VisitedInductive, PTL
=============================================================================
