------------------------------ MODULE GxFront ------------------------------
(***************************************************************************)
(* The front end gccxml from its first step to its exit status: main       *)
(* (GXFront/gxFront.cxx), the flags it guesses (ConfigureFlags) and the    *)
(* parser it runs.  The settings are found by GxConfiguration.             *)
(***************************************************************************)
EXTENDS GxConfiguration

(* The exit status while main still runs; those of the parser are 0 and 1. *)
NotYet == 2
Status == {0, 1}

VARIABLES
    flagsFound,  \* cfr: whether ConfigureFlags succeeded
    guess,       \* what the guessed flags hold, {} if they are not guessed
    child,       \* the parser: "none", "running", "exited" or "lost"
    childStatus, \* its exit status
    exit         \* the exit status of main

mainVars == <<flagsFound, guess, child, childStatus, exit>>
vars == <<pc, configVars, mainVars>>

Init ==
    /\ ConfigInit
    /\ flagsFound = FALSE /\ guess = {}
    /\ child = "none" /\ childStatus = NotYet
    /\ exit = NotYet

Configure == ConfigNext /\ UNCHANGED mainVars

ConfigureFails ==
    /\ pc = "failed"
    /\ exit' = 1 /\ pc' = "exit"
    /\ UNCHANGED <<configVars, flagsFound, guess, child, childStatus>>

(* The options that are answered at once, and for good.                    *)
Information == {"man", "copyright", "help-html", "help", "version"}
Inform ==
    /\ pc = "configured" /\ shows \cap Information # {}
    /\ exit' = 0 /\ pc' = "exit"
    /\ UNCHANGED <<configVars, flagsFound, guess, child, childStatus>>

-----------------------------------------------------------------------------
(* ConfigureFlags.  What the simulated compiler does when it is run is up  *)
(* to the compiler.                                                        *)

StartFlags == pc = "configured" /\ shows \cap Information = {}

(* GCCXML_FLAGS need not be guessed.                                       *)
FlagsGiven ==
    /\ StartFlags /\ settings["GCCXML_FLAGS"] # ""
    /\ flagsFound' = TRUE
    /\ pc' = "flags"
    /\ UNCHANGED <<configVars, guess, child, childStatus, exit>>

(* There is no compiler to guess from, it does not identify itself as one  *)
(* that is supported, or it does not tell its macros.                      *)
FlagsNotFound ==
    /\ StartFlags /\ settings["GCCXML_FLAGS"] = ""
    /\ flagsFound' = FALSE
    /\ pc' = "flags"
    /\ UNCHANGED <<configVars, guess, child, childStatus, exit>>

Guessed(parts) ==
    /\ StartFlags /\ settings["GCCXML_FLAGS"] = "" /\ settings["GCCXML_COMPILER"] # ""
    /\ settings' = [settings EXCEPT !["GCCXML_FLAGS"] = "guessed"]
    /\ guess' = parts
    /\ flagsFound' = TRUE
    /\ pc' = "flags"
    /\ UNCHANGED <<world, config, haveCxxflags, haveRoot, arguments, shows,
                   checkedEnvironment, next, child, childStatus, exit>>

(* GetCompilerId has found its data, and the compiler names itself.        *)
Identified == FindData("identify")

(* GCC must tell its macros.  The include directories, asked for by        *)
(* another run of the compiler, and the directory of the wrapper headers   *)
(* need not be found.                                                      *)
FindFlagsGCC ==
    /\ Identified
    /\ \E includes \in SUBSET {"includes"} :
          Guessed({"macros"} \cup includes \cup IF FindData("GCC") THEN {"wrappers"} ELSE {})

(* Any other compiler has a script, which tells all the flags.             *)
FindFlagsScript == Identified /\ FindData("find_flags") /\ Guessed({"script"})

-----------------------------------------------------------------------------
(* --print                                                                 *)
PrintConfiguration ==
    /\ pc = "flags" /\ "print" \in shows
    /\ exit' = (IF flagsFound THEN 0 ELSE 1) /\ pc' = "exit"
    /\ UNCHANGED <<configVars, flagsFound, guess, child, childStatus>>

NothingToDo ==
    /\ pc = "flags" /\ "print" \notin shows /\ arguments = <<>>
    /\ exit' = 0 /\ pc' = "exit"
    /\ UNCHANGED <<configVars, flagsFound, guess, child, childStatus>>

(* The program to run: cge.                                                *)
Selected == settings[IF "preprocess" \in shows THEN "GCCXML_CPP" ELSE "GCCXML_EXECUTABLE"]
ToDo == pc = "flags" /\ "print" \notin shows /\ arguments # <<>>

(* No flags, or no program.                                                *)
CannotRun ==
    /\ ToDo /\ (~flagsFound \/ Selected = "")
    /\ exit' = 1 /\ pc' = "exit"
    /\ UNCHANGED <<configVars, flagsFound, guess, child, childStatus>>

(* Mutant of Execute: the flags are not checked.                           *)
ExecuteUnchecked ==
    /\ ToDo /\ Selected # ""
    /\ child' = "running" /\ pc' = "wait"
    /\ UNCHANGED <<configVars, flagsFound, guess, childStatus, exit>>
Execute ==
    /\ ToDo /\ flagsFound /\ Selected # ""
    /\ child' = "running" /\ pc' = "wait"
    /\ UNCHANGED <<configVars, flagsFound, guess, childStatus, exit>>

(* The parser exits, or it could not be run or was ended by a signal.      *)
ChildExits ==
    /\ pc = "wait" /\ child = "running"
    /\ \/ child' = "exited" /\ childStatus' \in Status
       \/ child' = "lost" /\ UNCHANGED childStatus
    /\ UNCHANGED <<pc, configVars, flagsFound, guess, exit>>

(* Mutant of ChildResult: a parser that is lost is taken to have succeeded. *)
ChildResultLost == IF child = "exited" THEN childStatus ELSE 0
(* The status of the parser, 1 if it has none.                             *)
ChildResult == IF child = "exited" THEN childStatus ELSE 1

(* WaitForExit has returned: it waits without a timeout.                   *)
Waited ==
    /\ pc = "wait" /\ child # "running"
    /\ exit' = ChildResult /\ pc' = "exit"
    /\ UNCHANGED <<configVars, flagsFound, guess, child, childStatus>>

Exited == pc = "exit" /\ UNCHANGED vars

Next ==
    \/ Configure \/ ConfigureFails \/ Inform
    \/ FlagsGiven \/ FlagsNotFound \/ FindFlagsGCC \/ FindFlagsScript
    \/ PrintConfiguration \/ NothingToDo \/ CannotRun
    \/ Execute \/ ChildExits \/ Waited
    \/ Exited

(* main is one sequence of calls.  That it ends needs a parser that ends.  *)
Spec == Init /\ [][Next]_vars /\ WF_vars(Next)

-----------------------------------------------------------------------------
TypeOK ==
    /\ pc \in {"argv", "file", "read", "late", "cxx", "defaults", "configured",
               "failed", "flags", "wait", "exit"}
    /\ settings = [k \in Setting |-> settings[k]]
    /\ haveCxxflags \in BOOLEAN /\ haveRoot \in BOOLEAN /\ checkedEnvironment \in BOOLEAN
    /\ next \in Nat \ {0}
    /\ pc = "argv" => next <= Len(world.argv) + 1
    /\ pc = "read" => next <= Len(Lines) + 1
    /\ flagsFound \in BOOLEAN
    /\ guess \subseteq {"macros", "wrappers", "includes", "script"}
    /\ child \in {"none", "running", "exited", "lost"}
    /\ childStatus \in Status \cup {NotYet}
    /\ exit \in Status \cup {NotYet}

-----------------------------------------------------------------------------
(* What the settings should be, said without the steps that set them.      *)

(* A value settles a setting unless it is empty; GCCXML_CXXFLAGS may be.   *)
Settles(k, value) == k = "GCCXML_CXXFLAGS" \/ value # ""

(* Sources: the last value the command line has for a setting, the first   *)
(* one a file has that settles it, and the environment.                    *)
OnCommandLine ==
    LET at(k) == {i \in DOMAIN world.argv : world.argv[i].opt = "set" /\ world.argv[i].key = k}
        keys == {k \in Setting \cup {"GCCXML_CONFIG"} : at(k) # {}}
    IN [k \in keys |->
          world.argv[CHOOSE i \in at(k) : \A j \in at(k) : j <= i].value]
InFile(lines) ==
    LET at(k) == {i \in DOMAIN lines : /\ lines[i].line = "set"
                                       /\ lines[i].key = k
                                       /\ Settles(k, lines[i].value)}
    IN [k \in {k \in Setting : at(k) # {}} |->
          lines[CHOOSE i \in at(k) : \A j \in at(k) : i <= j].value]
InCxx == [k \in {k \in DOMAIN CxxVariable : CxxVariable[k] \in DOMAIN world.env} |->
            world.env[CxxVariable[k]]]

WholeFile == IF config \in DOMAIN world.files THEN Lines ELSE <<>>
(* The lines before the first one that does not fit the buffer.            *)
FittingLines ==
    LET fits(n) == \A i \in 1 .. n : WholeFile[i].line # "long"
    IN SubSeq(WholeFile, 1, CHOOSE n \in 0 .. Len(WholeFile) :
                                fits(n) /\ (n < Len(WholeFile) => ~fits(n + 1)))

ConfigOnCommandLine ==
    "GCCXML_CONFIG" \in DOMAIN OnCommandLine /\ OnCommandLine["GCCXML_CONFIG"] # ""

(* The sources in the documented order.                                    *)
Sources(lines, env) ==
    IF ConfigOnCommandLine THEN <<OnCommandLine, InFile(lines), env, InCxx>>
                           ELSE <<OnCommandLine, env, InFile(lines), InCxx>>

(* The value of the first source that settles the setting.                 *)
Chosen(k, sources) ==
    LET at == {i \in DOMAIN sources : k \in DOMAIN sources[i] /\ Settles(k, sources[i][k])}
    IN IF at = {} THEN "" ELSE sources[CHOOSE i \in at : \A j \in at : i <= j][k]

HaveDefault == {"GCCXML_EXECUTABLE", "GCCXML_CPP", "GCCXML_ROOT", "GCCXML_FLAGS"}
SettledBy(sources) ==
    \A k \in Setting : \/ settings[k] = Chosen(k, sources)
                       \/ k \in HaveDefault /\ Chosen(k, sources) = ""

Settled == pc \in {"configured", "flags", "wait"}
Nowhere == [k \in {} |-> ""]
EnvironmentIgnored == ConfigOnCommandLine /\ checkedEnvironment

(* The order of precedence of gxDocumentation.cxx, for the sources that    *)
(* are looked at: with a file named on the command line the environment    *)
(* comes after it, and is looked at if checkedEnvironment happens to be    *)
(* FALSE; of the file, the lines before one that is too long.              *)
Precedence ==
    Settled => SettledBy(Sources(FittingLines, IF EnvironmentIgnored THEN Nowhere ELSE world.env))

(* The parser is never run without flags that simulate some compiler.      *)
NeverRunBlind == child # "none" => settings["GCCXML_FLAGS"] # "" /\ Selected # ""

(* Whoever asks for a dump and gets exit status 0 had the parser run, and  *)
(* the parser exited with 0; --print is answered with 0 only if the flags  *)
(* have been found.                                                        *)
ExitTellsTheTruth ==
    exit = 0 => \/ shows \cap Information # {}
                \/ "print" \in shows /\ settings["GCCXML_FLAGS"] # ""
                \/ "print" \notin shows /\ arguments = <<>>
                \/ child = "exited" /\ childStatus = 0

(* The front end exits, if the parser does.                                *)
Exits == <>(pc = "exit")

-----------------------------------------------------------------------------
(* What gxDocumentation.cxx says and the code does not do.                 *)

(* "Each setting not already known is read from an environment variable    *)
(* with its name."                                                         *)
EnvironmentIsRead == Settled => SettledBy(Sources(FittingLines, world.env))
=============================================================================
