-------------------------- MODULE GxConfiguration --------------------------
(***************************************************************************)
(* How the front end gccxml finds its settings: gxConfiguration::Configure *)
(* (GXFront/gxConfiguration.cxx).  One behaviour is one call.              *)
(*                                                                         *)
(* A setting keeps the value of the first means that knows it: the command *)
(* line, the environment, a configuration file, the environment of other   *)
(* tools.  A value is a name for a text; "" is the empty text.             *)
(*                                                                         *)
(* A world is what the front end is run in:                                *)
(*   argv       the options, in order; records whose field "opt" is        *)
(*                "set"      with a key and a value (--gccxml-compiler ...) *)
(*                "options"  with a file (--gccxml-gcc-options)            *)
(*                "show"     with what (--help, --print, ...)              *)
(*                "output"   (-o)       "ignore" (-c)                      *)
(*                "pass"     any other, for the parser                     *)
(*                "missing"  an option whose argument is missing           *)
(*   env        the environment: a function from the variables that are set *)
(*   files      the configuration files that exist: a function from their  *)
(*              names to their lines; records whose field "line" is        *)
(*                "set"      with a key and a value                        *)
(*                "long"     the same, of 4095 characters or more          *)
(*                "other"    blank, a comment, invalid or an unknown key   *)
(*   options    the options files that exist, as sequences of arguments    *)
(*   buildTree  whether gccxml runs from its build tree                    *)
(*   programs   the programs found next to gccxml or on the path           *)
(*   support    a function from support files to the roots that hold them  *)
(***************************************************************************)
EXTENDS Naturals, Sequences

CONSTANT World

Setting == {"GCCXML_COMPILER", "GCCXML_CXXFLAGS", "GCCXML_EXECUTABLE", "GCCXML_CPP",
            "GCCXML_FLAGS", "GCCXML_USER_FLAGS", "GCCXML_ROOT"}

(* The worlds there are: options and lines of the forms above.  "" names   *)
(* no file.                                                                *)
IsSequence(s) == Len(s) \in Nat /\ DOMAIN s = 1 .. Len(s)
ASSUME WorldAssumption ==
    \A w \in World :
        /\ IsSequence(w.argv)
        /\ \A i \in DOMAIN w.argv :
              w.argv[i].opt = "set" => w.argv[i].key \in Setting \cup {"GCCXML_CONFIG"}
        /\ "" \notin DOMAIN w.files
        /\ \A f \in DOMAIN w.files :
              /\ IsSequence(w.files[f])
              /\ \A i \in DOMAIN w.files[f] :
                    w.files[f][i].line = "set" => w.files[f][i].key \in Setting

(* The files a configuration is looked for in, and the default root.       *)
HomeConfig == "$HOME/.gccxml/config"
DataConfig == "gccxml_config"
DataRoot == "data root"
SourceRoot == "source root"

VARIABLES
    world,
    pc,             \* where Configure is
    settings,       \* m_GCCXML_COMPILER, ...
    config,         \* m_GCCXML_CONFIG
    haveCxxflags,   \* m_HaveGCCXML_CXXFLAGS
    haveRoot,       \* m_HaveGCCXML_ROOT
    arguments,      \* m_Arguments
    shows,          \* the options of kind "show" that were given
    checkedEnvironment, \* the local variable of Configure
    next            \* the option, or the line of the file, to look at

configVars == <<world, settings, config, haveCxxflags, haveRoot, arguments,
                shows, checkedEnvironment, next>>

(* checkedEnvironment is not initialized: it is TRUE or FALSE.             *)
ConfigInit ==
    /\ world \in World
    /\ pc = "argv"
    /\ settings = [k \in Setting |-> ""]
    /\ config = ""
    /\ haveCxxflags = FALSE /\ haveRoot = FALSE
    /\ arguments = <<>> /\ shows = {}
    /\ checkedEnvironment \in BOOLEAN
    /\ next = 1

-----------------------------------------------------------------------------
(* ProcessCommandLine                                                      *)

Option == world.argv[next]
MoreOptions == pc = "argv" /\ next <= Len(world.argv)

(* A setting on the command line: the last one wins.                       *)
SetOption ==
    /\ MoreOptions /\ Option.opt = "set"
    /\ IF Option.key = "GCCXML_CONFIG"
         THEN config' = Option.value /\ UNCHANGED settings
         ELSE settings' = [settings EXCEPT ![Option.key] = Option.value] /\ UNCHANGED config
    /\ haveCxxflags' = (haveCxxflags \/ Option.key = "GCCXML_CXXFLAGS")
    /\ next' = next + 1
    /\ UNCHANGED <<world, pc, haveRoot, arguments, shows, checkedEnvironment>>

(* The options of a file are read as if they stood on the command line.    *)
ReadArgumentFile ==
    /\ MoreOptions /\ Option.opt = "options"
    /\ Option.file \in DOMAIN world.options
    /\ arguments' = arguments \o world.options[Option.file]
    /\ next' = next + 1
    /\ UNCHANGED <<world, pc, settings, config, haveCxxflags, haveRoot, shows,
                   checkedEnvironment>>

(* Mutant of OtherOption: -c is taken to have an argument.                 *)
OtherOptionArgument ==
    /\ MoreOptions /\ Option.opt \in {"show", "output", "ignore", "pass"}
    /\ shows' = IF Option.opt = "show" THEN shows \cup {Option.what} ELSE shows
    /\ arguments' = CASE Option.opt = "output" -> Append(arguments, "-fxml=")
                      [] Option.opt = "pass"   -> Append(arguments, Option.arg)
                      [] OTHER                 -> arguments
    /\ next' = next + IF Option.opt = "ignore" THEN 2 ELSE 1
    /\ UNCHANGED <<world, pc, settings, config, haveCxxflags, haveRoot, checkedEnvironment>>
(* Flags, and what is for the parser.  -o is turned into -fxml=.           *)
OtherOption ==
    /\ MoreOptions /\ Option.opt \in {"show", "output", "ignore", "pass"}
    /\ shows' = IF Option.opt = "show" THEN shows \cup {Option.what} ELSE shows
    /\ arguments' = CASE Option.opt = "output" -> Append(arguments, "-fxml=")
                      [] Option.opt = "pass"   -> Append(arguments, Option.arg)
                      [] OTHER                 -> arguments
    /\ next' = next + 1
    /\ UNCHANGED <<world, pc, settings, config, haveCxxflags, haveRoot, checkedEnvironment>>

BadOption ==
    /\ MoreOptions
    /\ \/ Option.opt = "missing"
       \/ Option.opt = "options" /\ Option.file \notin DOMAIN world.options
    /\ pc' = "failed"
    /\ UNCHANGED configVars

-----------------------------------------------------------------------------
(* A source of settings is a function on some of the settings.  Only       *)
(* settings that are not known are taken from it; GCCXML_CXXFLAGS may be   *)
(* known to be empty, the others are known when they are not.              *)
Known(k) == IF k = "GCCXML_CXXFLAGS" THEN haveCxxflags ELSE settings[k] # ""

(* Mutant of TakeUnknown: what is known is not looked at.                  *)
TakeUnknownAll(source) ==
    /\ settings' = [k \in Setting |-> IF k \in DOMAIN source THEN source[k] ELSE settings[k]]
    /\ haveCxxflags' = (haveCxxflags \/ "GCCXML_CXXFLAGS" \in DOMAIN source)
TakeUnknown(source) ==
    /\ settings' = [k \in Setting |->
                      IF Known(k) \/ k \notin DOMAIN source THEN settings[k] ELSE source[k]]
    /\ haveCxxflags' = (haveCxxflags \/ "GCCXML_CXXFLAGS" \in DOMAIN source)

CheckEnvironment ==
    /\ TakeUnknown(world.env)
    /\ config' = IF config = "" /\ "GCCXML_CONFIG" \in DOMAIN world.env
                   THEN world.env["GCCXML_CONFIG"] ELSE config

(* The options are read.  Without a file given there, the environment is   *)
(* checked before the file.                                                *)
CheckEnvironmentFirst ==
    /\ pc = "argv" /\ next > Len(world.argv)
    /\ IF config = ""
         THEN CheckEnvironment /\ checkedEnvironment' = TRUE
         ELSE UNCHANGED <<settings, haveCxxflags, config, checkedEnvironment>>
    /\ next' = 1
    /\ pc' = "file"
    /\ UNCHANGED <<world, haveRoot, arguments, shows>>

(* FindConfigFile: the file in the home directory, unless gccxml runs from *)
(* the build tree; else the one in the data root; else none.               *)
HomeGiven == "HOME" \in DOMAIN world.env /\ world.env["HOME"] # ""
HomeFound == ~world.buildTree /\ HomeGiven /\ HomeConfig \in DOMAIN world.files
FoundConfig == IF HomeFound THEN HomeConfig
               ELSE IF DataConfig \in DOMAIN world.files THEN DataConfig ELSE ""

(* CheckConfigFile up to the first line of the file, if there is one.      *)
CheckConfigFile ==
    LET file == IF config = "" THEN FoundConfig ELSE config
    IN /\ pc = "file"
       /\ config' = file
       /\ pc' = IF file = "" THEN "late"
                 ELSE IF file \in DOMAIN world.files THEN "read" ELSE "failed"
       /\ UNCHANGED <<world, settings, haveCxxflags, haveRoot, arguments, shows,
                      checkedEnvironment, next>>

Lines == world.files[config]

(* Mutant of ReadLine: a line is read over and over again.                 *)
ReadLineStuck ==
    /\ pc = "read" /\ next <= Len(Lines) /\ Lines[next].line # "long"
    /\ IF Lines[next].line = "set"
         THEN TakeUnknown([k \in {Lines[next].key} |-> Lines[next].value])
         ELSE UNCHANGED <<settings, haveCxxflags>>
    /\ UNCHANGED <<world, pc, config, haveRoot, arguments, shows, checkedEnvironment, next>>
ReadLine ==
    /\ pc = "read" /\ next <= Len(Lines) /\ Lines[next].line # "long"
    /\ IF Lines[next].line = "set"
         THEN TakeUnknown([k \in {Lines[next].key} |-> Lines[next].value])
         ELSE UNCHANGED <<settings, haveCxxflags>>
    /\ next' = next + 1
    /\ UNCHANGED <<world, pc, config, haveRoot, arguments, shows, checkedEnvironment>>

(* A line that does not fit the buffer makes getline fail, which looks     *)
(* like the end of the file.                                               *)
EndOfFile ==
    /\ pc = "read"
    /\ next <= Len(Lines) => Lines[next].line = "long"
    /\ pc' = "late"
    /\ UNCHANGED configVars

CheckEnvironmentLate ==
    /\ pc = "late"
    /\ IF checkedEnvironment THEN UNCHANGED <<settings, haveCxxflags, config>>
                             ELSE CheckEnvironment
    /\ pc' = "cxx"
    /\ UNCHANGED <<world, haveRoot, arguments, shows, checkedEnvironment, next>>

(* CXX and CXXFLAGS, each on its own.                                      *)
CxxVariable == [k \in {"GCCXML_COMPILER", "GCCXML_CXXFLAGS"} |->
                  IF k = "GCCXML_COMPILER" THEN "CXX" ELSE "CXXFLAGS"]
CheckCxxEnvironment ==
    LET given == {k \in DOMAIN CxxVariable : CxxVariable[k] \in DOMAIN world.env}
    IN /\ pc = "cxx"
       /\ TakeUnknown([k \in given |-> world.env[CxxVariable[k]]])
       /\ pc' = "defaults"
       /\ UNCHANGED <<world, config, haveRoot, arguments, shows, checkedEnvironment, next>>

(* The root and the two programs, if nobody set them.  Without a separate  *)
(* preprocessor the parser is taken to have one.                           *)
Program(name) == IF name \in world.programs THEN name ELSE ""
Or(value, default) == IF value # "" THEN value ELSE default
SetDefaults ==
    LET root == settings["GCCXML_ROOT"]
        executable == Or(settings["GCCXML_EXECUTABLE"], Program("gccxml_cc1plus"))
        cpp == Or(settings["GCCXML_CPP"], Or(Program("gccxml_cpp0"), executable))
    IN /\ pc = "defaults"
       /\ settings' = [settings EXCEPT !["GCCXML_ROOT"] = Or(root, DataRoot),
                                       !["GCCXML_EXECUTABLE"] = executable,
                                       !["GCCXML_CPP"] = cpp]
       /\ haveRoot' = (root \notin {"", DataRoot})
       /\ pc' = "configured"
       /\ UNCHANGED <<world, config, haveCxxflags, arguments, shows, checkedEnvironment, next>>

ConfigNext ==
    \/ SetOption \/ ReadArgumentFile \/ OtherOption \/ BadOption
    \/ CheckEnvironmentFirst \/ CheckConfigFile \/ ReadLine \/ EndOfFile
    \/ CheckEnvironmentLate \/ CheckCxxEnvironment \/ SetDefaults

-----------------------------------------------------------------------------
(* FindData: a support file is in the root, or, unless a root was set, in  *)
(* the source tree of a gccxml that runs from its build tree.              *)
FindData(name) ==
    \/ settings["GCCXML_ROOT"] \in world.support[name]
    \/ ~haveRoot /\ world.buildTree /\ SourceRoot \in world.support[name]
=============================================================================
