----------------------------- MODULE MCGxFront -----------------------------
(* Worlds in which every means of configuration sets some of the settings, *)
(* and none, to a text and to "".                                          *)
EXTENDS GxFront, TLC

CONSTANTS
    CommandLines, \* the command lines to try
    Environments, \* the environments
    ConfigFiles,  \* what configuration files hold
    BuildTrees    \* whether gccxml runs from its build tree

Set(k, v) == [opt |-> "set", key |-> k, value |-> v]
Show(what) == [opt |-> "show", what |-> what]
Pass(arg) == [opt |-> "pass", arg |-> arg]
CommandLineOf(name) ==
    CASE name = "none"      -> <<>>
      [] name = "input"     -> <<[opt |-> "ignore"], Pass("input"), [opt |-> "output"]>>
      [] name = "-c"        -> <<Pass("input"), [opt |-> "ignore"]>>
      [] name = "-o"        -> <<Pass("input"), [opt |-> "missing"]>>
      [] name = "help"      -> <<Show("help"), Pass("input")>>
      [] name = "print"     -> <<Show("print"), Set("GCCXML_ROOT", "my root")>>
      [] name = "config"    -> <<Set("GCCXML_CONFIG", "mine"), Pass("input")>>
      [] name = "no config" -> <<Set("GCCXML_CONFIG", "missing"), Pass("input")>>
      [] name = "compiler"  -> <<Set("GCCXML_COMPILER", "first"), Set("GCCXML_CXXFLAGS", ""),
                                 Set("GCCXML_COMPILER", "last"), Show("preprocess"), Pass("input")>>
      [] name = "options"   -> <<[opt |-> "options", file |-> "args"], Set("GCCXML_COMPILER", "")>>
      [] name = "no file"   -> <<[opt |-> "options", file |-> "missing"]>>

EnvironmentOf(name) ==
    CASE name = "none"   -> Nowhere
      [] name = "CXX"    -> "CXX" :> "env CXX" @@ "CXXFLAGS" :> "env CXXFLAGS" @@ "HOME" :> "home"
      [] name = "config" -> "GCCXML_CONFIG" :> "mine" @@ "GCCXML_CXXFLAGS" :> ""
      [] name = "gccxml" -> "GCCXML_COMPILER" :> "env" @@ "GCCXML_CXXFLAGS" :> "env"
                            @@ "GCCXML_FLAGS" :> "env" @@ "CXX" :> "env CXX"
      [] name = "empty"  -> "GCCXML_COMPILER" :> "" @@ "GCCXML_CONFIG" :> ""
                            @@ "GCCXML_EXECUTABLE" :> "env" @@ "HOME" :> ""

Line(kind, k, v) == [line |-> kind, key |-> k, value |-> v]
LinesOf(name, from) ==
    CASE name = "empty"    -> <<>>
      [] name = "compiler" -> <<[line |-> "other"], Line("set", "GCCXML_COMPILER", ""),
                                Line("set", "GCCXML_COMPILER", from),
                                Line("set", "GCCXML_CXXFLAGS", ""),
                                Line("set", "GCCXML_CXXFLAGS", from)>>
      [] name = "long"     -> <<Line("set", "GCCXML_USER_FLAGS", from),
                                Line("long", "GCCXML_FLAGS", from),
                                Line("set", "GCCXML_COMPILER", from)>>

MCWorld ==
    {[argv |-> CommandLineOf(c), env |-> EnvironmentOf(e),
      files |-> [f \in {"mine"} \cup found |-> LinesOf(l, f)],
      options |-> [f \in {"args"} |-> <<"input", "-Iinclude">>],
      buildTree |-> b, programs |-> p,
      support |-> [s \in {"identify", "GCC", "find_flags"} |-> {root}]] :
        c \in CommandLines, e \in Environments, l \in ConfigFiles, b \in BuildTrees,
        found \in {{}, {HomeConfig, DataConfig}},
        p \in {{}, {"gccxml_cc1plus"}, {"gccxml_cc1plus", "gccxml_cpp0"}},
        root \in {DataRoot, SourceRoot}}
=============================================================================
