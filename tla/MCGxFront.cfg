CONSTANTS
    World <- MCWorld
    CommandLines = {"none", "input", "-c", "-o", "help", "print", "config", "no config",
                    "compiler", "options", "no file"}
    Environments = {"none", "CXX", "config", "gccxml", "empty"}
    ConfigFiles = {"empty", "compiler", "long"}
    BuildTrees = {TRUE, FALSE}
SPECIFICATION Spec
INVARIANTS
    TypeOK
    Precedence
    NeverRunBlind
    ExitTellsTheTruth
PROPERTIES
    Exits
