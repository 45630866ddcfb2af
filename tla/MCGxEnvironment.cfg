CONSTANTS
    World <- MCWorld
    CommandLines = {"config"}
    Environments = {"gccxml"}
    ConfigFiles = {"compiler"}
    BuildTrees = {FALSE}
SPECIFICATION Spec
INVARIANTS
    EnvironmentIsRead
