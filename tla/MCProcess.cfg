SPECIFICATION Spec
CONSTANTS
    a = a
    b = b
    Setups <- MCSetups
INVARIANTS
    TypeOK
    NoExitIsLost
    NoSIGPIPE
    HandlerIsSafe
    HandlerReachesAll
    ExitIsReal
    NothingIsLeft
    NoStaleID
PROPERTIES
    Returns
