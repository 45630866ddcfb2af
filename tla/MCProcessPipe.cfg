SPECIFICATION Spec
CONSTANTS
    a = a
    b = b
    Setups <- PipeFails
INVARIANTS
    StandardInputIsKept
