SPECIFICATION Spec
CONSTANTS
    a = a
    b = b
    Setups <- ForkFails
INVARIANTS
    OnlyChildrenAreKilled
