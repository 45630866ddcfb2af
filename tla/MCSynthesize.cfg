SPECIFICATION Spec
CONSTANTS
    A = A
    B = B
    C = C
    Units <- MCUnits
    Depth <- MCDepth
INVARIANTS
    TypeOK
    MarkedIsInvalid
    AcceptedIsValid
    TestIsSilent
    OnlyTheTestIsSilent
PROPERTIES
    Ends
