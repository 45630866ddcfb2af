SPECIFICATION Spec
CONSTANTS
    A = A
    B = B
    C = C
    Units <- MCUnits
    Depth <- MCDepth
INVARIANT NeededIsReported
