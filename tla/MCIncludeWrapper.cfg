SPECIFICATION WrapperSpec
CONSTANTS
    Units <- MCUnits
    StackMax = 10
INVARIANTS
    TypeOK
    FoundAsWithoutWrappers
    NoHeaderPastItsWrapper
    ChainsAreRight
PROPERTIES
    WrappersAreTransparent
    Ends
