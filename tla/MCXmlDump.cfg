CONSTANTS
    Unit <- MCUnit
    Node <- MCNode
    File <- MCFile
    Start <- MCStart
    Script <- MCScript
    NoNode = NoNode
SPECIFICATION Spec
INVARIANTS
    TypeOK
    PrintedOnce
    NeverOutdated
    EntriesConserved
    WholeIsComplete
    Schedule
    ExactlyTheReachable
PROPERTIES
    DumpsTheReachable
    Returns
