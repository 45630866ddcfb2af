CONSTANTS
    Unit <- MCUnit
    Node <- MCNode
    File <- MCFile
    Start <- MCStart
    Script <- MCScript
    Tree <- MCTree
    Starts <- MCStarts
    NoNode = NoNode
    None = None
    VarTypes = {"B"}
    Bodies = {"L"}
    DumpFrom = {"class G"}
SPECIFICATION Spec
INVARIANTS
    WholeMeansNoErrors
