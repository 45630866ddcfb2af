CONSTANTS
    Unit <- MCUnit
    Node <- MCNode
    File <- MCFile
    Start <- MCStart
    Script <- MCScript
    Tree <- MCTree
    Starts <- MCStarts
    NoNode = NoNode
    None = None
    VarTypes = {"B", "B const", "CB type", "CB volatile", "int const",
                "D const*", "D const* const", "B const[]", "pmf", "pmf const",
                "int D::*", "E", "A type", "V<int>", "v4 type"}
    Bodies = {"empty", "L", "L, K"}
    DumpFrom = {"::", "x", "class D"}
SPECIFICATION Spec
INVARIANTS
    UniqueIds
    RefsResolve
    WholeMeansNoErrors
