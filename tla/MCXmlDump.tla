----------------------------- MODULE MCXmlDump -----------------------------
(* The worklist over every graph of a few nodes.  A unit gives each node a *)
(* strong reference, requested complete when the node is complete (a       *)
(* member, a base class, the type of a field), and a weak one, requested   *)
(* incomplete in both phases (a context, the target of a pointer).         *)
EXTENDS XmlDump, FiniteSets

None == "none"
MCNode == {"n1", "n2", "n3"}
MCFile == {"f1", "f2"}
FileOf == [n \in MCNode |-> IF n = "n1" THEN "f1" ELSE "f2"]

MCUnit == [MCNode -> [strong : MCNode \cup {None}, weak : MCNode \cup {None}]]

Ref(n, c) == IF n = None THEN <<>>
             ELSE <<[op |-> "add", node |-> n, complete |-> c]>>

MCStart == [u \in MCUnit |-> Ref("n1", 1)]
MCScript ==
    [u \in MCUnit |-> [n \in MCNode |-> [c \in Flag |->
        Ref(u[n].weak, 0)
            \o <<[op |-> "file", file |-> FileOf[n]]>>
            \o (IF c = 1 THEN Ref(u[n].strong, 1) ELSE <<>>)]]]

(* The theorems about quiet units are about these.                         *)
ASSUME UnitsAreQuiet == \A u \in MCUnit : Quiet(u)
=============================================================================
