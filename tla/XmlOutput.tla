----------------------------- MODULE XmlOutput -----------------------------
(***************************************************************************)
(* The XML document as a whole: the worklist of XmlDump printing the nodes *)
(* of a C++ tree the way XmlTree says.  A unit u has the tree Tree[u], and *)
(* is dumped from the declarations Starts[u]: what -fxml-start= names, or  *)
(* the global namespace without that option.                               *)
(***************************************************************************)
EXTENDS XmlDump, XmlForm

CONSTANTS Tree, Starts

ASSUME ScriptsComeFromTrees ==
    \A u \in Unit : /\ DOMAIN Tree[u] = Node
                    /\ Script[u] = ScriptOf(Tree[u])
                    /\ Start[u] = StartOf(Tree[u], Starts[u])
ASSUME TreesAreWellFormed ==
    /\ IsFiniteSet(Node) /\ None \notin Node
    /\ \A u \in Unit : WellFormed(Tree[u], File) /\ Starts[u] \in Seq(Node)

-----------------------------------------------------------------------------
(* The ids the i-th element of the document declares and refers to.        *)
Declared(i) == DeclaredIds(Tree[tu], XmlAddNode(Tree[tu]), doc[i].node)
Referred(i) == References(Tree[tu], doc[i].node, doc[i].complete)

(* The id attributes of a document are of the XML type ID: no two elements *)
(* declare the same one, although the CvQualifiedType elements make up     *)
(* their ids from the index of another node.                               *)
UniqueIds ==
    \A i, j \in DOMAIN doc : i # j => Declared(i) \cap Declared(j) = {}

(* The type, context, members, ... attributes are of the XML type IDREF:   *)
(* whatever a closed document refers to is declared by one of its          *)
(* elements.  No reference has index 0, and a reference with qualifiers    *)
(* finds its CvQualifiedType.                                              *)
RefsResolve ==
    output = "whole" =>
        LET declared == UNION {Declared(i) : i \in DOMAIN doc}
        IN \A i \in DOMAIN doc : Referred(i) \subseteq declared
=============================================================================
