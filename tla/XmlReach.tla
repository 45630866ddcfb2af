------------------------------ MODULE XmlReach ------------------------------
(***************************************************************************)
(* What an XML dump promises, without queues, indices or a free list.      *)
(*                                                                         *)
(* A dump is the subset of a translation unit that is reachable from its   *)
(* starting declarations (gxDocumentation.cxx, option -fxml-start=).  A    *)
(* node is dumped in full when a start or a full node refers to it as      *)
(* complete; every other node that is mentioned is dumped in part, after   *)
(* all the full ones.  No node is dumped twice.  A unit with parse errors  *)
(* has no dump at all.                                                     *)
(*                                                                         *)
(* XmlDump implements this specification with the worklist of cp/xml.c.    *)
(***************************************************************************)
EXTENDS Naturals, Sequences

CONSTANTS
    Unit,    \* translation units
    Node,    \* tree nodes
    Start,   \* Start[u]: the requests made for the starting declarations
    Script   \* Script[u][n][c]: the requests made while n is printed; c is
             \* 1 when n is printed as a complete node, else 0.  An "add" request
             \* names a node and tells whether it is wanted complete.

VARIABLES
    tu,      \* the translation unit being dumped
    phase,   \* "idle", "refused", "full", "partial", "closed"
    full,    \* the nodes dumped in full
    partial  \* the nodes dumped in part

vars == <<tu, phase, full, partial>>

(* The nodes the requests of s name, in full, and at all.                  *)
FullTargets(s) ==
    {s[i].node : i \in {j \in DOMAIN s : s[j].op = "add" /\ s[j].complete = 1}}
Targets(s) == {s[i].node : i \in {j \in DOMAIN s : s[j].op = "add"}}

(* The nodes wanted in full, and the nodes mentioned, when the nodes of F  *)
(* are dumped in full and those of P in part.                              *)
Wanted(u, F) ==
    FullTargets(Start[u])
        \cup (UNION {FullTargets(Script[u][n][1]) : n \in F})
Mentioned(u, F, P) ==
    Targets(Start[u])
        \cup (UNION {Targets(Script[u][n][1]) : n \in F})
        \cup (UNION {Targets(Script[u][n][0]) : n \in P})

-----------------------------------------------------------------------------
Init ==
    /\ tu \in Unit
    /\ phase = "idle"
    /\ full = {}
    /\ partial = {}

Begin == phase = "idle" /\ phase' = "full" /\ UNCHANGED <<tu, full, partial>>

Refuse == phase = "idle" /\ phase' = "refused" /\ UNCHANGED <<tu, full, partial>>

DumpFull(n) ==
    /\ phase = "full"
    /\ n \in Wanted(tu, full) \ full
    /\ full' = full \cup {n}
    /\ UNCHANGED <<tu, phase, partial>>

(* Every node wanted in full is dumped: turn to the rest.                  *)
Turn ==
    /\ phase = "full"
    /\ Wanted(tu, full) \subseteq full
    /\ phase' = "partial"
    /\ UNCHANGED <<tu, full, partial>>

DumpPartial(n) ==
    /\ phase = "partial"
    /\ n \in Mentioned(tu, full, partial) \ (full \cup partial)
    /\ partial' = partial \cup {n}
    /\ UNCHANGED <<tu, phase, full>>

Close ==
    /\ phase = "partial"
    /\ Mentioned(tu, full, partial) \subseteq full \cup partial
    /\ phase' = "closed"
    /\ UNCHANGED <<tu, full, partial>>

Next ==
    \/ Begin \/ Refuse \/ Turn \/ Close
    \/ \E n \in Node : DumpFull(n) \/ DumpPartial(n)

Spec == Init /\ [][Next]_vars /\ WF_vars(Next)

-----------------------------------------------------------------------------
TypeOK ==
    /\ tu \in Unit
    /\ phase \in {"idle", "refused", "full", "partial", "closed"}
    /\ full \subseteq Node
    /\ partial \subseteq Node

(* S is closed under the references that ask for a complete node.          *)
ClosedSet(u, S) == Wanted(u, S) \subseteq S

(* "GCC-XML will dump only the subset of the declarations ... reachable    *)
(* through a sequence of source references": whatever set of nodes holds   *)
(* the starts and is closed under complete references, nothing outside it  *)
(* is ever dumped in full.                                                 *)
OnlyReachable == \A S \in SUBSET Node : ClosedSet(tu, S) => full \subseteq S

(* And nothing is left out: from the turn on, the full nodes are closed;   *)
(* with OnlyReachable, they are the least closed set.                      *)
AllReachable == phase \in {"partial", "closed"} => ClosedSet(tu, full)

(* The same for the nodes dumped in part, once the full ones are known:    *)
(* they are the least set that holds whatever else is mentioned.           *)
Mentions(u, F, P) == Mentioned(u, F, P) \subseteq F \cup P
OnlyMentioned ==
    /\ phase \in {"idle", "refused", "full"} => partial = {}
    /\ phase \in {"partial", "closed"} =>
          \A P \in SUBSET Node : Mentions(tu, full, P) => partial \subseteq P
AllMentioned == phase = "closed" => Mentions(tu, full, partial)

(* A node is dumped in full or in part, never both.                        *)
NeverBoth == full \cap partial = {}

(* Every run ends: with a closed dump or with none.                        *)
Ends == <>(phase \in {"closed", "refused"})
=============================================================================
