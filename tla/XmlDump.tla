------------------------------- MODULE XmlDump -------------------------------
(***************************************************************************)
(* The worklist of the XML dumper, gcc/cp/xml.c: do_xml_output and the     *)
(* functions it schedules nodes with.  One behaviour is one call of        *)
(* do_xml_output at the end of a translation unit.                         *)
(*                                                                         *)
(* What is printed for a node, and which nodes it refers to, is the        *)
(* business of XmlTree; here a node is printed by running through its      *)
(* Script, the sequence of the xml_add_node_real and xml_queue_file calls  *)
(* its output function makes.                                              *)
(***************************************************************************)
EXTENDS Naturals, Sequences

CONSTANTS Unit, Node, File, Start, Script  \* as in XmlReach
CONSTANT NoNode                            \* no node is being printed

(* The int flags of xml.c: 1 asks for a complete node, 0 does not.         *)
Flag == {0, 1}

AddOp == [op : {"add"}, node : Node, complete : Flag]
FileOp == [op : {"file"}, file : File]
Op == AddOp \cup FileOp

ASSUME UnitAssumption ==
    /\ Start \in [Unit -> Seq(Op)]
    /\ Script \in [Unit -> [Node -> [Flag -> Seq(Op)]]]
ASSUME NoNodeAssumption == NoNode \notin Node

VARIABLES
    tu,              \* the translation unit
    pc,              \* where do_xml_output is
    errorcount,      \* errors reported by the compiler so far
    output,          \* the XML file: "absent", "stale", "partial" or "whole"
    index,           \* dump_nodes: dn->index of each node, 0 if not met
    complete,        \* dump_nodes: dn->complete of each node
    nextIndex,       \* next_index
    requireComplete, \* require_complete
    queue,           \* queue..queue_end, the tree nodes of its entries
    queueFree,       \* the number of entries on queue_free
    allocated,       \* the number of queue entries malloc'ed and not freed
    current,         \* the node xml_dump_tree_node is printing, or NoNode
    pending,         \* the requests its output function has yet to make
    unvisited,       \* nodes splay_tree_foreach has still to visit
    fileQueue,       \* file_queue..file_queue_end; position = file index + 1
    filesOut,        \* the File elements printed
    doc              \* the nodes printed: [node, complete] in order

sched == <<queue, queueFree, allocated>>
nodes == <<index, complete, nextIndex>>
vars == <<tu, pc, errorcount, output, nodes, requireComplete, sched,
          current, pending, unvisited, fileQueue, filesOut, doc>>

Init ==
    /\ tu \in Unit
    /\ pc = "enter"
    /\ errorcount \in {0, 1}
    /\ output \in {"absent", "stale"}
    /\ index = [n \in Node |-> 0]
    /\ complete = [n \in Node |-> 0]
    /\ nextIndex = 1
    /\ requireComplete = 1
    /\ queue = <<>> /\ queueFree = 0 /\ allocated = 0
    /\ current = NoNode
    /\ pending = <<>>
    /\ unvisited = {}
    /\ fileQueue = <<>> /\ filesOut = <<>> /\ doc = <<>>

-----------------------------------------------------------------------------
(* The head of do_xml_output.                                              *)

(* Parse errors: any earlier output file is removed, nothing is dumped.    *)
ErrorsOccurred ==
    /\ pc = "enter" /\ errorcount > 0
    /\ output' = "absent"
    /\ pc' = "done"
    /\ UNCHANGED <<tu, errorcount, nodes, requireComplete, sched, current,
                   pending, unvisited, fileQueue, filesOut, doc>>

(* fopen fails: the file is whatever it was.                               *)
OpenFails ==
    /\ pc = "enter" /\ errorcount = 0
    /\ errorcount' = 1
    /\ pc' = "done"
    /\ UNCHANGED <<tu, output, nodes, requireComplete, sched, current,
                   pending, unvisited, fileQueue, filesOut, doc>>

(* fopen truncates the file; the starting nodes are to be added.           *)
OpenOutput ==
    /\ pc = "enter" /\ errorcount = 0
    /\ output' = "partial"
    /\ pending' = Start[tu]
    /\ pc' = "print"
    /\ UNCHANGED <<tu, errorcount, nodes, requireComplete, sched, current,
                   unvisited, fileQueue, filesOut, doc>>

-----------------------------------------------------------------------------
(* Scheduling.                                                             *)

(* Mutant of QueueNode: the free list is taken to hold an entry.           *)
QueueNodeUnchecked(n) ==
    queue' = Append(queue, n) /\ queueFree' = queueFree - 1 /\ UNCHANGED allocated

(* An entry comes from the free list if there is one, else from malloc.    *)
QueueNode(n) ==
    /\ queue' = Append(queue, n)
    /\ \/ queueFree > 0 /\ queueFree' = queueFree - 1 /\ UNCHANGED allocated
       \/ queueFree = 0 /\ allocated' = allocated + 1 /\ UNCHANGED queueFree

(* Mutants of AddKnown: a complete node is queued whenever it is asked     *)
(* for, and a node stays as it was first met.                              *)
AddKnownRequeued(n, c) ==
    /\ index[n] # 0
    /\ IF c = 1 THEN complete' = [complete EXCEPT ![n] = 1] /\ QueueNode(n)
                ELSE UNCHANGED <<complete, sched>>
    /\ UNCHANGED <<index, nextIndex, errorcount>>
AddKnownIgnored(n, c) ==
    index[n] # 0 /\ UNCHANGED <<complete, sched, index, nextIndex, errorcount>>

(* A node met before is queued again only when it becomes complete.        *)
AddKnown(n, c) ==
    /\ index[n] # 0
    /\ IF c = 1 /\ complete[n] = 0
         THEN complete' = [complete EXCEPT ![n] = 1] /\ QueueNode(n)
         ELSE UNCHANGED <<complete, sched>>
    /\ UNCHANGED <<index, nextIndex, errorcount>>

(* Mutants of AddNew: everything is queued at once, only complete nodes    *)
(* are queued, and any node that is new late is taken for a bug.           *)
AddNewEager(n, c) ==
    /\ index[n] = 0
    /\ index' = [index EXCEPT ![n] = nextIndex]
    /\ nextIndex' = nextIndex + 1
    /\ complete' = [complete EXCEPT ![n] = c]
    /\ QueueNode(n)
    /\ UNCHANGED errorcount
AddNewUnqueued(n, c) ==
    /\ index[n] = 0
    /\ index' = [index EXCEPT ![n] = nextIndex]
    /\ nextIndex' = nextIndex + 1
    /\ complete' = [complete EXCEPT ![n] = c]
    /\ IF c = 1 THEN QueueNode(n) ELSE UNCHANGED sched
    /\ UNCHANGED errorcount

AddNewReported(n, c) ==
    /\ index[n] = 0
    /\ index' = [index EXCEPT ![n] = nextIndex]
    /\ nextIndex' = nextIndex + 1
    /\ complete' = [complete EXCEPT ![n] = c]
    /\ IF c = 1 \/ requireComplete = 0 THEN QueueNode(n) ELSE UNCHANGED sched
    /\ errorcount' = IF requireComplete = 0 THEN errorcount + 1 ELSE errorcount

(* A new node gets the next index.  In the incomplete phase everything is  *)
(* queued at once, and a complete node is reported as a bug of the dumper. *)
AddNew(n, c) ==
    /\ index[n] = 0
    /\ index' = [index EXCEPT ![n] = nextIndex]
    /\ nextIndex' = nextIndex + 1
    /\ complete' = [complete EXCEPT ![n] = c]
    /\ IF c = 1 \/ requireComplete = 0 THEN QueueNode(n) ELSE UNCHANGED sched
    /\ errorcount' = IF c = 1 /\ requireComplete = 0 THEN errorcount + 1 ELSE errorcount

AddNodeReal(n, c) == AddKnown(n, c) \/ AddNew(n, c)

(* Mutant of AddNode: the output function does not move on.                *)
AddNodeStuck ==
    /\ pc = "print" /\ pending # <<>> /\ Head(pending).op = "add"
    /\ AddNodeReal(Head(pending).node, Head(pending).complete)
    /\ UNCHANGED <<tu, pc, output, requireComplete, current, pending, unvisited,
                   fileQueue, filesOut, doc>>

AddNode ==
    /\ pc = "print" /\ pending # <<>> /\ Head(pending).op = "add"
    /\ AddNodeReal(Head(pending).node, Head(pending).complete)
    /\ pending' = Tail(pending)
    /\ UNCHANGED <<tu, pc, output, requireComplete, current, unvisited,
                   fileQueue, filesOut, doc>>

(* A file already queued is not queued again.                              *)
NewFiles(f) == IF \E i \in DOMAIN fileQueue : fileQueue[i] = f THEN <<>> ELSE <<f>>

QueueFile ==
    /\ pc = "print" /\ pending # <<>> /\ Head(pending).op = "file"
    /\ fileQueue' = fileQueue \o NewFiles(Head(pending).file)
    /\ pending' = Tail(pending)
    /\ UNCHANGED <<tu, pc, errorcount, output, nodes, requireComplete, sched,
                   current, unvisited, filesOut, doc>>

(* The output function returns; its node is printed.  After the starting   *)
(* nodes there is none.                                                    *)
FinishNode ==
    /\ pc = "print" /\ pending = <<>>
    /\ doc' = IF current = NoNode THEN doc
              ELSE Append(doc, [node |-> current, complete |-> complete[current]])
    /\ current' = NoNode
    /\ pc' = "loop"
    /\ UNCHANGED <<tu, errorcount, output, nodes, requireComplete, sched,
                   pending, unvisited, fileQueue, filesOut>>

(* Mutant of DumpNext: the entry is not put on the free list.              *)
DumpNextLeaking ==
    /\ pc = "loop" /\ queue # <<>>
    /\ queue' = Tail(queue)
    /\ current' = Head(queue)
    /\ pending' = Script[tu][Head(queue)][complete[Head(queue)]]
    /\ pc' = "print"
    /\ UNCHANGED <<tu, errorcount, output, nodes, requireComplete, queueFree,
                   allocated, unvisited, fileQueue, filesOut, doc>>

(* One turn of xml_dump: the entry goes to the free list before the node   *)
(* is printed, so that printing may reuse it.                              *)
DumpNext ==
    /\ pc = "loop" /\ queue # <<>>
    /\ queue' = Tail(queue)
    /\ queueFree' = queueFree + 1
    /\ current' = Head(queue)
    /\ pending' = Script[tu][Head(queue)][complete[Head(queue)]]
    /\ pc' = "print"
    /\ UNCHANGED <<tu, errorcount, output, nodes, requireComplete, allocated,
                   unvisited, fileQueue, filesOut, doc>>

-----------------------------------------------------------------------------
(* Between the two calls of xml_dump.  The splay tree is ordered by the    *)
(* addresses of the tree nodes, so the incomplete nodes come in any order; *)
(* visits to complete nodes do nothing and are left out.                   *)

VisitDumpNodes ==
    /\ pc = "loop" /\ queue = <<>> /\ requireComplete = 1
    /\ unvisited' = {n \in Node : index[n] # 0 /\ complete[n] = 0}
    /\ pc' = "foreach"
    /\ UNCHANGED <<tu, errorcount, output, nodes, requireComplete, sched,
                   current, pending, fileQueue, filesOut, doc>>

QueueIncomplete(n) ==
    /\ pc = "foreach" /\ n \in unvisited
    /\ QueueNode(n)
    /\ unvisited' = unvisited \ {n}
    /\ UNCHANGED <<tu, pc, errorcount, output, nodes, requireComplete,
                   current, pending, fileQueue, filesOut, doc>>

StartIncomplete ==
    /\ pc = "foreach" /\ unvisited = {}
    /\ requireComplete' = 0
    /\ pc' = "loop"
    /\ UNCHANGED <<tu, errorcount, output, nodes, sched, current, pending,
                   unvisited, fileQueue, filesOut, doc>>

-----------------------------------------------------------------------------
(* The tail of do_xml_output.                                              *)

StartFiles ==
    /\ pc = "loop" /\ queue = <<>> /\ requireComplete = 0
    /\ pc' = "files"
    /\ UNCHANGED <<tu, errorcount, output, nodes, requireComplete, sched,
                   current, pending, unvisited, fileQueue, filesOut, doc>>

DumpFile ==
    /\ pc = "files" /\ Len(filesOut) < Len(fileQueue)
    /\ filesOut' = Append(filesOut, fileQueue[Len(filesOut) + 1])
    /\ UNCHANGED <<tu, pc, errorcount, output, nodes, requireComplete, sched,
                   current, pending, unvisited, fileQueue, doc>>

(* The end tag is printed and the entries of the free list are freed.      *)
CloseOutput ==
    /\ pc = "files" /\ Len(filesOut) = Len(fileQueue)
    /\ output' = "whole"
    /\ allocated' = allocated - queueFree
    /\ queueFree' = 0
    /\ pc' = "done"
    /\ UNCHANGED <<tu, errorcount, nodes, requireComplete, queue, current,
                   pending, unvisited, fileQueue, filesOut, doc>>

(* do_xml_output has returned.                                             *)
Returned == pc = "done" /\ UNCHANGED vars

Next ==
    \/ ErrorsOccurred \/ OpenFails \/ OpenOutput
    \/ AddNode \/ QueueFile \/ FinishNode \/ DumpNext
    \/ VisitDumpNodes \/ StartIncomplete
    \/ \E n \in Node : QueueIncomplete(n)
    \/ StartFiles \/ DumpFile \/ CloseOutput
    \/ Returned

(* The dumper is one sequential call: it keeps running until it returns.   *)
Spec == Init /\ [][Next]_vars /\ WF_vars(Next)

-----------------------------------------------------------------------------
TypeOK ==
    /\ tu \in Unit
    /\ pc \in {"enter", "print", "loop", "foreach", "files", "done"}
    /\ errorcount \in Nat
    /\ output \in {"absent", "stale", "partial", "whole"}
    /\ index \in [Node -> Nat]
    /\ complete \in [Node -> Flag]
    /\ nextIndex \in Nat \ {0}
    /\ requireComplete \in Flag
    /\ queue \in Seq(Node)
    /\ queueFree \in Nat
    /\ allocated \in Nat
    /\ current \in Node \cup {NoNode}
    /\ pending \in Seq(Op)
    /\ unvisited \subseteq Node
    /\ fileQueue \in Seq(File)
    /\ filesOut \in Seq(File)
    /\ doc \in Seq([node : Node, complete : Flag])

-----------------------------------------------------------------------------
Queued == {queue[i] : i \in DOMAIN queue}
Printed == {doc[i].node : i \in DOMAIN doc}
Met == {n \in Node : index[n] # 0}

(* Two tree nodes never share an id: the index handed out by               *)
(* xml_add_node_real is fresh, and stays with its node.                    *)
UniqueIndexes ==
    \A m, n \in Node : index[m] # 0 /\ index[m] = index[n] => m = n

(* The output function of a node runs at most once, although the node may  *)
(* be requested many times, first incomplete and then complete, in either  *)
(* phase and while it is itself being printed.                             *)
PrintedOnce ==
    \A i, j \in DOMAIN doc : doc[i].node = doc[j].node => i = j

(* What was printed is still true when the dump ends: no node is printed   *)
(* as incomplete and becomes complete afterwards.                          *)
NeverOutdated ==
    \A i \in DOMAIN doc : doc[i].complete = complete[doc[i].node]

(* Every queue entry is on the queue or on the free list until the clean   *)
(* up, which frees only the free list and yet leaves nothing allocated.    *)
EntriesConserved ==
    allocated = (IF pc = "done" THEN 0 ELSE queueFree + Len(queue))

(* A document that was closed was closed by a compilation without errors,  *)
(* in particular without the "XML dump bug" of xml_add_node_real.          *)
WholeMeansNoErrors == output = "whole" => errorcount = 0

(* In a closed document every node that has been met is printed, and each  *)
(* file a location attribute names has one File element.                   *)
WholeIsComplete ==
    output = "whole" =>
        /\ Printed = Met
        /\ filesOut = fileQueue
        /\ \A i, j \in DOMAIN filesOut : filesOut[i] = filesOut[j] => i = j

(* do_xml_output returns, however the references of the unit loop.         *)
Returns == <>(pc = "done")

(* Where a node can be.  In the first phase only complete nodes are on the *)
(* queue and all printed nodes are complete; from the visit of dump_nodes  *)
(* on, only incomplete ones are queued.  A node that has been met and is   *)
(* due is on the queue, being printed, printed or about to be visited, and *)
(* in one of these places only.                                            *)
Current == {current} \ {NoNode}
Due == {n \in Met : complete[n] = 1 \/ requireComplete = 0 \/ pc = "foreach"}
Schedule ==
    /\ \A i, j \in DOMAIN queue : queue[i] = queue[j] => i = j
    /\ Queued \cap Printed = {}
    /\ Current \cap (Queued \cup Printed) = {}
    /\ unvisited \cap (Queued \cup Printed) = {}
    /\ Queued \cup Printed \cup Current \cup unvisited \subseteq Met
    /\ Due \subseteq Queued \cup Printed \cup Current \cup unvisited
    /\ current # NoNode => pc = "print"
    /\ unvisited # {} => pc = "foreach"
    /\ pc \in {"enter", "foreach"} => requireComplete = 1
    /\ pc = "files" => requireComplete = 0
    /\ requireComplete = 1 => \A n \in Printed : complete[n] = 1
    /\ requireComplete = 1 /\ pc # "foreach"
          => \A n \in Queued \cup Current : complete[n] = 1
    /\ requireComplete = 0 \/ pc = "foreach"
          => \A n \in Queued \cup Current \cup unvisited : complete[n] = 0
    /\ requireComplete = 0 =>
          \A i \in DOMAIN pending : pending[i].op = "add" => pending[i].complete = 0
    /\ pc \notin {"enter", "done"} \/ output = "whole" => errorcount = 0
    /\ output = "whole" => pc = "done" /\ requireComplete = 0 /\ queue = <<>>
    /\ pc = "enter" => queue = <<>>
    /\ pc # "print" => pending = <<>>

(* File elements are printed in the order their files were first named.    *)
FileOrder ==
    /\ \A i, j \in DOMAIN fileQueue : fileQueue[i] = fileQueue[j] => i = j
    /\ Len(filesOut) <= Len(fileQueue)
    /\ \A i \in DOMAIN filesOut : filesOut[i] = fileQueue[i]
    /\ pc \notin {"files", "done"} => filesOut = <<>>
    /\ output = "whole" => pc = "done" /\ Len(filesOut) = Len(fileQueue)

-----------------------------------------------------------------------------
(* The worklist implements the dump that XmlReach promises.                *)
ReachPhase ==
    CASE pc = "enter"                          -> "idle"
      [] pc = "done" /\ output # "whole"       -> "refused"
      [] pc = "files" /\ output = "partial"    -> "closed"
      [] pc = "done" /\ output = "whole"       -> "closed"
      [] OTHER -> IF requireComplete = 1 THEN "full" ELSE "partial"

Reach == INSTANCE XmlReach
    WITH phase   <- ReachPhase,
         full    <- {doc[i].node : i \in {j \in DOMAIN doc : doc[j].complete = 1}},
         partial <- {doc[i].node : i \in {j \in DOMAIN doc : doc[j].complete = 0}}

(* Every step of the dumper is a step of the promise or none.              *)
DumpsTheReachable == Reach!Spec

(* Nothing that is unreachable from the starts is dumped in full, and from *)
(* the second phase on nothing reachable is missing (documented for        *)
(* -fxml-start= in gxDocumentation.cxx).  The second phase dumps what is   *)
(* mentioned besides, and nothing else.                                    *)
ExactlyTheReachable ==
    /\ Reach!OnlyReachable /\ Reach!AllReachable
    /\ Reach!OnlyMentioned /\ Reach!AllMentioned

(* A unit that can be dumped as promised: with F the nodes that are to be  *)
(* dumped in full and P those that are mentioned besides, none of P, when  *)
(* it is printed as incomplete, asks for a complete node.  Only the        *)
(* overrides attribute makes such a request.                               *)
Quiet(u) ==
    \E F, P \in SUBSET Node :
        /\ Reach!ClosedSet(u, F)
        /\ \A S \in SUBSET Node : Reach!ClosedSet(u, S) => F \subseteq S
        /\ Reach!Mentions(u, F, P)
        /\ \A n \in P : Reach!FullTargets(Script[u][n][0]) = {}
=============================================================================
