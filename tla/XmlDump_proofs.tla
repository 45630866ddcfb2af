--------------------------- MODULE XmlDump_proofs ---------------------------
(***************************************************************************)
(* Theorems about the worklist, for every set of units, nodes and scripts. *)
(*                                                                         *)
(* Types and the accounting of queue entries are proved together, since    *)
(* "allocated - queueFree" is a natural number only because no entry is    *)
(* ever lost.  Ids come next.  The rest is about quiet units, in which     *)
(* none of the nodes that the promise leaves partial asks for a complete   *)
(* one. Schedule says where a node can be in each phase, Reasons why it is *)
(* there; both need that what is yet to be printed as incomplete asks for  *)
(* nothing complete (Hushed), and this is so because only what XmlReach    *)
(* leaves partial is ever due as incomplete.  So Schedule, Reasons and     *)
(* what they give are one inductive invariant, Dumping.                    *)
(***************************************************************************)
EXTENDS XmlDump, TLAPS

(* The queue is empty where do_xml_output does not expect entries.         *)
Accounting ==
    /\ EntriesConserved
    /\ pc \in {"enter", "files"} => queue = <<>>
    /\ pc = "enter" => queueFree = 0

TypedAccounting == TypeOK /\ Accounting

(* Queueing a node takes an entry from the free list or allocates one.     *)
LEMMA QueueNodeType ==
    ASSUME NEW n \in Node, TypedAccounting, QueueNode(n), pc # "done"
    PROVE  /\ queue' \in Seq(Node)
           /\ queueFree' \in Nat
           /\ allocated' \in Nat
           /\ allocated' = queueFree' + Len(queue')
  BY DEF TypedAccounting, TypeOK, Accounting, EntriesConserved, QueueNode

LEMMA TypedAccountingInductive == Spec => []TypedAccounting
<1> USE UnitAssumption DEF Flag
<1>1. Init => TypedAccounting
  BY DEF Init, TypedAccounting, TypeOK, Accounting, EntriesConserved
<1>2. TypedAccounting /\ [Next]_vars => TypedAccounting'
  <2> SUFFICES ASSUME TypedAccounting, [Next]_vars PROVE TypedAccounting'
    OBVIOUS
  <2> USE DEF TypedAccounting, TypeOK, Accounting, EntriesConserved
  <2>1. ASSUME ErrorsOccurred PROVE TypedAccounting'
    BY <2>1 DEF ErrorsOccurred, nodes, sched
  <2>2. ASSUME OpenFails PROVE TypedAccounting'
    BY <2>2 DEF OpenFails, nodes, sched
  <2>3. ASSUME OpenOutput PROVE TypedAccounting'
    BY <2>3 DEF OpenOutput, nodes, sched
  <2>5. ASSUME AddNode PROVE TypedAccounting'
    <3> DEFINE o == Head(pending)
    <3>1. o \in AddOp /\ pending' \in Seq(Op)
      BY <2>5 DEF AddNode, Op, AddOp, FileOp
    <3>2. o.node \in Node /\ o.complete \in Flag
      BY <3>1 DEF AddOp
    <3>3. CASE AddKnown(o.node, o.complete)
      <4>1. CASE o.complete = 1 /\ complete[o.node] = 0
        BY <2>5, <3>1, <3>2, <3>3, <4>1, QueueNodeType DEF AddNode, AddKnown
      <4>2. CASE ~(o.complete = 1 /\ complete[o.node] = 0)
        BY <2>5, <3>1, <3>2, <3>3, <4>2 DEF AddNode, AddKnown, sched
      <4>3. QED BY <4>1, <4>2
    <3>4. CASE AddNew(o.node, o.complete)
      <4>1. /\ index' \in [Node -> Nat] /\ complete' \in [Node -> Flag]
            /\ nextIndex' \in Nat \ {0} /\ errorcount' \in Nat
        <5>1. index' \in [Node -> Nat] /\ nextIndex' \in Nat \ {0}
          <6>1. /\ index' = [index EXCEPT ![o.node] = nextIndex]
                /\ nextIndex' = nextIndex + 1
            BY <3>4 DEF AddNew
          <6> HIDE DEF o
          <6>2. nextIndex' \in Nat \ {0} /\ nextIndex \in Nat
            BY <6>1
          <6>3. index' \in [Node -> Nat]
            BY <3>2, <6>1, <6>2
          <6>4. QED BY <6>2, <6>3
        <5>2. complete' \in [Node -> Flag]
          BY <3>2, <3>4 DEF AddNew
        <5>3. errorcount' \in Nat
          BY <3>4 DEF AddNew
        <5>4. QED BY <5>1, <5>2, <5>3
      <4>2. CASE o.complete = 1 \/ requireComplete = 0
        BY <2>5, <3>1, <3>2, <3>4, <4>1, <4>2, QueueNodeType DEF AddNode, AddNew
      <4>3. CASE ~(o.complete = 1 \/ requireComplete = 0)
        BY <2>5, <3>1, <3>2, <3>4, <4>1, <4>3 DEF AddNode, AddNew, sched
      <4>4. QED BY <4>2, <4>3
    <3>5. QED BY <2>5, <3>3, <3>4 DEF AddNode, AddNodeReal
  <2>6. ASSUME QueueFile PROVE TypedAccounting'
    <3>1. Head(pending) \in FileOp /\ pending' \in Seq(Op)
      BY <2>6 DEF QueueFile, Op, AddOp, FileOp
    <3>2. NewFiles(Head(pending).file) \in Seq(File)
      BY <3>1 DEF NewFiles, FileOp
    <3>3. /\ fileQueue' \in Seq(File)
          /\ UNCHANGED <<tu, pc, errorcount, output, nodes, requireComplete, sched,
                         current, unvisited, filesOut, doc>>
      BY <2>6, <3>2 DEF QueueFile
    <3>4. QED BY <3>1, <3>3 DEF nodes, sched
  <2>7. ASSUME FinishNode PROVE TypedAccounting'
    <3> DEFINE r == [node |-> current, complete |-> complete[current]]
    <3>1. CASE current = NoNode
      BY <2>7, <3>1 DEF FinishNode, nodes, sched
    <3>2. CASE current # NoNode
      <4>1. r \in [node : Node, complete : Flag]
        BY <3>2
      <4>2. doc' = Append(doc, r)
        BY <2>7, <3>2 DEF FinishNode
      <4> HIDE DEF r
      <4>3. doc' \in Seq([node : Node, complete : Flag])
        BY <4>1, <4>2
      <4>4. QED BY <2>7, <4>3 DEF FinishNode, nodes, sched
    <3>3. QED BY <3>1, <3>2
  <2>8. ASSUME DumpNext PROVE TypedAccounting'
    <3>1. /\ Head(queue) \in Node
          /\ queue' \in Seq(Node)
          /\ Len(queue') = Len(queue) - 1
      <4>1. queue \in Seq(Node) /\ queue # <<>> /\ queue' = Tail(queue)
        BY <2>8 DEF DumpNext
      <4> HIDE DEF TypedAccounting, TypeOK, Accounting, EntriesConserved, Flag
      <4>2. QED BY <4>1
    <3>2. pending' \in Seq(Op)
      <4>1. complete[Head(queue)] \in Flag
        BY <3>1
      <4>2. Script[tu][Head(queue)] \in [Flag -> Seq(Op)]
        <5> HIDE DEF TypedAccounting, TypeOK, Flag
        <5>1. tu \in Unit
          BY DEF TypedAccounting, TypeOK
        <5>2. QED BY <3>1, <5>1
      <4> HIDE DEF TypedAccounting, TypeOK, Flag
      <4>3. Script[tu][Head(queue)][complete[Head(queue)]] \in Seq(Op)
        BY <4>1, <4>2
      <4>4. QED BY <2>8, <4>3 DEF DumpNext
    <3>3. /\ queueFree' = queueFree + 1 /\ current' = Head(queue)
          /\ pc = "loop" /\ pc' = "print"
          /\ UNCHANGED <<tu, errorcount, output, index, complete, nextIndex,
                         requireComplete, allocated, unvisited, fileQueue,
                         filesOut, doc>>
      BY <2>8 DEF DumpNext, nodes
    <3>4. allocated' = queueFree' + Len(queue')
      BY <3>1, <3>3
    <3>5. EntriesConserved' /\ Accounting'
      BY <3>3, <3>4
    <3> HIDE DEF Accounting, EntriesConserved
    <3>6. queueFree' \in Nat
      BY <3>3
    <3>7. current' \in Node \cup {NoNode}
      BY <3>1, <3>3
    <3>8. TypeOK'
      BY <3>1, <3>2, <3>3, <3>6, <3>7
    <3>9. QED BY <3>5, <3>8
  <2>9. ASSUME VisitDumpNodes PROVE TypedAccounting'
    BY <2>9 DEF VisitDumpNodes, nodes, sched
  <2>10. ASSUME NEW n \in Node, QueueIncomplete(n) PROVE TypedAccounting'
    BY <2>10, QueueNodeType DEF QueueIncomplete, nodes
  <2>11. ASSUME StartIncomplete PROVE TypedAccounting'
    BY <2>11 DEF StartIncomplete, nodes, sched
  <2>12. ASSUME StartFiles PROVE TypedAccounting'
    BY <2>12 DEF StartFiles, nodes, sched
  <2>13. ASSUME DumpFile PROVE TypedAccounting'
    BY <2>13 DEF DumpFile, nodes, sched
  <2>14. ASSUME CloseOutput PROVE TypedAccounting'
    BY <2>14 DEF CloseOutput, nodes
  <2>15. ASSUME UNCHANGED vars PROVE TypedAccounting'
    BY <2>15 DEF vars, nodes, sched
  <2>16. QED
    BY <2>1, <2>2, <2>3, <2>5, <2>6, <2>7, <2>8, <2>9, <2>10, <2>11, <2>12,
       <2>13, <2>14, <2>15 DEF Next, Returned
<1>3. QED BY <1>1, <1>2, PTL DEF Spec

(* Type correctness: every variable keeps its type, whatever the scripts   *)
(* of the unit ask for.                                                    *)
THEOREM TypeCorrect == Spec => []TypeOK
  BY TypedAccountingInductive, PTL DEF TypedAccounting

(* No queue entry is lost or freed twice: when do_xml_output returns, the  *)
(* clean up of the free list has freed every entry it ever allocated.      *)
THEOREM EntriesAreConserved == Spec => []EntriesConserved
  BY TypedAccountingInductive, PTL DEF TypedAccounting, Accounting

-----------------------------------------------------------------------------
(* Ids.                                                                    *)

Indexed ==
    /\ \A n \in Node : index[n] < nextIndex
    /\ UniqueIndexes

LEMMA IndexedInductive == Spec => []Indexed
<1>1. Init => Indexed
  BY DEF Init, Indexed, UniqueIndexes
<1>2. TypeOK /\ Indexed /\ [Next]_vars => Indexed'
  <2> SUFFICES ASSUME TypeOK, Indexed, [Next]_vars PROVE Indexed'
    OBVIOUS
  <2>1. CASE UNCHANGED <<index, nextIndex>>
    BY <2>1 DEF Indexed, UniqueIndexes
  <2>2. ASSUME NEW n \in Node, index[n] = 0,
               index' = [index EXCEPT ![n] = nextIndex],
               nextIndex' = nextIndex + 1
        PROVE  Indexed'
    BY <2>2 DEF Indexed, UniqueIndexes, TypeOK
  <2>3. ASSUME AddNode PROVE Indexed'
    <3>1. Head(pending).node \in Node
      BY <2>3 DEF AddNode, TypeOK, Op, AddOp, FileOp
    <3>2. QED
      BY <2>1, <2>2, <2>3, <3>1 DEF AddNode, AddNodeReal, AddKnown, AddNew
  <2>4. ASSUME ~AddNode PROVE UNCHANGED <<index, nextIndex>>
    BY <2>4 DEF Next, vars, nodes, ErrorsOccurred, OpenFails, OpenOutput,
       QueueFile, FinishNode, DumpNext, VisitDumpNodes, QueueIncomplete,
       StartIncomplete, StartFiles, DumpFile, CloseOutput, Returned
  <2>5. QED BY <2>1, <2>3, <2>4
<1>3. QED BY <1>1, <1>2, TypeCorrect, PTL DEF Spec

(* Two tree nodes never share an id of the document.                       *)
THEOREM IndexesAreUnique == Spec => []UniqueIndexes
  BY IndexedInductive, PTL DEF Indexed

-----------------------------------------------------------------------------
(* The schedule.                                                           *)

Distinct(s) == \A i, j \in DOMAIN s : s[i] = s[j] => i = j

LEMMA AppendDistinct ==
    ASSUME NEW S, NEW s \in Seq(S), NEW e \in S, Distinct(s),
           \A i \in DOMAIN s : s[i] # e
    PROVE  Distinct(Append(s, e))
  BY DEF Distinct

LEMMA AppendElements ==
    ASSUME NEW S, NEW s \in Seq(S), NEW e \in S, NEW t, t = Append(s, e)
    PROVE  {t[i] : i \in DOMAIN t} = {s[i] : i \in DOMAIN s} \cup {e}
<1>1. DOMAIN t = DOMAIN s \cup {Len(s) + 1} /\ t[Len(s) + 1] = e
  OBVIOUS
<1>2. \A i \in DOMAIN s : t[i] = s[i]
  OBVIOUS
<1>3. QED BY <1>1, <1>2

LEMMA TailElements ==
    ASSUME NEW S, NEW s \in Seq(S), s # <<>>, Distinct(s)
    PROVE  /\ Distinct(Tail(s))
           /\ {Tail(s)[i] : i \in DOMAIN Tail(s)}
                 = {s[i] : i \in DOMAIN s} \ {Head(s)}
           /\ Head(s) \in {s[i] : i \in DOMAIN s}
<1>1. /\ Tail(s) \in Seq(S)
      /\ DOMAIN Tail(s) = 1 .. Len(s) - 1
      /\ \A i \in DOMAIN Tail(s) : Tail(s)[i] = s[i + 1]
      /\ DOMAIN s = 1 .. Len(s) /\ Len(s) \in Nat \ {0} /\ Head(s) = s[1]
  OBVIOUS
<1>2. Distinct(Tail(s))
  BY <1>1 DEF Distinct
<1>3. ASSUME NEW i \in DOMAIN s, s[i] # Head(s)
      PROVE  \E j \in DOMAIN Tail(s) : Tail(s)[j] = s[i]
  <2>1. i - 1 \in DOMAIN Tail(s) /\ Tail(s)[i - 1] = s[i]
    BY <1>1, <1>3
  <2>2. QED BY <2>1
<1>4. ASSUME NEW j \in DOMAIN Tail(s)
      PROVE  \E i \in DOMAIN s : s[i] = Tail(s)[j] /\ s[i] # Head(s)
  <2>1. j + 1 \in DOMAIN s /\ j + 1 # 1 /\ s[j + 1] = Tail(s)[j]
    BY <1>1
  <2>2. QED BY <1>1, <2>1 DEF Distinct
<1>5. Head(s) \in {s[i] : i \in DOMAIN s}
  BY <1>1
<1> DEFINE A == {Tail(s)[i] : i \in DOMAIN Tail(s)}
           B == {s[i] : i \in DOMAIN s}
<1>6. \A x : x \in A => x \in B \ {Head(s)}
  BY <1>4
<1>7. \A x : x \in B \ {Head(s)} => x \in A
  BY <1>3
<1>8. A = B \ {Head(s)}
  BY <1>6, <1>7
<1>9. QED BY <1>2, <1>5, <1>8

(* QueueNode adds a node that was not on the queue.                        *)
LEMMA QueueNodeElements ==
    ASSUME TypeOK, NEW n \in Node, QueueNode(n), n \notin Queued, Distinct(queue)
    PROVE  Queued' = Queued \cup {n} /\ Distinct(queue')
<1>1. queue' = Append(queue, n) /\ queue \in Seq(Node)
  BY DEF QueueNode, TypeOK
<1>2. QED BY <1>1, AppendDistinct, AppendElements DEF Queued

(* Finishing a node adds it to the printed ones.                           *)
LEMMA FinishPrints ==
    ASSUME TypeOK, FinishNode
    PROVE  Printed' = Printed \cup Current
<1> DEFINE r == [node |-> current, complete |-> complete[current]]
           E == [node : Node, complete : Flag]
<1>1. CASE current = NoNode
  BY <1>1 DEF FinishNode, Printed, Current
<1>2. CASE current # NoNode
  <2>1. r \in E /\ doc \in Seq(E) /\ r.node = current
    BY <1>2 DEF TypeOK
  <2>2. doc' = Append(doc, r)
    BY <1>2 DEF FinishNode
  <2> HIDE DEF r, E
  <2>3. /\ DOMAIN doc' = DOMAIN doc \cup {Len(doc) + 1}
        /\ doc'[Len(doc) + 1] = r
        /\ \A i \in DOMAIN doc : doc'[i] = doc[i]
    BY <2>1, <2>2
  <2>4. Printed' = Printed \cup {current}
    BY <2>1, <2>3 DEF Printed
  <2>5. QED BY <1>2, <2>4 DEF Current
<1>3. QED BY <1>1, <1>2

(* What is yet to be printed as incomplete asks for nothing complete.      *)
Hushed ==
    requireComplete = 0 /\ pc \in {"loop", "print"} =>
        \A n \in Met : complete[n] = 0 => Reach!FullTargets(Script[tu][n][0]) = {}

LEMMA HushedScripts ==
    ASSUME NEW s \in Seq(Op), Reach!FullTargets(s) = {}
    PROVE  \A i \in DOMAIN s : s[i].op = "add" => s[i].complete = 0
<1>1. \A i \in DOMAIN s : s[i] \in Op
  OBVIOUS
<1>2. \A o \in Op : o.op = "add" => o.complete \in {0, 1}
  BY DEF Op, AddOp, FileOp, Flag
<1>3. \A i \in DOMAIN s : ~(s[i].op = "add" /\ s[i].complete = 1)
  BY DEF Reach!FullTargets
<1>4. QED BY <1>1, <1>2, <1>3

LEMMA ScheduleInit == Init => Schedule
  BY DEF Init, Schedule, Queued, Printed, Current, Met, Due

(* Where that is so the conjuncts of Schedule are preserved together.  The *)
(* sets Queued, Printed, Met and Current stay folded: a step is described  *)
(* by what it moves between them.                                          *)
LEMMA ScheduleStep ==
    ASSUME TypedAccounting, Schedule, Hushed, [Next]_vars
    PROVE  Schedule'
<1> USE DEF Flag
<1>a. TypeOK /\ Distinct(queue)
  BY DEF TypedAccounting, Schedule, Distinct
<1>b. ASSUME UNCHANGED queue PROVE UNCHANGED Queued
  BY <1>b DEF Queued
<1>c. ASSUME UNCHANGED doc PROVE UNCHANGED Printed
  BY <1>c DEF Printed
<1>d. ASSUME UNCHANGED index PROVE UNCHANGED Met
  BY <1>d DEF Met
<1>e. ASSUME UNCHANGED current PROVE UNCHANGED Current
  BY <1>e DEF Current
<1>f. ASSUME UNCHANGED vars PROVE Schedule'
  BY <1>b, <1>c, <1>d, <1>e, <1>f DEF vars, nodes, sched, Schedule, Due
<1>1. ASSUME ErrorsOccurred PROVE Schedule'
  BY <1>1, <1>b, <1>c, <1>d, <1>e DEF ErrorsOccurred, nodes, sched, Schedule, Due
<1>2. ASSUME OpenFails PROVE Schedule'
  BY <1>2, <1>b, <1>c, <1>d, <1>e DEF OpenFails, nodes, sched, Schedule, Due
<1>3. ASSUME OpenOutput PROVE Schedule'
  BY <1>3, <1>b, <1>c, <1>d, <1>e DEF OpenOutput, nodes, sched, Schedule, Due
<1>4. ASSUME AddNode PROVE Schedule'
  <2> DEFINE n == Head(pending).node
             c == Head(pending).complete
  <2>1. Head(pending) \in AddOp /\ pending = <<Head(pending)>> \o pending'
    BY <1>4, <1>a DEF AddNode, TypeOK, Op, AddOp, FileOp
  <2>2. n \in Node /\ c \in {0, 1} /\ (requireComplete = 0 => c = 0)
    <3>1. pending \in Seq(Op) /\ pending # <<>> /\ Head(pending).op = "add"
      BY <1>4, <1>a DEF AddNode, TypeOK
    <3>2. 1 \in DOMAIN pending /\ pending[1] = Head(pending)
      BY <3>1
    <3>3. requireComplete = 0 => c = 0
      BY <3>1, <3>2 DEF Schedule
    <3>4. QED BY <2>1, <3>3 DEF AddOp
  <2>3. requireComplete = 0 =>
          \A i \in DOMAIN pending' : pending'[i].op = "add" => pending'[i].complete = 0
    BY <1>4, <1>a DEF AddNode, Schedule, TypeOK
  <2>4. /\ pc = "print" /\ unvisited = {} /\ output # "whole"
        /\ UNCHANGED <<pc, output, requireComplete, current, unvisited, doc>>
    BY <1>4 DEF AddNode, Schedule
  <2> HIDE DEF n, c
  <2>5. AddKnown(n, c) \/ AddNew(n, c)
    BY <1>4 DEF AddNode, AddNodeReal, n, c
  <2>6. CASE AddKnown(n, c) /\ c = 1 /\ complete[n] = 0
    <3>1. /\ requireComplete = 1
          /\ n \in Met
          /\ n \notin Queued \cup Printed \cup Current
      BY <2>2, <2>4, <2>6, <1>a DEF AddKnown, Schedule, TypeOK, Met
    <3>2. Queued' = Queued \cup {n} /\ Distinct(queue')
      BY <1>a, <2>2, <2>6, <3>1, QueueNodeElements DEF AddKnown
    <3>3. complete' = [complete EXCEPT ![n] = 1] /\ UNCHANGED <<index, errorcount>>
      BY <2>6 DEF AddKnown
    <3>4. Due' = Due \cup {n}
      BY <1>a, <1>d, <2>2, <2>4, <3>1, <3>3 DEF Due, TypeOK, Met
    <3>5. \A m \in Node \ {n} : complete'[m] = complete[m]
      BY <1>a, <3>3 DEF TypeOK
    <3>6. complete'[n] = 1
      BY <1>a, <2>2, <3>3 DEF TypeOK
    <3>7. Met \subseteq Node
      BY DEF Met
    <3>8. QED
      BY <2>3, <2>4, <3>1, <3>2, <3>3, <3>4, <3>5, <3>6, <3>7, <1>c, <1>d, <1>e
         DEF Schedule, Distinct
  <2>7. CASE AddKnown(n, c) /\ ~(c = 1 /\ complete[n] = 0)
    <3>1. UNCHANGED <<index, complete, errorcount, queue>>
      BY <2>7 DEF AddKnown, sched
    <3>2. QED
      BY <2>3, <2>4, <3>1, <1>b, <1>c, <1>d, <1>e DEF Schedule, Due
  <2>8. CASE AddNew(n, c)
    <3>1. n \notin Met /\ n \notin Queued \cup Printed \cup Current
      BY <2>8 DEF AddNew, Schedule, Met
    <3>2. Met' = Met \cup {n}
      BY <1>a, <2>2, <2>8 DEF AddNew, Met, TypeOK
    <3>3. complete' = [complete EXCEPT ![n] = c] /\ UNCHANGED errorcount
      BY <1>a, <2>2, <2>8 DEF AddNew, TypeOK
    <3>4. \A m \in Node \ {n} : complete'[m] = complete[m]
      BY <1>a, <3>3 DEF TypeOK
    <3>5. complete'[n] = c
      BY <1>a, <2>2, <3>3 DEF TypeOK
    <3>6. Met \subseteq Node
      BY DEF Met
    <3>7. Due' = IF c = 1 \/ requireComplete = 0 THEN Due \cup {n} ELSE Due
      BY <2>2, <2>4, <3>1, <3>2, <3>4, <3>5, <3>6 DEF Due
    <3>8. CASE c = 1 \/ requireComplete = 0
      <4>1. Queued' = Queued \cup {n} /\ Distinct(queue')
        BY <1>a, <2>2, <2>8, <3>1, <3>8, QueueNodeElements DEF AddNew
      <4>2. QED
        BY <2>2, <2>3, <2>4, <3>1, <3>2, <3>3, <3>4, <3>5, <3>6, <3>7, <3>8,
           <4>1, <1>c, <1>e DEF Schedule, Distinct
    <3>9. CASE ~(c = 1 \/ requireComplete = 0)
      <4>1. UNCHANGED queue
        BY <2>8, <3>9 DEF AddNew, sched
      <4>2. QED
        BY <2>2, <2>3, <2>4, <3>1, <3>2, <3>3, <3>4, <3>5, <3>6, <3>7, <3>9,
           <4>1, <1>b, <1>c, <1>e DEF Schedule
    <3>10. QED BY <3>8, <3>9
  <2>9. QED BY <2>5, <2>6, <2>7, <2>8
<1>5. ASSUME QueueFile PROVE Schedule'
  <2>1. requireComplete = 0 =>
          \A i \in DOMAIN pending' : pending'[i].op = "add" => pending'[i].complete = 0
    BY <1>5, <1>a DEF QueueFile, Schedule, TypeOK
  <2>2. QED
    BY <1>5, <2>1, <1>b, <1>c, <1>d, <1>e DEF QueueFile, nodes, sched, Schedule, Due
<1>6. ASSUME FinishNode PROVE Schedule'
  <2>1. Printed' = Printed \cup Current
    BY <1>6, <1>a, FinishPrints
  <2>2. Current' = {}
    BY <1>6 DEF FinishNode, Current
  <2>3. Current \subseteq Node
    BY <1>a DEF Current, TypeOK
  <2>4. QED
    BY <1>6, <2>1, <2>2, <2>3, <1>b, <1>d DEF FinishNode, nodes, sched, Schedule, Due
<1>7. ASSUME DumpNext PROVE Schedule'
  <2> DEFINE h == Head(queue)
  <2>1. /\ Queued' = Queued \ {h} /\ h \in Queued /\ Distinct(queue')
    BY <1>7, <1>a, TailElements DEF DumpNext, Queued, TypeOK
  <2>2. h \in Node /\ h # NoNode
    BY <1>7, <1>a, NoNodeAssumption DEF DumpNext, TypeOK
  <2>3. /\ pc = "loop" /\ pc' = "print" /\ current' = h /\ queue # <<>>
        /\ pending' = Script[tu][h][complete[h]]
        /\ UNCHANGED <<errorcount, output, index, complete, requireComplete,
                       unvisited, doc>>
    BY <1>7 DEF DumpNext, nodes
  <2>4. Current = {} /\ Current' = {h}
    BY <2>2, <2>3 DEF Current, Schedule
  <2> HIDE DEF h
  <2>5. requireComplete = 0 =>
          \A i \in DOMAIN pending' : pending'[i].op = "add" => pending'[i].complete = 0
    <3>1. SUFFICES ASSUME requireComplete = 0
                   PROVE  \A i \in DOMAIN pending' :
                              pending'[i].op = "add" => pending'[i].complete = 0
      OBVIOUS
    <3>2. complete[h] = 0
      BY <2>1, <3>1 DEF Schedule
    <3>3. Script[tu][h][0] \in Seq(Op)
      BY <1>a, <2>2, UnitAssumption DEF TypeOK
    <3>4. Reach!FullTargets(Script[tu][h][0]) = {}
      BY <2>1, <2>3, <3>1, <3>2 DEF Schedule, Hushed
    <3>5. QED BY <2>3, <3>2, <3>3, <3>4, HushedScripts
  <2>6. QED
    BY <2>1, <2>2, <2>3, <2>4, <2>5, <1>c, <1>d DEF Schedule, Due, Distinct
<1>8. ASSUME VisitDumpNodes PROVE Schedule'
  <2>1. Queued = {} /\ Current = {}
    BY <1>8 DEF VisitDumpNodes, Queued, Current, Schedule
  <2>2. Due \subseteq Printed
    BY <1>8, <2>1 DEF VisitDumpNodes, Schedule
  <2>3. unvisited' = {n \in Met : complete[n] = 0}
    BY <1>8 DEF VisitDumpNodes, Met
  <2>4. Met \subseteq Node
    BY DEF Met
  <2>5. Met \subseteq Printed \cup unvisited'
    BY <1>a, <2>2, <2>3, <2>4 DEF TypeOK, Due
  <2>6. QED
    BY <1>8, <2>1, <2>3, <2>4, <2>5, <1>b, <1>c, <1>d, <1>e
       DEF VisitDumpNodes, nodes, sched, Schedule, Due
<1>9. ASSUME NEW n \in Node, QueueIncomplete(n) PROVE Schedule'
  <2>1. n \in unvisited /\ n \notin Queued
    BY <1>9 DEF QueueIncomplete, Schedule
  <2>2. Queued' = Queued \cup {n} /\ Distinct(queue')
    BY <1>9, <1>a, <2>1, QueueNodeElements DEF QueueIncomplete
  <2>3. /\ pc = "foreach" /\ unvisited' = unvisited \ {n}
        /\ UNCHANGED <<pc, errorcount, output, index, complete,
                       requireComplete, current, pending, doc>>
    BY <1>9 DEF QueueIncomplete, nodes
  <2>4. output # "whole"
    BY <2>3 DEF Schedule
  <2>5. Met' = Met /\ Printed' = Printed /\ Current' = Current
    BY <2>3, <1>c, <1>d, <1>e
  <2>6. Due' = Due
    BY <2>3, <2>5 DEF Due
  <2>7. Queued' \cup unvisited' = Queued \cup unvisited
    BY <2>1, <2>2, <2>3
  <2>8. complete[n] = 0
    BY <2>1, <2>3 DEF Schedule
  <2>9. n \notin Printed /\ Current = {}
    BY <2>1, <2>3 DEF Schedule, Current
  <2>10. QED
    BY <2>1, <2>2, <2>3, <2>4, <2>5, <2>6, <2>7, <2>8, <2>9 DEF Schedule, Distinct
<1>10. ASSUME StartIncomplete PROVE Schedule'
  BY <1>10, <1>b, <1>c, <1>d, <1>e DEF StartIncomplete, nodes, sched, Schedule, Due
<1>11. ASSUME StartFiles PROVE Schedule'
  BY <1>11, <1>b, <1>c, <1>d, <1>e DEF StartFiles, nodes, sched, Schedule, Due
<1>12. ASSUME DumpFile PROVE Schedule'
  BY <1>12, <1>b, <1>c, <1>d, <1>e DEF DumpFile, nodes, sched, Schedule, Due
<1>13. ASSUME CloseOutput PROVE Schedule'
  <2>1. queue = <<>>
    BY <1>13 DEF CloseOutput, TypedAccounting, Accounting
  <2>2. QED
    BY <1>13, <2>1, <1>b, <1>c, <1>d, <1>e DEF CloseOutput, nodes, Schedule, Due
<1>14. QED
  BY <1>1, <1>2, <1>3, <1>4, <1>5, <1>6, <1>7, <1>8, <1>9, <1>10, <1>11, <1>12,
     <1>13, <1>f DEF Next, Returned

-----------------------------------------------------------------------------
(* What the schedule gives.  A node is printed only while it is in no other *)
(* place, and its completeness changes only before it is printed.          *)

LEMMA PrintedInit == Init => PrintedOnce /\ NeverOutdated
  BY DEF Init, PrintedOnce, NeverOutdated

LEMMA PrintedStep ==
    ASSUME TypeOK, Schedule, PrintedOnce, NeverOutdated, [Next]_vars
    PROVE  (PrintedOnce /\ NeverOutdated)'
<1>1. CASE UNCHANGED <<doc, complete>>
  BY <1>1 DEF PrintedOnce, NeverOutdated
<1>2. ASSUME AddNode PROVE (PrintedOnce /\ NeverOutdated)'
  <2> DEFINE n == Head(pending).node
             c == Head(pending).complete
  <2>1. n \in Node /\ c \in {0, 1} /\ (requireComplete = 0 => c = 0)
    <3>1. Head(pending) \in AddOp
      BY <1>2 DEF AddNode, TypeOK, Op, AddOp, FileOp
    <3>2. pending \in Seq(Op) /\ pending # <<>> /\ Head(pending).op = "add"
      BY <1>2 DEF AddNode, TypeOK
    <3>3. 1 \in DOMAIN pending /\ pending[1] = Head(pending)
      BY <3>2
    <3>4. requireComplete = 0 => c = 0
      BY <3>2, <3>3 DEF Schedule
    <3>5. QED BY <3>1, <3>4 DEF AddOp, Flag
  <2>2. UNCHANGED doc /\ (AddKnown(n, c) \/ AddNew(n, c))
    BY <1>2 DEF AddNode, AddNodeReal
  <2> HIDE DEF n, c
  <2>3. CASE UNCHANGED complete
    BY <1>1, <2>2, <2>3
  <2>4. CASE complete' # complete
    <3>1. n \notin Printed
      <4>1. CASE AddKnown(n, c)
        <5>1. c = 1 /\ complete[n] = 0 /\ requireComplete # 0
          BY <2>1, <2>4, <4>1 DEF AddKnown
        <5>2. requireComplete = 1
          BY <5>1 DEF TypeOK, Flag
        <5>3. QED BY <5>1, <5>2 DEF Schedule
      <4>2. CASE AddNew(n, c)
        <5>1. n \notin Met
          BY <4>2 DEF AddNew, Met
        <5>2. QED BY <5>1 DEF Schedule
      <4>3. QED BY <2>2, <4>1, <4>2
    <3>2. \A m \in Node \ {n} : complete'[m] = complete[m]
      BY <2>1, <2>2, <2>4 DEF AddKnown, AddNew, TypeOK
    <3>3. \A i \in DOMAIN doc : doc[i].node \in Node \ {n}
      <4> DEFINE Element == [node : Node, complete : Flag]
      <4>1. \A e \in Element : e.node \in Node
        OBVIOUS
      <4>2. doc \in Seq(Element)
        BY DEF TypeOK
      <4> HIDE DEF Element
      <4>3. \A i \in DOMAIN doc : doc[i] \in Element
        BY <4>2
      <4>4. \A i \in DOMAIN doc : doc[i].node \in Node /\ doc[i].node \in Printed
        BY <4>1, <4>3 DEF Printed
      <4>5. QED BY <3>1, <4>4
    <3>4. QED
      BY <2>2, <3>2, <3>3 DEF PrintedOnce, NeverOutdated
  <2>5. QED BY <2>3, <2>4
<1>3. ASSUME FinishNode, current # NoNode
      PROVE  (PrintedOnce /\ NeverOutdated)'
  <2> DEFINE r == [node |-> current, complete |-> complete[current]]
  <2>1. doc' = Append(doc, r) /\ UNCHANGED complete
    BY <1>3 DEF FinishNode, nodes
  <2>2. r \in [node : Node, complete : Flag]
    BY <1>3 DEF TypeOK
  <2>3. r.node \notin Printed /\ r.complete = complete[r.node]
    BY <1>3 DEF Schedule, Current
  <2> HIDE DEF r
  <2>4. /\ DOMAIN doc' = DOMAIN doc \cup {Len(doc) + 1}
        /\ \A i \in DOMAIN doc : doc'[i] = doc[i]
        /\ doc'[Len(doc) + 1] = r
    BY <2>1, <2>2 DEF TypeOK
  <2>5. \A i \in DOMAIN doc : doc[i].node # r.node
    BY <2>3 DEF Printed
  <2>6. PrintedOnce'
    BY <2>4, <2>5 DEF PrintedOnce
  <2>7. NeverOutdated'
    BY <2>1, <2>3, <2>4 DEF NeverOutdated
  <2>8. QED BY <2>6, <2>7
<1>4. ASSUME ~AddNode, ~(FinishNode /\ current # NoNode)
      PROVE  UNCHANGED <<doc, complete>>
  BY <1>4 DEF Next, vars, nodes, ErrorsOccurred, OpenFails, OpenOutput,
     QueueFile, FinishNode, DumpNext, VisitDumpNodes, QueueIncomplete,
     StartIncomplete, StartFiles, DumpFile, CloseOutput, Returned
<1>5. QED BY <1>1, <1>2, <1>3, <1>4

-----------------------------------------------------------------------------
(* Files, and the document as a whole.                                     *)

LEMMA FileOrderInductive == Spec => []FileOrder
<1>1. Init => FileOrder
  BY DEF Init, FileOrder
<1>2. TypeOK /\ FileOrder /\ [Next]_vars => FileOrder'
  <2> SUFFICES ASSUME TypeOK, FileOrder, [Next]_vars PROVE FileOrder'
    OBVIOUS
  <2>1. CASE UNCHANGED vars
    BY <2>1 DEF FileOrder, vars
  <2>2. ASSUME UNCHANGED <<fileQueue, filesOut>>,
               output' # "whole", pc \notin {"files", "done"}
        PROVE  FileOrder'
    BY <2>2 DEF FileOrder
  <2>3. ASSUME QueueFile PROVE FileOrder'
    <3> DEFINE f == Head(pending).file
    <3>1. f \in File
      BY <2>3 DEF QueueFile, TypeOK, Op, AddOp, FileOp
    <3>2. /\ fileQueue' = fileQueue \o NewFiles(f)
          /\ filesOut = <<>> /\ filesOut' = <<>>
          /\ output # "whole" /\ UNCHANGED output
          /\ pc = "print" /\ pc' = "print"
      BY <2>3 DEF QueueFile, FileOrder
    <3> HIDE DEF f
    <3>3. Distinct(fileQueue')
      <4>1. Distinct(fileQueue) /\ fileQueue \in Seq(File)
        BY DEF FileOrder, Distinct, TypeOK
      <4>2. CASE \E i \in DOMAIN fileQueue : fileQueue[i] = f
        <5>1. NewFiles(f) = <<>>
          BY <4>2 DEF NewFiles
        <5>2. fileQueue' = fileQueue
          BY <3>2, <4>1, <5>1
        <5>3. QED BY <4>1, <5>2
      <4>3. CASE \A i \in DOMAIN fileQueue : fileQueue[i] # f
        <5>1. fileQueue' = Append(fileQueue, f)
          BY <3>1, <3>2, <4>1, <4>3 DEF NewFiles
        <5>2. QED BY <3>1, <4>1, <4>3, <5>1, AppendDistinct
      <4>4. QED BY <4>2, <4>3
    <3>4. Len(fileQueue') >= 0
      BY <3>1, <3>2 DEF NewFiles, TypeOK
    <3>5. QED BY <3>2, <3>3, <3>4 DEF FileOrder, Distinct
  <2>4. ASSUME DumpFile PROVE FileOrder'
    <3>1. filesOut \in Seq(File) /\ fileQueue \in Seq(File) /\ Len(filesOut) < Len(fileQueue)
      BY <2>4 DEF DumpFile, TypeOK
    <3>2. /\ fileQueue[Len(filesOut) + 1] \in File
          /\ filesOut' = Append(filesOut, fileQueue[Len(filesOut) + 1])
          /\ UNCHANGED <<fileQueue, output, pc>> /\ pc = "files"
      BY <2>4, <3>1 DEF DumpFile
    <3>3. /\ Len(filesOut') <= Len(fileQueue)
          /\ \A i \in DOMAIN filesOut' : filesOut'[i] = fileQueue[i]
      BY <3>1, <3>2 DEF FileOrder
    <3>4. QED BY <3>2, <3>3 DEF FileOrder
  <2>5. ASSUME CloseOutput PROVE FileOrder'
    BY <2>5 DEF CloseOutput, FileOrder
  <2>6. ASSUME OpenFails \/ ErrorsOccurred PROVE FileOrder'
    BY <2>6 DEF OpenFails, ErrorsOccurred, FileOrder
  <2>7. ASSUME OpenOutput \/ AddNode \/ FinishNode \/ DumpNext
               \/ VisitDumpNodes \/ StartIncomplete \/ StartFiles
               \/ \E n \in Node : QueueIncomplete(n)
        PROVE  FileOrder'
    BY <2>2, <2>7 DEF FileOrder, OpenOutput, AddNode, FinishNode, DumpNext,
       VisitDumpNodes, StartIncomplete, StartFiles, QueueIncomplete
  <2>8. QED
    BY <2>1, <2>3, <2>4, <2>5, <2>6, <2>7 DEF Next, Returned
<1>3. QED BY <1>1, <1>2, TypeCorrect, PTL DEF Spec

LEMMA WholeDocuments ==
    ASSUME TypeOK, Schedule, FileOrder
    PROVE  WholeIsComplete
<1> SUFFICES ASSUME output = "whole"
             PROVE  /\ Printed = Met
                    /\ filesOut = fileQueue
                    /\ \A i, j \in DOMAIN filesOut : filesOut[i] = filesOut[j] => i = j
  BY DEF WholeIsComplete
<1>1. Queued = {} /\ Current = {} /\ unvisited = {}
  BY DEF Schedule, Queued, Current
<1>2. Due = Met
  BY DEF Schedule, Due
<1>3. Printed = Met
  BY <1>1, <1>2 DEF Schedule
<1>4. filesOut = fileQueue
  <2>1. filesOut \in Seq(File) /\ fileQueue \in Seq(File)
    BY DEF TypeOK
  <2>2. Len(filesOut) = Len(fileQueue) /\ \A i \in DOMAIN filesOut : filesOut[i] = fileQueue[i]
    BY DEF FileOrder
  <2>3. \A i \in 1 .. Len(filesOut) : filesOut[i] = fileQueue[i]
    BY <2>1, <2>2
  <2>4. QED BY <2>1, <2>2, <2>3
<1>5. QED BY <1>3, <1>4 DEF FileOrder

-----------------------------------------------------------------------------
(* The worklist implements what XmlReach promises, for every set of units, *)
(* nodes and scripts (safety: the initial states and the steps).           *)
(*                                                                         *)
(* Schedule says where a node is, not why.  Reasons relates what has been  *)
(* met to the requests of the starts and of what has been printed: nothing *)
(* was asked for by anybody else, and no request has been forgotten.       *)

Full == {doc[i].node : i \in {j \in DOMAIN doc : doc[j].complete = 1}}
Partial == {doc[i].node : i \in {j \in DOMAIN doc : doc[j].complete = 0}}
Completed == {n \in Met : complete[n] = 1}

(* What is asked for by the starts and by what has been printed.           *)
Wanted == Reach!Wanted(tu, Full)
Mentioned == Reach!Mentioned(tu, Full, Partial)

(* The requests of the running output function, or of the starts.          *)
Running == IF current = NoNode THEN Start[tu] ELSE Script[tu][current][complete[current]]

Served(s) == Reach!FullTargets(s) \subseteq Completed /\ Reach!Targets(s) \subseteq Met
ServedBut(s, rest) ==
    /\ Reach!FullTargets(s) \subseteq Completed \cup Reach!FullTargets(rest)
    /\ Reach!Targets(s) \subseteq Met \cup Reach!Targets(rest)
PartOf(rest, s) ==
    /\ Reach!FullTargets(rest) \subseteq Reach!FullTargets(s)
    /\ Reach!Targets(rest) \subseteq Reach!Targets(s)

Reasons ==
    /\ output \in {"partial", "whole"} /\ ~(pc = "print" /\ current = NoNode)
          => Served(Start[tu])
    /\ \A n \in Full : Served(Script[tu][n][1])
    /\ \A n \in Partial : Reach!Targets(Script[tu][n][0]) \subseteq Met
    /\ pc = "print" => ServedBut(Running, pending) /\ PartOf(pending, Running)
    /\ Completed \subseteq Wanted \cup Reach!FullTargets(Running)
    /\ Met \subseteq Mentioned \cup Reach!Targets(Running)
    /\ Current \subseteq Mentioned
    /\ \A n \in Current : complete[n] = 1 => n \in Wanted
    /\ pc \notin {"enter", "done"} => output = "partial"

-----------------------------------------------------------------------------
(* Sequences of requests.                                                  *)

(* The first request, if it names a node, is one of the targets; the rest  *)
(* of the targets are those of the other requests.                         *)
LEMMA TargetsOfTail ==
    ASSUME NEW s \in Seq(Op), s # <<>>
    PROVE  /\ Head(s).op = "add" =>
                /\ Reach!Targets(s) = {Head(s).node} \cup Reach!Targets(Tail(s))
                /\ Reach!FullTargets(s) =
                      (IF Head(s).complete = 1 THEN {Head(s).node} ELSE {})
                          \cup Reach!FullTargets(Tail(s))
           /\ Head(s).op = "file" =>
                /\ Reach!Targets(s) = Reach!Targets(Tail(s))
                /\ Reach!FullTargets(s) = Reach!FullTargets(Tail(s))
<1>1. /\ DOMAIN s = 1 .. Len(s) /\ Len(s) \in Nat \ {0} /\ Head(s) = s[1]
      /\ DOMAIN Tail(s) = 1 .. Len(s) - 1
      /\ \A i \in DOMAIN Tail(s) : Tail(s)[i] = s[i + 1]
  OBVIOUS
<1> DEFINE t == Tail(s)
<1>2. \A i \in DOMAIN s : i = 1 \/ (i - 1 \in DOMAIN t /\ t[i - 1] = s[i])
  BY <1>1
<1>3. \A i \in DOMAIN t : i + 1 \in DOMAIN s /\ i + 1 # 1 /\ t[i] = s[i + 1]
  BY <1>1
<1>4. 1 \in DOMAIN s /\ s[1] = Head(s)
  BY <1>1
<1> HIDE DEF t
<1>5. \A x : x \in Reach!Targets(s) <=> \E i \in DOMAIN s : s[i].op = "add" /\ s[i].node = x
  BY DEF Reach!Targets
<1>6. \A x : x \in Reach!Targets(t) <=> \E i \in DOMAIN t : t[i].op = "add" /\ t[i].node = x
  BY DEF Reach!Targets
<1>7. \A x : x \in Reach!FullTargets(s)
               <=> \E i \in DOMAIN s : s[i].op = "add" /\ s[i].complete = 1 /\ s[i].node = x
  BY DEF Reach!FullTargets
<1>8. \A x : x \in Reach!FullTargets(t)
               <=> \E i \in DOMAIN t : t[i].op = "add" /\ t[i].complete = 1 /\ t[i].node = x
  BY DEF Reach!FullTargets
<1>9. \A x : x \in Reach!Targets(s)
               <=> (Head(s).op = "add" /\ x = Head(s).node) \/ x \in Reach!Targets(t)
  BY <1>2, <1>3, <1>4, <1>5, <1>6
<1>10. \A x : x \in Reach!FullTargets(s)
                <=> \/ Head(s).op = "add" /\ Head(s).complete = 1 /\ x = Head(s).node
                    \/ x \in Reach!FullTargets(t)
  <2>1. ASSUME NEW x, x \in Reach!FullTargets(s)
        PROVE  \/ Head(s).op = "add" /\ Head(s).complete = 1 /\ x = Head(s).node
               \/ x \in Reach!FullTargets(t)
    BY <2>1, <1>2, <1>4, <1>7, <1>8
  <2>2. ASSUME NEW x, x \in Reach!FullTargets(t) PROVE x \in Reach!FullTargets(s)
    BY <2>2, <1>3, <1>7, <1>8
  <2>3. ASSUME NEW x, Head(s).op = "add" /\ Head(s).complete = 1 /\ x = Head(s).node
        PROVE  x \in Reach!FullTargets(s)
    BY <2>3, <1>4, <1>7
  <2>4. QED BY <2>1, <2>2, <2>3
<1>11. QED BY <1>9, <1>10 DEF t

LEMMA NoTargets == Reach!Targets(<<>>) = {} /\ Reach!FullTargets(<<>>) = {}
  BY DEF Reach!Targets, Reach!FullTargets

(* What is asked for when one more node has been printed.                  *)
LEMMA WantedGrows ==
    \A u, F, P, n :
        /\ Reach!Wanted(u, F \cup {n})
              = Reach!Wanted(u, F) \cup Reach!FullTargets(Script[u][n][1])
        /\ Reach!Mentioned(u, F \cup {n}, P)
              = Reach!Mentioned(u, F, P) \cup Reach!Targets(Script[u][n][1])
        /\ Reach!Mentioned(u, F, P \cup {n})
              = Reach!Mentioned(u, F, P) \cup Reach!Targets(Script[u][n][0])
<1> TAKE u, F, P, n
<1>1. \A A, x : x \in Reach!Wanted(u, A)
                   <=> \/ x \in Reach!FullTargets(Start[u])
                       \/ \E m \in A : x \in Reach!FullTargets(Script[u][m][1])
  BY DEF Reach!Wanted
<1>2. \A A, B, x : x \in Reach!Mentioned(u, A, B)
                   <=> \/ x \in Reach!Targets(Start[u])
                       \/ \E m \in A : x \in Reach!Targets(Script[u][m][1])
                       \/ \E m \in B : x \in Reach!Targets(Script[u][m][0])
  BY DEF Reach!Mentioned
<1>3. QED BY <1>1, <1>2

LEMMA AskedWithCurrent ==
    /\ Reach!Wanted(tu, Full \cup {current})
          = Reach!Wanted(tu, Full) \cup Reach!FullTargets(Script[tu][current][1])
    /\ Reach!Mentioned(tu, Full \cup {current}, Partial)
          = Reach!Mentioned(tu, Full, Partial) \cup Reach!Targets(Script[tu][current][1])
    /\ Reach!Mentioned(tu, Full, Partial \cup {current})
          = Reach!Mentioned(tu, Full, Partial) \cup Reach!Targets(Script[tu][current][0])
<1>1. Reach!Wanted(tu, Full \cup {current})
          = Reach!Wanted(tu, Full) \cup Reach!FullTargets(Script[tu][current][1])
  BY WantedGrows
<1>2. Reach!Mentioned(tu, Full \cup {current}, Partial)
          = Reach!Mentioned(tu, Full, Partial) \cup Reach!Targets(Script[tu][current][1])
  BY WantedGrows
<1>3. Reach!Mentioned(tu, Full, Partial \cup {current})
          = Reach!Mentioned(tu, Full, Partial) \cup Reach!Targets(Script[tu][current][0])
  BY WantedGrows
<1>4. QED BY <1>1, <1>2, <1>3

LEMMA PrintingAsks ==
    ASSUME UNCHANGED tu
    PROVE  /\ Full' = Full \cup {current} /\ Partial' = Partial
                 => /\ Wanted' = Wanted \cup Reach!FullTargets(Script[tu][current][1])
                    /\ Mentioned' = Mentioned \cup Reach!Targets(Script[tu][current][1])
           /\ Full' = Full /\ Partial' = Partial \cup {current}
                 => /\ Wanted' = Wanted
                    /\ Mentioned' = Mentioned \cup Reach!Targets(Script[tu][current][0])
<1>1. /\ Wanted = Reach!Wanted(tu, Full) /\ Wanted' = Reach!Wanted(tu, Full')
      /\ Mentioned = Reach!Mentioned(tu, Full, Partial)
      /\ Mentioned' = Reach!Mentioned(tu, Full', Partial')
  BY DEF Wanted, Mentioned
<1>2. CASE Full' = Full \cup {current} /\ Partial' = Partial
  <2>1. Wanted' = Reach!Wanted(tu, Full \cup {current})
    BY <1>1, <1>2
  <2>2. Mentioned' = Reach!Mentioned(tu, Full \cup {current}, Partial)
    BY <1>1, <1>2
  <2>3. QED BY <1>1, <2>1, <2>2, <1>2, AskedWithCurrent
<1>3. CASE Full' = Full /\ Partial' = Partial \cup {current}
  <2>1. Mentioned' = Reach!Mentioned(tu, Full, Partial \cup {current})
    BY <1>1, <1>3
  <2>2. QED BY <1>1, <1>3, <2>1, AskedWithCurrent
<1>4. QED BY <1>2, <1>3

LEMMA WantedIsMonotone ==
    ASSUME NEW u, NEW F, NEW G, F \subseteq G
    PROVE  Reach!Wanted(u, F) \subseteq Reach!Wanted(u, G)
  BY DEF Reach!Wanted

-----------------------------------------------------------------------------
(* The document.                                                           *)

(* As nothing is outdated, the complete and the incomplete elements of the *)
(* document are the complete and the incomplete nodes that are printed.    *)
LEMMA PrintedParts ==
    ASSUME TypeOK, NeverOutdated
    PROVE  /\ Full = {n \in Printed : complete[n] = 1}
           /\ Partial = {n \in Printed : complete[n] = 0}
           /\ Printed = Full \cup Partial /\ Printed \subseteq Node
<1>1. /\ \A x : x \in Full <=> \E i \in DOMAIN doc : doc[i].complete = 1 /\ doc[i].node = x
      /\ \A x : x \in Partial <=> \E i \in DOMAIN doc : doc[i].complete = 0 /\ doc[i].node = x
      /\ \A x : x \in Printed <=> \E i \in DOMAIN doc : doc[i].node = x
  BY DEF Full, Partial, Printed
<1>2. \A i \in DOMAIN doc : /\ doc[i].complete = complete[doc[i].node]
                            /\ doc[i].node \in Node /\ doc[i].complete \in {0, 1}
  <2> DEFINE E == [node : Node, complete : Flag]
  <2>1. doc \in Seq(E)
    BY DEF TypeOK
  <2>2. \A i \in DOMAIN doc : doc[i] \in E
    <3> HIDE DEF E
    <3>1. QED BY <2>1
  <2>3. QED BY <2>2 DEF NeverOutdated, Flag
<1>3. QED BY <1>1, <1>2

LEMMA FinishParts ==
    ASSUME TypeOK, FinishNode
    PROVE  /\ current = NoNode => Full' = Full /\ Partial' = Partial
           /\ current # NoNode /\ complete[current] = 1
                 => Full' = Full \cup {current} /\ Partial' = Partial
           /\ current # NoNode /\ complete[current] = 0
                 => Full' = Full /\ Partial' = Partial \cup {current}
<1>1. CASE current = NoNode
  BY <1>1 DEF FinishNode, Full, Partial
<1>2. CASE current # NoNode
  <2> DEFINE r == [node |-> current, complete |-> complete[current]]
             E == [node : Node, complete : Flag]
  <2>1. r \in E /\ doc \in Seq(E) /\ r.node = current /\ r.complete = complete[current]
    BY <1>2 DEF TypeOK
  <2>2. doc' = Append(doc, r)
    BY <1>2 DEF FinishNode
  <2> HIDE DEF r, E
  <2>3. /\ DOMAIN doc' = DOMAIN doc \cup {Len(doc) + 1}
        /\ doc'[Len(doc) + 1] = r
        /\ \A i \in DOMAIN doc : doc'[i] = doc[i]
    BY <2>1, <2>2
  <2>4. /\ \A x : x \in Full <=> \E i \in DOMAIN doc : doc[i].complete = 1 /\ doc[i].node = x
        /\ \A x : x \in Partial <=> \E i \in DOMAIN doc : doc[i].complete = 0 /\ doc[i].node = x
        /\ \A x : x \in Full' <=> \E i \in DOMAIN doc' : doc'[i].complete = 1 /\ doc'[i].node = x
        /\ \A x : x \in Partial' <=> \E i \in DOMAIN doc' : doc'[i].complete = 0 /\ doc'[i].node = x
    BY DEF Full, Partial
  <2>5. \A x : x \in Full' <=> x \in Full \/ (complete[current] = 1 /\ x = current)
    BY <2>1, <2>3, <2>4
  <2>6. \A x : x \in Partial' <=> x \in Partial \/ (complete[current] = 0 /\ x = current)
    BY <2>1, <2>3, <2>4
  <2>7. CASE complete[current] = 1
    BY <1>2, <2>5, <2>6, <2>7
  <2>8. CASE complete[current] = 0
    BY <1>2, <2>5, <2>6, <2>8
  <2>9. QED BY <1>2, <2>7, <2>8
<1>3. QED BY <1>1, <1>2

-----------------------------------------------------------------------------
(* One request: its node is met, and complete if it asks for that; what is *)
(* running does not change under it.                                       *)
LEMMA AddNodeAdds ==
    ASSUME TypeOK, Schedule, AddNode
    PROVE  LET n == Head(pending).node
               c == Head(pending).complete
           IN /\ n \in Node /\ c \in {0, 1}
              /\ Met' = Met \cup {n}
              /\ Completed' = Completed \cup (IF c = 1 THEN {n} ELSE {})
              /\ Running' = Running
              /\ \A m \in Current : complete'[m] = complete[m]
<1> DEFINE n == Head(pending).node
           c == Head(pending).complete
<1>1. Head(pending) \in AddOp /\ 1 \in DOMAIN pending /\ pending[1] = Head(pending)
  BY DEF AddNode, TypeOK, Op, AddOp, FileOp
<1>2. n \in Node /\ c \in {0, 1} /\ (requireComplete = 0 => c = 0)
  BY <1>1 DEF AddNode, AddOp, Flag, Schedule
<1> HIDE DEF n, c
<1>3. AddKnown(n, c) \/ AddNew(n, c)
  BY DEF AddNode, AddNodeReal, n, c
<1>4. /\ index \in [Node -> Nat] /\ complete \in [Node -> {0, 1}] /\ nextIndex \in Nat \ {0}
      /\ requireComplete \in {0, 1}
  BY DEF TypeOK, Flag
<1>5. Met' = Met \cup {n}
  <2>1. CASE AddKnown(n, c)
    BY <1>2, <2>1 DEF AddKnown, Met
  <2>2. CASE AddNew(n, c)
    BY <1>2, <1>4, <2>2 DEF AddNew, Met
  <2>3. QED BY <1>3, <2>1, <2>2
<1>6. /\ \A m \in Node \ {n} : complete'[m] = complete[m]
      /\ complete'[n] = IF n \in Met /\ complete[n] = 1 THEN 1 ELSE c
  <2>1. CASE AddKnown(n, c)
    BY <1>2, <1>4, <2>1 DEF AddKnown, Met
  <2>2. CASE AddNew(n, c)
    BY <1>2, <1>4, <2>2 DEF AddNew, Met
  <2>3. QED BY <1>3, <2>1, <2>2
<1>7. Completed' = Completed \cup (IF c = 1 THEN {n} ELSE {})
  BY <1>2, <1>5, <1>6 DEF Completed, Met
<1>8. ASSUME NEW m \in Current PROVE complete'[m] = complete[m]
  <2>1. m \in Met /\ m \in Node
    BY DEF Schedule, Met
  <2>2. requireComplete = 1 => complete[m] = 1
    BY <1>8 DEF AddNode, Schedule
  <2>3. requireComplete = 0 => complete[m] = 0
    BY <1>8 DEF AddNode, Schedule
  <2>4. QED BY <1>2, <1>4, <1>6, <2>1, <2>2, <2>3
<1>9. Running' = Running
  BY <1>8 DEF AddNode, Running, Current
<1>10. QED BY <1>2, <1>5, <1>7, <1>8, <1>9 DEF n, c

-----------------------------------------------------------------------------
LEMMA StartsAreAsked ==
    /\ Reach!FullTargets(Start[tu]) \subseteq Wanted
    /\ Reach!Targets(Start[tu]) \subseteq Mentioned
  BY DEF Wanted, Mentioned, Reach!Wanted, Reach!Mentioned

LEMMA ReasonsStep ==
    ASSUME TypeOK, Schedule, Hushed, NeverOutdated, Reasons, [Next]_vars
    PROVE  Reasons'
<1>a. ASSUME UNCHANGED <<tu, doc, index, complete, current>>
      PROVE  UNCHANGED <<Full, Partial, Met, Completed, Wanted, Mentioned, Running, Current>>
  BY <1>a DEF Full, Partial, Met, Completed, Wanted, Mentioned, Running, Current
<1>b. pc # "print" => current = NoNode /\ Current = {} /\ Running = Start[tu]
  BY DEF Schedule, Current, Running
<1>c. pc # "print" => Completed \subseteq Wanted /\ Met \subseteq Mentioned
  BY <1>b, StartsAreAsked DEF Reasons
<1> USE DEF Served, ServedBut, PartOf
<1>0. ASSUME UNCHANGED vars PROVE Reasons'
  BY <1>0, <1>a DEF vars, nodes, sched, Reasons
<1>1. ASSUME ErrorsOccurred PROVE Reasons'
  BY <1>1, <1>a DEF ErrorsOccurred, nodes, Reasons
<1>2. ASSUME OpenFails PROVE Reasons'
  BY <1>2, <1>a DEF OpenFails, nodes, Reasons
<1>3. ASSUME OpenOutput PROVE Reasons'
  BY <1>3, <1>a, <1>b DEF OpenOutput, nodes, Reasons
<1>4. ASSUME AddNode PROVE Reasons'
  <2> DEFINE n == Head(pending).node
             c == Head(pending).complete
  <2>1. /\ Met' = Met \cup {n}
        /\ Completed' = Completed \cup (IF c = 1 THEN {n} ELSE {})
        /\ Running' = Running
        /\ \A m \in Current : complete'[m] = complete[m]
    BY <1>4, AddNodeAdds
  <2>2. /\ pc = "print" /\ pending' = Tail(pending) /\ Current' = Current
        /\ UNCHANGED <<tu, pc, output, current, doc>>
    BY <1>4 DEF AddNode, Current
  <2>3. UNCHANGED <<Full, Partial, Wanted, Mentioned>>
    BY <2>2 DEF Full, Partial, Wanted, Mentioned
  <2>4. /\ Reach!Targets(pending) = {n} \cup Reach!Targets(pending')
        /\ Reach!FullTargets(pending) =
              (IF c = 1 THEN {n} ELSE {}) \cup Reach!FullTargets(pending')
    BY <1>4, <2>2, TargetsOfTail DEF AddNode, TypeOK
  <2> HIDE DEF n, c
  <2>5. QED BY <2>1, <2>2, <2>3, <2>4 DEF Reasons
<1>5. ASSUME QueueFile PROVE Reasons'
  <2>1. /\ Reach!Targets(pending) = Reach!Targets(pending')
        /\ Reach!FullTargets(pending) = Reach!FullTargets(pending')
    BY <1>5, TargetsOfTail DEF QueueFile, TypeOK
  <2>2. QED BY <1>5, <1>a, <2>1 DEF QueueFile, nodes, Reasons
<1>6. ASSUME FinishNode PROVE Reasons'
  <2>1. /\ UNCHANGED <<tu, output, Met, Completed>> /\ pc = "print" /\ pc' = "loop"
        /\ Current' = {} /\ Running' = Start[tu]
    BY <1>6 DEF FinishNode, nodes, Met, Completed, Current, Running
  <2>2. Served(Running)
    BY <1>6, NoTargets DEF FinishNode, Reasons
  <2>3. CASE current = NoNode
    <3>1. UNCHANGED <<Full, Partial, Wanted, Mentioned>>
      BY <1>6, <2>1, <2>3, FinishParts DEF Wanted, Mentioned
    <3>2. QED BY <2>1, <2>2, <2>3, <3>1 DEF Reasons, Running
  <2>4. CASE current # NoNode /\ complete[current] = 1
    <3>1. Full' = Full \cup {current} /\ Partial' = Partial
      BY <1>6, <2>4, FinishParts
    <3>2. /\ Wanted' = Wanted \cup Reach!FullTargets(Running)
          /\ Mentioned' = Mentioned \cup Reach!Targets(Running)
      BY <2>1, <2>4, <3>1, PrintingAsks DEF Running
    <3>3. Served(Script[tu][current][1])
      BY <2>2, <2>4 DEF Running
    <3>4. QED BY <2>1, <2>4, <3>1, <3>2, <3>3 DEF Reasons
  <2>5. CASE current # NoNode /\ complete[current] = 0
    <3>1. Full' = Full /\ Partial' = Partial \cup {current}
      BY <1>6, <2>5, FinishParts
    <3>2. Wanted' = Wanted /\ Mentioned' = Mentioned \cup Reach!Targets(Running)
      BY <2>1, <2>5, <3>1, PrintingAsks DEF Running
    <3>3. Reach!Targets(Script[tu][current][0]) \subseteq Met
      BY <2>2, <2>5 DEF Running
    <3>4. Reach!FullTargets(Running) = {}
      <4>1. current \in Current /\ pc = "print"
        BY <1>6, <2>5 DEF FinishNode, Current
      <4>2. requireComplete = 0 /\ current \in Met
        BY <2>5, <4>1 DEF Schedule, TypeOK, Flag
      <4>3. QED BY <2>5, <4>1, <4>2 DEF Hushed, Running
    <3>5. QED BY <2>1, <2>5, <3>1, <3>2, <3>3, <3>4 DEF Reasons
  <2>6. QED BY <2>3, <2>4, <2>5 DEF TypeOK, Flag
<1>7. ASSUME DumpNext PROVE Reasons'
  <2> DEFINE h == Head(queue)
  <2>1. /\ pc = "loop" /\ pc' = "print" /\ current' = h
        /\ pending' = Script[tu][h][complete[h]]
        /\ UNCHANGED <<tu, output, index, complete, doc>>
    BY <1>7 DEF DumpNext, nodes
  <2>2. UNCHANGED <<Full, Partial, Met, Completed, Wanted, Mentioned>>
    BY <2>1 DEF Full, Partial, Met, Completed, Wanted, Mentioned
  <2>3. h \in Queued /\ h \in Node /\ h # NoNode
    BY <1>7, NoNodeAssumption DEF DumpNext, Queued, TypeOK
  <2> HIDE DEF h
  <2>4. h \in Met /\ (complete[h] = 1 => h \in Completed)
    BY <2>3 DEF Schedule, Completed
  <2>5. Current' = {h} /\ Running' = pending'
    BY <2>1, <2>3 DEF Current, Running
  <2>6. QED BY <1>b, <1>c, <2>1, <2>2, <2>3, <2>4, <2>5 DEF Reasons
<1>8. ASSUME VisitDumpNodes PROVE Reasons'
  BY <1>8, <1>a DEF VisitDumpNodes, nodes, Reasons
<1>9. ASSUME NEW n \in Node, QueueIncomplete(n) PROVE Reasons'
  BY <1>9, <1>a DEF QueueIncomplete, nodes, Reasons
<1>10. ASSUME StartIncomplete PROVE Reasons'
  BY <1>10, <1>a DEF StartIncomplete, nodes, Reasons
<1>11. ASSUME StartFiles PROVE Reasons'
  BY <1>11, <1>a DEF StartFiles, nodes, Reasons
<1>12. ASSUME DumpFile PROVE Reasons'
  BY <1>12, <1>a DEF DumpFile, nodes, Reasons
<1>13. ASSUME CloseOutput PROVE Reasons'
  BY <1>13, <1>a DEF CloseOutput, nodes, Reasons
<1>14. QED
  BY <1>0, <1>1, <1>2, <1>3, <1>4, <1>5, <1>6, <1>7, <1>8, <1>9, <1>10, <1>11, <1>12,
     <1>13 DEF Next, Returned

LEMMA ReasonsInit == Init => Reasons
  BY DEF Init, Reasons, Full, Partial, Completed, Met, Current

-----------------------------------------------------------------------------
(* The refinement.                                                         *)

(* The actions of the promise, in terms of the parts of the document.      *)
LEMMA Promise ==
    /\ ReachPhase = "idle" /\ ReachPhase' = "full" /\ UNCHANGED <<tu, Full, Partial>>
          => Reach!Next
    /\ ReachPhase = "idle" /\ ReachPhase' = "refused" /\ UNCHANGED <<tu, Full, Partial>>
          => Reach!Next
    /\ \A n \in Node :
          /\ ReachPhase = "full" /\ n \in Wanted \ Full /\ Full' = Full \cup {n}
          /\ UNCHANGED <<tu, ReachPhase, Partial>>
          => Reach!Next
    /\ /\ ReachPhase = "full" /\ Wanted \subseteq Full /\ ReachPhase' = "partial"
       /\ UNCHANGED <<tu, Full, Partial>>
       => Reach!Next
    /\ \A n \in Node :
          /\ ReachPhase = "partial" /\ n \in Mentioned \ (Full \cup Partial)
          /\ Partial' = Partial \cup {n} /\ UNCHANGED <<tu, ReachPhase, Full>>
          => Reach!Next
    /\ /\ ReachPhase = "partial" /\ Mentioned \subseteq Full \cup Partial
       /\ ReachPhase' = "closed" /\ UNCHANGED <<tu, Full, Partial>>
       => Reach!Next
    /\ UNCHANGED <<tu, ReachPhase, Full, Partial>> => UNCHANGED Reach!vars
<1> USE DEF Full, Partial, Wanted, Mentioned
<1>1. ReachPhase = "idle" /\ ReachPhase' = "full" /\ UNCHANGED <<tu, Full, Partial>>
        => Reach!Begin
  BY DEF Reach!Begin
<1>2. ReachPhase = "idle" /\ ReachPhase' = "refused" /\ UNCHANGED <<tu, Full, Partial>>
        => Reach!Refuse
  BY DEF Reach!Refuse
<1>3. ASSUME NEW n \in Node
      PROVE  /\ ReachPhase = "full" /\ n \in Wanted \ Full /\ Full' = Full \cup {n}
             /\ UNCHANGED <<tu, ReachPhase, Partial>>
             => Reach!DumpFull(n)
  BY DEF Reach!DumpFull
<1>4. /\ ReachPhase = "full" /\ Wanted \subseteq Full /\ ReachPhase' = "partial"
      /\ UNCHANGED <<tu, Full, Partial>>
      => Reach!Turn
  BY DEF Reach!Turn
<1>5. ASSUME NEW n \in Node
      PROVE  /\ ReachPhase = "partial" /\ n \in Mentioned \ (Full \cup Partial)
             /\ Partial' = Partial \cup {n} /\ UNCHANGED <<tu, ReachPhase, Full>>
             => Reach!DumpPartial(n)
  BY DEF Reach!DumpPartial
<1>6. /\ ReachPhase = "partial" /\ Mentioned \subseteq Full \cup Partial
      /\ ReachPhase' = "closed" /\ UNCHANGED <<tu, Full, Partial>>
      => Reach!Close
  BY DEF Reach!Close
<1>7. UNCHANGED <<tu, ReachPhase, Full, Partial>> => UNCHANGED Reach!vars
  BY DEF Reach!vars
<1> USE DEF Reach!Next
<1> HIDE DEF Full, Partial, Wanted, Mentioned
<1>8. QED BY <1>1, <1>2, <1>3, <1>4, <1>5, <1>6, <1>7

(* When the queue runs empty in the first phase, what is wanted is dumped. *)
LEMMA TurnWhenAllFull ==
    ASSUME TypeOK, Schedule, NeverOutdated, Reasons, StartIncomplete
    PROVE  Wanted \subseteq Full
<1>1. Wanted \subseteq Completed
  <2>1. pc = "foreach" /\ output = "partial"
    BY DEF StartIncomplete, Reasons
  <2>2. Reach!FullTargets(Start[tu]) \subseteq Completed
    BY <2>1 DEF Reasons, Served
  <2>3. \A n \in Full : Reach!FullTargets(Script[tu][n][1]) \subseteq Completed
    BY DEF Reasons, Served
  <2>4. QED BY <2>2, <2>3 DEF Wanted, Reach!Wanted
<1>2. ASSUME NEW n \in Completed PROVE n \in Full
  <2>1. n \in Met /\ complete[n] = 1 /\ unvisited = {} /\ pc = "foreach"
    BY <1>2 DEF Completed, StartIncomplete
  <2>2. n \in Printed
    BY <2>1 DEF Schedule, Due
  <2>3. QED BY <2>1, <2>2, PrintedParts DEF Met
<1>3. QED BY <1>1, <1>2

(* When it runs empty in the second, what is mentioned is.                 *)
LEMMA CloseWhenAllPrinted ==
    ASSUME TypeOK, Schedule, NeverOutdated, Reasons, StartFiles
    PROVE  Mentioned \subseteq Full \cup Partial
<1>1. Mentioned \subseteq Met
  <2>1. pc = "loop" /\ output = "partial"
    BY DEF StartFiles, Reasons
  <2>2. Reach!Targets(Start[tu]) \subseteq Met
    BY <2>1 DEF Reasons, Served
  <2>3. \A n \in Full : Reach!Targets(Script[tu][n][1]) \subseteq Met
    BY DEF Reasons, Served
  <2>4. \A n \in Partial : Reach!Targets(Script[tu][n][0]) \subseteq Met
    BY DEF Reasons
  <2>5. QED BY <2>2, <2>3, <2>4 DEF Mentioned, Reach!Mentioned
<1>2. Met \subseteq Printed
  <2>1. pc = "loop" /\ requireComplete = 0 /\ Queued = {}
    BY DEF StartFiles, Queued
  <2>2. Current = {} /\ unvisited = {}
    BY <2>1 DEF Schedule, Current
  <2>3. QED BY <2>1, <2>2 DEF Schedule, Due
<1>3. QED BY <1>1, <1>2, PrintedParts

LEMMA StepsOfThePromise ==
    ASSUME TypeOK, Schedule, NeverOutdated, Reasons, [Next]_vars
    PROVE  Reach!Next \/ UNCHANGED Reach!vars
<1>a. ASSUME UNCHANGED doc PROVE UNCHANGED <<Full, Partial>>
  BY <1>a DEF Full, Partial
<1>b. ASSUME UNCHANGED <<tu, doc, ReachPhase>> PROVE UNCHANGED Reach!vars
  BY <1>a, <1>b, Promise
<1>0. CASE UNCHANGED vars
  BY <1>0, <1>b DEF vars, ReachPhase
<1>1. CASE ErrorsOccurred
  <2>1. ReachPhase = "idle" /\ ReachPhase' = "refused"
    BY <1>1 DEF ErrorsOccurred, ReachPhase
  <2>2. QED BY <1>1, <1>a, <2>1, Promise DEF ErrorsOccurred
<1>2. CASE OpenFails
  <2>1. output # "whole"
    BY <1>2 DEF OpenFails, Schedule
  <2>2. ReachPhase = "idle" /\ ReachPhase' = "refused"
    BY <1>2, <2>1 DEF OpenFails, ReachPhase
  <2>3. QED BY <1>2, <1>a, <2>2, Promise DEF OpenFails
<1>3. CASE OpenOutput
  <2>1. requireComplete = 1 /\ UNCHANGED requireComplete
    BY <1>3 DEF OpenOutput, Schedule
  <2>2. ReachPhase = "idle" /\ ReachPhase' = "full"
    BY <1>3, <2>1 DEF OpenOutput, ReachPhase
  <2>3. QED BY <1>3, <1>a, <2>2, Promise DEF OpenOutput
<1>4. CASE AddNode
  BY <1>4, <1>b DEF AddNode, ReachPhase
<1>5. CASE QueueFile
  BY <1>5, <1>b DEF QueueFile, ReachPhase
<1>6. CASE FinishNode
  <2>1. UNCHANGED <<tu, ReachPhase>>
    BY <1>6 DEF FinishNode, ReachPhase
  <2>2. CASE current = NoNode
    BY <1>6, <2>1, <2>2, <1>b DEF FinishNode
  <2>3. ASSUME current # NoNode PROVE current \in Current /\ current \in Node
    BY <2>3 DEF Current, TypeOK
  <2>4. ReachPhase = IF requireComplete = 1 THEN "full" ELSE "partial"
    BY <1>6 DEF FinishNode, ReachPhase
  <2>5. CASE current # NoNode /\ complete[current] = 1
    <3>1. requireComplete = 1
      BY <2>3, <2>5 DEF Schedule, TypeOK, Flag
    <3>2. current \in Wanted /\ current \notin Full
      BY <2>3, <2>5, PrintedParts DEF Reasons, Schedule
    <3>3. Full' = Full \cup {current} /\ Partial' = Partial
      BY <1>6, <2>5, FinishParts
    <3>4. QED BY <2>1, <2>3, <2>4, <2>5, <3>1, <3>2, <3>3, Promise
  <2>6. CASE current # NoNode /\ complete[current] = 0
    <3>1. requireComplete = 0 /\ pc = "print"
      BY <1>6, <2>3, <2>6 DEF FinishNode, Schedule, TypeOK, Flag
    <3>2. current \in Mentioned /\ current \notin Full \cup Partial
      BY <2>3, <2>6, PrintedParts DEF Reasons, Schedule
    <3>3. Full' = Full /\ Partial' = Partial \cup {current}
      BY <1>6, <2>6, FinishParts
    <3>4. QED BY <2>1, <2>3, <2>4, <2>6, <3>1, <3>2, <3>3, Promise
  <2>7. QED BY <2>2, <2>5, <2>6 DEF TypeOK, Flag
<1>7. CASE DumpNext
  BY <1>7, <1>b DEF DumpNext, ReachPhase
<1>8. CASE VisitDumpNodes
  BY <1>8, <1>b DEF VisitDumpNodes, ReachPhase
<1>9. ASSUME NEW n \in Node, QueueIncomplete(n) PROVE UNCHANGED Reach!vars
  BY <1>9, <1>b DEF QueueIncomplete, ReachPhase
<1>10. CASE StartIncomplete
  <2>1. requireComplete = 1
    BY <1>10 DEF StartIncomplete, Schedule
  <2>2. ReachPhase = "full" /\ ReachPhase' = "partial"
    BY <1>10, <2>1 DEF StartIncomplete, ReachPhase
  <2>3. QED BY <1>10, <1>a, <2>2, TurnWhenAllFull, Promise DEF StartIncomplete
<1>11. CASE StartFiles
  <2>1. output = "partial"
    BY <1>11 DEF StartFiles, Reasons
  <2>2. ReachPhase = "partial" /\ ReachPhase' = "closed"
    BY <1>11, <2>1 DEF StartFiles, ReachPhase
  <2>3. QED BY <1>11, <1>a, <2>2, CloseWhenAllPrinted, Promise DEF StartFiles
<1>12. CASE DumpFile
  BY <1>12, <1>b DEF DumpFile, ReachPhase
<1>13. CASE CloseOutput
  <2>1. output = "partial"
    BY <1>13 DEF CloseOutput, Reasons
  <2>2. UNCHANGED <<tu, doc, ReachPhase>>
    BY <1>13, <2>1 DEF CloseOutput, ReachPhase
  <2>3. QED BY <2>2, <1>b
<1>14. QED
  BY <1>0, <1>1, <1>2, <1>3, <1>4, <1>5, <1>6, <1>7, <1>8, <1>9, <1>10, <1>11, <1>12,
     <1>13 DEF Next, Returned

LEMMA PromiseInit == Init => Reach!Init
  BY DEF Init, Reach!Init, ReachPhase

-----------------------------------------------------------------------------
(* What follows from the promise.  Nothing below looks at the worklist.    *)
LEMMA MentionedIsMonotone ==
    ASSUME NEW u, NEW F, NEW P, NEW Q, P \subseteq Q
    PROVE  Reach!Mentioned(u, F, P) \subseteq Reach!Mentioned(u, F, Q)
  BY DEF Reach!Mentioned

LEMMA PromiseInvariant ==
    /\ Reach!Init => ExactlyTheReachable
    /\ ExactlyTheReachable /\ [Reach!Next]_(Reach!vars) => ExactlyTheReachable'
<1> USE DEF ExactlyTheReachable, Full, Partial
<1>0. ExactlyTheReachable
        <=> /\ \A S \in SUBSET Node : Reach!Wanted(tu, S) \subseteq S => Full \subseteq S
            /\ ReachPhase \in {"partial", "closed"} => Reach!Wanted(tu, Full) \subseteq Full
            /\ ReachPhase \in {"idle", "refused", "full"} => Partial = {}
            /\ ReachPhase \in {"partial", "closed"} =>
                  \A P \in SUBSET Node :
                      Reach!Mentioned(tu, Full, P) \subseteq Full \cup P => Partial \subseteq P
            /\ ReachPhase = "closed" =>
                  Reach!Mentioned(tu, Full, Partial) \subseteq Full \cup Partial
  BY DEF Reach!OnlyReachable, Reach!AllReachable, Reach!ClosedSet,
         Reach!OnlyMentioned, Reach!AllMentioned, Reach!Mentions
<1>1. ExactlyTheReachable'
        <=> /\ \A S \in SUBSET Node : Reach!Wanted(tu', S) \subseteq S => Full' \subseteq S
            /\ ReachPhase' \in {"partial", "closed"}
                  => Reach!Wanted(tu', Full') \subseteq Full'
            /\ ReachPhase' \in {"idle", "refused", "full"} => Partial' = {}
            /\ ReachPhase' \in {"partial", "closed"} =>
                  \A P \in SUBSET Node :
                      Reach!Mentioned(tu', Full', P) \subseteq Full' \cup P
                          => Partial' \subseteq P
            /\ ReachPhase' = "closed" =>
                  Reach!Mentioned(tu', Full', Partial') \subseteq Full' \cup Partial'
  BY DEF Reach!OnlyReachable, Reach!AllReachable, Reach!ClosedSet,
         Reach!OnlyMentioned, Reach!AllMentioned, Reach!Mentions
<1>2. Reach!Init => Full = {} /\ Partial = {} /\ ReachPhase = "idle"
  BY DEF Reach!Init
<1>3. Reach!Begin \/ Reach!Refuse
        => /\ UNCHANGED <<tu, Full, Partial>>
           /\ ReachPhase = "idle" /\ ReachPhase' \in {"full", "refused"}
  BY DEF Reach!Begin, Reach!Refuse
<1>4. Reach!Turn
        => /\ UNCHANGED <<tu, Full, Partial>> /\ Reach!Wanted(tu, Full) \subseteq Full
           /\ ReachPhase = "full" /\ ReachPhase' = "partial"
  BY DEF Reach!Turn
<1>5. UNCHANGED Reach!vars => UNCHANGED <<tu, Full, Partial, ReachPhase>>
  BY DEF Reach!vars
<1>6. ASSUME NEW n \in Node, Reach!DumpFull(n)
      PROVE  /\ n \in Reach!Wanted(tu, Full) /\ Full' = Full \cup {n}
             /\ UNCHANGED <<tu, Partial>> /\ ReachPhase = "full" /\ ReachPhase' = "full"
  BY <1>6 DEF Reach!DumpFull
<1>7. ASSUME NEW n \in Node, Reach!DumpPartial(n)
      PROVE  /\ n \in Reach!Mentioned(tu, Full, Partial) /\ n \notin Full
             /\ Partial' = Partial \cup {n}
             /\ UNCHANGED <<tu, Full>> /\ ReachPhase = "partial" /\ ReachPhase' = "partial"
  BY <1>7 DEF Reach!DumpPartial
<1>8. Reach!Close
        => /\ UNCHANGED <<tu, Full, Partial>>
           /\ Reach!Mentioned(tu, Full, Partial) \subseteq Full \cup Partial
           /\ ReachPhase = "partial" /\ ReachPhase' = "closed"
  BY DEF Reach!Close
<1> HIDE DEF ExactlyTheReachable, Full, Partial
<1>9. Reach!Init => ExactlyTheReachable
  BY <1>0, <1>2
<1>10. ASSUME ExactlyTheReachable, [Reach!Next]_(Reach!vars) PROVE ExactlyTheReachable'
  <2>1. CASE Reach!Begin \/ Reach!Refuse
    BY <1>0, <1>1, <1>3, <1>10, <2>1
  <2>2. CASE Reach!Turn
    BY <1>0, <1>1, <1>4, <1>10, <2>2
  <2>3. CASE UNCHANGED Reach!vars
    BY <1>0, <1>1, <1>5, <1>10, <2>3
  <2>4. ASSUME NEW n \in Node, Reach!DumpFull(n) PROVE ExactlyTheReachable'
    <3>1. ASSUME NEW S \in SUBSET Node, Reach!Wanted(tu, S) \subseteq S
          PROVE  Full' \subseteq S
      <4>1. Full \subseteq S
        BY <1>0, <1>10, <3>1
      <4>2. n \in S
        BY <1>6, <2>4, <3>1, <4>1, WantedIsMonotone
      <4>3. QED BY <1>6, <2>4, <4>1, <4>2
    <3>2. QED BY <1>0, <1>1, <1>6, <1>10, <2>4, <3>1
  <2>5. ASSUME NEW n \in Node, Reach!DumpPartial(n) PROVE ExactlyTheReachable'
    <3>1. ASSUME NEW P \in SUBSET Node, Reach!Mentioned(tu, Full, P) \subseteq Full \cup P
          PROVE  Partial' \subseteq P
      <4>1. Partial \subseteq P
        BY <1>0, <1>7, <1>10, <2>5, <3>1
      <4>2. n \in P
        BY <1>7, <2>5, <3>1, <4>1, MentionedIsMonotone
      <4>3. QED BY <1>7, <2>5, <4>1, <4>2
    <3>2. QED BY <1>0, <1>1, <1>7, <1>10, <2>5, <3>1
  <2>6. CASE Reach!Close
    BY <1>0, <1>1, <1>8, <1>10, <2>6
  <2>7. QED BY <1>10, <2>1, <2>2, <2>3, <2>4, <2>5, <2>6 DEF Reach!Next
<1>11. QED BY <1>9, <1>10

-----------------------------------------------------------------------------
(* The schedule is kept as long as nothing printed as incomplete asks for  *)
(* a complete node, the promise as long as the schedule is kept, and what  *)
(* is printed as incomplete is what has been promised: the whole is        *)
(* inductive, for the units in which the promise names no such node.       *)

QuietUnits == \A u \in Unit : Quiet(u)

Dumping == Schedule /\ PrintedOnce /\ NeverOutdated /\ Reasons /\ ExactlyTheReachable

LEMMA QuietUnitsAreHushed ==
    ASSUME QuietUnits, TypeOK, Dumping
    PROVE  Hushed
<1> SUFFICES ASSUME requireComplete = 0, pc \in {"loop", "print"},
                    NEW n \in Met, complete[n] = 0
             PROVE  Reach!FullTargets(Script[tu][n][0]) = {}
  BY DEF Hushed
<1>1. tu \in Unit /\ Full \cup Partial = Printed /\ Full \subseteq Node
  BY PrintedParts DEF Dumping, TypeOK, Full
<1>2. PICK F, P \in SUBSET Node :
          /\ Reach!ClosedSet(tu, F)
          /\ \A S \in SUBSET Node : Reach!ClosedSet(tu, S) => F \subseteq S
          /\ Reach!Mentions(tu, F, P)
          /\ \A m \in P : Reach!FullTargets(Script[tu][m][0]) = {}
  BY <1>1 DEF QuietUnits, Quiet
<1>3. ReachPhase = "partial"
  BY DEF ReachPhase, TypeOK
<1>4. /\ \A S \in SUBSET Node : Reach!ClosedSet(tu, S) => Full \subseteq S
      /\ Reach!ClosedSet(tu, Full)
      /\ \A Q \in SUBSET Node : Reach!Mentions(tu, Full, Q) => Partial \subseteq Q
  BY <1>3 DEF Dumping, ExactlyTheReachable, Full, Partial, Reach!OnlyReachable,
              Reach!AllReachable, Reach!OnlyMentioned
<1>5. Full = F
  BY <1>1, <1>2, <1>4
<1>6. Mentioned \subseteq F \cup P
  <2>1. Partial \subseteq P
    BY <1>2, <1>4, <1>5
  <2>2. Mentioned \subseteq Reach!Mentioned(tu, F, P)
    BY <1>5, <2>1, MentionedIsMonotone DEF Mentioned
  <2>3. QED BY <1>2, <2>2 DEF Reach!Mentions
<1>7. Reach!Targets(Running) \subseteq F \cup P
  <2>1. CASE current = NoNode
    BY <1>6, <2>1, StartsAreAsked DEF Running
  <2>2. CASE current # NoNode
    <3>1. current \in Current /\ complete[current] = 0
      BY <2>2 DEF Current, Dumping, Schedule
    <3>2. current \in Mentioned /\ current \notin Full
      BY <1>1, <3>1 DEF Dumping, Schedule, Reasons
    <3>3. current \in P
      BY <1>5, <1>6, <3>2
    <3>4. Reach!Targets(Script[tu][current][0]) \subseteq Reach!Mentioned(tu, F, P)
      BY <3>3 DEF Reach!Mentioned
    <3>5. QED BY <1>2, <2>2, <3>1, <3>4 DEF Running, Reach!Mentions
  <2>3. QED BY <2>1, <2>2
<1>8. n \in F \cup P
  BY <1>6, <1>7 DEF Dumping, Reasons
<1>9. n \notin Full
  BY DEF Dumping, NeverOutdated, Full
<1>10. QED BY <1>2, <1>5, <1>8, <1>9

LEMMA DumpingInductive ==
    ASSUME QuietUnits
    PROVE  Spec => []Dumping
<1>1. Init => Dumping
  BY ScheduleInit, PrintedInit, ReasonsInit, PromiseInit, PromiseInvariant DEF Dumping
<1>2. TypeOK /\ TypedAccounting /\ Dumping /\ [Next]_vars => Dumping'
  <2> SUFFICES ASSUME TypeOK, TypedAccounting, Dumping, [Next]_vars PROVE Dumping'
    OBVIOUS
  <2> USE DEF Dumping
  <2>1. Hushed
    BY QuietUnitsAreHushed
  <2>2. Schedule'
    BY <2>1, ScheduleStep
  <2>3. (PrintedOnce /\ NeverOutdated)'
    BY PrintedStep
  <2>4. Reasons'
    BY <2>1, ReasonsStep
  <2>5. ExactlyTheReachable'
    BY StepsOfThePromise, PromiseInvariant
  <2>6. QED BY <2>2, <2>3, <2>4, <2>5
<1>3. QED BY <1>1, <1>2, TypeCorrect, TypedAccountingInductive, PTL DEF Spec

(* In a quiet unit no node is printed twice, however often it is asked for. *)
THEOREM NothingIsPrintedTwice ==
    ASSUME QuietUnits
    PROVE  Spec => []PrintedOnce
<1>1. Dumping => PrintedOnce
  BY DEF Dumping
<1>2. QED BY <1>1, DumpingInductive, PTL

(* In a quiet unit no node is printed as incomplete that is complete when  *)
(* the dump ends.                                                          *)
THEOREM NothingIsOutdated ==
    ASSUME QuietUnits
    PROVE  Spec => []NeverOutdated
<1>1. Dumping => NeverOutdated
  BY DEF Dumping
<1>2. QED BY <1>1, DumpingInductive, PTL

(* In a quiet unit a node that is due is on the queue, being printed,      *)
(* printed or about to be visited, and in one of these places only.        *)
THEOREM EveryNodeHasItsPlace ==
    ASSUME QuietUnits
    PROVE  Spec => []Schedule
<1>1. Dumping => Schedule
  BY DEF Dumping
<1>2. QED BY <1>1, DumpingInductive, PTL

(* In a quiet unit xml_add_node_real never reports the dump bug: a         *)
(* document that is closed comes from a compilation without errors.        *)
THEOREM WholeWithoutErrors ==
    ASSUME QuietUnits
    PROVE  Spec => []WholeMeansNoErrors
<1>1. Dumping => WholeMeansNoErrors
  BY DEF Dumping, Schedule, WholeMeansNoErrors
<1>2. QED BY <1>1, DumpingInductive, PTL

(* In a quiet unit a closed document is complete: exactly the nodes that   *)
(* were met are printed, and each file that was named is printed once.     *)
THEOREM WholeDocumentsAreComplete ==
    ASSUME QuietUnits
    PROVE  Spec => []WholeIsComplete
<1>1. TypeOK /\ Dumping /\ FileOrder => WholeIsComplete
  BY WholeDocuments DEF Dumping
<1>2. QED BY <1>1, TypeCorrect, DumpingInductive, FileOrderInductive, PTL

(* -fxml-start= dumps exactly the subset of the unit that is reachable     *)
(* from the starts, for every quiet unit, with loops among its references, *)
(* nodes asked for again and starts that are reachable from one another.   *)
THEOREM ReachableIsWhatIsDumped ==
    ASSUME QuietUnits
    PROVE  Spec => []ExactlyTheReachable
<1>1. Dumping => ExactlyTheReachable
  BY DEF Dumping
<1>2. QED BY <1>1, DumpingInductive, PTL

(* In quiet units every step of the worklist is a step of the promise of   *)
(* XmlReach, or none that it can see.                                      *)
THEOREM WorklistKeepsThePromise ==
    ASSUME QuietUnits
    PROVE  Spec => Reach!Init /\ [][Reach!Next]_(Reach!vars)
<1>1. Init => Reach!Init
  BY PromiseInit
<1>2. TypeOK /\ Dumping /\ [Next]_vars => [Reach!Next]_(Reach!vars)
  BY StepsOfThePromise DEF Dumping
<1>3. QED BY <1>1, <1>2, TypeCorrect, DumpingInductive, PTL DEF Spec
=============================================================================
