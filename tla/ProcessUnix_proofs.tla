-------------------------- MODULE ProcessUnix_proofs --------------------------
(***************************************************************************)
(* Types and places of the process library, for every program and every    *)
(* failure of the system.                                                  *)
(***************************************************************************)
EXTENDS ProcessUnix, FiniteSetTheorems, SequenceTheorems, TLAPS

Preparing == {"add", "append", "install", "stderr", "create", "fork", "forked"}
Starting == {"create", "fork", "forked"}
Waiting == {"handle", "reap", "outcome"}
Taking == {"shift", "restore", "free", "update"}
Cleaning == Taking \cup {"remove", "close"}
Steps == Preparing \cup Waiting \cup Cleaning \cup {"user", "closing", "kill"}
Runs == [pc : Steps, p : Objects, i : Nat, call : Calls \cup {"none", "Execute", "Delete"},
         deadline : {"none", "process", "zero", "user"}, late : BOOLEAN,
         cause : {"none", "failed", "asked", "expired", "select"}]

(* p has the call in progress; nothing has ended its run before its time;  *)
(* its children that are not reaped; commandsLeft counts them.             *)
Mine(p) == run.p = p /\ run.pc # "user"
Healthy(p) == ~obj[p].killed /\ ~obj[p].expired /\ ~obj[p].selectError
Started(p) == {i \in Members(p) : obj[p].forkPIDs[i] # "0"}
Counting(p) ==
    \/ Mine(p) /\ run.pc \in Preparing \cup {"handle", "reap"}
    \/ obj[p].state = "Executing" /\ Healthy(p)

Domains == DOMAIN obj = Objects /\ DOMAIN child = Objects /\ DOMAIN pipe = Objects
(* Where the parent is, and which commands it has started.                 *)
Place ==
    /\ run \in Runs
    /\ run.pc \in Preparing => Commands[run.p] >= 1
    /\ run.pc \in Starting => run.i \in Members(run.p)
    /\ run.pc \in {"reap", "kill"} => run.i \in 1..Commands[run.p] + 1
    /\ run.pc \in Taking => run.i \in 1..Len(reg.cells)
    /\ run.pc = "closing" =>
          run.i = 1 /\ run.cause \in {"asked", "expired", "select"} /\ ~Me.signalPipe
Fresh ==
    run.pc \in Preparing =>
        /\ Healthy(run.p)
        /\ \A i \in Members(run.p) :
              \/ Me.forkPIDs[i] = "0"
              \/ run.pc \in Starting /\ i < run.i
              \/ run.pc = "forked" /\ i = run.i
Counted == \A p \in Objects : Counting(p) => obj[p].commandsLeft = Cardinality(Started(p))
Broken ==
    /\ \A p \in Objects : obj[p].selectError => obj[p].readEnds = {}
    /\ run.pc = "kill" =>
          /\ run.cause # "none"
          /\ run.cause = "select" => Me.readEnds = {}
          /\ run.cause = "asked" => Me.killed
(* The signal pipe is read as long as it is written.                       *)
SignalHeld == \A p \in Objects : obj[p].signalPipe => "SIGNAL" \in obj[p].readEnds

TypeInv == TypeOK /\ Domains /\ Place /\ Fresh /\ Counted /\ Broken /\ SignalHeld

-----------------------------------------------------------------------------
(* What the setup of a program is.                                         *)
LEMMA SetupFacts ==
    ASSUME setup \in Setups
    PROVE  /\ Objects # {} /\ Commands \in [Objects -> Nat]
           /\ Piped \in [Objects -> SUBSET Outputs] /\ Timed \subseteq Objects
           /\ setup.calls \subseteq Calls
           /\ \A p \in Objects : Commands[p] \in Nat /\ Members(p) = 1..Commands[p]
BY ProcessAssumption DEF Objects, Commands, Piped, Timed, Members

(* What depends on the setup only.                                         *)
LEMMA SameSetup ==
    ASSUME setup' = setup
    PROVE  /\ Objects' = Objects /\ Commands' = Commands /\ Timed' = Timed /\ Piped' = Piped
           /\ Runs' = Runs
           /\ \A p \in Objects : Members(p)' = Members(p) /\ Object(p)' = Object(p)
BY DEF Objects, Commands, Timed, Piped, Runs, Members, Object

(* The parts of a typed state.                                             *)
Children(p) == [Members(p) -> [life : {"none", "zombie", "gone"} \cup Living, status : Statuses]]
PipeStates == [byte : BOOLEAN, data : SUBSET Outputs, held : SUBSET Outputs]
Tables == [cells : Seq(Objects), handler : BOOLEAN, pending : BOOLEAN, freed : BOOLEAN]
TypedObjects == DOMAIN obj = Objects /\ \A p \in Objects : obj[p] \in Object(p)
TypedKernel ==
    /\ DOMAIN child = Objects /\ DOMAIN pipe = Objects
    /\ \A p \in Objects : child[p] \in Children(p) /\ pipe[p] \in PipeStates
TypedRest ==
    /\ setup \in Setups /\ over \subseteq Timed
    /\ fds \subseteq {"0", "STDERR", "StdIn", "StdOut", "readEnd"}
    /\ victims \subseteq {"stale", "everyone"}

LEMMA TypeParts ==
    ASSUME Domains, run.p \in Objects
    PROVE  TypeOK <=> TypedObjects /\ TypedKernel /\ TypedRest /\ reg \in Tables
BY DEF Domains, TypeOK, TypedObjects, TypedKernel, TypedRest, Children, PipeStates, Tables

(* A finite set of children.                                               *)
LEMMA StartedFinite ==
    ASSUME setup \in Setups, NEW p \in Objects
    PROVE  /\ IsFiniteSet(Members(p)) /\ IsFiniteSet(Started(p))
           /\ Cardinality(Members(p)) = Commands[p]
           /\ Cardinality(Started(p)) \in Nat /\ Cardinality(Started(p)) <= Commands[p]
<1>1. Commands[p] \in Nat /\ Members(p) = 1..Commands[p]
  BY SetupFacts
<1>2. IsFiniteSet(Members(p)) /\ Cardinality(Members(p)) = Commands[p]
  <2> DEFINE n == Commands[p]
  <2>1. n \in Int /\ n >= 0
    BY <1>1
  <2> HIDE DEF n
  <2>2. IsFiniteSet(1..n) /\ Cardinality(1..n) = IF 1 > n THEN 0 ELSE n - 1 + 1
    BY <2>1, FS_Interval
  <2>3. IsFiniteSet(1..n) /\ Cardinality(1..n) = n
    BY <2>1, <2>2
  <2> QED
    BY <1>1, <2>3 DEF n
<1>3. Started(p) \subseteq Members(p)
  BY DEF Started
<1> QED
  BY <1>1, <1>2, <1>3, FS_Subset, FS_CardinalityType

(* Members and their count are the same in the next state.                 *)
LEMMA StartedSame ==
    ASSUME setup' = setup, NEW p \in Objects, obj'[p].forkPIDs = obj[p].forkPIDs
    PROVE  Started(p)' = Started(p)
BY SameSetup DEF Started

(* A step of one object: what has to be shown of it.                       *)
ObjectKept(q) ==
    /\ DOMAIN obj' = Objects /\ obj'[q] \in Object(q)
    /\ \A p \in Objects : p # q => obj'[p] = obj[p]
    /\ obj'[q].selectError => obj'[q].readEnds = {}
    /\ obj'[q].signalPipe => "SIGNAL" \in obj'[q].readEnds
Turn(q) == (run.p = q \/ run.pc = "user") /\ (run'.p = q \/ run'.pc = "user")

LEMMA ObjectStep ==
    ASSUME TypeInv, setup' = setup, NEW q \in Objects, ObjectKept(q), Turn(q),
           Counting(q)' => obj'[q].commandsLeft = Cardinality(Started(q)'),
           TypedKernel', TypedRest', reg' \in Tables', Place', Fresh',
           run'.pc = "kill" =>
               /\ run'.cause # "none"
               /\ run'.cause = "select" => obj'[q].readEnds = {}
               /\ run'.cause = "asked" => obj'[q].killed
    PROVE  TypeInv'
<1>1. Objects' = Objects /\ \A p \in Objects : Object(p)' = Object(p) /\ Members(p)' = Members(p)
  BY SameSetup
<1>2. TypedObjects /\ TypedRest /\ run \in Runs
  BY TypeParts DEF TypeInv, Place, Runs
<1>3. TypedObjects'
  BY <1>1, <1>2 DEF ObjectKept, TypedObjects
<1>4. Domains' /\ run'.p \in Objects
  BY <1>1, SameSetup DEF ObjectKept, Domains, TypedKernel, Place, Runs
<1>5. TypeOK'
  <2>1. (Domains /\ run.p \in Objects => (TypeOK <=> TypedObjects /\ TypedKernel /\ TypedRest /\ reg \in Tables))'
    BY SameSetup DEF Domains, TypeOK, TypedObjects, TypedKernel, TypedRest, Children, PipeStates, Tables
  <2> QED
    BY <1>1, <1>3, <1>4, <2>1
<1>6. Counted'
  <2>1. ASSUME NEW p \in Objects, p # q, Counting(p)' PROVE (obj[p].commandsLeft = Cardinality(Started(p)))'
    <3>1. obj'[p] = obj[p] /\ Counting(p)
      BY <2>1 DEF ObjectKept, Turn, Counting, Mine, Healthy, Preparing
    <3> QED
      BY <3>1, StartedSame DEF TypeInv, Counted
  <2> QED
    BY <1>1, <2>1 DEF Counted
<1>7. Broken'
  BY <1>1, <1>4 DEF ObjectKept, Turn, Broken, TypeInv, Me
<1>8. SignalHeld'
  BY <1>1 DEF ObjectKept, SignalHeld, TypeInv
<1> QED
  BY <1>4, <1>5, <1>6, <1>7, <1>8 DEF TypeInv

(* A step that leaves the objects alone.                                   *)
LEMMA RunStep ==
    ASSUME TypeInv, setup' = setup, obj' = obj, NEW q \in Objects, Turn(q),
           Counting(q)' => Counting(q),
           TypedKernel', TypedRest', reg' \in Tables', Place', Fresh',
           run'.pc = "kill" => run.pc = "kill" /\ run'.cause = run.cause
    PROVE  TypeInv'
<1>1. TypedObjects /\ run.p \in Objects
  BY TypeParts DEF TypeInv, Place, Runs
<1>2. ObjectKept(q)
  BY <1>1 DEF ObjectKept, TypedObjects, TypeInv, Broken, SignalHeld
<1>3. Counting(q)' => obj'[q].commandsLeft = Cardinality(Started(q)')
  BY StartedSame DEF TypeInv, Counted
<1>4. run'.pc = "kill" =>
          /\ run'.cause # "none"
          /\ run'.cause = "select" => obj'[q].readEnds = {}
          /\ run'.cause = "asked" => obj'[q].killed
  BY <1>1 DEF TypeInv, Broken, Turn, Me
<1> QED
  BY <1>2, <1>3, <1>4, ObjectStep

(* What TypeInv says of the state that a step of the parent begins in.     *)
LEMMA Here ==
    ASSUME TypeInv
    PROVE  /\ setup \in Setups /\ run \in Runs /\ run.p \in Objects /\ run.i \in Nat
           /\ Me \in Object(run.p) /\ Members(run.p) = 1..Commands[run.p] /\ Commands[run.p] \in Nat
           /\ TypedObjects /\ TypedKernel /\ TypedRest /\ reg \in Tables
           /\ \A p \in Objects : obj[p] \in Object(p)
BY TypeParts, SetupFacts DEF TypeInv, Place, Runs, TypedRest, TypedObjects, Me

(* What stays typed because it stays.                                      *)
LEMMA KernelStays == ASSUME TypeInv, setup' = setup, UNCHANGED <<child, pipe>> PROVE TypedKernel'
BY SameSetup, Here DEF TypedKernel, Children, PipeStates
LEMMA RestStays == ASSUME TypeInv, setup' = setup, UNCHANGED <<over, fds, victims>> PROVE TypedRest'
BY SameSetup, Here DEF TypedRest
LEMMA TableStays == ASSUME TypeInv, setup' = setup, reg' = reg PROVE reg' \in Tables'
BY SameSetup, Here DEF Tables

-----------------------------------------------------------------------------
(* The children, the clock and the signal: the parent and its objects stay *)
LEMMA OutsideStep ==
    ASSUME TypeInv, UNCHANGED <<setup, obj, run>>, TypedKernel', TypedRest', reg' \in Tables',
           reg'.cells = reg.cells
    PROVE  TypeInv'
<1>1. Place' /\ Fresh'
  BY SameSetup, Here DEF TypeInv, Place, Fresh, Healthy, Me
<1>2. Turn(run.p) /\ (Counting(run.p)' => Counting(run.p))
  BY DEF Turn, Counting, Mine, Healthy
<1> QED
  BY <1>1, <1>2, Here, RunStep

(* One child changes, or the pipes of one object.                          *)
ChildStates == [life : {"none", "zombie", "gone"} \cup Living, status : Statuses]
LEMMA ChildChange ==
    ASSUME TypeInv, setup' = setup, NEW p \in Objects, NEW i \in Members(p), NEW c \in ChildStates,
           child' = [child EXCEPT ![p][i] = c]
    PROVE  /\ DOMAIN child' = Objects /\ \A q \in Objects : child'[q] \in Children(q)'
           /\ child'[p][i] = c
           /\ \A q \in Objects : \A j \in Members(q) :
                 <<q, j>> # <<p, i>> => child'[q][j] = child[q][j]
<1>1. DOMAIN child = Objects /\ \A q \in Objects : child[q] \in Children(q) /\ Children(q)' = Children(q)
  BY Here, SameSetup DEF TypedKernel, Children
<1>2. child'[p] = [child[p] EXCEPT ![i] = c] /\ \A q \in Objects : q # p => child'[q] = child[q]
  BY <1>1
<1>3. child'[p] \in Children(p)
  BY <1>1, <1>2 DEF Children, ChildStates
<1> QED
  BY <1>1, <1>2, <1>3 DEF Children

LEMMA PipeChange ==
    ASSUME TypeInv, setup' = setup, NEW p \in Objects, NEW e \in PipeStates,
           pipe' = [pipe EXCEPT ![p] = e]
    PROVE  DOMAIN pipe' = Objects /\ \A q \in Objects : pipe'[q] \in PipeStates
BY Here DEF TypedKernel

LEMMA OutsideTyped ==
    ASSUME TypeInv, Exec \/ Child \/ SignalHandler
    PROVE  TypeInv'
<1>0. /\ setup' = setup => Objects' = Objects /\ \A p \in Objects : Children(p)' = Children(p)
      /\ PipeStates' = PipeStates
      /\ \A p \in Objects : \A i \in Members(p) : child[p][i] \in ChildStates
      /\ \A p \in Objects : child[p] \in Children(p) /\ pipe[p] \in PipeStates
  BY Here, SameSetup DEF TypedKernel, Children, PipeStates, ChildStates
<1>1. ASSUME NEW p \in Objects, NEW i \in Members(p), ExecSucceeds(p, i) PROVE TypeInv'
  <2>1. UNCHANGED <<setup, obj, run, reg, pipe, over, fds, victims>>
    BY <1>1 DEF ExecSucceeds
  <2> DEFINE c == [child[p][i] EXCEPT !.life = "running"]
  <2>2. c \in ChildStates
    BY <1>0 DEF ChildStates, Living
  <2>3. child' = [child EXCEPT ![p][i] = c]
    BY <1>1 DEF ExecSucceeds
  <2> HIDE DEF c
  <2>4. TypedKernel'
    BY <1>0, <2>1, <2>2, <2>3, ChildChange, Here DEF TypedKernel
  <2> QED
    BY <2>1, <2>4, RestStays, TableStays, OutsideStep
<1>2. ASSUME NEW p \in Objects, NEW i \in Members(p), ExecFails(p, i) PROVE TypeInv'
  <2>1. UNCHANGED <<setup, obj, run, pipe, over, fds, victims>>
    BY <1>2 DEF ExecFails
  <2> DEFINE c == [life |-> "zombie", status |-> "exec"]
  <2>2. c \in ChildStates
    BY DEF ChildStates, Statuses
  <2>3. child' = [child EXCEPT ![p][i] = c]
    BY <1>2 DEF ExecFails
  <2> HIDE DEF c
  <2>4. TypedKernel'
    BY <1>0, <2>1, <2>2, <2>3, ChildChange, Here DEF TypedKernel
  <2>5. reg' \in Tables' /\ reg'.cells = reg.cells
    BY <1>2, <2>1, <1>0, Here DEF ExecFails, RaiseSIGCHLD, Tables
  <2> QED
    BY <2>1, <2>4, <2>5, RestStays, OutsideStep
<1>3. ASSUME NEW p \in Objects, NEW i \in Members(p), WritesData(p, i) PROVE TypeInv'
  <2>1. UNCHANGED <<setup, obj, run, child, reg, over, fds, victims>>
    BY <1>3 DEF WritesData
  <2>2. PICK k \in Writes(p, i) : pipe' = [pipe EXCEPT ![p].data = @ \cup {k}]
    BY <1>3 DEF WritesData
  <2> DEFINE e == [pipe[p] EXCEPT !.data = @ \cup {k}]
  <2>3. e \in PipeStates
    BY <1>0, <2>2 DEF Writes, PipeStates, Outputs
  <2>4. pipe' = [pipe EXCEPT ![p] = e]
    BY <2>2
  <2> HIDE DEF e
  <2>5. TypedKernel'
    BY <1>0, <2>1, <2>3, <2>4, PipeChange, Here DEF TypedKernel
  <2> QED
    BY <2>1, <2>5, RestStays, TableStays, OutsideStep
<1>4. ASSUME NEW p \in Objects, NEW i \in Members(p), ChildExits(p, i) PROVE TypeInv'
  <2>1. UNCHANGED <<setup, obj, run, over, fds, victims>>
    BY <1>4 DEF ChildExits
  <2>2. PICK st \in Statuses \ {"exec"} : child' = [child EXCEPT ![p][i] = [life |-> "zombie", status |-> st]]
    BY <1>4 DEF ChildExits
  <2>3. PICK left \in (IF setup.grandchildren THEN SUBSET Writes(p, i) ELSE {{}}) :
            pipe' = [pipe EXCEPT ![p].held = @ \cup left]
    BY <1>4 DEF ChildExits
  <2> DEFINE c == [life |-> "zombie", status |-> st]
             e == [pipe[p] EXCEPT !.held = @ \cup left]
  <2>4. c \in ChildStates
    BY DEF ChildStates
  <2>5. left \subseteq Outputs
    BY <2>3 DEF Writes, Outputs
  <2>6. e \in PipeStates
    BY <1>0, <2>5 DEF PipeStates
  <2>7. child' = [child EXCEPT ![p][i] = c] /\ pipe' = [pipe EXCEPT ![p] = e]
    BY <2>2, <2>3
  <2> HIDE DEF c, e
  <2>8. TypedKernel'
    BY <1>0, <2>1, <2>4, <2>6, <2>7, ChildChange, PipeChange DEF TypedKernel
  <2>9. reg' \in Tables' /\ reg'.cells = reg.cells
    BY <1>4, <2>1, <1>0, Here DEF ChildExits, RaiseSIGCHLD, Tables
  <2> QED
    BY <2>1, <2>8, <2>9, RestStays, OutsideStep
<1>5. ASSUME NEW p \in Objects, GrandchildrenExit(p) PROVE TypeInv'
  <2>1. UNCHANGED <<setup, obj, run, child, reg, over, fds, victims>>
    BY <1>5 DEF GrandchildrenExit
  <2> DEFINE e == [pipe[p] EXCEPT !.held = {}]
  <2>3. e \in PipeStates
    BY <1>0 DEF PipeStates
  <2>4. pipe' = [pipe EXCEPT ![p] = e]
    BY <1>5 DEF GrandchildrenExit
  <2> HIDE DEF e
  <2>5. TypedKernel'
    BY <1>0, <2>1, <2>3, <2>4, PipeChange, Here DEF TypedKernel
  <2> QED
    BY <2>1, <2>5, RestStays, TableStays, OutsideStep
<1>6. ASSUME SignalHandler PROVE TypeInv'
  <2>1. UNCHANGED <<setup, obj, run, child, over, fds, victims>>
    BY <1>6 DEF SignalHandler
  <2>2. DOMAIN pipe' = Objects /\ \A p \in Objects : pipe'[p] \in PipeStates
    <3>1. \A p \in Objects : [pipe[p] EXCEPT !.byte = obj[p].signalPipe] \in PipeStates
      BY <1>0, Here DEF PipeStates, Object
    <3> QED
      BY <1>0, <1>6, <3>1 DEF SignalHandler
  <2>3. TypedKernel'
    BY <1>0, <2>1, <2>2, Here DEF TypedKernel
  <2>4. reg' \in Tables' /\ reg'.cells = reg.cells
    BY <1>6, <2>1, <1>0, Here DEF SignalHandler, Tables
  <2> QED
    BY <2>1, <2>3, <2>4, RestStays, OutsideStep
<1> QED
  BY <1>1, <1>2, <1>3, <1>4, <1>5, <1>6 DEF Exec, Child

LEMMA TimeTyped ==
    ASSUME TypeInv, TimePasses
    PROVE  TypeInv'
<1>1. UNCHANGED <<setup, obj, child, pipe, reg, fds, victims>>
  BY DEF TimePasses
<1>2. over' \subseteq Timed'
  BY <1>1, Here, SameSetup DEF TimePasses, TypedRest
<1>3. TypedRest' /\ TypedKernel' /\ reg' \in Tables'
  BY <1>1, <1>2, Here, SameSetup, KernelStays, TableStays DEF TypedRest
<1>4. run' \in Runs /\ run'.pc = run.pc /\ run'.p = run.p /\ run'.i = run.i /\ run'.cause = run.cause
  BY <1>1, Here DEF TimePasses, Runs
<1>5. Place' /\ Fresh'
  BY <1>1, <1>4, SameSetup, Here DEF TypeInv, Place, Fresh, Healthy, Me
<1>6. Turn(run.p) /\ (Counting(run.p)' => Counting(run.p))
  BY <1>1, <1>4 DEF Turn, Counting, Mine, Healthy
<1> QED
  BY <1>1, <1>3, <1>4, <1>5, <1>6, Here, RunStep

-----------------------------------------------------------------------------
(* The steps of the parent: where it goes, and what its object becomes.    *)
LEMMA Goes ==
    ASSUME TypeInv, NEW step \in Steps, NEW i \in Nat, run' = [run EXCEPT !.pc = step, !.i = i]
    PROVE  /\ run' \in Runs /\ run'.pc = step /\ run'.i = i /\ run'.p = run.p
           /\ run'.call = run.call /\ run'.cause = run.cause
BY Here DEF Runs

LEMMA GoesOn ==
    ASSUME TypeInv, NEW step \in Steps, Go(step)
    PROVE  /\ run' \in Runs /\ run'.pc = step /\ run'.i = run.i /\ run'.p = run.p
           /\ run'.call = run.call /\ run'.cause = run.cause
BY Here DEF Runs, Go

LEMMA Idles ==
    ASSUME TypeInv, setup' = setup, run' = Idle
    PROVE  run' \in Runs /\ run'.pc = "user" /\ Place' /\ Fresh'
<1>1. (CHOOSE p \in Objects : TRUE) \in Objects
  BY Here, SetupFacts
<1>2. Idle \in Runs /\ Idle.pc = "user"
  BY <1>1 DEF Idle, Runs, Steps
<1> QED
  BY <1>2, SameSetup DEF Place, Fresh, Starting, Taking, Preparing

LEMMA ObjectChange ==
    ASSUME TypeInv, NEW p \in Objects, NEW m \in Object(p), obj' = [obj EXCEPT ![p] = m],
           m.selectError => m.readEnds = {}, m.signalPipe => "SIGNAL" \in m.readEnds
    PROVE  ObjectKept(p) /\ obj'[p] = m
BY Here DEF TypedObjects, ObjectKept

LEMMA InitializedTyped ==
    ASSUME TypeInv, NEW p \in Objects
    PROVE  /\ Initialized(p) \in Object(p)
           /\ Initialized(p).state = "Starting" /\ Initialized(p).readEnds = {}
           /\ ~Initialized(p).signalPipe /\ ~Initialized(p).selectError
           /\ ~Initialized(p).killed /\ ~Initialized(p).expired
           /\ Initialized(p).commandsLeft = 0
           /\ \A i \in Members(p) : Initialized(p).forkPIDs[i] = "0"
<1>1. 0 \in 0..Commands[p]
  BY Here, SetupFacts
<1> QED
  BY <1>1 DEF Initialized, Object, States, Statuses

-----------------------------------------------------------------------------
(* The program                                                             *)

(* An object changes that does not run.                                    *)
LEMMA RestingChange ==
    ASSUME TypeInv, run.pc = "user", UNCHANGED <<setup, child, pipe, over, reg, run, fds, victims>>,
           NEW p \in Objects, NEW m \in Object(p), obj' = [obj EXCEPT ![p] = m],
           m.state # "Executing",
           m.selectError => m.readEnds = {}, m.signalPipe => "SIGNAL" \in m.readEnds
    PROVE  TypeInv'
<1>1. ObjectKept(p) /\ obj'[p] = m
  BY ObjectChange
<1>2. TypedKernel' /\ TypedRest' /\ reg' \in Tables'
  BY KernelStays, RestStays, TableStays
<1>3. Place' /\ Fresh'
  BY SameSetup, Here DEF TypeInv, Place, Fresh, Starting, Taking, Preparing
<1>4. Turn(p) /\ ~Counting(p)'
  BY <1>1 DEF Turn, Counting, Mine
<1> QED
  BY <1>1, <1>2, <1>3, <1>4, ObjectStep

LEMMA RestingTyped ==
    ASSUME TypeInv, NEW p \in Objects,
           \/ New(p) \/ ExecuteNothing(p)
           \/ /\ At("user") /\ obj[p].state # "Executing"
              /\ obj' = [obj EXCEPT ![p].state = "none"]
              /\ UNCHANGED <<setup, child, pipe, over, reg, run, fds, victims>>
    PROVE  TypeInv'
<1>0. obj[p] \in Object(p) /\ (obj[p].selectError => obj[p].readEnds = {})
      /\ (obj[p].signalPipe => "SIGNAL" \in obj[p].readEnds)
  BY Here DEF TypeInv, Broken, SignalHeld
<1>1. CASE New(p)
  BY <1>1, InitializedTyped, RestingChange DEF New, At
<1>2. ASSUME NEW s \in States \ {"Executing"}, obj' = [obj EXCEPT ![p].state = s], At("user"),
             UNCHANGED <<setup, child, pipe, over, reg, run, fds, victims>>
      PROVE  TypeInv'
  <2> DEFINE m == [obj[p] EXCEPT !.state = s]
  <2>1. m \in Object(p) /\ m.state = s /\ m.selectError = obj[p].selectError
        /\ m.readEnds = obj[p].readEnds /\ m.signalPipe = obj[p].signalPipe
    BY <1>0 DEF Object
  <2>2. obj' = [obj EXCEPT ![p] = m]
    BY <1>2
  <2> HIDE DEF m
  <2> QED
    BY <1>0, <1>2, <2>1, <2>2, RestingChange DEF At
<1> QED
  BY <1>1, <1>2 DEF ExecuteNothing, States

LEMMA ExecuteTyped ==
    ASSUME TypeInv, NEW p \in Objects, Execute(p)
    PROVE  TypeInv'
<1>1. ObjectKept(p) /\ obj'[p] = Initialized(p) /\ setup' = setup
  BY InitializedTyped, ObjectChange DEF Execute
<1>2. run' = [Idle EXCEPT !.pc = "add", !.p = p, !.call = "Execute"]
  BY DEF Execute
<1>3. /\ run' \in Runs /\ run'.pc = "add" /\ run'.p = p /\ run'.cause = "none"
  <2>1. (CHOOSE q \in Objects : TRUE) \in Objects
    BY Here, SetupFacts
  <2> QED
    BY <1>2, <2>1 DEF Idle, Runs, Steps, Preparing
<1>4. Place'
  BY <1>1, <1>3, SameSetup DEF Place, Preparing, Starting, Taking, Execute
<1>5. Fresh'
  BY <1>1, <1>3, SameSetup, InitializedTyped DEF Fresh, Healthy, Me
<1>6. obj'[p].commandsLeft = Cardinality(Started(p)')
  <2>1. Started(p)' = {}
    BY <1>1, SameSetup, InitializedTyped DEF Started
  <2> QED
    BY <1>1, <2>1, InitializedTyped, FS_EmptySet
<1>7. TypedKernel'
  <2> DEFINE c == [i \in Members(p) |-> [life |-> "none", status |-> "exit 0"]]
             e == [byte |-> FALSE, data |-> {}, held |-> {}]
  <2>1. c \in Children(p) /\ e \in PipeStates
    BY DEF Children, PipeStates, Statuses
  <2>2. child' = [child EXCEPT ![p] = c] /\ pipe' = [pipe EXCEPT ![p] = e]
    BY DEF Execute
  <2> HIDE DEF c, e
  <2>3. \A q \in Objects : Children(q)' = Children(q)
    BY <1>1, SameSetup DEF Children
  <2> QED
    BY <1>1, <2>1, <2>2, <2>3, Here, SameSetup, PipeChange DEF TypedKernel
<1>8. TypedRest' /\ reg' \in Tables'
  BY <1>1, SameSetup, Here, TableStays DEF Execute, TypedRest
<1>9. Turn(p)
  BY <1>3 DEF Turn, Execute, At
<1> QED
  BY <1>1, <1>3, <1>4, <1>5, <1>6, <1>7, <1>8, <1>9, ObjectStep

LEMMA WaitTyped ==
    ASSUME TypeInv, NEW p \in Objects, NEW call \in Calls \cup {"Delete"},
           NEW timeout \in {"none", "zero", "user"}, Wait(p, call, timeout)
    PROVE  TypeInv'
<1>1. UNCHANGED <<setup, obj, child, pipe, over, reg, fds, victims>> /\ run.pc = "user"
      /\ obj[p].state = "Executing"
  BY DEF Wait, At
<1>2. PICK d \in Deadlines(p, timeout) :
          run' = [Idle EXCEPT !.p = p, !.call = call, !.deadline = d,
                              !.pc = IF NoMoreData(p) THEN "outcome" ELSE "handle"]
  BY DEF Wait
<1>3. d \in {"none", "process", "zero", "user"}
  BY DEF Deadlines
<1> DEFINE step == IF NoMoreData(p) THEN "outcome" ELSE "handle"
<1>4. run' \in Runs /\ run'.pc = step /\ run'.p = p
  <2>1. (CHOOSE q \in Objects : TRUE) \in Objects
    BY Here, SetupFacts
  <2> QED
    BY <1>2, <1>3, <2>1 DEF Idle, Runs, Steps, Waiting
<1>5. Place' /\ Fresh'
  BY <1>1, <1>4, SameSetup DEF Place, Fresh, Starting, Taking, Preparing
<1>6. Counting(p)' => Counting(p)
  <2>1. ~NoMoreData(p) => Healthy(p)
    BY DEF NoMoreData, Healthy, TypeInv, Broken
  <2>2. Counting(p)' => run'.pc = "handle" \/ Healthy(p)
    BY <1>1, <1>4 DEF Counting, Mine, Healthy, Preparing
  <2> QED
    BY <1>1, <1>4, <2>1, <2>2 DEF Counting
<1>7. Turn(p)
  BY <1>1, <1>4 DEF Turn
<1> QED
  BY <1>1, <1>4, <1>5, <1>6, <1>7, RunStep, KernelStays, RestStays, TableStays

(* A timeout, an error or the program begins to kill a pipeline: its write *)
(* end of the signal pipe is closed.                                       *)
LEMMA KillBeginsTyped ==
    ASSUME TypeInv, NEW p \in Objects, run.p = p \/ run.pc = "user",
           NEW cause \in {"asked", "expired", "select"}, KillBegins(p, cause),
           Counting(p)' => Counting(p),
           UNCHANGED <<setup, child, pipe, over, reg, fds, victims>>
    PROVE  TypeInv'
<1> DEFINE m == [obj[p] EXCEPT !.signalPipe = FALSE]
<1>1. /\ m \in Object(p) /\ m.readEnds = obj[p].readEnds /\ ~m.signalPipe
      /\ m.selectError = obj[p].selectError /\ m.forkPIDs = obj[p].forkPIDs
      /\ m.commandsLeft = obj[p].commandsLeft
  BY Here DEF Object
<1>2. obj' = [obj EXCEPT ![p] = m]
  BY DEF KillBegins, Closing
<1> HIDE DEF m
<1>3. /\ ObjectKept(p) /\ ~obj'[p].signalPipe /\ obj'[p].forkPIDs = obj[p].forkPIDs
      /\ obj'[p].commandsLeft = obj[p].commandsLeft
  BY <1>1, <1>2, ObjectChange DEF TypeInv, Broken
<1>4. run' \in Runs /\ run'.pc = "closing" /\ run'.p = p /\ run'.i = 1 /\ run'.cause = cause
  BY Here DEF KillBegins, Runs, Steps
<1>5. Place'
  BY <1>3, <1>4, SameSetup, SetupFacts, Here DEF Place, Preparing, Starting, Taking, Me
<1>6. Fresh' /\ Turn(p)
  BY <1>3, <1>4, SameSetup DEF Fresh, Preparing, Turn
<1>7. Counting(p)' => obj'[p].commandsLeft = Cardinality(Started(p)')
  BY <1>3, StartedSame DEF TypeInv, Counted
<1> QED
  BY <1>3, <1>4, <1>5, <1>6, <1>7, ObjectStep, KernelStays, RestStays, TableStays

(* Then its read ends are: nobody writes to the signal pipe any more.      *)
LEMMA ClosePipesTyped ==
    ASSUME TypeInv, ClosePipes
    PROVE  TypeInv'
<1>0. run.pc = "closing" /\ UNCHANGED <<setup, child, pipe, over, reg, fds, victims>>
  BY DEF ClosePipes, At
<1>1. PICK p \in Objects : p = run.p
  BY Here
<1> DEFINE m == [obj[p] EXCEPT !.readEnds = {}, !.pipeSet = {}, !.killed = TRUE]
<1>2. m \in Object(p) /\ m.killed /\ m.readEnds = {} /\ m.signalPipe = obj[p].signalPipe
  BY Here DEF Object
<1>3. obj' = [obj EXCEPT ![p] = m]
  BY <1>1 DEF ClosePipes, Closing
<1> HIDE DEF m
<1>4. run.i = 1 /\ run.cause \in {"asked", "expired", "select"} /\ ~obj[p].signalPipe
  BY <1>0, <1>1 DEF TypeInv, Place, Me
<1>5. ObjectKept(p) /\ obj'[p].killed /\ obj'[p].readEnds = {}
  BY <1>2, <1>3, <1>4, ObjectChange
<1>6. run' \in Runs /\ run'.pc = "kill" /\ run'.p = p /\ run'.i = 1 /\ run'.cause = run.cause
  <2>1. Go("kill") /\ "kill" \in Steps
    BY DEF ClosePipes, Steps
  <2> QED
    BY <1>1, <1>4, <2>1, Here DEF Go, Runs
<1>7. Place'
  <2>1. Commands[p] \in Nat /\ 1 \in 1..Commands[p] + 1
    BY SetupFacts, Here
  <2> QED
    BY <1>0, <1>6, <2>1, SameSetup DEF Place, Preparing, Starting, Taking
<1>8. Fresh' /\ ~Counting(p)' /\ Turn(p)
  BY <1>1, <1>5, <1>6, SameSetup DEF Fresh, Preparing, Counting, Mine, Healthy, Turn
<1> QED
  BY <1>0, <1>4, <1>5, <1>6, <1>7, <1>8, ObjectStep, KernelStays, RestStays, TableStays

LEMMA UserTyped ==
    ASSUME TypeInv, User
    PROVE  TypeInv'
<1>1. PICK p \in Objects : \/ New(p) \/ ExecuteNothing(p) \/ Execute(p) \/ WaitForExit(p)
                           \/ WaitForData(p) \/ Kill(p) \/ Delete(p)
  BY DEF User
<1>2. CASE New(p) \/ ExecuteNothing(p)
  BY <1>2, RestingTyped
<1>3. CASE Execute(p)
  BY <1>3, ExecuteTyped
<1>4. CASE WaitForExit(p) \/ WaitForData(p)
  BY <1>4, WaitTyped DEF WaitForExit, WaitForData, Calls
<1>5. CASE Kill(p)
  <2>1. obj[p].state = "Executing" /\ Healthy(p) /\ run.pc = "user"
    BY <1>5 DEF Kill, At, Healthy
  <2> QED
    BY <1>5, <2>1, KillBeginsTyped DEF Kill, Counting
<1>6. CASE Delete(p)
  BY <1>6, RestingTyped, WaitTyped DEF Delete
<1> QED
  BY <1>1, <1>2, <1>3, <1>4, <1>5, <1>6

-----------------------------------------------------------------------------
(* kwsysProcess_Execute                                                    *)
Kept == {"0", "STDERR", "StdIn", "StdOut", "readEnd"}

LEMMA DescriptorsTyped ==
    ASSUME TypeInv, UNCHANGED <<setup, over, victims>>, fds' \subseteq Kept
    PROVE  TypedRest'
BY SameSetup, Here DEF TypedRest, Kept

(* Execute fails.                                                          *)
LEMMA FailsTyped ==
    ASSUME TypeInv, run.pc # "user", NEW m \in Object(run.p), obj' = [obj EXCEPT ![run.p] = m],
           m.state = "Error",
           m.selectError => m.readEnds = {}, m.signalPipe => "SIGNAL" \in m.readEnds,
           run' = [run EXCEPT !.pc = "kill", !.i = 1, !.cause = "failed"],
           UNCHANGED <<setup, child, pipe, over, reg, victims>>, fds' \subseteq Kept
    PROVE  TypeInv'
<1>1. PICK q \in Objects : q = run.p
  BY Here
<1>2. ObjectKept(q) /\ obj'[q] = m
  BY <1>1, ObjectChange
<1>3. run' \in Runs /\ run'.pc = "kill" /\ run'.p = q /\ run'.i = 1 /\ run'.cause = "failed"
  BY <1>1, Here DEF Runs, Steps
<1>4. Place'
  BY <1>3, SameSetup, SetupFacts, Here DEF Place, Preparing, Starting, Taking
<1>5. Fresh' /\ ~Counting(q)' /\ Turn(q)
  BY <1>1, <1>2, <1>3, SameSetup DEF Fresh, Preparing, Counting, Mine, Turn
<1> QED
  BY <1>2, <1>3, <1>4, <1>5, ObjectStep, KernelStays, DescriptorsTyped, TableStays

LEMMA ExecuteFailsTyped ==
    ASSUME TypeInv, run.pc # "user", NEW kept \in SUBSET Kept, ExecuteFails(kept),
           UNCHANGED <<setup, child, pipe, over, reg, victims>>
    PROVE  TypeInv'
<1> DEFINE m == [Me EXCEPT !.state = "Error"]
<1>1. m \in Object(run.p) /\ m.state = "Error" /\ m.selectError = Me.selectError
      /\ m.readEnds = Me.readEnds /\ m.signalPipe = Me.signalPipe
  BY Here DEF Object, States
<1>2. obj' = [obj EXCEPT ![run.p] = m]
  BY DEF ExecuteFails, Me
<1>3. (Me.selectError => Me.readEnds = {}) /\ (Me.signalPipe => "SIGNAL" \in Me.readEnds)
  BY Here DEF TypeInv, Broken, SignalHeld, Me
<1> HIDE DEF m
<1> QED
  BY <1>1, <1>2, <1>3, FailsTyped DEF ExecuteFails

(* It goes on, without having started another command.                     *)
LEMMA GoesOnTyped ==
    ASSUME TypeInv, run.pc \in Preparing, NEW step \in Preparing, NEW i \in Nat,
           run' = [run EXCEPT !.pc = step, !.i = i],
           NEW m \in Object(run.p), obj' = [obj EXCEPT ![run.p] = m] \/ (obj' = obj /\ m = Me),
           m.forkPIDs = Me.forkPIDs, m.commandsLeft = Me.commandsLeft,
           m.killed = Me.killed, m.expired = Me.expired, m.selectError = Me.selectError,
           m.signalPipe => "SIGNAL" \in m.readEnds,
           step \in Starting => i \in Members(run.p),
           run.pc \in Starting =>
               step \in Starting /\ (i > run.i \/ (i = run.i /\ run.pc # "forked")),
           UNCHANGED <<setup, child, pipe, over, victims>>, reg' \in Tables', fds' \subseteq Kept
    PROVE  TypeInv'
<1>1. PICK q \in Objects : q = run.p
  BY Here
<1>2. ObjectKept(q) /\ obj'[q] = m /\ Healthy(q) /\ ~m.selectError
  <2>1. Healthy(q) /\ ~m.selectError
    BY <1>1 DEF TypeInv, Fresh, Healthy, Me
  <2>2. CASE obj' = [obj EXCEPT ![run.p] = m]
    BY <1>1, <2>1, <2>2, ObjectChange
  <2>3. CASE obj' = obj /\ m = Me
    BY <1>1, <2>1, <2>3, Here DEF ObjectKept, TypedObjects, TypeInv, Broken, SignalHeld, Me
  <2> QED
    BY <2>1, <2>2, <2>3
<1>3. run' \in Runs /\ run'.pc = step /\ run'.p = q /\ run'.i = i /\ run'.cause = run.cause
  BY <1>1, Goes DEF Steps
<1>4. Place'
  BY <1>1, <1>3, SameSetup DEF TypeInv, Place, Preparing, Taking
<1>5. Fresh'
  <2>1. Healthy(q)'
    BY <1>1, <1>2 DEF Healthy, Me
  <2>2. ASSUME NEW j \in Members(q)
        PROVE  \/ m.forkPIDs[j] = "0"
               \/ step \in Starting /\ j < i
               \/ step = "forked" /\ j = i
    <3>1. j \in Nat /\ run.i \in Nat
      BY <1>1, Here
    <3>2. Me.forkPIDs[j] = "0" \/ (run.pc \in Starting /\ j < run.i) \/ (run.pc = "forked" /\ j = run.i)
      BY <1>1 DEF TypeInv, Fresh
    <3> QED
      BY <3>1, <3>2 DEF Starting
  <2> QED
    BY <1>2, <1>3, <2>1, <2>2, SameSetup DEF Fresh, Me
<1>6. Turn(q) /\ obj'[q].commandsLeft = Cardinality(Started(q)')
  <2>1. Counting(q)
    BY <1>1 DEF Counting, Mine, Preparing
  <2>2. Started(q)' = Started(q)
    BY <1>1, <1>2, SameSetup DEF Started, Me
  <2> QED
    BY <1>1, <1>2, <1>3, <2>1, <2>2 DEF Turn, TypeInv, Counted, Me
<1>7. run'.pc # "kill"
  BY <1>3 DEF Preparing
<1> QED
  BY <1>2, <1>3, <1>4, <1>5, <1>6, <1>7, ObjectStep, KernelStays, DescriptorsTyped

LEMMA GoKeepsIndex ==
    ASSUME TypeInv, NEW step
    PROVE  /\ Go(step) => run' = [run EXCEPT !.pc = step, !.i = run.i]
           /\ \A i : GoTo(step, i) => run' = [run EXCEPT !.pc = step, !.i = i]
BY Here DEF Go, GoTo, Runs

LEMMA MeKept ==
    ASSUME TypeInv
    PROVE  /\ Me.signalPipe => "SIGNAL" \in Me.readEnds
           /\ Me.selectError => Me.readEnds = {}
           /\ run.i \in Nat /\ Me \in Object(run.p) /\ run.p \in Objects
BY Here DEF Me, TypedObjects, TypeInv, SignalHeld, Broken

LEMMA AddTyped ==
    ASSUME TypeInv, AddSignalPipe \/ AddAppend \/ AddInstall
    PROVE  TypeInv'
<1>0. fds \subseteq Kept /\ Kept \subseteq Kept
  BY Here DEF TypedRest, Kept
<1>1. CASE AddSignalPipe
  <2>0. run.pc = "add" /\ UNCHANGED <<setup, child, pipe, over, reg, victims>>
    BY <1>1 DEF AddSignalPipe, At
  <2>1. CASE ExecuteFails(fds)
    BY <1>0, <2>0, <2>1, ExecuteFailsTyped
  <2>2. CASE obj' = [obj EXCEPT ![run.p].readEnds = {"SIGNAL"}, ![run.p].signalPipe = TRUE]
             /\ Go("append") /\ UNCHANGED fds
    <3> DEFINE m == [Me EXCEPT !.readEnds = {"SIGNAL"}, !.signalPipe = TRUE]
    <3>1. /\ m \in Object(run.p) /\ m.forkPIDs = Me.forkPIDs /\ m.commandsLeft = Me.commandsLeft
          /\ m.killed = Me.killed /\ m.expired = Me.expired /\ m.selectError = Me.selectError
          /\ "SIGNAL" \in m.readEnds
      BY Here DEF Object, Pipes
    <3>2. obj' = [obj EXCEPT ![run.p] = m]
      BY <2>2 DEF Me
    <3> HIDE DEF m
    <3>3. run' = [run EXCEPT !.pc = "append", !.i = run.i]
      BY <2>2, GoKeepsIndex
    <3> QED
      BY <1>0, <2>0, <2>2, <3>1, <3>2, <3>3, MeKept, TableStays, GoesOnTyped DEF Preparing, Starting
  <2> QED
    BY <1>1, <2>1, <2>2 DEF AddSignalPipe
<1>2. CASE AddAppend \/ AddInstall
  <2>0. /\ run.pc \in {"add", "append", "install"}
        /\ UNCHANGED <<setup, obj, child, pipe, over, fds, victims>>
    BY <1>2 DEF AddAppend, AddInstall, At
  <2>1. reg' \in Tables'
    <3>1. Tables' = Tables
      BY <2>0, SameSetup DEF Tables
    <3>2. reg \in Tables /\ run.p \in Objects
      BY Here
    <3>3. CASE AddAppend
      <4>1. reg' = [reg EXCEPT !.cells = Append(@, run.p)]
        BY <3>3 DEF AddAppend
      <4>2. Append(reg.cells, run.p) \in Seq(Objects)
        BY <3>2 DEF Tables
      <4> QED
        BY <3>1, <3>2, <4>1, <4>2 DEF Tables
    <3>4. CASE AddInstall
      <4>1. reg' = [reg EXCEPT !.handler = reg.handler \/ Len(reg.cells) = 1]
        BY <3>4 DEF AddInstall
      <4> QED
        BY <3>1, <3>2, <4>1 DEF Tables
    <3> QED
      BY <1>2, <3>3, <3>4
  <2>2. PICK step \in {"install", "stderr"} : run' = [run EXCEPT !.pc = step, !.i = run.i]
    BY <1>2, GoKeepsIndex DEF AddAppend, AddInstall
  <2> QED
    BY <1>0, <2>0, <2>1, <2>2, MeKept, GoesOnTyped DEF Preparing, Starting
<1> QED
  BY <1>1, <1>2

LEMMA SetupTyped ==
    ASSUME TypeInv, SetupStderr
    PROVE  TypeInv'
<1>0. run.pc = "stderr" /\ UNCHANGED <<setup, child, pipe, over, reg, victims>>
  BY DEF SetupStderr, At
<1>1. CASE ExecuteFails(fds)
  BY <1>0, <1>1, Here, ExecuteFailsTyped DEF TypedRest, Kept
<1>2. CASE /\ obj' = [obj EXCEPT ![run.p].readEnds = @ \cup {"STDERR"}]
           /\ fds' = fds \cup ({"STDERR"} \cap Piped[run.p])
           /\ GoTo("create", 1)
  <2> DEFINE m == [Me EXCEPT !.readEnds = @ \cup {"STDERR"}]
  <2>1. /\ m \in Object(run.p) /\ m.forkPIDs = Me.forkPIDs /\ m.commandsLeft = Me.commandsLeft
        /\ m.killed = Me.killed /\ m.expired = Me.expired /\ m.selectError = Me.selectError
        /\ m.signalPipe => "SIGNAL" \in m.readEnds
    BY MeKept DEF Object, Pipes, Outputs
  <2>2. obj' = [obj EXCEPT ![run.p] = m]
    BY <1>2 DEF Me
  <2> HIDE DEF m
  <2>3. run' = [run EXCEPT !.pc = "create", !.i = 1]
    BY <1>2, GoKeepsIndex
  <2>4. 1 \in Members(run.p)
    BY <1>0, Here DEF TypeInv, Place, Preparing
  <2>5. fds' \subseteq Kept
    BY <1>2, Here DEF TypedRest, Kept
  <2> QED
    BY <1>0, <2>1, <2>2, <2>3, <2>4, <2>5, TableStays, GoesOnTyped DEF Preparing, Starting
<1> QED
  BY <1>1, <1>2 DEF SetupStderr

LEMMA CreateTyped ==
    ASSUME TypeInv, CreateStdout
    PROVE  TypeInv'
<1>0. run.pc = "create" /\ UNCHANGED <<setup, child, pipe, over, reg, victims>>
  BY DEF CreateStdout, At
<1>1. CASE ExecuteFails(IF run.i > 1 THEN {} ELSE {"0"})
  BY <1>0, <1>1, ExecuteFailsTyped DEF Kept
<1>2. CASE /\ fds' = fds \cup {"readEnd"}
                     \cup (IF run.i > 1 THEN {"StdIn"} ELSE {})
                     \cup (IF run.i < Commands[run.p] \/ "STDOUT" \in Piped[run.p]
                           THEN {"StdOut"} ELSE {})
           /\ Go("fork")
           /\ UNCHANGED obj
  <2>1. fds' \subseteq Kept
    BY <1>2, Here DEF TypedRest, Kept
  <2>2. run' = [run EXCEPT !.pc = "fork", !.i = run.i]
    BY <1>2, GoKeepsIndex
  <2>3. run.i \in Members(run.p)
    BY <1>0 DEF TypeInv, Place, Starting
  <2> QED
    BY <1>0, <1>2, <2>1, <2>2, <2>3, MeKept, TableStays, GoesOnTyped DEF Preparing, Starting
<1> QED
  BY <1>1, <1>2 DEF CreateStdout

(* One more command has been started.                                      *)
LEMMA ForkSucceedsTyped ==
    ASSUME TypeInv, At("fork"), Go("forked"),
           child' = [child EXCEPT ![run.p][run.i].life = "forked"],
           obj' = [obj EXCEPT ![run.p].forkPIDs[run.i] = "child",
                              ![run.p].commandsLeft = @ + 1],
           UNCHANGED <<setup, pipe, over, reg, fds, victims>>
    PROVE  TypeInv'
<1>1. PICK q \in Objects : q = run.p
  BY Here
<1>2. PICK i \in Members(q) : i = run.i
  BY <1>1 DEF TypeInv, Place, Starting, At
<1>3. /\ obj[q] \in Object(q) /\ Healthy(q) /\ obj[q].forkPIDs[i] = "0"
      /\ \A j \in Members(q) : obj[q].forkPIDs[j] = "0" \/ j < i
      /\ obj[q].commandsLeft = Cardinality(Started(q))
      /\ obj[q].signalPipe => "SIGNAL" \in obj[q].readEnds
  <2>1. Counting(q)
    BY <1>1 DEF Counting, Mine, Preparing, At
  <2>2. i \in Nat /\ ~(i < i)
    BY <1>2, Here
  <2> QED
    BY <1>1, <1>2, <2>1, <2>2, Here DEF TypeInv, Fresh, Counted, SignalHeld, Preparing, Starting, At, Me
<1> DEFINE pids == [obj[q].forkPIDs EXCEPT ![i] = "child"]
           m == [obj[q] EXCEPT !.forkPIDs = pids, !.commandsLeft = @ + 1]
<1>4. /\ pids \in [Members(q) -> {"0", "child", "-1"}] /\ pids[i] = "child"
      /\ \A j \in Members(q) : j # i => pids[j] = obj[q].forkPIDs[j]
  BY <1>3 DEF Object
<1>5. {j \in Members(q) : pids[j] # "0"} = Started(q) \cup {i} /\ i \notin Started(q)
  BY <1>2, <1>3, <1>4 DEF Started
<1>6. /\ Cardinality(Started(q) \cup {i}) = obj[q].commandsLeft + 1
      /\ obj[q].commandsLeft + 1 \in 0..Commands[q]
  <2>1. IsFiniteSet(Started(q)) /\ Cardinality(Started(q)) \in Nat /\ IsFiniteSet(Members(q))
        /\ Cardinality(Members(q)) = Commands[q] /\ Commands[q] \in Nat
    BY StartedFinite, SetupFacts, Here
  <2>2. Cardinality(Started(q) \cup {i}) = Cardinality(Started(q)) + 1
    BY <1>5, <2>1, FS_AddElement
  <2>3. Started(q) \cup {i} \subseteq Members(q)
    BY <1>5
  <2>4. Cardinality(Started(q) \cup {i}) <= Cardinality(Members(q))
    BY <2>1, <2>3, FS_Subset
  <2> QED
    BY <1>3, <2>1, <2>2, <2>4
<1>7. obj' = [obj EXCEPT ![q] = m]
  BY <1>1, <1>2
<1>8. /\ m \in Object(q) /\ m.forkPIDs = pids /\ m.commandsLeft = obj[q].commandsLeft + 1
      /\ m.killed = obj[q].killed /\ m.expired = obj[q].expired /\ m.selectError = obj[q].selectError
      /\ m.signalPipe = obj[q].signalPipe /\ m.readEnds = obj[q].readEnds
  <2> HIDE DEF pids
  <2> QED
    BY <1>3, <1>4, <1>6 DEF Object
<1> HIDE DEF m, pids
<1>9. ObjectKept(q) /\ obj'[q] = m
  BY <1>3, <1>7, <1>8, ObjectChange DEF Healthy
<1>10. run' \in Runs /\ run'.pc = "forked" /\ run'.p = q /\ run'.i = i
  BY <1>1, <1>2, GoesOn DEF Steps, Preparing
<1>11. Place'
  BY <1>1, <1>2, <1>10, SameSetup DEF TypeInv, Place, Taking, Preparing, At
<1>12. Fresh'
  <2>1. \A j \in Members(q) : pids[j] = "0" \/ j < i \/ j = i
    BY <1>3, <1>4
  <2>2. Healthy(q)'
    BY <1>3, <1>8, <1>9 DEF Healthy
  <2> QED
    BY <1>8, <1>9, <1>10, <2>1, <2>2, SameSetup DEF Fresh, Me, Starting
<1>13. obj'[q].commandsLeft = Cardinality(Started(q)')
  <2>1. Started(q)' = Started(q) \cup {i}
    BY <1>5, <1>8, <1>9, SameSetup DEF Started
  <2> QED
    BY <1>6, <1>8, <1>9, <2>1
<1>14. TypedKernel'
  <2> DEFINE c == [child[q][i] EXCEPT !.life = "forked"]
  <2>1. c \in ChildStates
    <3>1. child[q] \in [Members(q) -> ChildStates]
      BY Here DEF TypedKernel, Children, ChildStates
    <3>2. child[q][i] \in ChildStates
      BY <3>1
    <3> QED
      BY <3>2 DEF ChildStates, Living
  <2>2. child' = [child EXCEPT ![q][i] = c]
    BY <1>1, <1>2
  <2> HIDE DEF c
  <2>3. DOMAIN child' = Objects /\ \A p \in Objects : child'[p] \in Children(p)'
    BY <2>1, <2>2, ChildChange
  <2>4. Objects' = Objects /\ pipe' = pipe /\ PipeStates' = PipeStates
    BY SameSetup DEF PipeStates
  <2> QED
    BY <2>3, <2>4, Here DEF TypedKernel
<1>15. Turn(q)
  BY <1>1, <1>10 DEF Turn
<1> QED
  BY <1>9, <1>10, <1>11, <1>12, <1>13, <1>14, <1>15, ObjectStep, RestStays, TableStays

LEMMA ForkTyped ==
    ASSUME TypeInv, Fork
    PROVE  TypeInv'
<1>0. run.pc = "fork" /\ UNCHANGED <<setup, pipe, over, reg, victims>>
  BY DEF Fork, At
<1>1. CASE /\ child' = [child EXCEPT ![run.p][run.i].life = "forked"]
           /\ obj' = [obj EXCEPT ![run.p].forkPIDs[run.i] = "child",
                                 ![run.p].commandsLeft = @ + 1]
           /\ Go("forked")
           /\ UNCHANGED fds
  BY <1>0, <1>1, ForkSucceedsTyped DEF At
<1>2. CASE /\ obj' = [obj EXCEPT ![run.p].state = "Error", ![run.p].forkPIDs[run.i] = "-1"]
           /\ run' = [run EXCEPT !.pc = "kill", !.i = 1, !.cause = "failed"]
           /\ fds' = {"0"}
           /\ UNCHANGED child
  <2> DEFINE pids == [Me.forkPIDs EXCEPT ![run.i] = "-1"]
             m == [Me EXCEPT !.state = "Error", !.forkPIDs = pids]
  <2>1. pids \in [Members(run.p) -> {"0", "child", "-1"}]
    BY Here DEF Object
  <2>2. obj' = [obj EXCEPT ![run.p] = m]
    BY <1>2 DEF Me
  <2>3. m \in Object(run.p) /\ m.state = "Error" /\ m.selectError = Me.selectError
        /\ m.readEnds = Me.readEnds /\ m.signalPipe = Me.signalPipe
    <3> HIDE DEF pids
    <3> QED
      BY <2>1, Here DEF Object, States
  <2> HIDE DEF m, pids
  <2> QED
    BY <1>0, <1>2, <2>2, <2>3, MeKept, FailsTyped DEF Kept
<1> QED
  BY <1>1, <1>2 DEF Fork

(* The error pipe has told.                                                *)
LEMMA ForkedTyped ==
    ASSUME TypeInv, Forked
    PROVE  TypeInv'
<1>0. run.pc = "forked" /\ UNCHANGED <<setup, child, pipe, over, reg, victims>>
  BY DEF Forked, At
<1>1. CASE ExecuteFails({"0"})
  BY <1>0, <1>1, ExecuteFailsTyped DEF Kept
<1>2. CASE /\ run.i < Commands[run.p] /\ fds' = fds \ {"StdIn", "StdOut"}
           /\ GoTo("create", run.i + 1)
           /\ UNCHANGED obj
  <2>1. fds' \subseteq Kept
    BY <1>2, Here DEF TypedRest, Kept
  <2>2. run' = [run EXCEPT !.pc = "create", !.i = run.i + 1]
    BY <1>2, GoKeepsIndex
  <2>3. run.i + 1 \in Members(run.p) /\ run.i + 1 > run.i /\ run.i + 1 \in Nat
    BY <1>0, <1>2, Here DEF TypeInv, Place, Starting
  <2> QED
    BY <1>0, <1>2, <2>1, <2>2, <2>3, MeKept, TableStays, GoesOnTyped DEF Preparing, Starting
<1>3. CASE /\ fds' = {"0"}
           /\ obj' = [obj EXCEPT ![run.p].readEnds = @ \cup {"STDOUT"},
                                 ![run.p].state = "Executing"]
           /\ run' = Idle
  <2>1. PICK q \in Objects : q = run.p
    BY Here
  <2> DEFINE m == [obj[q] EXCEPT !.readEnds = @ \cup {"STDOUT"}, !.state = "Executing"]
  <2>2. /\ Healthy(q) /\ obj[q] \in Object(q) /\ obj[q].commandsLeft = Cardinality(Started(q))
        /\ obj[q].signalPipe => "SIGNAL" \in obj[q].readEnds
    <3>1. Counting(q)
      BY <1>0, <2>1 DEF Counting, Mine, Preparing
    <3> QED
      BY <1>0, <2>1, <3>1, Here DEF TypeInv, Fresh, Counted, SignalHeld, Preparing
  <2>3. /\ m \in Object(q) /\ m.commandsLeft = obj[q].commandsLeft /\ m.forkPIDs = obj[q].forkPIDs
        /\ m.selectError = obj[q].selectError /\ (m.signalPipe => "SIGNAL" \in m.readEnds)
    BY <2>2 DEF Object, States, Pipes, Outputs
  <2>4. obj' = [obj EXCEPT ![q] = m]
    BY <1>3, <2>1
  <2> HIDE DEF m
  <2>5. ObjectKept(q) /\ obj'[q] = m
    BY <2>2, <2>3, <2>4, ObjectChange DEF Healthy
  <2>6. obj'[q].commandsLeft = Cardinality(Started(q)')
    BY <1>0, <2>2, <2>3, <2>5, StartedSame
  <2>7. run'.pc = "user" /\ Place' /\ Fresh'
    BY <1>0, <1>3, Idles
  <2>8. Turn(q)
    BY <2>1, <2>7 DEF Turn
  <2> QED
    BY <1>0, <1>3, <2>5, <2>6, <2>7, <2>8, ObjectStep, KernelStays, DescriptorsTyped, TableStays DEF Kept
<1> QED
  BY <1>1, <1>2, <1>3 DEF Forked

-----------------------------------------------------------------------------
(* kwsysProcess_WaitForExit and kwsysProcess_WaitForData                   *)
LEMMA WaitingStep ==
    ASSUME TypeInv, run.pc \in {"handle", "reap"}, UNCHANGED <<setup, over, reg, fds, victims>>,
           TypedKernel', NEW q \in Objects, q = run.p, ObjectKept(q),
           obj'[q].commandsLeft = Cardinality(Started(q)'),
           run' \in Runs, run'.p = q \/ run'.pc = "user",
           run'.pc \in {"handle", "reap", "outcome", "user"},
           run'.pc = "reap" => run'.i \in 1..Commands[q] + 1
    PROVE  TypeInv'
<1>1. Place' /\ Fresh' /\ run'.pc # "kill"
  BY SameSetup DEF Place, Fresh, Starting, Taking, Preparing
<1>2. Turn(q)
  BY DEF Turn
<1> QED
  BY <1>1, <1>2, ObjectStep, RestStays, TableStays

(* Nothing is reaped.                                                      *)
LEMMA ReadStep ==
    ASSUME TypeInv, run.pc \in {"handle", "reap"}, UNCHANGED <<setup, child, over, reg, fds, victims>>,
           pipe' = pipe \/ TypedKernel',
           NEW m \in Object(run.p), obj' = [obj EXCEPT ![run.p] = m] \/ (obj' = obj /\ m = Me),
           m.forkPIDs = Me.forkPIDs, m.commandsLeft = Me.commandsLeft,
           m.selectError => m.readEnds = {}, m.signalPipe => "SIGNAL" \in m.readEnds,
           run' \in Runs, run'.p = run.p \/ run'.pc = "user",
           run'.pc \in {"handle", "reap", "outcome", "user"},
           run'.pc = "reap" => run'.i \in 1..Commands[run.p] + 1
    PROVE  TypeInv'
<1>1. PICK q \in Objects : q = run.p
  BY Here
<1>2. ObjectKept(q) /\ obj'[q] = m
  <2>1. CASE obj' = [obj EXCEPT ![run.p] = m]
    BY <1>1, <2>1, ObjectChange
  <2>2. CASE obj' = obj /\ m = Me
    BY <1>1, <2>2, Here DEF ObjectKept, TypedObjects, TypeInv, Broken, SignalHeld, Me
  <2> QED
    BY <2>1, <2>2
<1>3. obj'[q].commandsLeft = Cardinality(Started(q)')
  <2>1. Counting(q)
    BY <1>1 DEF Counting, Mine
  <2>2. Started(q)' = Started(q)
    BY <1>1, <1>2, SameSetup DEF Started, Me
  <2> QED
    BY <1>1, <1>2, <2>1, <2>2 DEF TypeInv, Counted, Me
<1> QED
  BY <1>1, <1>2, <1>3, WaitingStep, KernelStays

(* An object whose pipe is read, or closed.                                *)
LEMMA PipeSteps ==
    ASSUME TypeInv, NEW k \in Pipes
    PROVE  /\ \A m \in {Keep(k), Close(k)} :
                /\ m \in Object(run.p) /\ m.forkPIDs = Me.forkPIDs
                /\ m.commandsLeft = Me.commandsLeft /\ m.selectError = Me.selectError
                /\ m.signalPipe = Me.signalPipe
           /\ Keep(k).readEnds = Me.readEnds /\ Close(k).readEnds = Me.readEnds \ {k}
<1>1. Me \in Object(run.p) /\ Me.readEnds \ {k} \in SUBSET Pipes /\ Me.pipeSet \ {k} \in SUBSET Pipes
  BY Here DEF Object
<1>2. /\ Keep(k) \in Object(run.p) /\ Keep(k).forkPIDs = Me.forkPIDs
      /\ Keep(k).commandsLeft = Me.commandsLeft /\ Keep(k).selectError = Me.selectError
      /\ Keep(k).signalPipe = Me.signalPipe /\ Keep(k).readEnds = Me.readEnds
  BY <1>1 DEF Keep, Object
<1>3. /\ Close(k) \in Object(run.p) /\ Close(k).forkPIDs = Me.forkPIDs
      /\ Close(k).commandsLeft = Me.commandsLeft /\ Close(k).selectError = Me.selectError
      /\ Close(k).signalPipe = Me.signalPipe /\ Close(k).readEnds = Me.readEnds \ {k}
  BY <1>1 DEF Close, Object
<1> QED
  BY <1>2, <1>3

LEMMA ReadOutputTyped ==
    ASSUME TypeInv, ReadOutput
    PROVE  TypeInv'
<1>0. run.pc = "handle" /\ UNCHANGED <<setup, child, over, reg, fds, victims>>
  BY DEF ReadOutput, At
<1>1. PICK k \in Reported \cap Outputs :
          IF k \in pipe[run.p].data
          THEN /\ pipe' = [pipe EXCEPT ![run.p].data = @ \ {k}]
               /\ obj' = [obj EXCEPT ![run.p] = Keep(k)]
               /\ run' = IF run.call = "WaitForData" THEN Idle ELSE run
          ELSE /\ obj' = [obj EXCEPT ![run.p] = IF HasWriter(run.p, k) THEN Keep(k) ELSE Close(k)]
               /\ UNCHANGED <<pipe, run>>
  BY DEF ReadOutput
<1>2. pipe' = pipe \/ TypedKernel'
  <2>1. CASE pipe' = [pipe EXCEPT ![run.p].data = @ \ {k}]
    <3> DEFINE e == [pipe[run.p] EXCEPT !.data = @ \ {k}]
    <3>1. e \in PipeStates
      BY Here DEF TypedKernel, PipeStates
    <3>2. pipe' = [pipe EXCEPT ![run.p] = e]
      BY <2>1
    <3> HIDE DEF e
    <3>3. DOMAIN pipe' = Objects /\ \A q \in Objects : pipe'[q] \in PipeStates
      BY <3>1, <3>2, Here DEF TypedKernel
    <3>4. Objects' = Objects /\ child' = child /\ \A q \in Objects : Children(q)' = Children(q)
      BY <1>0, SameSetup DEF Children
    <3>5. PipeStates' = PipeStates
      BY DEF PipeStates
    <3> QED
      BY <3>3, <3>4, <3>5, Here DEF TypedKernel
  <2> QED
    BY <1>1, <2>1
<1>3. /\ run' \in Runs /\ run'.pc \in {"handle", "user"}
      /\ run'.p = run.p \/ run'.pc = "user"
  BY <1>0, <1>1, Here, Idles
<1>4. PICK m \in {Keep(k), Close(k)} : obj' = [obj EXCEPT ![run.p] = m]
  BY <1>1
<1>5. k \in Pipes /\ k # "SIGNAL"
  BY DEF Pipes, Outputs
<1>6. /\ m \in Object(run.p) /\ m.forkPIDs = Me.forkPIDs /\ m.commandsLeft = Me.commandsLeft
      /\ m.selectError => m.readEnds = {}
      /\ m.signalPipe => "SIGNAL" \in m.readEnds
  BY <1>4, <1>5, PipeSteps, MeKept
<1> QED
  BY <1>0, <1>2, <1>3, <1>4, <1>6, ReadStep

LEMMA ReadSignalTyped ==
    ASSUME TypeInv, ReadSignal
    PROVE  TypeInv'
<1>0. run.pc = "handle" /\ UNCHANGED <<setup, child, over, reg, fds, victims>>
  BY DEF ReadSignal, At
<1>1. "SIGNAL" \in Pipes
  BY DEF Pipes
<1>2. CASE /\ pipe' = [pipe EXCEPT ![run.p].byte = FALSE]
           /\ obj' = [obj EXCEPT ![run.p] = Keep("SIGNAL")]
           /\ GoTo("reap", 1)
  <2>1. TypedKernel'
    <3> DEFINE e == [pipe[run.p] EXCEPT !.byte = FALSE]
    <3>1. e \in PipeStates
      BY Here DEF TypedKernel, PipeStates
    <3>2. pipe' = [pipe EXCEPT ![run.p] = e]
      BY <1>2
    <3> HIDE DEF e
    <3>3. DOMAIN pipe' = Objects /\ \A q \in Objects : pipe'[q] \in PipeStates
      BY <3>1, <3>2, Here DEF TypedKernel
    <3>4. Objects' = Objects /\ child' = child /\ \A q \in Objects : Children(q)' = Children(q)
      BY <1>0, SameSetup DEF Children
    <3>5. PipeStates' = PipeStates
      BY DEF PipeStates
    <3> QED
      BY <3>3, <3>4, <3>5, Here DEF TypedKernel
  <2>2. run' = [run EXCEPT !.pc = "reap", !.i = 1]
    BY <1>2, GoKeepsIndex
  <2>3. /\ run' \in Runs /\ run'.pc = "reap" /\ run'.p = run.p /\ run'.i = 1
        /\ 1 \in 1..Commands[run.p] + 1
    <3>1. "reap" \in Steps /\ 1 \in Nat
      BY DEF Steps, Waiting
    <3>2. 1 \in 1..Commands[run.p] + 1
      BY Here
    <3> QED
      BY <2>2, <3>1, <3>2, Goes
  <2>4. PICK m \in {Keep("SIGNAL")} : TRUE
    OBVIOUS
  <2>5. /\ m \in Object(run.p) /\ m.forkPIDs = Me.forkPIDs /\ m.commandsLeft = Me.commandsLeft
        /\ m.selectError => m.readEnds = {}
        /\ m.signalPipe => "SIGNAL" \in m.readEnds
    BY <1>1, <2>4, PipeSteps, MeKept
  <2> QED
    BY <1>0, <1>2, <2>1, <2>3, <2>5, ReadStep
<1>3. CASE /\ obj' = [obj EXCEPT ![run.p] =
                          IF Me.signalPipe THEN Keep("SIGNAL") ELSE Close("SIGNAL")]
           /\ UNCHANGED <<pipe, run>>
  <2>1. PICK m \in {Keep("SIGNAL"), Close("SIGNAL")} :
            /\ m = IF Me.signalPipe THEN Keep("SIGNAL") ELSE Close("SIGNAL")
            /\ obj' = [obj EXCEPT ![run.p] = m]
    BY <1>3
  <2>2. /\ m \in Object(run.p) /\ m.forkPIDs = Me.forkPIDs /\ m.commandsLeft = Me.commandsLeft
        /\ m.selectError => m.readEnds = {}
        /\ m.signalPipe => "SIGNAL" \in m.readEnds
    BY <1>1, <2>1, PipeSteps, MeKept
  <2> QED
    BY <1>0, <1>3, <2>1, <2>2, Here, ReadStep
<1> QED
  BY <1>2, <1>3 DEF ReadSignal

(* A child has been reaped.                                                *)
LEMMA ReapedTyped ==
    ASSUME TypeInv, run.pc = "reap", run.i <= Commands[run.p], GoTo("reap", run.i + 1),
           Me.forkPIDs[run.i] # "0",
           child' = [child EXCEPT ![run.p][run.i].life = "gone"],
           obj' = [obj EXCEPT ![run.p] = Reaped(child[run.p][run.i].status)],
           UNCHANGED <<setup, pipe, over, reg, fds, victims>>
    PROVE  TypeInv'
<1>1. PICK q \in Objects : q = run.p
  BY Here
<1>2. PICK i \in Members(q) : i = run.i
  <2>1. run.i \in 1..Commands[run.p] + 1 /\ Commands[run.p] \in Nat
    BY Here DEF TypeInv, Place
  <2> QED
    BY <1>1, <2>1, Here
<1>3. /\ obj[q] \in Object(q) /\ obj[q].commandsLeft = Cardinality(Started(q))
      /\ obj[q].selectError => obj[q].readEnds = {}
      /\ obj[q].signalPipe => "SIGNAL" \in obj[q].readEnds
      /\ child[q] \in Children(q) /\ child[q][i] \in ChildStates
  <2>1. Counting(q)
    BY <1>1 DEF Counting, Mine
  <2> QED
    BY <2>1, Here DEF TypeInv, Counted, Broken, SignalHeld, TypedKernel, Children, ChildStates
<1>4. PICK st \in Statuses : st = child[q][i].status
  BY <1>3 DEF ChildStates
<1> DEFINE pids == [obj[q].forkPIDs EXCEPT ![i] = "0"]
           codes == [obj[q].codes EXCEPT ![i] = st]
           signalled == obj[q].signalPipe /\ obj[q].commandsLeft # 1
           m == [obj[q] EXCEPT !.forkPIDs = pids, !.codes = codes,
                               !.commandsLeft = @ - 1, !.signalPipe = signalled]
<1>5. /\ pids \in [Members(q) -> {"0", "child", "-1"}] /\ codes \in [Members(q) -> Statuses]
      /\ signalled \in BOOLEAN /\ (signalled => obj[q].signalPipe) /\ pids[i] = "0"
      /\ \A j \in Members(q) : j # i => pids[j] = obj[q].forkPIDs[j]
  BY <1>3 DEF Object
<1>6. {j \in Members(q) : pids[j] # "0"} = Started(q) \ {i} /\ i \in Started(q)
  BY <1>1, <1>2, <1>5 DEF Started, Me
<1>7. /\ Cardinality(Started(q) \ {i}) = obj[q].commandsLeft - 1
      /\ obj[q].commandsLeft - 1 \in 0..Commands[q]
  <2>1. /\ IsFiniteSet(Started(q)) /\ Commands[q] \in Nat
        /\ Cardinality(Started(q)) \in Nat /\ Cardinality(Started(q)) <= Commands[q]
    BY StartedFinite, SetupFacts, Here
  <2>2. Cardinality(Started(q) \ {i}) = Cardinality(Started(q)) - 1
    BY <1>6, <2>1, FS_RemoveElement
  <2>3. Cardinality(Started(q) \ {i}) \in Nat
    BY <2>1, FS_RemoveElement, FS_CardinalityType
  <2> QED
    BY <1>3, <2>1, <2>2, <2>3
<1>8. obj' = [obj EXCEPT ![q] = m]
  BY <1>1, <1>2, <1>4 DEF Reaped, Me
<1>9. /\ m \in Object(q) /\ m.forkPIDs = pids /\ m.commandsLeft = obj[q].commandsLeft - 1
      /\ m.selectError = obj[q].selectError /\ m.readEnds = obj[q].readEnds
      /\ m.signalPipe => obj[q].signalPipe
  <2> HIDE DEF pids, codes, signalled
  <2> QED
    BY <1>3, <1>5, <1>7 DEF Object
<1> HIDE DEF m, pids
<1>10. ObjectKept(q) /\ obj'[q] = m
  <2>1. m.selectError => m.readEnds = {}
    BY <1>3, <1>9
  <2>2. m.signalPipe => "SIGNAL" \in m.readEnds
    BY <1>3, <1>9
  <2>3. m \in Object(q)
    BY <1>9
  <2> QED
    BY <1>8, <2>1, <2>2, <2>3, ObjectChange
<1>11. obj'[q].commandsLeft = Cardinality(Started(q)')
  <2>1. Started(q)' = Started(q) \ {i}
    BY <1>6, <1>9, <1>10, SameSetup DEF Started
  <2> QED
    BY <1>7, <1>9, <1>10, <2>1
<1>12. TypedKernel'
  <2> DEFINE c == [child[q][i] EXCEPT !.life = "gone"]
  <2>1. c \in ChildStates
    BY <1>3 DEF ChildStates
  <2>2. child' = [child EXCEPT ![q][i] = c]
    BY <1>1, <1>2
  <2> HIDE DEF c
  <2>3. DOMAIN child' = Objects /\ \A p \in Objects : child'[p] \in Children(p)'
    BY <2>1, <2>2, ChildChange
  <2>4. Objects' = Objects /\ pipe' = pipe /\ PipeStates' = PipeStates
    BY SameSetup DEF PipeStates
  <2> QED
    BY <2>3, <2>4, Here DEF TypedKernel
<1>13. /\ run' \in Runs /\ run'.pc = "reap" /\ run'.p = q /\ run'.i = run.i + 1
       /\ run.i + 1 \in 1..Commands[q] + 1
  <2>1. "reap" \in Steps /\ run.i + 1 \in Nat
    BY Here DEF Steps, Waiting
  <2>2. run.i + 1 \in 1..Commands[q] + 1
    BY <1>1, Here
  <2> QED
    BY <1>1, <2>1, <2>2, GoKeepsIndex, Goes
<1> QED
  BY <1>1, <1>10, <1>11, <1>12, <1>13, WaitingStep

LEMMA ReapTyped ==
    ASSUME TypeInv, Reap
    PROVE  TypeInv'
<1>0. run.pc = "reap" /\ UNCHANGED <<setup, pipe, over, reg, fds, victims>>
  BY DEF Reap, At
<1>1. run.i \in 1..Commands[run.p] + 1
  BY <1>0 DEF TypeInv, Place
<1>2. CASE run.i > Commands[run.p]
  <2>1. Go("handle") /\ UNCHANGED <<obj, child>>
    BY <1>2 DEF Reap
  <2>2. run' \in Runs /\ run'.pc = "handle" /\ run'.p = run.p
    BY <2>1, GoesOn DEF Steps, Waiting
  <2> QED
    BY <1>0, <2>1, <2>2, MeKept, ReadStep
<1>3. CASE ~(run.i > Commands[run.p])
  <2>1. GoTo("reap", run.i + 1) /\ IF Me.forkPIDs[run.i] # "0" THEN WaitPid ELSE UNCHANGED <<obj, child>>
    BY <1>3 DEF Reap
  <2>2. /\ run' \in Runs /\ run'.pc = "reap" /\ run'.p = run.p /\ run'.i = run.i + 1
        /\ run.i + 1 \in 1..Commands[run.p] + 1 /\ run.i <= Commands[run.p]
    <3>1. "reap" \in Steps /\ run.i + 1 \in Nat
      BY Here DEF Steps, Waiting
    <3>2. run.i + 1 \in 1..Commands[run.p] + 1 /\ run.i <= Commands[run.p]
      BY <1>3, Here
    <3>3. GoTo("reap", run.i + 1)
      BY <2>1
    <3>4. run' = [run EXCEPT !.pc = "reap", !.i = run.i + 1]
      BY <3>3, GoKeepsIndex
    <3>5. /\ run' \in Runs /\ run'.pc = "reap"
          /\ run'.p = run.p /\ run'.i = run.i + 1
      BY <3>1, <3>4, Goes
    <3> QED
      BY <3>2, <3>5
  <2>3. CASE UNCHANGED <<obj, child>>
    BY <1>0, <2>2, <2>3, MeKept, ReadStep
  <2>4. CASE obj' = [obj EXCEPT ![run.p].state = "Error"] /\ UNCHANGED child
    <3> DEFINE e == [Me EXCEPT !.state = "Error"]
    <3>1. /\ e \in Object(run.p) /\ e.forkPIDs = Me.forkPIDs /\ e.commandsLeft = Me.commandsLeft
          /\ e.selectError = Me.selectError /\ e.readEnds = Me.readEnds /\ e.signalPipe = Me.signalPipe
      BY Here DEF Object, States
    <3>2. obj' = [obj EXCEPT ![run.p] = e]
      BY <2>4 DEF Me
    <3> HIDE DEF e
    <3>3. PICK m \in Object(run.p) : m = e
      BY <3>1
    <3> QED
      BY <1>0, <2>2, <2>4, <3>1, <3>2, <3>3, MeKept, ReadStep
  <2>5. CASE /\ Me.forkPIDs[run.i] # "0"
             /\ child' = [child EXCEPT ![run.p][run.i].life = "gone"]
             /\ obj' = [obj EXCEPT ![run.p] = Reaped(child[run.p][run.i].status)]
    BY <1>0, <2>1, <2>2, <2>5, ReapedTyped
  <2> QED
    BY <2>1, <2>3, <2>4, <2>5 DEF WaitPid
<1> QED
  BY <1>2, <1>3

LEMMA EndOfDataRuns ==
    ASSUME TypeInv, setup' = setup, EndOfData
    PROVE  /\ run' \in Runs /\ run'.pc \in {"user", "outcome"}
           /\ run'.p = run.p \/ run'.pc = "user"
<1>1. "outcome" \in Steps
  BY DEF Steps, Waiting
<1> QED
  BY <1>1, GoesOn, Idles DEF EndOfData

LEMMA SelectTyped ==
    ASSUME TypeInv, Select \/ SelectFails
    PROVE  TypeInv'
<1>0. run.pc = "handle" /\ UNCHANGED <<setup, child, pipe, over, reg, fds, victims>>
  BY DEF Select, SelectFails, At
<1>1. ASSUME NEW cause \in {"expired", "select"}, KillBegins(run.p, cause) PROVE TypeInv'
  <2>1. PICK q \in Objects : q = run.p
    BY Here
  <2> QED
    BY <1>0, <1>1, <2>1, KillBeginsTyped DEF Counting, Mine
<1>2. CASE SelectFails
  BY <1>1, <1>2 DEF SelectFails
<1>3. CASE Select
  <2>1. CASE TimeoutExpires
    <3>1. CASE KillBegins(run.p, "expired")
      BY <1>1, <3>1
    <3>2. CASE run' = Idle /\ UNCHANGED obj
      BY <1>0, <3>2, Idles, MeKept, ReadStep
    <3> QED
      BY <2>1, <3>1, <3>2 DEF TimeoutExpires
  <2>2. CASE EndOfData /\ UNCHANGED obj
    BY <1>0, <2>2, EndOfDataRuns, MeKept, ReadStep
  <2>3. CASE obj' = [obj EXCEPT ![run.p].pipeSet = Ready(run.p)] /\ UNCHANGED run
    <3>1. PICK ready \in SUBSET Pipes : ready = Ready(run.p)
      BY Here DEF Ready, Object, Me
    <3> DEFINE e == [Me EXCEPT !.pipeSet = ready]
    <3>2. /\ e \in Object(run.p) /\ e.forkPIDs = Me.forkPIDs /\ e.commandsLeft = Me.commandsLeft
          /\ e.selectError = Me.selectError /\ e.readEnds = Me.readEnds /\ e.signalPipe = Me.signalPipe
      BY Here DEF Object
    <3>3. obj' = [obj EXCEPT ![run.p] = e]
      BY <2>3, <3>1 DEF Me
    <3> HIDE DEF e
    <3>4. PICK m \in Object(run.p) : m = e
      BY <3>2
    <3> QED
      BY <1>0, <2>3, <3>2, <3>3, <3>4, Here, MeKept, ReadStep
  <2> QED
    BY <1>3, <2>1, <2>2, <2>3 DEF Select
<1> QED
  BY <1>2, <1>3

LEMMA WaitEndsTyped ==
    ASSUME TypeInv, WaitEnds
    PROVE  TypeInv'
<1>0. run.pc = "outcome" /\ UNCHANGED <<setup, child, pipe, over, reg, fds, victims>>
  BY DEF WaitEnds, At
<1>1. PICK q \in Objects : q = run.p
  BY Here
<1>2. PICK s \in States \ {"Executing"} : s = Outcome(Me, Commands[run.p])
  BY DEF Outcome, States
<1> DEFINE m == [obj[q] EXCEPT !.state = s]
<1>3. /\ m \in Object(q) /\ m.state = s /\ m.selectError = obj[q].selectError
      /\ m.readEnds = obj[q].readEnds /\ m.signalPipe = obj[q].signalPipe
  BY Here DEF Object
<1>4. obj' = [obj EXCEPT ![q] = m]
  BY <1>1, <1>2 DEF WaitEnds
<1> HIDE DEF m
<1>5. ObjectKept(q) /\ obj'[q] = m
  <2>1. m.selectError => m.readEnds = {}
    BY <1>1, <1>3, MeKept DEF Me
  <2>2. m.signalPipe => "SIGNAL" \in m.readEnds
    BY <1>1, <1>3, MeKept DEF Me
  <2> QED
    BY <1>3, <1>4, <2>1, <2>2, ObjectChange
<1>6. run' \in Runs /\ run'.pc = "remove" /\ run'.p = q
  BY <1>1, GoesOn DEF WaitEnds, Steps, Cleaning
<1>7. Place' /\ Fresh' /\ ~Counting(q)' /\ Turn(q)
  BY <1>1, <1>2, <1>3, <1>5, <1>6, SameSetup, <1>0
     DEF Place, Fresh, Preparing, Starting, Taking, Counting, Mine, Turn
<1> QED
  BY <1>0, <1>5, <1>6, <1>7, ObjectStep, KernelStays, RestStays, TableStays

-----------------------------------------------------------------------------
(* kwsysProcess_Kill                                                       *)
LEMMA KillOneTyped ==
    ASSUME TypeInv, KillOne
    PROVE  TypeInv'
<1>0. run.pc = "kill" /\ run.i <= Commands[run.p] /\ UNCHANGED <<setup, obj, pipe, over, fds>>
  BY DEF KillOne, At
<1>1. PICK q \in Objects : q = run.p
  BY Here
<1>2. run' \in Runs /\ run'.pc = "kill" /\ run'.p = q /\ run'.i = run.i + 1 /\ run'.cause = run.cause
  <2>1. "kill" \in Steps /\ run.i + 1 \in Nat
    BY Here DEF Steps
  <2>2. GoTo("kill", run.i + 1)
    BY DEF KillOne
  <2>3. run' = [run EXCEPT !.pc = "kill", !.i = run.i + 1]
    BY <2>2 DEF GoTo
  <2> QED
    BY <1>1, <2>1, <2>3, Goes
<1>3. Place'
  <2>1. run.i + 1 \in 1..Commands[q] + 1
    BY <1>0, <1>1, Here
  <2> QED
    BY <1>0, <1>2, <2>1, SameSetup DEF Place, Preparing, Starting, Taking
<1>4. Fresh' /\ Turn(q) /\ (Counting(q)' => Counting(q))
  BY <1>0, <1>1, <1>2 DEF Fresh, Turn, Counting, Mine, Healthy, Preparing
<1>5. TypedRest'
  <2>1. victims' \subseteq {"stale", "everyone"}
    BY Here DEF KillOne, TypedRest, Strangers
  <2> QED
    BY <1>0, <2>1, SameSetup, Here DEF TypedRest
<1>6. reg' \in Tables'
  <2>1. Tables' = Tables
    BY <1>0, SameSetup DEF Tables
  <2>2. CASE reg' = reg
    BY <2>1, <2>2, Here
  <2>3. CASE reg' = [reg EXCEPT !.pending =
                        @ \/ (reg.handler /\ \E t \in Targets : Alive(t[1], t[2]))]
    <3> DEFINE hit == \E t \in Targets : Alive(t[1], t[2])
    <3>1. hit \in BOOLEAN
      OBVIOUS
    <3>2. reg' = [reg EXCEPT !.pending = @ \/ (reg.handler /\ hit)]
      BY <2>3
    <3> HIDE DEF hit
    <3> QED
      BY <2>1, <3>1, <3>2, Here DEF Tables
  <2> QED
    BY <2>2, <2>3 DEF KillOne
<1>7. TypedKernel'
  <2>1. DOMAIN child' = Objects /\ \A p \in Objects : child'[p] \in Children(p)
    <3>1. CASE child' = child
      BY <3>1, Here DEF TypedKernel
    <3>2. ASSUME NEW reaped,
                 child' = [p \in Objects |-> [i \in Members(p) |->
                      IF <<p, i>> = reaped THEN [child[p][i] EXCEPT !.life = "gone"]
                      ELSE IF <<p, i>> \in Targets /\ Alive(p, i)
                           THEN [life |-> "zombie", status |-> "signal"]
                           ELSE child[p][i]]]
          PROVE  DOMAIN child' = Objects /\ \A p \in Objects : child'[p] \in Children(p)
      <4>1. ASSUME NEW p \in Objects, NEW i \in Members(p)
            PROVE  /\ child[p][i] \in ChildStates
                   /\ [child[p][i] EXCEPT !.life = "gone"] \in ChildStates
                   /\ [life |-> "zombie", status |-> "signal"] \in ChildStates
        <5>1. child[p][i] \in ChildStates
          BY Here DEF TypedKernel, Children, ChildStates
        <5> QED
          BY <5>1 DEF ChildStates, Statuses
      <4>2. \A p \in Objects : Children(p) = [Members(p) -> ChildStates]
        BY DEF Children, ChildStates
      <4>3. DOMAIN child' = Objects
        BY <3>2
      <4>4. ASSUME NEW p \in Objects PROVE child'[p] \in [Members(p) -> ChildStates]
        <5>1. child'[p] = [i \in Members(p) |->
                      IF <<p, i>> = reaped THEN [child[p][i] EXCEPT !.life = "gone"]
                      ELSE IF <<p, i>> \in Targets /\ Alive(p, i)
                           THEN [life |-> "zombie", status |-> "signal"]
                           ELSE child[p][i]]
          BY <3>2
        <5> QED
          BY <4>1, <5>1
      <4> QED
        BY <4>2, <4>3, <4>4
    <3>3. \/ child' = child
          \/ \E reaped \in IF Waitable = {} THEN {<<run.p, 0>>} ELSE Waitable :
                  child' = [p \in Objects |-> [i \in Members(p) |->
                      IF <<p, i>> = reaped THEN [child[p][i] EXCEPT !.life = "gone"]
                      ELSE IF <<p, i>> \in Targets /\ Alive(p, i)
                           THEN [life |-> "zombie", status |-> "signal"]
                           ELSE child[p][i]]]
      BY DEF KillOne
    <3>4. CASE child' = child
      BY <3>1, <3>4
    <3>5. CASE \E reaped \in IF Waitable = {} THEN {<<run.p, 0>>} ELSE Waitable :
                  child' = [p \in Objects |-> [i \in Members(p) |->
                      IF <<p, i>> = reaped THEN [child[p][i] EXCEPT !.life = "gone"]
                      ELSE IF <<p, i>> \in Targets /\ Alive(p, i)
                           THEN [life |-> "zombie", status |-> "signal"]
                           ELSE child[p][i]]]
      BY <3>2, <3>5
    <3> QED
      BY <3>3, <3>4, <3>5
  <2>2. Objects' = Objects /\ pipe' = pipe /\ PipeStates' = PipeStates
        /\ \A p \in Objects : Children(p)' = Children(p)
    BY <1>0, SameSetup DEF PipeStates, Children
  <2> QED
    BY <2>1, <2>2, Here DEF TypedKernel
<1> QED
  BY <1>0, <1>2, <1>3, <1>4, <1>5, <1>6, <1>7, RunStep

LEMMA KillEndsTyped ==
    ASSUME TypeInv, KillEnds
    PROVE  TypeInv'
<1>0. run.pc = "kill" /\ UNCHANGED <<setup, child, pipe, over, reg, fds, victims>>
  BY DEF KillEnds, At
<1>1. PICK q \in Objects : q = run.p
  BY Here
<1>2. TypedKernel' /\ TypedRest' /\ reg' \in Tables'
  BY <1>0, KernelStays, RestStays, TableStays
<1>3. /\ run.cause \in {"failed", "asked", "expired", "select"}
      /\ run.cause = "select" => obj[q].readEnds = {}
      /\ run.cause = "asked" => obj[q].killed
      /\ obj[q] \in Object(q)
      /\ obj[q].selectError => obj[q].readEnds = {}
      /\ obj[q].signalPipe => "SIGNAL" \in obj[q].readEnds
  BY <1>0, <1>1, Here DEF TypeInv, Broken, SignalHeld, Me, Runs
<1>4. CASE run.cause = "failed"
  <2>1. Go("remove") /\ obj' = obj
    BY <1>4 DEF KillEnds
  <2>2. run' \in Runs /\ run'.pc = "remove" /\ run'.p = q
    BY <1>1, <2>1, GoesOn DEF Steps, Cleaning
  <2>3. Place' /\ Fresh' /\ Turn(q) /\ (Counting(q)' => Counting(q))
    BY <1>0, <1>1, <2>1, <2>2, SameSetup
       DEF Place, Fresh, Preparing, Starting, Taking, Turn, Counting, Mine, Healthy
  <2> QED
    BY <1>0, <1>2, <2>1, <2>2, <2>3, RunStep
<1>5. ASSUME NEW m \in Object(q), obj' = [obj EXCEPT ![q] = m],
             m.killed \/ m.expired \/ m.selectError,
             m.selectError => m.readEnds = {}, m.signalPipe => "SIGNAL" \in m.readEnds,
             run' = Idle \/ EndOfData
      PROVE  TypeInv'
  <2>1. ObjectKept(q) /\ obj'[q] = m
    BY <1>5, ObjectChange
  <2>2. run' \in Runs /\ run'.pc \in {"user", "outcome"} /\ (run'.p = q \/ run'.pc = "user")
    BY <1>0, <1>1, <1>5, Idles, EndOfDataRuns
  <2>3. Place' /\ Fresh' /\ Turn(q) /\ ~Counting(q)'
    BY <1>0, <1>1, <1>5, <2>1, <2>2, SameSetup
       DEF Place, Fresh, Preparing, Starting, Taking, Turn, Counting, Mine, Healthy
  <2> QED
    BY <1>0, <1>2, <2>1, <2>2, <2>3, ObjectStep
<1>6. 0 \in 0..Commands[q]
  BY SetupFacts, Here
<1>7. CASE run.cause = "asked"
  <2> DEFINE m == [obj[q] EXCEPT !.commandsLeft = 0]
  <2>1. /\ m \in Object(q) /\ m.killed = obj[q].killed /\ m.selectError = obj[q].selectError
        /\ m.readEnds = obj[q].readEnds /\ m.signalPipe = obj[q].signalPipe
    BY <1>3, <1>6, Here DEF Object
  <2>2. obj' = [obj EXCEPT ![q] = m] /\ run' = Idle
    BY <1>1, <1>7 DEF KillEnds
  <2> HIDE DEF m
  <2>3. PICK o \in Object(q) : o = m
    BY <2>1
  <2> QED
    BY <1>3, <1>5, <1>7, <2>1, <2>2, <2>3
<1>8. CASE run.cause = "expired"
  <2> DEFINE m == [obj[q] EXCEPT !.commandsLeft = 0, !.killed = FALSE, !.expired = TRUE]
  <2>1. /\ m \in Object(q) /\ m.expired /\ m.selectError = obj[q].selectError
        /\ m.readEnds = obj[q].readEnds /\ m.signalPipe = obj[q].signalPipe
    BY <1>3, <1>6, Here DEF Object
  <2>2. obj' = [obj EXCEPT ![q] = m] /\ EndOfData
    BY <1>1, <1>8 DEF KillEnds
  <2> HIDE DEF m
  <2>3. PICK o \in Object(q) : o = m
    BY <2>1
  <2> QED
    BY <1>3, <1>5, <1>8, <2>1, <2>2, <2>3
<1>9. CASE run.cause = "select"
  <2> DEFINE m == [obj[q] EXCEPT !.commandsLeft = 0, !.killed = FALSE, !.selectError = TRUE]
  <2>1. /\ m \in Object(q) /\ m.selectError /\ m.readEnds = obj[q].readEnds
        /\ m.signalPipe = obj[q].signalPipe
    BY <1>3, <1>6, Here DEF Object
  <2>2. obj' = [obj EXCEPT ![q] = m] /\ EndOfData
    BY <1>1, <1>9 DEF KillEnds
  <2> HIDE DEF m
  <2>3. PICK o \in Object(q) : o = m
    BY <2>1
  <2> QED
    BY <1>3, <1>5, <1>9, <2>1, <2>2, <2>3
<1> QED
  BY <1>3, <1>4, <1>7, <1>8, <1>9

-----------------------------------------------------------------------------
(* kwsysProcessesRemove and the rest of kwsysProcessCleanup                *)
LEMMA ButLast ==
    ASSUME NEW S, NEW s \in Seq(S), Len(s) >= 1
    PROVE  SubSeq(s, 1, Len(s) - 1) \in Seq(S)
<1>1. Len(s) \in Nat /\ \A k \in 1..Len(s) - 1 : s[k] \in S
  BY LenProperties, ElementOfSeq
<1>2. 1 \in Int /\ Len(s) - 1 \in Int
  BY <1>1
<1> QED
  BY <1>1, <1>2, SubSeqProperties

LEMMA TableTyped ==
    ASSUME TypeInv, Remove \/ Shift \/ RestoreHandler \/ FreeTable \/ UpdateTable
    PROVE  TypeInv'
<1>0. run.pc \in Taking \cup {"remove"} /\ UNCHANGED <<setup, obj, child, pipe, over, fds, victims>>
  BY DEF Remove, Shift, RestoreHandler, FreeTable, UpdateTable, At, Taking
<1>1. PICK q \in Objects : q = run.p
  BY Here
<1>2. Tables' = Tables /\ reg \in Tables /\ reg.cells \in Seq(Objects) /\ Len(reg.cells) \in Nat
  BY <1>0, SameSetup, Here, LenProperties DEF Tables
<1>3. run.pc \in Taking => run.i \in 1..Len(reg.cells)
  BY DEF TypeInv, Place
<1>4. ASSUME reg' \in Tables, NEW step \in Cleaning, run' \in Runs, run'.pc = step, run'.p = q,
             step \in Taking => run'.i \in 1..Len(reg'.cells)
      PROVE  TypeInv'
  <2>1. Place' /\ Fresh' /\ Turn(q) /\ (Counting(q)' => Counting(q)) /\ run'.pc # "kill"
    BY <1>0, <1>1, <1>4, SameSetup
       DEF Place, Fresh, Preparing, Starting, Taking, Turn, Counting, Mine, Healthy, Cleaning
  <2> QED
    BY <1>0, <1>2, <1>4, <2>1, RunStep, KernelStays, RestStays
<1>5. \A step \in Cleaning : step \in Steps
  BY DEF Steps
<1>6. CASE Remove
  <2>1. reg' = reg
    BY <1>6 DEF Remove
  <2>2. CASE GoTo("shift", Position) /\ run.p \in Registered
    <3>1. Position \in 1..Len(reg.cells)
      BY <1>2, <2>2 DEF Position, Registered
    <3>2. "shift" \in Cleaning /\ Position \in Nat
      BY <1>2, <3>1 DEF Cleaning, Taking
    <3>3. run' \in Runs /\ run'.pc = "shift" /\ run'.p = q /\ run'.i = Position
      <4>1. run' = [run EXCEPT !.pc = "shift", !.i = Position]
        BY <2>2 DEF GoTo
      <4> QED
        BY <1>1, <1>5, <3>2, <4>1, Goes
    <3> QED
      BY <1>2, <1>4, <2>1, <3>1, <3>2, <3>3
  <2>3. CASE Go("close")
    <3>1. "close" \in Cleaning /\ "close" \notin Taking
      BY DEF Cleaning, Taking
    <3> QED
      BY <1>1, <1>2, <1>4, <1>5, <2>1, <2>3, <3>1, GoesOn
  <2> QED
    BY <1>6, <2>2, <2>3 DEF Remove
<1>7. CASE Shift
  <2>0. run.pc \in Taking
    BY <1>7 DEF Shift, At, Taking
  <2>1. CASE /\ run.i < Len(reg.cells)
             /\ reg' = [reg EXCEPT !.cells[run.i] = reg.cells[run.i + 1]]
             /\ GoTo("shift", run.i + 1)
    <3>1. run.i \in 1..Len(reg.cells) /\ run.i + 1 \in 1..Len(reg.cells) /\ run.i + 1 \in Nat
      BY <1>2, <1>3, <2>0, <2>1
    <3> DEFINE cells == [reg.cells EXCEPT ![run.i] = reg.cells[run.i + 1]]
    <3>2. cells \in Seq(Objects) /\ Len(cells) = Len(reg.cells)
      <4>1. reg.cells[run.i + 1] \in Objects
        BY <1>2, <3>1, ElementOfSeq
      <4> QED
        BY <1>2, <3>1, <4>1, ExceptSeq
    <3>3. reg' = [reg EXCEPT !.cells = cells]
      BY <2>1
    <3> HIDE DEF cells
    <3>4. reg' \in Tables /\ reg'.cells = cells
      BY <1>2, <3>2, <3>3 DEF Tables
    <3>5. "shift" \in Cleaning
      BY DEF Cleaning, Taking
    <3>6. run' \in Runs /\ run'.pc = "shift" /\ run'.p = q /\ run'.i = run.i + 1
      <4>1. run' = [run EXCEPT !.pc = "shift", !.i = run.i + 1]
        BY <2>1 DEF GoTo
      <4> QED
        BY <1>1, <1>5, <3>1, <3>5, <4>1, Goes
    <3> QED
      BY <1>4, <3>1, <3>2, <3>4, <3>5, <3>6
  <2>2. CASE reg' = reg /\ Go(IF Len(reg.cells) = 1 THEN "restore" ELSE "update")
    <3>1. PICK step \in Taking : Go(step)
      BY <2>2 DEF Taking
    <3> QED
      BY <1>1, <1>2, <1>3, <1>4, <1>5, <2>0, <2>2, <3>1, GoesOn DEF Cleaning
  <2> QED
    BY <1>7, <2>1, <2>2 DEF Shift
<1>8. CASE RestoreHandler \/ FreeTable
  <2>0. run.pc \in Taking
    BY <1>8 DEF RestoreHandler, FreeTable, At, Taking
  <2>1. PICK step \in Taking : Go(step)
    BY <1>8 DEF RestoreHandler, FreeTable, Taking
  <2>2. reg' \in Tables /\ reg'.cells = reg.cells
    BY <1>2, <1>8 DEF RestoreHandler, FreeTable, Tables
  <2> QED
    BY <1>1, <1>3, <1>4, <1>5, <2>0, <2>1, <2>2, GoesOn DEF Cleaning
<1>9. CASE UpdateTable
  <2>0. run.pc \in Taking
    BY <1>9 DEF UpdateTable, At, Taking
  <2> DEFINE cells == SubSeq(reg.cells, 1, Len(reg.cells) - 1)
  <2>1. cells \in Seq(Objects)
    BY <1>2, <1>3, <2>0, ButLast
  <2>2. reg' = [reg EXCEPT !.cells = cells, !.freed = FALSE]
    BY <1>9 DEF UpdateTable
  <2> HIDE DEF cells
  <2>3. reg' \in Tables
    BY <1>2, <2>1, <2>2 DEF Tables
  <2>4. "close" \in Cleaning /\ "close" \notin Taking /\ Go("close")
    BY <1>9 DEF Cleaning, Taking, UpdateTable
  <2> QED
    BY <1>1, <1>4, <1>5, <2>3, <2>4, GoesOn
<1> QED
  BY <1>6, <1>7, <1>8, <1>9

(* An object whose run is being ended does not execute.                    *)
Ends == run.pc \in Cleaning \/ (run.pc = "kill" /\ run.cause = "failed")
Ended == Ends => Me.state # "Executing"

LEMMA EndedStep ==
    ASSUME TypeInv, Ended, [Next]_vars
    PROVE  Ended'
<1>0. run \in Runs /\ Me \in Object(run.p)
  BY Here
<1>1. ASSUME run'.pc = run.pc, run'.p = run.p, run'.cause = run.cause, obj' = obj PROVE Ended'
  BY <1>1 DEF Ended, Ends, Me
<1>2. ASSUME run'.pc \in Preparing \cup Waiting \cup {"user"} PROVE Ended'
  BY <1>2 DEF Ended, Ends, Preparing, Waiting, Cleaning, Taking
<1>3. ASSUME NEW kept, ExecuteFails(kept) PROVE Ended'
  <2>1. obj'[run.p].state = "Error" /\ run'.p = run.p
    BY <1>0, <1>3, Here DEF ExecuteFails, TypedObjects, Object, Runs
  <2> QED
    BY <2>1 DEF Ended, Me
<1>4. ASSUME NEW cause \in {"asked", "expired", "select"}, NEW p, KillBegins(p, cause) PROVE Ended'
  <2>1. run'.pc = "closing"
    BY <1>0, <1>4 DEF KillBegins, Runs
  <2> QED
    BY <2>1 DEF Ended, Ends, Cleaning, Taking
<1>5. ASSUME EndOfData \/ run' = Idle PROVE Ended'
  BY <1>0, <1>2, <1>5 DEF EndOfData, Idle, Go, Runs, Waiting
<1>6. ASSUME obj' = obj, run'.p = run.p, Ends PROVE Ended'
  BY <1>6 DEF Ended, Me
<1>7. CASE User
  <2>1. PICK p \in Objects : \/ New(p) \/ ExecuteNothing(p) \/ Execute(p) \/ WaitForExit(p)
                             \/ WaitForData(p) \/ Kill(p) \/ Delete(p)
    BY <1>7 DEF User
  <2>2. CASE New(p) \/ ExecuteNothing(p)
    BY <1>2, <2>2 DEF New, ExecuteNothing, At
  <2>3. CASE Execute(p)
    BY <1>2, <2>3 DEF Execute, Idle, Preparing
  <2>4. ASSUME NEW call, NEW timeout, Wait(p, call, timeout) PROVE Ended'
    <3>1. run'.pc \in {"outcome", "handle"}
      BY <2>4 DEF Wait, Idle
    <3> QED
      BY <1>2, <3>1 DEF Waiting
  <2>5. CASE Kill(p)
    BY <1>4, <2>5 DEF Kill
  <2>6. CASE Delete(p)
    BY <1>2, <2>4, <2>6 DEF Delete, At
  <2> QED
    BY <2>1, <2>2, <2>3, <2>4, <2>5, <2>6 DEF WaitForExit, WaitForData
<1>8. CASE AddSignalPipe \/ AddAppend \/ AddInstall \/ SetupStderr \/ CreateStdout
  <2>1. \A step : Go(step) => run'.pc = step
    BY <1>0 DEF Go, Runs
  <2>2. \A step, i : GoTo(step, i) => run'.pc = step
    BY <1>0 DEF GoTo, Runs
  <2>3. CASE AddSignalPipe
    BY <1>2, <1>3, <2>1, <2>3 DEF AddSignalPipe, Preparing
  <2>4. CASE AddAppend \/ AddInstall
    BY <1>2, <2>1, <2>4 DEF AddAppend, AddInstall, Preparing
  <2>5. CASE SetupStderr
    BY <1>2, <1>3, <2>2, <2>5 DEF SetupStderr, Preparing
  <2>6. CASE CreateStdout
    BY <1>2, <1>3, <2>1, <2>6 DEF CreateStdout, Preparing
  <2> QED
    BY <1>8, <2>3, <2>4, <2>5, <2>6
<1>9. CASE Fork
  <2>1. CASE Go("forked")
    BY <1>0, <1>2, <2>1 DEF Go, Runs, Preparing
  <2>2. CASE /\ obj' = [obj EXCEPT ![run.p].state = "Error", ![run.p].forkPIDs[run.i] = "-1"]
             /\ run' = [run EXCEPT !.pc = "kill", !.i = 1, !.cause = "failed"]
    <3> DEFINE pids == [Me.forkPIDs EXCEPT ![run.i] = "-1"]
               m == [Me EXCEPT !.state = "Error", !.forkPIDs = pids]
    <3>1. obj' = [obj EXCEPT ![run.p] = m] /\ m.state = "Error"
      BY <1>0, <2>2 DEF Me, Object
    <3> HIDE DEF m, pids
    <3>2. obj'[run.p].state = "Error" /\ run'.p = run.p
      BY <1>0, <2>2, <3>1, Here DEF TypedObjects, Runs
    <3> QED
      BY <3>2 DEF Ended, Me
  <2> QED
    BY <1>9, <2>1, <2>2 DEF Fork
<1>10. CASE Forked
  <2>1. CASE GoTo("create", run.i + 1)
    BY <1>0, <1>2, <2>1 DEF GoTo, Runs, Preparing
  <2> QED
    BY <1>3, <1>5, <1>10, <2>1 DEF Forked
<1>11. CASE ReadOutput \/ ReadSignal
  <2>1. run' = Idle \/ run' = run \/ GoTo("reap", 1)
    BY <1>11 DEF ReadOutput, ReadSignal
  <2>2. run.pc = "handle"
    BY <1>11 DEF ReadOutput, ReadSignal, At
  <2>3. CASE GoTo("reap", 1)
    BY <1>0, <1>2, <2>3 DEF GoTo, Runs, Waiting
  <2> QED
    BY <1>2, <1>5, <2>1, <2>2, <2>3 DEF Waiting
<1>12. CASE Reap
  <2>1. Go("handle") \/ GoTo("reap", run.i + 1)
    BY <1>12 DEF Reap
  <2> QED
    BY <1>0, <1>2, <2>1 DEF Go, GoTo, Runs, Waiting
<1>13. CASE Select \/ SelectFails
  <2>1. run.pc = "handle"
    BY <1>13 DEF Select, SelectFails, At
  <2>2. CASE SelectFails
    BY <1>4, <2>2 DEF SelectFails
  <2>3. TimeoutExpires => Ended'
    BY <1>4, <1>5 DEF TimeoutExpires
  <2>4. run' = run => Ended'
    BY <1>2, <2>1 DEF Waiting
  <2>5. CASE Select
    BY <1>5, <2>3, <2>4, <2>5 DEF Select
  <2> QED
    BY <1>13, <2>2, <2>5
<1>14. CASE WaitEnds
  <2> DEFINE s == Outcome(Me, Commands[run.p])
  <2>1. s # "Executing"
    BY DEF Outcome
  <2>2. obj' = [obj EXCEPT ![run.p].state = s] /\ Go("remove")
    BY <1>14 DEF WaitEnds
  <2> HIDE DEF s
  <2>3. obj'[run.p].state = s /\ run'.p = run.p
    BY <1>0, <2>2, Here DEF Go, TypedObjects, Object, Runs
  <2> QED
    BY <2>1, <2>3 DEF Ended, Me
<1>15a. CASE ClosePipes
  <2>1. run.cause # "failed" /\ Go("kill")
    BY <1>15a DEF ClosePipes, At, TypeInv, Place
  <2>2. run'.pc = "kill" /\ run'.cause # "failed"
    BY <1>0, <2>1 DEF Go, Runs
  <2> QED
    BY <2>2 DEF Ended, Ends, Cleaning, Taking
<1>15. CASE KillOne
  <2>1. GoTo("kill", run.i + 1) /\ obj' = obj /\ run.pc = "kill"
    BY <1>15 DEF KillOne, At
  <2> QED
    BY <1>0, <1>1, <2>1 DEF GoTo, Runs
<1>16. CASE KillEnds
  <2>1. run.pc = "kill" /\ run.cause \in {"failed", "asked", "expired", "select"}
    BY <1>0, <1>16 DEF KillEnds, At, TypeInv, Broken, Runs
  <2>2. CASE run.cause = "failed"
    <3>1. Go("remove") /\ obj' = obj
      BY <1>16, <2>2 DEF KillEnds
    <3>2. run'.p = run.p
      BY <1>0, <3>1 DEF Go, Runs
    <3> QED
      BY <1>6, <2>1, <2>2, <3>1, <3>2 DEF Ends
  <2>3. CASE run.cause # "failed"
    BY <1>5, <1>16, <2>1, <2>3 DEF KillEnds
  <2> QED
    BY <2>2, <2>3
<1>17. CASE Remove \/ Shift \/ RestoreHandler \/ FreeTable \/ UpdateTable
  <2>1. obj' = obj /\ run.pc \in Cleaning
    BY <1>17 DEF Remove, Shift, RestoreHandler, FreeTable, UpdateTable, At, Cleaning, Taking
  <2>2. \E step : Go(step) \/ \E i : GoTo(step, i)
    BY <1>17 DEF Remove, Shift, RestoreHandler, FreeTable, UpdateTable
  <2>3. run'.p = run.p
    BY <1>0, <2>2 DEF Go, GoTo, Runs
  <2> QED
    BY <1>6, <2>1, <2>3 DEF Ends
<1>18. CASE CloseAll
  BY <1>5, <1>18 DEF CloseAll
<1>19. CASE SignalHandler \/ Exec \/ Child \/ UNCHANGED vars
  <2>1. run' = run /\ obj' = obj
    BY <1>19 DEF SignalHandler, Exec, ExecSucceeds, ExecFails, Child, GrandchildrenExit,
                 WritesData, ChildExits, vars
  <2> QED
    BY <1>1, <2>1
<1>20. CASE TimePasses
  <2>1. obj' = obj /\ (run' = run \/ run' = [run EXCEPT !.late = TRUE])
    BY <1>20 DEF TimePasses
  <2> QED
    BY <1>0, <1>1, <2>1 DEF Runs
<1> QED
  BY <1>7, <1>8, <1>9, <1>10, <1>11, <1>12, <1>13, <1>14, <1>15, <1>15a, <1>16, <1>17, <1>18, <1>19,
     <1>20 DEF Next, Parent

LEMMA CloseTyped ==
    ASSUME TypeInv, Ended, CloseAll
    PROVE  TypeInv'
<1>0. run.pc = "close" /\ run' = Idle /\ UNCHANGED <<setup, child, reg, fds, victims>>
  BY DEF CloseAll, At
<1>1. PICK q \in Objects : q = run.p
  BY Here
<1> DEFINE pids == [i \in Members(q) |-> "0"]
           s == IF run.call = "Delete" THEN "none" ELSE obj[q].state
           m == [obj[q] EXCEPT !.signalPipe = FALSE, !.readEnds = {}, !.forkPIDs = pids, !.state = s]
<1>2. pids \in [Members(q) -> {"0", "child", "-1"}] /\ s \in States
  BY Here DEF Object, States
<1>3. obj' = [obj EXCEPT ![q] = m]
  BY <1>1 DEF CloseAll
<1>4. m \in Object(q) /\ m.readEnds = {} /\ ~m.signalPipe /\ m.forkPIDs = pids
      /\ m.commandsLeft = obj[q].commandsLeft /\ m.state = s
      /\ m.killed = obj[q].killed /\ m.expired = obj[q].expired /\ m.selectError = obj[q].selectError
  <2> HIDE DEF pids, s
  <2> QED
    BY <1>2, Here DEF Object
<1> HIDE DEF m
<1>5. ObjectKept(q) /\ obj'[q] = m
  BY <1>3, <1>4, ObjectChange
<1>6. run'.pc = "user" /\ Place' /\ Fresh'
  BY <1>0, Idles
<1>7. s # "Executing"
  BY <1>0, <1>1 DEF Ended, Ends, Cleaning, Me
<1>8. ~Counting(q)' /\ Turn(q)
  BY <1>1, <1>4, <1>5, <1>6, <1>7 DEF Counting, Mine, Turn
<1>9. TypedKernel'
  <2> DEFINE e == [pipe[q] EXCEPT !.byte = FALSE, !.data = {}]
  <2>1. e \in PipeStates
    BY Here DEF TypedKernel, PipeStates
  <2>2. pipe' = [pipe EXCEPT ![q] = e]
    BY <1>1 DEF CloseAll
  <2> HIDE DEF e
  <2>3. DOMAIN pipe' = Objects /\ \A p \in Objects : pipe'[p] \in PipeStates
    BY <2>1, <2>2, Here DEF TypedKernel
  <2>4. Objects' = Objects /\ child' = child /\ \A p \in Objects : Children(p)' = Children(p)
    BY <1>0, SameSetup DEF Children
  <2>5. PipeStates' = PipeStates
    BY DEF PipeStates
  <2> QED
    BY <2>3, <2>4, <2>5, Here DEF TypedKernel
<1>10. TypedRest' /\ reg' \in Tables'
  BY <1>0, SameSetup, Here, TableStays DEF CloseAll, TypedRest
<1> HIDE DEF s, pids
<1> QED
  BY <1>0, <1>5, <1>6, <1>8, <1>9, <1>10, ObjectStep

-----------------------------------------------------------------------------
LEMMA TypeInit == Init => TypeInv /\ Ended
<1> SUFFICES ASSUME Init PROVE TypeInv /\ Ended
  OBVIOUS
<1>1. setup \in Setups
  BY DEF Init
<1>2. Objects # {} /\ \A p \in Objects : Commands[p] \in Nat /\ 0 \in 0..Commands[p]
  BY <1>1, SetupFacts
<1>3. run = Idle /\ run \in Runs /\ run.pc = "user" /\ run.p \in Objects
  <2>1. (CHOOSE q \in Objects : TRUE) \in Objects
    BY <1>2
  <2> QED
    BY <2>1 DEF Init, Idle, Runs, Steps
<1>4. ASSUME NEW p \in Objects
      PROVE  /\ obj[p] \in Object(p) /\ obj[p].state = "none"
             /\ obj[p].selectError = FALSE /\ obj[p].signalPipe = FALSE
             /\ child[p] \in Children(p) /\ pipe[p] \in PipeStates
  <2>1. obj[p] = [Initialized(p) EXCEPT !.state = "none"]
    BY DEF Init
  <2>2. Initialized(p) \in Object(p) /\ ~Initialized(p).selectError /\ ~Initialized(p).signalPipe
    BY <1>2 DEF Initialized, Object, States, Statuses
  <2>3. child[p] = [i \in Members(p) |-> [life |-> "none", status |-> "exit 0"]]
        /\ pipe[p] = [byte |-> FALSE, data |-> {}, held |-> {}]
    BY DEF Init
  <2>4. child[p] \in Children(p) /\ pipe[p] \in PipeStates
    <3>1. [life |-> "none", status |-> "exit 0"] \in ChildStates
      BY DEF ChildStates, Statuses
    <3>2. child[p] \in [Members(p) -> ChildStates]
      BY <2>3, <3>1
    <3>3. [byte |-> FALSE, data |-> {}, held |-> {}] \in PipeStates
      BY DEF PipeStates
    <3> QED
      BY <2>3, <3>2, <3>3 DEF Children, ChildStates
  <2>5. /\ obj[p] \in Object(p) /\ obj[p].state = "none"
        /\ obj[p].selectError = Initialized(p).selectError
        /\ obj[p].signalPipe = Initialized(p).signalPipe
    BY <2>1, <2>2 DEF Object, States
  <2>6. Initialized(p).selectError = FALSE /\ Initialized(p).signalPipe = FALSE
    BY DEF Initialized
  <2> QED
    BY <2>4, <2>5, <2>6
<1>5. Domains
  BY DEF Init, Domains
<1>6. TypeOK
  <2>1. TypedObjects /\ TypedKernel
    BY <1>4, <1>5 DEF TypedObjects, TypedKernel, Domains
  <2>2. TypedRest
    BY <1>1 DEF Init, TypedRest
  <2>3. reg \in Tables
    BY EmptySeq DEF Init, Tables
  <2> QED
    BY <1>3, <1>5, <2>1, <2>2, <2>3, TypeParts
<1>7. Place /\ Fresh /\ Ended
  BY <1>3 DEF Place, Fresh, Preparing, Starting, Taking, Cleaning, Ended, Ends
<1>8. Counted /\ Broken /\ SignalHeld
  BY <1>3, <1>4 DEF Counted, Counting, Mine, Broken, SignalHeld
<1> QED
  BY <1>5, <1>6, <1>7, <1>8 DEF TypeInv

LEMMA TypeStep == TypeInv /\ Ended /\ [Next]_vars => TypeInv' /\ Ended'
<1> SUFFICES ASSUME TypeInv, Ended, [Next]_vars PROVE TypeInv' /\ Ended'
  OBVIOUS
<1>0. Ended'
  BY EndedStep
<1>1. CASE User
  BY <1>0, <1>1, UserTyped
<1>2. CASE Parent
  BY <1>0, <1>2, AddTyped, SetupTyped, CreateTyped, ForkTyped, ForkedTyped, ReadOutputTyped,
     ReadSignalTyped, ReapTyped, SelectTyped, WaitEndsTyped, ClosePipesTyped, KillOneTyped, KillEndsTyped,
     TableTyped, CloseTyped DEF Parent
<1>3. CASE SignalHandler \/ Exec \/ Child \/ TimePasses
  BY <1>0, <1>3, OutsideTyped, TimeTyped
<1>4. CASE UNCHANGED vars
  <2>1. UNCHANGED <<setup, obj, run, child, pipe, over, reg, fds, victims>>
    BY <1>4 DEF vars
  <2> QED
    BY <1>0, <2>1, KernelStays, RestStays, TableStays, OutsideStep
<1> QED
  BY <1>1, <1>2, <1>3, <1>4 DEF Next

LEMMA Typed == Spec => [](TypeInv /\ Ended)
BY TypeInit, TypeStep, PTL DEF Spec

(* Every variable keeps its type, the counter of the children that are not *)
(* reaped included: kwsysProcessDestroy never counts below zero.           *)
THEOREM TypeCorrect == Spec => []TypeOK
BY Typed, PTL DEF TypeInv

(* The SIGCHLD handler never writes to a signal pipe without a reader,     *)
(* wherever it interrupts the parent.                                      *)
THEOREM ParentIsNotEndedBySIGPIPE == Spec => []NoSIGPIPE
<1>1. TypeInv => NoSIGPIPE
  BY Here, ElementOfSeq DEF TypeInv, SignalHeld, NoSIGPIPE, Registered, Tables
<1> QED
  BY <1>1, Typed, PTL

-----------------------------------------------------------------------------
(***************************************************************************)
(* What an object of the process library knows of its children is true:    *)
(* the process IDs it holds are those of children that are not reaped, and *)
(* when its run is over all of them are.  Proved for all programs and all  *)
(* failures but one that the code does not handle (SafeForks).             *)
(***************************************************************************)

(* A failing fork makes the clean up signal and wait for every process     *)
(* (-1), those of other objects included.                                  *)
SafeForks ==
    \A s \in Setups : "fork" \in s.failures => \A p, q \in DOMAIN s.commands : p = q

Held == Living \cup {"zombie"}
Dead(p) == \A i \in Members(p) : child[p][i].life \notin Held
Closed(p) == obj[p].readEnds = {} /\ ~obj[p].signalPipe
RealExit(p) ==
    obj[p].state \in {"Exited", "Exception"} =>
        /\ Commands[p] >= 1
        /\ \A i \in Members(p) : child[p][i].life = "gone"
        /\ (obj[p].state = "Exception") <=> (child[p][Commands[p]].status = "signal")

(* What the object knows of its children.                                  *)
Tracked(p) ==
    \A i \in Members(p) :
        /\ obj[p].forkPIDs[i] = IF child[p][i].life \in Held THEN "child" ELSE "0"
        /\ child[p][i].life = "gone" => obj[p].codes[i] = child[p][i].status
Working(p) ==
    /\ Tracked(p)
    /\ Commands[p] >= 1
    /\ \A i \in Members(p) : child[p][i].life # "none"
    /\ obj[p].signalPipe <=> (obj[p].commandsLeft # 0)

(* An object between two calls.                                            *)
Settled(p) ==
    /\ obj[p].state # "Executing" => Dead(p) /\ Closed(p) /\ RealExit(p)
    /\ obj[p].state = "Executing" /\ Healthy(p) => Working(p)
    /\ obj[p].state = "Executing" /\ ~Healthy(p) => Dead(p) /\ Closed(p)

(* An object in a call.                                                    *)
Begun(i) == (run.pc \in Starting /\ i < run.i) \/ (run.pc = "forked" /\ i = run.i)
Prepared(p) ==
    /\ obj[p].state = "Starting" /\ Tracked(p)
    /\ IF run.pc = "add" THEN Closed(p) ELSE obj[p].signalPipe
    /\ \A i \in Members(p) :
          child[p][i].life # "gone" /\ (child[p][i].life # "none" <=> Begun(i))
Waited(p) ==
    /\ obj[p].state = "Executing" /\ Settled(p)
    /\ run.pc # "outcome" => Healthy(p)
    /\ run.pc = "outcome" => obj[p].readEnds = {}
Doomed(p) == obj[p].state = "Executing" /\ ~obj[p].signalPipe /\ Tracked(p)
Killing(p) ==
    /\ \A i \in Members(p) :
          /\ i < run.i => child[p][i].life \notin Held
          /\ i >= run.i =>
                (obj[p].forkPIDs[i] = "child") <=> (child[p][i].life \in Held)
          /\ obj[p].forkPIDs[i] = "-1" =>
                /\ Objects = {p} /\ run.cause = "failed"
                /\ \A j \in Members(p) : j > i => obj[p].forkPIDs[j] = "0"
    /\ IF run.cause = "failed" THEN obj[p].state = "Error"
       ELSE obj[p].state = "Executing" /\ obj[p].killed /\ Closed(p)
Cleaned(p) ==
    Dead(p) /\ RealExit(p) /\ obj[p].state \notin {"Executing", "none"}

Good(p) ==
    /\ ~Mine(p) => Settled(p)
    /\ Mine(p) /\ run.pc \in Preparing => Prepared(p)
    /\ Mine(p) /\ run.pc \in Waiting => Waited(p)
    /\ Mine(p) /\ run.pc = "closing" => Doomed(p)
    /\ Mine(p) /\ run.pc = "kill" => Killing(p)
    /\ Mine(p) /\ run.pc \in Cleaning => Cleaned(p)
Ledger == \A p \in Objects : Good(p)

-----------------------------------------------------------------------------
LEMMA OneObject ==
    ASSUME SafeForks, TypeInv
    PROVE  MayFail("fork") => \A p, q \in Objects : p = q
BY Here DEF SafeForks, MayFail, Objects, Commands

(* The children of p go on, or end, but none starts and none is reaped.    *)
SameLives(p) ==
    \A i \in Members(p) :
        /\ (child'[p][i].life \in Held) <=> (child[p][i].life \in Held)
        /\ (child'[p][i].life = "none") <=> (child[p][i].life = "none")
        /\ (child'[p][i].life = "gone") <=> (child[p][i].life = "gone")
        /\ child[p][i].life = "gone" => child'[p][i].status = child[p][i].status

LEMMA NoLivesChange ==
    ASSUME child' = child, NEW p PROVE SameLives(p)
BY DEF SameLives

LEMMA LastMember ==
    ASSUME TypeInv, NEW p \in Objects
    PROVE  /\ Members(p) = 1..Commands[p] /\ Commands[p] \in Nat
           /\ Commands[p] >= 1 => Commands[p] \in Members(p)
           /\ Commands[p] < 1 => Members(p) = {}
<1>1. Members(p) = 1..Commands[p] /\ Commands[p] \in Nat
  BY Here, SetupFacts
<1> QED
  BY <1>1

LEMMA ChildrenSame ==
    ASSUME TypeInv, setup' = setup, NEW p \in Objects, SameLives(p)
    PROVE  /\ Dead(p)' <=> Dead(p)
           /\ \A i \in Members(p) : child'[p][i].life = "gone" <=> child[p][i].life = "gone"
           /\ Commands[p] >= 1 /\ child[p][Commands[p]].life = "gone" =>
                 child'[p][Commands[p]].status = child[p][Commands[p]].status
BY SameSetup, LastMember DEF SameLives, Dead

LEMMA TrackedSame ==
    ASSUME TypeInv, setup' = setup, NEW p \in Objects, SameLives(p), Tracked(p),
           obj'[p].forkPIDs = obj[p].forkPIDs, obj'[p].codes = obj[p].codes
    PROVE  Tracked(p)'
BY SameSetup DEF SameLives, Tracked

LEMMA SettledSame ==
    ASSUME TypeInv, setup' = setup, NEW p \in Objects, SameLives(p), Settled(p), obj'[p] = obj[p]
    PROVE  Settled(p)'
<1>1. Healthy(p)' = Healthy(p) /\ Closed(p)' = Closed(p)
  BY DEF Healthy, Closed
<1>2. Dead(p) => Dead(p)'
  BY ChildrenSame
<1>3. Working(p) => Working(p)'
  BY SameSetup, TrackedSame DEF Working, SameLives
<1>4. obj[p].state # "Executing" => RealExit(p)'
  BY SameSetup, LastMember DEF Settled, RealExit, SameLives
<1> QED
  BY <1>1, <1>2, <1>3, <1>4 DEF Settled

(* A step for one object.                                                  *)
LEMMA LedgerStep ==
    ASSUME TypeInv, Ledger, setup' = setup, NEW q \in Objects, Turn(q),
           \A p \in Objects : p # q => obj'[p] = obj[p] /\ SameLives(p),
           Good(q)'
    PROVE  Ledger'
<1>1. ASSUME NEW p \in Objects, p # q PROVE Good(p)'
  <2>1. ~Mine(p) /\ ~Mine(p)'
    BY <1>1 DEF Turn, Mine
  <2>2. Settled(p)
    BY <2>1 DEF Ledger, Good
  <2> QED
    BY <1>1, <2>1, <2>2, SettledSame DEF Good
<1> QED
  BY <1>1, SameSetup DEF Ledger

(* A step that no object notices.                                          *)
LEMMA LedgerKept ==
    ASSUME TypeInv, Ledger, setup' = setup, obj' = obj, \A p \in Objects : SameLives(p),
           run'.pc = run.pc, run'.p = run.p, run'.i = run.i, run'.cause = run.cause
    PROVE  Ledger'
<1>1. ASSUME NEW p \in Objects PROVE Good(p)'
  <2>1. Good(p) /\ Mine(p)' = Mine(p) /\ Closed(p)' = Closed(p) /\ Healthy(p)' = Healthy(p)
    BY <1>1 DEF Ledger, Mine, Closed, Healthy
  <2>2. Settled(p) => Settled(p)'
    BY SettledSame
  <2>3. Prepared(p) => Prepared(p)'
    <3>1. Tracked(p) => Tracked(p)'
      BY TrackedSame
    <3>2. Members(p)' = Members(p)
      BY SameSetup
    <3>3. ASSUME Prepared(p), NEW i \in Members(p)
          PROVE  child'[p][i].life # "gone" /\ (child'[p][i].life # "none" <=> Begun(i)')
      BY <3>3 DEF Prepared, SameLives, Begun
    <3>4. Prepared(p) => obj[p].state = "Starting" /\ IF run.pc = "add" THEN Closed(p) ELSE obj[p].signalPipe
      BY DEF Prepared
    <3>5. Prepared(p) => Tracked(p)
      BY DEF Prepared
    <3>6. ASSUME Prepared(p) PROVE Prepared(p)'
      <4>1. obj'[p].state = "Starting" /\ Tracked(p)'
        BY <3>1, <3>4, <3>5, <3>6
      <4>2. (IF run.pc = "add" THEN Closed(p) ELSE obj[p].signalPipe)'
        BY <2>1, <3>4, <3>6
      <4> QED
        BY <3>2, <3>3, <3>6, <4>1, <4>2 DEF Prepared
    <3> QED
      BY <3>6
  <2>4. Waited(p) => Waited(p)'
    BY <2>1, <2>2 DEF Waited
  <2>5. Killing(p) => Killing(p)'
    BY <2>1, SameSetup DEF Killing, SameLives
  <2>5b. Doomed(p) => Doomed(p)'
    BY TrackedSame DEF Doomed
  <2>6. Cleaned(p) => Cleaned(p)'
    <3>1. Dead(p) => Dead(p)'
      BY ChildrenSame
    <3>2. RealExit(p) => RealExit(p)'
      BY SameSetup, LastMember DEF RealExit, SameLives
    <3> QED
      BY <3>1, <3>2 DEF Cleaned
  <2> QED
    BY <2>1, <2>2, <2>3, <2>4, <2>5, <2>5b, <2>6 DEF Good
<1> QED
  BY <1>1, SameSetup DEF Ledger

-----------------------------------------------------------------------------
(* The children, the clock, the signal.                                    *)
LEMMA OutsideLedger ==
    ASSUME TypeInv, Ledger, Exec \/ Child \/ SignalHandler \/ TimePasses \/ UNCHANGED vars
    PROVE  Ledger'
<1>1. ASSUME NEW p \in Objects, NEW i \in Members(p), child[p][i].life \in Living,
             NEW c \in ChildStates, c.life \in Held, child' = [child EXCEPT ![p][i] = c],
             UNCHANGED <<setup, obj, run>>
      PROVE  Ledger'
  <2>1. ASSUME NEW q \in Objects PROVE SameLives(q)
    <3>0. setup' = setup /\ child' = [child EXCEPT ![p][i] = c]
      BY <1>1
    <3>1. /\ child'[p][i] = c
          /\ \A j \in Members(q) : <<q, j>> # <<p, i>> => child'[q][j] = child[q][j]
      <4>1. \A r \in Objects : \A j \in Members(r) :
                <<r, j>> # <<p, i>> => child'[r][j] = child[r][j]
        BY <3>0, ChildChange
      <4>2. child'[p][i] = c
        BY <3>0, ChildChange
      <4> QED
        BY <4>1, <4>2
    <3> QED
      BY <1>1, <3>1 DEF SameLives, Held, Living
  <2> QED
    BY <1>1, <2>1, LedgerKept
<1>2. \A p \in Objects : \A i \in Members(p) : child[p][i] \in ChildStates
  BY Here DEF TypedKernel, Children, ChildStates
<1>3. ASSUME NEW p \in Objects, NEW i \in Members(p), ExecSucceeds(p, i) PROVE Ledger'
  <2> DEFINE e == [child[p][i] EXCEPT !.life = "running"]
  <2>1. e \in ChildStates /\ e.life \in Held
    BY <1>2 DEF ChildStates, Held, Living
  <2>2. PICK c \in ChildStates : c = e
    BY <2>1
  <2>3. child' = [child EXCEPT ![p][i] = e] /\ child[p][i].life \in Living /\ UNCHANGED <<setup, obj, run>>
    BY <1>3 DEF ExecSucceeds, Living
  <2> HIDE DEF e
  <2> QED
    BY <1>1, <2>1, <2>2, <2>3
<1>4. ASSUME NEW p \in Objects, NEW i \in Members(p), ExecFails(p, i) PROVE Ledger'
  <2> DEFINE c == [life |-> "zombie", status |-> "exec"]
  <2>1. c \in ChildStates /\ c.life \in Held
    BY DEF ChildStates, Held, Statuses
  <2>2. child' = [child EXCEPT ![p][i] = c] /\ child[p][i].life \in Living /\ UNCHANGED <<setup, obj, run>>
    BY <1>4 DEF ExecFails, Living
  <2> HIDE DEF c
  <2> QED
    BY <1>1, <2>1, <2>2
<1>5. ASSUME NEW p \in Objects, NEW i \in Members(p), ChildExits(p, i) PROVE Ledger'
  <2>1. PICK st \in Statuses \ {"exec"} : child' = [child EXCEPT ![p][i] = [life |-> "zombie", status |-> st]]
    BY <1>5 DEF ChildExits
  <2> DEFINE c == [life |-> "zombie", status |-> st]
  <2>2. c \in ChildStates /\ c.life \in Held
    BY DEF ChildStates, Held, Statuses
  <2>3. child' = [child EXCEPT ![p][i] = c] /\ child[p][i].life \in Living /\ UNCHANGED <<setup, obj, run>>
    BY <1>5, <2>1 DEF ChildExits, Living
  <2> HIDE DEF c
  <2> QED
    BY <1>1, <2>2, <2>3
<1>6. ASSUME UNCHANGED <<setup, obj, child>>, run' = run \/ run' = [run EXCEPT !.late = TRUE] PROVE Ledger'
  <2>1. run'.pc = run.pc /\ run'.p = run.p /\ run'.i = run.i /\ run'.cause = run.cause
    BY <1>6, Here DEF Runs
  <2> QED
    BY <1>6, <2>1, NoLivesChange, LedgerKept
<1>7. ASSUME NEW p \in Objects, NEW i \in Members(p), WritesData(p, i) PROVE Ledger'
  BY <1>6, <1>7 DEF WritesData
<1>8. ASSUME NEW p \in Objects, GrandchildrenExit(p) PROVE Ledger'
  BY <1>6, <1>8 DEF GrandchildrenExit
<1>9. CASE SignalHandler
  BY <1>6, <1>9 DEF SignalHandler
<1>10. CASE TimePasses
  BY <1>6, <1>10 DEF TimePasses
<1>11. CASE UNCHANGED vars
  BY <1>6, <1>11 DEF vars
<1> QED
  BY <1>3, <1>4, <1>5, <1>7, <1>8, <1>9, <1>10, <1>11 DEF Exec, Child

-----------------------------------------------------------------------------
(* The program                                                             *)
LEMMA RestingLedger ==
    ASSUME TypeInv, Ledger, run.pc = "user", UNCHANGED <<setup, child, run>>,
           NEW p \in Objects, obj[p].state # "Executing",
           \A q \in Objects : q # p => obj'[q] = obj[q],
           obj'[p].state \in {"Starting", "Error", "none"},
           obj'[p].readEnds = {} \/ obj'[p].readEnds = obj[p].readEnds,
           ~obj'[p].signalPipe \/ obj'[p].signalPipe = obj[p].signalPipe
    PROVE  Ledger'
<1>1. Dead(p) /\ Closed(p)
  BY DEF Ledger, Good, Mine, Settled
<1>2. Dead(p)' /\ Closed(p)' /\ RealExit(p)'
  BY <1>1, SameSetup DEF Dead, Closed, RealExit
<1>3. Good(p)' /\ Turn(p)
  BY <1>2 DEF Good, Mine, Settled, Turn
<1>4. \A q \in Objects : SameLives(q)
  BY NoLivesChange
<1> QED
  BY <1>3, <1>4, LedgerStep

LEMMA ExecuteLedger ==
    ASSUME TypeInv, Ledger, NEW p \in Objects, Execute(p)
    PROVE  Ledger'
<1>1. setup' = setup /\ run' = [Idle EXCEPT !.pc = "add", !.p = p, !.call = "Execute"]
  BY DEF Execute
<1>2. run'.pc = "add" /\ run'.p = p /\ run.pc = "user"
  BY <1>1 DEF Idle, Execute, At
<1>3. obj'[p] = Initialized(p) /\ \A q \in Objects : q # p => obj'[q] = obj[q]
  BY InitializedTyped, ObjectChange DEF Execute, ObjectKept
<1>4. /\ child'[p] = [i \in Members(p) |-> [life |-> "none", status |-> "exit 0"]]
      /\ \A q \in Objects : q # p => child'[q] = child[q]
  BY Here DEF Execute, TypedKernel
<1>5. \A i \in Members(p) : child'[p][i].life = "none"
  <2> DEFINE unborn == [life |-> "none", status |-> "exit 0"]
  <2>1. child'[p] = [i \in Members(p) |-> unborn] /\ unborn.life = "none"
    BY <1>4
  <2> HIDE DEF unborn
  <2> QED
    BY <2>1
<1>6. Tracked(p)'
  BY <1>1, <1>3, <1>5, SameSetup, InitializedTyped DEF Tracked, Held, Living
<1>7. Prepared(p)'
  <2>1. Members(p)' = Members(p)
    BY <1>1, SameSetup
  <2>2. \A i : ~Begun(i)'
    BY <1>2 DEF Begun, Starting
  <2>3. obj'[p].state = "Starting" /\ Closed(p)'
    BY <1>3, InitializedTyped DEF Closed
  <2> QED
    BY <1>2, <1>5, <1>6, <2>1, <2>2, <2>3 DEF Prepared, Begun
<1>8. Good(p)' /\ Turn(p)
  BY <1>2, <1>7 DEF Good, Mine, Turn, Preparing, Waiting, Cleaning, Taking
<1>9. \A q \in Objects : q # p => SameLives(q)
  BY <1>4 DEF SameLives
<1> QED
  BY <1>1, <1>3, <1>8, <1>9, LedgerStep

LEMMA WaitLedger ==
    ASSUME TypeInv, Ledger, NEW p \in Objects, NEW call, NEW timeout, Wait(p, call, timeout)
    PROVE  Ledger'
<1>1. UNCHANGED <<setup, obj, child>> /\ run.pc = "user" /\ obj[p].state = "Executing"
  BY DEF Wait, At
<1>2. run'.pc = (IF NoMoreData(p) THEN "outcome" ELSE "handle") /\ run'.p = p
  BY DEF Wait, Idle
<1>3. Settled(p)
  BY <1>1 DEF Ledger, Good, Mine
<1>4. Settled(p)'
  BY <1>1, <1>3, NoLivesChange, SettledSame
<1>5. NoMoreData(p) => obj[p].readEnds = {}
  BY <1>1, <1>3 DEF NoMoreData, Settled, Healthy, Closed
<1>6. ~NoMoreData(p) => Healthy(p)
  BY DEF NoMoreData, Healthy, TypeInv, Broken
<1>7. Waited(p)'
  BY <1>1, <1>2, <1>4, <1>5, <1>6 DEF Waited, Healthy
<1>8. Good(p)' /\ Turn(p)
  BY <1>1, <1>2, <1>7 DEF Good, Mine, Turn, Preparing, Waiting, Cleaning, Taking
<1> QED
  BY <1>1, <1>8, NoLivesChange, LedgerStep

LEMMA KillBeginsLedger ==
    ASSUME TypeInv, Ledger, NEW p \in Objects, run.p = p \/ run.pc = "user",
           obj[p].state = "Executing", Working(p),
           NEW cause \in {"asked", "expired", "select"}, KillBegins(p, cause), UNCHANGED <<setup, child>>
    PROVE  Ledger'
<1>1. /\ obj'[p].state = "Executing" /\ ~obj'[p].signalPipe
      /\ obj'[p].forkPIDs = obj[p].forkPIDs /\ obj'[p].codes = obj[p].codes
      /\ \A q \in Objects : q # p => obj'[q] = obj[q]
  BY Here DEF KillBegins, Closing, TypedObjects, Object
<1>2. run'.pc = "closing" /\ run'.p = p
  BY Here DEF KillBegins, Runs
<1>3. Doomed(p)'
  BY <1>1, NoLivesChange, TrackedSame DEF Doomed, Working
<1>4. Good(p)' /\ Turn(p)
  BY <1>2, <1>3 DEF Good, Mine, Turn, Preparing, Waiting, Cleaning, Taking
<1> QED
  BY <1>1, <1>4, NoLivesChange, LedgerStep

LEMMA ClosePipesLedger ==
    ASSUME TypeInv, Ledger, ClosePipes
    PROVE  Ledger'
<1>0. run.pc = "closing" /\ UNCHANGED <<setup, child>>
  BY DEF ClosePipes, At
<1>1. PICK p \in Objects : p = run.p
  BY Here
<1>2. Doomed(p) /\ obj[p] \in Object(p)
  BY <1>0, <1>1, Here DEF Ledger, Good, Mine
<1> DEFINE m == [obj[p] EXCEPT !.readEnds = {}, !.pipeSet = {}, !.killed = TRUE]
<1>3. /\ m.killed /\ m.readEnds = {} /\ m.signalPipe = obj[p].signalPipe
      /\ m.state = obj[p].state /\ m.forkPIDs = obj[p].forkPIDs
  BY <1>2 DEF Object
<1>4. obj' = [obj EXCEPT ![p] = m]
  BY <1>1 DEF ClosePipes, Closing
<1> HIDE DEF m
<1>5. obj'[p] = m /\ \A q \in Objects : q # p => obj'[q] = obj[q]
  BY <1>4, Here DEF TypedObjects
<1>6. run'.pc = "kill" /\ run'.p = p /\ run'.i = 1 /\ run'.cause \in {"asked", "expired", "select"}
  <2>1. Go("kill")
    BY DEF ClosePipes
  <2> QED
    BY <1>0, <1>1, <2>1, Here DEF Go, Runs, TypeInv, Place
<1>7. \A i \in Members(p) :
          /\ i >= 1 /\ ~(i < 1)
          /\ (obj[p].forkPIDs[i] = "child") <=> (child[p][i].life \in Held)
          /\ obj[p].forkPIDs[i] # "-1"
  BY <1>2, LastMember DEF Doomed, Tracked
<1>8. Killing(p)'
  BY <1>0, <1>2, <1>3, <1>5, <1>6, <1>7, SameSetup DEF Killing, Closed, Doomed
<1>9. Good(p)' /\ Turn(p)
  BY <1>1, <1>6, <1>8 DEF Good, Mine, Turn, Preparing, Waiting, Cleaning, Taking
<1> QED
  BY <1>0, <1>5, <1>9, NoLivesChange, LedgerStep

LEMMA UserLedger ==
    ASSUME TypeInv, Ledger, User
    PROVE  Ledger'
<1>1. PICK p \in Objects : \/ New(p) \/ ExecuteNothing(p) \/ Execute(p) \/ WaitForExit(p)
                           \/ WaitForData(p) \/ Kill(p) \/ Delete(p)
  BY DEF User
<1>2. CASE New(p)
  <2>1. obj'[p] = Initialized(p) /\ \A q \in Objects : q # p => obj'[q] = obj[q]
    BY <1>2, InitializedTyped, ObjectChange DEF New, ObjectKept
  <2> QED
    BY <1>2, <2>1, InitializedTyped, RestingLedger DEF New, At
<1>3. ASSUME NEW s \in {"Error", "none"}, obj' = [obj EXCEPT ![p].state = s], At("user"),
             obj[p].state # "Executing", UNCHANGED <<setup, child, run>>
      PROVE  Ledger'
  <2>1. /\ obj'[p].state = s /\ obj'[p].readEnds = obj[p].readEnds
        /\ obj'[p].signalPipe = obj[p].signalPipe
        /\ \A q \in Objects : q # p => obj'[q] = obj[q]
    BY <1>3, Here DEF TypedObjects, Object
  <2> QED
    BY <1>3, <2>1, RestingLedger DEF At
<1>4. CASE ExecuteNothing(p)
  BY <1>3, <1>4 DEF ExecuteNothing
<1>5. CASE Execute(p)
  BY <1>5, ExecuteLedger
<1>6. CASE WaitForExit(p) \/ WaitForData(p)
  BY <1>6, WaitLedger DEF WaitForExit, WaitForData
<1>7. CASE Kill(p)
  <2>1. Working(p)
    BY <1>7 DEF Kill, At, Ledger, Good, Mine, Settled, Healthy
  <2> QED
    BY <1>7, <2>1, KillBeginsLedger DEF Kill, At
<1>8. CASE Delete(p)
  BY <1>3, <1>8, WaitLedger DEF Delete
<1> QED
  BY <1>1, <1>2, <1>4, <1>5, <1>6, <1>7, <1>8

-----------------------------------------------------------------------------
(* kwsysProcess_Execute                                                    *)
LEMMA PreparedHere ==
    ASSUME TypeInv, Ledger, run.pc \in Preparing, NEW q \in Objects, q = run.p
    PROVE  Prepared(q) /\ Healthy(q) /\ obj[q] \in Object(q)
BY Here DEF Ledger, Good, Mine, Preparing, TypeInv, Fresh

LEMMA FailsLedger ==
    ASSUME TypeInv, Ledger, run.pc \in Preparing, NEW kept, ExecuteFails(kept),
           UNCHANGED <<setup, child>>
    PROVE  Ledger'
<1>1. PICK q \in Objects : q = run.p
  BY Here
<1>2. Prepared(q)
  BY <1>1, PreparedHere
<1>3. /\ obj'[q].state = "Error" /\ obj'[q].forkPIDs = obj[q].forkPIDs
      /\ \A p \in Objects : p # q => obj'[p] = obj[p]
  BY <1>1, Here DEF ExecuteFails, TypedObjects, Object
<1>4. run'.pc = "kill" /\ run'.p = q /\ run'.i = 1 /\ run'.cause = "failed"
  BY <1>1, Here DEF ExecuteFails, Runs
<1>5. \A i \in Members(q) :
          /\ ~(i < 1)
          /\ (obj[q].forkPIDs[i] = "child") <=> (child[q][i].life \in Held)
          /\ obj[q].forkPIDs[i] # "-1"
  BY <1>2, LastMember DEF Prepared, Tracked
<1>6. Killing(q)'
  BY <1>3, <1>4, <1>5, SameSetup DEF Killing
<1>7. Good(q)' /\ Turn(q)
  BY <1>1, <1>4, <1>6 DEF Good, Mine, Turn, Preparing, Waiting, Cleaning, Taking
<1> QED
  BY <1>3, <1>7, NoLivesChange, LedgerStep

LEMMA GoesOnLedger ==
    ASSUME TypeInv, Ledger, run.pc \in Preparing, NEW q \in Objects, q = run.p,
           run'.pc \in Preparing \ {"add"}, run'.p = q,
           \A i \in Members(q) : Begun(i)' <=> Begun(i),
           obj'[q].state = obj[q].state, obj'[q].signalPipe,
           obj'[q].forkPIDs = obj[q].forkPIDs, obj'[q].codes = obj[q].codes,
           \A p \in Objects : p # q => obj'[p] = obj[p], UNCHANGED <<setup, child>>
    PROVE  Ledger'
<1>1. Prepared(q)
  BY PreparedHere
<1>2. Tracked(q)'
  BY <1>1, NoLivesChange, TrackedSame DEF Prepared
<1>3. \A i \in Members(q) :
          child'[q][i].life # "gone" /\ (child'[q][i].life # "none" <=> Begun(i)')
  BY <1>1 DEF Prepared
<1>4. obj'[q].state = "Starting" /\ Members(q)' = Members(q) /\ run'.pc # "add"
  BY <1>1, SameSetup DEF Prepared
<1>5. Prepared(q)'
  BY <1>2, <1>3, <1>4 DEF Prepared
<1>6. Good(q)' /\ Turn(q)
  BY <1>5 DEF Good, Mine, Turn, Preparing, Waiting, Cleaning, Taking
<1> QED
  BY <1>6, NoLivesChange, LedgerStep

LEMMA AddLedger ==
    ASSUME TypeInv, Ledger, AddSignalPipe \/ AddAppend \/ AddInstall \/ SetupStderr \/ CreateStdout
    PROVE  Ledger'
<1>0. UNCHANGED <<setup, child>> /\ run.pc \in {"add", "append", "install", "stderr", "create"}
  BY DEF AddSignalPipe, AddAppend, AddInstall, SetupStderr, CreateStdout, At
<1>1. PICK q \in Objects : q = run.p
  BY Here
<1>2. run.pc \in Preparing /\ Prepared(q) /\ obj[q] \in Object(q)
  BY <1>0, <1>1, PreparedHere DEF Preparing
<1>3. ASSUME NEW kept, ExecuteFails(kept) PROVE Ledger'
  BY <1>0, <1>2, <1>3, FailsLedger
<1>4. ASSUME NEW step \in {"append", "install", "stderr"}, Go(step),
             obj'[q].state = obj[q].state, obj'[q].signalPipe,
             obj'[q].forkPIDs = obj[q].forkPIDs, obj'[q].codes = obj[q].codes,
             \A p \in Objects : p # q => obj'[p] = obj[p],
             run.pc \in {"add", "append", "install"}
      PROVE  Ledger'
  <2>1. run'.pc = step /\ run'.p = q
    BY <1>1, <1>4, Here DEF Go, Runs
  <2>2. \A i : ~Begun(i) /\ ~Begun(i)'
    BY <1>4, <2>1 DEF Begun, Starting
  <2> QED
    BY <1>0, <1>1, <1>2, <1>4, <2>1, <2>2, GoesOnLedger DEF Preparing
<1>5. CASE AddSignalPipe
  <2>1. CASE obj' = [obj EXCEPT ![run.p].readEnds = {"SIGNAL"}, ![run.p].signalPipe = TRUE]
             /\ Go("append")
    <3>1. /\ obj'[q].state = obj[q].state /\ obj'[q].signalPipe
          /\ obj'[q].forkPIDs = obj[q].forkPIDs /\ obj'[q].codes = obj[q].codes
          /\ \A p \in Objects : p # q => obj'[p] = obj[p]
      BY <1>1, <1>2, <2>1, Here DEF TypedObjects, Object
    <3> QED
      BY <1>4, <1>5, <2>1, <3>1 DEF AddSignalPipe, At
  <2> QED
    BY <1>3, <1>5, <2>1 DEF AddSignalPipe
<1>6. CASE AddAppend \/ AddInstall
  <2>1. obj' = obj /\ run.pc \in {"append", "install"} /\ (Go("install") \/ Go("stderr"))
    BY <1>6 DEF AddAppend, AddInstall, At
  <2>2. obj[q].signalPipe
    BY <1>1, <1>2, <2>1 DEF Prepared
  <2> QED
    BY <1>4, <2>1, <2>2
<1>7. CASE SetupStderr
  <2>0. run.pc = "stderr"
    BY <1>7 DEF SetupStderr, At
  <2>1. CASE obj' = [obj EXCEPT ![run.p].readEnds = @ \cup {"STDERR"}] /\ GoTo("create", 1)
    <3>1. /\ obj'[q].state = obj[q].state /\ obj'[q].signalPipe = obj[q].signalPipe
          /\ obj'[q].forkPIDs = obj[q].forkPIDs /\ obj'[q].codes = obj[q].codes
          /\ \A p \in Objects : p # q => obj'[p] = obj[p]
      BY <1>1, <1>2, <2>1, Here DEF TypedObjects, Object
    <3>2. run'.pc = "create" /\ run'.p = q /\ run'.i = 1
      BY <1>1, <2>1, Here DEF GoTo, Runs
    <3>3. \A i \in Members(q) : ~Begun(i) /\ ~Begun(i)'
      BY <2>0, <3>2, LastMember DEF Begun, Starting
    <3>4. obj[q].signalPipe
      BY <1>2, <2>0 DEF Prepared
    <3> QED
      BY <1>0, <1>1, <1>2, <3>1, <3>2, <3>3, <3>4, GoesOnLedger DEF Preparing
  <2> QED
    BY <1>3, <1>7, <2>1 DEF SetupStderr
<1>8. CASE CreateStdout
  <2>0. run.pc = "create"
    BY <1>8 DEF CreateStdout, At
  <2>1. CASE obj' = obj /\ Go("fork")
    <3>2. run'.pc = "fork" /\ run'.p = q /\ run'.i = run.i
      BY <1>1, <2>1, Here DEF Go, Runs
    <3>3. \A i \in Members(q) : Begun(i)' <=> Begun(i)
      BY <2>0, <3>2 DEF Begun, Starting
    <3>4. obj[q].signalPipe
      BY <1>2, <2>0 DEF Prepared
    <3> QED
      BY <1>0, <1>1, <1>2, <2>1, <3>2, <3>3, <3>4, GoesOnLedger DEF Preparing
  <2> QED
    BY <1>3, <1>8, <2>1 DEF CreateStdout
<1> QED
  BY <1>5, <1>6, <1>7, <1>8

LEMMA ForkLedger ==
    ASSUME SafeForks, TypeInv, Ledger, Fork
    PROVE  Ledger'
<1>0. setup' = setup /\ run.pc = "fork"
  BY DEF Fork, At
<1>1. PICK q \in Objects : q = run.p
  BY Here
<1>2. Prepared(q) /\ obj[q] \in Object(q) /\ obj[q].signalPipe /\ obj[q].state = "Starting"
  BY <1>0, <1>1, PreparedHere DEF Preparing, Prepared
<1>3. PICK i \in Members(q) : i = run.i
  BY <1>0, <1>1 DEF TypeInv, Place, Starting
<1>4. /\ \A j \in Members(q) : j \in Nat /\ child[q][j].life # "gone"
      /\ \A j \in Members(q) : (child[q][j].life # "none") <=> (j < i)
      /\ \A j \in Members(q) : obj[q].forkPIDs[j] = IF child[q][j].life \in Held THEN "child" ELSE "0"
  BY <1>0, <1>2, <1>3, LastMember DEF Prepared, Tracked, Begun, Starting
<1>5. CASE /\ child' = [child EXCEPT ![run.p][run.i].life = "forked"]
           /\ obj' = [obj EXCEPT ![run.p].forkPIDs[run.i] = "child",
                                 ![run.p].commandsLeft = @ + 1]
           /\ Go("forked")
  <2> DEFINE c == [child[q][i] EXCEPT !.life = "forked"]
             pids == [obj[q].forkPIDs EXCEPT ![i] = "child"]
             m == [obj[q] EXCEPT !.forkPIDs = pids, !.commandsLeft = @ + 1]
  <2>1. c \in ChildStates /\ c.life = "forked"
    BY Here DEF TypedKernel, Children, ChildStates, Living
  <2>2. child' = [child EXCEPT ![q][i] = c]
    BY <1>1, <1>3, <1>5
  <2>3. obj' = [obj EXCEPT ![q] = m]
    BY <1>1, <1>3, <1>5
  <2>4. pids[i] = "child" /\ \A j \in Members(q) : j # i => pids[j] = obj[q].forkPIDs[j]
    BY <1>2 DEF Object
  <2> HIDE DEF c
  <2>5. /\ child'[q][i].life = "forked"
        /\ \A j \in Members(q) : j # i => child'[q][j] = child[q][j]
        /\ \A p \in Objects : p # q => \A j \in Members(p) : child'[p][j] = child[p][j]
    <3>0. setup' = setup
      BY <1>0
    <3>1. /\ child'[q][i] = c
          /\ \A r \in Objects : \A j \in Members(r) : <<r, j>> # <<q, i>> => child'[r][j] = child[r][j]
      <4>1. \A r \in Objects : \A j \in Members(r) :
                <<r, j>> # <<q, i>> => child'[r][j] = child[r][j]
        BY <2>1, <2>2, <3>0, ChildChange
      <4>2. child'[q][i] = c
        BY <2>1, <2>2, <3>0, ChildChange
      <4> QED
        BY <4>1, <4>2
    <3> QED
      BY <2>1, <3>1
  <2>6. /\ m.forkPIDs = pids /\ m.codes = obj[q].codes /\ m.state = "Starting" /\ m.signalPipe
    <3> HIDE DEF pids
    <3> QED
      BY <1>2 DEF Object
  <2> HIDE DEF m, pids
  <2>7. obj'[q] = m /\ \A p \in Objects : p # q => obj'[p] = obj[p]
    BY <2>3, Here DEF TypedObjects
  <2>8. run'.pc = "forked" /\ run'.p = q /\ run'.i = i
    BY <1>1, <1>3, <1>5, Here DEF Go, Runs
  <2>9. Members(q)' = Members(q)
    BY <1>0, SameSetup
  <2>10. ASSUME NEW j \in Members(q)
         PROVE  /\ obj'[q].forkPIDs[j] = IF child'[q][j].life \in Held THEN "child" ELSE "0"
                /\ child'[q][j].life # "gone"
                /\ (child'[q][j].life # "none") <=> (j < i \/ j = i)
    <3>1. CASE j = i
      BY <2>4, <2>5, <2>6, <2>7, <3>1 DEF Held, Living
    <3>2. CASE j # i
      BY <1>4, <2>4, <2>5, <2>6, <2>7, <3>2
    <3> QED
      BY <3>1, <3>2
  <2>11. Tracked(q)'
    BY <2>9, <2>10 DEF Tracked
  <2>12. Prepared(q)'
    BY <2>6, <2>7, <2>8, <2>9, <2>10, <2>11 DEF Prepared, Begun, Starting
  <2>13. Good(q)' /\ Turn(q)
    BY <1>1, <2>8, <2>12 DEF Good, Mine, Turn, Preparing, Waiting, Cleaning, Taking
  <2>14. \A p \in Objects : p # q => SameLives(p)
    BY <2>5 DEF SameLives
  <2> QED
    BY <1>0, <2>7, <2>13, <2>14, LedgerStep
<1>6. CASE /\ MayFail("fork")
           /\ obj' = [obj EXCEPT ![run.p].state = "Error", ![run.p].forkPIDs[run.i] = "-1"]
           /\ run' = [run EXCEPT !.pc = "kill", !.i = 1, !.cause = "failed"]
           /\ UNCHANGED child
  <2> DEFINE pids == [obj[q].forkPIDs EXCEPT ![i] = "-1"]
             m == [obj[q] EXCEPT !.state = "Error", !.forkPIDs = pids]
  <2>1. obj' = [obj EXCEPT ![q] = m]
    BY <1>1, <1>3, <1>6
  <2>2. pids[i] = "-1" /\ \A j \in Members(q) : j # i => pids[j] = obj[q].forkPIDs[j]
    BY <1>2 DEF Object
  <2>3. m.forkPIDs = pids /\ m.state = "Error"
    <3> HIDE DEF pids
    <3> QED
      BY <1>2 DEF Object
  <2> HIDE DEF m, pids
  <2>4. obj'[q] = m /\ \A p \in Objects : p # q => obj'[p] = obj[p]
    BY <2>1, Here DEF TypedObjects
  <2>5. run'.pc = "kill" /\ run'.p = q /\ run'.i = 1 /\ run'.cause = "failed"
    BY <1>1, <1>6, Here DEF Runs
  <2>6. Members(q)' = Members(q) /\ Objects' = Objects
    BY <1>0, SameSetup
  <2>7. Objects = {q}
    BY <1>6, OneObject
  <2>8. ASSUME NEW j \in Members(q)
        PROVE  /\ ~(j < 1)
               /\ (obj'[q].forkPIDs[j] = "child") <=> (child[q][j].life \in Held)
               /\ obj'[q].forkPIDs[j] = "-1" => j = i
               /\ j > i => obj'[q].forkPIDs[j] = "0"
    <3>1. j \in Nat /\ j >= 1 /\ i \in Nat
      BY LastMember
    <3>2. CASE j = i
      <4>1. child[q][i].life = "none"
        BY <1>4, <3>1
      <4> QED
        BY <2>2, <2>3, <2>4, <3>1, <3>2, <4>1 DEF Held, Living
    <3>3. CASE j # i
      <4>1. j > i => child[q][j].life = "none"
        BY <1>4, <3>1
      <4> QED
        BY <1>4, <2>2, <2>3, <2>4, <3>1, <3>3, <4>1 DEF Held, Living
    <3> QED
      BY <3>2, <3>3
  <2>9. Killing(q)'
    <3>1. obj'[q].state = "Error"
      BY <2>3, <2>4
    <3>2. ASSUME NEW j \in Members(q)
          PROVE  /\ j < 1 => child'[q][j].life \notin Held
                 /\ j >= 1 => ((obj'[q].forkPIDs[j] = "child") <=> (child'[q][j].life \in Held))
                 /\ obj'[q].forkPIDs[j] = "-1" =>
                       \A k \in Members(q) : k > j => obj'[q].forkPIDs[k] = "0"
      BY <1>6, <2>8
    <3> QED
      BY <2>5, <2>6, <2>7, <3>1, <3>2 DEF Killing
  <2>10. Good(q)' /\ Turn(q)
    BY <1>1, <2>5, <2>9 DEF Good, Mine, Turn, Preparing, Waiting, Cleaning, Taking
  <2> QED
    BY <1>0, <1>6, <2>4, <2>10, NoLivesChange, LedgerStep
<1> QED
  BY <1>5, <1>6 DEF Fork

LEMMA ForkedLedger ==
    ASSUME TypeInv, Ledger, Forked
    PROVE  Ledger'
<1>0. UNCHANGED <<setup, child>> /\ run.pc = "forked"
  BY DEF Forked, At
<1>1. PICK q \in Objects : q = run.p
  BY Here
<1>2. /\ Prepared(q) /\ obj[q] \in Object(q) /\ obj[q].signalPipe /\ Healthy(q)
      /\ run.pc \in Preparing
  BY <1>0, <1>1, PreparedHere DEF Preparing, Prepared
<1>3. PICK i \in Members(q) : i = run.i
  BY <1>0, <1>1 DEF TypeInv, Place, Starting
<1>4. CASE ExecuteFails({"0"})
  BY <1>0, <1>2, <1>4, FailsLedger
<1>5. CASE GoTo("create", run.i + 1) /\ UNCHANGED obj
  <2>1. run'.pc = "create" /\ run'.p = q /\ run'.i = i + 1
    BY <1>1, <1>3, <1>5, Here DEF GoTo, Runs
  <2>2. \A j \in Members(q) : Begun(j)' <=> Begun(j)
    BY <1>0, <1>3, <2>1, LastMember DEF Begun, Starting
  <2> QED
    BY <1>0, <1>1, <1>2, <1>5, <2>1, <2>2, GoesOnLedger DEF Preparing
<1>6. CASE /\ ~(run.i < Commands[run.p])
           /\ obj' = [obj EXCEPT ![run.p].readEnds = @ \cup {"STDOUT"},
                                 ![run.p].state = "Executing"]
           /\ run' = Idle
  <2>1. /\ obj'[q].state = "Executing" /\ obj'[q].signalPipe /\ obj'[q].forkPIDs = obj[q].forkPIDs
        /\ obj'[q].codes = obj[q].codes /\ obj'[q].commandsLeft = obj[q].commandsLeft
        /\ obj'[q].killed = obj[q].killed /\ obj'[q].expired = obj[q].expired
        /\ obj'[q].selectError = obj[q].selectError
        /\ \A p \in Objects : p # q => obj'[p] = obj[p]
    BY <1>1, <1>2, <1>6, Here DEF TypedObjects, Object
  <2>2. run'.pc = "user"
    BY <1>6 DEF Idle
  <2>3. i = Commands[q] /\ \A j \in Members(q) : j < i \/ j = i
    BY <1>1, <1>3, <1>6, LastMember
  <2>4. \A j \in Members(q) : child[q][j].life \notin {"none", "gone"}
    BY <1>0, <1>2, <1>3, <2>3 DEF Prepared, Begun, Starting
  <2>5. obj[q].commandsLeft # 0
    <3>1. obj[q].commandsLeft = Cardinality(Started(q)) /\ IsFiniteSet(Started(q))
      <4>1. Counting(q)
        BY <1>0, <1>1 DEF Counting, Mine, Preparing
      <4> QED
        BY <4>1, StartedFinite, Here DEF TypeInv, Counted
    <3>2. child[q][i].life \in Held
      BY <2>4, Here DEF TypedKernel, Children, Held
    <3>3. i \in Started(q)
      BY <1>2, <3>2 DEF Prepared, Tracked, Started
    <3> QED
      BY <3>1, <3>3, FS_EmptySet
  <2>6. Tracked(q)'
    BY <1>0, <1>2, <2>1, NoLivesChange, TrackedSame DEF Prepared
  <2>7. Healthy(q)' /\ Members(q)' = Members(q) /\ Commands[q]' = Commands[q] /\ Commands[q] >= 1
    BY <1>0, <1>2, <2>1, <2>3, SameSetup, LastMember DEF Healthy
  <2>8. Working(q)'
    BY <1>0, <2>1, <2>4, <2>5, <2>6, <2>7 DEF Working
  <2>9. Good(q)' /\ Turn(q)
    BY <1>1, <2>1, <2>2, <2>7, <2>8 DEF Good, Mine, Turn, Settled
  <2> QED
    BY <1>0, <2>1, <2>9, NoLivesChange, LedgerStep
<1> QED
  BY <1>4, <1>5, <1>6 DEF Forked

-----------------------------------------------------------------------------
(* kwsysProcess_WaitForData and kwsysProcess_WaitForExit                   *)

(* What a step of waiting keeps of the object when it reaps nobody.        *)
Unreaped(q) ==
    /\ obj'[q].state = obj[q].state /\ obj'[q].signalPipe = obj[q].signalPipe
    /\ obj'[q].forkPIDs = obj[q].forkPIDs /\ obj'[q].codes = obj[q].codes
    /\ obj'[q].commandsLeft = obj[q].commandsLeft
    /\ obj'[q].killed = obj[q].killed /\ obj'[q].expired = obj[q].expired
    /\ obj'[q].selectError = obj[q].selectError
    /\ \A p \in Objects : p # q => obj'[p] = obj[p]

LEMMA WaitedHere ==
    ASSUME TypeInv, Ledger, run.pc \in {"handle", "reap"}, NEW q \in Objects, q = run.p
    PROVE  obj[q].state = "Executing" /\ Healthy(q) /\ Working(q) /\ obj[q] \in Object(q)
<1>1. Waited(q)
  BY DEF Ledger, Good, Mine, Waiting
<1> QED
  BY <1>1, Here DEF Waited, Settled

LEMMA WaitedStep ==
    ASSUME TypeInv, Ledger, run.pc \in {"handle", "reap"}, NEW q \in Objects, q = run.p,
           setup' = setup, \A p \in Objects : p # q => SameLives(p),
           obj'[q].state = "Executing", Healthy(q)', Working(q)',
           \A p \in Objects : p # q => obj'[p] = obj[p],
           run'.p = q \/ run'.pc = "user", run'.pc \in {"handle", "reap", "outcome", "user"},
           run'.pc = "outcome" => obj'[q].readEnds = {}
    PROVE  Ledger'
<1>1. Settled(q)'
  BY DEF Settled
<1>2. Waited(q)'
  BY <1>1 DEF Waited
<1>3. Good(q)' /\ Turn(q)
  BY <1>1, <1>2 DEF Good, Mine, Turn, Preparing, Waiting, Cleaning, Taking
<1> QED
  BY <1>3, LedgerStep

LEMMA ReadStepLedger ==
    ASSUME TypeInv, Ledger, run.pc \in {"handle", "reap"}, NEW q \in Objects, q = run.p,
           setup' = setup, child' = child, Unreaped(q),
           run'.p = q \/ run'.pc = "user", run'.pc \in {"handle", "reap", "outcome", "user"},
           run'.pc = "outcome" => obj'[q].readEnds = {}
    PROVE  Ledger'
<1>1. obj[q].state = "Executing" /\ Healthy(q) /\ Working(q)
  BY WaitedHere
<1>2. Healthy(q)' /\ obj'[q].state = "Executing"
  BY <1>1 DEF Unreaped, Healthy
<1>3. Tracked(q)'
  BY <1>1, NoLivesChange, TrackedSame DEF Working, Unreaped
<1>4. Working(q)'
  BY <1>1, <1>3, SameSetup DEF Working, Unreaped
<1> QED
  BY <1>2, <1>4, NoLivesChange, WaitedStep DEF Unreaped

LEMMA ReadLedger ==
    ASSUME TypeInv, Ledger, ReadOutput \/ ReadSignal
    PROVE  Ledger'
<1>0. setup' = setup /\ child' = child /\ run.pc = "handle"
  BY DEF ReadOutput, ReadSignal, At
<1>1. PICK q \in Objects : q = run.p
  BY Here
<1>2. ASSUME NEW k, obj' = [obj EXCEPT ![run.p] = Keep(k)] \/ obj' = [obj EXCEPT ![run.p] = Close(k)]
      PROVE  Unreaped(q)
  <2>1. CASE obj' = [obj EXCEPT ![run.p] = Keep(k)]
    <3>1. obj'[q] = [obj[q] EXCEPT !.pipeSet = @ \ {k}] /\ \A p \in Objects : p # q => obj'[p] = obj[p]
      BY <1>1, <2>1, Here DEF TypedObjects, Keep, Me
    <3> QED
      BY <3>1, Here DEF Unreaped, Object
  <2>2. CASE obj' = [obj EXCEPT ![run.p] = Close(k)]
    <3>1. /\ obj'[q] = [obj[q] EXCEPT !.readEnds = @ \ {k}, !.pipeSet = @ \ {k}]
          /\ \A p \in Objects : p # q => obj'[p] = obj[p]
      BY <1>1, <2>2, Here DEF TypedObjects, Close, Me
    <3> QED
      BY <3>1, Here DEF Unreaped, Object
  <2> QED
    BY <1>2, <2>1, <2>2
<1>3. CASE ReadOutput
  <2>1. Unreaped(q)
    BY <1>2, <1>3 DEF ReadOutput
  <2>2. run' = run \/ run' = Idle
    BY <1>3 DEF ReadOutput
  <2>3. (run'.p = q \/ run'.pc = "user") /\ run'.pc \in {"handle", "user"}
    BY <1>0, <1>1, <2>2 DEF Idle
  <2> QED
    BY <1>0, <1>1, <2>1, <2>3, ReadStepLedger
<1>4. CASE ReadSignal
  <2>1. Unreaped(q)
    BY <1>2, <1>4 DEF ReadSignal
  <2>2. run' = run \/ GoTo("reap", 1)
    BY <1>4 DEF ReadSignal
  <2>3. run'.p = q /\ run'.pc \in {"handle", "reap"}
    BY <1>0, <1>1, <2>2, Here DEF GoTo, Runs
  <2> QED
    BY <1>0, <1>1, <2>1, <2>3, ReadStepLedger
<1> QED
  BY <1>3, <1>4

LEMMA ReapedLedger ==
    ASSUME TypeInv, Ledger, run.pc = "reap", run.i <= Commands[run.p], GoTo("reap", run.i + 1),
           Zombie(run.p, run.i),
           child' = [child EXCEPT ![run.p][run.i].life = "gone"],
           obj' = [obj EXCEPT ![run.p] = Reaped(child[run.p][run.i].status)], setup' = setup
    PROVE  Ledger'
<1>1. PICK q \in Objects : q = run.p
  BY Here
<1>2. PICK i \in Members(q) : i = run.i
  BY <1>1, Here DEF TypeInv, Place
<1>3. obj[q].state = "Executing" /\ Healthy(q) /\ Working(q) /\ obj[q] \in Object(q)
  BY <1>1, WaitedHere
<1> DEFINE st == child[q][i].status
           c == [child[q][i] EXCEPT !.life = "gone"]
           pids == [obj[q].forkPIDs EXCEPT ![i] = "0"]
           codes == [obj[q].codes EXCEPT ![i] = st]
           last == obj[q].commandsLeft # 1
           m == [obj[q] EXCEPT !.forkPIDs = pids, !.codes = codes, !.commandsLeft = @ - 1,
                               !.signalPipe = @ /\ last]
<1>4. c \in ChildStates /\ c.life = "gone" /\ c.status = st
  BY Here DEF TypedKernel, Children, ChildStates
<1>5. child' = [child EXCEPT ![q][i] = c]
  BY <1>1, <1>2
<1>6. obj' = [obj EXCEPT ![q] = m]
  BY <1>1, <1>2 DEF Reaped, Me
<1>7. /\ pids[i] = "0" /\ \A j \in Members(q) : j # i => pids[j] = obj[q].forkPIDs[j]
      /\ codes[i] = st /\ \A j \in Members(q) : j # i => codes[j] = obj[q].codes[j]
  BY <1>3 DEF Object
<1>8. last \in BOOLEAN
  OBVIOUS
<1>9. obj[q].commandsLeft \in Nat /\ obj[q].commandsLeft # 0
  <2>1. obj[q].commandsLeft = Cardinality(Started(q)) /\ IsFiniteSet(Started(q))
    <3>1. Counting(q)
      BY <1>3 DEF Counting
    <3> QED
      BY <3>1, StartedFinite, Here DEF TypeInv, Counted
  <2>2. child[q][i].life \in Held
    BY <1>1, <1>2 DEF Zombie, Held
  <2>3. i \in Started(q)
    BY <1>3, <2>2 DEF Working, Tracked, Started
  <2> QED
    BY <2>1, <2>3, FS_EmptySet, StartedFinite, Here
<1> HIDE DEF c, pids, codes, st
<1>10. /\ m.forkPIDs = pids /\ m.codes = codes /\ m.state = "Executing"
       /\ m.killed = obj[q].killed /\ m.expired = obj[q].expired /\ m.selectError = obj[q].selectError
       /\ m.commandsLeft = obj[q].commandsLeft - 1
       /\ m.signalPipe = (obj[q].signalPipe /\ obj[q].commandsLeft # 1)
  BY <1>3 DEF Object
<1> HIDE DEF m, last
<1>11. obj'[q] = m /\ \A p \in Objects : p # q => obj'[p] = obj[p]
  BY <1>6, Here DEF TypedObjects
<1>12. /\ child'[q][i] = c
       /\ \A r \in Objects : \A j \in Members(r) : <<r, j>> # <<q, i>> => child'[r][j] = child[r][j]
  <2>1. \A r \in Objects : \A j \in Members(r) :
            <<r, j>> # <<q, i>> => child'[r][j] = child[r][j]
    <3>1. DOMAIN child = Objects /\ DOMAIN child[q] = Members(q)
      BY Here DEF TypedKernel, Children
    <3>2. child'[q] = [child[q] EXCEPT ![i] = c] /\ \A r \in Objects : r # q => child'[r] = child[r]
      BY <1>5, <3>1
    <3>3. \A j \in Members(q) : j # i => child'[q][j] = child[q][j]
      BY <3>1, <3>2
    <3> QED
      BY <3>2, <3>3
  <2>2. child'[q][i] = c
    BY <1>5, Here DEF TypedKernel, Children
  <2> QED
    BY <2>1, <2>2
<1>13. Members(q)' = Members(q) /\ Commands[q]' = Commands[q]
  BY SameSetup
<1>14. ASSUME NEW j \in Members(q)
       PROVE  /\ obj'[q].forkPIDs[j] = IF child'[q][j].life \in Held THEN "child" ELSE "0"
              /\ child'[q][j].life = "gone" => obj'[q].codes[j] = child'[q][j].status
              /\ child'[q][j].life # "none"
  <2>1. CASE j = i
    <3>1. child'[q][j] = c /\ obj'[q].forkPIDs[j] = pids[j] /\ obj'[q].codes[j] = codes[j]
      BY <1>10, <1>11, <1>12, <2>1
    <3> QED
      BY <1>4, <1>7, <2>1, <3>1 DEF Held, Living
  <2>2. CASE j # i
    <3>1. /\ obj'[q].forkPIDs[j] = obj[q].forkPIDs[j] /\ obj'[q].codes[j] = obj[q].codes[j]
          /\ child'[q][j] = child[q][j]
      BY <1>7, <1>10, <1>11, <1>12, <2>2
    <3> QED
      BY <1>3, <3>1 DEF Working, Tracked
  <2> QED
    BY <2>1, <2>2
<1>15. Tracked(q)'
  BY <1>13, <1>14 DEF Tracked
<1>16. obj'[q].signalPipe <=> (obj'[q].commandsLeft # 0)
  <2>1. obj[q].signalPipe
    BY <1>3, <1>9 DEF Working
  <2>2. (obj'[q].commandsLeft # 0) <=> (obj[q].commandsLeft # 1)
    BY <1>9, <1>10, <1>11
  <2> QED
    BY <1>10, <1>11, <2>1, <2>2
<1>17. Working(q)'
  BY <1>3, <1>13, <1>14, <1>15, <1>16 DEF Working
<1>18. Healthy(q)' /\ obj'[q].state = "Executing"
  BY <1>3, <1>10, <1>11 DEF Healthy
<1>19. run'.p = q /\ run'.pc = "reap"
  BY <1>1, Here DEF GoTo, Runs
<1>20. \A p \in Objects : p # q => SameLives(p)
  BY <1>12 DEF SameLives
<1> QED
  BY <1>1, <1>11, <1>17, <1>18, <1>19, <1>20, WaitedStep

LEMMA ReapLedger ==
    ASSUME TypeInv, Ledger, Reap
    PROVE  Ledger'
<1>0. setup' = setup /\ run.pc = "reap"
  BY DEF Reap, At
<1>1. PICK q \in Objects : q = run.p
  BY Here
<1>2. Working(q)
  BY <1>0, <1>1, WaitedHere
<1>3. ASSUME UNCHANGED <<obj, child>>, Go("handle") \/ GoTo("reap", run.i + 1) PROVE Ledger'
  <2>1. run'.p = q /\ run'.pc \in {"handle", "reap"}
    BY <1>1, <1>3, Here DEF Go, GoTo, Runs
  <2> QED
    BY <1>0, <1>1, <1>3, <2>1, ReadStepLedger DEF Unreaped
<1>4. ASSUME run.i <= Commands[run.p], GoTo("reap", run.i + 1), Me.forkPIDs[run.i] # "0", WaitPid
      PROVE  Ledger'
  <2>1. PICK i \in Members(q) : i = run.i
    BY <1>0, <1>1, <1>4, Here DEF TypeInv, Place
  <2>2. child[run.p][run.i].life # "gone"
    BY <1>1, <1>2, <1>4, <2>1 DEF Working, Tracked, Held, Living, Me
  <2>3. CASE Zombie(run.p, run.i)
    <3>1. /\ child' = [child EXCEPT ![run.p][run.i].life = "gone"]
          /\ obj' = [obj EXCEPT ![run.p] = Reaped(child[run.p][run.i].status)]
      BY <1>4, <2>3 DEF WaitPid, Zombie
    <3>2. run.i <= Commands[run.p] /\ GoTo("reap", run.i + 1)
      BY <1>4
    <3> QED
      BY <1>0, <2>3, <3>1, <3>2, ReapedLedger
  <2>4. CASE ~Zombie(run.p, run.i)
    BY <1>3, <1>4, <2>2, <2>4 DEF WaitPid
  <2> QED
    BY <2>3, <2>4
<1>5. run.i > Commands[run.p] \/ run.i <= Commands[run.p]
  BY Here
<1> QED
  BY <1>3, <1>4, <1>5 DEF Reap

LEMMA SelectLedger ==
    ASSUME TypeInv, Ledger, Select \/ SelectFails
    PROVE  Ledger'
<1>0. setup' = setup /\ child' = child /\ run.pc = "handle"
  BY DEF Select, SelectFails, At
<1>1. PICK q \in Objects : q = run.p
  BY Here
<1>2. obj[q].state = "Executing" /\ Working(q)
  BY <1>0, <1>1, WaitedHere
<1>3. ASSUME NEW cause \in {"expired", "select"}, KillBegins(run.p, cause) PROVE Ledger'
  BY <1>0, <1>1, <1>2, <1>3, KillBeginsLedger
<1>4. ASSUME UNCHANGED obj, run' = Idle \/ (Me.readEnds = {} /\ Go("outcome")) PROVE Ledger'
  <2>1. Unreaped(q)
    BY <1>4 DEF Unreaped
  <2>2. /\ run'.p = q \/ run'.pc = "user"
        /\ run'.pc \in {"outcome", "user"}
        /\ run'.pc = "outcome" => obj'[q].readEnds = {}
    BY <1>1, <1>4, Here DEF Idle, Go, Runs, Me
  <2> QED
    BY <1>0, <1>1, <2>1, <2>2, ReadStepLedger
<1>5. CASE SelectFails
  BY <1>3, <1>5 DEF SelectFails
<1>6. CASE Select
  <2>1. CASE TimeoutExpires
    BY <1>3, <1>4, <2>1 DEF TimeoutExpires
  <2>2. CASE Me.readEnds = {} /\ EndOfData /\ UNCHANGED obj
    BY <1>4, <2>2 DEF EndOfData
  <2>3. CASE obj' = [obj EXCEPT ![run.p].pipeSet = Ready(run.p)] /\ UNCHANGED run
    <3>1. Unreaped(q)
      <4> DEFINE ready == Ready(run.p)
      <4>1. obj' = [obj EXCEPT ![q].pipeSet = ready]
        BY <1>1, <2>3
      <4> HIDE DEF ready
      <4>2. obj'[q] = [obj[q] EXCEPT !.pipeSet = ready] /\ \A p \in Objects : p # q => obj'[p] = obj[p]
        BY <4>1, Here DEF TypedObjects
      <4> QED
        BY <4>2, Here DEF Unreaped, Object
    <3> QED
      BY <1>0, <1>1, <2>3, <3>1, ReadStepLedger
  <2> QED
    BY <1>6, <2>1, <2>2, <2>3 DEF Select
<1> QED
  BY <1>5, <1>6

LEMMA WaitEndsLedger ==
    ASSUME TypeInv, Ledger, WaitEnds
    PROVE  Ledger'
<1>0. setup' = setup /\ child' = child /\ run.pc = "outcome"
  BY DEF WaitEnds, At
<1>1. PICK q \in Objects : q = run.p
  BY Here
<1>2. obj[q].state = "Executing" /\ Settled(q) /\ obj[q].readEnds = {} /\ obj[q] \in Object(q)
  <2>1. Waited(q)
    BY <1>0, <1>1 DEF Ledger, Good, Mine, Waiting
  <2> QED
    BY <1>0, <2>1, Here DEF Waited
<1>3. PICK s \in States \ {"Executing"} : s = Outcome(Me, Commands[run.p])
  BY DEF Outcome, States
<1>4. obj'[q].state = s /\ \A p \in Objects : p # q => obj'[p] = obj[p]
  BY <1>1, <1>3, Here DEF WaitEnds, TypedObjects, Object
<1>5. s = Outcome(obj[q], Commands[q]) /\ s # "none"
  BY <1>1, <1>3 DEF Me, Outcome
<1>6. Commands[q]' = Commands[q] /\ Members(q)' = Members(q)
  BY <1>0, SameSetup
<1>7. ASSUME Healthy(q) PROVE Cleaned(q)'
  <2>1. Working(q)
    BY <1>2, <1>7 DEF Settled
  <2>2. obj[q].commandsLeft = 0
    <3>1. ~obj[q].signalPipe
      BY <1>2 DEF TypeInv, SignalHeld
    <3> QED
      BY <2>1, <3>1 DEF Working
  <2>3. Started(q) = {}
    <3>1. obj[q].commandsLeft = Cardinality(Started(q)) /\ IsFiniteSet(Started(q))
      <4>1. Counting(q)
        BY <1>2, <1>7 DEF Counting
      <4> QED
        BY <4>1, StartedFinite, Here DEF TypeInv, Counted
    <3> QED
      BY <2>2, <3>1, FS_EmptySet
  <2>4. ASSUME NEW i \in Members(q)
        PROVE  child[q][i].life = "gone" /\ obj[q].codes[i] = child[q][i].status
    <3>1. child[q][i].life \notin Held
      BY <2>1, <2>3 DEF Started, Working, Tracked
    <3>2. child[q][i].life = "gone"
      BY <2>1, <3>1, Here DEF Working, Held, TypedKernel, Children
    <3> QED
      BY <2>1, <3>2 DEF Working, Tracked
  <2>5. Commands[q] >= 1 /\ Commands[q] \in Members(q)
    BY <2>1, LastMember DEF Working
  <2>6. s = IF child[q][Commands[q]].status = "signal" THEN "Exception" ELSE "Exited"
    BY <1>2, <1>5, <1>7, <2>4, <2>5 DEF Outcome, Healthy
  <2>7. Dead(q)'
    BY <1>0, <1>6, <2>4 DEF Dead, Held, Living
  <2>8. RealExit(q)'
    BY <1>0, <1>4, <1>6, <2>4, <2>5, <2>6 DEF RealExit
  <2>9. Cleaned(q)'
    BY <1>4, <1>5, <2>7, <2>8 DEF Cleaned
  <2> QED
    BY <2>9
<1>8. ASSUME ~Healthy(q) PROVE Cleaned(q)'
  <2>1. Dead(q)'
    BY <1>0, <1>2, <1>6, <1>8 DEF Settled, Dead
  <2>2. s \notin {"Exited", "Exception"}
    BY <1>5, <1>8 DEF Outcome, Healthy
  <2> QED
    BY <1>4, <1>5, <2>1, <2>2 DEF Cleaned, RealExit
<1>9. run'.pc = "remove" /\ run'.p = q
  BY <1>1, Here DEF WaitEnds, Go, Runs
<1>10. Cleaned(q)'
  BY <1>7, <1>8
<1>11. Good(q)' /\ Turn(q)
  BY <1>1, <1>9, <1>10 DEF Good, Mine, Turn, Preparing, Waiting, Cleaning, Taking
<1> QED
  BY <1>0, <1>4, <1>11, NoLivesChange, LedgerStep

-----------------------------------------------------------------------------
(* kwsysProcess_Kill and the clean up                                      *)

(* One step of the kill: the child whose process ID is held is reaped, and *)
(* no other child is touched.                                              *)
LEMMA KillOneTouches ==
    ASSUME TypeInv, Ledger, KillOne, NEW q \in Objects, q = run.p,
           NEW i \in Members(q), i = run.i
    PROVE  /\ child'[q][i].life \notin Held
           /\ \A p \in Objects : \A j \in Members(p) :
                 <<p, j>> # <<q, i>> => child'[p][j] = child[p][j]
           /\ victims' = victims \/ victims' = victims \cup (IF obj[q].forkPIDs[i] = "-1" THEN {"everyone"} ELSE {})
<1>0. run.pc = "kill"
  BY DEF KillOne, At
<1>1. Killing(q)
  BY <1>0 DEF Ledger, Good, Mine
<1>2. /\ (obj[q].forkPIDs[i] = "child") <=> (child[q][i].life \in Held)
      /\ \A p \in Objects : \A j \in Members(p) : j \in Nat /\ j >= 1
      /\ i \in Nat /\ obj[q].forkPIDs[i] \in {"0", "child", "-1"}
  <2>1. \A p \in Objects : \A j \in Members(p) : j \in Nat /\ j >= 1
    BY LastMember
  <2>2. i \in Nat /\ i >= run.i
    BY <2>1
  <2>3. (obj[q].forkPIDs[i] = "child") <=> (child[q][i].life \in Held)
    BY <1>1, <2>2 DEF Killing
  <2>4. obj[q].forkPIDs[i] \in {"0", "child", "-1"}
    BY Here DEF Object
  <2> QED
    BY <2>1, <2>2, <2>3, <2>4
<1>3. CASE obj[q].forkPIDs[i] = "0"
  BY <1>2, <1>3 DEF KillOne, Me
<1>4. ASSUME NEW reaped,
             child' = [p \in Objects |-> [j \in Members(p) |->
                      IF <<p, j>> = reaped THEN [child[p][j] EXCEPT !.life = "gone"]
                      ELSE IF <<p, j>> \in Targets /\ Alive(p, j)
                           THEN [life |-> "zombie", status |-> "signal"]
                           ELSE child[p][j]]]
      PROVE  \A p \in Objects : \A j \in Members(p) :
                child'[p][j] = IF <<p, j>> = reaped THEN [child[p][j] EXCEPT !.life = "gone"]
                      ELSE IF <<p, j>> \in Targets /\ Alive(p, j)
                           THEN [life |-> "zombie", status |-> "signal"]
                           ELSE child[p][j]
  BY <1>4
<1>5. CASE obj[q].forkPIDs[i] # "0"
  <2>1. PICK reaped \in IF Waitable = {} THEN {<<run.p, 0>>} ELSE Waitable :
             child' = [p \in Objects |-> [j \in Members(p) |->
                      IF <<p, j>> = reaped THEN [child[p][j] EXCEPT !.life = "gone"]
                      ELSE IF <<p, j>> \in Targets /\ Alive(p, j)
                           THEN [life |-> "zombie", status |-> "signal"]
                           ELSE child[p][j]]]
    BY <1>5 DEF KillOne, Me
  <2>2. \A p \in Objects : \A j \in Members(p) :
                child'[p][j] = IF <<p, j>> = reaped THEN [child[p][j] EXCEPT !.life = "gone"]
                      ELSE IF <<p, j>> \in Targets /\ Alive(p, j)
                           THEN [life |-> "zombie", status |-> "signal"]
                           ELSE child[p][j]
    BY <1>4, <2>1
  <2>3. victims' = victims \cup Strangers
    BY <1>5 DEF KillOne, Me
  <2>4. CASE obj[q].forkPIDs[i] = "child"
    <3>1. Targets = {<<q, i>>}
      BY <2>4 DEF Targets, Me
    <3>2. Alive(q, i) \/ Zombie(q, i)
      BY <1>2, <2>4 DEF Alive, Zombie, Held
    <3>3. Waitable = {<<q, i>>}
      BY <3>1, <3>2 DEF Waitable
    <3>4. reaped = <<q, i>>
      BY <2>1, <3>3
    <3>5. child'[q][i] = [child[q][i] EXCEPT !.life = "gone"]
      BY <2>2, <3>4
    <3>6. child'[q][i].life = "gone"
      BY <3>5, Here DEF TypedKernel, Children
    <3>7. Strangers = {}
      BY <1>2, <2>4 DEF Strangers, Me, Held, Living
    <3> QED
      BY <2>2, <2>3, <3>1, <3>4, <3>6, <3>7 DEF Held, Living
  <2>5. CASE obj[q].forkPIDs[i] = "-1"
    <3>1. Objects = {q} /\ \A j \in Members(q) : j > i => obj[q].forkPIDs[j] = "0"
      BY <1>1, <2>5 DEF Killing
    <3>2. \A j \in Members(q) : child[q][j].life \notin Held
      <4> SUFFICES ASSUME NEW j \in Members(q) PROVE child[q][j].life \notin Held
        OBVIOUS
      <4>1. CASE j < i
        BY <1>1, <4>1 DEF Killing
      <4>2. CASE j >= i
        <5>1. j = i \/ j > i
          BY <1>2, <4>2
        <5>2. obj[q].forkPIDs[j] # "child"
          BY <2>5, <3>1, <5>1
        <5> QED
          BY <1>1, <4>2, <5>2 DEF Killing
      <4> QED
        BY <1>2, <4>1, <4>2
    <3>3. Targets = UNION {{<<p, j>> : j \in Members(p)} : p \in Objects}
      BY <2>5 DEF Targets, Me
    <3>4. \A t \in Targets : \E j \in Members(q) : t = <<q, j>>
      BY <3>1, <3>3
    <3>5. \A j \in Members(q) : ~Alive(q, j) /\ ~Zombie(q, j)
      BY <3>2 DEF Alive, Zombie, Held
    <3>6. Waitable = {}
      BY <3>4, <3>5 DEF Waitable
    <3>7. reaped = <<q, 0>>
      BY <2>1, <3>6
    <3>8. \A j \in Members(q) : <<q, j>> # reaped
      BY <1>2, <3>7
    <3>9. \A p \in Objects : \A j \in Members(p) : child'[p][j] = child[p][j]
      BY <2>2, <3>1, <3>5, <3>8
    <3>10. Strangers = {"everyone"}
      BY <2>5 DEF Strangers, Me
    <3> QED
      BY <2>3, <2>5, <3>2, <3>9, <3>10
  <2> QED
    BY <1>2, <1>5, <2>4, <2>5
<1> QED
  BY <1>3, <1>5

LEMMA KillOneLedger ==
    ASSUME TypeInv, Ledger, KillOne
    PROVE  Ledger'
<1>0. run.pc = "kill" /\ setup' = setup /\ obj' = obj /\ run.i <= Commands[run.p]
  BY DEF KillOne, At
<1>1. PICK q \in Objects : q = run.p
  BY Here
<1>2. PICK i \in Members(q) : i = run.i
  BY <1>0, <1>1, Here DEF TypeInv, Place
<1>3. /\ child'[q][i].life \notin Held
      /\ \A p \in Objects : \A j \in Members(p) :
                 <<p, j>> # <<q, i>> => child'[p][j] = child[p][j]
  BY <1>1, <1>2, KillOneTouches
<1>4. Killing(q)
  BY <1>0, <1>1 DEF Ledger, Good, Mine
<1>5. run'.pc = "kill" /\ run'.p = q /\ run'.i = i + 1 /\ run'.cause = run.cause
  BY <1>1, <1>2, Here DEF KillOne, GoTo, Runs
<1>6. Objects' = Objects /\ Members(q)' = Members(q)
  BY <1>0, SameSetup
<1>7. ASSUME NEW j \in Members(q)
      PROVE  /\ j < i + 1 => child'[q][j].life \notin Held
             /\ j >= i + 1 => ((obj[q].forkPIDs[j] = "child") <=> (child'[q][j].life \in Held))
  <2>1. j \in Nat /\ i \in Nat
    BY LastMember
  <2>2. CASE j = i
    BY <1>3, <2>1, <2>2
  <2>3. CASE j # i
    <3>1. child'[q][j] = child[q][j]
      BY <1>3, <2>3
    <3>2. (j < i + 1 => j < i) /\ (j >= i + 1 => j >= i)
      BY <2>1, <2>3
    <3> QED
      BY <1>2, <1>4, <3>1, <3>2 DEF Killing
  <2> QED
    BY <2>2, <2>3
<1>8. Killing(q)'
  <2>1. IF run'.cause = "failed" THEN obj'[q].state = "Error"
        ELSE obj'[q].state = "Executing" /\ obj'[q].killed /\ Closed(q)'
    BY <1>0, <1>4, <1>5 DEF Killing, Closed
  <2>2. \A j \in Members(q) : obj'[q].forkPIDs[j] = "-1" =>
            /\ Objects' = {q} /\ run'.cause = "failed"
            /\ \A k \in Members(q) : k > j => obj'[q].forkPIDs[k] = "0"
    <3> SUFFICES ASSUME NEW j \in Members(q), obj[q].forkPIDs[j] = "-1"
                 PROVE  /\ Objects = {q} /\ run.cause = "failed"
                        /\ \A k \in Members(q) : k > j => obj[q].forkPIDs[k] = "0"
      BY <1>0, <1>5, <1>6
    <3> QED
      BY <1>4 DEF Killing
  <2> QED
    BY <1>0, <1>5, <1>6, <1>7, <2>1, <2>2 DEF Killing
<1>9. Good(q)' /\ Turn(q)
  BY <1>1, <1>5, <1>8 DEF Good, Mine, Turn, Preparing, Waiting, Cleaning, Taking
<1>10. \A p \in Objects : p # q => SameLives(p) /\ obj'[p] = obj[p]
  BY <1>0, <1>3 DEF SameLives
<1> QED
  BY <1>0, <1>9, <1>10, LedgerStep

LEMMA KillEndsLedger ==
    ASSUME TypeInv, Ledger, KillEnds
    PROVE  Ledger'
<1>0. setup' = setup /\ child' = child /\ run.pc = "kill" /\ run.i > Commands[run.p]
  BY DEF KillEnds, At
<1>1. PICK q \in Objects : q = run.p
  BY Here
<1>2. Killing(q) /\ obj[q] \in Object(q)
  BY <1>0, <1>1, Here DEF Ledger, Good, Mine
<1>3. Dead(q)
  <2> SUFFICES ASSUME NEW i \in Members(q) PROVE child[q][i].life \notin Held
    BY DEF Dead
  <2>1. i < run.i
    BY <1>0, <1>1, LastMember, Here
  <2> QED
    BY <1>2, <2>1 DEF Killing
<1>4. Dead(q)'
  BY <1>0, <1>3, NoLivesChange, ChildrenSame
<1>5. CASE run.cause = "failed"
  <2>1. obj' = obj /\ Go("remove")
    BY <1>5 DEF KillEnds
  <2>2. run'.pc = "remove" /\ run'.p = q
    BY <1>1, <2>1, Here DEF Go, Runs
  <2>3. Cleaned(q)'
    BY <1>2, <1>4, <1>5, <2>1 DEF Killing, Cleaned, RealExit
  <2>4. Good(q)' /\ Turn(q)
    BY <1>1, <2>2, <2>3 DEF Good, Mine, Turn, Preparing, Waiting, Cleaning, Taking
  <2> QED
    BY <1>0, <2>1, <2>4, NoLivesChange, LedgerStep
<1>6. CASE run.cause # "failed"
  <2>0. run.cause \in {"asked", "expired", "select"}
    BY <1>0, <1>6, Here DEF Runs, TypeInv, Broken
  <2>1. obj[q].state = "Executing" /\ obj[q].killed /\ Closed(q)
    BY <1>2, <1>6 DEF Killing
  <2>2. /\ obj'[q].state = "Executing" /\ ~Healthy(q)' /\ Closed(q)'
        /\ \A p \in Objects : p # q => obj'[p] = obj[p]
    <3>1. CASE obj' = [obj EXCEPT ![run.p].commandsLeft = 0]
      BY <1>1, <1>2, <2>1, <3>1, Here DEF TypedObjects, Object, Healthy, Closed
    <3>2. CASE obj' = [obj EXCEPT ![run.p].commandsLeft = 0, ![run.p].killed = FALSE,
                                     ![run.p].expired = TRUE]
      BY <1>1, <1>2, <2>1, <3>2, Here DEF TypedObjects, Object, Healthy, Closed
    <3>3. CASE obj' = [obj EXCEPT ![run.p].commandsLeft = 0, ![run.p].killed = FALSE,
                                     ![run.p].selectError = TRUE]
      BY <1>1, <1>2, <2>1, <3>3, Here DEF TypedObjects, Object, Healthy, Closed
    <3> QED
      BY <2>0, <3>1, <3>2, <3>3 DEF KillEnds
  <2>3. run' = Idle \/ Go("outcome")
    <3>1. run' = Idle \/ EndOfData
      BY <2>0 DEF KillEnds
    <3> QED
      BY <3>1 DEF EndOfData
  <2>4. run'.pc = "user" \/ (run'.pc = "outcome" /\ run'.p = q)
    BY <1>1, <2>3, Here DEF Idle, Go, Runs
  <2>5. Settled(q)'
    BY <1>4, <2>2 DEF Settled
  <2>6. Waited(q)' \/ run'.pc = "user"
    BY <2>2, <2>4, <2>5 DEF Waited, Closed
  <2>7. Good(q)' /\ Turn(q)
    BY <1>1, <2>4, <2>5, <2>6 DEF Good, Mine, Turn, Preparing, Waiting, Cleaning, Taking
  <2> QED
    BY <1>0, <2>2, <2>7, NoLivesChange, LedgerStep
<1> QED
  BY <1>5, <1>6

LEMMA CleanedLedger ==
    ASSUME TypeInv, Ledger, Remove \/ Shift \/ RestoreHandler \/ FreeTable \/ UpdateTable
    PROVE  Ledger'
<1>0. setup' = setup /\ child' = child /\ obj' = obj /\ run.pc \in Cleaning
  BY DEF Remove, Shift, RestoreHandler, FreeTable, UpdateTable, At, Taking, Cleaning
<1>1. PICK q \in Objects : q = run.p
  BY Here
<1>2. run'.pc \in Cleaning /\ run'.p = q
  <2>1. \/ \E step \in Cleaning : Go(step)
        \/ \E i : GoTo("shift", i)
    BY DEF Remove, Shift, RestoreHandler, FreeTable, UpdateTable, Taking, Cleaning
  <2>2. "shift" \in Cleaning
    BY DEF Cleaning, Taking
  <2> QED
    BY <1>1, <2>1, <2>2, Here DEF Go, GoTo, Runs
<1>3. run.pc # "user" /\ run'.pc \notin Preparing \cup Waiting \cup {"closing", "kill", "user"}
  BY <1>0, <1>2 DEF Preparing, Waiting, Cleaning, Taking
<1>4. Cleaned(q)
  BY <1>0, <1>1, <1>3 DEF Ledger, Good, Mine
<1>5. Cleaned(q)'
  BY <1>0, <1>4, SameSetup DEF Cleaned, Dead, RealExit
<1>6. Good(q)' /\ Turn(q)
  BY <1>1, <1>2, <1>3, <1>5 DEF Good, Mine, Turn
<1> QED
  BY <1>0, <1>6, NoLivesChange, LedgerStep

LEMMA CloseLedger ==
    ASSUME TypeInv, Ledger, CloseAll
    PROVE  Ledger'
<1>0. setup' = setup /\ child' = child /\ run.pc = "close" /\ run' = Idle
  BY DEF CloseAll, At
<1>1. PICK q \in Objects : q = run.p
  BY Here
<1>2. Cleaned(q) /\ obj[q] \in Object(q)
  BY <1>0, <1>1, Here DEF Ledger, Good, Mine, Cleaning
<1> DEFINE pids == [i \in Members(q) |-> "0"]
           s == IF run.call = "Delete" THEN "none" ELSE obj[q].state
           m == [obj[q] EXCEPT !.signalPipe = FALSE, !.readEnds = {}, !.forkPIDs = pids, !.state = s]
<1>3. obj' = [obj EXCEPT ![q] = m]
  BY <1>1 DEF CloseAll
<1>4. m.readEnds = {} /\ ~m.signalPipe /\ m.state = s
  <2> HIDE DEF pids, s
  <2> QED
    BY <1>2 DEF Object
<1>5. s = obj[q].state \/ s = "none"
  OBVIOUS
<1> HIDE DEF m, s
<1>6. obj'[q] = m /\ \A p \in Objects : p # q => obj'[p] = obj[p]
  BY <1>3, Here DEF TypedObjects
<1>7. Members(q)' = Members(q) /\ Commands[q]' = Commands[q]
  BY <1>0, SameSetup
<1>8. obj'[q].state # "Executing" /\ Dead(q)' /\ Closed(q)' /\ RealExit(q)'
  BY <1>0, <1>2, <1>4, <1>5, <1>6, <1>7 DEF Cleaned, Dead, Closed, RealExit
<1>9. run'.pc = "user"
  BY <1>0 DEF Idle
<1>10. Good(q)' /\ Turn(q)
  BY <1>1, <1>8, <1>9 DEF Good, Mine, Turn, Settled
<1> QED
  BY <1>0, <1>6, <1>10, NoLivesChange, LedgerStep

-----------------------------------------------------------------------------
LEMMA LedgerInit == Init => Ledger
<1> SUFFICES ASSUME Init, NEW p \in Objects PROVE Good(p)
  BY DEF Ledger
<1>1. run.pc = "user"
  BY DEF Init, Idle
<1>2. obj[p] = [Initialized(p) EXCEPT !.state = "none"]
  BY DEF Init
<1>3. obj[p].state = "none" /\ obj[p].readEnds = {} /\ ~obj[p].signalPipe
  <2>1. /\ obj[p].state = "none"
        /\ obj[p].readEnds = Initialized(p).readEnds
        /\ obj[p].signalPipe = Initialized(p).signalPipe
    BY <1>2 DEF Initialized
  <2>2. Initialized(p).readEnds = {} /\ Initialized(p).signalPipe = FALSE
    BY DEF Initialized
  <2> QED
    BY <2>1, <2>2
<1>4. child[p] = [i \in Members(p) |-> [life |-> "none", status |-> "exit 0"]]
  BY DEF Init
<1>5. Dead(p)
  <2> DEFINE unborn == [life |-> "none", status |-> "exit 0"]
  <2>1. child[p] = [i \in Members(p) |-> unborn] /\ unborn.life = "none"
    BY <1>4
  <2> HIDE DEF unborn
  <2> QED
    BY <2>1 DEF Dead, Held, Living
<1> QED
  BY <1>1, <1>3, <1>5 DEF Good, Mine, Settled, Closed, RealExit

LEMMA LedgerNext ==
    ASSUME SafeForks
    PROVE  TypeInv /\ Ledger /\ [Next]_vars => Ledger'
<1> SUFFICES ASSUME TypeInv, Ledger, [Next]_vars PROVE Ledger'
  OBVIOUS
<1>1. CASE User
  BY <1>1, UserLedger
<1>2. CASE Parent
  BY <1>2, AddLedger, ForkLedger, ForkedLedger, ReadLedger, ReapLedger, SelectLedger, WaitEndsLedger,
     ClosePipesLedger, KillOneLedger, KillEndsLedger, CleanedLedger, CloseLedger DEF Parent
<1>3. CASE SignalHandler \/ Exec \/ Child \/ TimePasses \/ UNCHANGED vars
  BY <1>3, OutsideLedger
<1> QED
  BY <1>1, <1>2, <1>3 DEF Next

LEMMA LedgerHolds ==
    ASSUME SafeForks
    PROVE  Spec => []Ledger
BY LedgerInit, LedgerNext, Typed, PTL DEF Spec

(* What kwsysProcess_WaitForExit tells of the last command is how it ended, *)
(* and all commands have ended.                                            *)
THEOREM ExitsAreReal ==
    ASSUME SafeForks
    PROVE  Spec => []ExitIsReal
<1>1. TypeInv /\ Ledger => ExitIsReal
  <2> SUFFICES ASSUME TypeInv, Ledger, NEW p \in Objects, obj[p].state \in {"Exited", "Exception"}
               PROVE  /\ \A i \in Members(p) : child[p][i].life = "gone"
                      /\ obj[p].state = "Exception" <=> child[p][Commands[p]].status = "signal"
    BY DEF ExitIsReal
  <2>1. RealExit(p)
    <3>1. CASE ~Mine(p)
      BY <3>1 DEF Ledger, Good, Settled
    <3>2. CASE Mine(p)
      <4>1. ~Prepared(p) /\ ~Waited(p) /\ ~Doomed(p) /\ ~Killing(p)
        BY DEF Prepared, Waited, Doomed, Killing
      <4>2. run.pc \in Cleaning
        BY <3>2, <4>1, Here DEF Ledger, Good, Mine, Runs, Steps
      <4> QED
        BY <3>2, <4>2 DEF Ledger, Good, Cleaned
    <3> QED
      BY <3>1, <3>2
  <2> QED
    BY <2>1 DEF RealExit
<1> QED
  BY <1>1, LedgerHolds, Typed, PTL

(* The parent never signals a process ID that it has given back: kill and  *)
(* waitpid are only called for children that are not reaped.               *)
THEOREM NoStaleIDs ==
    ASSUME SafeForks
    PROVE  Spec => []NoStaleID
<1>1. Init => NoStaleID
  BY DEF Init, NoStaleID
<1>2. TypeInv /\ Ledger /\ NoStaleID /\ [Next]_vars => NoStaleID'
  <2> SUFFICES ASSUME TypeInv, Ledger, NoStaleID, [Next]_vars PROVE NoStaleID'
    OBVIOUS
  <2>1. CASE KillOne
    <3>1. PICK q \in Objects : q = run.p
      BY Here
    <3>2. PICK i \in Members(q) : i = run.i
      BY <2>1, <3>1, Here DEF TypeInv, Place, KillOne, At
    <3>3. \/ victims' = victims
          \/ victims' = victims \cup (IF obj[q].forkPIDs[i] = "-1" THEN {"everyone"} ELSE {})
      BY <2>1, <3>1, <3>2, KillOneTouches
    <3> QED
      BY <3>3 DEF NoStaleID
  <2>2. CASE ~KillOne
    <3>1. victims' = victims
      BY <2>2 DEF Next, vars, User, Parent, SignalHandler, Exec, Child, TimePasses, New, ExecuteNothing,
         Execute, WaitForExit, WaitForData, Wait, Kill, Delete, AddSignalPipe, AddAppend, AddInstall,
         SetupStderr, CreateStdout, Fork, Forked, ReadOutput, ReadSignal, Reap, Select, SelectFails,
         WaitEnds, ClosePipes, KillEnds, Remove, Shift, RestoreHandler, FreeTable, UpdateTable, CloseAll,
         ExecSucceeds, ExecFails, WritesData, ChildExits, GrandchildrenExit
    <3> QED
      BY <3>1 DEF NoStaleID
  <2> QED
    BY <2>1, <2>2
<1> QED
  BY <1>1, <1>2, LedgerHolds, Typed, PTL DEF Spec
=============================================================================
