-------------------------- MODULE ProcessUnix_handler --------------------------
(***************************************************************************)
(* The SIGCHLD handler of the process library reaches every object that    *)
(* has children and no other, whichever step of the parent it interrupts;  *)
(* so no exit is lost, and a run leaves nothing behind.                    *)
(***************************************************************************)
EXTENDS ProcessUnix_proofs

(* A failing stdout pipe of a command that is not the first makes the      *)
(* parent close its descriptor 0.                                          *)
SafePipes ==
    \A s \in Setups : "stdout" \in s.failures => \A p \in DOMAIN s.commands : s.commands[p] <= 1

(* The objects in the table, but for the one that run.i is at: while an    *)
(* object is taken out of the table, the copy at run.i is one too many.    *)
Others == {reg.cells[k] : k \in DOMAIN reg.cells \ {run.i}}
Distinct(S) == \A k, l \in S : reg.cells[k] = reg.cells[l] => k = l
TakenOut ==
    /\ run.p \notin Others
    /\ \A p \in Objects : p # run.p => (p \in Others <=> obj[p].state = "Executing")
    /\ reg.cells[run.i] \in Others \cup {run.p}
    /\ Distinct(DOMAIN reg.cells \ {run.i})
    /\ run.pc # "shift" => run.i = Len(reg.cells)
    /\ run.pc \in {"restore", "free"} => Len(reg.cells) = 1
(* An object in a call, and the table.                                     *)
Unstarted(p) == \A i \in Members(p) : obj[p].forkPIDs[i] = "0"
Entered(p) ==
    /\ run.pc \in {"add", "append", "close"} => p \notin Registered
    /\ run.pc \in (Preparing \ {"add", "append"}) \cup Waiting \cup {"closing"} => p \in Registered
    /\ run.pc = "kill" => p \in Registered \/ (run.cause = "failed" /\ Unstarted(p))
InTable ==
    /\ \A p \in Objects : ~Mine(p) => (p \in Registered <=> obj[p].state = "Executing")
    /\ Distinct(DOMAIN reg.cells)
    /\ run.pc # "user" => Entered(run.p)
Table == IF run.pc \in Taking THEN TakenOut ELSE InTable

(* The handler is installed when the table is not empty, but for an object *)
(* that has just come or is about to go.                                   *)
Installed ==
    IF run.pc \in {"install", "update"} THEN Len(reg.cells) > 1
    ELSE run.pc # "free" /\ Len(reg.cells) > 0
Handler ==
    /\ reg.handler <=> Installed
    /\ reg.freed => run.pc = "update" /\ Len(reg.cells) = 1
    /\ reg.pending => reg.handler

Descriptors == run.pc \notin Starting => fds = {"0"}
Registry == Table /\ Handler /\ Descriptors
Watch == TypeInv /\ Ledger /\ Registry

-----------------------------------------------------------------------------
LEMMA Cells ==
    ASSUME TypeInv
    PROVE  /\ reg.cells \in Seq(Objects) /\ Len(reg.cells) \in Nat
           /\ DOMAIN reg.cells = 1..Len(reg.cells)
           /\ \A k \in DOMAIN reg.cells : reg.cells[k] \in Objects
           /\ reg.handler \in BOOLEAN /\ reg.pending \in BOOLEAN /\ reg.freed \in BOOLEAN
<1>1. reg \in Tables
  BY Here
<1>2. reg.cells \in Seq(Objects)
  BY <1>1 DEF Tables
<1> QED
  BY <1>1, <1>2, LenProperties, ElementOfSeq DEF Tables

(* A step of the parent is about the object of its call.                   *)
LEMMA ParentTouches ==
    ASSUME TypeInv, Parent, NEW q \in Objects, q = run.p
    PROVE  /\ setup' = setup
           /\ \A p \in Objects : p # q => obj'[p] = obj[p]
           /\ run'.p = q \/ run'.pc = "user"
<1>0. run \in Runs /\ DOMAIN obj = Objects
  BY Here DEF TypedObjects
<1>1. Idle.pc = "user"
  BY DEF Idle
<1>2. \A step : Go(step) => run'.p = q
  BY <1>0 DEF Go, Runs
<1>3. \A step, i : GoTo(step, i) => run'.p = q
  BY <1>0 DEF GoTo, Runs
<1>4. ASSUME NEW m, obj' = [obj EXCEPT ![run.p] = m]
      PROVE  \A p \in Objects : p # q => obj'[p] = obj[p]
  BY <1>0, <1>4
<1>5. ASSUME NEW kept, ExecuteFails(kept)
      PROVE  (\A p \in Objects : p # q => obj'[p] = obj[p]) /\ run'.p = q
  BY <1>0, <1>5 DEF ExecuteFails, Runs
<1>6. ASSUME NEW cause, KillBegins(q, cause)
      PROVE  (\A p \in Objects : p # q => obj'[p] = obj[p]) /\ run'.p = q
  BY <1>0, <1>6 DEF KillBegins, Runs
<1>7. CASE AddSignalPipe \/ AddAppend \/ AddInstall \/ SetupStderr
  BY <1>0, <1>2, <1>3, <1>5, <1>7 DEF AddSignalPipe, AddAppend, AddInstall, SetupStderr
<1>8. CASE CreateStdout
  BY <1>0, <1>2, <1>5, <1>8 DEF CreateStdout
<1>9. CASE Fork
  BY <1>0, <1>2, <1>9 DEF Fork, Runs
<1>10. CASE Forked
  BY <1>0, <1>1, <1>3, <1>5, <1>10 DEF Forked
<1>11. CASE ReadOutput
  BY <1>0, <1>1, <1>4, <1>11 DEF ReadOutput
<1>12. CASE ReadSignal
  BY <1>0, <1>3, <1>4, <1>12 DEF ReadSignal
<1>13. CASE Reap
  BY <1>0, <1>2, <1>3, <1>4, <1>13 DEF Reap, WaitPid
<1>14. CASE Select
  <2>1. EndOfData => run'.p = q \/ run'.pc = "user"
    BY <1>1, <1>2 DEF EndOfData
  <2>2. TimeoutExpires =>
            (\A p \in Objects : p # q => obj'[p] = obj[p]) /\ (run'.p = q \/ run'.pc = "user")
    BY <1>1, <1>6 DEF TimeoutExpires
  <2> QED
    BY <1>0, <1>4, <1>14, <2>1, <2>2 DEF Select
<1>15. CASE SelectFails
  BY <1>6, <1>15 DEF SelectFails
<1>16. CASE WaitEnds
  BY <1>0, <1>2, <1>16 DEF WaitEnds
<1>17. CASE ClosePipes \/ KillOne
  BY <1>0, <1>2, <1>3, <1>4, <1>17 DEF ClosePipes, KillOne
<1>18. CASE KillEnds
  <2>1. run'.p = q \/ run'.pc = "user"
    BY <1>0, <1>1, <1>2, <1>18, Here DEF KillEnds, EndOfData, Runs, TypeInv, Broken, At
  <2>2. obj' = obj \/ \E m : obj' = [obj EXCEPT ![run.p] = m]
    <3>1. run.cause \in {"failed", "asked", "expired", "select"}
      BY <1>18, Here DEF KillEnds, At, TypeInv, Broken, Runs
    <3> QED
      BY <1>0, <1>18, <3>1 DEF KillEnds
  <2> QED
    BY <1>4, <1>18, <2>1, <2>2 DEF KillEnds
<1>19. CASE Remove \/ Shift \/ RestoreHandler \/ FreeTable \/ UpdateTable
  BY <1>2, <1>3, <1>19 DEF Remove, Shift, RestoreHandler, FreeTable, UpdateTable
<1>20. CASE CloseAll
  BY <1>0, <1>1, <1>20 DEF CloseAll
<1> QED
  BY <1>7, <1>8, <1>9, <1>10, <1>11, <1>12, <1>13, <1>14, <1>15, <1>16, <1>17, <1>18, <1>19, <1>20
     DEF Parent

-----------------------------------------------------------------------------
(* A step that leaves the table and the handler as they are.               *)
Plain == Steps \ (Taking \cup {"install"})

LEMMA TableStep ==
    ASSUME TypeInv, Table, setup' = setup, reg'.cells = reg.cells, NEW q \in Objects, Turn(q),
           \A p \in Objects : p # q => obj'[p] = obj[p],
           run.pc \notin Taking, run'.pc \notin Taking,
           run'.pc = "user" => (q \in Registered <=> obj'[q].state = "Executing"),
           run'.pc # "user" => Entered(q)'
    PROVE  Table'
<1>1. InTable
  BY DEF Table
<1>2. Registered' = Registered /\ Objects' = Objects
  BY SameSetup DEF Registered
<1>3. ASSUME NEW p \in Objects, ~Mine(p)' PROVE p \in Registered <=> obj'[p].state = "Executing"
  <2>1. CASE p = q
    BY <1>3, <2>1 DEF Mine, Turn
  <2>2. CASE p # q
    BY <1>1, <2>2 DEF InTable, Mine, Turn
  <2> QED
    BY <2>1, <2>2
<1>4. Distinct(DOMAIN reg.cells)'
  BY <1>1 DEF InTable, Distinct
<1>5. run'.pc # "user" => run'.p = q
  BY DEF Turn
<1>6. InTable'
  BY <1>2, <1>3, <1>4, <1>5 DEF InTable
<1> QED
  BY <1>6 DEF Table

LEMMA RegistryStep ==
    ASSUME TypeInv, Registry, setup' = setup, NEW q \in Objects, Turn(q),
           reg' = reg \/ (/\ reg'.cells = reg.cells /\ reg'.handler = reg.handler
                          /\ reg'.freed = reg.freed /\ (reg'.pending => reg.pending \/ reg.handler)),
           \A p \in Objects : p # q => obj'[p] = obj[p],
           run.pc \in Plain, run'.pc \in Plain,
           run'.pc = "user" => (q \in Registered <=> obj'[q].state = "Executing"),
           run'.pc # "user" => Entered(q)',
           run'.pc \notin Starting => fds' = {"0"}
    PROVE  Registry'
<1>1. /\ reg'.cells = reg.cells /\ reg'.handler = reg.handler
      /\ reg'.freed = reg.freed /\ (reg'.pending => reg.pending \/ reg.handler)
  OBVIOUS
<1>2. /\ run.pc \notin Taking /\ run'.pc \notin Taking
      /\ run.pc \notin {"install", "update", "free"} /\ run'.pc \notin {"install", "update", "free"}
  BY DEF Plain, Taking
<1>3. Table'
  BY <1>1, <1>2, TableStep DEF Registry
<1>4. Handler'
  BY <1>1, <1>2 DEF Registry, Handler, Installed
<1> QED
  BY <1>3, <1>4 DEF Registry, Descriptors

(* The children, the clock, the signal.                                    *)
LEMMA OutsideRegistry ==
    ASSUME TypeInv, Registry, Exec \/ Child \/ SignalHandler \/ TimePasses \/ UNCHANGED vars
    PROVE  Registry'
<1>1. UNCHANGED <<setup, obj, fds>>
  BY DEF Exec, Child, SignalHandler, TimePasses, vars, ExecSucceeds, ExecFails, WritesData,
         ChildExits, GrandchildrenExit
<1>2. /\ reg'.cells = reg.cells /\ reg'.handler = reg.handler /\ reg'.freed = reg.freed
      /\ (reg'.pending => reg.pending \/ reg.handler)
  BY Here DEF Exec, Child, SignalHandler, TimePasses, vars, ExecSucceeds, ExecFails, WritesData,
         ChildExits, GrandchildrenExit, RaiseSIGCHLD, Tables
<1>3. run'.pc = run.pc /\ run'.p = run.p /\ run'.i = run.i /\ run'.cause = run.cause
  BY Here DEF Exec, Child, SignalHandler, TimePasses, vars, ExecSucceeds, ExecFails, WritesData,
         ChildExits, GrandchildrenExit, Runs
<1>4. /\ Objects' = Objects /\ Registered' = Registered /\ Others' = Others
      /\ \A p \in Objects : Mine(p)' = Mine(p) /\ Members(p)' = Members(p)
  BY <1>1, <1>2, <1>3, SameSetup DEF Registered, Others, Mine
<1>5. Entered(run.p) => Entered(run.p)'
  BY <1>1, <1>3, <1>4, Here DEF Entered, Unstarted
<1>6. TakenOut => TakenOut'
  BY <1>1, <1>2, <1>3, <1>4 DEF TakenOut, Distinct
<1>7. InTable => InTable'
  BY <1>1, <1>2, <1>3, <1>4, <1>5 DEF InTable, Distinct
<1>8. Handler'
  BY <1>2, <1>3 DEF Registry, Handler, Installed
<1> QED
  BY <1>1, <1>3, <1>6, <1>7, <1>8 DEF Registry, Table, Descriptors

(* The program.                                                            *)
LEMMA UserRegistry ==
    ASSUME TypeInv, Registry, User
    PROVE  Registry'
<1>1. PICK p \in Objects : \/ New(p) \/ ExecuteNothing(p) \/ Execute(p) \/ WaitForExit(p)
                           \/ WaitForData(p) \/ Kill(p) \/ Delete(p)
  BY DEF User
<1>2. run.pc = "user"
  BY <1>1 DEF New, ExecuteNothing, Execute, WaitForExit, WaitForData, Wait, Kill, Delete, At
<1>3. (p \in Registered <=> obj[p].state = "Executing") /\ fds = {"0"}
  BY <1>2 DEF Registry, Table, InTable, Mine, Taking, Descriptors, Starting
<1>4. run.pc \in Plain /\ {"add", "handle", "outcome", "closing"} \subseteq Plain
  BY <1>2 DEF Plain, Taking, Steps, Preparing, Waiting
<1>5. ASSUME NEW m, obj' = [obj EXCEPT ![p] = m] PROVE \A q \in Objects : q # p => obj'[q] = obj[q]
  BY <1>5, Here DEF TypedObjects
<1>6. ASSUME obj[p].state # "Executing", obj'[p].state # "Executing",
             \A q \in Objects : q # p => obj'[q] = obj[q], UNCHANGED <<setup, reg, run, fds>>
      PROVE  Registry'
  BY <1>2, <1>3, <1>4, <1>6, RegistryStep DEF Turn
<1>7. CASE New(p)
  BY <1>5, <1>6, <1>7, InitializedTyped, Here DEF New, TypedObjects
<1>8. ASSUME NEW s \in {"Error", "none"}, obj' = [obj EXCEPT ![p].state = s],
             obj[p].state # "Executing", UNCHANGED <<setup, reg, run, fds>>
      PROVE  Registry'
  <2>1. obj'[p].state = s /\ \A q \in Objects : q # p => obj'[q] = obj[q]
    BY <1>8, Here DEF TypedObjects, Object
  <2> QED
    BY <1>6, <1>8, <2>1
<1>9. CASE ExecuteNothing(p)
  BY <1>8, <1>9 DEF ExecuteNothing
<1>10. CASE Execute(p)
  <2>1. run'.pc = "add" /\ run'.p = p /\ setup' = setup /\ reg' = reg /\ fds' = fds
    BY <1>10 DEF Execute, Idle
  <2>2. p \notin Registered' /\ \A q \in Objects : q # p => obj'[q] = obj[q]
    BY <1>3, <1>5, <1>10, <2>1 DEF Execute, Registered
  <2>3. Entered(p)' /\ Turn(p)
    BY <1>2, <2>1, <2>2 DEF Entered, Turn, Preparing, Waiting
  <2> QED
    BY <1>3, <1>4, <2>1, <2>2, <2>3, RegistryStep
<1>11. ASSUME NEW call, NEW timeout, Wait(p, call, timeout) PROVE Registry'
  <2>1. /\ run'.pc \in {"handle", "outcome"} /\ run'.p = p
        /\ setup' = setup /\ reg' = reg /\ fds' = fds /\ obj' = obj /\ obj[p].state = "Executing"
    BY <1>11 DEF Wait, Idle
  <2>2. Entered(p)' /\ Turn(p)
    BY <1>2, <1>3, <2>1 DEF Entered, Turn, Preparing, Waiting, Registered
  <2> QED
    BY <1>3, <1>4, <2>1, <2>2, RegistryStep
<1>12. CASE Kill(p)
  <2>1. /\ run'.pc = "closing" /\ run'.p = p
        /\ setup' = setup /\ reg' = reg /\ fds' = fds /\ obj[p].state = "Executing"
    BY <1>12, Here DEF Kill, KillBegins, Runs
  <2>2. \A q \in Objects : q # p => obj'[q] = obj[q]
    BY <1>5, <1>12 DEF Kill, KillBegins
  <2>3. Entered(p)' /\ Turn(p)
    BY <1>2, <1>3, <2>1 DEF Entered, Turn, Preparing, Waiting, Registered
  <2> QED
    BY <1>3, <1>4, <2>1, <2>2, <2>3, RegistryStep
<1> QED
  BY <1>1, <1>7, <1>8, <1>9, <1>10, <1>11, <1>12 DEF Delete, WaitForExit, WaitForData

-----------------------------------------------------------------------------
(* kwsysProcess_Execute                                                    *)

(* An object in a call that is in the table.                               *)
LEMMA EnteredHere ==
    ASSUME TypeInv, Registry, run.pc \notin Taking \cup {"user"}, NEW q \in Objects, q = run.p
    PROVE  /\ Entered(q)
           /\ run.pc \in {"add", "append", "close"} => q \notin Registered
           /\ run.pc \in (Preparing \ {"add", "append"}) \cup Waiting => q \in Registered
           /\ run.pc \notin Starting => fds = {"0"}
<1>1. Entered(q)
  BY DEF Registry, Table, InTable
<1> QED
  BY <1>1 DEF Entered, Registry, Descriptors

LEMMA PlainSteps ==
    /\ Plain = {"add", "append", "stderr", "create", "fork", "forked", "handle", "reap", "outcome",
                "remove", "close", "user", "closing", "kill"}
    /\ Plain \cap Taking = {} /\ Preparing \ {"install"} \subseteq Plain
BY DEF Plain, Steps, Preparing, Waiting, Cleaning, Taking

(* Execute fails.                                                          *)
LEMMA FailsRegistry ==
    ASSUME TypeInv, Registry, run.pc \in Preparing \ {"install"}, NEW q \in Objects, q = run.p,
           setup' = setup, reg' = reg, fds' = {"0"}, run'.pc = "kill", run'.p = q, run'.cause = "failed",
           \A p \in Objects : p # q => obj'[p] = obj[p],
           q \in Registered \/ Unstarted(q)'
    PROVE  Registry'
<1>1. run.pc \in Plain /\ run'.pc \in Plain
  BY PlainSteps
<1>2. Entered(q)'
  BY DEF Entered, Registered, Preparing, Waiting
<1> QED
  BY <1>1, <1>2, RegistryStep DEF Turn

LEMMA AddRegistry ==
    ASSUME TypeInv, Ledger, Registry, AddSignalPipe
    PROVE  Registry'
<1>0. run.pc = "add" /\ setup' = setup /\ reg' = reg
  BY DEF AddSignalPipe, At
<1>1. PICK q \in Objects : q = run.p
  BY Here
<1>2. /\ \A p \in Objects : p # q => obj'[p] = obj[p]
      /\ q \notin Registered /\ fds = {"0"}
  BY <1>0, <1>1, ParentTouches, EnteredHere DEF Parent, Taking, Starting
<1>3. CASE ExecuteFails(fds)
  <2>1. Prepared(q)
    BY <1>0, <1>1, PreparedHere DEF Preparing
  <2>2. \A i \in Members(q) : obj[q].forkPIDs[i] = "0"
    BY <1>0, <2>1 DEF Prepared, Tracked, Begun, Starting, Held, Living
  <2>3. obj'[q].forkPIDs = obj[q].forkPIDs /\ run'.pc = "kill" /\ run'.p = q /\ run'.cause = "failed"
        /\ fds' = {"0"}
    BY <1>1, <1>2, <1>3, Here DEF ExecuteFails, TypedObjects, Object, Runs
  <2>4. Unstarted(q)'
    BY <1>0, <2>2, <2>3, SameSetup DEF Unstarted
  <2> QED
    BY <1>0, <1>1, <1>2, <2>3, <2>4, FailsRegistry DEF Preparing
<1>4. CASE Go("append") /\ UNCHANGED fds
  <2>1. run'.pc = "append" /\ run'.p = q
    BY <1>1, <1>4, Here DEF Go, Runs
  <2>2. Entered(q)' /\ Turn(q)
    BY <1>0, <1>1, <1>2, <2>1 DEF Entered, Registered, Turn, Preparing, Waiting
  <2> QED
    BY <1>0, <1>2, <1>4, <2>1, <2>2, PlainSteps, RegistryStep
<1> QED
  BY <1>3, <1>4 DEF AddSignalPipe

LEMMA AppendRegistry ==
    ASSUME TypeInv, Registry, AddAppend
    PROVE  Registry'
<1>0. run.pc = "append" /\ setup' = setup /\ obj' = obj /\ fds' = fds
  BY DEF AddAppend, At
<1>1. PICK q \in Objects : q = run.p
  BY Here
<1>2. q \notin Registered /\ fds = {"0"} /\ InTable
  BY <1>0, <1>1, EnteredHere DEF Taking, Starting, Registry, Table
<1>3. run'.pc = "install" /\ run'.p = q
  BY <1>1, Here DEF AddAppend, Go, Runs
<1> DEFINE n == Len(reg.cells)
<1>4. /\ reg'.cells = Append(reg.cells, q) /\ reg'.handler = reg.handler
      /\ reg'.freed = reg.freed /\ reg'.pending = reg.pending
  BY <1>1, Here DEF AddAppend, Tables
<1>5. /\ Len(reg'.cells) = n + 1 /\ n \in Nat /\ DOMAIN reg'.cells = 1..n + 1
      /\ reg'.cells[n + 1] = q
      /\ \A k \in DOMAIN reg.cells : reg'.cells[k] = reg.cells[k] /\ k \in 1..n
  BY <1>4, Cells, AppendProperties
<1> HIDE DEF n
<1>6. Registered' = Registered \cup {q}
  BY <1>5, Cells DEF Registered, n
<1>7. Distinct(DOMAIN reg.cells)'
  <2> SUFFICES ASSUME NEW k \in 1..n + 1, NEW l \in 1..n + 1, reg'.cells[k] = reg'.cells[l]
               PROVE  k = l
    BY <1>5 DEF Distinct
  <2>1. k = n + 1 \/ k \in DOMAIN reg.cells
    BY <1>5, Cells DEF n
  <2>2. l = n + 1 \/ l \in DOMAIN reg.cells
    BY <1>5, Cells DEF n
  <2>3. \A j \in DOMAIN reg.cells : reg.cells[j] # q
    BY <1>2 DEF Registered
  <2> QED
    BY <1>2, <1>5, <2>1, <2>2, <2>3 DEF InTable, Distinct
<1>8. ASSUME NEW p \in Objects, ~Mine(p)' PROVE p \in Registered' <=> obj'[p].state = "Executing"
  <2>1. p # q /\ ~Mine(p)
    BY <1>1, <1>3, <1>8 DEF Mine
  <2> QED
    BY <1>0, <1>2, <1>6, <2>1 DEF InTable
<1>9. Entered(run.p)'
  BY <1>3, <1>6 DEF Entered
<1>10. InTable'
  BY <1>0, <1>7, <1>8, <1>9, SameSetup DEF InTable
<1>11. Handler'
  <2>1. reg.handler <=> Len(reg.cells) > 0
    BY <1>0 DEF Registry, Handler, Installed
  <2>2. Installed' <=> Len(reg.cells) > 0
    BY <1>3, <1>5 DEF Installed, n
  <2> QED
    BY <1>0, <1>4, <2>1, <2>2 DEF Registry, Handler
<1> QED
  BY <1>0, <1>2, <1>3, <1>10, <1>11 DEF Registry, Table, Taking, Descriptors

LEMMA InstallRegistry ==
    ASSUME TypeInv, Registry, AddInstall
    PROVE  Registry'
<1>0. run.pc = "install" /\ setup' = setup /\ obj' = obj /\ fds' = fds
  BY DEF AddInstall, At
<1>1. PICK q \in Objects : q = run.p
  BY Here
<1>2. q \in Registered /\ fds = {"0"}
  BY <1>0, <1>1, EnteredHere DEF Taking, Starting, Preparing
<1>3. run'.pc = "stderr" /\ run'.p = q
  BY <1>1, Here DEF AddInstall, Go, Runs
<1>4. /\ reg'.cells = reg.cells /\ reg'.handler = (reg.handler \/ Len(reg.cells) = 1)
      /\ reg'.freed = reg.freed /\ reg'.pending = reg.pending
  <2> DEFINE first == Len(reg.cells) = 1
  <2>1. reg' = [reg EXCEPT !.handler = @ \/ first]
    BY DEF AddInstall
  <2> HIDE DEF first
  <2>2. /\ reg'.cells = reg.cells /\ reg'.handler = (reg.handler \/ first)
        /\ reg'.freed = reg.freed /\ reg'.pending = reg.pending
    BY <2>1, Here DEF Tables
  <2> QED
    BY <2>2 DEF first
<1>5. Len(reg.cells) \in Nat /\ Len(reg.cells) # 0
  BY <1>2, Cells DEF Registered
<1>6. Handler'
  <2>1. reg.handler <=> Len(reg.cells) > 1
    BY <1>0 DEF Registry, Handler, Installed
  <2>2. reg'.handler
    <3>0. \A n \in Nat : n # 0 => n = 1 \/ n > 1
      OBVIOUS
    <3>1. Len(reg.cells) = 1 \/ Len(reg.cells) > 1
      BY <1>5, <3>0
    <3> QED
      BY <1>4, <2>1, <3>1, Zenon
  <2>3. Installed'
    BY <1>3, <1>4, <1>5 DEF Installed
  <2> QED
    BY <1>0, <1>4, <2>2, <2>3 DEF Registry, Handler
<1>7. Entered(q)' /\ Turn(q)
  BY <1>1, <1>2, <1>3, <1>4 DEF Entered, Registered, Turn
<1>8. Table'
  BY <1>0, <1>3, <1>4, <1>7, TableStep DEF Registry, Taking
<1> QED
  BY <1>0, <1>2, <1>6, <1>8 DEF Registry, Descriptors

LEMMA StartRegistry ==
    ASSUME SafePipes, TypeInv, Registry, SetupStderr \/ CreateStdout \/ Fork \/ Forked
    PROVE  Registry'
<1>0. run.pc \in {"stderr", "create", "fork", "forked"} /\ setup' = setup /\ reg' = reg
  BY DEF SetupStderr, CreateStdout, Fork, Forked, At
<1>1. PICK q \in Objects : q = run.p
  BY Here
<1>2. /\ \A p \in Objects : p # q => obj'[p] = obj[p]
      /\ q \in Registered /\ (run.pc = "stderr" => fds = {"0"})
  BY <1>0, <1>1, ParentTouches, EnteredHere DEF Parent, Taking, Preparing, Starting
<1>3. ASSUME run'.pc = "kill", run'.p = q, run'.cause = "failed", fds' = {"0"} PROVE Registry'
  BY <1>0, <1>1, <1>2, <1>3, FailsRegistry DEF Preparing
<1>4. ASSUME ExecuteFails({"0"}) PROVE Registry'
  BY <1>1, <1>3, <1>4, Here DEF ExecuteFails, Runs
<1>5. ASSUME run'.pc \in Starting, run'.p = q PROVE Registry'
  <2>1. Entered(q)' /\ Turn(q)
    BY <1>0, <1>1, <1>2, <1>5 DEF Entered, Registered, Turn, Starting
  <2>2. run'.pc \in Plain /\ run'.pc # "user" /\ run.pc \in Plain
    BY <1>0, <1>5, PlainSteps DEF Starting
  <2> QED
    BY <1>0, <1>2, <1>5, <2>1, <2>2, RegistryStep
<1>6. ASSUME NEW step \in Starting, Go(step) \/ \E i : GoTo(step, i) PROVE Registry'
  BY <1>1, <1>5, <1>6, Here DEF Go, GoTo, Runs
<1>7. CASE SetupStderr
  BY <1>2, <1>4, <1>6, <1>7 DEF SetupStderr, Starting, At
<1>8. CASE CreateStdout
  <2>1. MayFail("stdout") => ~(run.i > 1)
    <3>1. ASSUME MayFail("stdout") PROVE Commands[q] <= 1
      BY <3>1, Here DEF SafePipes, MayFail, Objects, Commands
    <3>2. run.i \in Members(q)
      BY <1>1, <1>8 DEF TypeInv, Place, CreateStdout, At, Starting
    <3> QED
      BY <3>1, <3>2, LastMember
  <2> QED
    BY <1>4, <1>6, <1>8, <2>1 DEF CreateStdout, Starting
<1>9. CASE Fork
  <2>1. CASE Go("forked")
    BY <1>6, <2>1 DEF Starting
  <2>2. CASE run' = [run EXCEPT !.pc = "kill", !.i = 1, !.cause = "failed"] /\ fds' = {"0"}
    BY <1>1, <1>3, <2>2, Here DEF Runs
  <2> QED
    BY <1>9, <2>1, <2>2 DEF Fork
<1>10. CASE Forked
  <2>1. CASE GoTo("create", run.i + 1)
    BY <1>6, <2>1 DEF Starting
  <2>2. CASE /\ fds' = {"0"} /\ run' = Idle
             /\ obj' = [obj EXCEPT ![run.p].readEnds = @ \cup {"STDOUT"},
                                   ![run.p].state = "Executing"]
    <3>1. run'.pc = "user" /\ obj'[q].state = "Executing"
      BY <1>1, <2>2, Here DEF Idle, TypedObjects, Object
    <3> QED
      BY <1>0, <1>1, <1>2, <2>2, <3>1, PlainSteps, RegistryStep DEF Turn
  <2> QED
    BY <1>4, <1>10, <2>1, <2>2 DEF Forked
<1> QED
  BY <1>7, <1>8, <1>9, <1>10

-----------------------------------------------------------------------------
(* Waiting, and killing                                                    *)
LEMMA WaitRegistry ==
    ASSUME TypeInv, Ledger, Registry, ReadOutput \/ ReadSignal \/ Reap \/ Select \/ SelectFails \/ WaitEnds
    PROVE  Registry'
<1>0. run.pc \in Waiting /\ setup' = setup /\ reg' = reg /\ fds' = fds
  BY DEF ReadOutput, ReadSignal, Reap, Select, SelectFails, WaitEnds, At, Waiting
<1>1. PICK q \in Objects : q = run.p
  BY Here
<1>2. /\ \A p \in Objects : p # q => obj'[p] = obj[p]
      /\ q \in Registered /\ fds = {"0"}
  BY <1>0, <1>1, ParentTouches, EnteredHere DEF Parent, Taking, Waiting, Preparing, Starting
<1>3. obj[q].state = "Executing"
  BY <1>0, <1>1 DEF Ledger, Good, Mine, Waited, Waiting
<1>4. run.pc \in Plain
  BY <1>0, PlainSteps DEF Waiting
<1>5. ASSUME run'.pc \in {"handle", "reap", "outcome", "remove", "closing"}, run'.p = q PROVE Registry'
  <2>1. Entered(q)' /\ Turn(q)
    BY <1>0, <1>1, <1>2, <1>5 DEF Entered, Registered, Turn, Preparing, Waiting
  <2> QED
    BY <1>0, <1>2, <1>4, <1>5, <2>1, PlainSteps, RegistryStep
<1>6. ASSUME run' = Idle, obj'[q].state = "Executing" PROVE Registry'
  <2>1. run'.pc = "user" /\ Turn(q)
    BY <1>1, <1>6 DEF Idle, Turn
  <2> QED
    BY <1>0, <1>2, <1>4, <1>6, <2>1, PlainSteps, RegistryStep
<1>7. ASSUME NEW step \in {"handle", "reap", "outcome", "remove"}, Go(step) \/ \E i : GoTo(step, i)
      PROVE  Registry'
  BY <1>1, <1>5, <1>7, Here DEF Go, GoTo, Runs
<1>8. ASSUME run' = run, run.pc = "handle" PROVE Registry'
  BY <1>1, <1>5, <1>8
<1>9. ASSUME NEW cause, KillBegins(run.p, cause) PROVE Registry'
  BY <1>1, <1>5, <1>9, Here DEF KillBegins, Runs
<1>10. CASE ReadOutput
  <2>1. ASSUME NEW k, obj' = [obj EXCEPT ![run.p] = Keep(k)] PROVE obj'[q].state = "Executing"
    <3>1. obj'[q] = [obj[q] EXCEPT !.pipeSet = @ \ {k}]
      BY <1>1, <2>1, Here DEF TypedObjects, Keep, Me
    <3> QED
      BY <1>3, <3>1, Here DEF Object
  <2> QED
    BY <1>6, <1>8, <1>10, <2>1 DEF ReadOutput, At
<1>11. CASE ReadSignal
  BY <1>7, <1>8, <1>11 DEF ReadSignal, At
<1>12. CASE Reap
  BY <1>7, <1>12 DEF Reap
<1>13. CASE Select
  <2>1. CASE TimeoutExpires
    BY <1>3, <1>6, <1>9, <2>1 DEF TimeoutExpires
  <2>2. CASE EndOfData /\ UNCHANGED obj
    BY <1>3, <1>6, <1>7, <2>2 DEF EndOfData
  <2>3. CASE UNCHANGED run
    BY <1>8, <1>13, <2>3 DEF Select, At
  <2> QED
    BY <1>13, <2>1, <2>2, <2>3 DEF Select
<1>14. CASE SelectFails
  BY <1>9, <1>14 DEF SelectFails
<1>15. CASE WaitEnds
  BY <1>7, <1>15 DEF WaitEnds
<1> QED
  BY <1>10, <1>11, <1>12, <1>13, <1>14, <1>15

LEMMA KillRegistry ==
    ASSUME TypeInv, Ledger, Registry, ClosePipes \/ KillOne \/ KillEnds
    PROVE  Registry'
<1>0. run.pc \in {"closing", "kill"} /\ setup' = setup /\ fds' = fds
  BY DEF ClosePipes, KillOne, KillEnds, At
<1>1. PICK q \in Objects : q = run.p
  BY Here
<1>2. /\ \A p \in Objects : p # q => obj'[p] = obj[p]
      /\ Entered(q) /\ fds = {"0"}
  BY <1>0, <1>1, ParentTouches, EnteredHere DEF Parent, Taking, Starting
<1>3. run.pc \in Plain
  BY <1>0, PlainSteps
<1>4. /\ reg'.cells = reg.cells /\ reg'.handler = reg.handler
      /\ reg'.freed = reg.freed /\ (reg'.pending => reg.pending \/ reg.handler)
  <2>1. CASE reg' = reg
    BY <2>1
  <2>2. CASE reg' = [reg EXCEPT !.pending =
                        @ \/ (reg.handler /\ \E t \in Targets : Alive(t[1], t[2]))]
    <3> DEFINE hit == \E t \in Targets : Alive(t[1], t[2])
    <3>1. reg' = [reg EXCEPT !.pending = @ \/ (reg.handler /\ hit)]
      BY <2>2
    <3> HIDE DEF hit
    <3>2. /\ reg'.cells = reg.cells /\ reg'.handler = reg.handler /\ reg'.freed = reg.freed
          /\ reg'.pending = (reg.pending \/ (reg.handler /\ hit))
      BY <3>1, Here DEF Tables
    <3> QED
      BY <3>2
  <2> QED
    BY <2>1, <2>2 DEF ClosePipes, KillOne, KillEnds
<1>4b. CASE ClosePipes
  <2>0. run.pc = "closing"
    BY <1>4b DEF ClosePipes, At
  <2>1. run'.pc = "kill" /\ run'.p = q
    BY <1>1, <1>4b, Here DEF ClosePipes, Go, Runs
  <2>2. q \in Registered /\ Entered(q)' /\ Turn(q)
    BY <1>1, <1>2, <1>4, <2>0, <2>1 DEF Entered, Registered, Turn, Preparing, Waiting
  <2> QED
    BY <1>0, <1>2, <1>3, <1>4, <2>1, <2>2, RegistryStep, PlainSteps
<1>5. CASE KillOne
  <2>1. run.pc = "kill" /\ run'.pc = "kill" /\ run'.p = q /\ run'.cause = run.cause /\ obj' = obj
    BY <1>1, <1>5, Here DEF KillOne, GoTo, Runs, At
  <2>2. Entered(q)' /\ Turn(q)
    BY <1>0, <1>1, <1>2, <1>4, <2>1, SameSetup
       DEF Entered, Registered, Turn, Unstarted, Preparing, Waiting
  <2> QED
    BY <1>0, <1>2, <1>3, <1>4, <2>1, <2>2, RegistryStep, PlainSteps
<1>6. CASE KillEnds
  <2>0. run.pc = "kill"
    BY <1>6 DEF KillEnds, At
  <2>1. CASE run.cause = "failed"
    <3>1. run'.pc = "remove" /\ run'.p = q
      BY <1>1, <1>6, <2>1, Here DEF KillEnds, Go, Runs
    <3>2. Entered(q)' /\ Turn(q)
      BY <1>0, <1>1, <3>1 DEF Entered, Turn, Preparing, Waiting
    <3> QED
      BY <1>0, <1>2, <1>3, <1>4, <3>1, <3>2, RegistryStep, PlainSteps
  <2>2. CASE run.cause # "failed"
    <3>1. run.cause \in {"asked", "expired", "select"} /\ q \in Registered /\ obj[q].state = "Executing"
      <4>1. Killing(q)
        BY <1>1, <2>0 DEF Ledger, Good, Mine
      <4> QED
        BY <1>2, <2>0, <2>2, <4>1, Here DEF Entered, Killing, Runs, TypeInv, Broken
    <3>2. run' = Idle \/ Go("outcome")
      <4>1. run' = Idle \/ EndOfData
        BY <1>6, <3>1 DEF KillEnds
      <4> QED
        BY <4>1 DEF EndOfData
    <3>3. obj'[q].state = "Executing"
      <4>1. CASE obj' = [obj EXCEPT ![run.p].commandsLeft = 0]
        BY <1>1, <3>1, <4>1, Here DEF TypedObjects, Object
      <4>2. CASE obj' = [obj EXCEPT ![run.p].commandsLeft = 0, ![run.p].killed = FALSE,
                                     ![run.p].expired = TRUE]
        BY <1>1, <3>1, <4>2, Here DEF TypedObjects, Object
      <4>3. CASE obj' = [obj EXCEPT ![run.p].commandsLeft = 0, ![run.p].killed = FALSE,
                                     ![run.p].selectError = TRUE]
        BY <1>1, <3>1, <4>3, Here DEF TypedObjects, Object
      <4> QED
        BY <1>6, <3>1, <4>1, <4>2, <4>3 DEF KillEnds
    <3>4. CASE run' = Idle
      <4>1. run'.pc = "user" /\ Turn(q)
        BY <1>1, <3>4 DEF Idle, Turn
      <4> QED
        BY <1>0, <1>2, <1>3, <1>4, <3>1, <3>3, <4>1, RegistryStep, PlainSteps
    <3>5. CASE Go("outcome")
      <4>1. run'.pc = "outcome" /\ run'.p = q
        BY <1>1, <3>5, Here DEF Go, Runs
      <4>2. Entered(q)' /\ Turn(q)
        BY <1>1, <1>4, <3>1, <4>1 DEF Entered, Registered, Turn
      <4> QED
        BY <1>0, <1>2, <1>3, <1>4, <4>1, <4>2, RegistryStep, PlainSteps
    <3> QED
      BY <3>2, <3>4, <3>5
  <2> QED
    BY <2>1, <2>2
<1> QED
  BY <1>4b, <1>5, <1>6

-----------------------------------------------------------------------------
(* kwsysProcessesRemove                                                    *)
LEMMA RemoveRegistry ==
    ASSUME TypeInv, Registry, Remove
    PROVE  Registry'
<1>0. run.pc = "remove" /\ setup' = setup /\ obj' = obj /\ reg' = reg /\ fds' = fds
  BY DEF Remove, At
<1>1. PICK q \in Objects : q = run.p
  BY Here
<1>2. InTable /\ Handler /\ fds = {"0"}
  BY <1>0 DEF Registry, Table, Taking, Descriptors, Starting
<1>3. CASE q \notin Registered
  <2>1. run'.pc = "close" /\ run'.p = q
    BY <1>1, <1>3, Here DEF Remove, Go, Runs
  <2>2. Entered(q)' /\ Turn(q)
    BY <1>0, <1>1, <1>3, <2>1 DEF Entered, Registered, Turn, Preparing, Waiting
  <2> QED
    BY <1>0, <1>2, <2>1, <2>2, RegistryStep, PlainSteps
<1>4. CASE q \in Registered
  <2>1. PICK k \in DOMAIN reg.cells : k = Position /\ reg.cells[k] = q
    BY <1>1, <1>4 DEF Position, Registered
  <2>2. run'.pc = "shift" /\ run'.p = q /\ run'.i = k
    BY <1>1, <1>4, <2>1, Here DEF Remove, GoTo, Runs
  <2>3. Others' = {reg.cells[j] : j \in DOMAIN reg.cells \ {k}}
    BY <1>0, <2>2 DEF Others
  <2>4. q \notin Others'
    BY <1>2, <2>1, <2>3 DEF InTable, Distinct
  <2>5. ASSUME NEW p \in Objects, p # q PROVE p \in Others' <=> obj'[p].state = "Executing"
    <3>1. p \in Registered <=> obj[p].state = "Executing"
      BY <1>1, <1>2, <2>5 DEF InTable, Mine
    <3>2. p \in Others' <=> p \in Registered
      BY <2>1, <2>3, <2>5 DEF Registered
    <3> QED
      BY <1>0, <3>1, <3>2
  <2>6. Distinct(DOMAIN reg.cells \ {run.i})'
    BY <1>0, <1>2 DEF InTable, Distinct
  <2>7. TakenOut'
    BY <1>0, <2>1, <2>2, <2>4, <2>5, <2>6, SameSetup DEF TakenOut
  <2>8. Handler'
    BY <1>0, <1>2, <2>2 DEF Handler, Installed
  <2> QED
    BY <1>0, <1>2, <2>2, <2>7, <2>8 DEF Registry, Table, Taking, Descriptors
<1> QED
  BY <1>3, <1>4

(* What holds while an object is taken out.                                *)
LEMMA TakingHere ==
    ASSUME TypeInv, Registry, run.pc \in Taking, NEW q \in Objects, q = run.p
    PROVE  /\ TakenOut /\ Handler /\ fds = {"0"} /\ q \notin Others
           /\ run.i \in 1..Len(reg.cells) /\ reg.cells \in Seq(Objects) /\ Len(reg.cells) \in Nat
           /\ DOMAIN reg.cells = 1..Len(reg.cells)
           /\ \A p \in Objects : p # q => (p \in Others <=> obj[p].state = "Executing")
BY Cells DEF Registry, Table, TakenOut, Descriptors, Taking, Starting, TypeInv, Place

LEMMA ShiftRegistry ==
    ASSUME TypeInv, Registry, Shift
    PROVE  Registry'
<1>0. run.pc = "shift" /\ run.pc \in Taking /\ setup' = setup /\ obj' = obj /\ fds' = fds
  BY DEF Shift, At, Taking
<1>1. PICK q \in Objects : q = run.p
  BY Here
<1> DEFINE n == Len(reg.cells)
           i == run.i
<1>2. /\ TakenOut /\ Handler /\ fds = {"0"} /\ q \notin Others
      /\ i \in 1..n /\ reg.cells \in Seq(Objects) /\ n \in Nat /\ DOMAIN reg.cells = 1..n
      /\ \A p \in Objects : p # q => (p \in Others <=> obj[p].state = "Executing")
  BY <1>0, <1>1, TakingHere
<1>3. CASE /\ i < n
           /\ reg' = [reg EXCEPT !.cells[run.i] = reg.cells[run.i + 1]]
           /\ GoTo("shift", i + 1)
  <2> DEFINE e == reg.cells[i + 1]
             cells == [reg.cells EXCEPT ![i] = e]
  <2>1. i + 1 \in 1..n /\ i + 1 # i
    BY <1>2, <1>3
  <2>2. e \in Objects
    BY <1>2, <2>1, ElementOfSeq
  <2>3. /\ cells \in Seq(Objects) /\ Len(cells) = n
        /\ \A j \in 1..n : cells[j] = IF j = i THEN e ELSE reg.cells[j]
    BY <1>2, <2>2, ExceptSeq
  <2>4. DOMAIN cells = 1..n
    BY <2>3, LenProperties
  <2>5. reg' = [reg EXCEPT !.cells = cells]
    BY <1>3
  <2> HIDE DEF cells, e
  <2>6. /\ reg'.cells = cells /\ reg'.handler = reg.handler
        /\ reg'.freed = reg.freed /\ reg'.pending = reg.pending
    BY <2>5, Here DEF Tables
  <2>7. run'.pc = "shift" /\ run'.p = q /\ run'.i = i + 1
    BY <1>1, <1>3, Here DEF GoTo, Runs
  <2>8. reg.cells[i + 1] = e
    BY DEF e
  <2> DEFINE From(k) == IF k = i THEN i + 1 ELSE k
  <2>9. \A k \in 1..n \ {i + 1} :
            From(k) \in 1..n \ {i} /\ cells[k] = reg.cells[From(k)]
    BY <1>2, <2>1, <2>3, <2>8
  <2>10. \A k \in 1..n \ {i} : \E j \in 1..n \ {i + 1} : From(j) = k
    <3> SUFFICES ASSUME NEW k \in 1..n \ {i} PROVE \E j \in 1..n \ {i + 1} : From(j) = k
      OBVIOUS
    <3>1. CASE k = i + 1
      BY <1>2, <2>1, <3>1
    <3>2. CASE k # i + 1
      BY <3>2
    <3> QED
      BY <3>1, <3>2
  <2>11. \A k, l \in 1..n \ {i + 1} : From(k) = From(l) => k = l
    OBVIOUS
  <2> HIDE DEF From
  <2>12. Others' = {cells[k] : k \in 1..n \ {i + 1}} /\ Others = {reg.cells[k] : k \in 1..n \ {i}}
    BY <1>2, <2>4, <2>6, <2>7 DEF Others
  <2> HIDE DEF n, i
  <2>13. Others' = Others
    <3>1. Others' \subseteq Others
      BY <2>9, <2>12
    <3>2. \A k \in 1..n \ {i} : \E j \in 1..n \ {i + 1} : cells[j] = reg.cells[k]
      BY <2>9, <2>10
    <3>3. Others \subseteq Others'
      BY <2>12, <3>2
    <3> QED
      BY <3>1, <3>3
  <2>14. cells[i + 1] \in Others
    <3>1. cells[i + 1] = e
      BY <2>1, <2>3, <2>8
    <3>2. i + 1 \in 1..n \ {i}
      BY <2>1
    <3> QED
      BY <2>8, <2>12, <3>1, <3>2
  <2>15. Distinct(1..n \ {i})
    BY <1>2 DEF TakenOut, n, i
  <2>16. \A k, l \in 1..n \ {i + 1} : cells[k] = cells[l] => k = l
    BY <2>9, <2>11, <2>15 DEF Distinct
  <2>17. Distinct(DOMAIN reg.cells \ {run.i})'
    BY <2>4, <2>6, <2>7, <2>16 DEF Distinct
  <2>18. TakenOut'
    BY <1>0, <1>2, <2>6, <2>7, <2>13, <2>14, <2>17, SameSetup DEF TakenOut
  <2>19. Handler'
    BY <1>0, <1>2, <2>3, <2>6, <2>7 DEF Handler, Installed, n
  <2> QED
    BY <1>0, <1>2, <2>7, <2>18, <2>19 DEF Registry, Table, Taking, Descriptors
<1>4. CASE ~(i < n) /\ reg' = reg /\ Go(IF n = 1 THEN "restore" ELSE "update")
  <2>0. \A a, b \in Nat : b \in 1..a /\ ~(b < a) => b = a /\ a > 0 /\ (a # 1 => a > 1)
    OBVIOUS
  <2>1. i = n /\ n > 0 /\ (n # 1 => n > 1)
    <3>1. i \in Nat
      BY <1>2
    <3> HIDE DEF n, i
    <3> QED
      BY <1>2, <1>4, <2>0, <3>1
  <2>2. run'.pc = (IF n = 1 THEN "restore" ELSE "update") /\ run'.p = q /\ run'.i = i
    <3> DEFINE place == IF n = 1 THEN "restore" ELSE "update"
    <3>1. run' = [run EXCEPT !.pc = place] /\ run.p = q /\ run.i = i
      BY <1>1, <1>4 DEF Go
    <3>2. run \in Runs
      BY Here
    <3> HIDE DEF place, n, i
    <3>3. run'.pc = place /\ run'.p = q /\ run'.i = i
      BY <3>1, <3>2 DEF Runs
    <3> QED
      BY <3>3 DEF place
  <2>3. TakenOut'
    BY <1>0, <1>1, <1>2, <1>4, <2>1, <2>2, SameSetup DEF TakenOut, Others, Distinct
  <2>4. Handler'
    BY <1>0, <1>2, <1>4, <2>1, <2>2 DEF Handler, Installed
  <2> QED
    BY <1>0, <1>2, <2>2, <2>3, <2>4 DEF Registry, Table, Taking, Descriptors, Starting
<1> QED
  BY <1>3, <1>4 DEF Shift

LEMMA FreeRegistry ==
    ASSUME TypeInv, Registry, RestoreHandler \/ FreeTable
    PROVE  Registry'
<1>0. /\ run.pc \in {"restore", "free"} /\ run.pc \in Taking
      /\ setup' = setup /\ obj' = obj /\ fds' = fds
  BY DEF RestoreHandler, FreeTable, At, Taking
<1>1. PICK q \in Objects : q = run.p
  BY Here
<1>2. TakenOut /\ Handler /\ fds = {"0"}
  BY <1>0, <1>1, TakingHere
<1>3. /\ run'.p = q /\ run'.i = run.i
      /\ run'.pc = IF run.pc = "restore" THEN "free" ELSE "update"
  BY <1>0, <1>1, Here DEF RestoreHandler, FreeTable, At, Go, Runs
<1>4. /\ reg'.cells = reg.cells
      /\ reg'.handler = (reg.handler /\ run.pc # "restore")
      /\ reg'.pending = (reg.pending /\ run.pc # "restore")
      /\ reg'.freed = (reg.freed \/ run.pc = "free")
  <2>1. CASE RestoreHandler
    BY <2>1, Here DEF RestoreHandler, Tables, At
  <2>2. CASE FreeTable
    BY <2>2, Here DEF FreeTable, Tables, At
  <2> QED
    BY <2>1, <2>2
<1>5. Len(reg.cells) = 1 /\ run.i = Len(reg.cells)
  BY <1>0, <1>2 DEF TakenOut
<1>6. TakenOut'
  BY <1>0, <1>1, <1>2, <1>3, <1>4, <1>5, SameSetup DEF TakenOut, Others, Distinct
<1>7. Handler'
  <2>1. CASE run.pc = "restore"
    BY <1>2, <1>3, <1>4, <1>5, <2>1 DEF Handler, Installed
  <2>2. CASE run.pc = "free"
    <3>1. reg.handler = FALSE /\ reg.pending = FALSE
      BY <1>2, <2>2, Cells DEF Handler, Installed
    <3>2. ~reg'.handler /\ ~reg'.pending
      BY <1>4, <3>1
    <3>3. run'.pc = "update"
      BY <1>3, <2>2
    <3>4. Len(reg'.cells) = 1
      BY <1>4, <1>5
    <3>5. ~Installed'
      BY <3>3, <3>4 DEF Installed
    <3> QED
      BY <3>2, <3>3, <3>4, <3>5 DEF Handler
  <2> QED
    BY <1>0, <2>1, <2>2
<1> QED
  BY <1>0, <1>2, <1>3, <1>6, <1>7 DEF Registry, Table, Taking, Descriptors

LEMMA UpdateRegistry ==
    ASSUME TypeInv, Registry, UpdateTable
    PROVE  Registry'
<1>0. run.pc = "update" /\ run.pc \in Taking /\ setup' = setup /\ obj' = obj /\ fds' = fds
  BY DEF UpdateTable, At, Taking
<1>1. PICK q \in Objects : q = run.p
  BY Here
<1> DEFINE n == Len(reg.cells)
           cells == SubSeq(reg.cells, 1, n - 1)
<1>2. /\ TakenOut /\ Handler /\ fds = {"0"} /\ q \notin Others
      /\ run.i \in 1..n /\ reg.cells \in Seq(Objects) /\ n \in Nat /\ DOMAIN reg.cells = 1..n
      /\ \A p \in Objects : p # q => (p \in Others <=> obj[p].state = "Executing")
  BY <1>0, <1>1, TakingHere
<1>3. run.i = n /\ n >= 1
  BY <1>0, <1>2 DEF TakenOut
<1>4. run'.pc = "close" /\ run'.p = q
  BY <1>1, Here DEF UpdateTable, Go, Runs
<1>5. cells \in Seq(Objects) /\ Len(cells) = n - 1 /\ \A k \in 1..n - 1 : cells[k] = reg.cells[k]
  <2>1. 1 \in Int /\ n - 1 \in Int /\ \A k \in 1..n - 1 : reg.cells[k] \in Objects
    BY <1>2, ElementOfSeq
  <2>2. /\ SubSeq(reg.cells, 1, n - 1) \in Seq(Objects)
        /\ Len(SubSeq(reg.cells, 1, n - 1)) = IF 1 <= n - 1 THEN n - 1 - 1 + 1 ELSE 0
        /\ \A k \in 1..n - 1 - 1 + 1 : SubSeq(reg.cells, 1, n - 1)[k] = reg.cells[1 + k - 1]
    BY <2>1, SubSeqProperties
  <2>3. n - 1 - 1 + 1 = n - 1 /\ \A k \in 1..n - 1 : 1 + k - 1 = k
    BY <1>2
  <2>4. ~(1 <= n - 1) => n - 1 = 0
    <3>1. \A a \in Nat : a >= 1 /\ ~(1 <= a - 1) => a - 1 = 0
      OBVIOUS
    <3> HIDE DEF n
    <3> QED
      BY <1>2, <1>3, <3>1
  <2> QED
    BY <2>2, <2>3, <2>4
<1>6. reg' = [reg EXCEPT !.cells = cells, !.freed = FALSE]
  BY DEF UpdateTable
<1>7. DOMAIN cells = 1..n - 1
  BY <1>5, LenProperties
<1> HIDE DEF cells
<1>8. /\ reg'.cells = cells /\ reg'.handler = reg.handler
      /\ reg'.freed = FALSE /\ reg'.pending = reg.pending
  BY <1>6, Here DEF Tables
<1>9. 1..n - 1 = 1..n \ {n}
  BY <1>2, <1>3
<1>10. Registered' = Others
  <2>1. Registered' = {cells[k] : k \in 1..n - 1}
    BY <1>7, <1>8 DEF Registered
  <2>2. Others = {reg.cells[k] : k \in 1..n - 1}
    BY <1>2, <1>3, <1>9 DEF Others
  <2> QED
    BY <1>5, <2>1, <2>2
<1>11. Distinct(DOMAIN reg.cells)'
  <2>1. Distinct(1..n - 1)
    BY <1>2, <1>3, <1>9 DEF TakenOut
  <2> QED
    BY <1>5, <1>7, <1>8, <2>1 DEF Distinct
<1>12. Entered(run.p)'
  BY <1>2, <1>4, <1>10 DEF Entered, Preparing, Waiting
<1>13. InTable'
  <2>1. \A p \in Objects : ~Mine(p)' => (p \in Registered' <=> obj'[p].state = "Executing")
    BY <1>0, <1>2, <1>4, <1>10 DEF Mine
  <2> QED
    BY <1>0, <1>11, <1>12, <2>1, SameSetup DEF InTable
<1>14. Handler'
  <2>1. reg.handler <=> n > 1
    BY <1>0, <1>2 DEF Handler, Installed
  <2>2. Installed' <=> n - 1 > 0
    BY <1>4, <1>5, <1>8 DEF Installed
  <2>3. n > 1 <=> n - 1 > 0
    BY <1>2
  <2> QED
    BY <1>2, <1>8, <2>1, <2>2, <2>3 DEF Handler
<1> QED
  BY <1>0, <1>2, <1>4, <1>13, <1>14 DEF Registry, Table, Taking, Descriptors

LEMMA CloseRegistry ==
    ASSUME TypeInv, Ledger, Registry, CloseAll
    PROVE  Registry'
<1>0. run.pc = "close" /\ run' = Idle /\ setup' = setup /\ reg' = reg /\ fds' = fds
  BY DEF CloseAll, At
<1>1. PICK q \in Objects : q = run.p
  BY Here
<1>2. /\ \A p \in Objects : p # q => obj'[p] = obj[p]
      /\ q \notin Registered /\ fds = {"0"}
  BY <1>0, <1>1, ParentTouches, EnteredHere DEF Parent, Taking, Starting
<1>3. obj[q].state # "Executing"
  BY <1>0, <1>1 DEF Ledger, Good, Mine, Cleaning, Cleaned
<1> DEFINE s == IF run.call = "Delete" THEN "none" ELSE obj[q].state
           pids == [i \in Members(q) |-> "0"]
           m == [obj[q] EXCEPT !.signalPipe = FALSE, !.readEnds = {}, !.forkPIDs = pids, !.state = s]
<1>4. s # "Executing"
  BY <1>3
<1>5. obj' = [obj EXCEPT ![q] = m]
  BY <1>1 DEF CloseAll
<1>6. m.state = s
  <2> HIDE DEF s, pids
  <2> QED
    BY Here DEF Object
<1> HIDE DEF m, s
<1>7. obj'[q].state # "Executing"
  BY <1>4, <1>5, <1>6, Here DEF TypedObjects
<1>8. run'.pc = "user" /\ Turn(q)
  BY <1>0, <1>1 DEF Idle, Turn
<1> QED
  BY <1>0, <1>2, <1>7, <1>8, RegistryStep, PlainSteps

-----------------------------------------------------------------------------
LEMMA RegistryInit == Init => Registry
<1> SUFFICES ASSUME Init PROVE Registry
  OBVIOUS
<1>1. run.pc = "user" /\ fds = {"0"}
  BY DEF Init, Idle
<1>2. /\ reg.cells = <<>> /\ Len(reg.cells) = 0
      /\ reg.handler = FALSE /\ reg.pending = FALSE /\ reg.freed = FALSE
  BY EmptySeq DEF Init
<1>3. DOMAIN reg.cells = {}
  BY <1>2, LenProperties, EmptySeq
<1>4. \A p \in Objects : obj[p].state = "none"
  <2> TAKE p \in Objects
  <2>1. obj[p] = [Initialized(p) EXCEPT !.state = "none"]
    BY DEF Init
  <2> QED
    BY <2>1 DEF Initialized
<1>5. InTable
  BY <1>1, <1>3, <1>4 DEF InTable, Registered, Distinct
<1>6. Handler
  BY <1>1, <1>2 DEF Handler, Installed
<1> QED
  BY <1>1, <1>5, <1>6 DEF Registry, Table, Taking, Descriptors

LEMMA RegistryNext ==
    ASSUME SafePipes
    PROVE  TypeInv /\ Ledger /\ Registry /\ [Next]_vars => Registry'
<1> SUFFICES ASSUME TypeInv, Ledger, Registry, [Next]_vars PROVE Registry'
  OBVIOUS
<1>1. CASE User
  BY <1>1, UserRegistry
<1>2. CASE Parent
  BY <1>2, AddRegistry, AppendRegistry, InstallRegistry, StartRegistry, WaitRegistry, KillRegistry,
     RemoveRegistry, ShiftRegistry, FreeRegistry, UpdateRegistry, CloseRegistry DEF Parent
<1>3. CASE Exec \/ Child \/ SignalHandler \/ TimePasses \/ UNCHANGED vars
  BY <1>3, OutsideRegistry
<1> QED
  BY <1>1, <1>2, <1>3 DEF Next

LEMMA RegistryHolds ==
    ASSUME SafeForks, SafePipes
    PROVE  Spec => [](TypeInv /\ Ledger /\ Registry)
BY RegistryInit, RegistryNext, LedgerHolds, Typed, PTL DEF Spec

-----------------------------------------------------------------------------
(* The objects in the table that are not in the call in progress.          *)
LEMMA OtherObjects ==
    ASSUME TypeInv, Registry, NEW p \in Objects, ~Mine(p)
    PROVE  p \in Registered <=> obj[p].state = "Executing"
<1>1. CASE run.pc \notin Taking
  BY <1>1 DEF Registry, Table, InTable
<1>2. CASE run.pc \in Taking
  <2>1. PICK q \in Objects : q = run.p
    BY Here
  <2>2. /\ TakenOut /\ run.i \in DOMAIN reg.cells
        /\ (p \in Others <=> obj[p].state = "Executing")
    BY <1>2, <2>1, TakingHere DEF Mine, Taking
  <2>3. p # run.p
    BY <1>2 DEF Mine, Taking
  <2>4. p \in Registered <=> p \in Others
    BY <2>2, <2>3 DEF TakenOut, Registered, Others
  <2> QED
    BY <2>2, <2>4
<1> QED
  BY <1>1, <1>2

(* An object with a child that is not reaped is in the table, and the      *)
(* handler is installed and stays so.                                      *)
LEMMA ParentsReached ==
    ASSUME TypeInv, Ledger, Registry, NEW p \in Objects, NEW i \in Members(p), child[p][i].life \in Held
    PROVE  p \in Registered /\ reg.handler /\ run.pc \notin {"restore", "free"}
<1>0. PICK q \in Objects : q = run.p
  BY Here
<1>1. ~Dead(p) /\ child[p][i].life # "none"
  BY DEF Dead, Held, Living
<1>2. Mine(p) => p = q /\ run.pc \in Preparing \cup Waiting \cup {"closing", "kill"}
  BY <1>0, <1>1, Here DEF Ledger, Good, Mine, Cleaned, Runs, Steps
<1>3. Mine(p) => run.pc \notin {"add", "append", "install"}
  <2> SUFFICES ASSUME Mine(p), run.pc \in {"add", "append", "install"} PROVE FALSE
    OBVIOUS
  <2>1. Prepared(p) /\ ~Begun(i)
    BY DEF Ledger, Good, Preparing, Begun, Starting
  <2> QED
    BY <1>1, <2>1 DEF Prepared
<1>4. ~Unstarted(p) \/ run.pc # "kill" \/ ~Mine(p)
  <2> SUFFICES ASSUME Mine(p), run.pc = "kill" PROVE ~Unstarted(p)
    OBVIOUS
  <2>1. Killing(p)
    BY DEF Ledger, Good
  <2>2. i \in Nat /\ run.i \in Nat
    BY LastMember, Here
  <2>3. i >= run.i
    BY <2>1, <2>2 DEF Killing
  <2>4. obj[p].forkPIDs[i] = "child"
    BY <2>1, <2>3 DEF Killing
  <2> QED
    BY <2>4 DEF Unstarted
<1>5. p \in Registered
  <2>1. CASE ~Mine(p)
    BY <1>1, <2>1, OtherObjects DEF Ledger, Good, Settled
  <2>2. CASE Mine(p)
    BY <1>0, <1>2, <1>3, <1>4, <2>2, EnteredHere DEF Entered, Preparing, Waiting, Taking
  <2> QED
    BY <2>1, <2>2
<1>6. PICK k \in DOMAIN reg.cells : reg.cells[k] = p
  BY <1>5 DEF Registered
<1>7. k \in 1..Len(reg.cells) /\ Len(reg.cells) \in Nat
  BY <1>6, Cells
<1>8. CASE run.pc \in Taking
  <2>1. TakenOut /\ p # q
    BY <1>0, <1>2, <1>8, TakingHere DEF Preparing, Waiting, Taking, Mine
  <2>2. PICK l \in DOMAIN reg.cells \ {run.i} : reg.cells[l] = p
    BY <1>0, <1>6, <2>1 DEF TakenOut, Others
  <2>3. l \in 1..Len(reg.cells) /\ l # run.i
    BY <2>2, Cells
  <2>4. run.pc # "shift" => Len(reg.cells) > 1 /\ Len(reg.cells) # 1
    BY <1>7, <2>1, <2>3 DEF TakenOut
  <2>5. run.pc \notin {"restore", "free"}
    BY <2>1, <2>4 DEF TakenOut
  <2>6. Len(reg.cells) > 0
    BY <1>7
  <2>7. Installed
    BY <1>8, <2>4, <2>5, <2>6 DEF Installed, Taking
  <2> QED
    BY <1>5, <2>5, <2>7 DEF Registry, Handler
<1>9. CASE run.pc = "install"
  <2>1. p # q /\ q \in Registered
    BY <1>0, <1>3, <1>9, EnteredHere DEF Mine, Preparing, Taking
  <2>2. PICK l \in DOMAIN reg.cells : reg.cells[l] = q
    BY <2>1 DEF Registered
  <2>3. l \in 1..Len(reg.cells) /\ l # k
    BY <1>6, <2>1, <2>2, Cells
  <2>4. Len(reg.cells) > 1
    BY <1>7, <2>3
  <2> QED
    BY <1>5, <1>9, <2>4 DEF Registry, Handler, Installed
<1>10. CASE run.pc \notin Taking \cup {"install"}
  <2>1. Len(reg.cells) > 0
    BY <1>7
  <2> QED
    BY <1>5, <1>10, <2>1 DEF Registry, Handler, Installed, Taking
<1> QED
  BY <1>8, <1>9, <1>10

(* Whenever SIGCHLD interrupts the parent, also while the table shrinks or *)
(* is freed, the handler reads allocated memory and objects that exist.    *)
THEOREM HandlerAlwaysSafe ==
    ASSUME SafeForks, SafePipes
    PROVE  Spec => []HandlerIsSafe
<1>1. TypeInv /\ Ledger /\ Registry => HandlerIsSafe
  <2> SUFFICES ASSUME TypeInv, Ledger, Registry, reg.handler PROVE ~reg.freed /\ \A p \in Registered : obj[p].state # "none"
    BY DEF HandlerIsSafe
  <2>1. ~reg.freed
    <3>1. \A n \in Nat : n = 1 => ~(n > 1)
      OBVIOUS
    <3>2. run.pc = "update" /\ Len(reg.cells) = 1 => ~Installed
      BY <3>1 DEF Installed
    <3> QED
      BY <3>2 DEF Registry, Handler
  <2>2. ASSUME NEW p \in Objects, p \in Registered PROVE obj[p].state # "none"
    <3>1. CASE ~Mine(p)
      BY <2>2, <3>1, OtherObjects
    <3>2. CASE Mine(p)
      BY <3>2, Here DEF Ledger, Good, Mine, Prepared, Waited, Doomed, Killing, Cleaned, Runs, Steps
    <3> QED
      BY <3>1, <3>2
  <2>3. Registered \subseteq Objects
    BY Cells DEF Registered
  <2> QED
    BY <2>1, <2>2, <2>3
<1> QED
  BY <1>1, RegistryHolds, PTL

(* The handler notifies every object that has children, also while another *)
(* one is moved out of the table below it.                                 *)
THEOREM HandlerReaches ==
    ASSUME SafeForks, SafePipes
    PROVE  Spec => []HandlerReachesAll
<1>1. TypeInv /\ Ledger /\ Registry => HandlerReachesAll
  BY ParentsReached DEF HandlerReachesAll, Alive, Zombie, Held
<1> QED
  BY <1>1, RegistryHolds, PTL

(* What kwsysProcess_Execute has begun and could not finish, and what      *)
(* kwsysProcess_WaitForExit has ended, leaves no child, no descriptor and  *)
(* no entry in the table.                                                  *)
THEOREM NothingLeft ==
    ASSUME SafeForks, SafePipes
    PROVE  Spec => []NothingIsLeft
<1>1. TypeInv /\ Ledger /\ Registry => NothingIsLeft
  <2> SUFFICES ASSUME TypeInv, Ledger, Registry PROVE NothingIsLeft
    OBVIOUS
  <2>1. At("user") => fds = {"0"}
    BY DEF Registry, Descriptors, At, Starting
  <2>2. ASSUME NEW p \in Objects, obj[p].state # "Executing", At("user") \/ run.p # p
        PROVE  /\ \A i \in Members(p) : child[p][i].life \in {"none", "gone"}
               /\ obj[p].readEnds = {} /\ ~obj[p].signalPipe
               /\ p \notin Registered
    <3>1. ~Mine(p)
      BY <2>2 DEF Mine, At
    <3>2. Dead(p) /\ Closed(p)
      BY <2>2, <3>1 DEF Ledger, Good, Settled
    <3>3. p \notin Registered
      BY <2>2, <3>1, OtherObjects
    <3>4. \A i \in Members(p) : child[p][i].life \in {"none", "gone"}
      BY <3>2, Here DEF Dead, Held, TypedKernel, Children
    <3> QED
      BY <3>2, <3>3, <3>4 DEF Closed
  <2> QED
    BY <2>1, <2>2 DEF NothingIsLeft
<1> QED
  BY <1>1, RegistryHolds, PTL

-----------------------------------------------------------------------------
(* An exit that the object of the child has yet to learn of, and that it   *)
(* will.                                                                   *)
Owed(p, i) == obj[p].signalPipe /\ Zombie(p, i) /\ obj[p].forkPIDs[i] # "0"
Noticed(p, i) ==
    \/ reg.pending \/ pipe[p].byte
    \/ At("reap") /\ run.p = p /\ run.i <= i

LEMMA NoticedHere ==
    ASSUME NoExitIsLost, NEW p \in Objects, NEW i \in Members(p), Owed(p, i)
    PROVE  Noticed(p, i)
BY DEF NoExitIsLost, Owed, Noticed

LEMMA AllNoticed ==
    ASSUME TypeInv, setup' = setup,
           \A p \in Objects : \A i \in Members(p) : Owed(p, i)' => Noticed(p, i)'
    PROVE  NoExitIsLost'
<1>1. Objects' = Objects /\ \A p \in Objects : Members(p)' = Members(p)
  BY SameSetup
<1> QED
  BY <1>1 DEF NoExitIsLost, Owed, Noticed

(* A step that takes no byte and no signal, outside kwsysProcessDestroy.   *)
LEMMA NoticeKept ==
    ASSUME TypeInv, NoExitIsLost, setup' = setup, reg.pending => reg'.pending,
           run.pc # "reap" \/ (run'.pc = run.pc /\ run'.p = run.p /\ run'.i = run.i),
           \A p \in Objects : \A i \in Members(p) :
               Owed(p, i)' => Owed(p, i) /\ (pipe[p].byte => pipe'[p].byte)
    PROVE  NoExitIsLost'
<1> SUFFICES ASSUME NEW p \in Objects, NEW i \in Members(p), Owed(p, i)' PROVE Noticed(p, i)'
  BY AllNoticed
<1>1. Owed(p, i) /\ (pipe[p].byte => pipe'[p].byte)
  OBVIOUS
<1>2. Noticed(p, i)
  BY <1>1, NoticedHere
<1> QED
  BY <1>1, <1>2 DEF Noticed, At

LEMMA OwedSame ==
    ASSUME NEW p, NEW i, Owed(p, i)', obj'[p].signalPipe => obj[p].signalPipe,
           obj'[p].forkPIDs[i] = obj[p].forkPIDs[i],
           child'[p][i].life = "zombie" => child[p][i].life = "zombie"
    PROVE  Owed(p, i)
BY DEF Owed, Zombie

(* Children, signals and time.                                             *)
LEMMA OutsideNotices ==
    ASSUME Watch, NoExitIsLost, Exec \/ Child \/ SignalHandler \/ TimePasses \/ UNCHANGED vars
    PROVE  NoExitIsLost'
<1>0. TypeInv /\ Ledger /\ Registry
  BY DEF Watch
<1>1. setup' = setup /\ obj' = obj
  BY DEF Exec, Child, SignalHandler, TimePasses, vars, ExecSucceeds, ExecFails, WritesData,
         ChildExits, GrandchildrenExit
<1>2. CASE SignalHandler
  <2> SUFFICES ASSUME NEW p \in Objects, NEW i \in Members(p), Owed(p, i)' PROVE Noticed(p, i)'
    BY <1>0, <1>1, AllNoticed
  <2>1. child[p][i].life \in Held /\ obj[p].signalPipe
    BY <1>1, <1>2 DEF SignalHandler, Owed, Zombie, Held
  <2>2. p \in Registered
    BY <1>0, <2>1, ParentsReached
  <2>3. pipe'[p] = [pipe[p] EXCEPT !.byte = obj[p].signalPipe]
    BY <1>2, <2>2 DEF SignalHandler
  <2>4. pipe'[p].byte = obj[p].signalPipe
    BY <1>0, <2>3, Here DEF TypedKernel, PipeStates
  <2> QED
    BY <2>1, <2>4 DEF Noticed
<1>3. ASSUME RaiseSIGCHLD,
             NEW q \in Objects, NEW j \in Members(q), child[q][j].life \in Held,
             \A p \in Objects : \A i \in Members(p) : <<p, i>> # <<q, j>> => child'[p][i] = child[p][i]
      PROVE  NoExitIsLost'
  <2> SUFFICES ASSUME NEW p \in Objects, NEW i \in Members(p), Owed(p, i)' PROVE Noticed(p, i)'
    BY <1>0, <1>1, AllNoticed
  <2>1. child[p][i].life \in Held
    BY <1>3 DEF Owed, Zombie, Held
  <2>2. reg.handler = TRUE
    BY <1>0, <2>1, ParentsReached, Cells
  <2>3. reg'.pending = reg.handler
    BY <1>0, <1>3, Here DEF RaiseSIGCHLD, Tables
  <2> QED
    BY <2>2, <2>3 DEF Noticed
<1>4. ASSUME NEW p \in Objects, NEW i \in Members(p), ExecFails(p, i) \/ ChildExits(p, i)
      PROVE  NoExitIsLost'
  <2>1. RaiseSIGCHLD /\ child[p][i].life \in Held
    BY <1>4 DEF ExecFails, ChildExits, Held, Living
  <2>2. \A q \in Objects : \A j \in Members(q) : <<q, j>> # <<p, i>> => child'[q][j] = child[q][j]
    <3>1. PICK c : child' = [child EXCEPT ![p][i] = c]
      BY <1>4 DEF ExecFails, ChildExits
    <3>2. DOMAIN child = Objects /\ \A q \in Objects : DOMAIN child[q] = Members(q)
      BY <1>0, Here DEF TypedKernel, Children
    <3> QED
      BY <3>1, <3>2
  <2> QED
    BY <1>3, <2>1, <2>2
<1>5. ASSUME NEW p \in Objects, NEW i \in Members(p), ExecSucceeds(p, i) PROVE NoExitIsLost'
  <2>1. /\ UNCHANGED <<pipe, reg, run>> /\ child' = [child EXCEPT ![p][i].life = "running"]
    BY <1>5 DEF ExecSucceeds
  <2>2. \A q \in Objects : \A j \in Members(q) :
            child'[q][j].life = "zombie" => child[q][j].life = "zombie"
    <3>1. \A q \in Objects : \A j \in Members(q) : DOMAIN child = Objects /\ DOMAIN child[q] = Members(q)
      BY <1>0, Here DEF TypedKernel, Children
    <3>2. DEFINE c == [child[p][i] EXCEPT !.life = "running"]
    <3>3. c.life = "running"
      BY <1>0, Here DEF TypedKernel, Children
    <3>4. child' = [child EXCEPT ![p][i] = c]
      BY <2>1
    <3> HIDE DEF c
    <3> QED
      BY <3>1, <3>3, <3>4
  <2>3. \A q \in Objects : \A j \in Members(q) : Owed(q, j)' => Owed(q, j)
    BY <1>1, <2>2, OwedSame
  <2> QED
    BY <1>0, <1>1, <2>1, <2>3, NoticeKept
<1>6. ASSUME NEW p \in Objects, GrandchildrenExit(p) \/ \E i \in Members(p) : WritesData(p, i)
      PROVE  NoExitIsLost'
  <2>1. UNCHANGED <<child, reg, run>>
    BY <1>6 DEF GrandchildrenExit, WritesData
  <2>2. \A q \in Objects : pipe'[q].byte = pipe[q].byte
    <3>1. CASE GrandchildrenExit(p)
      BY <1>0, <3>1, Here DEF GrandchildrenExit, TypedKernel, PipeStates
    <3>2. CASE \E i \in Members(p) : WritesData(p, i)
      BY <1>0, <3>2, Here DEF WritesData, TypedKernel, PipeStates
    <3> QED
      BY <1>6, <3>1, <3>2
  <2> QED
    BY <1>0, <1>1, <2>1, <2>2, NoticeKept DEF Owed, Zombie
<1>7. CASE TimePasses \/ UNCHANGED vars
  <2>1. UNCHANGED <<child, pipe, reg>> /\ run'.pc = run.pc /\ run'.p = run.p /\ run'.i = run.i
    BY <1>0, <1>7, Here DEF TimePasses, vars, Runs
  <2> QED
    BY <1>0, <1>1, <2>1, NoticeKept DEF Owed, Zombie
<1> QED
  BY <1>2, <1>4, <1>5, <1>6, <1>7 DEF Exec, Child

(* The program calls the library.                                          *)
LEMMA UserNotices ==
    ASSUME TypeInv, NoExitIsLost, User
    PROVE  NoExitIsLost'
<1>1. PICK p \in Objects : \/ New(p) \/ ExecuteNothing(p) \/ Execute(p) \/ WaitForExit(p)
                           \/ WaitForData(p) \/ Kill(p) \/ Delete(p)
  BY DEF User
<1>2. run.pc = "user" /\ setup' = setup /\ reg' = reg
  BY <1>1 DEF New, ExecuteNothing, Execute, WaitForExit, WaitForData, Wait, Kill, Delete, At
<1>3. \A q \in Objects : q # p => UNCHANGED <<obj[q], child[q], pipe[q]>>
  BY <1>1, Here DEF New, ExecuteNothing, Execute, WaitForExit, WaitForData, Wait, Kill, KillBegins, Delete,
                    TypedObjects, TypedKernel
<1>4. ~obj'[p].signalPipe \/ (UNCHANGED <<child[p], pipe[p]>> /\ obj'[p].signalPipe = obj[p].signalPipe
                              /\ obj'[p].forkPIDs = obj[p].forkPIDs)
  <2>1. Initialized(p).signalPipe = FALSE
    BY DEF Initialized
  <2>2. CASE New(p) \/ Execute(p)
    <3>1. obj'[p] = Initialized(p)
      BY <2>2, Here DEF New, Execute, TypedObjects
    <3> QED
      BY <2>1, <3>1
  <2>3. CASE Kill(p)
    BY <2>3, Here DEF Kill, KillBegins, Closing, TypedObjects, Object
  <2>4. CASE ExecuteNothing(p)
    BY <2>4, Here DEF ExecuteNothing, TypedObjects, Object
  <2>5. CASE WaitForExit(p)
    BY <2>5, Here DEF WaitForExit, Wait, TypedObjects, Object
  <2>6. CASE WaitForData(p)
    BY <2>6, Here DEF WaitForData, Wait, TypedObjects, Object
  <2>7. CASE Delete(p)
    <3>1. CASE Wait(p, "Delete", "none")
      BY <3>1 DEF Wait
    <3>2. CASE obj' = [obj EXCEPT ![p].state = "none"] /\ child' = child /\ pipe' = pipe
      <4>1. obj'[p] = [obj[p] EXCEPT !.state = "none"]
        BY <3>2, Here DEF TypedObjects
      <4>2. obj[p] \in Object(p)
        BY Here
      <4> QED
        BY <3>2, <4>1, <4>2 DEF Object
    <3> QED
      BY <2>7, <3>1, <3>2 DEF Delete
  <2> QED
    BY <1>1, <2>2, <2>3, <2>4, <2>5, <2>6, <2>7
<1>5. \A q \in Objects : \A i \in Members(q) :
          Owed(q, i)' => Owed(q, i) /\ (pipe[q].byte => pipe'[q].byte)
  BY <1>3, <1>4 DEF Owed, Zombie
<1> QED
  BY <1>2, <1>5, NoticeKept

(* kwsysProcess_Execute.                                                   *)
LEMMA ExecuteNotices ==
    ASSUME TypeInv, Ledger, NoExitIsLost,
           AddSignalPipe \/ AddAppend \/ AddInstall \/ SetupStderr \/ CreateStdout \/ Fork \/ Forked
    PROVE  NoExitIsLost'
<1>0. run.pc \in Preparing /\ setup' = setup /\ pipe' = pipe
  BY DEF AddSignalPipe, AddAppend, AddInstall, SetupStderr, CreateStdout, Fork, Forked, At, Preparing
<1>1. PICK q \in Objects : q = run.p
  BY Here
<1>2. reg'.pending = reg.pending
  BY Here DEF AddSignalPipe, AddAppend, AddInstall, SetupStderr, CreateStdout, Fork, Forked, Tables
<1>3. Prepared(q)
  BY <1>0, <1>1 DEF Ledger, Good, Mine, Preparing
<1>4. \A p \in Objects : p # q => obj'[p] = obj[p]
  BY <1>1, ParentTouches DEF Parent
<1>5. ASSUME NEW kept, ExecuteFails(kept) PROVE obj'[q].signalPipe = obj[q].signalPipe /\ obj'[q].forkPIDs = obj[q].forkPIDs
  BY <1>1, <1>5, Here DEF ExecuteFails, TypedObjects, Object
<1>6. ASSUME NEW p \in Objects, NEW i \in Members(p), Owed(p, i)' PROVE Owed(p, i)
  <2>1. CASE Fork
    <3>1. PICK j \in Members(q) : j = run.i
      BY <1>0, <1>1, <2>1, Here DEF TypeInv, Place, Fork, At, Starting
    <3>2. child[q][j].life = "none"
      <4>1. ~Begun(j)
        BY <2>1, <3>1, Here DEF Fork, At, Begun, Runs
      <4> QED
        BY <1>3, <4>1 DEF Prepared
    <3>3. \/ child' = child
          \/ child' = [child EXCEPT ![q][j].life = "forked"]
      BY <1>1, <2>1, <3>1 DEF Fork
    <3>4. \A r \in Objects : \A k \in Members(r) :
              child'[r][k].life = "zombie" => child'[r][k] = child[r][k]
      <4>1. \A r \in Objects : DOMAIN child = Objects /\ DOMAIN child[r] = Members(r)
        BY Here DEF TypedKernel, Children
      <4> DEFINE c == [child[q][j] EXCEPT !.life = "forked"]
      <4>2. c.life = "forked"
        BY Here DEF TypedKernel, Children
      <4>3. child' = child \/ child' = [child EXCEPT ![q][j] = c]
        BY <3>3
      <4> HIDE DEF c
      <4> QED
        BY <4>1, <4>2, <4>3
    <3>5. <<p, i>> # <<q, j>> /\ child'[p][i] = child[p][i]
      BY <1>6, <3>2, <3>4 DEF Owed, Zombie
    <3>6. obj'[p].signalPipe = obj[p].signalPipe /\ obj'[p].forkPIDs[i] = obj[p].forkPIDs[i]
      <4>1. CASE p # q
        BY <1>4, <4>1
      <4>2. CASE p = q
        <5>1. i # j
          BY <3>5, <4>2
        <5>2. \/ obj' = [obj EXCEPT ![q].forkPIDs[j] = "child", ![q].commandsLeft = @ + 1]
              \/ obj' = [obj EXCEPT ![q].state = "Error", ![q].forkPIDs[j] = "-1"]
          BY <1>1, <2>1, <3>1 DEF Fork
        <5>3. DOMAIN obj = Objects /\ obj[q] \in Object(q)
          BY Here DEF TypedObjects
        <5> DEFINE forked == [obj[q].forkPIDs EXCEPT ![j] = "child"]
                   failed == [obj[q].forkPIDs EXCEPT ![j] = "-1"]
                   m == [obj[q] EXCEPT !.forkPIDs = forked, !.commandsLeft = @ + 1]
                   n == [obj[q] EXCEPT !.state = "Error", !.forkPIDs = failed]
        <5>4. obj' = [obj EXCEPT ![q] = m] \/ obj' = [obj EXCEPT ![q] = n]
          <6>1. CASE obj' = [obj EXCEPT ![q].forkPIDs[j] = "child", ![q].commandsLeft = @ + 1]
            <7>1. obj' = [obj EXCEPT ![q] = m]
              BY <6>1
            <7> QED
              BY <7>1
          <6>2. CASE obj' = [obj EXCEPT ![q].state = "Error", ![q].forkPIDs[j] = "-1"]
            <7>1. obj' = [obj EXCEPT ![q] = n]
              BY <6>2
            <7> QED
              BY <7>1
          <6> QED
            BY <5>2, <6>1, <6>2
        <5>5. forked[i] = obj[q].forkPIDs[i] /\ failed[i] = obj[q].forkPIDs[i]
          BY <4>2, <5>1, <5>3 DEF Object
        <5>6. /\ m.signalPipe = obj[q].signalPipe /\ m.forkPIDs[i] = obj[q].forkPIDs[i]
              /\ n.signalPipe = obj[q].signalPipe /\ n.forkPIDs[i] = obj[q].forkPIDs[i]
          <6> HIDE DEF forked, failed
          <6> QED
            BY <5>3, <5>5 DEF Object
        <5> HIDE DEF m, n
        <5> QED
          BY <4>2, <5>3, <5>4, <5>6
      <4> QED
        BY <4>1, <4>2
    <3> QED
      BY <1>6, <3>5, <3>6, OwedSame
  <2>2. CASE ~Fork /\ p # q
    <3>1. child' = child
      BY <2>2 DEF AddSignalPipe, AddAppend, AddInstall, SetupStderr, CreateStdout, Forked
    <3> QED
      BY <1>4, <1>6, <2>2, <3>1 DEF Owed, Zombie
  <2>3. CASE ~Fork /\ p = q
    <3>1. child' = child
      BY <2>3 DEF AddSignalPipe, AddAppend, AddInstall, SetupStderr, CreateStdout, Forked
    <3>2. child[q][i].life = "zombie"
      BY <1>6, <2>3, <3>1 DEF Owed, Zombie
    <3>3. run.pc # "add"
      <4>1. run.pc = "add" => ~Begun(i)
        BY DEF Begun, Starting
      <4> QED
        BY <1>3, <2>3, <3>2, <4>1 DEF Prepared
    <3>4. \/ \E kept : ExecuteFails(kept)
          \/ obj'[q].signalPipe = obj[q].signalPipe /\ obj'[q].forkPIDs = obj[q].forkPIDs
      <4>1. CASE AddAppend \/ AddInstall
        BY <4>1 DEF AddAppend, AddInstall
      <4>2. CASE SetupStderr
        BY <1>1, <4>2, Here DEF SetupStderr, TypedObjects, Object
      <4>3. CASE CreateStdout
        BY <4>3 DEF CreateStdout
      <4>4. CASE Forked
        <5>1. \/ ExecuteFails({"0"}) \/ UNCHANGED obj
              \/ obj' = [obj EXCEPT ![q].readEnds = @ \cup {"STDOUT"}, ![q].state = "Executing"]
          BY <1>1, <4>4 DEF Forked
        <5>2. obj' = [obj EXCEPT ![q].readEnds = @ \cup {"STDOUT"}, ![q].state = "Executing"] =>
                obj'[q].signalPipe = obj[q].signalPipe /\ obj'[q].forkPIDs = obj[q].forkPIDs
          BY Here DEF TypedObjects, Object
        <5> QED
          BY <5>1, <5>2
      <4> QED
        BY <2>3, <3>3, <4>1, <4>2, <4>3, <4>4 DEF AddSignalPipe, At
    <3> QED
      BY <1>5, <1>6, <2>3, <3>1, <3>4 DEF Owed, Zombie
  <2> QED
    BY <2>1, <2>2, <2>3
<1> QED
  BY <1>0, <1>2, <1>6, NoticeKept DEF Preparing

(* The parent waits: the byte is taken, then all children are looked at.   *)
LEMMA WaitNotices ==
    ASSUME TypeInv, NoExitIsLost, ReadOutput \/ Select \/ SelectFails \/ WaitEnds
    PROVE  NoExitIsLost'
<1>0. run.pc \in {"handle", "outcome"} /\ setup' = setup /\ UNCHANGED <<child, reg>>
  BY DEF ReadOutput, Select, SelectFails, WaitEnds, At
<1>1. PICK q \in Objects : q = run.p
  BY Here
<1>2. \A p \in Objects : pipe'[p].byte = pipe[p].byte
  <2>1. \/ UNCHANGED pipe
        \/ \E k : pipe' = [pipe EXCEPT ![run.p].data = @ \ {k}]
    BY DEF ReadOutput, Select, SelectFails, WaitEnds
  <2>2. ASSUME NEW k, pipe' = [pipe EXCEPT ![run.p].data = @ \ {k}], NEW p \in Objects
        PROVE  pipe'[p].byte = pipe[p].byte
    <3>1. DOMAIN pipe = Objects /\ pipe[p] \in PipeStates
      BY Here DEF TypedKernel
    <3> QED
      BY <2>2, <3>1 DEF PipeStates
  <2> QED
    BY <2>1, <2>2
<1>3. \A p \in Objects : p # q => obj'[p] = obj[p]
  BY <1>1, ParentTouches DEF Parent
<1>4. obj'[q].signalPipe => obj[q].signalPipe /\ obj'[q].forkPIDs = obj[q].forkPIDs
  <2>1. ASSUME NEW k PROVE /\ Keep(k).signalPipe = obj[q].signalPipe /\ Keep(k).forkPIDs = obj[q].forkPIDs
                           /\ Close(k).signalPipe = obj[q].signalPipe /\ Close(k).forkPIDs = obj[q].forkPIDs
    BY <1>1, Here DEF Keep, Close, Me, Object
  <2>2. CASE ReadOutput
    <3>1. \E k : obj' = [obj EXCEPT ![q] = Keep(k)] \/ obj' = [obj EXCEPT ![q] = Close(k)]
      BY <1>1, <2>2 DEF ReadOutput
    <3>2. \E k : obj'[q] = Keep(k) \/ obj'[q] = Close(k)
      BY <3>1, Here DEF TypedObjects
    <3> QED
      BY <2>1, <3>2
  <2>3. ASSUME NEW cause, KillBegins(q, cause) PROVE ~obj'[q].signalPipe
    BY <2>3, Here DEF KillBegins, Closing, TypedObjects, Object
  <2>4. CASE Select
    <3>1. \/ obj' = obj \/ obj' = [obj EXCEPT ![q].pipeSet = Ready(run.p)]
          \/ KillBegins(q, "expired")
      BY <1>1, <2>4 DEF Select, TimeoutExpires
    <3>2. obj' = [obj EXCEPT ![q].pipeSet = Ready(run.p)] =>
             obj'[q].signalPipe = obj[q].signalPipe /\ obj'[q].forkPIDs = obj[q].forkPIDs
      BY Here DEF TypedObjects, Object
    <3> QED
      BY <2>3, <3>1, <3>2
  <2>5. CASE SelectFails
    BY <1>1, <2>3, <2>5 DEF SelectFails
  <2>6. CASE WaitEnds
    BY <1>1, <2>6, Here DEF WaitEnds, TypedObjects, Object
  <2> QED
    BY <2>2, <2>4, <2>5, <2>6
<1>5. \A p \in Objects : \A i \in Members(p) : Owed(p, i)' => Owed(p, i)
  BY <1>0, <1>3, <1>4 DEF Owed, Zombie
<1> QED
  BY <1>0, <1>2, <1>5, NoticeKept

LEMMA ReadSignalNotices ==
    ASSUME TypeInv, NoExitIsLost, ReadSignal
    PROVE  NoExitIsLost'
<1>0. run.pc = "handle" /\ setup' = setup /\ UNCHANGED <<child, reg>>
  BY DEF ReadSignal, At
<1>1. PICK q \in Objects : q = run.p
  BY Here
<1> DEFINE kept == Keep("SIGNAL")
           shut == Close("SIGNAL")
<1>2. /\ kept.signalPipe = obj[q].signalPipe /\ kept.forkPIDs = obj[q].forkPIDs
      /\ shut.signalPipe = obj[q].signalPipe /\ shut.forkPIDs = obj[q].forkPIDs
  BY <1>1, Here DEF Keep, Close, Me, Object
<1>3. obj' = [obj EXCEPT ![q] = kept] \/ obj' = [obj EXCEPT ![q] = shut]
  BY <1>1 DEF ReadSignal
<1> HIDE DEF kept, shut
<1>4. \A p \in Objects : obj'[p].signalPipe = obj[p].signalPipe /\ obj'[p].forkPIDs = obj[p].forkPIDs
  BY <1>2, <1>3, Here DEF TypedObjects
<1>5. \A p \in Objects : \A i \in Members(p) : Owed(p, i)' => Owed(p, i)
  BY <1>0, <1>4 DEF Owed, Zombie
<1>6. CASE ~pipe[q].byte
  <2>1. pipe' = pipe
    BY <1>1, <1>6 DEF ReadSignal
  <2> QED
    BY <1>0, <1>5, <2>1, NoticeKept
<1>7. CASE pipe[q].byte
  <2>1. pipe' = [pipe EXCEPT ![q].byte = FALSE] /\ GoTo("reap", 1)
    BY <1>1, <1>7 DEF ReadSignal
  <2>2. run'.pc = "reap" /\ run'.p = q /\ run'.i = 1
    BY <1>1, <2>1, Here DEF GoTo, Runs
  <2>3. \A p \in Objects : p # q => pipe'[p] = pipe[p]
    BY <2>1, Here DEF TypedKernel
  <2> SUFFICES ASSUME NEW p \in Objects, NEW i \in Members(p), Owed(p, i)' PROVE Noticed(p, i)'
    BY <1>0, AllNoticed
  <2>4. Noticed(p, i)
    BY <1>5, NoticedHere
  <2>5. CASE p # q
    BY <1>0, <2>3, <2>4, <2>5 DEF Noticed, At
  <2>6. CASE p = q
    <3>1. 1 <= i
      BY LastMember
    <3> QED
      BY <2>2, <2>6, <3>1 DEF Noticed, At
  <2> QED
    BY <2>5, <2>6
<1> QED
  BY <1>6, <1>7

(* kwsysProcessDestroy has looked at a child.                              *)
LEMMA ReapNotices ==
    ASSUME TypeInv, NoExitIsLost, Reap
    PROVE  NoExitIsLost'
<1>0. run.pc = "reap" /\ setup' = setup /\ UNCHANGED <<pipe, reg>>
  BY DEF Reap, At
<1>1. PICK q \in Objects : q = run.p
  BY Here
<1>2. \A p \in Objects : p # q => obj'[p] = obj[p]
  BY <1>1, ParentTouches DEF Parent
<1> SUFFICES ASSUME NEW p \in Objects, NEW i \in Members(p), Owed(p, i)' PROVE Noticed(p, i)'
  BY <1>0, AllNoticed
<1>3. i \in Nat /\ run.i \in Nat /\ i <= Commands[p]
  BY LastMember, Here
<1>4. CASE run.i > Commands[q]
  <2>1. UNCHANGED <<obj, child>>
    BY <1>1, <1>4 DEF Reap
  <2>2. Noticed(p, i)
    BY <2>1, NoticedHere DEF Owed, Zombie
  <2>3. ~(run.p = p /\ run.i <= i)
    <3>1. \A a, b, c \in Nat : a > b /\ c <= b => ~(a <= c)
      OBVIOUS
    <3>2. Commands[q] \in Nat
      BY LastMember
    <3> QED
      BY <1>1, <1>3, <1>4, <3>1, <3>2
  <2> QED
    BY <1>0, <2>2, <2>3 DEF Noticed
<1>5. CASE ~(run.i > Commands[q])
  <2>1. run'.pc = "reap" /\ run'.p = q /\ run'.i = run.i + 1
    BY <1>1, <1>5, Here DEF Reap, GoTo, Runs
  <2>2. PICK j \in Members(q) : j = run.i
    BY <1>0, <1>1, <1>5, Here DEF TypeInv, Place
  <2>3. IF obj[q].forkPIDs[j] # "0" THEN WaitPid ELSE UNCHANGED <<obj, child>>
    BY <1>1, <1>5, <2>2 DEF Reap, Me
  <2>4. ASSUME Zombie(q, j), obj[q].forkPIDs[j] # "0"
        PROVE  /\ child'[q][j].life = "gone"
               /\ \A r \in Objects : \A k \in Members(r) :
                     <<r, k>> # <<q, j>> => child'[r][k] = child[r][k]
               /\ \A k \in Members(q) : k # j => obj'[q].forkPIDs[k] = obj[q].forkPIDs[k]
               /\ obj'[q].signalPipe => obj[q].signalPipe
    <3>1. /\ child' = [child EXCEPT ![q][j].life = "gone"]
          /\ obj' = [obj EXCEPT ![q] = Reaped(child[q][j].status)]
      BY <1>1, <2>2, <2>3, <2>4 DEF WaitPid, Zombie
    <3>2. DOMAIN child = Objects /\ \A r \in Objects : DOMAIN child[r] = Members(r)
      BY Here DEF TypedKernel, Children
    <3> DEFINE c == [child[q][j] EXCEPT !.life = "gone"]
               m == Reaped(child[q][j].status)
               pids == [obj[q].forkPIDs EXCEPT ![j] = "0"]
    <3>3. c.life = "gone"
      BY Here DEF TypedKernel, Children
    <3>4. child' = [child EXCEPT ![q][j] = c]
      BY <3>1
    <3>5. \A k \in Members(q) : k # j => pids[k] = obj[q].forkPIDs[k]
      BY Here DEF Object
    <3>6. m.forkPIDs = pids
      BY <1>1, <2>2, Here DEF Reaped, Me, Object
    <3>7. m.signalPipe => obj[q].signalPipe
      BY <1>1, <2>2, Here DEF Reaped, Me, Object
    <3>8. obj'[q] = m
      BY <3>1, Here DEF TypedObjects
    <3> HIDE DEF c, m, pids
    <3> QED
      BY <3>2, <3>3, <3>4, <3>5, <3>6, <3>7, <3>8
  <2>5. ASSUME ~Zombie(q, j) \/ obj[q].forkPIDs[j] = "0"
        PROVE  /\ child' = child
               /\ obj'[q].forkPIDs = obj[q].forkPIDs
               /\ obj'[q].signalPipe = obj[q].signalPipe
    <3>1. \/ UNCHANGED <<obj, child>>
          \/ obj' = [obj EXCEPT ![q].state = "Error"] /\ UNCHANGED child
      BY <1>1, <2>2, <2>3, <2>5 DEF WaitPid, Zombie
    <3> QED
      BY <3>1, Here DEF TypedObjects, Object
  <2>6. <<p, i>> # <<q, j>>
    <3>1. CASE Zombie(q, j) /\ obj[q].forkPIDs[j] # "0"
      BY <2>4, <3>1 DEF Owed, Zombie
    <3>2. CASE ~Zombie(q, j) \/ obj[q].forkPIDs[j] = "0"
      BY <2>5, <3>2 DEF Owed, Zombie
    <3> QED
      BY <3>1, <3>2
  <2>7. Owed(p, i)
    <3>1. CASE Zombie(q, j) /\ obj[q].forkPIDs[j] # "0"
      BY <1>2, <2>4, <2>6, <3>1 DEF Owed, Zombie
    <3>2. CASE ~Zombie(q, j) \/ obj[q].forkPIDs[j] = "0"
      BY <1>2, <2>5, <3>2 DEF Owed, Zombie
    <3> QED
      BY <3>1, <3>2
  <2>8. Noticed(p, i)
    BY <2>7, NoticedHere
  <2>9. p = q /\ run.i <= i => run.i + 1 <= i
    BY <1>3, <2>2, <2>6
  <2> QED
    BY <1>0, <1>1, <2>1, <2>8, <2>9 DEF Noticed, At
<1> QED
  BY <1>4, <1>5

(* kwsysProcess_Kill, the table and the end of a run.                      *)
LEMMA KillNotices ==
    ASSUME TypeInv, Ledger, NoExitIsLost, ClosePipes \/ KillOne \/ KillEnds
    PROVE  NoExitIsLost'
<1>0. run.pc \in {"closing", "kill"} /\ setup' = setup /\ UNCHANGED pipe
  BY DEF ClosePipes, KillOne, KillEnds, At
<1>1. PICK q \in Objects : q = run.p
  BY Here
<1>2. reg.pending => reg'.pending
  BY Here DEF ClosePipes, KillOne, KillEnds, Tables
<1>3. \A p \in Objects : \A i \in Members(p) : Owed(p, i)' => Owed(p, i)
  <2>1. CASE KillOne
    <3>1. PICK j \in Members(q) : j = run.i
      BY <1>1, <2>1, Here DEF TypeInv, Place, KillOne, At
    <3>2. /\ child'[q][j].life \notin Held
          /\ \A p \in Objects : \A i \in Members(p) :
                <<p, i>> # <<q, j>> => child'[p][i] = child[p][i]
      BY <1>1, <2>1, <3>1, KillOneTouches
    <3>3. obj' = obj
      BY <2>1 DEF KillOne
    <3>4. ASSUME NEW p \in Objects, NEW i \in Members(p), Owed(p, i)' PROVE Owed(p, i)
      <4>1. <<p, i>> # <<q, j>>
        BY <3>2, <3>4 DEF Owed, Zombie, Held
      <4> QED
        BY <3>2, <3>3, <3>4, <4>1 DEF Owed, Zombie
    <3> QED
      BY <3>4
  <2>2. CASE KillEnds
    <3>1. child' = child
      BY <2>2 DEF KillEnds
    <3>2. \A p \in Objects : p # q => obj'[p] = obj[p]
      BY <1>1, <2>2, ParentTouches DEF Parent
    <3>3. obj'[q].signalPipe = obj[q].signalPipe /\ obj'[q].forkPIDs = obj[q].forkPIDs
      <4>1. run.cause \in {"failed", "asked", "expired", "select"}
        BY <2>2, Here DEF KillEnds, At, TypeInv, Broken, Runs
      <4>2. CASE run.cause = "failed"
        BY <2>2, <4>2 DEF KillEnds
      <4>3. CASE run.cause = "asked"
        BY <1>1, <2>2, <4>3, Here DEF KillEnds, TypedObjects, Object
      <4>4. CASE run.cause = "expired"
        BY <1>1, <2>2, <4>4, Here DEF KillEnds, TypedObjects, Object
      <4>5. CASE run.cause = "select"
        BY <1>1, <2>2, <4>5, Here DEF KillEnds, TypedObjects, Object
      <4> QED
        BY <4>1, <4>2, <4>3, <4>4, <4>5
    <3> QED
      BY <3>1, <3>2, <3>3 DEF Owed, Zombie
  <2>3. CASE ClosePipes
    <3>1. child' = child /\ \A p \in Objects : p # q => obj'[p] = obj[p]
      BY <1>1, <2>3, ParentTouches DEF ClosePipes, Parent
    <3>2. obj'[q].signalPipe = obj[q].signalPipe /\ obj'[q].forkPIDs = obj[q].forkPIDs
      BY <1>1, <2>3, Here DEF ClosePipes, Closing, TypedObjects, Object
    <3> QED
      BY <3>1, <3>2 DEF Owed, Zombie
  <2> QED
    BY <2>1, <2>2, <2>3
<1> QED
  BY <1>0, <1>2, <1>3, NoticeKept

LEMMA CleaningNotices ==
    ASSUME Watch, NoExitIsLost,
           Remove \/ Shift \/ RestoreHandler \/ FreeTable \/ UpdateTable \/ CloseAll
    PROVE  NoExitIsLost'
<1>0. /\ run.pc \in Cleaning /\ setup' = setup /\ child' = child
      /\ TypeInv /\ Ledger /\ Registry
  BY DEF Remove, Shift, RestoreHandler, FreeTable, UpdateTable, CloseAll, At, Cleaning, Taking, Watch
<1>1. PICK q \in Objects : q = run.p
  BY <1>0, Here
<1>2. CASE Remove \/ Shift \/ FreeTable \/ UpdateTable
  <2>1. obj' = obj /\ pipe' = pipe /\ reg'.pending = reg.pending
    BY <1>0, <1>2, Here DEF Remove, Shift, FreeTable, UpdateTable, Tables
  <2> QED
    BY <1>0, <2>1, NoticeKept DEF Owed, Zombie, Cleaning, Taking
<1>3. CASE RestoreHandler
  <2>1. ASSUME NEW p \in Objects, NEW i \in Members(p), Owed(p, i)' PROVE FALSE
    <3>1. child[p][i].life \in Held /\ run.pc = "restore"
      BY <1>0, <1>3, <2>1 DEF RestoreHandler, Owed, Zombie, Held, At
    <3> QED
      BY <1>0, <3>1, ParentsReached
  <2> QED
    BY <1>0, <2>1, AllNoticed
<1>4. CASE CloseAll
  <2>1. /\ \A p \in Objects : p # q => obj'[p] = obj[p] /\ pipe'[p] = pipe[p]
        /\ reg' = reg
    BY <1>0, <1>1, <1>4, Here DEF CloseAll, TypedObjects, TypedKernel
  <2>2. obj'[q].signalPipe = FALSE
    <3> DEFINE pids == [i \in Members(q) |-> "0"]
               s == IF run.call = "Delete" THEN "none" ELSE obj[q].state
               m == [obj[q] EXCEPT !.signalPipe = FALSE, !.readEnds = {}, !.forkPIDs = pids, !.state = s]
    <3>1. obj' = [obj EXCEPT ![q] = m]
      BY <1>1, <1>4 DEF CloseAll
    <3>2. m.signalPipe = FALSE
      <4> HIDE DEF pids, s
      <4> QED
        BY <1>0, Here DEF Object
    <3> HIDE DEF m
    <3> QED
      BY <1>0, <3>1, <3>2, Here DEF TypedObjects
  <2>3. \A p \in Objects : \A i \in Members(p) :
            Owed(p, i)' => Owed(p, i) /\ (pipe[p].byte => pipe'[p].byte)
    BY <1>0, <2>1, <2>2 DEF Owed, Zombie
  <2> QED
    BY <1>0, <2>1, <2>3, NoticeKept DEF Cleaning, Taking
<1> QED
  BY <1>2, <1>3, <1>4

(* No exit of a child goes unnoticed, however many come while the parent   *)
(* handles one, and however the steps of the parent and of the handler are *)
(* interleaved.                                                            *)
THEOREM NoExitLost ==
    ASSUME SafeForks, SafePipes
    PROVE  Spec => []NoExitIsLost
<1>1. Init => NoExitIsLost
  <2> SUFFICES ASSUME Init, NEW p \in Objects, NEW i \in Members(p) PROVE ~Zombie(p, i)
    BY DEF NoExitIsLost
  <2> DEFINE unborn == [life |-> "none", status |-> "exit 0"]
  <2>1. child[p] = [j \in Members(p) |-> unborn] /\ unborn.life = "none"
    BY DEF Init
  <2> HIDE DEF unborn
  <2> QED
    BY <2>1 DEF Zombie
<1>2. Watch /\ NoExitIsLost /\ [Next]_vars => NoExitIsLost'
  <2> SUFFICES ASSUME Watch, NoExitIsLost, [Next]_vars PROVE NoExitIsLost'
    OBVIOUS
  <2>0. TypeInv /\ Ledger /\ Registry
    BY DEF Watch
  <2>1. CASE User
    BY <2>0, <2>1, UserNotices
  <2>2. CASE Parent
    BY <2>0, <2>2, ExecuteNotices, ReadSignalNotices, WaitNotices, ReapNotices, KillNotices,
       CleaningNotices DEF Parent
  <2>3. CASE Exec \/ Child \/ SignalHandler \/ TimePasses \/ UNCHANGED vars
    BY <2>3, OutsideNotices
  <2> QED
    BY <2>1, <2>2, <2>3 DEF Next
<1>3. Watch <=> TypeInv /\ Ledger /\ Registry
  BY DEF Watch
<1> QED
  BY <1>1, <1>2, <1>3, RegistryHolds, PTL DEF Spec
=============================================================================
