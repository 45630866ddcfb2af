---------------------------- MODULE ProcessUnix ----------------------------
(***************************************************************************)
(* The process library (KWSys/ProcessUNIX.c): objects that run a pipeline  *)
(* of commands each, wait for it and end it, in a parent of one thread     *)
(* whose SIGCHLD handler may run between any two of its steps.  The        *)
(* children, the clock and the signal are the environment.                 *)
(***************************************************************************)
EXTENDS Integers, Sequences, FiniteSets

CONSTANT Setups \* the programs and systems to consider

Outputs == {"STDOUT", "STDERR"}
Pipes == Outputs \cup {"SIGNAL"}
Calls == {"WaitForData", "WaitForExit", "Kill"}
Fallible == {"add", "stderr", "stdout", "fork", "exec", "select"}

(* A setup has NumberOfCommands of each object of the program, the outputs *)
(* its parent reads (the others are shared), the objects with a timeout,   *)
(* what the program calls beside New, Execute and Delete, the calls of the *)
(* system that may fail, and whether a child may leave processes behind    *)
(* that hold its outputs.                                                  *)
ASSUME ProcessAssumption ==
    \A s \in Setups :
        LET objects == DOMAIN s.commands IN
        /\ objects # {} /\ s.commands \in [objects -> Nat]
        /\ s.piped \in [objects -> SUBSET Outputs] /\ s.timed \subseteq objects
        /\ s.calls \subseteq Calls /\ s.failures \subseteq Fallible
        /\ s.grandchildren \in BOOLEAN

VARIABLES
    setup,  \* the program and the system, chosen once
    obj,    \* what each kwsysProcess holds
    child,  \* the children in the kernel: their life, and the status they end with
    pipe,   \* the pipes in the kernel: whether the signal pipe holds a byte, which
            \* outputs hold data, and which are held open by grandchildren
    over,   \* the objects whose timeout has passed
    reg,    \* kwsysProcesses, and the handler of SIGCHLD
    run,    \* the parent: the step it is at, in which call and for which object
    fds,    \* the descriptors of the parent that belong to no object
    victims \* whom the parent has signalled although they are not its children

vars == <<setup, obj, child, pipe, over, reg, run, fds, victims>>

Commands == setup.commands
Objects == DOMAIN Commands
Piped == setup.piped
Timed == setup.timed
Members(p) == 1..Commands[p]

States == {"Starting", "Error", "Exception", "Executing", "Exited", "Expired",
           "Killed", "none"}
(* How a child ends; "exec" if its program cannot be run.                  *)
Statuses == {"exit 0", "exit 1", "signal", "exec"}

(* A child that is "gone" has been reaped.                                 *)
Living == {"forked", "running"}
Alive(p, i) == child[p][i].life \in Living
Zombie(p, i) == child[p][i].life = "zombie"

(* Mutant of Initialized: commandsLeft starts with what is to be counted.  *)
InitializedFull(p) ==
    [state |-> "Starting", killed |-> FALSE, expired |-> FALSE, selectError |-> FALSE,
     forkPIDs |-> [i \in Members(p) |-> "0"], codes |-> [i \in Members(p) |-> "exit 0"],
     commandsLeft |-> Commands[p], readEnds |-> {}, signalPipe |-> FALSE, pipeSet |-> {}]
(* kwsysProcessInitialize                                                  *)
Initialized(p) ==
    [state |-> "Starting", killed |-> FALSE, expired |-> FALSE, selectError |-> FALSE,
     forkPIDs |-> [i \in Members(p) |-> "0"], codes |-> [i \in Members(p) |-> "exit 0"],
     commandsLeft |-> 0, readEnds |-> {}, signalPipe |-> FALSE, pipeSet |-> {}]

Idle == [pc |-> "user", p |-> CHOOSE p \in Objects : TRUE, i |-> 0, call |-> "none",
         deadline |-> "none", late |-> FALSE, cause |-> "none"]

Init ==
    /\ setup \in Setups
    /\ obj = [p \in Objects |-> [Initialized(p) EXCEPT !.state = "none"]]
    /\ child = [p \in Objects |-> [i \in Members(p) |-> [life |-> "none", status |-> "exit 0"]]]
    /\ pipe = [p \in Objects |-> [byte |-> FALSE, data |-> {}, held |-> {}]]
    /\ over = {}
    /\ reg = [cells |-> <<>>, handler |-> FALSE, pending |-> FALSE, freed |-> FALSE]
    /\ run = Idle
    /\ fds = {"0"}
    /\ victims = {}

At(step) == run.pc = step
Go(step) == run' = [run EXCEPT !.pc = step]
GoTo(step, i) == run' = [run EXCEPT !.pc = step, !.i = i]
Me == obj[run.p]

-----------------------------------------------------------------------------
(* The children                                                            *)

(* SIGCHLD is discarded while no handler is installed.                     *)
RaiseSIGCHLD == reg' = [reg EXCEPT !.pending = reg.handler]

(* The outputs a command writes to: all share stderr.                      *)
Writes(p, i) == Piped[p] \cap IF i = Commands[p] THEN Outputs ELSE {"STDERR"}

ExecSucceeds(p, i) ==
    /\ child[p][i].life = "forked"
    /\ child' = [child EXCEPT ![p][i].life = "running"]
    /\ UNCHANGED <<setup, obj, pipe, over, reg, run, fds, victims>>

(* kwsysProcessChildErrorExit                                              *)
ExecFails(p, i) ==
    /\ "exec" \in setup.failures
    /\ child[p][i].life = "forked"
    /\ child' = [child EXCEPT ![p][i] = [life |-> "zombie", status |-> "exec"]]
    /\ RaiseSIGCHLD
    /\ UNCHANGED <<setup, obj, pipe, over, run, fds, victims>>

WritesData(p, i) ==
    /\ child[p][i].life = "running"
    /\ \E k \in Writes(p, i) : pipe' = [pipe EXCEPT ![p].data = @ \cup {k}]
    /\ UNCHANGED <<setup, obj, child, over, reg, run, fds, victims>>

ChildExits(p, i) ==
    /\ child[p][i].life = "running"
    /\ \E s \in Statuses \ {"exec"} :
          child' = [child EXCEPT ![p][i] = [life |-> "zombie", status |-> s]]
    /\ \E left \in IF setup.grandchildren THEN SUBSET Writes(p, i) ELSE {{}} :
          pipe' = [pipe EXCEPT ![p].held = @ \cup left]
    /\ RaiseSIGCHLD
    /\ UNCHANGED <<setup, obj, over, run, fds, victims>>

GrandchildrenExit(p) ==
    /\ pipe[p].held # {}
    /\ pipe' = [pipe EXCEPT ![p].held = {}]
    /\ UNCHANGED <<setup, obj, child, over, reg, run, fds, victims>>

(* The timeout of p, or the one of the call in progress.                   *)
TimePasses ==
    /\ \/ /\ \E p \in Timed \ over : obj[p].state = "Executing" /\ over' = over \cup {p}
          /\ UNCHANGED run
       \/ /\ run.deadline = "user" /\ ~run.late
          /\ run' = [run EXCEPT !.late = TRUE]
          /\ UNCHANGED over
    /\ UNCHANGED <<setup, obj, child, pipe, reg, fds, victims>>

-----------------------------------------------------------------------------
(* The SIGCHLD handler: a byte is taken from each signal pipe and one is   *)
(* put into it.                                                            *)
Registered == {reg.cells[k] : k \in DOMAIN reg.cells}
SignalHandler ==
    /\ reg.pending
    /\ reg' = [reg EXCEPT !.pending = FALSE]
    /\ pipe' = [p \in Objects |->
                   IF p \in Registered THEN [pipe[p] EXCEPT !.byte = obj[p].signalPipe]
                                       ELSE pipe[p]]
    /\ UNCHANGED <<setup, obj, child, over, run, fds, victims>>

-----------------------------------------------------------------------------
(* kwsysProcess_Execute                                                    *)

MayFail(what) == what \in setup.failures

(* kwsysProcessCleanup(cp, 1) follows; what Execute itself still holds is  *)
(* closed after it.                                                        *)
(* Mutant of ExecuteFails: the children already started are left alone.    *)
ExecuteFailsQuietly(kept) ==
    /\ obj' = [obj EXCEPT ![run.p].state = "Error"]
    /\ run' = [run EXCEPT !.pc = "remove", !.cause = "failed"]
    /\ fds' = kept
ExecuteFails(kept) ==
    /\ obj' = [obj EXCEPT ![run.p].state = "Error"]
    /\ run' = [run EXCEPT !.pc = "kill", !.i = 1, !.cause = "failed"]
    /\ fds' = kept

(* There is nothing to run.                                                *)
ExecuteNothing(p) ==
    /\ At("user") /\ Commands[p] < 1
    /\ obj[p].state \notin {"Executing", "none"}
    /\ obj' = [obj EXCEPT ![p].state = "Error"]
    /\ UNCHANGED <<setup, child, pipe, over, reg, run, fds, victims>>

Execute(p) ==
    /\ At("user") /\ Commands[p] >= 1
    /\ obj[p].state \notin {"Executing", "none"}
    /\ obj' = [obj EXCEPT ![p] = Initialized(p)]
    /\ child' = [child EXCEPT ![p] = [i \in Members(p) |-> [life |-> "none", status |-> "exit 0"]]]
    /\ pipe' = [pipe EXCEPT ![p] = [byte |-> FALSE, data |-> {}, held |-> {}]]
    /\ over' = over \ {p}
    /\ run' = [Idle EXCEPT !.pc = "add", !.p = p, !.call = "Execute"]
    /\ UNCHANGED <<setup, reg, fds, victims>>

(* kwsysProcessesAdd: the signal pipe, the table (copied first when it is  *)
(* full, the old one is freed when the new one is in use), the handler.    *)
AddSignalPipe ==
    /\ At("add")
    /\ \/ /\ obj' = [obj EXCEPT ![run.p].readEnds = {"SIGNAL"}, ![run.p].signalPipe = TRUE]
          /\ Go("append")
          /\ UNCHANGED fds
       \/ MayFail("add") /\ ExecuteFails(fds)
    /\ UNCHANGED <<setup, child, pipe, over, reg, victims>>

AddAppend ==
    /\ At("append")
    /\ reg' = [reg EXCEPT !.cells = Append(@, run.p)]
    /\ Go("install")
    /\ UNCHANGED <<setup, obj, child, pipe, over, fds, victims>>

AddInstall ==
    /\ At("install")
    /\ reg' = [reg EXCEPT !.handler = @ \/ Len(reg.cells) = 1]
    /\ Go("stderr")
    /\ UNCHANGED <<setup, obj, child, pipe, over, fds, victims>>

SetupStderr ==
    /\ At("stderr")
    /\ \/ /\ obj' = [obj EXCEPT ![run.p].readEnds = @ \cup {"STDERR"}]
          /\ fds' = fds \cup ({"STDERR"} \cap Piped[run.p])
          /\ GoTo("create", 1)
       \/ MayFail("stderr") /\ ExecuteFails(fds)
    /\ UNCHANGED <<setup, child, pipe, over, reg, victims>>

(* kwsysProcessCreate up to the fork.  The read end of the last pipe       *)
(* becomes the input of the command, and *readEnd is 0 until there is the  *)
(* next one.                                                               *)
CreateStdout ==
    /\ At("create")
    /\ \/ /\ fds' = fds \cup {"readEnd"}
                        \cup (IF run.i > 1 THEN {"StdIn"} ELSE {})
                        \cup (IF run.i < Commands[run.p] \/ "STDOUT" \in Piped[run.p]
                              THEN {"StdOut"} ELSE {})
          /\ Go("fork")
          /\ UNCHANGED obj
       \/ /\ MayFail("stdout")
          /\ ExecuteFails(IF run.i > 1 THEN {} ELSE {"0"})
    /\ UNCHANGED <<setup, child, pipe, over, reg, victims>>

(* The error pipe, and the fork.                                           *)
Fork ==
    /\ At("fork")
    /\ \/ /\ child' = [child EXCEPT ![run.p][run.i].life = "forked"]
          /\ obj' = [obj EXCEPT ![run.p].forkPIDs[run.i] = "child",
                                ![run.p].commandsLeft = @ + 1]
          /\ Go("forked")
          /\ UNCHANGED fds
       \/ /\ MayFail("fork")
          /\ obj' = [obj EXCEPT ![run.p].state = "Error", ![run.p].forkPIDs[run.i] = "-1"]
          /\ run' = [run EXCEPT !.pc = "kill", !.i = 1, !.cause = "failed"]
          /\ fds' = {"0"}
          /\ UNCHANGED child
    /\ UNCHANGED <<setup, pipe, over, reg, victims>>

(* The error pipe tells whether the program runs.                          *)
Forked ==
    /\ At("forked") /\ child[run.p][run.i].life # "forked"
    /\ IF child[run.p][run.i].status = "exec" THEN ExecuteFails({"0"})
       ELSE IF run.i < Commands[run.p]
       THEN /\ fds' = fds \ {"StdIn", "StdOut"}
            /\ GoTo("create", run.i + 1)
            /\ UNCHANGED obj
       ELSE /\ fds' = {"0"}
            /\ obj' = [obj EXCEPT ![run.p].readEnds = @ \cup {"STDOUT"},
                                  ![run.p].state = "Executing"]
            /\ run' = Idle
    /\ UNCHANGED <<setup, child, pipe, over, reg, victims>>

-----------------------------------------------------------------------------
(* kwsysProcess_WaitForExit and kwsysProcess_WaitForData, with no timeout, *)
(* a timeout of zero, or a positive one.  The timeout of the object counts *)
(* if it is earlier (kwsysProcessGetTimeoutTime).                          *)

Deadlines(p, timeout) ==
    IF timeout = "none" THEN {IF p \in Timed THEN "process" ELSE "none"}
    ELSE IF p \in over THEN {"process"}
    ELSE IF timeout = "zero" THEN {"zero"}
    ELSE {"user"} \cup IF p \in Timed THEN {"process"} ELSE {}

NoMoreData(p) == obj[p].killed \/ obj[p].expired \/ obj[p].readEnds = {}

Wait(p, call, timeout) ==
    /\ At("user") /\ obj[p].state = "Executing"
    /\ \E d \in Deadlines(p, timeout) :
          run' = [Idle EXCEPT !.p = p, !.call = call, !.deadline = d,
                              !.pc = IF NoMoreData(p) THEN "outcome" ELSE "handle"]
    /\ UNCHANGED <<setup, obj, child, pipe, over, reg, fds, victims>>

WaitForExit(p) == "WaitForExit" \in setup.calls /\ \E timeout \in {"none", "zero", "user"} : Wait(p, "WaitForExit", timeout)
WaitForData(p) ==
    /\ "WaitForData" \in setup.calls /\ ~NoMoreData(p)
    /\ \E timeout \in {"none", "zero", "user"} : Wait(p, "WaitForData", timeout)

(* Pipe_None: WaitForExit goes on, WaitForData returns.                    *)
EndOfData == IF run.call = "WaitForData" THEN run' = Idle ELSE Go("outcome")

HasWriter(p, k) == k \in pipe[p].held \/ \E i \in Members(p) : Alive(p, i) /\ k \in Writes(p, i)
Ready(p) ==
    {k \in obj[p].readEnds :
        IF k = "SIGNAL" THEN pipe[p].byte \/ ~obj[p].signalPipe
                        ELSE k \in pipe[p].data \/ ~HasWriter(p, k)}

(* kwsysProcessWaitForPipe, its first part: read what select has reported. *)
(* An end of file closes the pipe; if there is neither data nor end of     *)
(* file, select has lied.                                                  *)
Reported == Me.pipeSet \cap Me.readEnds
Close(k) == [Me EXCEPT !.readEnds = @ \ {k}, !.pipeSet = @ \ {k}]
Keep(k) == [Me EXCEPT !.pipeSet = @ \ {k}]

ReadOutput ==
    /\ At("handle")
    /\ \E k \in Reported \cap Outputs :
          IF k \in pipe[run.p].data
          THEN /\ pipe' = [pipe EXCEPT ![run.p].data = @ \ {k}]
               /\ obj' = [obj EXCEPT ![run.p] = Keep(k)]
               /\ run' = IF run.call = "WaitForData" THEN Idle ELSE run
          ELSE /\ obj' = [obj EXCEPT ![run.p] = IF HasWriter(run.p, k) THEN Keep(k) ELSE Close(k)]
               /\ UNCHANGED <<pipe, run>>
    /\ UNCHANGED <<setup, child, over, reg, fds, victims>>

ReadSignal ==
    /\ At("handle") /\ Reported = {"SIGNAL"}
    /\ IF pipe[run.p].byte
       THEN /\ pipe' = [pipe EXCEPT ![run.p].byte = FALSE]
            /\ obj' = [obj EXCEPT ![run.p] = Keep("SIGNAL")]
            /\ GoTo("reap", 1)
       ELSE /\ obj' = [obj EXCEPT ![run.p] =
                          IF Me.signalPipe THEN Keep("SIGNAL") ELSE Close("SIGNAL")]
            /\ UNCHANGED <<pipe, run>>
    /\ UNCHANGED <<setup, child, over, reg, fds, victims>>

(* waitpid has reaped a child; the last one ends the notifications.        *)
(* Mutants of Reaped: the process ID is kept; any child is the last one.   *)
ReapedButKept(status) ==
    [Me EXCEPT !.codes[run.i] = status, !.commandsLeft = @ - 1,
               !.signalPipe = @ /\ Me.commandsLeft # 1]
ReapedAndClosed(status) ==
    [Me EXCEPT !.forkPIDs[run.i] = "0", !.codes[run.i] = status, !.commandsLeft = @ - 1,
               !.signalPipe = FALSE]
Reaped(status) ==
    [Me EXCEPT !.forkPIDs[run.i] = "0", !.codes[run.i] = status, !.commandsLeft = @ - 1,
               !.signalPipe = @ /\ Me.commandsLeft # 1]

(* waitpid of one child without blocking: it has exited, it is not there,  *)
(* or it still runs.                                                       *)
WaitPid ==
    CASE Zombie(run.p, run.i) ->
            /\ child' = [child EXCEPT ![run.p][run.i].life = "gone"]
            /\ obj' = [obj EXCEPT ![run.p] = Reaped(child[run.p][run.i].status)]
      [] child[run.p][run.i].life = "gone" ->
            obj' = [obj EXCEPT ![run.p].state = "Error"] /\ UNCHANGED child
      [] OTHER -> UNCHANGED <<obj, child>>

(* kwsysProcessDestroy looks at all children, however many have exited.    *)
(* Mutant of Reap: it looks for one child for each byte.                   *)
ReapOne ==
    /\ At("reap")
    /\ IF run.i > Commands[run.p]
       THEN Go("handle") /\ UNCHANGED <<obj, child>>
       ELSE IF Me.forkPIDs[run.i] # "0" /\ Zombie(run.p, run.i)
       THEN Go("handle") /\ WaitPid
       ELSE GoTo("reap", run.i + 1) /\ UNCHANGED <<obj, child>>
    /\ UNCHANGED <<setup, pipe, over, reg, fds, victims>>
Reap ==
    /\ At("reap")
    /\ IF run.i > Commands[run.p]
       THEN Go("handle") /\ UNCHANGED <<obj, child>>
       ELSE /\ GoTo("reap", run.i + 1)
            /\ IF Me.forkPIDs[run.i] # "0" THEN WaitPid ELSE UNCHANGED <<obj, child>>
    /\ UNCHANGED <<setup, pipe, over, reg, fds, victims>>

(* What kwsysProcess_Kill closes first, and then: the write end of the     *)
(* signal pipe, and the read ends of the pipes, the signal pipe's too.     *)
(* Mutant of Closing: in the other order.                                  *)
ClosingInOtherOrder(o, first) ==
    IF first THEN [o EXCEPT !.readEnds = {}, !.pipeSet = {}] ELSE [o EXCEPT !.signalPipe = FALSE]
Closing(o, first) ==
    IF first THEN [o EXCEPT !.signalPipe = FALSE] ELSE [o EXCEPT !.readEnds = {}, !.pipeSet = {}]

(* kwsysProcess_Kill begins; ClosePipes is its next step.                  *)
KillBegins(p, cause) ==
    /\ obj' = [obj EXCEPT ![p] = Closing(@, TRUE)]
    /\ run' = [run EXCEPT !.pc = "closing", !.p = p, !.i = 1, !.cause = cause]

ClosePipes ==
    /\ At("closing")
    /\ obj' = [obj EXCEPT ![run.p] = [Closing(@, FALSE) EXCEPT !.killed = TRUE]]
    /\ Go("kill")
    /\ UNCHANGED <<setup, child, pipe, over, reg, fds, victims>>

Passed ==
    \/ run.deadline = "process" /\ run.p \in over
    \/ run.deadline = "user" /\ run.late

TimeoutExpires ==
    IF run.deadline = "process" THEN KillBegins(run.p, "expired")
                                ELSE run' = Idle /\ UNCHANGED obj

(* Its second part.  A deadline that has passed counts before pipes that   *)
(* are ready, but a timeout of zero has not passed: select is to poll.     *)
(* Mutant of Select: only select itself looks at the clock.                *)
SelectOnly ==
    /\ At("handle") /\ Reported = {}
    /\ CASE Me.readEnds = {}  -> EndOfData /\ UNCHANGED obj
         [] Me.readEnds # {} /\ Ready(run.p) # {} ->
               obj' = [obj EXCEPT ![run.p].pipeSet = Ready(run.p)] /\ UNCHANGED run
         [] OTHER             -> (Passed \/ run.deadline = "zero") /\ TimeoutExpires
    /\ UNCHANGED <<setup, child, pipe, over, reg, fds, victims>>
Select ==
    /\ At("handle") /\ Reported = {}
    /\ CASE Passed            -> TimeoutExpires
         [] ~Passed /\ Me.readEnds = {} -> EndOfData /\ UNCHANGED obj
         [] ~Passed /\ Ready(run.p) # {} ->
               obj' = [obj EXCEPT ![run.p].pipeSet = Ready(run.p)] /\ UNCHANGED run
         [] OTHER             -> run.deadline = "zero" /\ TimeoutExpires
    /\ UNCHANGED <<setup, child, pipe, over, reg, fds, victims>>

SelectFails ==
    /\ MayFail("select")
    /\ At("handle") /\ Reported = {} /\ ~Passed /\ Me.readEnds # {}
    /\ KillBegins(run.p, "select")
    /\ UNCHANGED <<setup, child, pipe, over, reg, fds, victims>>

(* How WaitForExit ends; kwsysProcessCleanup(cp, 0) follows.               *)
Outcome(o, last) ==
    IF o.state = "Error" \/ o.selectError THEN "Error"
    ELSE IF o.killed THEN "Killed"
    ELSE IF o.expired THEN "Expired"
    ELSE IF o.codes[last] = "signal" THEN "Exception" ELSE "Exited"

WaitEnds ==
    /\ At("outcome")
    /\ obj' = [obj EXCEPT ![run.p].state = Outcome(Me, Commands[run.p])]
    /\ Go("remove")
    /\ UNCHANGED <<setup, child, pipe, over, reg, fds, victims>>

-----------------------------------------------------------------------------
(* kwsysProcess_Kill.  The code does not keep a program from killing what  *)
(* has been killed; one that uses the library as documented calls          *)
(* WaitForExit after Kill, and after WaitForData has told Pipe_None.       *)
Kill(p) ==
    /\ "Kill" \in setup.calls
    /\ At("user") /\ obj[p].state = "Executing"
    /\ ~obj[p].killed /\ ~obj[p].expired /\ ~obj[p].selectError
    /\ KillBegins(p, "asked")
    /\ UNCHANGED <<setup, child, pipe, over, reg, fds, victims>>

(* The processes kill(pid) and waitpid(pid) are about, -1 being all.       *)
Targets == IF Me.forkPIDs[run.i] = "-1"
           THEN UNION {{<<p, i>> : i \in Members(p)} : p \in Objects}
           ELSE {<<run.p, run.i>>}
Strangers ==
    IF Me.forkPIDs[run.i] = "-1" THEN {"everyone"}
    ELSE IF child[run.p][run.i].life = "gone" THEN {"stale"} ELSE {}

(* SIGSTOP and SIGKILL to a process and its children; waitpid blocks until *)
(* one of those it is about is dead, if there is any.                      *)
Waitable == {t \in Targets : Alive(t[1], t[2]) \/ Zombie(t[1], t[2])}
KillOne ==
    /\ At("kill") /\ run.i <= Commands[run.p]
    /\ IF Me.forkPIDs[run.i] = "0" THEN UNCHANGED <<child, reg, victims>>
       ELSE /\ \E reaped \in IF Waitable = {} THEN {<<run.p, 0>>} ELSE Waitable :
                  child' = [p \in Objects |-> [i \in Members(p) |->
                      IF <<p, i>> = reaped THEN [child[p][i] EXCEPT !.life = "gone"]
                      ELSE IF <<p, i>> \in Targets /\ Alive(p, i)
                           THEN [life |-> "zombie", status |-> "signal"]
                           ELSE child[p][i]]]
            /\ reg' = [reg EXCEPT !.pending =
                          @ \/ (reg.handler /\ \E t \in Targets : Alive(t[1], t[2]))]
            /\ victims' = victims \cup Strangers
    /\ GoTo("kill", run.i + 1)
    /\ UNCHANGED <<setup, obj, pipe, over, fds>>

KillEnds ==
    /\ At("kill") /\ run.i > Commands[run.p]
    /\ CASE run.cause = "failed"  -> Go("remove") /\ UNCHANGED obj
         [] run.cause = "asked"   ->
               /\ obj' = [obj EXCEPT ![run.p].commandsLeft = 0]
               /\ run' = Idle
         [] run.cause = "expired" ->
               /\ obj' = [obj EXCEPT ![run.p].commandsLeft = 0, ![run.p].killed = FALSE,
                                     ![run.p].expired = TRUE]
               /\ EndOfData
         [] run.cause = "select"  ->
               /\ obj' = [obj EXCEPT ![run.p].commandsLeft = 0, ![run.p].killed = FALSE,
                                     ![run.p].selectError = TRUE]
               /\ EndOfData
    /\ UNCHANGED <<setup, child, pipe, over, reg, fds, victims>>

-----------------------------------------------------------------------------
(* kwsysProcessesRemove, in the table the handler reads.                   *)
Position == CHOOSE k \in DOMAIN reg.cells : reg.cells[k] = run.p

(* Mutant of Remove: the last object of the table goes.                    *)
RemoveLast ==
    /\ At("remove")
    /\ IF run.p \in Registered THEN GoTo("shift", Len(reg.cells)) ELSE Go("close")
    /\ UNCHANGED <<setup, obj, child, pipe, over, reg, fds, victims>>
Remove ==
    /\ At("remove")
    /\ IF run.p \in Registered THEN GoTo("shift", Position) ELSE Go("close")
    /\ UNCHANGED <<setup, obj, child, pipe, over, reg, fds, victims>>

(* Mutant of Shift: the table is freed under the handler.                  *)
ShiftAndFree ==
    /\ At("shift")
    /\ IF run.i < Len(reg.cells)
       THEN /\ reg' = [reg EXCEPT !.cells[run.i] = reg.cells[run.i + 1]]
            /\ GoTo("shift", run.i + 1)
       ELSE /\ Go(IF Len(reg.cells) = 1 THEN "free" ELSE "update")
            /\ UNCHANGED reg
    /\ UNCHANGED <<setup, obj, child, pipe, over, fds, victims>>
Shift ==
    /\ At("shift")
    /\ IF run.i < Len(reg.cells)
       THEN /\ reg' = [reg EXCEPT !.cells[run.i] = reg.cells[run.i + 1]]
            /\ GoTo("shift", run.i + 1)
       ELSE /\ Go(IF Len(reg.cells) = 1 THEN "restore" ELSE "update")
            /\ UNCHANGED reg
    /\ UNCHANGED <<setup, obj, child, pipe, over, fds, victims>>

(* The table is to be empty: the old handler, which is none, is back.            *)
RestoreHandler ==
    /\ At("restore")
    /\ reg' = [reg EXCEPT !.handler = FALSE, !.pending = FALSE]
    /\ Go("free")
    /\ UNCHANGED <<setup, obj, child, pipe, over, fds, victims>>

FreeTable ==
    /\ At("free")
    /\ reg' = [reg EXCEPT !.freed = TRUE]
    /\ Go("update")
    /\ UNCHANGED <<setup, obj, child, pipe, over, fds, victims>>

UpdateTable ==
    /\ At("update")
    /\ reg' = [reg EXCEPT !.cells = SubSeq(@, 1, Len(@) - 1), !.freed = FALSE]
    /\ Go("close")
    /\ UNCHANGED <<setup, obj, child, pipe, over, fds, victims>>

(* The rest of kwsysProcessCleanup, and of kwsysProcess_Delete.            *)
CloseAll ==
    /\ At("close")
    /\ obj' = [obj EXCEPT ![run.p].signalPipe = FALSE, ![run.p].readEnds = {},
                          ![run.p].forkPIDs = [i \in Members(run.p) |-> "0"],
                          ![run.p].state = IF run.call = "Delete" THEN "none" ELSE @]
    /\ pipe' = [pipe EXCEPT ![run.p].byte = FALSE, ![run.p].data = {}]
    /\ over' = over \ {run.p}
    /\ run' = Idle
    /\ UNCHANGED <<setup, child, reg, fds, victims>>

Delete(p) ==
    \/ Wait(p, "Delete", "none")
    \/ /\ At("user") /\ obj[p].state \notin {"Executing", "none"}
       /\ obj' = [obj EXCEPT ![p].state = "none"]
       /\ UNCHANGED <<setup, child, pipe, over, reg, run, fds, victims>>

-----------------------------------------------------------------------------
New(p) ==
    /\ At("user") /\ obj[p].state = "none"
    /\ obj' = [obj EXCEPT ![p] = Initialized(p)]
    /\ UNCHANGED <<setup, child, pipe, over, reg, run, fds, victims>>

User == \E p \in Objects : New(p) \/ ExecuteNothing(p) \/ Execute(p) \/ WaitForExit(p) \/ WaitForData(p) \/ Kill(p) \/ Delete(p)

Parent ==
    \/ AddSignalPipe \/ AddAppend \/ AddInstall \/ SetupStderr \/ CreateStdout \/ Fork \/ Forked
    \/ ReadOutput \/ ReadSignal \/ Reap \/ Select \/ SelectFails \/ WaitEnds
    \/ ClosePipes \/ KillOne \/ KillEnds
    \/ Remove \/ Shift \/ RestoreHandler \/ FreeTable \/ UpdateTable \/ CloseAll

Exec == \E p \in Objects : \E i \in Members(p) : ExecSucceeds(p, i) \/ ExecFails(p, i)
Child == \E p \in Objects : GrandchildrenExit(p)
                            \/ \E i \in Members(p) : WritesData(p, i) \/ ChildExits(p, i)

Next == User \/ Parent \/ SignalHandler \/ Exec \/ Child \/ TimePasses

(* The parent goes on until its call returns, a pending signal is          *)
(* delivered, an exec succeeds or fails, and time passes.  Nothing says    *)
(* that children write or exit.                                            *)
Spec == Init /\ [][Next]_vars
        /\ WF_vars(Parent) /\ WF_vars(SignalHandler) /\ WF_vars(Exec) /\ WF_vars(TimePasses)

-----------------------------------------------------------------------------
(* The values of the variables.                                            *)
Object(p) ==
    [state : States, killed : BOOLEAN, expired : BOOLEAN, selectError : BOOLEAN,
     forkPIDs : [Members(p) -> {"0", "child", "-1"}], codes : [Members(p) -> Statuses],
     commandsLeft : 0..Commands[p], readEnds : SUBSET Pipes, signalPipe : BOOLEAN,
     pipeSet : SUBSET Pipes]
TypeOK ==
    /\ setup \in Setups
    /\ \A p \in Objects :
          /\ obj[p] \in Object(p)
          /\ child[p] \in [Members(p) -> [life : {"none", "zombie", "gone"} \cup Living,
                                          status : Statuses]]
          /\ pipe[p] \in [byte : BOOLEAN, data : SUBSET Outputs, held : SUBSET Outputs]
    /\ over \subseteq Timed
    /\ reg \in [cells : Seq(Objects), handler : BOOLEAN, pending : BOOLEAN, freed : BOOLEAN]
    /\ run.p \in Objects
    /\ fds \subseteq {"0", "STDERR", "StdIn", "StdOut", "readEnd"}
    /\ victims \subseteq {"stale", "everyone"}

(* No exit of a child is lost: as long as a dead child is not reaped, its  *)
(* object has a byte in the signal pipe, or is about to get it, or         *)
(* kwsysProcessDestroy has yet to come to the child.  The byte is taken    *)
(* before the children are looked at, and one byte stands for many exits.  *)
NoExitIsLost ==
    \A p \in Objects : \A i \in Members(p) :
        obj[p].signalPipe /\ Zombie(p, i) /\ obj[p].forkPIDs[i] # "0" =>
            \/ reg.pending \/ pipe[p].byte
            \/ At("reap") /\ run.p = p /\ run.i <= i

(* The handler never writes to a signal pipe whose read end is closed,     *)
(* which would end the parent by SIGPIPE: not between the two closes of    *)
(* kwsysProcess_Kill, which its comment is about, nor anywhere else.       *)
NoSIGPIPE == \A p \in Registered : obj[p].signalPipe => "SIGNAL" \in obj[p].readEnds

(* Whenever the handler may run it reads a table that is allocated, and    *)
(* only objects that exist.                                                *)
HandlerIsSafe ==
    reg.handler => ~reg.freed /\ \A p \in Registered : obj[p].state # "none"

(* The handler reaches every object that has children, also while another  *)
(* one is moved out of the table below it.                                 *)
HandlerReachesAll ==
    \A p \in Objects : \A i \in Members(p) :
        Alive(p, i) \/ (Zombie(p, i) /\ obj[p].signalPipe) => p \in Registered /\ reg.handler

(* What is told of the last command is how it ended, and all have ended.   *)
ExitIsReal ==
    \A p \in Objects : obj[p].state \in {"Exited", "Exception"} =>
        /\ \A i \in Members(p) : child[p][i].life = "gone"
        /\ obj[p].state = "Exception" <=> child[p][Commands[p]].status = "signal"

(* After a call that ends a run of p, also after an Execute that fails     *)
(* half way, neither a child nor a descriptor nor an entry in the table    *)
(* is left of it.                                                          *)
NothingIsLeft ==
    /\ At("user") => fds = {"0"}
    /\ \A p \in Objects :
          obj[p].state # "Executing" /\ (At("user") \/ run.p # p) =>
              /\ \A i \in Members(p) : child[p][i].life \in {"none", "gone"}
              /\ obj[p].readEnds = {} /\ ~obj[p].signalPipe
              /\ p \notin Registered

(* The parent never signals a process ID it has given back to the system.  *)
NoStaleID == "stale" \notin victims

(* The clean up of an Execute that fails is for what it has started itself: *)
(* "Kill any children already started" and "Release resources that may     *)
(* have been allocated for this process" (kwsysProcessCleanup, Execute).   *)
OnlyChildrenAreKilled == victims = {}
StandardInputIsKept == "0" \in fds

(* The parent returns from every call, except from one that waits without  *)
(* a timeout for a child or what it left behind, or one that polls a child *)
(* that never stops writing.                                               *)
Holders(p) == (\E i \in Members(p) : Alive(p, i)) \/ pipe[p].held # {}
Returns ==
    \/ []<>At("user")
    \/ <>[](At("handle") /\ run.deadline = "none" /\ Holders(run.p))
    \/ <>[](At("handle") /\ run.deadline = "zero") /\ []<>(pipe[run.p].data # {})
=============================================================================
