----------------------------- MODULE MCProcess -----------------------------
(* Programs with one or two objects, and what may go wrong for them.       *)
EXTENDS ProcessUnix, TLC

CONSTANTS a, b \* the objects

Setup(commands, piped, timed, calls, failures, grandchildren) ==
    [commands |-> commands, piped |-> piped, timed |-> timed, calls |-> calls,
     failures |-> failures, grandchildren |-> grandchildren]

(* A pipeline of two commands, with and without a timeout; its errors are  *)
(* read by the parent.                                                     *)
Pipelines ==
    {Setup(a :> 2, a :> {"STDERR"}, timed, Calls, {"stderr", "exec", "select"}, TRUE) :
        timed \in SUBSET {a}}

(* Two objects at once, with shared outputs as in gxFront.cxx.             *)
Pair == Setup(a :> 1 @@ b :> 1, [p \in {a, b} |-> {}], {}, {"WaitForExit"}, {"add"}, FALSE)

(* One object has nothing to run.                                          *)
Nothing == Setup(a :> 1 @@ b :> 0, a :> Outputs @@ b :> {}, {}, {}, {}, FALSE)

(* The system is short of processes, or of descriptors for one command.    *)
Short == {Setup(a :> 2, a :> {}, {}, {"WaitForExit"}, {"fork"}, FALSE),
          Setup(a :> 1, a :> {"STDOUT"}, {}, {"WaitForExit"}, {"stdout"}, FALSE)}

(* Two objects at once, and no process for one of them.                    *)
ForkFails == {Setup(a :> 1 @@ b :> 1, [p \in {a, b} |-> {}], {}, {"WaitForExit"}, {"fork"}, FALSE)}

(* No descriptors for the second command of a pipeline.                    *)
PipeFails == {Setup(a :> 2, a :> {}, {}, {"WaitForExit"}, {"stdout"}, FALSE)}

MCSetups == Pipelines \cup Short \cup {Pair, Nothing}
=============================================================================
