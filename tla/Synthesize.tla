----------------------------- MODULE Synthesize -----------------------------
(***************************************************************************)
(* The test whether an implicit method of a class can be defined.  The     *)
(* dumper (cp/xml.c) has the compiler synthesize each implicit method it   *)
(* meets (cp/method.c) while errors are counted in                         *)
(* diagnostic_xml_synthesize_test instead of being reported                *)
(* (diagnostic.c).  The same functions are synthesized when the program    *)
(* uses them, before the dump and after it (cp/decl2.c), and one synthesis *)
(* starts others.                                                          *)
(***************************************************************************)
EXTENDS Naturals, Sequences

CONSTANTS
    Units, \* the translation units to consider
    Depth  \* how deep the classes of a unit nest

Kinds == {"constructor", "copy", "assignment", "destructor"}
Fields == {"const", "reference"}
Clones == {"none", "complete", "base"}

(* A unit has the bases and the members of class type of each class,       *)
(* whether it has members that are const or a reference, the methods that  *)
(* are implicit and those that others cannot call, and the declarations    *)
(* the program uses in functions and in the initializers of global         *)
(* objects.  A declaration is a class, a kind of method and a clone, which *)
(* is "none" for the method the others are cloned from.                    *)
Classes(u) == DOMAIN u.bases
Methods(u) == {f \in Classes(u) \X Kinds \X {"none"} : f[2] \in u.implicit[f[1]]}
Decls(u) == {d \in Classes(u) \X Kinds \X Clones :
                d[2] \in u.implicit[d[1]] /\ (d[2] = "assignment" => d[3] = "none")}
Cloned(d) == <<d[1], d[2], "none">>

ASSUME UnitAssumption ==
    \A u \in Units :
        /\ u.bases \in [Classes(u) -> SUBSET Classes(u)]
        /\ u.members \in [Classes(u) -> SUBSET Classes(u)]
        /\ u.fields \in [Classes(u) -> SUBSET Fields]
        /\ u.implicit \in [Classes(u) -> SUBSET Kinds]
        /\ u.unusable \in [Classes(u) -> SUBSET Kinds]
        /\ u.inside \subseteq Decls(u) /\ u.outside \subseteq Decls(u)
(* A class is complete before it is a base or a member.                    *)
ASSUME DepthAssumption ==
    \A u \in Units : \A c \in Classes(u) :
        Depth[u][c] \in Nat /\ \A b \in u.bases[c] \cup u.members[c] :
                                  Depth[u][b] \in Nat /\ Depth[u][b] < Depth[u][c]

(* What the body of an implicit method calls: a constructor also the       *)
(* destructors that clean up after it.                                     *)
Calls(kind) == {kind} \cup IF kind \in {"constructor", "copy"} THEN {"destructor"} ELSE {}
Call(c, kind, clone) == <<c, kind, IF kind = "assignment" THEN "none" ELSE clone>>
Uses(u, f) ==
    Decls(u) \cap ({Call(b, k, "base") : b \in u.bases[f[1]], k \in Calls(f[2])}
                   \cup {Call(m, k, "complete") : m \in u.members[f[1]], k \in Calls(f[2])})
(* The errors in the body itself.                                          *)
HasError(u, f) ==
    \/ f[2] \in {"assignment", "constructor"} /\ u.fields[f[1]] # {}
    \/ \E b \in u.bases[f[1]] \cup u.members[f[1]] : Calls(f[2]) \cap u.unusable[b] # {}

VARIABLES
    unit,     \* the translation unit, chosen once
    phase,    \* how far the compiler is
    deferred, \* the declarations with DECL_DEFERRED_FN
    initial,  \* the declarations with DECL_INITIAL
    marked,   \* the methods with GCCXML_DECL_ERROR
    counter,  \* diagnostic_xml_synthesize_test
    errors,   \* errorcount
    stack,    \* the calls of synthesize_method
    node,     \* the method xml_add_node is testing
    accepted, refused, \* the methods xml_add_node has found valid, and invalid
    needed    \* the methods the program has used

vars == <<unit, phase, deferred, initial, marked, counter, errors, stack, node,
          accepted, refused, needed>>
dumpVars == <<node, accepted, refused>>

None == <<>>
Idle == stack = <<>> /\ node = None
Top == stack[Len(stack)]

Init ==
    /\ unit \in Units
    /\ phase = "parse"
    /\ deferred = {} /\ initial = {} /\ marked = {}
    /\ counter = 0 /\ errors = 0
    /\ stack = <<>>
    /\ node = None /\ accepted = {} /\ refused = {}
    /\ needed = {}

-----------------------------------------------------------------------------
(* synthesize_method                                                       *)

Frame(f, saved) ==
    [fn |-> f, saved |-> saved, error |-> HasError(unit, f), todo |-> Uses(unit, f)]

(* synthesize_method (decl) begins: a clone stands for what it is cloned   *)
(* from.                                                                   *)
(* Mutant: it stands for itself.                                           *)
BeginsClone(calls, decl, count) ==
    /\ stack' = Append(calls, Frame(decl, count))
    /\ initial' = initial \cup {decl}
Begins(calls, decl, count) ==
    /\ stack' = Append(calls, Frame(Cloned(decl), count))
    /\ initial' = initial \cup {Cloned(decl)}

(* An error of the body: it is reported, or counted.                       *)
(* Mutant: the test reports it.                                            *)
BodyErrorReported ==
    /\ stack # <<>> /\ Top.error
    /\ stack' = [stack EXCEPT ![Len(stack)].error = FALSE]
    /\ counter' = counter
    /\ errors' = errors + 1
    /\ UNCHANGED <<unit, phase, deferred, initial, marked, dumpVars, needed>>
BodyError ==
    /\ stack # <<>> /\ Top.error
    /\ stack' = [stack EXCEPT ![Len(stack)].error = FALSE]
    /\ IF counter # 0 THEN counter' = counter + 1 /\ errors' = errors
                      ELSE errors' = errors + 1 /\ counter' = counter
    /\ UNCHANGED <<unit, phase, deferred, initial, marked, dumpVars, needed>>

(* mark_used (decl) in a function whose calls of synthesize_method are     *)
(* still to be ended.                                                      *)
(* Mutant: a method that is known to be invalid is passed over.            *)
MarkUsedPlain(decl, calls) ==
    /\ counter' = counter
    /\ deferred' = deferred \cup {decl}
    /\ IF decl \notin deferred \cup initial THEN Begins(calls, decl, counter')
                                            ELSE stack' = calls /\ UNCHANGED initial
MarkUsed(decl, calls) ==
    /\ counter' = IF counter # 0 /\ Cloned(decl) \in marked THEN counter + 1 ELSE counter
    /\ deferred' = deferred \cup {decl}
    /\ IF decl \notin deferred \cup initial THEN Begins(calls, decl, counter')
                                            ELSE stack' = calls /\ UNCHANGED initial

BodyUse ==
    /\ stack # <<>>
    /\ \E d \in Top.todo :
          MarkUsed(d, [stack EXCEPT ![Len(stack)].todo = @ \ {d}])
    /\ UNCHANGED <<unit, phase, marked, errors, dumpVars, needed>>

(* The method is marked if the counter has moved since it began, and its   *)
(* clones get its body.                                                    *)
(* Mutants: a method is marked if the test has seen any error; the clones  *)
(* get no body.                                                            *)
SynthesizedAfterAny ==
    /\ stack # <<>> /\ ~Top.error /\ Top.todo = {}
    /\ initial' = initial \cup {d \in Decls(unit) : Cloned(d) = Top.fn}
    /\ marked' = IF counter > 1 THEN marked \cup {Top.fn} ELSE marked \ {Top.fn}
    /\ stack' = SubSeq(stack, 1, Len(stack) - 1)
    /\ UNCHANGED <<unit, phase, deferred, counter, errors, dumpVars, needed>>
SynthesizedUncloned ==
    /\ stack # <<>> /\ ~Top.error /\ Top.todo = {}
    /\ initial' = initial
    /\ marked' = IF counter # Top.saved THEN marked \cup {Top.fn} ELSE marked \ {Top.fn}
    /\ stack' = SubSeq(stack, 1, Len(stack) - 1)
    /\ UNCHANGED <<unit, phase, deferred, counter, errors, dumpVars, needed>>
Synthesized ==
    /\ stack # <<>> /\ ~Top.error /\ Top.todo = {}
    /\ initial' = initial \cup {d \in Decls(unit) : Cloned(d) = Top.fn}
    /\ marked' = IF counter # Top.saved THEN marked \cup {Top.fn} ELSE marked \ {Top.fn}
    /\ stack' = SubSeq(stack, 1, Len(stack) - 1)
    /\ UNCHANGED <<unit, phase, deferred, counter, errors, dumpVars, needed>>

-----------------------------------------------------------------------------
(* The program, while it is parsed and while templates are instantiated    *)

(* A function of the program uses decl.                                    *)
UseInFunction ==
    /\ phase \in {"parse", "finish"} /\ Idle
    /\ \E d \in unit.inside :
          MarkUsed(d, stack) /\ needed' = needed \cup {Cloned(d)}
    /\ UNCHANGED <<unit, phase, marked, errors, dumpVars>>

(* The initializer of a global object uses decl: mark_used leaves the      *)
(* synthesis to the end of the unit.                                       *)
UseOutside ==
    /\ phase = "parse" /\ Idle
    /\ \E d \in unit.outside :
          deferred' = deferred \cup {d} /\ needed' = needed \cup {Cloned(d)}
    /\ UNCHANGED <<unit, phase, initial, marked, counter, errors, stack, dumpVars>>

(* finish_translation_unit: do_xml_output does nothing if errors occurred. *)
ParseEnds ==
    /\ phase = "parse" /\ Idle
    /\ phase' = IF errors # 0 THEN "finish" ELSE "dump"
    /\ UNCHANGED <<unit, deferred, initial, marked, counter, errors, stack, dumpVars, needed>>

-----------------------------------------------------------------------------
(* The dump: xml_add_node of a method                                      *)

(* What it returns: 0 for a method with an error.                          *)
Verdict(f) ==
    IF f \in marked THEN refused' = refused \cup {f} /\ UNCHANGED accepted
                    ELSE accepted' = accepted \cup {f} /\ UNCHANGED refused

AddMethod ==
    /\ phase = "dump" /\ Idle
    /\ \E f \in Methods(unit) :
          IF f \in initial THEN Verdict(f) /\ UNCHANGED <<initial, counter, stack, node>>
          ELSE /\ node' = f
               /\ counter' = 1
               /\ Begins(stack, f, 1)
               /\ UNCHANGED <<accepted, refused>>
    /\ UNCHANGED <<unit, phase, deferred, marked, errors, needed>>

(* Mutant: the counter is not reset.                                       *)
MethodAddedCounting ==
    /\ node # None /\ stack = <<>>
    /\ counter' = counter
    /\ Verdict(node)
    /\ node' = None
    /\ UNCHANGED <<unit, phase, deferred, initial, marked, errors, stack, needed>>
MethodAdded ==
    /\ node # None /\ stack = <<>>
    /\ counter' = 0
    /\ Verdict(node)
    /\ node' = None
    /\ UNCHANGED <<unit, phase, deferred, initial, marked, errors, stack, needed>>

DumpEnds ==
    /\ phase = "dump" /\ Idle
    /\ phase' = "finish"
    /\ UNCHANGED <<unit, deferred, initial, marked, counter, errors, stack, dumpVars, needed>>

-----------------------------------------------------------------------------
(* cp_finish_file                                                          *)

FinishDeferred ==
    /\ phase = "finish" /\ Idle
    /\ \E d \in deferred \ initial : Begins(stack, d, counter)
    /\ UNCHANGED <<unit, phase, deferred, marked, counter, errors, dumpVars, needed>>

UnitEnds ==
    /\ phase = "finish" /\ Idle
    /\ deferred \subseteq initial
    /\ phase' = "done"
    /\ UNCHANGED <<unit, deferred, initial, marked, counter, errors, stack, dumpVars, needed>>

Done == phase = "done" /\ UNCHANGED vars

Next ==
    \/ BodyError \/ BodyUse \/ Synthesized
    \/ UseInFunction \/ UseOutside \/ ParseEnds
    \/ AddMethod \/ MethodAdded \/ DumpEnds
    \/ FinishDeferred \/ UnitEnds \/ Done

(* The compiler is one sequential program that goes on.                    *)
Spec == Init /\ [][Next]_vars /\ WF_vars(Next)

-----------------------------------------------------------------------------
(* The methods that cannot be defined are the least set that holds every   *)
(* method with an error and every one that uses one of the set.            *)
Closed(u, set) ==
    \A f \in Methods(u) :
        HasError(u, f) \/ (\E d \in Uses(u, f) : Cloned(d) \in set) => f \in set
Invalid == [u \in Units |->
    {f \in Methods(u) : \A set \in SUBSET Methods(u) : Closed(u, set) => f \in set}]

TypeOK ==
    /\ unit \in Units
    /\ phase \in {"parse", "dump", "finish", "done"}
    /\ deferred \subseteq Decls(unit) /\ initial \subseteq Decls(unit)
    /\ marked \subseteq Methods(unit)
    /\ counter \in Nat /\ errors \in Nat
    /\ stack \in Seq([fn : Methods(unit), saved : Nat, error : BOOLEAN,
                      todo : SUBSET Decls(unit)])
    /\ node \in Methods(unit) \cup {None}
    /\ accepted \subseteq Methods(unit) /\ refused \subseteq Methods(unit)
    /\ needed \subseteq Methods(unit)

(* A valid method is never marked, whatever is synthesized around it and   *)
(* in whatever order: it is not left out of the dump.                      *)
MarkedIsInvalid == marked \cup refused \subseteq Invalid[unit]

(* The dump has no invalid method, if what the program uses is valid: the  *)
(* result does not depend on the order in which the methods are met, nor   *)
(* on what was synthesized for another one.                                *)
AcceptedIsValid == needed \cap Invalid[unit] = {} => accepted \cap Invalid[unit] = {}

(* An error is reported only for what the program needs: the test itself   *)
(* never makes the compiler fail.                                          *)
TestIsSilent == needed \cap Invalid[unit] = {} => errors = 0

(* Errors are hidden only while a method is being tested, not from the     *)
(* program that is compiled before and after the dump.                     *)
OnlyTheTestIsSilent == counter # 0 => phase = "dump" /\ node # None

(* The compiler comes to its end.                                          *)
Ends == <>(phase = "done")

(* "the GCC parser produces the declaration but reports an error if the    *)
(* definition is actually needed" (xml.c 3420)                             *)
NeededIsReported == phase = "done" /\ needed \cap Invalid[unit] # {} => errors # 0
=============================================================================
