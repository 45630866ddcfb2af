---------------------------- MODULE MCSynthesize ----------------------------
(* Units of two or three classes that nest.                                *)
EXTENDS Synthesize, FiniteSets, TLC

CONSTANTS A, B, C \* the classes: A is part of B, and both may be parts of C

None3 == [c \in {A, B, C} |-> {}]
Nesting(c) == CASE c = A -> 0 [] c = B -> 1 [] c = C -> 2

Unit(bases, members, fields, implicit, unusable, inside, outside) ==
    [bases |-> bases @@ None3, members |-> members @@ None3, fields |-> fields @@ None3,
     implicit |-> implicit @@ None3, unusable |-> unusable @@ None3,
     inside |-> inside, outside |-> outside]

(* B has a base A, C a member A and a member B; A has a const member, or   *)
(* none.  (A has also a base with a constructor of its own, so that an     *)
(* object of class A needs the constructor.)                               *)
Chain(fields, unusable, inside, outside) ==
    Unit(B :> {A}, C :> {A, B}, A :> fields, [c \in {A, B, C} |-> {"constructor", "assignment"}],
         A :> unusable, inside, outside)

Assign(c) == <<c, "assignment", "none">>
Make(c, clone) == <<c, "constructor", clone>>

MCUnits ==
    {Chain(fields, {}, inside, outside) :
        fields \in {{}, {"const"}},
        inside \in {{}, {Assign(B)}, {Assign(A), Make(C, "complete")}},
        outside \in {{}, {Make(A, "complete"), Assign(B)}}}
    \cup
    {Unit(C :> {B}, B :> {A}, A :> {"reference"},
          [c \in {A, B, C} |-> {"constructor", "destructor"}], None3, {Make(C, "complete")}, {}),
     Unit(C :> {B}, B :> {A}, None3,
          A :> {"copy"} @@ B :> {"constructor", "copy"} @@ C :> {"constructor", "copy", "assignment"},
          A :> {"destructor", "assignment"}, {Make(C, "complete")}, {}),
     Unit(C :> {B}, B :> {A}, B :> {"reference"},
          [c \in {A, B, C} |-> {"copy", "destructor"}], None3,
          {<<A, "destructor", "base">>}, {<<B, "copy", "complete">>})}

MCDepth == [u \in MCUnits |-> [c \in {A, B, C} |-> Nesting(c)]]
=============================================================================
