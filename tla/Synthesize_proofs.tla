-------------------------- MODULE Synthesize_proofs --------------------------
(***************************************************************************)
(* What holds of the test of implicit methods for every unit: valid        *)
(* methods are never left out of the dump, invalid ones always are if the  *)
(* program itself uses valid ones, and then no error is ever reported.     *)
(***************************************************************************)
EXTENDS Synthesize, SequenceTheorems, TLAPS

(* A declaration and the method it is cloned from.                         *)
LEMMA ClonedMethods ==
    ASSUME NEW u
    PROVE /\ \A d \in Decls(u) : Cloned(d) \in Methods(u) /\ Cloned(d)[1] = d[1]
          /\ Methods(u) \subseteq Decls(u)
          /\ \A f \in Methods(u) : Cloned(f) = f
<1>1. ASSUME NEW d \in Decls(u)
      PROVE Cloned(d) \in Methods(u) /\ Cloned(d)[1] = d[1]
  BY <1>1 DEF Cloned, Decls, Methods, Clones
<1>2. Methods(u) \subseteq Decls(u)
  BY DEF Decls, Methods, Clones
<1>3. ASSUME NEW f \in Methods(u) PROVE Cloned(f) = f
  BY <1>3 DEF Cloned, Methods
<1> QED
  BY <1>1, <1>2, <1>3

(* Uses leads to classes that are less deep.                               *)
LEMMA UsesLessDeep ==
    ASSUME NEW u \in Units, NEW f \in Methods(u), NEW d \in Uses(u, f)
    PROVE /\ d \in Decls(u)
          /\ Depth[u][f[1]] \in Nat /\ Depth[u][Cloned(d)[1]] \in Nat
          /\ Depth[u][Cloned(d)[1]] < Depth[u][f[1]]
<1>1. d \in Decls(u) /\ f[1] \in Classes(u)
  BY DEF Uses, Methods
<1>2. d[1] \in u.bases[f[1]] \cup u.members[f[1]]
  BY DEF Uses, Call
<1>3. Cloned(d)[1] = d[1]
  BY <1>1, ClonedMethods
<1> QED
  BY <1>1, <1>2, <1>3, DepthAssumption

(* Invalid is a set closed under the rules, and holds nothing else.        *)
LEMMA InvalidRules ==
    ASSUME NEW u \in Units, NEW f \in Methods(u)
    PROVE f \in Invalid[u] <=> \/ HasError(u, f)
                               \/ \E d \in Uses(u, f) : Cloned(d) \in Invalid[u]
<1> DEFINE Rule(g, set) == HasError(u, g) \/ \E d \in Uses(u, g) : Cloned(d) \in set
           Step == {g \in Methods(u) : Rule(g, Invalid[u])}
<1>1. Invalid[u] = {g \in Methods(u) :
                       \A set \in SUBSET Methods(u) : Closed(u, set) => g \in set}
  BY DEF Invalid
<1> HIDE DEF Rule
<1>2. ASSUME NEW S, NEW T, S \subseteq T, NEW g, Rule(g, S) PROVE Rule(g, T)
  BY <1>2 DEF Rule
<1>3. ASSUME NEW set \in SUBSET Methods(u)
      PROVE Closed(u, set) <=> \A g \in Methods(u) : Rule(g, set) => g \in set
  BY DEF Closed, Rule
<1>4. \A g \in Methods(u) : Rule(g, Invalid[u]) => g \in Invalid[u]
  <2> SUFFICES ASSUME NEW g \in Methods(u), Rule(g, Invalid[u]),
                      NEW set \in SUBSET Methods(u), Closed(u, set)
               PROVE g \in set
    BY <1>1
  <2>1. Invalid[u] \subseteq set
    BY <1>1
  <2>2. Rule(g, set)
    BY <2>1, <1>2
  <2> QED
    BY <2>2, <1>3
<1>5. Step \subseteq Invalid[u]
  BY <1>4
<1>6. Closed(u, Step)
  <2>1. \A g \in Methods(u) : Rule(g, Step) => g \in Step
    BY <1>5, <1>2
  <2>2. Step \in SUBSET Methods(u)
    OBVIOUS
  <2> QED
    BY <1>3, <2>1, <2>2
<1>7. Invalid[u] \subseteq Step
  <2>1. Step \in SUBSET Methods(u)
    OBVIOUS
  <2> HIDE DEF Step
  <2> QED
    BY <1>1, <1>6, <2>1
<1> QED
  BY <1>4, <1>7 DEF Rule

-----------------------------------------------------------------------------
(* Types                                                                   *)

Frames(u) == [fn : Methods(u), saved : Nat, error : BOOLEAN, todo : SUBSET Decls(u)]

(* The record of a call has its type.                                      *)
LEMMA FrameTyped ==
    ASSUME unit \in Units, NEW f \in Methods(unit), NEW n \in Nat
    PROVE Frame(f, n) \in Frames(unit)
<1>1. Uses(unit, f) \in SUBSET Decls(unit)
  BY DEF Uses
<1>2. HasError(unit, f) \in BOOLEAN
  BY DEF HasError
<1> QED
  BY <1>1, <1>2 DEF Frame, Frames

(* A call of synthesize_method.                                            *)
LEMMA BeginsTyped ==
    ASSUME unit \in Units, initial \subseteq Decls(unit),
           NEW calls \in Seq(Frames(unit)), NEW d \in Decls(unit), NEW n \in Nat,
           Begins(calls, d, n)
    PROVE stack' \in Seq(Frames(unit)) /\ initial' \subseteq Decls(unit)
<1>1. Cloned(d) \in Methods(unit) /\ Cloned(d) \in Decls(unit)
  BY ClonedMethods
<1>2. Frame(Cloned(d), n) \in Frames(unit)
  BY <1>1, FrameTyped
<1> QED
  BY <1>1, <1>2 DEF Begins

(* A call of mark_used.                                                    *)
LEMMA MarkUsedTyped ==
    ASSUME unit \in Units, initial \subseteq Decls(unit), deferred \subseteq Decls(unit),
           counter \in Nat,
           NEW calls \in Seq(Frames(unit)), NEW d \in Decls(unit), MarkUsed(d, calls)
    PROVE /\ stack' \in Seq(Frames(unit)) /\ initial' \subseteq Decls(unit)
          /\ deferred' \subseteq Decls(unit) /\ counter' \in Nat
<1>1. deferred' \subseteq Decls(unit) /\ counter' \in Nat
  BY DEF MarkUsed
<1>2. CASE d \notin deferred \cup initial
  BY <1>1, <1>2, BeginsTyped DEF MarkUsed
<1>3. CASE d \in deferred \cup initial
  BY <1>1, <1>3 DEF MarkUsed
<1> QED
  BY <1>2, <1>3

(* The top of the stack when it is not empty.                              *)
LEMMA TopTyped ==
    ASSUME unit \in Units, stack \in Seq(Frames(unit)), stack # <<>>
    PROVE /\ Len(stack) \in Nat \ {0}
          /\ Top = stack[Len(stack)] /\ Top \in Frames(unit)
          /\ SubSeq(stack, 1, Len(stack) - 1) \in Seq(Frames(unit))
          /\ [stack EXCEPT ![Len(stack)].error = FALSE] \in Seq(Frames(unit))
          /\ \A d : [stack EXCEPT ![Len(stack)].todo = @ \ {d}] \in Seq(Frames(unit))
<1>1. Len(stack) \in Nat \ {0} /\ Top = stack[Len(stack)] /\ Top \in Frames(unit)
  BY DEF Top
<1>2. SubSeq(stack, 1, Len(stack) - 1) \in Seq(Frames(unit))
  BY <1>1
<1>3. ASSUME NEW fr \in Frames(unit)
      PROVE [stack EXCEPT ![Len(stack)] = fr] \in Seq(Frames(unit))
  BY <1>1, <1>3
<1>4. [Top EXCEPT !.error = FALSE] \in Frames(unit)
  BY <1>1 DEF Frames
<1>5. \A d : [Top EXCEPT !.todo = @ \ {d}] \in Frames(unit)
  BY <1>1 DEF Frames
<1>6. [stack EXCEPT ![Len(stack)].error = FALSE]
         = [stack EXCEPT ![Len(stack)] = [Top EXCEPT !.error = FALSE]]
  BY DEF Top
<1>7. \A d : [stack EXCEPT ![Len(stack)].todo = @ \ {d}]
         = [stack EXCEPT ![Len(stack)] = [Top EXCEPT !.todo = @ \ {d}]]
  BY DEF Top
<1> QED
  BY <1>1, <1>2, <1>3, <1>4, <1>5, <1>6, <1>7

(* Every value has its type, for every unit: what is synthesized is always *)
(* a method and never a clone (synthesize_method).                         *)
THEOREM TypeCorrect == Spec => []TypeOK
<1>1. Init => TypeOK
  BY DEF Init, TypeOK
<1>2. TypeOK /\ [Next]_vars => TypeOK'
  <2> SUFFICES ASSUME TypeOK, [Next]_vars PROVE TypeOK'
    OBVIOUS
  <2>0. /\ unit \in Units /\ stack \in Seq(Frames(unit))
        /\ TypeOK <=> TypeOK /\ stack \in Seq(Frames(unit))
    BY DEF TypeOK, Frames
  <2> USE <2>0 DEF dumpVars
  <2>1. ASSUME BodyError PROVE TypeOK'
    <3>1. stack' \in Seq(Frames(unit))
      BY <2>1, TopTyped DEF BodyError
    <3>2. counter' \in Nat /\ errors' \in Nat
      BY <2>1 DEF BodyError, TypeOK
    <3> QED
      BY <2>1, <3>1, <3>2 DEF BodyError, TypeOK, Frames
  <2>2. ASSUME BodyUse PROVE TypeOK'
    <3>1. PICK d \in Top.todo : MarkUsed(d, [stack EXCEPT ![Len(stack)].todo = @ \ {d}])
      BY <2>2 DEF BodyUse
    <3>2. d \in Decls(unit) /\ [stack EXCEPT ![Len(stack)].todo = @ \ {d}] \in Seq(Frames(unit))
      BY <2>2, TopTyped DEF BodyUse, Frames
    <3>3. /\ stack' \in Seq(Frames(unit)) /\ initial' \subseteq Decls(unit)
          /\ deferred' \subseteq Decls(unit) /\ counter' \in Nat
      BY <3>1, <3>2, MarkUsedTyped DEF TypeOK
    <3> QED
      BY <2>2, <3>3 DEF BodyUse, TypeOK, Frames
  <2>3. ASSUME Synthesized PROVE TypeOK'
    <3>1. stack' \in Seq(Frames(unit)) /\ Top.fn \in Methods(unit)
      BY <2>3, TopTyped DEF Synthesized, Frames
    <3> QED
      BY <2>3, <3>1 DEF Synthesized, TypeOK, Frames
  <2>4. ASSUME UseInFunction PROVE TypeOK'
    <3>1. PICK d \in unit.inside : MarkUsed(d, stack) /\ needed' = needed \cup {Cloned(d)}
      BY <2>4 DEF UseInFunction
    <3>2. d \in Decls(unit) /\ Cloned(d) \in Methods(unit)
      BY UnitAssumption, ClonedMethods
    <3>3. /\ stack' \in Seq(Frames(unit)) /\ initial' \subseteq Decls(unit)
          /\ deferred' \subseteq Decls(unit) /\ counter' \in Nat
      BY <3>1, <3>2, MarkUsedTyped DEF TypeOK
    <3> QED
      BY <2>4, <3>1, <3>2, <3>3 DEF UseInFunction, TypeOK, Frames
  <2>5. ASSUME UseOutside PROVE TypeOK'
    <3>1. PICK d \in unit.outside :
             deferred' = deferred \cup {d} /\ needed' = needed \cup {Cloned(d)}
      BY <2>5 DEF UseOutside
    <3>2. d \in Decls(unit) /\ Cloned(d) \in Methods(unit)
      BY UnitAssumption, ClonedMethods
    <3> QED
      BY <2>5, <3>1, <3>2 DEF UseOutside, TypeOK
  <2>6. ASSUME ParseEnds PROVE TypeOK'
    BY <2>6 DEF ParseEnds, TypeOK
  <2>7. ASSUME AddMethod PROVE TypeOK'
    <3>1. PICK f \in Methods(unit) :
             IF f \in initial THEN Verdict(f) /\ UNCHANGED <<initial, counter, stack, node>>
             ELSE /\ node' = f /\ counter' = 1 /\ Begins(stack, f, 1)
                  /\ UNCHANGED <<accepted, refused>>
      BY <2>7 DEF AddMethod
    <3>2. CASE f \in initial
      BY <2>7, <3>1, <3>2 DEF AddMethod, Verdict, TypeOK
    <3>3. CASE f \notin initial
      <4>1. stack' \in Seq(Frames(unit)) /\ initial' \subseteq Decls(unit)
        BY <3>1, <3>3, BeginsTyped, ClonedMethods DEF TypeOK
      <4> QED
        BY <2>7, <3>1, <3>3, <4>1 DEF AddMethod, TypeOK, Frames
    <3> QED
      BY <3>2, <3>3
  <2>8. ASSUME MethodAdded PROVE TypeOK'
    BY <2>8 DEF MethodAdded, Verdict, TypeOK
  <2>9. ASSUME DumpEnds PROVE TypeOK'
    BY <2>9 DEF DumpEnds, TypeOK
  <2>10. ASSUME FinishDeferred PROVE TypeOK'
    <3>1. PICK d \in deferred \ initial : Begins(stack, d, counter)
      BY <2>10 DEF FinishDeferred
    <3>2. stack' \in Seq(Frames(unit)) /\ initial' \subseteq Decls(unit)
      BY <3>1, BeginsTyped DEF TypeOK
    <3> QED
      BY <2>10, <3>2 DEF FinishDeferred, TypeOK, Frames
  <2>11. ASSUME UnitEnds PROVE TypeOK'
    BY <2>11 DEF UnitEnds, TypeOK
  <2>12. ASSUME UNCHANGED vars PROVE TypeOK'
    BY <2>12 DEF vars, TypeOK
  <2> QED
    BY <2>1, <2>2, <2>3, <2>4, <2>5, <2>6, <2>7, <2>8, <2>9, <2>10, <2>11, <2>12 DEF Next, Done
<1> QED
  BY <1>1, <1>2, PTL DEF Spec

-----------------------------------------------------------------------------
(* When errors are counted                                                 *)

(* Where the test is.                                                      *)
Testing ==
    /\ OnlyTheTestIsSilent
    /\ phase = "dump" /\ stack # <<>> => counter # 0
    /\ node # None => phase = "dump" /\ node \in initial
    /\ phase = "done" => stack = <<>>

(* The counter is positive only while the dump tests a method, and always  *)
(* while it synthesizes one.                                               *)
LEMMA TestingInductive == Spec => []Testing
<1>1. Init => Testing
  BY DEF Init, Testing, OnlyTheTestIsSilent
<1>2. TypeOK /\ Testing /\ [Next]_vars => Testing'
  <2> SUFFICES ASSUME TypeOK, Testing, [Next]_vars PROVE Testing'
    OBVIOUS
  <2>0. counter \in Nat /\ unit \in Units
    BY DEF TypeOK
  <2> USE <2>0 DEF Testing, OnlyTheTestIsSilent, dumpVars, Idle
  <2>1. ASSUME BodyError PROVE Testing'
    BY <2>1 DEF BodyError
  <2>2. ASSUME BodyUse PROVE Testing'
    <3>1. PICK d : MarkUsed(d, [stack EXCEPT ![Len(stack)].todo = @ \ {d}])
      BY <2>2 DEF BodyUse
    <3>2. /\ counter' = counter \/ (counter # 0 /\ counter' = counter + 1)
          /\ initial \subseteq initial'
      BY <3>1 DEF MarkUsed, Begins
    <3> QED
      BY <2>2, <3>2 DEF BodyUse
  <2>3. ASSUME Synthesized PROVE Testing'
    BY <2>3 DEF Synthesized
  <2>4. ASSUME UseInFunction PROVE Testing'
    <3>1. counter' = counter
      BY <2>4 DEF UseInFunction, MarkUsed
    <3> QED
      BY <2>4, <3>1 DEF UseInFunction
  <2>5. ASSUME UseOutside PROVE Testing'
    BY <2>5 DEF UseOutside
  <2>6. ASSUME ParseEnds PROVE Testing'
    BY <2>6 DEF ParseEnds
  <2>7. ASSUME AddMethod PROVE Testing'
    <3>1. PICK f \in Methods(unit) :
             IF f \in initial THEN Verdict(f) /\ UNCHANGED <<initial, counter, stack, node>>
             ELSE /\ node' = f /\ counter' = 1 /\ Begins(stack, f, 1)
                  /\ UNCHANGED <<accepted, refused>>
      BY <2>7 DEF AddMethod
    <3>2. CASE f \in initial
      BY <2>7, <3>1, <3>2 DEF AddMethod
    <3>3. CASE f \notin initial
      <4>1. f # None
        BY DEF Methods, None
      <4>2. f \in initial'
        BY <3>1, <3>3, ClonedMethods DEF Begins
      <4> QED
        BY <2>7, <3>1, <3>3, <4>1, <4>2 DEF AddMethod
    <3> QED
      BY <3>2, <3>3
  <2>8. ASSUME MethodAdded PROVE Testing'
    BY <2>8 DEF MethodAdded
  <2>9. ASSUME DumpEnds PROVE Testing'
    BY <2>9 DEF DumpEnds
  <2>10. ASSUME FinishDeferred PROVE Testing'
    BY <2>10 DEF FinishDeferred
  <2>11. ASSUME UnitEnds PROVE Testing'
    BY <2>11 DEF UnitEnds
  <2>12. ASSUME UNCHANGED vars PROVE Testing'
    BY <2>12 DEF vars
  <2> QED
    BY <2>1, <2>2, <2>3, <2>4, <2>5, <2>6, <2>7, <2>8, <2>9, <2>10, <2>11, <2>12 DEF Next, Done
<1> QED
  BY <1>1, <1>2, TypeCorrect, PTL DEF Spec

(* Errors are hidden only while the dump tests a method: the counter is 0  *)
(* whenever the compiler synthesizes a method for the program.             *)
THEOREM SilentOnlyInTest == Spec => []OnlyTheTestIsSilent
<1>1. Testing => OnlyTheTestIsSilent
  BY DEF Testing
<1> QED
  BY <1>1, TestingInductive, PTL

-----------------------------------------------------------------------------
(* Marked methods are invalid                                              *)

Bad(f) == f \in Invalid[unit]
DepthOf(f) == Depth[unit][f[1]]

(* A call of synthesize_method when the counter is c, and a call that is   *)
(* inside another one: if the inner method is invalid so is the outer.     *)
FrameSound(fr, c) ==
    /\ fr.fn \in initial
    /\ fr.error => HasError(unit, fr.fn)
    /\ fr.todo \subseteq Uses(unit, fr.fn)
    /\ fr.saved <= c
    /\ c # fr.saved => Bad(fr.fn)
Inside(fr, outer) ==
    /\ outer.saved <= fr.saved
    /\ DepthOf(fr.fn) < DepthOf(outer.fn)
    /\ Bad(fr.fn) => Bad(outer.fn)
Nested(s, c) ==
    /\ \A i \in 1..Len(s) : FrameSound(s[i], c)
    /\ \A i, j \in 1..Len(s) : i < j => Inside(s[j], s[i])

Marks ==
    /\ marked \subseteq Invalid[unit] /\ refused \subseteq Invalid[unit]
    /\ \A d \in initial : Cloned(d) \in initial
Sound == Nested(stack, counter) /\ Marks

(* The top frame loses what it has done; the counter moves only if its     *)
(* method is invalid.                                                      *)
LEMMA NestedProgress ==
    ASSUME unit \in Units, NEW s \in Seq(Frames(unit)), s # <<>>, NEW c \in Nat, Nested(s, c),
           NEW fr \in Frames(unit),
           fr.fn = s[Len(s)].fn, fr.saved = s[Len(s)].saved,
           fr.error => s[Len(s)].error, fr.todo \subseteq s[Len(s)].todo,
           NEW n \in Nat, n = c \/ (n = c + 1 /\ Bad(fr.fn))
    PROVE Nested([s EXCEPT ![Len(s)] = fr], n)
<1> DEFINE t == [s EXCEPT ![Len(s)] = fr]
<1>1. Len(s) \in Nat \ {0} /\ Len(t) = Len(s) /\ t[Len(s)] = fr
  OBVIOUS
<1>2. ASSUME NEW i \in 1..Len(s), i # Len(s) PROVE t[i] = s[i]
  BY <1>2
<1>3. ASSUME NEW i \in 1..Len(s)
      PROVE /\ s[i] \in Frames(unit) /\ t[i] \in Frames(unit)
            /\ t[i].fn = s[i].fn /\ t[i].saved = s[i].saved
            /\ t[i].error => s[i].error
            /\ t[i].todo \subseteq s[i].todo
  <2>1. CASE i = Len(s)
    BY <1>1, <2>1
  <2>2. CASE i # Len(s)
    <3>1. t[i] = s[i]
      BY <1>2, <2>2
    <3> HIDE DEF t
    <3> QED
      BY <3>1
  <2> QED
    BY <2>1, <2>2
<1> HIDE DEF t
<1>4. ASSUME NEW i \in 1..Len(s) PROVE FrameSound(t[i], n)
  <2>1. FrameSound(s[i], c) /\ s[i].saved \in Nat
    BY <1>3 DEF Nested, Frames
  <2>2. n # c => Bad(s[i].fn)
    <3>1. CASE i = Len(s)
      BY <3>1
    <3>2. CASE i # Len(s)
      <4>1. Inside(s[Len(s)], s[i])
        BY <1>1, <3>2 DEF Nested
      <4> QED
        BY <4>1 DEF Inside
    <3> QED
      BY <3>1, <3>2
  <2> QED
    BY <1>3, <2>1, <2>2 DEF FrameSound
<1>5. ASSUME NEW i \in 1..Len(s), NEW j \in 1..Len(s), i < j PROVE Inside(t[j], t[i])
  <2>1. Inside(s[j], s[i])
    BY <1>5 DEF Nested
  <2> QED
    BY <1>3, <2>1 DEF Inside
<1>6. Nested(t, n)
  BY <1>1, <1>4, <1>5 DEF Nested
<1> QED
  BY <1>6 DEF t

(* A sequence without its last element.                                    *)
LEMMA ButLast ==
    ASSUME NEW S, NEW s \in Seq(S), s # <<>>, NEW t, t = SubSeq(s, 1, Len(s) - 1)
    PROVE Len(s) - 1 \in Nat /\ Len(t) = Len(s) - 1 /\ \A i \in 1..Len(t) : t[i] = s[i]
<1> DEFINE n == Len(s) - 1
<1>1. n \in Nat /\ \A i \in 1..n : i \in 1..Len(s) /\ s[i] \in S
  OBVIOUS
<1> HIDE DEF n
<1>2. /\ Len(t) = IF 1 <= n THEN n - 1 + 1 ELSE 0
      /\ \A i \in 1..n - 1 + 1 : t[i] = s[1 + i - 1]
  BY <1>1, SubSeqProperties DEF n
<1>3. Len(t) = n /\ \A i \in 1..n : 1 + i - 1 = i /\ i \in 1..n - 1 + 1
  BY <1>1, <1>2
<1>4. \A i \in 1..n : t[i] = s[i]
  BY <1>2, <1>3
<1> QED
  BY <1>1, <1>3, <1>4 DEF n

(* A call begins in a method that uses the new one, or in none.            *)
LEMMA NestedBegins ==
    ASSUME unit \in Units, NEW s \in Seq(Frames(unit)), NEW c \in Nat, Nested(s, c),
           initial \subseteq Decls(unit), NEW d \in Decls(unit), Begins(s, d, c),
           s # <<>> => d \in Uses(unit, s[Len(s)].fn), counter' = c, unit' = unit
    PROVE Nested(stack, counter)'
<1> DEFINE g == Cloned(d)
           fr == Frame(g, c)
<1>1. g \in Methods(unit)
  BY ClonedMethods
<1>2. fr \in Frames(unit) /\ fr.fn = g /\ fr.saved = c
      /\ fr.error = HasError(unit, g) /\ fr.todo = Uses(unit, g)
  BY <1>1, FrameTyped DEF Frame
<1>3. stack' = Append(s, fr) /\ initial' = initial \cup {g}
  BY DEF Begins
<1> HIDE DEF fr, g
<1>4. /\ Len(stack') = Len(s) + 1 /\ Len(s) \in Nat /\ stack'[Len(s) + 1] = fr
      /\ \A i \in 1..Len(s) : stack'[i] = s[i]
  BY <1>2, <1>3
<1>5. \A x : Bad(x)' <=> Bad(x)
  BY DEF Bad
<1>6. ASSUME NEW i \in 1..Len(stack') PROVE FrameSound(stack[i], counter)'
  <2>1. CASE i = Len(s) + 1
    BY <1>2, <1>3, <1>4, <2>1 DEF FrameSound
  <2>2. CASE i \in 1..Len(s)
    BY <1>3, <1>4, <1>5, <2>2 DEF FrameSound, Nested
  <2> QED
    BY <1>4, <2>1, <2>2
<1>7. ASSUME NEW i \in 1..Len(s) PROVE Inside(fr, s[i])
  <2> DEFINE top == s[Len(s)]
  <2>1. Len(s) \in 1..Len(s) /\ top \in Frames(unit) /\ s[i] \in Frames(unit) /\ s # <<>>
    OBVIOUS
  <2>2. top.fn \in Methods(unit) /\ d \in Uses(unit, top.fn) /\ s[i].fn \in Methods(unit)
    BY <2>1 DEF Frames
  <2>3. DepthOf(g) \in Nat /\ DepthOf(top.fn) \in Nat /\ DepthOf(g) < DepthOf(top.fn)
    BY <2>2, UsesLessDeep DEF DepthOf, g
  <2>4. Bad(g) => Bad(top.fn)
    BY <2>2, InvalidRules DEF Bad, g
  <2>5. DepthOf(s[i].fn) \in Nat
    BY <2>2, DepthAssumption DEF DepthOf, Methods
  <2>6. s[i].saved <= c
    BY DEF Nested, FrameSound
  <2>7. CASE i = Len(s)
    BY <1>2, <2>3, <2>4, <2>6, <2>7 DEF Inside
  <2>8. CASE i # Len(s)
    <3>1. Inside(top, s[i])
      BY <2>1, <2>8 DEF Nested
    <3> QED
      BY <1>2, <2>3, <2>4, <2>5, <2>6, <3>1 DEF Inside
  <2> QED
    BY <2>7, <2>8
<1>8. ASSUME NEW i \in 1..Len(stack'), NEW j \in 1..Len(stack'), i < j
      PROVE Inside(stack[j], stack[i])'
  <2>1. CASE j = Len(s) + 1
    <3>1. i \in 1..Len(s)
      BY <1>4, <1>8, <2>1
    <3>2. Inside(fr, s[i])
      BY <1>7, <3>1
    <3> QED
      BY <1>4, <1>5, <2>1, <3>1, <3>2 DEF Inside, DepthOf
  <2>2. CASE j \in 1..Len(s)
    <3>1. i \in 1..Len(s) /\ Inside(s[j], s[i])
      BY <1>8, <2>2 DEF Nested
    <3> QED
      BY <1>4, <1>5, <2>2, <3>1 DEF Inside, DepthOf
  <2> QED
    BY <1>4, <2>1, <2>2
<1> QED
  BY <1>6, <1>8 DEF Nested

(* The top call ends.                                                      *)
LEMMA NestedEnds ==
    ASSUME unit \in Units, NEW s \in Seq(Frames(unit)), s # <<>>, NEW c, Nested(s, c)
    PROVE Nested(SubSeq(s, 1, Len(s) - 1), c)
<1> DEFINE t == SubSeq(s, 1, Len(s) - 1)
<1>1. Len(s) - 1 \in Nat /\ Len(t) = Len(s) - 1 /\ \A i \in 1..Len(t) : t[i] = s[i]
  BY ButLast
<1> HIDE DEF t
<1>2. \A i \in 1..Len(t) : i \in 1..Len(s)
  BY <1>1
<1>3. Nested(t, c)
  BY <1>1, <1>2 DEF Nested
<1> QED
  BY <1>3 DEF t

(* Nested looks at no more of the state than initial and the unit.         *)
LEMMA NestedStable ==
    ASSUME NEW s, NEW c, Nested(s, c), initial \subseteq initial', unit' = unit,
           stack' = s, counter' = c
    PROVE Nested(stack, counter)'
<1>1. ASSUME NEW i \in 1..Len(s) PROVE FrameSound(stack[i], counter)'
  BY <1>1 DEF Nested, FrameSound, Bad
<1>2. ASSUME NEW i \in 1..Len(s), NEW j \in 1..Len(s), i < j PROVE Inside(stack[j], stack[i])'
  BY <1>2 DEF Nested, Inside, Bad, DepthOf
<1> QED
  BY <1>1, <1>2 DEF Nested

(* A call of mark_used in a function whose calls are s.  If it moves the   *)
(* counter, the method that uses decl is invalid.                          *)
LEMMA MarkUsedSound ==
    ASSUME unit \in Units, initial \subseteq Decls(unit), Marks, counter \in Nat,
           NEW s \in Seq(Frames(unit)), Nested(s, counter),
           NEW d \in Decls(unit), MarkUsed(d, s), s = <<>> => counter = 0,
           s # <<>> => d \in Uses(unit, s[Len(s)].fn), unit' = unit
    PROVE Nested(stack, counter)'
<1>1. Nested(s, counter')
  <2>1. CASE counter' = counter
    BY <2>1
  <2>2. CASE counter' # counter
    <3>1. counter' = counter + 1 /\ Cloned(d) \in marked /\ s # <<>>
      BY <2>2 DEF MarkUsed
    <3>2. s[Len(s)] \in Frames(unit) /\ s = [s EXCEPT ![Len(s)] = s[Len(s)]]
      BY <3>1
    <3>3. s[Len(s)].fn \in Methods(unit)
      BY <3>2 DEF Frames
    <3>4. Bad(s[Len(s)].fn)
      BY <3>1, <3>3, InvalidRules DEF Marks, Bad
    <3>5. Nested([s EXCEPT ![Len(s)] = s[Len(s)]], counter + 1)
      BY <3>1, <3>2, <3>4, NestedProgress
    <3> QED
      BY <3>1, <3>2, <3>5
  <2> QED
    BY <2>1, <2>2
<1>2. counter' \in Nat
  BY DEF MarkUsed
<1>3. CASE d \notin deferred \cup initial
  BY <1>1, <1>2, <1>3, NestedBegins DEF MarkUsed
<1>4. CASE d \in deferred \cup initial
  BY <1>1, <1>4, NestedStable DEF MarkUsed
<1> QED
  BY <1>3, <1>4

(* initial grows by whole methods.                                         *)
LEMMA MarkUsedInitial ==
    ASSUME NEW d \in Decls(unit), NEW s, MarkUsed(d, s),
           \A e \in initial : Cloned(e) \in initial
    PROVE initial \subseteq initial' /\ \A e \in initial' : Cloned(e) \in initial'
  BY ClonedMethods DEF MarkUsed, Begins

(* What is marked is invalid, and the counter has moved since a call began *)
(* only if its method is invalid.                                          *)
LEMMA SoundInductive == Spec => []Sound
<1>1. Init => Sound
  BY DEF Init, Sound, Nested, Marks
<1>2. TypeOK /\ Testing /\ Sound /\ [Next]_vars => Sound'
  <2> SUFFICES ASSUME TypeOK, Testing, Sound, [Next]_vars PROVE Sound'
    OBVIOUS
  <2>0. /\ unit \in Units /\ unit' = unit /\ counter \in Nat
        /\ stack \in Seq(Frames(unit)) /\ Nested(stack, counter) /\ Marks
        /\ initial \subseteq Decls(unit)
    BY DEF TypeOK, Frames, Sound, Next, BodyError, BodyUse, Synthesized, UseInFunction, UseOutside,
           ParseEnds, AddMethod, MethodAdded, DumpEnds, FinishDeferred, UnitEnds, Done, vars
  <2> USE <2>0 DEF dumpVars
  <2>1. ASSUME BodyError PROVE Sound'
    <3> DEFINE fr == [Top EXCEPT !.error = FALSE]
    <3>1. stack # <<>> /\ Top = stack[Len(stack)] /\ Top \in Frames(unit) /\ Top.error
          /\ Len(stack) \in 1..Len(stack)
      BY <2>1, TopTyped DEF BodyError
    <3>2. fr \in Frames(unit) /\ fr.fn = Top.fn /\ fr.saved = Top.saved
          /\ ~fr.error /\ fr.todo = Top.todo
      BY <3>1 DEF Frames
    <3>3. stack' = [stack EXCEPT ![Len(stack)] = fr]
      BY <2>1 DEF BodyError, Top
    <3> HIDE DEF fr
    <3>4. Top.fn \in Methods(unit) /\ HasError(unit, Top.fn)
      BY <3>1 DEF Frames, Nested, FrameSound
    <3>5. Bad(fr.fn)
      BY <3>2, <3>4, InvalidRules DEF Bad
    <3>6. counter' \in Nat /\ (counter' = counter \/ counter' = counter + 1)
      BY <2>1 DEF BodyError
    <3>7. Nested([stack EXCEPT ![Len(stack)] = fr], counter')
      BY <3>1, <3>2, <3>5, <3>6, NestedProgress
    <3>8. Nested(stack, counter)'
      BY <2>1, <3>3, <3>7, NestedStable DEF BodyError
    <3> QED
      BY <2>1, <3>8 DEF BodyError, Sound, Marks
  <2>2. ASSUME BodyUse PROVE Sound'
    <3>1. PICK d \in Top.todo : MarkUsed(d, [stack EXCEPT ![Len(stack)].todo = @ \ {d}])
      BY <2>2 DEF BodyUse
    <3> DEFINE fr == [Top EXCEPT !.todo = @ \ {d}]
               s == [stack EXCEPT ![Len(stack)] = fr]
    <3>2. stack # <<>> /\ Top = stack[Len(stack)] /\ Top \in Frames(unit)
          /\ Len(stack) \in 1..Len(stack)
      BY <2>2, TopTyped DEF BodyUse
    <3>3. fr \in Frames(unit) /\ fr.fn = Top.fn /\ fr.saved = Top.saved
          /\ fr.error = Top.error /\ fr.todo \subseteq Top.todo
      BY <3>2 DEF Frames
    <3>4. [stack EXCEPT ![Len(stack)].todo = @ \ {d}] = s
      BY DEF Top
    <3> HIDE DEF fr
    <3>5. s \in Seq(Frames(unit)) /\ s # <<>> /\ s[Len(s)] = fr
      BY <3>2, <3>3
    <3>6. Nested(s, counter)
      BY <3>2, <3>3, NestedProgress
    <3> HIDE DEF s
    <3>7. d \in Uses(unit, fr.fn) /\ d \in Decls(unit)
      BY <3>1, <3>2, <3>3 DEF Nested, FrameSound, Frames
    <3>8. Nested(stack, counter)'
      BY <3>1, <3>4, <3>5, <3>6, <3>7, MarkUsedSound
    <3>9. \A e \in initial' : Cloned(e) \in initial'
      BY <3>1, <3>7, MarkUsedInitial DEF Marks
    <3> QED
      BY <2>2, <3>8, <3>9 DEF BodyUse, Sound, Marks
  <2>3. ASSUME Synthesized PROVE Sound'
    <3>1. stack # <<>> /\ Top = stack[Len(stack)] /\ Top \in Frames(unit)
          /\ Len(stack) \in 1..Len(stack)
      BY <2>3, TopTyped DEF Synthesized
    <3>2. Nested(SubSeq(stack, 1, Len(stack) - 1), counter)
      BY <3>1, NestedEnds
    <3>3. Nested(stack, counter)'
      BY <2>3, <3>2, NestedStable DEF Synthesized
    <3>4. FrameSound(Top, counter)
      BY <3>1 DEF Nested
    <3>5. marked' \subseteq Invalid[unit]
      BY <2>3, <3>4 DEF Synthesized, FrameSound, Bad, Marks
    <3>6. \A e \in initial' : Cloned(e) \in initial'
      BY <2>3, <3>4 DEF Synthesized, FrameSound, Marks
    <3> QED
      BY <2>3, <3>3, <3>5, <3>6 DEF Synthesized, Sound, Marks
  <2>4. ASSUME UseInFunction PROVE Sound'
    <3>1. PICK d \in unit.inside : MarkUsed(d, stack)
      BY <2>4 DEF UseInFunction
    <3>2. d \in Decls(unit) /\ stack = <<>> /\ counter = 0
      BY <2>4, UnitAssumption DEF UseInFunction, Idle, Testing, OnlyTheTestIsSilent
    <3>3. Nested(stack, counter)'
      BY <3>1, <3>2, MarkUsedSound
    <3>4. \A e \in initial' : Cloned(e) \in initial'
      BY <3>1, <3>2, MarkUsedInitial DEF Marks
    <3> QED
      BY <2>4, <3>3, <3>4 DEF UseInFunction, Sound, Marks
  <2>5. ASSUME UseOutside PROVE Sound'
    BY <2>5, NestedStable DEF UseOutside, Sound, Marks
  <2>6. ASSUME ParseEnds PROVE Sound'
    BY <2>6, NestedStable DEF ParseEnds, Sound, Marks
  <2>7. ASSUME AddMethod PROVE Sound'
    <3>1. PICK f \in Methods(unit) :
             IF f \in initial THEN Verdict(f) /\ UNCHANGED <<initial, counter, stack, node>>
             ELSE /\ node' = f /\ counter' = 1 /\ Begins(stack, f, 1)
                  /\ UNCHANGED <<accepted, refused>>
      BY <2>7 DEF AddMethod
    <3>2. CASE f \in initial
      <4>1. Nested(stack, counter)'
        BY <3>1, <3>2, NestedStable
      <4> QED
        BY <2>7, <3>1, <3>2, <4>1 DEF AddMethod, Verdict, Sound, Marks
    <3>3. CASE f \notin initial
      <4>1. f \in Decls(unit) /\ stack = <<>> /\ Nested(<<>>, 1)
        BY <2>7, ClonedMethods DEF AddMethod, Idle, Nested
      <4>2. Nested(stack, counter)'
        BY <3>1, <3>3, <4>1, NestedBegins
      <4>3. \A e \in initial' : Cloned(e) \in initial'
        BY <3>1, <3>3, <4>1, ClonedMethods DEF Begins, Marks
      <4> QED
        BY <2>7, <3>1, <3>3, <4>2, <4>3 DEF AddMethod, Sound, Marks
    <3> QED
      BY <3>2, <3>3
  <2>8. ASSUME MethodAdded PROVE Sound'
    <3>1. Nested(<<>>, 0)
      BY DEF Nested
    <3>2. Nested(stack, counter)'
      BY <2>8, <3>1, NestedStable DEF MethodAdded
    <3> QED
      BY <2>8, <3>2 DEF MethodAdded, Verdict, Sound, Marks
  <2>9. ASSUME DumpEnds PROVE Sound'
    BY <2>9, NestedStable DEF DumpEnds, Sound, Marks
  <2>10. ASSUME FinishDeferred PROVE Sound'
    <3>1. PICK d \in deferred \ initial : Begins(stack, d, counter)
      BY <2>10 DEF FinishDeferred
    <3>2. d \in Decls(unit) /\ stack = <<>>
      BY <2>10, <3>1 DEF FinishDeferred, Idle, TypeOK
    <3>3. Nested(stack, counter)'
      BY <2>10, <3>1, <3>2, NestedBegins DEF FinishDeferred
    <3>4. \A e \in initial' : Cloned(e) \in initial'
      BY <3>1, <3>2, ClonedMethods DEF Begins, Marks
    <3> QED
      BY <2>10, <3>3, <3>4 DEF FinishDeferred, Sound, Marks
  <2>11. ASSUME UnitEnds PROVE Sound'
    BY <2>11, NestedStable DEF UnitEnds, Sound, Marks
  <2>12. ASSUME UNCHANGED vars PROVE Sound'
    BY <2>12, NestedStable DEF vars, Sound, Marks
  <2> QED
    BY <2>1, <2>2, <2>3, <2>4, <2>5, <2>6, <2>7, <2>8, <2>9, <2>10, <2>11, <2>12 DEF Next, Done
<1> QED
  BY <1>1, <1>2, TypeCorrect, TestingInductive, PTL DEF Spec

(* A valid method is never marked, whatever is synthesized around it: an   *)
(* error moves the counter only while every method that is being           *)
(* synthesized is invalid.                                                 *)
THEOREM OnlyInvalidIsMarked == Spec => []MarkedIsInvalid
<1>1. Sound => MarkedIsInvalid
  BY DEF Sound, Marks, MarkedIsInvalid
<1> QED
  BY <1>1, SoundInductive, PTL

-----------------------------------------------------------------------------
(* Invalid methods are marked, if what the program uses is valid           *)

ProgramIsValid == needed \cap Invalid[unit] = {}

(* What a bad method in the stack has done to the counter, or will do: its *)
(* own error, a call of a bad method that is to come or is under way.      *)
Pending(s, c) ==
    \A i \in 1..Len(s) : Bad(s[i].fn) =>
        \/ c > s[i].saved
        \/ s[i].error
        \/ \E d \in s[i].todo : Bad(Cloned(d))
        \/ i < Len(s) /\ Bad(s[i + 1].fn)

(* The methods that are being synthesized.                                 *)
Running == {stack[i].fn : i \in 1..Len(stack)}

(* A bad method that mark_used will not synthesize has been, or is being.  *)
DeferredKnown == \A d \in deferred : Bad(Cloned(d)) => d \in initial \/ Cloned(d) \in Running
(* What is synthesized for the program is valid.                           *)
ParsedValid == phase = "parse" => \A f \in initial : ~Bad(Cloned(f))
RunningValid == phase # "dump" => \A f \in Running : ~Bad(f)
(* What is synthesized for the dump is marked, or will be.                 *)
BadMarked ==
    phase = "dump" => \A f \in Methods(unit) \cap initial : Bad(f) => f \in marked \cup Running
TestPending == phase = "dump" => Pending(stack, counter)
Results == accepted \cap Invalid[unit] = {} /\ errors = 0

Known == DeferredKnown /\ ParsedValid /\ RunningValid /\ BadMarked /\ TestPending /\ Results
Complete == ProgramIsValid => Known

(* What is on the stack after a call has begun.                            *)
LEMMA BeginsEffect ==
    ASSUME unit \in Units, NEW s \in Seq(Frames(unit)), NEW d \in Decls(unit), NEW c \in Nat,
           Begins(s, d, c)
    PROVE /\ Len(s) \in Nat /\ Len(stack') = Len(s) + 1
          /\ \A i \in 1..Len(s) : stack'[i] = s[i]
          /\ stack'[Len(s) + 1].fn = Cloned(d) /\ stack'[Len(s) + 1].saved = c
          /\ stack'[Len(s) + 1].error = HasError(unit, Cloned(d))
          /\ stack'[Len(s) + 1].todo = Uses(unit, Cloned(d))
          /\ initial' = initial \cup {Cloned(d)}
<1> DEFINE fr == Frame(Cloned(d), c)
<1>1. Cloned(d) \in Methods(unit)
  BY ClonedMethods
<1>2. fr \in Frames(unit) /\ fr.fn = Cloned(d) /\ fr.saved = c
      /\ fr.error = HasError(unit, Cloned(d)) /\ fr.todo = Uses(unit, Cloned(d))
  BY <1>1, FrameTyped DEF Frame
<1>3. stack' = Append(s, fr) /\ initial' = initial \cup {Cloned(d)}
  BY DEF Begins
<1> HIDE DEF fr
<1> QED
  BY <1>2, <1>3

(* A new frame is pending.                                                 *)
LEMMA PendingBegins ==
    ASSUME unit \in Units, NEW s \in Seq(Frames(unit)), NEW d \in Decls(unit), NEW c \in Nat,
           Begins(s, d, c), unit' = unit, counter' = c,
           \A i \in 1..Len(s) : Bad(s[i].fn) =>
               \/ c > s[i].saved
               \/ s[i].error
               \/ \E e \in s[i].todo : Bad(Cloned(e))
               \/ i < Len(s) /\ Bad(s[i + 1].fn)
               \/ i = Len(s) /\ Bad(Cloned(d))
    PROVE Pending(stack, counter)'
<1>1. /\ Len(s) \in Nat /\ Len(stack') = Len(s) + 1
      /\ \A i \in 1..Len(s) : stack'[i] = s[i]
      /\ stack'[Len(s) + 1].fn = Cloned(d)
      /\ stack'[Len(s) + 1].error = HasError(unit, Cloned(d))
      /\ stack'[Len(s) + 1].todo = Uses(unit, Cloned(d))
  BY BeginsEffect
<1>2. Bad(Cloned(d)) => HasError(unit, Cloned(d))
                        \/ \E e \in Uses(unit, Cloned(d)) : Bad(Cloned(e))
  BY ClonedMethods, InvalidRules DEF Bad
<1>3. \A x : Bad(x)' <=> Bad(x)
  BY DEF Bad
<1> SUFFICES ASSUME NEW i \in 1..Len(stack'), Bad(stack'[i].fn)
             PROVE \/ c > stack'[i].saved
                   \/ stack'[i].error
                   \/ \E e \in stack'[i].todo : Bad(Cloned(e))
                   \/ i < Len(stack') /\ Bad(stack'[i + 1].fn)
  BY <1>3 DEF Pending
<1>4. CASE i = Len(s) + 1
  BY <1>1, <1>2, <1>4
<1>5. CASE i = Len(s) /\ i # 0
  <2>1. i \in 1..Len(s) /\ i < Len(stack') /\ stack'[i] = s[i] /\ stack'[i + 1].fn = Cloned(d)
    BY <1>1, <1>5
  <2> QED
    BY <1>5, <2>1
<1>6. CASE i < Len(s)
  <2>1. i \in 1..Len(s) /\ i < Len(stack') /\ stack'[i] = s[i] /\ stack'[i + 1] = s[i + 1]
    BY <1>1, <1>6
  <2> QED
    BY <1>6, <2>1
<1> QED
  BY <1>1, <1>4, <1>5, <1>6

(* What a call of synthesize_method adds to those under way.               *)
LEMMA BeginsRunning ==
    ASSUME unit \in Units, NEW s \in Seq(Frames(unit)), NEW d \in Decls(unit), NEW c \in Nat,
           Begins(s, d, c)
    PROVE Running' = {s[i].fn : i \in 1..Len(s)} \cup {Cloned(d)}
<1>1. /\ Len(s) \in Nat /\ Len(stack') = Len(s) + 1
      /\ \A i \in 1..Len(s) : stack'[i] = s[i]
      /\ stack'[Len(s) + 1].fn = Cloned(d)
  BY BeginsEffect
<1>2. 1..(Len(s) + 1) = 1..Len(s) \cup {Len(s) + 1}
  BY <1>1
<1>3. Running' = {stack'[i].fn : i \in 1..Len(s) \cup {Len(s) + 1}}
  BY <1>1, <1>2 DEF Running
<1> QED
  BY <1>1, <1>3

(* mark_used begins a call, or finds the declaration deferred or done.     *)
LEMMA MarkUsedRunning ==
    ASSUME unit \in Units, NEW s \in Seq(Frames(unit)), NEW d \in Decls(unit), counter \in Nat,
           MarkUsed(d, s), {s[i].fn : i \in 1..Len(s)} = Running
    PROVE /\ deferred' = deferred \cup {d}
          /\ \/ /\ d \notin deferred \cup initial
                /\ Running' = Running \cup {Cloned(d)} /\ initial' = initial \cup {Cloned(d)}
             \/ d \in deferred \cup initial /\ Running' = Running /\ initial' = initial
<1>1. counter' \in Nat /\ deferred' = deferred \cup {d}
  BY DEF MarkUsed
<1>2. CASE d \notin deferred \cup initial
  <2>1. Begins(s, d, counter')
    BY <1>2 DEF MarkUsed
  <2>2. initial' = initial \cup {Cloned(d)}
    BY <2>1 DEF Begins
  <2> QED
    BY <1>1, <1>2, <2>1, <2>2, BeginsRunning
<1>3. CASE d \in deferred \cup initial
  <2>1. stack' = s /\ initial' = initial
    BY <1>3 DEF MarkUsed
  <2>2. Running' = Running
    BY <2>1 DEF Running
  <2> QED
    BY <1>1, <1>3, <2>1, <2>2
<1> QED
  BY <1>2, <1>3

(* A use of decl leaves no bad method out of sight, and the program none   *)
(* at all if it uses valid ones.                                           *)
LEMMA MarkUsedKnown ==
    ASSUME unit \in Units, unit' = unit, phase' = phase, marked' = marked,
           NEW s \in Seq(Frames(unit)), NEW d \in Decls(unit), counter \in Nat,
           MarkUsed(d, s), {s[i].fn : i \in 1..Len(s)} = Running,
           DeferredKnown, ParsedValid, RunningValid, BadMarked,
           phase # "dump" => ~Bad(Cloned(d))
    PROVE DeferredKnown' /\ ParsedValid' /\ RunningValid' /\ BadMarked'
<1>1. /\ deferred' = deferred \cup {d}
      /\ \/ /\ d \notin deferred \cup initial
            /\ Running' = Running \cup {Cloned(d)} /\ initial' = initial \cup {Cloned(d)}
         \/ d \in deferred \cup initial /\ Running' = Running /\ initial' = initial
  BY MarkUsedRunning
<1>2. Cloned(Cloned(d)) = Cloned(d)
  BY ClonedMethods
<1>3. DeferredKnown'
  BY <1>1 DEF DeferredKnown, Bad
<1>4. ParsedValid' /\ RunningValid'
  BY <1>1, <1>2 DEF ParsedValid, RunningValid, Bad
<1>5. BadMarked'
  BY <1>1 DEF BadMarked, Bad
<1> QED
  BY <1>3, <1>4, <1>5

(* In the dump, a method that is not synthesized again is either good or   *)
(* known to be bad: a method cannot use itself.                            *)
LEMMA UnmarkedIsValid ==
    ASSUME unit \in Units, phase = "dump", stack \in Seq(Frames(unit)), stack # <<>>,
           Sound, DeferredKnown, BadMarked,
           NEW d \in Uses(unit, Top.fn), d \in deferred \cup initial, Cloned(d) \notin marked
    PROVE ~Bad(Cloned(d))
<1> SUFFICES ASSUME Bad(Cloned(d)) PROVE FALSE
  OBVIOUS
<1>1. Len(stack) \in Nat \ {0} /\ Top = stack[Len(stack)] /\ Top.fn \in Methods(unit)
  BY TopTyped DEF Frames
<1>2. d \in Decls(unit) /\ DepthOf(Cloned(d)) < DepthOf(Top.fn)
      /\ DepthOf(Cloned(d)) \in Nat /\ DepthOf(Top.fn) \in Nat
  BY <1>1, UsesLessDeep DEF DepthOf
<1>3. Cloned(d) \in Methods(unit) /\ Cloned(Cloned(d)) = Cloned(d)
  BY <1>2, ClonedMethods
<1>4. Cloned(d) \notin Running
  <2> SUFFICES ASSUME NEW i \in 1..Len(stack), stack[i].fn = Cloned(d) PROVE FALSE
    BY DEF Running
  <2>1. CASE i = Len(stack)
    BY <1>1, <1>2, <2>1
  <2>2. CASE i < Len(stack)
    <3>1. Inside(stack[Len(stack)], stack[i])
      BY <1>1, <2>2 DEF Sound, Nested
    <3>2. DepthOf(Top.fn) < DepthOf(Cloned(d))
      BY <1>1, <3>1 DEF Inside
    <3> QED
      BY <1>2, <3>2
  <2> QED
    BY <1>1, <2>1, <2>2
<1>5. Cloned(d) \in initial
  BY <1>3, <1>4 DEF DeferredKnown, Sound, Marks
<1> QED
  BY <1>3, <1>4, <1>5 DEF BadMarked

(* A use that the body of a method makes keeps what is pending.            *)
LEMMA BodyUsePending ==
    ASSUME unit \in Units, unit' = unit, stack \in Seq(Frames(unit)), counter \in Nat,
           phase = "dump", BodyUse, Testing, Sound, DeferredKnown, BadMarked,
           Pending(stack, counter)
    PROVE Pending(stack, counter)'
<1>1. PICK d \in Top.todo : MarkUsed(d, [stack EXCEPT ![Len(stack)].todo = @ \ {d}])
  BY DEF BodyUse
<1> DEFINE fr == [Top EXCEPT !.todo = @ \ {d}]
           s == [stack EXCEPT ![Len(stack)] = fr]
<1>2. stack # <<>> /\ Len(stack) \in Nat \ {0} /\ Top = stack[Len(stack)]
      /\ Top \in Frames(unit) /\ Len(stack) \in 1..Len(stack)
  BY TopTyped DEF BodyUse
<1>3. fr \in Frames(unit) /\ fr.fn = Top.fn /\ fr.saved = Top.saved
      /\ fr.error = Top.error /\ fr.todo = Top.todo \ {d}
  BY <1>2 DEF Frames
<1>4. MarkUsed(d, s)
  BY <1>1 DEF Top
<1> HIDE DEF fr
<1>5. s \in Seq(Frames(unit)) /\ Len(s) = Len(stack) /\ s[Len(stack)] = fr
      /\ \A i \in 1..Len(stack) : i # Len(stack) => s[i] = stack[i]
  BY <1>2, <1>3
<1> HIDE DEF s
<1>6. Len(s) = Len(stack) /\ \A i \in 1..Len(stack) :
         /\ s[i] \in Frames(unit) /\ stack[i] \in Frames(unit)
         /\ s[i].fn = stack[i].fn /\ s[i].saved = stack[i].saved /\ s[i].error = stack[i].error
         /\ s[i].todo = IF i = Len(stack) THEN stack[i].todo \ {d} ELSE stack[i].todo
  <2>1. \A i \in 1..Len(stack) : stack[i] \in Frames(unit)
    OBVIOUS
  <2>2. ASSUME NEW i \in 1..Len(stack), i = Len(stack) PROVE s[i] = fr /\ stack[i] = Top
    BY <1>2, <1>5, <2>2
  <2>3. ASSUME NEW i \in 1..Len(stack), i # Len(stack) PROVE s[i] = stack[i]
    BY <1>5, <2>3
  <2> QED
    BY <1>3, <1>5, <2>1, <2>2, <2>3
<1>7. FrameSound(Top, counter)
  BY <1>2 DEF Sound, Nested
<1>8. d \in Uses(unit, Top.fn) /\ d \in Decls(unit)
  BY <1>1, <1>2, <1>7 DEF FrameSound, Frames
<1>9. counter # 0 /\ counter' = IF Cloned(d) \in marked THEN counter + 1 ELSE counter
  BY <1>2, <1>4 DEF Testing, MarkUsed
<1>10. \A i \in 1..Len(s) : s[i].saved \in Nat /\ s[i].saved <= counter
  <2> SUFFICES ASSUME NEW i \in 1..Len(s) PROVE s[i].saved \in Nat /\ s[i].saved <= counter
    OBVIOUS
  <2>1. FrameSound(stack[i], counter) /\ stack[i] \in Frames(unit) /\ s[i].saved = stack[i].saved
    BY <1>6 DEF Sound, Nested
  <2> QED
    BY <2>1 DEF FrameSound, Frames
<1> DEFINE Kept(i) == \/ counter' > s[i].saved
                      \/ s[i].error
                      \/ \E e \in s[i].todo : Bad(Cloned(e))
                      \/ i < Len(s) /\ Bad(s[i + 1].fn)
<1>11. ASSUME NEW i \in 1..Len(s), Bad(s[i].fn)
      PROVE \/ Kept(i)
            \/ i = Len(s) /\ Bad(Cloned(d)) /\ d \notin deferred \cup initial
  <2>1. \/ counter > stack[i].saved
        \/ stack[i].error
        \/ \E e \in stack[i].todo : Bad(Cloned(e))
        \/ i < Len(stack) /\ Bad(stack[i + 1].fn)
    BY <1>6, <1>11 DEF Pending
  <2>2. CASE counter > stack[i].saved
    <3>1. s[i].saved = stack[i].saved /\ s[i].saved \in Nat
      BY <1>6, <1>10
    <3>2. counter' > s[i].saved
      BY <1>9, <2>2, <3>1
    <3> QED
      BY <3>2
  <2>3. CASE stack[i].error
    BY <1>6, <2>3
  <2>4. CASE i < Len(stack) /\ Bad(stack[i + 1].fn)
    <3>1. i + 1 \in 1..Len(stack)
      BY <1>2, <1>6, <2>4
    <3> QED
      BY <1>6, <2>4, <3>1
  <2>5. CASE \E e \in stack[i].todo : Bad(Cloned(e))
    <3>1. PICK e \in stack[i].todo : Bad(Cloned(e))
      BY <2>5
    <3>2. CASE e \in s[i].todo
      BY <3>1, <3>2
    <3>3. CASE e \notin s[i].todo
      <4>1. e = d /\ i = Len(s)
        BY <1>6, <3>3
      <4>2. CASE Cloned(d) \in marked
        BY <1>9, <1>10, <4>2
      <4>3. CASE Cloned(d) \notin marked
        <5>1. d \notin deferred \cup initial
          BY <1>2, <1>8, <3>1, <4>1, <4>3, UnmarkedIsValid
        <5> QED
          BY <3>1, <4>1, <5>1
      <4> QED
        BY <4>2, <4>3
    <3> QED
      BY <3>2, <3>3
  <2> QED
    BY <2>1, <2>2, <2>3, <2>4, <2>5
<1>12. CASE d \notin deferred \cup initial
  <2>1. Begins(s, d, counter') /\ counter' \in Nat
    BY <1>4, <1>9, <1>12 DEF MarkUsed
  <2> QED
    BY <1>2, <1>5, <1>8, <1>11, <2>1, PendingBegins
<1>13. CASE d \in deferred \cup initial
  <2>1. stack' = s
    BY <1>4, <1>13 DEF MarkUsed
  <2>2. \A i \in 1..Len(s) : Bad(s[i].fn) => Kept(i)
    BY <1>11, <1>13
  <2> QED
    BY <2>1, <2>2 DEF Pending, Bad
<1> QED
  BY <1>12, <1>13

(* A method that ends is marked if it is bad, and so are those it is in.   *)
LEMMA SynthesizedKnown ==
    ASSUME TypeOK, unit \in Units, stack \in Seq(Frames(unit)), Sound, Known, Synthesized
    PROVE Known'
<1>1. stack # <<>> /\ Len(stack) \in Nat \ {0} /\ Top = stack[Len(stack)]
      /\ Top \in Frames(unit) /\ Len(stack) \in 1..Len(stack)
  BY TopTyped DEF Synthesized
<1>2. /\ unit' = unit /\ phase' = phase /\ deferred' = deferred /\ counter' = counter
      /\ errors' = errors /\ accepted' = accepted
      /\ initial' = initial \cup {d \in Decls(unit) : Cloned(d) = Top.fn}
      /\ marked' = IF counter # Top.saved THEN marked \cup {Top.fn} ELSE marked \ {Top.fn}
      /\ ~Top.error /\ Top.todo = {}
  BY DEF Synthesized, dumpVars
<1>3. Len(stack') = Len(stack) - 1 /\ \A i \in 1..Len(stack') : stack'[i] = stack[i]
  <2>1. stack' = SubSeq(stack, 1, Len(stack) - 1)
    BY DEF Synthesized
  <2> QED
    BY <1>1, <2>1, ButLast
<1>4. Running' \subseteq Running /\ Running \subseteq Running' \cup {Top.fn}
  BY <1>1, <1>3 DEF Running
<1>5. Top.fn \in Running /\ Top.fn \in Methods(unit)
  BY <1>1 DEF Running, Frames
<1>6. counter \in Nat /\ deferred \subseteq Decls(unit)
      /\ \A i \in 1..Len(stack) : stack[i] \in Frames(unit) /\ stack[i].saved \in Nat
  <2>1. \A i \in 1..Len(stack) : stack[i] \in Frames(unit)
    OBVIOUS
  <2> QED
    BY <2>1 DEF TypeOK, Frames
<1>7. phase = "dump" /\ Bad(Top.fn) => counter > Top.saved
  BY <1>1, <1>2 DEF Known, TestPending, Pending
<1>8. DeferredKnown'
  BY <1>2, <1>4, <1>6 DEF Known, DeferredKnown, Bad
<1>9. ParsedValid' /\ RunningValid'
  BY <1>2, <1>4, <1>5 DEF Known, ParsedValid, RunningValid, Bad
<1>10. BadMarked'
  <2> SUFFICES ASSUME phase = "dump", NEW f \in Methods(unit) \cap initial', Bad(f)
               PROVE f \in marked' \cup Running'
    BY <1>2 DEF BadMarked, Bad
  <2>1. CASE f = Top.fn
    <3>1. counter # Top.saved
      BY <1>1, <1>6, <1>7, <2>1
    <3> QED
      BY <1>2, <2>1, <3>1
  <2>2. CASE f # Top.fn
    <3>1. f \in initial
      BY <1>2, <2>2, ClonedMethods
    <3>2. f \in marked \cup Running
      BY <3>1 DEF Known, BadMarked
    <3> QED
      BY <1>2, <1>4, <2>2, <3>2
  <2> QED
    BY <2>1, <2>2
<1>11. TestPending'
  <2> SUFFICES ASSUME phase = "dump", NEW i \in 1..Len(stack'), Bad(stack[i].fn)
               PROVE \/ counter > stack[i].saved
                     \/ stack[i].error
                     \/ \E d \in stack[i].todo : Bad(Cloned(d))
                     \/ i < Len(stack') /\ Bad(stack'[i + 1].fn)
    BY <1>2, <1>3 DEF TestPending, Pending, Bad
  <2>1. i \in 1..Len(stack) /\ i < Len(stack)
    BY <1>1, <1>3
  <2>2. \/ counter > stack[i].saved
        \/ stack[i].error
        \/ \E d \in stack[i].todo : Bad(Cloned(d))
        \/ i < Len(stack) /\ Bad(stack[i + 1].fn)
    BY <2>1 DEF Known, TestPending, Pending
  <2>3. CASE i = Len(stack') /\ Bad(stack[i + 1].fn)
    <3>1. i + 1 = Len(stack)
      BY <1>1, <1>3, <2>3
    <3>2. counter > Top.saved
      BY <1>1, <1>7, <2>3, <3>1
    <3>3. stack[i].saved <= Top.saved
      BY <1>1, <2>1 DEF Sound, Nested, Inside
    <3>4. counter > stack[i].saved
      BY <1>1, <1>6, <2>1, <3>2, <3>3
    <3> QED
      BY <3>4
  <2>4. CASE i < Len(stack') /\ Bad(stack[i + 1].fn)
    <3>1. i + 1 \in 1..Len(stack')
      BY <1>1, <1>3, <2>4
    <3> QED
      BY <1>3, <2>4, <3>1
  <2>5. i = Len(stack') \/ i < Len(stack')
    BY <1>1, <1>3
  <2> QED
    BY <2>2, <2>3, <2>4, <2>5
<1> QED
  BY <1>2, <1>8, <1>9, <1>10, <1>11 DEF Known, Results

(* If the program uses valid methods, every invalid one that has been      *)
(* synthesized is marked or still running with its fault to come.          *)
LEMMA CompleteInductive == Spec => []Complete
<1>1. Init => Complete
  BY DEF Init, Complete, Known, DeferredKnown, ParsedValid, RunningValid, BadMarked, TestPending,
         Pending, Running, Results
<1>2. TypeOK /\ Testing /\ Sound /\ Complete /\ [Next]_vars => Complete'
  <2> SUFFICES ASSUME TypeOK, Testing, Sound, Complete, [Next]_vars, ProgramIsValid'
               PROVE Known'
    BY DEF Complete
  <2>1. /\ unit \in Units /\ unit' = unit /\ counter \in Nat
        /\ stack \in Seq(Frames(unit)) /\ initial \subseteq Decls(unit)
        /\ accepted \subseteq Methods(unit)
    BY DEF TypeOK, Frames, Next, BodyError, BodyUse, Synthesized, UseInFunction, UseOutside,
           ParseEnds, AddMethod, MethodAdded, DumpEnds, FinishDeferred, UnitEnds, Done, vars
  <2>2. needed \subseteq needed'
    BY DEF Next, BodyError, BodyUse, Synthesized, UseInFunction, UseOutside,
           ParseEnds, AddMethod, MethodAdded, DumpEnds, FinishDeferred, UnitEnds, Done, vars
  <2>3. Known
    BY <2>1, <2>2 DEF Complete, ProgramIsValid
  <2>4. stack = <<>> => Running = {}
    BY DEF Running
  <2> USE <2>1 DEF dumpVars
  <2>5. ASSUME BodyError PROVE Known'
    <3>1. stack # <<>> /\ Len(stack) \in 1..Len(stack) /\ Top = stack[Len(stack)]
          /\ Top \in Frames(unit) /\ Top.error
      BY <2>5, TopTyped DEF BodyError
    <3>2. FrameSound(Top, counter) /\ Top.fn \in Running /\ Top.fn \in Methods(unit)
      BY <3>1 DEF Sound, Nested, Running, Frames
    <3>3. Bad(Top.fn)
      BY <3>1, <3>2, InvalidRules DEF FrameSound, Bad
    <3>4. phase = "dump" /\ counter # 0
      BY <2>3, <3>1, <3>2, <3>3 DEF Known, RunningValid, Testing
    <3>5. counter' = counter + 1 /\ errors' = errors
      BY <2>5, <3>4 DEF BodyError
    <3> DEFINE fr == [Top EXCEPT !.error = FALSE]
    <3>6. fr \in Frames(unit) /\ fr.fn = Top.fn /\ fr.saved = Top.saved
      BY <3>1 DEF Frames
    <3>7. stack' = [stack EXCEPT ![Len(stack)] = fr]
      BY <2>5 DEF BodyError, Top
    <3> HIDE DEF fr
    <3>8. Len(stack') = Len(stack) /\ \A i \in 1..Len(stack) :
             stack'[i].fn = stack[i].fn /\ stack'[i].saved = stack[i].saved
      <4>1. stack'[Len(stack)] = fr /\ Len(stack') = Len(stack)
            /\ \A i \in 1..Len(stack) : i # Len(stack) => stack'[i] = stack[i]
        BY <3>1, <3>7
      <4> QED
        BY <3>1, <3>6, <4>1
    <3>9. Running' = Running
      BY <3>8 DEF Running
    <3>10. TestPending'
      <4>1. \A i \in 1..Len(stack) : stack[i].saved \in Nat /\ stack[i].saved <= counter
        <5> SUFFICES ASSUME NEW i \in 1..Len(stack)
                     PROVE stack[i].saved \in Nat /\ stack[i].saved <= counter
          OBVIOUS
        <5>1. FrameSound(stack[i], counter) /\ stack[i] \in Frames(unit)
          BY DEF Sound, Nested
        <5> QED
          BY <5>1 DEF FrameSound, Frames
      <4>2. \A i \in 1..Len(stack') : counter' > stack'[i].saved
        BY <3>5, <3>8, <4>1
      <4> QED
        BY <4>2 DEF TestPending, Pending
    <3> QED
      BY <2>3, <2>5, <3>4, <3>5, <3>9, <3>10
         DEF BodyError, Known, DeferredKnown, ParsedValid, RunningValid, BadMarked, Results, Bad
  <2>6. ASSUME BodyUse PROVE Known'
    <3>1. PICK d \in Top.todo : MarkUsed(d, [stack EXCEPT ![Len(stack)].todo = @ \ {d}])
      BY <2>6 DEF BodyUse
    <3> DEFINE fr == [Top EXCEPT !.todo = @ \ {d}]
               s == [stack EXCEPT ![Len(stack)] = fr]
    <3>2. stack # <<>> /\ Len(stack) \in 1..Len(stack) /\ Top = stack[Len(stack)]
          /\ Top \in Frames(unit)
      BY <2>6, TopTyped DEF BodyUse
    <3>3. MarkUsed(d, s) /\ fr \in Frames(unit) /\ fr.fn = Top.fn
      BY <3>1, <3>2 DEF Frames, Top
    <3> HIDE DEF fr
    <3>4. s \in Seq(Frames(unit)) /\ Len(s) = Len(stack) /\ s[Len(stack)] = fr
          /\ \A i \in 1..Len(stack) : i # Len(stack) => s[i] = stack[i]
      BY <3>2, <3>3
    <3> HIDE DEF s
    <3>5. \A i \in 1..Len(stack) : s[i].fn = stack[i].fn
      BY <3>2, <3>3, <3>4
    <3>6. {s[i].fn : i \in 1..Len(s)} = Running
      BY <3>4, <3>5 DEF Running
    <3>7. FrameSound(Top, counter) /\ Top.fn \in Running /\ Top.fn \in Methods(unit)
      BY <3>2 DEF Sound, Nested, Running, Frames
    <3>8. d \in Uses(unit, Top.fn) /\ d \in Decls(unit)
      BY <3>1, <3>2, <3>7 DEF FrameSound, Frames
    <3>9. phase # "dump" => ~Bad(Cloned(d))
      BY <2>3, <3>7, <3>8, InvalidRules DEF Known, RunningValid, Bad
    <3>10. DeferredKnown' /\ ParsedValid' /\ RunningValid' /\ BadMarked'
      BY <2>3, <2>6, <3>3, <3>4, <3>6, <3>8, <3>9, MarkUsedKnown DEF BodyUse, Known
    <3>11. TestPending'
      BY <2>3, <2>6, BodyUsePending DEF BodyUse, Known, TestPending
    <3> QED
      BY <2>3, <2>6, <3>10, <3>11 DEF BodyUse, Known, Results
  <2>7. ASSUME Synthesized PROVE Known'
    BY <2>3, <2>7, SynthesizedKnown
  <2>8. ASSUME UseInFunction PROVE Known'
    <3>1. PICK d \in unit.inside : MarkUsed(d, stack) /\ needed' = needed \cup {Cloned(d)}
      BY <2>8 DEF UseInFunction
    <3>2. d \in Decls(unit) /\ phase # "dump"
      BY <2>8, UnitAssumption DEF UseInFunction
    <3>3. ~Bad(Cloned(d))
      BY <3>1 DEF ProgramIsValid, Bad
    <3>4. DeferredKnown' /\ ParsedValid' /\ RunningValid' /\ BadMarked'
      BY <2>3, <2>8, <3>1, <3>2, <3>3, MarkUsedKnown DEF UseInFunction, Known, Running
    <3> QED
      BY <2>3, <2>8, <3>2, <3>4 DEF UseInFunction, Known, TestPending, Results
  <2>9. ASSUME UseOutside PROVE Known'
    <3>1. PICK d \in unit.outside :
             deferred' = deferred \cup {d} /\ needed' = needed \cup {Cloned(d)}
      BY <2>9 DEF UseOutside
    <3>2. ~Bad(Cloned(d))
      BY <3>1 DEF ProgramIsValid, Bad
    <3> QED
      BY <2>3, <2>9, <3>1, <3>2
         DEF UseOutside, Known, DeferredKnown, ParsedValid, RunningValid, BadMarked, TestPending,
             Running, Results, Bad
  <2>10. ASSUME ParseEnds PROVE Known'
    <3>1. \A f \in Methods(unit) : Cloned(f) = f
      BY ClonedMethods
    <3> QED
      BY <2>3, <2>4, <2>10, <3>1
         DEF ParseEnds, Idle, Known, DeferredKnown, ParsedValid, RunningValid, BadMarked,
             TestPending, Pending, Running, Results, Bad
  <2>11. ASSUME AddMethod PROVE Known'
    <3>1. PICK f \in Methods(unit) :
             IF f \in initial THEN Verdict(f) /\ UNCHANGED <<initial, counter, stack, node>>
             ELSE /\ node' = f /\ counter' = 1 /\ Begins(stack, f, 1)
                  /\ UNCHANGED <<accepted, refused>>
      BY <2>11 DEF AddMethod
    <3>2. phase = "dump" /\ stack = <<>> /\ Running = {} /\ phase' = phase /\ marked' = marked
          /\ deferred' = deferred /\ errors' = errors
      BY <2>4, <2>11 DEF AddMethod, Idle
    <3>3. CASE f \in initial
      <4>1. initial' = initial /\ counter' = counter /\ stack' = stack /\ Verdict(f)
        BY <3>1, <3>3
      <4>2. Bad(f) => f \in marked
        BY <2>3, <3>2, <3>3 DEF Known, BadMarked
      <4>3. accepted' \cap Invalid[unit] = {}
        BY <2>3, <4>1, <4>2 DEF Verdict, Known, Results, Bad
      <4> QED
        BY <2>3, <3>2, <4>1, <4>3
           DEF Known, DeferredKnown, ParsedValid, RunningValid, BadMarked, TestPending, Pending,
               Running, Results, Bad
    <3>4. CASE f \notin initial
      <4>1. Begins(stack, f, 1) /\ f \in Decls(unit) /\ Cloned(f) = f /\ counter' = 1
            /\ accepted' = accepted
        BY <3>1, <3>4, ClonedMethods
      <4>2. {stack[i].fn : i \in 1..Len(stack)} = Running
        BY DEF Running
      <4>3. Running' = {f} /\ initial' = initial \cup {f}
        <5>1. initial' = initial \cup {f}
          BY <4>1 DEF Begins
        <5>2. Running' = Running \cup {f}
          BY <4>1, <4>2, BeginsRunning
        <5> QED
          BY <3>2, <5>1, <5>2
      <4>4. Pending(stack, counter)'
        <5>1. \A i \in 1..Len(stack) : FALSE
          BY <3>2
        <5> QED
          BY <4>1, <5>1, PendingBegins
      <4> QED
        BY <2>3, <3>2, <4>1, <4>3, <4>4
           DEF Known, DeferredKnown, ParsedValid, RunningValid, BadMarked, TestPending, Results, Bad
    <3> QED
      BY <3>3, <3>4
  <2>12. ASSUME MethodAdded PROVE Known'
    <3>1. node \in Methods(unit) \cap initial /\ phase = "dump" /\ Running = {}
      BY <2>4, <2>12 DEF MethodAdded, TypeOK, Testing
    <3>2. Bad(node) => node \in marked
      BY <2>3, <3>1 DEF Known, BadMarked
    <3>3. accepted' \cap Invalid[unit] = {}
      BY <2>3, <2>12, <3>2 DEF MethodAdded, Verdict, Known, Results, Bad
    <3> QED
      BY <2>3, <2>12, <3>3
         DEF MethodAdded, Known, DeferredKnown, ParsedValid, RunningValid, BadMarked, TestPending,
             Pending, Running, Results, Bad
  <2>13. ASSUME DumpEnds PROVE Known'
    BY <2>3, <2>13
       DEF DumpEnds, Idle, Known, DeferredKnown, ParsedValid, RunningValid, BadMarked,
           TestPending, Running, Results, Bad
  <2>14. ASSUME FinishDeferred PROVE Known'
    <3>1. PICK d \in deferred \ initial : Begins(stack, d, counter)
      BY <2>14 DEF FinishDeferred
    <3>2. Running = {} /\ phase = "finish" /\ d \in Decls(unit)
      BY <2>4, <2>14 DEF FinishDeferred, Idle, TypeOK
    <3>3. ~Bad(Cloned(d))
      BY <2>3, <3>1, <3>2 DEF Known, DeferredKnown
    <3>4. {stack[i].fn : i \in 1..Len(stack)} = Running
      BY DEF Running
    <3>5. Running' = {Cloned(d)} /\ initial' = initial \cup {Cloned(d)}
      BY <3>1, <3>2, <3>4, BeginsRunning DEF Begins
    <3> QED
      BY <2>3, <2>14, <3>2, <3>3, <3>5
         DEF FinishDeferred, Known, DeferredKnown, ParsedValid, RunningValid, BadMarked,
             TestPending, Results, Bad
  <2>15. ASSUME UnitEnds \/ UNCHANGED vars PROVE Known'
    BY <2>3, <2>15
       DEF UnitEnds, vars, Known, DeferredKnown, ParsedValid, RunningValid, BadMarked,
           TestPending, Pending, Running, Results, Bad
  <2> QED
    BY <2>5, <2>6, <2>7, <2>8, <2>9, <2>10, <2>11, <2>12, <2>13, <2>14, <2>15 DEF Next, Done
<1> QED
  BY <1>1, <1>2, TypeCorrect, TestingInductive, SoundInductive, PTL DEF Spec

(* The dump holds no invalid method if the program uses valid ones,        *)
(* whatever was synthesized before and in whatever order: an error inside  *)
(* a nested synthesis moves the counter for each method around it.         *)
THEOREM OnlyValidIsDumped == Spec => []AcceptedIsValid
<1>1. Complete => AcceptedIsValid
  BY DEF Complete, ProgramIsValid, Known, Results, AcceptedIsValid
<1> QED
  BY <1>1, CompleteInductive, PTL

(* The test never makes the compiler report an error by itself, in the     *)
(* dump or when the compiler goes on after it.                             *)
THEOREM TestReportsNothing == Spec => []TestIsSilent
<1>1. Complete => TestIsSilent
  BY DEF Complete, ProgramIsValid, Known, Results, TestIsSilent
<1> QED
  BY <1>1, CompleteInductive, PTL
=============================================================================
