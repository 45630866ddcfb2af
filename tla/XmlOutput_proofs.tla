-------------------------- MODULE XmlOutput_proofs --------------------------
(***************************************************************************)
(* Theorems about the document that is printed for a tree: the ids of its  *)
(* elements are unique, and every reference leads to an element, for all   *)
(* trees of the shape XmlForm describes and all quiet units.               *)
(*                                                                         *)
(* The functions of cp/xml.c that recur over the tree are defined for all  *)
(* of its nodes, because their recursion is settled in rounds.  By the     *)
(* same rounds xml_add_node is sound: the index it yields is that of a     *)
(* node it asks for, and the nodes it asks for have their own index.       *)
(* Every part of an element then asks for what it refers to, whatever      *)
(* kind of node is printed.  What has been asked for is printed by the     *)
(* theorems of XmlDump_proofs.                                             *)
(***************************************************************************)
EXTENDS XmlOutput, XmlDump_proofs, FiniteSetTheorems, WellFoundedInduction

-----------------------------------------------------------------------------
(* Numbers.                                                                *)

(* The least number of a set of numbers.                                   *)
LEMMA LeastNumber ==
    ASSUME NEW S \in SUBSET Nat, S # {}
    PROVE  \E k \in S : \A l \in S : k <= l
<1> DEFINE Less == OpToRel(<, Nat)
<1>1. \A l, k \in Nat : l < k => <<l, k>> \in Less
  BY DEF OpToRel
<1>2. IsWellFoundedOn(Less, Nat)
  BY NatLessThanWellFounded, Zenon
<1> HIDE DEF Less
<1>3. PICK k \in S : \A l \in S : ~ (<<l, k>> \in Less)
  BY <1>2, WFMin, Zenon
<1>4. \A l \in S : ~ (l < k)
  BY <1>1, <1>3
<1>5. QED BY <1>4

(* A set of numbers that holds 0 and with each number below n the next one *)
(* holds all up to n.                                                      *)
LEMMA CountingUp ==
    ASSUME NEW n \in Nat, NEW S, 0 \in S,
           ASSUME NEW i \in 1 .. n, i - 1 \in S PROVE i \in S
    PROVE  \A i \in 0 .. n : i \in S
<1> DEFINE Missing == {i \in 0 .. n : i \notin S}
<1> SUFFICES ASSUME Missing # {} PROVE FALSE
  BY DEF Missing
<1>1. Missing \in SUBSET Nat
  OBVIOUS
<1>2. PICK k \in Missing : \A l \in Missing : k <= l
  BY <1>1, LeastNumber, Zenon
<1>3. k \in 1 .. n /\ k \notin S /\ k - 1 \in 0 .. n /\ ~ (k <= k - 1)
  BY <1>2
<1>4. k - 1 \in S
  BY <1>2, <1>3
<1>5. QED BY <1>3, <1>4

-----------------------------------------------------------------------------
(* Recursion over a finite structure.                                      *)

(* After k rounds the elements of level[k] are settled: those that only    *)
(* lead to elements settled before.  After the last round all are.         *)
Rounds(D, next, last, level) ==
    /\ last \in Nat /\ level \in [0 .. last -> SUBSET D]
    /\ level[0] = {} /\ level[last] = D
    /\ \A k \in 1 .. last :
          level[k - 1] \subseteq level[k] /\ \A n \in level[k] : next[n] \cap D \subseteq level[k - 1]

(* step[n] computes the value of n from those of the elements n leads to.  *)
Local(D, V, next, step) ==
    \A n \in D : \A f, g \in [D -> V] :
        (\A m \in next[n] \cap D : f[m] = g[m]) => step[n][f] = step[n][g]
Solves(D, V, step, f) == f \in [D -> V] /\ \A n \in D : f[n] = step[n][f]

(* A recursive function whose recursion is settled in rounds exists.       *)
LEMMA RecursionIsSolved ==
    ASSUME NEW D, NEW V, NEW next, NEW last, NEW level, Rounds(D, next, last, level),
           NEW step \in [D -> [[D -> V] -> V]], Local(D, V, next, step), V # {}
    PROVE  \E f : Solves(D, V, step, f)
<1> DEFINE Settled(f, L) == \A n \in L : f[n] = step[n][f]
           S == {k \in 0 .. last : \E f \in [D -> V] : Settled(f, level[k])}
<1>1. last \in Nat /\ level \in [0 .. last -> SUBSET D] /\ level[0] = {} /\ level[last] = D
  BY DEF Rounds
<1>2. 0 \in S
  <2>1. PICK v : v \in V
    OBVIOUS
  <2>2. [n \in D |-> v] \in [D -> V]
    BY <2>1
  <2>3. 0 \in 0 .. last /\ \A f : Settled(f, level[0])
    BY <1>1
  <2> HIDE DEF Settled
  <2>4. QED BY <2>2, <2>3
<1>3. ASSUME NEW k \in 1 .. last, k - 1 \in S PROVE k \in S
  <2>0. k - 1 \in 0 .. last /\ k \in 0 .. last
    BY <1>1
  <2>1. PICK f \in [D -> V] : Settled(f, level[k - 1])
    BY <1>3
  <2> DEFINE g == [n \in D |-> IF n \in level[k - 1] THEN f[n] ELSE step[n][f]]
  <2>2. g \in [D -> V]
    OBVIOUS
  <2>3. level[k - 1] \subseteq level[k] /\ level[k] \subseteq D
    BY <1>1, <2>0 DEF Rounds
  <2>4. ASSUME NEW n \in level[k] PROVE g[n] = step[n][g]
    <3>1. n \in D /\ next[n] \cap D \subseteq level[k - 1]
      BY <2>3 DEF Rounds
    <3>2. \A m \in next[n] \cap D : f[m] = g[m]
      BY <3>1
    <3>3. step[n][f] = step[n][g]
      <4> HIDE DEF g
      <4>1. QED BY <2>2, <3>1, <3>2 DEF Local
    <3>4. g[n] = step[n][f]
      BY <2>1, <3>1
    <3>5. QED BY <3>3, <3>4
  <2> HIDE DEF g
  <2>5. QED BY <2>0, <2>2, <2>4
<1> HIDE DEF S
<1>4. last \in S
  <2>1. \A k \in 0 .. last : k \in S
    BY <1>1, <1>2, <1>3, CountingUp
  <2>2. QED BY <1>1, <2>1
<1>5. QED BY <1>1, <1>4 DEF S, Solves

(* A set of elements in which each leads to another one of it is empty.    *)
LEMMA RoundsAreWellFounded ==
    ASSUME NEW D, NEW next, NEW last, NEW level, Rounds(D, next, last, level),
           NEW X \in SUBSET D, \A x \in X : next[x] \cap X # {}
    PROVE  X = {}
<1> DEFINE S == {k \in 0 .. last : level[k] \cap X = {}}
<1>1. last \in Nat /\ level \in [0 .. last -> SUBSET D] /\ level[0] = {} /\ level[last] = D
  BY DEF Rounds
<1>2. 0 \in S
  BY <1>1
<1>3. ASSUME NEW k \in 1 .. last, k - 1 \in S PROVE k \in S
  BY <1>1, <1>3 DEF Rounds
<1> HIDE DEF S
<1>4. last \in S
  <2>1. \A k \in 0 .. last : k \in S
    BY <1>1, <1>2, <1>3, CountingUp
  <2>2. QED BY <1>1, <2>1
<1>5. QED BY <1>1, <1>4 DEF S

(* Counting: each number leads to the one below it.                        *)
Below(a, b) == [k \in a .. b |-> {k - 1}]
LEMMA CountingRounds ==
    ASSUME NEW a \in {0, 1}, NEW b \in Nat
    PROVE  \E last, level : Rounds(a .. b, Below(a, b), last, level)
<1> DEFINE level == [j \in 0 .. b + 1 |-> {i \in a .. b : i < j}]
<1>1. level \in [0 .. b + 1 -> SUBSET (a .. b)] /\ b + 1 \in Nat
  OBVIOUS
<1>2. level[0] = {} /\ level[b + 1] = a .. b
  <2>1. \A i \in a .. b : i \in Int /\ ~ (i < 0) /\ i < b + 1
    OBVIOUS
  <2>2. 0 \in 0 .. b + 1 /\ b + 1 \in 0 .. b + 1
    OBVIOUS
  <2>3. QED BY <2>1, <2>2
<1>3. ASSUME NEW k \in 1 .. b + 1
      PROVE  /\ level[k - 1] \subseteq level[k]
             /\ \A n \in level[k] : Below(a, b)[n] \cap (a .. b) \subseteq level[k - 1]
  BY DEF Below
<1>4. Rounds(a .. b, Below(a, b), b + 1, level)
  <2> HIDE DEF level
  <2>1. QED BY <1>1, <1>2, <1>3 DEF Rounds
<1>5. QED BY <1>4

(* Whatever leads to itself without end does not: a grounded structure is  *)
(* settled in rounds.                                                      *)
LEMMA GroundedRounds ==
    ASSUME NEW S, IsFiniteSet(S), NEW next, Grounded(S, next)
    PROVE  \E last, level : Rounds(S, next, last, level)
<1> DEFINE n == Cardinality(S)
           Of(before) == {x \in before : next[x] \cap before # {}}
           Def(rest) == [k \in 0 .. n |-> IF k = 0 THEN S ELSE Of(rest[k - 1])]
           D == 0 .. n
           V == SUBSET S
           step == [k \in D |-> [f \in [D -> V] |-> IF k = 0 THEN S ELSE Of(f[k - 1])]]
<1>1. n \in Nat
  BY FS_CardinalityType
<1> HIDE DEF n
<1>2. PICK last, level : Rounds(D, Below(0, n), last, level)
  BY <1>1, CountingRounds
<1>3. \A k \in D : k # 0 => k - 1 \in D
  BY <1>1
<1>4. step \in [D -> [[D -> V] -> V]]
  BY <1>3
<1>5. Local(D, V, Below(0, n), step)
  <2> SUFFICES ASSUME NEW k \in D, NEW f \in [D -> V], NEW g \in [D -> V],
                      \A m \in Below(0, n)[k] \cap D : f[m] = g[m]
               PROVE  step[k][f] = step[k][g]
    BY DEF Local
  <2>1. k # 0 => f[k - 1] = g[k - 1]
    BY <1>3 DEF Below
  <2>2. QED BY <2>1
<1>6. \E f : Solves(D, V, step, f)
  <2> HIDE DEF D, step
  <2>1. V # {}
    OBVIOUS
  <2> HIDE DEF V
  <2>2. QED BY <1>2, <1>4, <1>5, <2>1, RecursionIsSolved
<1>7. PICK f : f = Def(f)
  <2>1. PICK f : Solves(D, V, step, f)
    BY <1>6
  <2>2. f \in [D -> V] /\ \A k \in D : f[k] = step[k][f]
    BY <2>1 DEF Solves
  <2>3. \A k \in D : f[k] = IF k = 0 THEN S ELSE Of(f[k - 1])
    BY <2>2
  <2>4. f = Def(f)
    BY <2>2, <2>3
  <2>5. QED BY <2>4
<1>8. Remaining(S, next) = CHOOSE rest : rest = Def(rest)
  BY DEF Remaining, n
<1> DEFINE rest == Remaining(S, next)
<1>9. rest = Def(rest)
  <2> HIDE DEF Def
  <2>1. QED BY <1>7, <1>8, Zenon
<1> HIDE DEF rest
<1>10. rest[0] = S /\ \A k \in 1 .. n : rest[k] = Of(rest[k - 1])
  <2>1. 0 \in 0 .. n /\ \A k \in 1 .. n : k \in 0 .. n /\ k # 0
    BY <1>1
  <2>2. QED BY <1>9, <2>1
<1> DEFINE settled == [k \in 0 .. n |-> S \ rest[k]]
<1>11. Rounds(S, next, n, settled)
  <2>1. settled[0] = {} /\ settled \in [0 .. n -> SUBSET S]
    BY <1>1, <1>10
  <2>2. settled[n] = S
    BY <1>1 DEF Grounded, rest, n
  <2> DEFINE Leaves(k) == \A x \in settled[k] : next[x] \cap rest[k] = {}
             P == {k \in 0 .. n : Leaves(k)}
  <2>3. ASSUME NEW k \in 1 .. n, Leaves(k - 1)
        PROVE  /\ settled[k - 1] \subseteq settled[k]
               /\ \A x \in settled[k] : next[x] \cap S \subseteq settled[k - 1]
               /\ Leaves(k)
    <3>1. k - 1 \in 0 .. n /\ k \in 0 .. n
      BY <1>1
    <3>2. rest[k] = Of(rest[k - 1])
      BY <1>10
    <3>3. settled[k - 1] \subseteq settled[k] /\ rest[k] \subseteq rest[k - 1]
      BY <3>1, <3>2
    <3>4. \A x \in settled[k] : next[x] \cap rest[k - 1] = {}
      BY <2>3, <3>1, <3>2
    <3>5. QED BY <3>1, <3>3, <3>4
  <2>5. \A k \in 0 .. n : Leaves(k)
    <3>1. 0 \in P
      BY <1>1, <2>1
    <3>2. ASSUME NEW k \in 1 .. n, k - 1 \in P PROVE k \in P
      <4>1. k \in 0 .. n
        BY <1>1
      <4>2. QED BY <2>3, <3>2, <4>1
    <3> HIDE DEF P
    <3>3. \A k \in 0 .. n : k \in P
      BY <1>1, <3>1, <3>2, CountingUp
    <3>4. QED BY <3>3 DEF P
  <2>6. ASSUME NEW k \in 1 .. n
        PROVE  /\ settled[k - 1] \subseteq settled[k]
               /\ \A x \in settled[k] : next[x] \cap S \subseteq settled[k - 1]
    <3>1. k - 1 \in 0 .. n
      BY <1>1
    <3>2. QED BY <2>3, <2>5, <3>1
  <2> HIDE DEF settled
  <2>7. QED BY <1>1, <2>1, <2>2, <2>6 DEF Rounds
<1>12. QED BY <1>11

-----------------------------------------------------------------------------
(* Sequences of parts.                                                     *)

(* A function on the first numbers is a sequence.                          *)
LEMMA IsSequence ==
    ASSUME NEW n \in Nat, NEW E, NEW f \in [1 .. n -> E]
    PROVE  f \in Seq(E) /\ Len(f) = n
  OBVIOUS

(* The elements of a flattened sequence, by way of its parts.              *)
LEMMA FlattenParts ==
    ASSUME NEW E, NEW parts \in Seq(Seq(E))
    PROVE  /\ FlattenSeq(parts) \in Seq(E)
           /\ Range(FlattenSeq(parts)) = UNION {Range(parts[i]) : i \in DOMAIN parts}
<1> DEFINE n == Len(parts)
           D == 1 .. n
           V == Seq(E)
           Def(f) == [i \in 1 .. n |-> IF i = 1 THEN parts[i] ELSE f[i - 1] \o parts[i]]
           step == [k \in D |-> [f \in [D -> V] |-> IF k = 1 THEN parts[k] ELSE f[k - 1] \o parts[k]]]
           flatten == CHOOSE f : f = Def(f)
<1>1. n \in Nat /\ DOMAIN parts = 1 .. n
  OBVIOUS
<1>2. CASE n = 0
  <2>1. FlattenSeq(parts) = parts /\ parts = <<>>
    BY <1>2 DEF FlattenSeq
  <2>2. QED BY <2>1 DEF Range
<1>3. CASE n # 0
  <2>1. FlattenSeq(parts) = flatten[n]
    BY <1>3 DEF FlattenSeq
  <2> HIDE DEF n
  <2>2. \A k \in D : k # 1 => k - 1 \in D
    BY <1>1
  <2>3. \A k \in D : parts[k] \in V
    BY <1>1
  <2>4. step \in [D -> [[D -> V] -> V]]
    <3>1. ASSUME NEW k \in D, NEW f \in [D -> V], k # 1 PROVE f[k - 1] \o parts[k] \in V
      <4>1. f[k - 1] \in Seq(E) /\ parts[k] \in Seq(E)
        BY <2>2, <2>3, <3>1
      <4>2. QED BY <4>1
    <3> HIDE DEF V
    <3>2. QED BY <2>3, <3>1
  <2>5. PICK last, level : Rounds(D, Below(1, n), last, level)
    BY <1>1, CountingRounds
  <2>6. Local(D, V, Below(1, n), step)
    <3> SUFFICES ASSUME NEW k \in D, NEW f \in [D -> V], NEW g \in [D -> V],
                        \A m \in Below(1, n)[k] \cap D : f[m] = g[m]
                 PROVE  step[k][f] = step[k][g]
      BY DEF Local
    <3>1. k # 1 => f[k - 1] = g[k - 1]
      BY <2>2 DEF Below
    <3>2. QED BY <3>1
  <2>7. PICK f : f = Def(f)
    <3>1. V # {}
      OBVIOUS
    <3>2. \E f : Solves(D, V, step, f)
      <4> HIDE DEF D, V, step
      <4>1. QED BY <2>4, <2>5, <2>6, <3>1, RecursionIsSolved
    <3>3. PICK f : Solves(D, V, step, f)
      BY <3>2
    <3>4. f \in [D -> V] /\ \A k \in D : f[k] = step[k][f]
      BY <3>3 DEF Solves
    <3>5. \A k \in D : f[k] = IF k = 1 THEN parts[k] ELSE f[k - 1] \o parts[k]
      BY <3>4
    <3>6. f = Def(f)
      BY <3>4, <3>5
    <3>7. QED BY <3>6
  <2>8. flatten = Def(flatten)
    <3> HIDE DEF Def
    <3>1. QED BY <2>7, Zenon
  <2> HIDE DEF flatten
  <2>9. flatten[1] = parts[1] /\ \A k \in 2 .. n : flatten[k] = flatten[k - 1] \o parts[k]
    <3>1. 1 \in 1 .. n /\ \A k \in 2 .. n : k \in 1 .. n /\ k # 1
      BY <1>1, <1>3
    <3>2. QED BY <2>8, <3>1
  <2> DEFINE Flat(k) == /\ flatten[k] \in Seq(E)
                        /\ Range(flatten[k]) = UNION {Range(parts[i]) : i \in 1 .. k}
             P == {k \in 0 .. n : k # 0 => Flat(k)}
  <2>10. 0 \in P
    BY <1>1
  <2>11. ASSUME NEW k \in 1 .. n, k - 1 \in P PROVE k \in P
    <3>1. k \in 0 .. n /\ parts[k] \in Seq(E)
      BY <1>1, <2>3
    <3>2. CASE k = 1
      <4>1. 1 .. 1 = {1}
        OBVIOUS
      <4>2. Flat(1)
        BY <2>9, <3>1, <3>2, <4>1
      <4>3. QED BY <3>1, <3>2, <4>2
    <3>3. CASE k # 1
      <4>1. flatten[k] = flatten[k - 1] \o parts[k] /\ Flat(k - 1)
        <5>1. k \in 2 .. n /\ k - 1 # 0
          BY <1>1, <3>3
        <5> HIDE DEF Flat
        <5>2. QED BY <2>9, <2>11, <5>1
      <4>2. 1 .. k = (1 .. k - 1) \cup {k}
        OBVIOUS
      <4>3. Range(flatten[k - 1] \o parts[k]) = Range(flatten[k - 1]) \cup Range(parts[k])
        <5> DEFINE s == flatten[k - 1]
                   t == parts[k]
        <5>1. s \in Seq(E) /\ t \in Seq(E)
          BY <3>1, <4>1
        <5> HIDE DEF s, t
        <5>2. Range(s \o t) \subseteq Range(s) \cup Range(t)
          BY <5>1 DEF Range
        <5>3. \A i \in DOMAIN s : i \in DOMAIN (s \o t) /\ (s \o t)[i] = s[i]
          BY <5>1
        <5>4. \A i \in DOMAIN t : Len(s) + i \in DOMAIN (s \o t) /\ (s \o t)[Len(s) + i] = t[i]
          BY <5>1
        <5>5. Range(s) \cup Range(t) \subseteq Range(s \o t)
          BY <5>3, <5>4 DEF Range
        <5>6. Range(s \o t) = Range(s) \cup Range(t)
          BY <5>2, <5>5
        <5>7. QED BY <5>6 DEF s, t
      <4>4. flatten[k] \in Seq(E)
        BY <3>1, <4>1
      <4>5. UNION {Range(parts[i]) : i \in 1 .. k}
              = (UNION {Range(parts[i]) : i \in 1 .. k - 1}) \cup Range(parts[k])
        BY <4>2
      <4>6. QED BY <3>1, <4>1, <4>3, <4>4, <4>5
    <3>4. QED BY <3>2, <3>3
  <2> HIDE DEF P
  <2>12. n \in P
    <3>1. \A k \in 0 .. n : k \in P
      BY <1>1, <2>10, <2>11, CountingUp
    <3>2. QED BY <1>1, <3>1
  <2>13. Flat(n)
    BY <1>3, <2>12 DEF P
  <2>14. QED BY <1>1, <2>1, <2>13
<1>4. QED BY <1>2, <1>3

(* The elements that SelectSeq keeps.                                      *)
LEMMA ChosenMembers ==
    ASSUME NEW E, NEW s \in Seq(E), NEW S
    PROVE  Chosen(s, S) \in Seq(E \cap S) /\ Range(Chosen(s, S)) = Range(s) \cap S
<1> DEFINE parts == [i \in DOMAIN s |-> When(s[i] \in S, <<s[i]>>)]
<1>1. \A i \in DOMAIN s : parts[i] \in Seq(E \cap S) /\ Range(parts[i]) = {s[i]} \cap S
  <2> SUFFICES ASSUME NEW i \in DOMAIN s
               PROVE  parts[i] \in Seq(E \cap S) /\ Range(parts[i]) = {s[i]} \cap S
    OBVIOUS
  <2>1. CASE s[i] \in S
    <3>1. parts[i] = <<s[i]>> /\ s[i] \in E \cap S
      BY <2>1 DEF When
    <3>2. Range(<<s[i]>>) = {s[i]}
      <4> DEFINE t == <<s[i]>>
      <4>1. DOMAIN t = {1} /\ t[1] = s[i]
        OBVIOUS
      <4> HIDE DEF t
      <4>2. Range(t) = {s[i]}
        BY <4>1 DEF Range
      <4>3. QED BY <4>2 DEF t
    <3> HIDE DEF parts
    <3>3. parts[i] \in Seq(E \cap S)
      BY <3>1
    <3>4. QED BY <2>1, <3>1, <3>2, <3>3
  <2>2. CASE s[i] \notin S
    <3>1. parts[i] = <<>>
      BY <2>2 DEF When
    <3>2. Range(<<>>) = {} /\ <<>> \in Seq(E \cap S)
      BY DEF Range
    <3>3. QED BY <2>2, <3>1, <3>2
  <2>3. QED BY <2>1, <2>2
<1>2. parts \in Seq(Seq(E \cap S)) /\ DOMAIN parts = DOMAIN s
  <2>0. parts = [i \in DOMAIN s |-> parts[i]] /\ DOMAIN s = 1 .. Len(s)
    OBVIOUS
  <2>1. parts \in [1 .. Len(s) -> Seq(E \cap S)] /\ DOMAIN s = 1 .. Len(s)
    <3> HIDE DEF parts
    <3>1. QED BY <1>1, <2>0
  <2> HIDE DEF parts
  <2>2. QED BY <2>1, IsSequence
<1>3. Chosen(s, S) = FlattenSeq(parts)
  BY DEF Chosen
<1> HIDE DEF parts
<1>4. /\ FlattenSeq(parts) \in Seq(E \cap S)
      /\ Range(FlattenSeq(parts)) = UNION {Range(parts[i]) : i \in DOMAIN parts}
  BY <1>2, FlattenParts
<1>5. UNION {Range(parts[i]) : i \in DOMAIN parts} = Range(s) \cap S
  BY <1>1, <1>2 DEF Range
<1>6. QED BY <1>3, <1>4, <1>5

(* The parts of an element, with requests of E and ids of R.               *)
Parts(E, J, R) == [ops : Seq(E), index : J, refs : SUBSET R]

(* The elements of a folded concatenation of parts.                        *)
LEMMA JoinParts ==
    ASSUME NEW E, NEW J, NEW R, NEW parts \in Seq(Parts(E, J, R))
    PROVE  /\ None \in J => Join(parts) \in Parts(E, J, R)
           /\ Range(Join(parts).ops) = UNION {Range(parts[i].ops) : i \in DOMAIN parts}
           /\ Join(parts).refs = UNION {parts[i].refs : i \in DOMAIN parts}
           /\ parts = <<>> => Join(parts).index = None
           /\ parts # <<>> => Join(parts).index = parts[Len(parts)].index
<1> DEFINE ops == [i \in DOMAIN parts |-> parts[i].ops]
<1>1. \A i \in DOMAIN parts :
         parts[i].ops \in Seq(E) /\ parts[i].index \in J /\ parts[i].refs \subseteq R
  <2>1. \A i \in DOMAIN parts : parts[i] \in Parts(E, J, R)
    OBVIOUS
  <2>2. QED BY <2>1 DEF Parts
<1>2. ops \in Seq(Seq(E)) /\ DOMAIN ops = DOMAIN parts
  <2>1. ops \in [1 .. Len(parts) -> Seq(E)] /\ DOMAIN parts = 1 .. Len(parts)
    BY <1>1
  <2> HIDE DEF ops
  <2>2. QED BY <2>1, IsSequence
<1>3. /\ Join(parts).ops = FlattenSeq(ops)
      /\ Join(parts).index = IF parts = <<>> THEN None ELSE parts[Len(parts)].index
      /\ Join(parts).refs = UNION {parts[i].refs : i \in DOMAIN parts}
      /\ Join(parts) = [ops |-> Join(parts).ops, index |-> Join(parts).index,
                        refs |-> Join(parts).refs]
  BY DEF Join, Last
<1>4. Range(Join(parts).ops) = UNION {Range(parts[i].ops) : i \in DOMAIN parts}
  <2>1. Range(FlattenSeq(ops)) = UNION {Range(ops[i]) : i \in DOMAIN ops}
    <3> HIDE DEF ops
    <3>1. QED BY <1>2, FlattenParts
  <2>2. QED BY <1>2, <1>3, <2>1
<1>5. Join(parts).ops \in Seq(E)
  <2> HIDE DEF ops
  <2>1. QED BY <1>2, <1>3, FlattenParts
<1>6. ASSUME None \in J PROVE Join(parts).index \in J
  <2>1. parts # <<>> => Len(parts) \in DOMAIN parts
    OBVIOUS
  <2>2. QED BY <1>1, <1>3, <1>6, <2>1
<1>7. Join(parts).refs \subseteq R
  BY <1>1, <1>3
<1>8. None \in J => Join(parts) \in Parts(E, J, R)
  BY <1>3, <1>5, <1>6, <1>7 DEF Parts
<1>9. QED BY <1>3, <1>4, <1>8

(* The fields of a part.                                                   *)
LEMMA PartFields ==
    ASSUME NEW E, NEW J, NEW R, NEW p \in Parts(E, J, R)
    PROVE  /\ p.ops \in Seq(E) /\ p.index \in J /\ p.refs \subseteq R
           /\ p = [ops |-> p.ops, index |-> p.index, refs |-> p.refs]
  BY DEF Parts

(* The elements of two parts.                                              *)
LEMMA JoinTwo ==
    ASSUME NEW E, NEW J, NEW R, NEW p \in Parts(E, J, R), NEW q \in Parts(E, J, R), None \in J
    PROVE  /\ Join(<<p, q>>) \in Parts(E, J, R)
           /\ Range(Join(<<p, q>>).ops) = Range(p.ops) \cup Range(q.ops)
           /\ Join(<<p, q>>).refs = p.refs \cup q.refs
<1> DEFINE parts == <<p, q>>
<1>1. /\ parts \in Seq(Parts(E, J, R)) /\ DOMAIN parts = {1, 2}
      /\ parts[1] = p /\ parts[2] = q
  OBVIOUS
<1> HIDE DEF parts
<1>2. /\ Join(parts) \in Parts(E, J, R)
      /\ Range(Join(parts).ops) = UNION {Range(parts[i].ops) : i \in DOMAIN parts}
      /\ Join(parts).refs = UNION {parts[i].refs : i \in DOMAIN parts}
  <2>1. parts \in Seq(Parts(E, J, R))
    BY <1>1
  <2>2. QED BY <2>1, JoinParts, SMTT(30)
<1>3. Range(Join(parts).ops) = Range(p.ops) \cup Range(q.ops)
  BY <1>1, <1>2
<1>4. Join(parts).refs = p.refs \cup q.refs
  BY <1>1, <1>2
<1>5. QED BY <1>2, <1>3, <1>4 DEF parts

(* A sequence is one of whatever set holds its elements.                   *)
LEMMA InRange ==
    ASSUME NEW E, NEW s \in Seq(E), NEW S, Range(s) \subseteq S
    PROVE  s \in Seq(S)
<1>1. s \in [1 .. Len(s) -> S] /\ Len(s) \in Nat
  BY DEF Range
<1>2. QED BY <1>1, IsSequence

-----------------------------------------------------------------------------
(* xml_add_node, case by case.                                             *)

(* xml_add_node by the kind of the node, one case after the other.         *)
LEMMA DispatchCases ==
    ASSUME NEW T, NEW add, NEW n, NEW c
    PROVE  /\ Skipped(T, n) \/ T[n].code = "CONST_DECL" => Dispatch(T, add, n, c) = Nothing
           /\ ~Skipped(T, n) /\ T[n].code = "TYPE_DECL" =>
                 Dispatch(T, add, n, c) = AddTypeDecl(T, add, n, c)
           /\ ~Skipped(T, n) /\ T[n].code = "TEMPLATE_DECL" =>
                 Dispatch(T, add, n, c) = AddTemplateDecl(T, add, n, c)
           /\ T[n].code = "OVERLOAD" => Dispatch(T, add, n, c) = AddAll(add, T[n].functions, c)
           /\ T[n].code = "RECORD_TYPE" => Dispatch(T, add, n, c) = AddRecord(T, add, n, c)
           /\ ~Skipped(T, n) /\ T[n].code \notin {"CONST_DECL", "TYPE_DECL", "TEMPLATE_DECL",
                                                  "OVERLOAD", "RECORD_TYPE"} =>
                 Dispatch(T, add, n, c) = Real(n, c)
<1>1. Skipped(T, n) => T[n].code \in Decl
  BY DEF Skipped, Decl
<1>2. Skipped(T, n) \/ T[n].code = "CONST_DECL" => Dispatch(T, add, n, c) = Nothing
  BY <1>1, Zenon DEF Dispatch, Decl
<1>3. ~Skipped(T, n) /\ T[n].code = "TYPE_DECL" =>
         Dispatch(T, add, n, c) = AddTypeDecl(T, add, n, c)
  BY Zenon DEF Dispatch
<1>4. ~Skipped(T, n) /\ T[n].code = "TEMPLATE_DECL" =>
         Dispatch(T, add, n, c) = AddTemplateDecl(T, add, n, c)
  BY Zenon DEF Dispatch
<1>5. T[n].code = "OVERLOAD" => Dispatch(T, add, n, c) = AddAll(add, T[n].functions, c)
  BY <1>1, Zenon DEF Dispatch, Decl
<1>6. T[n].code = "RECORD_TYPE" => Dispatch(T, add, n, c) = AddRecord(T, add, n, c)
  BY <1>1, Zenon DEF Dispatch, Decl
<1>7. ~Skipped(T, n) /\ T[n].code \notin {"CONST_DECL", "TYPE_DECL", "TEMPLATE_DECL",
                                          "OVERLOAD", "RECORD_TYPE"} =>
         Dispatch(T, add, n, c) = Real(n, c)
  BY Zenon DEF Dispatch
<1>8. QED BY <1>2, <1>3, <1>4, <1>5, <1>6, <1>7, Zenon

(* The typedefs that stand for a class or an enumeration and not for       *)
(* themselves.                                                             *)
DeclaresClass(T, td) ==
    /\ T[T[td].type].code \in TaggedType
    /\ T[T[td].type].code = "RECORD_TYPE" => T[T[td].type].ptrmemfunc = None
    /\ DeclaresItsType(T, td)

(* The cases of xml_add_type_decl.                                         *)
LEMMA TypeDeclCases ==
    ASSUME NEW T, NEW add, NEW td, NEW c
    PROVE  /\ DeclaresClass(T, td) => AddTypeDecl(T, add, td, c) = add[T[td].type][c]
           /\ ~DeclaresClass(T, td) /\ T[T[td].type].code \in PredefinedType \cup TaggedType =>
                 AddTypeDecl(T, add, td, c) = AddTypedef(T, add, td, c)
           /\ T[T[td].type].code \notin PredefinedType \cup TaggedType =>
                 AddTypeDecl(T, add, td, c) = Real(td, c)
<1> DEFINE t == T[td].type
           pointsToMember == T[t].code = "RECORD_TYPE" /\ T[t].ptrmemfunc # None
           tagged == T[t].code \in TaggedType /\ ~pointsToMember
           predefined == T[t].code \in PredefinedType \/ pointsToMember
<1>1. AddTypeDecl(T, add, td, c) =
         CASE predefined -> AddTypedef(T, add, td, c)
           [] tagged -> IF DeclaresItsType(T, td) THEN add[t][c] ELSE AddTypedef(T, add, td, c)
           [] OTHER -> Real(td, c)
  BY Zenon DEF AddTypeDecl
<1>2. ~(predefined /\ tagged)
  BY DEF PredefinedType, TaggedType
<1>3. DeclaresClass(T, td) <=> tagged /\ DeclaresItsType(T, td)
  BY DEF DeclaresClass
<1>4. predefined \/ tagged <=> T[t].code \in PredefinedType \cup TaggedType
  BY DEF TaggedType
<1> HIDE DEF t, predefined, tagged
<1>5. predefined => AddTypeDecl(T, add, td, c) = AddTypedef(T, add, td, c)
  BY <1>1, <1>2, Zenon
<1>6. tagged => AddTypeDecl(T, add, td, c)
                   = IF DeclaresItsType(T, td) THEN add[t][c] ELSE AddTypedef(T, add, td, c)
  BY <1>1, <1>2, Zenon
<1>7. ~predefined /\ ~tagged => AddTypeDecl(T, add, td, c) = Real(td, c)
  BY <1>1, Zenon
<1>8. QED BY <1>2, <1>3, <1>4, <1>5, <1>6, <1>7 DEF t

(* The cases of xml_add_node for a class.                                  *)
LEMMA RecordCases ==
    ASSUME NEW T, NEW add, NEW n, NEW c
    PROVE  /\ T[n].ptrmemfunc # None => AddRecord(T, add, n, c) = add[T[n].ptrmemfunc][c]
           /\ T[n].ptrmemfunc = None /\ T[n].template => AddRecord(T, add, n, c) = Nothing
           /\ T[n].ptrmemfunc = None /\ ~T[n].template => AddRecord(T, add, n, c) = Real(n, c)
  BY Zenon DEF AddRecord

(* What is asked of a tree.                                                *)
Formed(T) == IsFiniteSet(DOMAIN T) /\ None \notin DOMAIN T /\ WellFormed(T, File)

(* The ways xml_add_node answers for a node, whatever the answers "add" of *)
(* the nodes it calls itself for.                                          *)
Shape(T, n) ==
    LET C == {0, 1}
        L == Leads(T, n)
    IN \/ \A c \in C : \A add : Dispatch(T, add, n, c) = Nothing
       \/ \A c \in C : \A add : Dispatch(T, add, n, c) = Real(n, c)
       \/ \E m \in L : /\ IsVariant(T, m) => IsVariant(T, n)
                       /\ \A c \in C : \A add : Dispatch(T, add, n, c) = add[m][c]
       \/ \E m \in L : \A c \in C : \A add : Dispatch(T, add, n, c) = NoIndex(add[m][c])
       \/ /\ ~IsVariant(T, n)
          /\ \E m \in L : \A c \in C : \A add :
                Dispatch(T, add, n, c) = IF add[m][c].index # None
                                           THEN Join(<<add[m][c], Real(n, c)>>) ELSE add[m][c]
       \/ \A c \in C : \E ns \in Seq(L) : \A add : Dispatch(T, add, n, c) = AddAll(add, ns, c)

(* What xml_add_type_decl yields is a request and an index.                *)
LEMMA TypeDeclShape ==
    ASSUME NEW T, Formed(T), NEW n \in DOMAIN T, T[n].code = "TYPE_DECL", ~Skipped(T, n)
    PROVE  Shape(T, n)
<1> DEFINE t == T[n].type
<1>1. t \in TypeNodes(T) /\ T[n].original \in OrNone(TypeNodes(T))
  BY DEF Formed, WellFormed, Accessors
<1>2. t \in DOMAIN T /\ T[t].main \in DOMAIN T /\ TypedefTarget(T, n) \in DOMAIN T
  <2>1. \A s \in TypeNodes(T) : s \in DOMAIN T /\ T[s].main \in TypeNodes(T)
    BY DEF Formed, WellFormed, Accessors, TypeNodes
  <2>2. TypedefTarget(T, n) \in DOMAIN T
    BY <1>1, <2>1 DEF TypedefTarget, OrNone
  <2>3. QED BY <1>1, <2>1, <2>2
<1>3. t \in Leads(T, n) /\ TypedefTarget(T, n) \in Leads(T, n)
  BY <1>2 DEF Leads
<1>4. ~IsVariant(T, n)
  BY DEF IsVariant, QualifiableType
<1>5. \A c \in {0, 1} : \A add : Dispatch(T, add, n, c) = AddTypeDecl(T, add, n, c)
  BY DispatchCases
<1>6. CASE DeclaresClass(T, n)
  <2>1. T[t].main = t
    BY <1>6 DEF Formed, WellFormed, ClassesAreMain, NodesOf, DeclaresClass
  <2>2. ~IsVariant(T, t)
    BY <2>1 DEF IsVariant
  <2>3. \A c \in {0, 1} : \A add : Dispatch(T, add, n, c) = add[t][c]
    BY <1>5, <1>6, TypeDeclCases
  <2>4. QED BY <1>3, <2>2, <2>3 DEF Shape
<1>7. CASE T[t].code \notin PredefinedType \cup TaggedType
  BY <1>5, <1>7, TypeDeclCases DEF Shape
<1>8. CASE ~DeclaresClass(T, n) /\ T[t].code \in PredefinedType \cup TaggedType
  <2>1. \A c \in {0, 1} : \A add : Dispatch(T, add, n, c) = AddTypedef(T, add, n, c)
    BY <1>5, <1>8, TypeDeclCases
  <2>2. CASE NamesItself(T, n)
    <3>1. \A c \in {0, 1} : \A add : Dispatch(T, add, n, c) = NoIndex(add[t][c])
      BY <2>1, <2>2 DEF AddTypedef
    <3>2. QED BY <1>3, <3>1 DEF Shape
  <2>3. CASE ~NamesItself(T, n)
    <3> DEFINE m == TypedefTarget(T, n)
    <3>1. \A c \in {0, 1} : \A add :
             Dispatch(T, add, n, c) = IF add[m][c].index # None
                                        THEN Join(<<add[m][c], Real(n, c)>>) ELSE add[m][c]
      BY <2>1, <2>3 DEF AddTypedef
    <3>2. m \in Leads(T, n)
      BY <1>3
    <3> HIDE DEF m
    <3>3. QED BY <1>4, <3>1, <3>2 DEF Shape
  <2>4. QED BY <2>2, <2>3
<1>9. QED BY <1>6, <1>7, <1>8

(* The same for a class.                                                   *)
LEMMA RecordShape ==
    ASSUME NEW T, Formed(T), NEW n \in DOMAIN T, T[n].code = "RECORD_TYPE"
    PROVE  Shape(T, n)
<1> DEFINE p == T[n].ptrmemfunc
<1>1. p \in OrNone(NodesOf(T, "POINTER_TYPE"))
  BY DEF Formed, WellFormed, Accessors
<1>2. \A c \in {0, 1} : \A add : Dispatch(T, add, n, c) = AddRecord(T, add, n, c)
  BY DispatchCases
<1>3. CASE p = None
  <2>1. \A c \in {0, 1} : \A add :
           Dispatch(T, add, n, c) = IF T[n].template THEN Nothing ELSE Real(n, c)
    BY <1>2, <1>3, RecordCases
  <2>2. QED BY <2>1 DEF Shape
<1>4. CASE p # None
  <2>1. p \in DOMAIN T /\ p \in Leads(T, n)
    BY <1>1, <1>4 DEF OrNone, NodesOf, Leads
  <2>2. \A c \in {0, 1} : \A add : Dispatch(T, add, n, c) = add[p][c]
    BY <1>2, <1>4, RecordCases
  <2>3. IsVariant(T, p) => IsVariant(T, n)
    <3>1. n \in TypeNodes(T)
      BY DEF TypeNodes, Decl
    <3>2. T[p].main = T[T[n].main].ptrmemfunc
      BY <1>4, <3>1 DEF Formed, WellFormed, VariantsAgree
    <3>3. QED BY <3>2 DEF IsVariant, QualifiableType
  <2> HIDE DEF p
  <2>4. QED BY <2>1, <2>2, <2>3 DEF Shape
<1>5. QED BY <1>3, <1>4

(* The same for a class template.                                          *)
LEMMA TemplateShape ==
    ASSUME NEW T, Formed(T), NEW n \in DOMAIN T, T[n].code = "TEMPLATE_DECL", ~Skipped(T, n)
    PROVE  Shape(T, n)
<1> DEFINE L == Leads(T, n)
           t == T[n].type
           functions == Chosen(T[n].specializations, NodesOf(T, "FUNCTION_DECL"))
           types == Chosen(T[n].instantiations, {s \in NodesOf(T, "RECORD_TYPE") : ~T[s].open})
           names == [i \in DOMAIN types |-> T[types[i]].name]
           memberTemplates(c) ==
              IF c = 1 /\ T[t].code = "RECORD_TYPE"
                THEN Chosen(T[t].fields, NodesOf(T, "TEMPLATE_DECL")) ELSE <<>>
<1>1. /\ t \in TypeNodes(T) /\ T[n].specializations \in Seq(DOMAIN T)
      /\ T[n].instantiations \in Seq({s \in TypeNodes(T) : T[s].name # None})
  BY DEF Formed, WellFormed, Accessors
<1>2. functions \in Seq(L)
  <2>1. Range(functions) \subseteq L /\ functions \in Seq(DOMAIN T)
    <3>1. /\ functions \in Seq(DOMAIN T \cap NodesOf(T, "FUNCTION_DECL"))
          /\ Range(functions) = Range(T[n].specializations) \cap NodesOf(T, "FUNCTION_DECL")
      BY <1>1, ChosenMembers
    <3>2. NodesOf(T, "FUNCTION_DECL") \subseteq DOMAIN T
      BY DEF NodesOf
    <3>3. Range(T[n].specializations) \cap DOMAIN T \subseteq L
      BY DEF Leads
    <3> HIDE DEF functions, L
    <3>4. QED BY <3>1, <3>2, <3>3
  <2>2. QED BY <2>1, InRange
<1>3. names \in Seq(L)
  <2>1. /\ types \in Seq({s \in TypeNodes(T) : T[s].name # None})
        /\ Range(types) \subseteq Range(T[n].instantiations)
    <3> DEFINE S == {s \in TypeNodes(T) : T[s].name # None}
               Closed == {s \in NodesOf(T, "RECORD_TYPE") : ~T[s].open}
    <3>1. T[n].instantiations \in Seq(S)
      BY <1>1
    <3> HIDE DEF S, Closed
    <3>2. /\ Chosen(T[n].instantiations, Closed) \in Seq(S \cap Closed)
          /\ Range(Chosen(T[n].instantiations, Closed)) = Range(T[n].instantiations) \cap Closed
      BY <3>1, ChosenMembers
    <3>3. types \in Seq(S) /\ Range(types) \subseteq Range(T[n].instantiations)
      BY <3>2 DEF Closed
    <3>4. QED BY <3>3 DEF S
  <2> HIDE DEF types
  <2>2. ASSUME NEW i \in DOMAIN types PROVE T[types[i]].name \in L
    <3>1. types[i] \in TypeNodes(T) /\ T[types[i]].name # None /\ types[i] \in Range(T[n].instantiations)
      BY <2>1 DEF Range
    <3>2. T[types[i]].name \in NodesOf(T, "TYPE_DECL")
      BY <3>1 DEF Formed, WellFormed, Accessors, OrNone, TypeNodes
    <3>3. QED BY <3>1, <3>2 DEF Leads, NodesOf
  <2>3. names \in [1 .. Len(types) -> L] /\ Len(types) \in Nat
    <3>1. DOMAIN types = 1 .. Len(types) /\ Len(types) \in Nat
      BY <2>1
    <3> HIDE DEF L
    <3>2. QED BY <2>2, <3>1
  <2> HIDE DEF names, L
  <2>4. QED BY <2>3, IsSequence
<1>4. ASSUME NEW c \in {0, 1} PROVE memberTemplates(c) \in Seq(L)
  <2>1. CASE c = 1 /\ T[t].code = "RECORD_TYPE"
    <3> DEFINE fields == Chosen(T[t].fields, NodesOf(T, "TEMPLATE_DECL"))
    <3>1. T[t].fields \in Seq(DeclNodes(T))
      BY <1>1, <2>1 DEF Formed, WellFormed, Accessors, TypeNodes
    <3>2. /\ fields \in Seq(DeclNodes(T) \cap NodesOf(T, "TEMPLATE_DECL"))
          /\ Range(fields) = Range(T[t].fields) \cap NodesOf(T, "TEMPLATE_DECL")
      BY <3>1, ChosenMembers
    <3>3. Range(T[t].fields) \cap NodesOf(T, "TEMPLATE_DECL") \subseteq L
      BY <2>1 DEF Leads, NodesOf
    <3> HIDE DEF fields, L
    <3>4. fields \in Seq(L)
      BY <3>2, <3>3, InRange
    <3>5. QED BY <2>1, <3>4 DEF fields
  <2>2. CASE ~(c = 1 /\ T[t].code = "RECORD_TYPE")
    BY <2>2
  <2>3. QED BY <2>1, <2>2
<1>5. ASSUME NEW c \in {0, 1}
      PROVE  \E ns \in Seq(L) : \A add : Dispatch(T, add, n, c) = AddAll(add, ns, c)
  <2> DEFINE ns == functions \o names \o memberTemplates(c)
  <2>1. \A add : Dispatch(T, add, n, c) = AddTemplateDecl(T, add, n, c)
    BY DispatchCases
  <2>2. \A add : AddTemplateDecl(T, add, n, c) = AddAll(add, ns, c)
    BY Zenon DEF AddTemplateDecl
  <2>3. ns \in Seq(L)
    <3> HIDE DEF functions, names, memberTemplates, L
    <3>1. QED BY <1>2, <1>3, <1>4
  <2> HIDE DEF ns
  <2>4. QED BY <2>1, <2>2, <2>3
<1>6. QED BY <1>5 DEF Shape

(* The same for every kind of node.                                        *)
LEMMA EveryShape ==
    ASSUME NEW T, Formed(T), NEW n \in DOMAIN T
    PROVE  Shape(T, n)
<1>1. CASE Skipped(T, n) \/ T[n].code = "CONST_DECL"
  BY <1>1, DispatchCases DEF Shape
<1>2. CASE ~Skipped(T, n) /\ T[n].code = "TYPE_DECL"
  BY <1>2, TypeDeclShape
<1>3. CASE ~Skipped(T, n) /\ T[n].code = "TEMPLATE_DECL"
  BY <1>3, TemplateShape
<1>4. CASE T[n].code = "RECORD_TYPE"
  BY <1>4, RecordShape
<1>5. CASE T[n].code = "OVERLOAD"
  <2>1. T[n].functions \in Seq(DOMAIN T)
    BY <1>5 DEF Formed, WellFormed, Accessors
  <2>2. T[n].functions \in Seq(Leads(T, n))
    <3>1. Range(T[n].functions) \cap DOMAIN T \subseteq Leads(T, n)
      BY <1>5 DEF Leads
    <3>2. Range(T[n].functions) \subseteq DOMAIN T
      BY <2>1 DEF Range
    <3>3. QED BY <2>1, <3>1, <3>2, InRange
  <2>3. \A c \in {0, 1} : \A add : Dispatch(T, add, n, c) = AddAll(add, T[n].functions, c)
    BY <1>5, DispatchCases
  <2>4. QED BY <2>2, <2>3 DEF Shape
<1>6. CASE ~Skipped(T, n) /\ T[n].code \notin {"CONST_DECL", "TYPE_DECL", "TEMPLATE_DECL",
                                              "OVERLOAD", "RECORD_TYPE"}
  BY <1>6, DispatchCases DEF Shape
<1>7. QED BY <1>1, <1>2, <1>3, <1>4, <1>5, <1>6

(* What xml_add_node yields for the nodes of a tree: requests for nodes, a *)
(* node or index 0, and no reference yet.                                  *)
Requests(D) == [op : {"add"}, node : D, complete : {0, 1}]
Answer(D) == Parts(Requests(D), OrNone(D), {})
Answers(D) == [{0, 1} -> Answer(D)]

(* The two fields of an answer.                                            *)
LEMMA AnswerFields ==
    ASSUME NEW D, NEW a \in Answer(D)
    PROVE  a.ops \in Seq(Requests(D)) /\ a.index \in OrNone(D) /\ a.refs = {}
  BY DEF Answer, Parts

(* To ask for nothing is an answer.                                        *)
LEMMA NothingIsAnAnswer ==
    ASSUME NEW D
    PROVE  Nothing \in Answer(D) /\ Nothing.index = None /\ Nothing.refs = {} /\ Nothing.ops = <<>>
  BY DEF Nothing, Answer, Parts, OrNone

(* To ask for the node itself is an answer.                                *)
LEMMA RealIsAnAnswer ==
    ASSUME NEW D, NEW n \in D, NEW c \in {0, 1}
    PROVE  /\ Real(n, c) \in Answer(D) /\ Real(n, c).index = n /\ Real(n, c).refs = {}
           /\ Range(Real(n, c).ops) = {[op |-> "add", node |-> n, complete |-> c]}
<1> DEFINE o == [op |-> "add", node |-> n, complete |-> c]
<1>1. /\ Real(n, c) = [ops |-> <<o>>, index |-> n, refs |-> {}]
      /\ o \in Requests(D)
  <2>1. Real(n, c) = [ops |-> <<o>>, index |-> n, refs |-> {}]
    <3>1. ASSUME NEW p
          PROVE  [[Nothing EXCEPT !.ops = p] EXCEPT !.index = n]
                    = [ops |-> p, index |-> n, refs |-> {}]
      <4>1. [Nothing EXCEPT !.ops = p] = [ops |-> p, index |-> None, refs |-> {}]
        <5>1. \A q : [[ops |-> q, index |-> None, refs |-> {}] EXCEPT !.ops = p]
                        = [ops |-> p, index |-> None, refs |-> {}]
          OBVIOUS
        <5>2. QED BY <5>1, Zenon DEF Nothing
      <4>2. [[ops |-> p, index |-> None, refs |-> {}] EXCEPT !.index = n]
               = [ops |-> p, index |-> n, refs |-> {}]
        OBVIOUS
      <4>3. QED BY <4>1, <4>2
    <3>2. Real(n, c) = [[Nothing EXCEPT !.ops = <<o>>] EXCEPT !.index = n]
      BY Zenon DEF Real
    <3> HIDE DEF o
    <3>3. QED BY <3>1, <3>2, Zenon
  <2>2. o \in Requests(D)
    BY DEF Requests
  <2>3. QED BY <2>1, <2>2
<1> HIDE DEF o
<1>2. <<o>> \in Seq(Requests(D)) /\ Range(<<o>>) = {o}
  <2> DEFINE s == <<o>>
  <2>1. DOMAIN s = {1} /\ s[1] = o /\ s \in Seq(Requests(D))
    BY <1>1
  <2> HIDE DEF s
  <2>2. Range(s) = {o}
    BY <2>1 DEF Range
  <2>3. QED BY <2>1, <2>2 DEF s
<1>3. QED BY <1>1, <1>2 DEF Answer, Parts, OrNone, o

(* An answer whose index is dropped is one.                                *)
LEMMA NoIndexIsAnAnswer ==
    ASSUME NEW D, NEW a \in Answer(D)
    PROVE  /\ NoIndex(a) \in Answer(D) /\ NoIndex(a).index = None
           /\ NoIndex(a).ops = a.ops /\ NoIndex(a).refs = a.refs
<1>1. NoIndex(a) = [ops |-> a.ops, index |-> None, refs |-> a.refs]
  BY DEF NoIndex, Answer, Parts
<1>2. QED BY <1>1, AnswerFields DEF Answer, Parts, OrNone

(* A sequence of answers, joined, is an answer.                            *)
LEMMA JoinedAnswers ==
    ASSUME NEW D, NEW parts \in Seq(Answer(D))
    PROVE  /\ Join(parts) \in Answer(D)
           /\ Range(Join(parts).ops) = UNION {Range(parts[i].ops) : i \in DOMAIN parts}
           /\ parts # <<>> => Join(parts).index = parts[Len(parts)].index
<1>1. parts \in Seq(Parts(Requests(D), OrNone(D), {})) /\ None \in OrNone(D)
  BY DEF Answer, OrNone
<1>2. Join(parts) \in Parts(Requests(D), OrNone(D), {})
  BY <1>1, JoinParts
<1>3. /\ Range(Join(parts).ops) = UNION {Range(parts[i].ops) : i \in DOMAIN parts}
      /\ parts # <<>> => Join(parts).index = parts[Len(parts)].index
  BY <1>1, JoinParts
<1>4. QED BY <1>2, <1>3 DEF Answer

(* So are two of them.                                                     *)
LEMMA JoinIsAnAnswer ==
    ASSUME NEW D, NEW a \in Answer(D), NEW b \in Answer(D)
    PROVE  /\ Join(<<a, b>>) \in Answer(D) /\ Join(<<a, b>>).index = b.index
           /\ Range(Join(<<a, b>>).ops) = Range(a.ops) \cup Range(b.ops)
           /\ Join(<<a, b>>).refs = {}
<1> DEFINE parts == <<a, b>>
<1>1. /\ parts \in Seq(Answer(D)) /\ DOMAIN parts = {1, 2} /\ Len(parts) = 2
      /\ parts[1] = a /\ parts[2] = b
  OBVIOUS
<1> HIDE DEF parts
<1>2. parts # <<>>
  BY <1>1
<1>3. /\ Join(parts) \in Answer(D) /\ Join(parts).index = b.index
      /\ Range(Join(parts).ops) = UNION {Range(parts[i].ops) : i \in {1, 2}}
  BY <1>1, <1>2, JoinedAnswers
<1>4. Range(Join(parts).ops) = Range(a.ops) \cup Range(b.ops)
  BY <1>1, <1>3
<1>5. QED BY <1>3, <1>4, AnswerFields DEF parts

(* So are the answers for a sequence of nodes.                             *)
LEMMA AddAllIsAnAnswer ==
    ASSUME NEW D, NEW L, NEW add, NEW ns \in Seq(L), NEW c \in {0, 1},
           \A m \in L : add[m][c] \in Answer(D)
    PROVE  /\ AddAll(add, ns, c) \in Answer(D) /\ AddAll(add, ns, c).index = None
           /\ \A o \in Range(AddAll(add, ns, c).ops) :
                 \E m \in Range(ns) : o \in Range(add[m][c].ops)
<1> DEFINE parts == [i \in DOMAIN ns |-> add[ns[i]][c]]
<1>1. parts \in Seq(Answer(D)) /\ DOMAIN parts = DOMAIN ns
  <2>1. parts \in [1 .. Len(ns) -> Answer(D)] /\ Len(ns) \in Nat
    OBVIOUS
  <2> HIDE DEF parts
  <2>2. QED BY <2>1, IsSequence
<1>2. AddAll(add, ns, c) = NoIndex(Join(parts))
  BY DEF AddAll
<1>3. \A i \in DOMAIN parts : \E m \in Range(ns) : parts[i] = add[m][c]
  BY DEF Range
<1> HIDE DEF parts
<1>4. /\ Join(parts) \in Answer(D)
      /\ Range(Join(parts).ops) = UNION {Range(parts[i].ops) : i \in DOMAIN parts}
  BY <1>1, JoinedAnswers
<1>5. \A o \in Range(Join(parts).ops) : \E m \in Range(ns) : o \in Range(add[m][c].ops)
  BY <1>3, <1>4
<1>6. NoIndex(Join(parts)) \in Answer(D) /\ NoIndex(Join(parts)).index = None
      /\ NoIndex(Join(parts)).ops = Join(parts).ops
  BY <1>4, NoIndexIsAnAnswer
<1>7. QED BY <1>2, <1>5, <1>6

(* xml_add_node gives an answer if the calls it makes give answers.        *)
LEMMA DispatchAnswers ==
    ASSUME NEW T, Formed(T), NEW n \in DOMAIN T, NEW add, NEW c \in {0, 1},
           \A m \in Leads(T, n) : add[m] \in Answers(DOMAIN T)
    PROVE  Dispatch(T, add, n, c) \in Answer(DOMAIN T)
<1> DEFINE D == DOMAIN T
           L == Leads(T, n)
<1>1. \A m \in L : add[m][c] \in Answer(D)
  BY DEF Answers
<1>2. Shape(T, n)
  BY EveryShape
<1>3. Nothing \in Answer(D) /\ Real(n, c) \in Answer(D)
  BY NothingIsAnAnswer, RealIsAnAnswer
<1>4. \A m \in L : NoIndex(add[m][c]) \in Answer(D) /\ Join(<<add[m][c], Real(n, c)>>) \in Answer(D)
  BY <1>1, <1>3, NoIndexIsAnAnswer, JoinIsAnAnswer
<1>5. \A ns \in Seq(L) : AddAll(add, ns, c) \in Answer(D)
  BY <1>1, AddAllIsAnAnswer
<1> HIDE DEF D
<1>6. QED BY <1>1, <1>2, <1>3, <1>4, <1>5 DEF Shape, D

(* xml_add_node depends on the nodes that it leads to only.                *)
LEMMA DispatchIsLocal ==
    ASSUME NEW T, Formed(T), NEW n \in DOMAIN T, NEW f, NEW g, NEW c \in {0, 1},
           \A m \in Leads(T, n) : f[m] = g[m]
    PROVE  Dispatch(T, f, n, c) = Dispatch(T, g, n, c)
<1> DEFINE L == Leads(T, n)
<1>1. Shape(T, n)
  BY EveryShape
<1>2. ASSUME NEW ns \in Seq(L) PROVE AddAll(f, ns, c) = AddAll(g, ns, c)
  <2>1. [i \in DOMAIN ns |-> f[ns[i]][c]] = [i \in DOMAIN ns |-> g[ns[i]][c]]
    OBVIOUS
  <2>2. QED BY <2>1 DEF AddAll
<1> HIDE DEF L
<1>3. CASE \E ns \in Seq(L) : \A add : Dispatch(T, add, n, c) = AddAll(add, ns, c)
  BY <1>2, <1>3
<1>4. CASE \E m \in L : \A add : Dispatch(T, add, n, c) = NoIndex(add[m][c])
  BY <1>4 DEF L
<1>5. CASE \E m \in L : \A add :
             Dispatch(T, add, n, c) = IF add[m][c].index # None
                                        THEN Join(<<add[m][c], Real(n, c)>>) ELSE add[m][c]
  BY <1>5 DEF L
<1>6. CASE \E m \in L : \A add : Dispatch(T, add, n, c) = add[m][c]
  BY <1>6 DEF L
<1>7. CASE \/ \A add : Dispatch(T, add, n, c) = Nothing
           \/ \A add : Dispatch(T, add, n, c) = Real(n, c)
  BY <1>7
<1>8. QED BY <1>1, <1>3, <1>4, <1>5, <1>6, <1>7, Zenon DEF Shape, L

(* The recursion of xml_add_node ends, for every node.                     *)
LEMMA AddNodeShape ==
    ASSUME NEW T, Formed(T)
    PROVE  \A n \in DOMAIN T :
              XmlAddNode(T)[n] = [c \in {0, 1} |-> Dispatch(T, XmlAddNode(T), n, c)]
<1> DEFINE D == DOMAIN T
           V == Answers(D)
           Def(add) == [n \in DOMAIN T |-> [c \in {0, 1} |-> Dispatch(T, add, n, c)]]
           step == [n \in D |-> [f \in [D -> V] |-> [c \in {0, 1} |-> Dispatch(T, f, n, c)]]]
           next == [n \in D |-> Leads(T, n)]
<1>1. Grounded(D, next)
  BY DEF Formed, WellFormed, RecursionEnds
<1>2. PICK last, level : Rounds(D, next, last, level)
  <2> HIDE DEF next
  <2>1. QED BY <1>1, GroundedRounds DEF Formed
<1>3. \A n \in D : Leads(T, n) \subseteq D
  BY DEF Leads
<1>4. step \in [D -> [[D -> V] -> V]]
  <2>1. ASSUME NEW n \in D, NEW f \in [D -> V]
        PROVE  [c \in {0, 1} |-> Dispatch(T, f, n, c)] \in V
    <3>1. \A m \in Leads(T, n) : f[m] \in Answers(D)
      BY <1>3
    <3>2. \A c \in {0, 1} : Dispatch(T, f, n, c) \in Answer(D)
      BY <3>1, DispatchAnswers
    <3>3. QED BY <3>2 DEF Answers
  <2> HIDE DEF V
  <2>2. QED BY <2>1
<1>5. Local(D, V, next, step)
  <2> SUFFICES ASSUME NEW n \in D, NEW f \in [D -> V], NEW g \in [D -> V],
                      \A m \in next[n] \cap D : f[m] = g[m]
               PROVE  step[n][f] = step[n][g]
    BY DEF Local
  <2>1. \A m \in Leads(T, n) : f[m] = g[m]
    BY <1>3
  <2>2. \A c \in {0, 1} : Dispatch(T, f, n, c) = Dispatch(T, g, n, c)
    BY <2>1, DispatchIsLocal
  <2> HIDE DEF V
  <2>3. QED BY <2>2
<1>6. V # {}
  <2>1. [c \in {0, 1} |-> Nothing] \in V
    BY NothingIsAnAnswer DEF Answers
  <2>2. QED BY <2>1
<1>7. PICK f : f = Def(f)
  <2>1. \E f : Solves(D, V, step, f)
    <3> HIDE DEF D, V, step, next
    <3>1. QED BY <1>2, <1>4, <1>5, <1>6, RecursionIsSolved
  <2>2. PICK f : Solves(D, V, step, f)
    BY <2>1
  <2>3. f \in [D -> V] /\ \A n \in D : f[n] = step[n][f]
    BY <2>2 DEF Solves
  <2>4. \A n \in D : f[n] = [c \in {0, 1} |-> Dispatch(T, f, n, c)]
    <3> HIDE DEF V
    <3>1. QED BY <2>3
  <2>5. f = Def(f)
    BY <2>3, <2>4
  <2>6. QED BY <2>5
<1>8. XmlAddNode(T) = CHOOSE add : add = Def(add)
  BY DEF XmlAddNode
<1>9. XmlAddNode(T) = Def(XmlAddNode(T))
  <2> HIDE DEF Def
  <2>1. QED BY <1>7, <1>8, Zenon
<1> DEFINE A == XmlAddNode(T)
<1> HIDE DEF A
<1>10. A = Def(A)
  BY <1>9 DEF A
<1>11. \A n \in D : A[n] = [c \in {0, 1} |-> Dispatch(T, A, n, c)]
  BY <1>10
<1>12. QED BY <1>11 DEF A

(* XmlAddNode is what its definition says, for every node.                 *)
LEMMA AddNodeRecurs ==
    ASSUME NEW T, Formed(T)
    PROVE  \A n \in DOMAIN T : \A c \in {0, 1} :
              XmlAddNode(T)[n][c] = Dispatch(T, XmlAddNode(T), n, c)
<1> DEFINE A == XmlAddNode(T)
<1>1. \A n \in DOMAIN T : A[n] = [c \in {0, 1} |-> Dispatch(T, A, n, c)]
  BY AddNodeShape
<1> HIDE DEF A
<1>2. \A n \in DOMAIN T : \A c \in {0, 1} : A[n][c] = Dispatch(T, A, n, c)
  <2> SUFFICES ASSUME NEW n \in DOMAIN T PROVE \A c \in {0, 1} : A[n][c] = Dispatch(T, A, n, c)
    OBVIOUS
  <2>1. A[n] = [c \in {0, 1} |-> Dispatch(T, A, n, c)]
    BY <1>1
  <2>2. QED BY <2>1
<1>3. QED BY <1>2 DEF A

(* The index a node has is that of a node that is asked for, does not      *)
(* depend on completeness, and nodes that are asked for have their own.    *)
IsOwn(A, m) == A[m][0].index = m /\ A[m][1].index = m
Asked(part) == {o.node : o \in {q \in Range(part.ops) : q.op = "add"}}
Sound(T, A, n) ==
    /\ A[n] \in Answers(DOMAIN T)
    /\ A[n][0].index = A[n][1].index
    /\ \A c \in {0, 1} : /\ \A m \in Asked(A[n][c]) : IsOwn(A, m)
                         /\ A[n][c].index \in OrNone(Asked(A[n][c]))
    /\ A[n][0].index # None /\ IsVariant(T, A[n][0].index) => IsVariant(T, n)

(* The nodes that an answer asks for.                                      *)
LEMMA AskedNodes ==
    ASSUME NEW n, NEW c \in {0, 1}
    PROVE  Asked(Nothing) = {} /\ Asked(Real(n, c)) = {n}
<1>1. Asked(Nothing) = {}
  BY NothingIsAnAnswer DEF Asked, Range
<1>2. Range(Real(n, c).ops) = {[op |-> "add", node |-> n, complete |-> c]}
  <2>1. n \in {n}
    OBVIOUS
  <2>2. QED BY <2>1, RealIsAnAnswer
<1>3. Asked(Real(n, c)) = {n}
  <2> DEFINE o == [op |-> "add", node |-> n, complete |-> c]
  <2>1. Range(Real(n, c).ops) = {o} /\ o.op = "add" /\ o.node = n
    BY <1>2
  <2> HIDE DEF o
  <2>2. QED BY <2>1 DEF Asked
<1>4. QED BY <1>1, <1>3

(* Two answers together ask for what each of them asks for.                *)
LEMMA AskedTogether ==
    ASSUME NEW p, NEW q, NEW s, Range(p.ops) = Range(q.ops) \cup Range(s.ops)
    PROVE  Asked(p) = Asked(q) \cup Asked(s)
  BY DEF Asked

(* A node is sound if those it leads to are.                               *)
LEMMA SoundStep ==
    ASSUME NEW T, Formed(T), NEW n \in DOMAIN T, NEW A,
           \A c \in {0, 1} : A[n][c] = Dispatch(T, A, n, c),
           A[n] \in [{0, 1} -> Answer(DOMAIN T)],
           \A m \in Leads(T, n) : Sound(T, A, m)
    PROVE  Sound(T, A, n)
<1> DEFINE D == DOMAIN T
           L == Leads(T, n)
           Own(part) == \A m \in Asked(part) : IsOwn(A, m)
           Named(part) == part.index \in OrNone(Asked(part))
<1>0. /\ \A m \in L : \A c \in {0, 1} : A[m][c] \in Answer(D)
      /\ \A m \in L : A[m][0].index = A[m][1].index
      /\ \A m \in L : \A c \in {0, 1} : Own(A[m][c]) /\ Named(A[m][c])
      /\ \A m \in L : A[m][0].index # None /\ IsVariant(T, A[m][0].index) => IsVariant(T, m)
      /\ \A c \in {0, 1} : Real(n, c) \in Answer(D)
  BY RealIsAnAnswer DEF Sound, Answers
<1>1. SUFFICES /\ A[n][0].index = A[n][1].index
               /\ \A c \in {0, 1} : Own(A[n][c]) /\ Named(A[n][c])
               /\ A[n][0].index # None /\ IsVariant(T, A[n][0].index) => IsVariant(T, n)
  BY DEF Sound, Answers
<1>2. CASE \A c \in {0, 1} : A[n][c] = Nothing
  <2>1. Asked(Nothing) = {} /\ Nothing.index = None
    BY AskedNodes, NothingIsAnAnswer
  <2>2. QED BY <1>2, <2>1 DEF OrNone
<1>3. CASE \A c \in {0, 1} : A[n][c] = Real(n, c)
  <2>1. \A c \in {0, 1} : Asked(Real(n, c)) = {n} /\ Real(n, c).index = n
    <3>1. ASSUME NEW c \in {0, 1} PROVE Asked(Real(n, c)) = {n} /\ Real(n, c).index = n
      <4>1. Real(n, c).index = n
        BY RealIsAnAnswer
      <4>2. QED BY <4>1, AskedNodes
    <3>2. QED BY <3>1
  <2>2. \A c \in {0, 1} : A[n][c].index = n /\ Asked(A[n][c]) = {n}
    BY <1>3, <2>1
  <2>3. IsOwn(A, n)
    BY <2>2 DEF IsOwn
  <2>4. QED BY <2>2, <2>3 DEF OrNone
<1>4. ASSUME NEW m \in L, IsVariant(T, m) => IsVariant(T, n), \A c \in {0, 1} : A[n][c] = A[m][c]
      PROVE  /\ A[n][0].index = A[n][1].index
             /\ \A c \in {0, 1} : Own(A[n][c]) /\ Named(A[n][c])
             /\ A[n][0].index # None /\ IsVariant(T, A[n][0].index) => IsVariant(T, n)
  <2> HIDE DEF Own, Named, L
  <2>1. QED BY <1>0, <1>4
<1>5. ASSUME NEW m \in L, \A c \in {0, 1} : A[n][c] = NoIndex(A[m][c])
      PROVE  /\ \A c \in {0, 1} : A[n][c].index = None /\ Own(A[n][c])
  <2>1. \A c \in {0, 1} : A[n][c].index = None /\ A[n][c].ops = A[m][c].ops
    BY <1>0, <1>5, NoIndexIsAnAnswer
  <2>2. \A c \in {0, 1} : Asked(A[n][c]) = Asked(A[m][c])
    BY <2>1 DEF Asked
  <2>3. QED BY <1>0, <2>1, <2>2
<1>6. ASSUME ~IsVariant(T, n), NEW m \in L,
             \A c \in {0, 1} : A[n][c] = IF A[m][c].index # None
                                           THEN Join(<<A[m][c], Real(n, c)>>) ELSE A[m][c]
      PROVE  /\ A[n][0].index = A[n][1].index
             /\ \A c \in {0, 1} : Own(A[n][c]) /\ Named(A[n][c])
             /\ A[n][0].index # None /\ IsVariant(T, A[n][0].index) => IsVariant(T, n)
  <2>1. CASE A[m][0].index = None
    <3>1. \A c \in {0, 1} : A[n][c] = A[m][c]
      BY <1>0, <1>6, <2>1
    <3> HIDE DEF Own, Named, L
    <3>2. QED BY <1>0, <2>1, <3>1
  <2>2. CASE A[m][0].index # None
    <3>1. \A c \in {0, 1} : A[n][c] = Join(<<A[m][c], Real(n, c)>>)
      BY <1>0, <1>6, <2>2
    <3>2. \A c \in {0, 1} : /\ A[n][c].index = n
                            /\ Range(A[n][c].ops) = Range(A[m][c].ops) \cup Range(Real(n, c).ops)
      <4> SUFFICES ASSUME NEW c \in {0, 1}
                   PROVE  /\ A[n][c].index = n
                          /\ Range(A[n][c].ops) = Range(A[m][c].ops) \cup Range(Real(n, c).ops)
        OBVIOUS
      <4> DEFINE a == A[m][c]
                 b == Real(n, c)
      <4>1. a \in Answer(D) /\ b \in Answer(D) /\ b.index = n
        BY <1>0, RealIsAnAnswer
      <4>2. A[n][c] = Join(<<a, b>>)
        BY <3>1
      <4> HIDE DEF a, b
      <4>3. A[n][c].index = n /\ Range(A[n][c].ops) = Range(a.ops) \cup Range(b.ops)
        BY <4>1, <4>2, JoinIsAnAnswer
      <4>4. QED BY <4>3 DEF a, b
    <3>3. \A c \in {0, 1} : Asked(A[n][c]) = Asked(A[m][c]) \cup {n}
      <4> SUFFICES ASSUME NEW c \in {0, 1} PROVE Asked(A[n][c]) = Asked(A[m][c]) \cup {n}
        OBVIOUS
      <4>1. Range(A[n][c].ops) = Range(A[m][c].ops) \cup Range(Real(n, c).ops)
        BY <3>2
      <4>2. Asked(A[n][c]) = Asked(A[m][c]) \cup Asked(Real(n, c))
        BY <4>1, AskedTogether
      <4>3. Asked(Real(n, c)) = {n}
        BY AskedNodes
      <4>4. QED BY <4>2, <4>3
    <3>4. IsOwn(A, n)
      BY <3>2 DEF IsOwn
    <3>5. QED BY <1>0, <1>6, <3>2, <3>3, <3>4 DEF OrNone
  <2>3. QED BY <2>1, <2>2
<1>7. ASSUME \A c \in {0, 1} : \E ns \in Seq(L) : A[n][c] = AddAll(A, ns, c)
      PROVE  \A c \in {0, 1} : A[n][c].index = None /\ Own(A[n][c])
  <2> SUFFICES ASSUME NEW c \in {0, 1} PROVE A[n][c].index = None /\ Own(A[n][c])
    OBVIOUS
  <2>1. PICK ns \in Seq(L) : A[n][c] = AddAll(A, ns, c)
    BY <1>7
  <2>2. /\ A[n][c].index = None
        /\ \A o \in Range(A[n][c].ops) : \E m \in Range(ns) : o \in Range(A[m][c].ops)
    <3>1. \A m \in L : A[m][c] \in Answer(D)
      BY <1>0
    <3>2. ns \in Seq(L)
      BY <2>1
    <3>4. /\ AddAll(A, ns, c) \in Answer(D) /\ AddAll(A, ns, c).index = None
          /\ \A o \in Range(AddAll(A, ns, c).ops) :
                \E m \in Range(ns) : o \in Range(A[m][c].ops)
      <4> HIDE DEF D, L, Own, Named
      <4>1. AddAll(A, ns, c) \in Answer(D)
        BY <3>1, <3>2, AddAllIsAnAnswer
      <4>2. AddAll(A, ns, c).index = None
        BY DEF AddAll, NoIndex, Join
      <4>3. \A o \in Range(AddAll(A, ns, c).ops) :
                \E m \in Range(ns) : o \in Range(A[m][c].ops)
        BY <3>1, <3>2, AddAllIsAnAnswer
      <4>4. QED BY <4>1, <4>2, <4>3
    <3>5. QED BY <2>1, <3>4
  <2>3. \A k \in Asked(A[n][c]) : \E m \in L : k \in Asked(A[m][c])
    <3>1. Range(ns) \subseteq L
      BY DEF Range
    <3> HIDE DEF L
    <3>2. QED BY <2>2, <3>1 DEF Asked
  <2>4. QED BY <1>0, <2>2, <2>3
<1>8. Shape(T, n)
  BY EveryShape
<1>9. (\A c \in {0, 1} : A[n][c].index = None /\ Own(A[n][c]))
         => /\ A[n][0].index = A[n][1].index
            /\ \A c \in {0, 1} : Own(A[n][c]) /\ Named(A[n][c])
            /\ A[n][0].index # None /\ IsVariant(T, A[n][0].index) => IsVariant(T, n)
  BY DEF OrNone
<1> HIDE DEF Own, Named, D
<1>10. \/ \A c \in {0, 1} : A[n][c] = Nothing
       \/ \A c \in {0, 1} : A[n][c] = Real(n, c)
       \/ \E m \in L : /\ IsVariant(T, m) => IsVariant(T, n)
                       /\ \A c \in {0, 1} : A[n][c] = A[m][c]
       \/ \E m \in L : \A c \in {0, 1} : A[n][c] = NoIndex(A[m][c])
       \/ /\ ~IsVariant(T, n)
          /\ \E m \in L : \A c \in {0, 1} :
                A[n][c] = IF A[m][c].index # None
                            THEN Join(<<A[m][c], Real(n, c)>>) ELSE A[m][c]
       \/ \A c \in {0, 1} : \E ns \in Seq(L) : A[n][c] = AddAll(A, ns, c)
  <2>1. \A c \in {0, 1} : A[n][c] = Dispatch(T, A, n, c)
    OBVIOUS
  <2> HIDE DEF L
  <2>2. CASE \A c \in {0, 1} : \A add : Dispatch(T, add, n, c) = Nothing
    BY <2>1, <2>2
  <2>3. CASE \A c \in {0, 1} : \A add : Dispatch(T, add, n, c) = Real(n, c)
    BY <2>1, <2>3
  <2>4. ASSUME \E m \in L : /\ IsVariant(T, m) => IsVariant(T, n)
                           /\ \A c \in {0, 1} : \A add : Dispatch(T, add, n, c) = add[m][c]
        PROVE  \E m \in L : /\ IsVariant(T, m) => IsVariant(T, n)
                           /\ \A c \in {0, 1} : A[n][c] = A[m][c]
    BY <2>1, <2>4
  <2>5. ASSUME \E m \in L : \A c \in {0, 1} : \A add : Dispatch(T, add, n, c) = NoIndex(add[m][c])
        PROVE  \E m \in L : \A c \in {0, 1} : A[n][c] = NoIndex(A[m][c])
    BY <2>1, <2>5
  <2>6. ASSUME \E m \in L : \A c \in {0, 1} : \A add :
                  Dispatch(T, add, n, c) = IF add[m][c].index # None
                                             THEN Join(<<add[m][c], Real(n, c)>>) ELSE add[m][c]
        PROVE  \E m \in L : \A c \in {0, 1} :
                  A[n][c] = IF A[m][c].index # None
                              THEN Join(<<A[m][c], Real(n, c)>>) ELSE A[m][c]
    BY <2>1, <2>6
  <2>7. ASSUME \A c \in {0, 1} : \E ns \in Seq(L) : \A add : Dispatch(T, add, n, c) = AddAll(add, ns, c)
        PROVE  \A c \in {0, 1} : \E ns \in Seq(L) : A[n][c] = AddAll(A, ns, c)
    BY <2>1, <2>7
  <2>8. QED BY <1>8, <2>2, <2>3, <2>4, <2>5, <2>6, <2>7, Zenon DEF Shape, L
<1> HIDE DEF L
<1>11. QED BY <1>2, <1>3, <1>4, <1>5, <1>6, <1>7, <1>9, <1>10

(* Every node is sound.                                                    *)
LEMMA AddNodeIsSound ==
    ASSUME NEW T, Formed(T)
    PROVE  \A n \in DOMAIN T : Sound(T, XmlAddNode(T), n)
<1> DEFINE D == DOMAIN T
           A == XmlAddNode(T)
           next == [n \in D |-> Leads(T, n)]
           X == {n \in D : ~Sound(T, A, n)}
<1>1. \A n \in D : \A c \in {0, 1} : A[n][c] = Dispatch(T, A, n, c)
  BY AddNodeRecurs
<1>2. \A n \in D : A[n] = [c \in {0, 1} |-> Dispatch(T, A, n, c)]
  BY AddNodeShape
<1>3. PICK last, level : Rounds(D, next, last, level)
  <2>1. Grounded(D, next) /\ IsFiniteSet(D)
    BY DEF Formed, WellFormed, RecursionEnds
  <2> HIDE DEF next, D
  <2>2. QED BY <2>1, GroundedRounds
<1>4. ASSUME NEW n \in X PROVE next[n] \cap X # {}
  <2> SUFFICES ASSUME next[n] \cap X = {} PROVE FALSE
    OBVIOUS
  <2>1. Leads(T, n) \subseteq D
    BY DEF Leads
  <2>2. \A m \in Leads(T, n) : Sound(T, A, m)
    BY <2>1
  <2>3. \A m \in Leads(T, n) : A[m] \in Answers(D)
    BY <2>2 DEF Sound
  <2> HIDE DEF A
  <2>4. \A c \in {0, 1} : Dispatch(T, A, n, c) \in Answer(D)
    BY <2>3, DispatchAnswers
  <2>5. A[n] \in [{0, 1} -> Answer(D)]
    BY <1>2, <2>4
  <2>6. Sound(T, A, n)
    BY <1>1, <2>2, <2>5, SoundStep
  <2>7. QED BY <2>6
<1>5. X = {}
  <2> HIDE DEF next
  <2>1. X \in SUBSET D
    OBVIOUS
  <2> HIDE DEF D, X
  <2>2. QED BY <1>3, <1>4, <2>1, RoundsAreWellFounded
<1>6. QED BY <1>5

-----------------------------------------------------------------------------
(* The ids of types.                                                       *)

(* A type asks for itself, a pointer to a member function for its pointer. *)
LEMMA TypeAnswers ==
    ASSUME NEW T, Formed(T), NEW t \in TypeNodes(T), NEW c \in {0, 1}
    PROVE  LET A == XmlAddNode(T)
               p == T[t].ptrmemfunc
           IN /\ T[t].code = "RECORD_TYPE" /\ p # None =>
                    A[t][c] = Real(p, c) /\ p \in NodesOf(T, "POINTER_TYPE")
              /\ T[t].code = "RECORD_TYPE" /\ p = None /\ T[t].template => A[t][c] = Nothing
              /\ T[t].code # "RECORD_TYPE" \/ (p = None /\ ~T[t].template) => A[t][c] = Real(t, c)
<1> DEFINE A == XmlAddNode(T)
           p == T[t].ptrmemfunc
<1>1. \A n \in DOMAIN T : A[n][c] = Dispatch(T, A, n, c)
  BY AddNodeRecurs
<1>2. ASSUME NEW n \in TypeNodes(T), T[n].code # "RECORD_TYPE" PROVE A[n][c] = Real(n, c)
  <2>1. n \in DOMAIN T /\ T[n].code \notin Decl \cup {"OVERLOAD"}
    BY DEF TypeNodes
  <2>2. ~Skipped(T, n)
    BY <2>1 DEF Skipped, Decl
  <2>3. Dispatch(T, A, n, c) = Real(n, c)
    BY <1>2, <2>1, <2>2, DispatchCases DEF Decl
  <2>4. QED BY <1>1, <2>1, <2>3
<1>3. CASE T[t].code = "RECORD_TYPE"
  <2>1. t \in DOMAIN T
    BY DEF TypeNodes
  <2>2. A[t][c] = AddRecord(T, A, t, c)
    BY <1>1, <1>3, <2>1, DispatchCases
  <2>3. p \in OrNone(NodesOf(T, "POINTER_TYPE"))
    BY <1>3, <2>1 DEF Formed, WellFormed, Accessors
  <2>4. CASE p # None
    <3>1. p \in NodesOf(T, "POINTER_TYPE") /\ p \in TypeNodes(T) /\ T[p].code # "RECORD_TYPE"
      BY <2>3, <2>4 DEF OrNone, NodesOf, TypeNodes, Decl
    <3>2. A[t][c] = A[p][c]
      BY <2>2, <2>4, RecordCases
    <3>3. QED BY <1>2, <1>3, <2>4, <3>1, <3>2
  <2>5. CASE p = None
    BY <1>3, <2>2, <2>5, RecordCases
  <2>6. QED BY <2>4, <2>5
<1>4. QED BY <1>2, <1>3

(* The index of a typedef is its own, or that of the class it declares.    *)
LEMMA TypedefAnswers ==
    ASSUME NEW T, Formed(T), NEW td \in NodesOf(T, "TYPE_DECL")
    PROVE  LET i == XmlAddNode(T)[td][0].index
           IN i \in {None, td} \/ (i = T[td].type /\ T[i].main = i)
<1> DEFINE A == XmlAddNode(T)
           t == T[td].type
<1>1. td \in DOMAIN T /\ T[td].code = "TYPE_DECL" /\ t \in TypeNodes(T)
  BY DEF NodesOf, Formed, WellFormed, Accessors
<1>2. A[td][0] = Dispatch(T, A, td, 0)
  BY <1>1, AddNodeRecurs
<1>3. CASE Skipped(T, td)
  BY <1>2, <1>3, DispatchCases, NothingIsAnAnswer
<1>4. CASE ~Skipped(T, td)
  <2>1. A[td][0] = AddTypeDecl(T, A, td, 0)
    BY <1>1, <1>2, <1>4, DispatchCases
  <2>2. Real(td, 0).index = td
    BY <1>1, RealIsAnAnswer
  <2>3. CASE DeclaresClass(T, td)
    <3>1. A[td][0] = A[t][0]
      BY <2>1, <2>3, TypeDeclCases
    <3>2. T[t].main = t
      BY <2>3 DEF Formed, WellFormed, ClassesAreMain, DeclaresClass
    <3>3. A[t][0] = Nothing \/ A[t][0] = Real(t, 0)
      BY <1>1, <2>3, TypeAnswers DEF DeclaresClass
    <3>4. A[t][0].index \in {None, t}
      BY <1>1, <3>3, NothingIsAnAnswer, RealIsAnAnswer
    <3>5. QED BY <3>1, <3>2, <3>4
  <2>4. CASE T[t].code \notin PredefinedType \cup TaggedType
    BY <2>1, <2>2, <2>4, TypeDeclCases
  <2>5. CASE ~DeclaresClass(T, td) /\ T[t].code \in PredefinedType \cup TaggedType
    <3>1. A[td][0] = AddTypedef(T, A, td, 0)
      BY <2>1, <2>5, TypeDeclCases
    <3>2. \A n \in DOMAIN T : A[n][0] \in Answer(DOMAIN T)
      BY AddNodeIsSound DEF Sound, Answers
    <3>3. CASE NamesItself(T, td)
      <4>1. t \in DOMAIN T /\ A[td][0] = NoIndex(A[t][0])
        BY <1>1, <3>1, <3>3 DEF AddTypedef, TypeNodes
      <4>2. A[td][0].index = None
        BY <3>2, <4>1, NoIndexIsAnAnswer
      <4>3. QED BY <4>2
    <3>4. CASE ~NamesItself(T, td)
      <4> DEFINE m == TypedefTarget(T, td)
                 a == A[m][0]
                 b == Real(td, 0)
      <4>1. A[td][0] = IF a.index # None THEN Join(<<a, b>>) ELSE a
        BY <3>1, <3>4 DEF AddTypedef
      <4>2. m \in DOMAIN T
        <5>1. T[td].original \in OrNone(TypeNodes(T))
          BY <1>1 DEF Formed, WellFormed, Accessors
        <5>2. \A s \in TypeNodes(T) : s \in DOMAIN T /\ T[s].main \in TypeNodes(T)
          BY DEF Formed, WellFormed, Accessors, TypeNodes
        <5>3. QED BY <1>1, <5>1, <5>2 DEF TypedefTarget, OrNone
      <4>3. a \in Answer(DOMAIN T) /\ b \in Answer(DOMAIN T)
        BY <1>1, <3>2, <4>2, RealIsAnAnswer
      <4> HIDE DEF a, b
      <4>4. Join(<<a, b>>).index = b.index
        BY <4>3, JoinIsAnAnswer
      <4>5. A[td][0].index \in {None, td}
        BY <2>2, <4>1, <4>4 DEF b
      <4>6. QED BY <4>5
    <3>5. QED BY <3>3, <3>4
  <2>6. QED BY <2>3, <2>4, <2>5
<1>5. QED BY <1>3, <1>4

(* The id that xml_get_idref prints for a type.                            *)
IdOf(T, A, t) ==
    IF T[t].name # None /\ A[T[t].name][0].index # None
      THEN Id(A[T[t].name][0].index, T[t].quals \ T[T[T[t].name].type].quals)
      ELSE Id(A[T[t].main][0].index, T[t].quals)

(* A type attribute by the kind of the type.                               *)
LEMMA IdrefParts ==
    ASSUME NEW T, Formed(T), NEW t \in TypeNodes(T), NEW c \in {0, 1}
    PROVE  LET A == XmlAddNode(T)
               idref == GetIdref(T, A, t, c)
           IN /\ idref.ops \in Seq(Requests(DOMAIN T)) /\ idref.index \in OrNone(DOMAIN T)
              /\ idref = [ops |-> idref.ops, index |-> idref.index, refs |-> {IdOf(T, A, t)}]
              /\ Asked(A[T[t].main][c]) \subseteq Asked(idref)
              /\ T[t].name # None => Asked(A[T[t].name][c]) \subseteq Asked(idref)
              /\ \A m \in Asked(idref) : IsOwn(A, m)
<1> DEFINE D == DOMAIN T
           A == XmlAddNode(T)
           a == A[T[t].main][c]
           b == IF T[t].name = None THEN Nothing ELSE A[T[t].name][c]
           idref == GetIdref(T, A, t, c)
<1>1. /\ T[t].main \in D
      /\ T[t].name # None => T[t].name \in D
  BY DEF Formed, WellFormed, Accessors, TypeNodes, OrNone, NodesOf
<1>2. \A n \in D : /\ A[n][c] \in Answer(D) /\ A[n][c].index = A[n][0].index
                   /\ \A m \in Asked(A[n][c]) : IsOwn(A, m)
  BY AddNodeIsSound DEF Sound, Answers
<1>3. Nothing \in Answer(D) /\ Nothing.index = None /\ Asked(Nothing) = {}
  <2>1. Nothing.ops = <<>>
    BY NothingIsAnAnswer
  <2>2. Asked(Nothing) = {}
    BY <2>1 DEF Asked, Range
  <2>3. QED BY <2>2, NothingIsAnAnswer
<1>4. a \in Answer(D) /\ b \in Answer(D)
  BY <1>1, <1>2, <1>3
<1>5. b.index = IF T[t].name = None THEN None ELSE A[T[t].name][0].index
  BY <1>1, <1>2, <1>3
<1>6. a.index = A[T[t].main][0].index
  BY <1>1, <1>2
<1>7. idref = [Join(<<a, b>>) EXCEPT !.refs =
                  {IF b.index # None THEN Id(b.index, T[t].quals \ T[T[T[t].name].type].quals)
                                     ELSE Id(a.index, T[t].quals)}]
  BY Zenon DEF GetIdref
<1>8. (IF b.index # None THEN Id(b.index, T[t].quals \ T[T[T[t].name].type].quals)
                         ELSE Id(a.index, T[t].quals)) = IdOf(T, A, t)
  BY <1>5, <1>6 DEF IdOf
<1>9. (\A m \in Asked(a) : IsOwn(A, m)) /\ (\A m \in Asked(b) : IsOwn(A, m))
  BY <1>1, <1>2, <1>3
<1> HIDE DEF a, b, A, D
<1> DEFINE j == Join(<<a, b>>)
<1>10. /\ j \in Answer(D)
       /\ Range(j.ops) = Range(a.ops) \cup Range(b.ops)
  BY <1>4, JoinIsAnAnswer
<1>11. Asked(j) = Asked(a) \cup Asked(b)
  BY <1>10, AskedTogether
<1> HIDE DEF j
<1>12. idref = [j EXCEPT !.refs = {IdOf(T, A, t)}]
  BY <1>7, <1>8 DEF j
<1>13. /\ idref.ops = j.ops /\ idref.index = j.index
       /\ idref = [ops |-> j.ops, index |-> j.index, refs |-> {IdOf(T, A, t)}]
  BY <1>10, <1>12 DEF Answer, Parts
<1>14. Asked(idref) = Asked(j)
  BY <1>13 DEF Asked
<1>15. j.ops \in Seq(Requests(D)) /\ j.index \in OrNone(D)
  BY <1>10, AnswerFields
<1> HIDE DEF idref
<1>16. Asked(A[T[t].main][c]) \subseteq Asked(idref)
  BY <1>11, <1>14 DEF a
<1>17. T[t].name # None => Asked(A[T[t].name][c]) \subseteq Asked(idref)
  BY <1>11, <1>14 DEF b
<1>18. \A m \in Asked(idref) : IsOwn(A, m)
  BY <1>9, <1>11, <1>14
<1>19. QED BY <1>13, <1>15, <1>16, <1>17, <1>18 DEF idref, A, D

-----------------------------------------------------------------------------
(* The ids that elements declare.                                          *)

(* An element declares its index, that of a variant a qualified id.        *)
LEMMA ElementsDeclare ==
    ASSUME NEW T, Formed(T), NEW m \in DOMAIN T
    PROVE  LET declared == DeclaredIds(T, XmlAddNode(T), m)
               id == IdOf(T, XmlAddNode(T), m)
           IN /\ ~IsVariant(T, m) => declared = {Id(m, {})}
              /\ IsVariant(T, m) => declared = {i \in {id} : i.quals # {}}
<1> DEFINE A == XmlAddNode(T)
<1>1. ASSUME IsVariant(T, m) PROVE GetIdref(T, A, m, 0).refs = {IdOf(T, A, m)}
  <2>1. m \in TypeNodes(T)
    BY <1>1 DEF IsVariant, QualifiableType, TypeNodes, Decl
  <2>2. GetIdref(T, A, m, 0) = [ops |-> GetIdref(T, A, m, 0).ops,
                                index |-> GetIdref(T, A, m, 0).index,
                                refs |-> {IdOf(T, A, m)}]
    BY <2>1, IdrefParts
  <2>3. QED BY <2>2
<1>2. QED BY <1>1 DEF DeclaredIds

(* The main variant of a type that is no class template has an index.      *)
LEMMA MainAnswers ==
    ASSUME NEW T, Formed(T), NEW t \in TypeNodes(T),
           T[t].code = "RECORD_TYPE" => T[t].ptrmemfunc # None \/ ~T[t].template
    PROVE  LET A == XmlAddNode(T)
               main == T[t].main
           IN /\ main \in TypeNodes(T) /\ ~IsVariant(T, main) /\ T[main].quals = {}
              /\ A[main][0].index
                    = IF T[t].code = "RECORD_TYPE" /\ T[t].ptrmemfunc # None
                        THEN T[main].ptrmemfunc ELSE main
              /\ A[main][0].index \in DOMAIN T
<1> DEFINE A == XmlAddNode(T)
           main == T[t].main
<1>1. main \in TypeNodes(T)
  BY DEF Formed, WellFormed, Accessors, TypeNodes
<1>2. /\ T[main].main = main /\ T[main].quals = {} /\ T[main].code = T[t].code
      /\ T[t].code = "RECORD_TYPE" =>
            /\ T[t].template = T[main].template
            /\ (T[t].ptrmemfunc = None) <=> (T[main].ptrmemfunc = None)
  BY DEF Formed, WellFormed, VariantsAgree
<1>3. ~IsVariant(T, main)
  BY <1>2 DEF IsVariant
<1>4. CASE T[t].code = "RECORD_TYPE" /\ T[t].ptrmemfunc # None
  <2>1. A[main][0] = Real(T[main].ptrmemfunc, 0) /\ T[main].ptrmemfunc \in NodesOf(T, "POINTER_TYPE")
    BY <1>1, <1>2, <1>4, TypeAnswers
  <2>2. T[main].ptrmemfunc \in DOMAIN T
    BY <2>1 DEF NodesOf
  <2>3. A[main][0].index = T[main].ptrmemfunc
    BY <2>1, <2>2, RealIsAnAnswer
  <2>4. QED BY <1>1, <1>2, <1>3, <1>4, <2>2, <2>3
<1>5. CASE ~(T[t].code = "RECORD_TYPE" /\ T[t].ptrmemfunc # None)
  <2>1. main \in DOMAIN T
    BY <1>1 DEF TypeNodes
  <2>2. A[main][0] = Real(main, 0)
    BY <1>1, <1>2, <1>5, TypeAnswers
  <2>3. A[main][0].index = main
    BY <2>1, <2>2, RealIsAnAnswer
  <2>4. QED BY <1>1, <1>2, <1>3, <1>5, <2>1, <2>3
<1>6. QED BY <1>4, <1>5

(* The typedef or the class that a type is named by has an element.        *)
LEMMA NameAnswers ==
    ASSUME NEW T, Formed(T), NEW t \in TypeNodes(T), NEW c \in {0, 1}, T[t].name # None,
           XmlAddNode(T)[T[t].name][0].index # None
    PROVE  LET A == XmlAddNode(T)
               i == A[T[t].name][0].index
           IN i \in Asked(A[T[t].name][c]) /\ i \in DOMAIN T /\ ~IsVariant(T, i)
<1> DEFINE A == XmlAddNode(T)
           td == T[t].name
<1>1. td \in DOMAIN T /\ T[td].code = "TYPE_DECL"
  BY DEF Formed, WellFormed, Accessors, TypeNodes, OrNone, NodesOf
<1>2. Sound(T, A, td)
  BY <1>1, AddNodeIsSound
<1>3. ~IsVariant(T, td)
  BY <1>1 DEF IsVariant, QualifiableType
<1>4. A[td][c].index = A[td][0].index /\ A[td][c].index \in OrNone(Asked(A[td][c]))
  BY <1>2 DEF Sound
<1>5. A[td][0].index \in OrNone(DOMAIN T)
  <2>1. A[td][0] \in Answer(DOMAIN T)
    BY <1>2 DEF Sound, Answers
  <2>2. QED BY <2>1, AnswerFields
<1>6. QED BY <1>2, <1>3, <1>4, <1>5 DEF OrNone, Sound

(* What it means that a type can be named.                                 *)
LEMMA NamedTypes ==
    ASSUME NEW T, NEW s \in CanBeNamed(T)
    PROVE  /\ s \in TypeNodes(T)
           /\ T[s].code = "RECORD_TYPE" => T[s].ptrmemfunc # None \/ ~T[s].template
           /\ T[s].quals # {} => T[s].code \in QualifiableType
  BY DEF CanBeNamed

(* A qualified reference asks for a type whose element declares its id.    *)
LEMMA QualifiedIsDeclared ==
    ASSUME NEW T, Formed(T), NEW t \in CanBeNamed(T), NEW c \in {0, 1},
           IdOf(T, XmlAddNode(T), t).quals # {}
    PROVE  LET A == XmlAddNode(T)
           IN \E m \in Asked(A[t][c]) : IdOf(T, A, t) \in DeclaredIds(T, A, m)
<1> DEFINE A == XmlAddNode(T)
           main == T[t].main
           p == T[t].ptrmemfunc
<1>1. /\ t \in TypeNodes(T) /\ t \in DOMAIN T
      /\ T[t].code = "RECORD_TYPE" => p # None \/ ~T[t].template
      /\ T[t].quals # {} => T[t].code \in QualifiableType
  <2>1. /\ t \in TypeNodes(T)
        /\ T[t].code = "RECORD_TYPE" => p # None \/ ~T[t].template
        /\ T[t].quals # {} => T[t].code \in QualifiableType
    BY NamedTypes
  <2>2. t \in DOMAIN T
    BY <2>1 DEF TypeNodes
  <2>3. QED BY <2>1, <2>2
<1>2. T[t].quals # {}
  BY DEF IdOf, Id
<1>3. /\ main \in TypeNodes(T) /\ T[main].quals = {}
      /\ A[main][0].index = IF T[t].code = "RECORD_TYPE" /\ p # None THEN T[main].ptrmemfunc ELSE main
  BY <1>1, MainAnswers
<1>4. IsVariant(T, t)
  BY <1>1, <1>2, <1>3 DEF IsVariant
<1>5. CASE T[t].code = "RECORD_TYPE" /\ p # None
  <2>1. /\ T[p].main = T[main].ptrmemfunc
        /\ T[t].name = None /\ T[p].name = None /\ T[p].quals = T[t].quals
    BY <1>1, <1>2, <1>5 DEF Formed, WellFormed, VariantsAgree
  <2>2. A[t][c] = Real(p, c) /\ p \in NodesOf(T, "POINTER_TYPE")
    BY <1>1, <1>5, TypeAnswers
  <2>3. p \in DOMAIN T /\ p \in TypeNodes(T) /\ T[p].code = "POINTER_TYPE"
    BY <2>2 DEF NodesOf, TypeNodes, Decl
  <2>4. Asked(A[t][c]) = {p}
    BY <2>2, AskedNodes
  <2>5. /\ T[T[p].main].quals = {}
        /\ A[T[p].main][0].index = T[p].main
    BY <2>3, MainAnswers
  <2>6. IsVariant(T, p)
    BY <1>2, <2>1, <2>3, <2>5 DEF IsVariant, QualifiableType
  <2>7. IdOf(T, A, p) = Id(T[p].main, T[t].quals)
    BY <2>1, <2>5 DEF IdOf
  <2>8. IdOf(T, A, t) = Id(T[main].ptrmemfunc, T[t].quals)
    BY <1>3, <1>5, <2>1 DEF IdOf
  <2>9. IdOf(T, A, p) = IdOf(T, A, t)
    BY <2>1, <2>7, <2>8
  <2> HIDE DEF A, p
  <2>10. DeclaredIds(T, A, p) = {i \in {IdOf(T, A, p)} : i.quals # {}}
    BY <2>3, <2>6, ElementsDeclare DEF A
  <2>11. IdOf(T, A, t).quals # {}
    BY DEF A
  <2>12. QED BY <2>4, <2>9, <2>10, <2>11 DEF A
<1>6. CASE ~(T[t].code = "RECORD_TYPE" /\ p # None)
  <2>1. A[t][c] = Real(t, c)
    BY <1>1, <1>6, TypeAnswers
  <2>2. Asked(A[t][c]) = {t}
    BY <2>1, AskedNodes
  <2>3. DeclaredIds(T, A, t) = {i \in {IdOf(T, A, t)} : i.quals # {}}
    BY <1>1, <1>4, ElementsDeclare
  <2>4. QED BY <2>2, <2>3
<1>7. QED BY <1>5, <1>6

(* A reference without qualifiers has asked for the node it names.         *)
LEMMA PlainIsDeclared ==
    ASSUME NEW T, Formed(T), NEW t \in TypeNodes(T), NEW c \in {0, 1},
           T[t].code = "RECORD_TYPE" => T[t].ptrmemfunc # None \/ ~T[t].template
    PROVE  LET A == XmlAddNode(T)
               id == IdOf(T, A, t)
           IN /\ id.node \in Asked(GetIdref(T, A, t, c))
              /\ DeclaredIds(T, A, id.node) = {Id(id.node, {})}
<1> DEFINE A == XmlAddNode(T)
           id == IdOf(T, A, t)
<1>1. CASE T[t].name # None /\ A[T[t].name][0].index # None
  <2>1. id.node = A[T[t].name][0].index
    BY <1>1 DEF IdOf, Id
  <2>2. id.node \in Asked(A[T[t].name][c]) /\ id.node \in DOMAIN T /\ ~IsVariant(T, id.node)
    BY <1>1, <2>1, NameAnswers
  <2>3. Asked(A[T[t].name][c]) \subseteq Asked(GetIdref(T, A, t, c))
    BY <1>1, IdrefParts
  <2>4. DeclaredIds(T, A, id.node) = {Id(id.node, {})}
    BY <2>2, ElementsDeclare
  <2>5. QED BY <2>2, <2>3, <2>4
<1>2. CASE ~(T[t].name # None /\ A[T[t].name][0].index # None)
  <2> DEFINE main == T[t].main
  <2>1. id.node = A[main][0].index
    BY <1>2 DEF IdOf, Id
  <2>2. main \in DOMAIN T /\ ~IsVariant(T, main) /\ A[main][0].index \in DOMAIN T
    BY MainAnswers DEF TypeNodes
  <2>3. Sound(T, A, main)
    BY <2>2, AddNodeIsSound
  <2>4. id.node \in Asked(A[main][c]) /\ ~IsVariant(T, id.node)
    BY <2>1, <2>2, <2>3 DEF Sound, Formed, OrNone
  <2>5. Asked(A[main][c]) \subseteq Asked(GetIdref(T, A, t, c))
    BY IdrefParts
  <2>6. DeclaredIds(T, A, id.node) = {Id(id.node, {})}
    BY <2>1, <2>2, <2>4, ElementsDeclare
  <2>7. QED BY <2>4, <2>5, <2>6
<1>3. QED BY <1>1, <1>2

-----------------------------------------------------------------------------
(* The parts of an element.  A fine part asks for nodes with an index of   *)
(* their own, and each of its references is declared by one of these.      *)
AllIds(T) == UNION {DeclaredIds(T, XmlAddNode(T), m) : m \in DOMAIN T}
FineAsked(T, p) == \A m \in Asked(p) : m \in DOMAIN T /\ IsOwn(XmlAddNode(T), m)
FineRefs(T, p) == \A id \in p.refs : \E m \in Asked(p) : id \in DeclaredIds(T, XmlAddNode(T), m)
PartsOf(T) == Parts(Requests(DOMAIN T) \cup FileOp, OrNone(DOMAIN T), AllIds(T))
Fine(T) == {p \in PartsOf(T) : FineAsked(T, p) /\ FineRefs(T, p)}

(* What makes a part fine.                                                 *)
LEMMA FinePart ==
    ASSUME NEW T, NEW p,
           p.ops \in Seq(Requests(DOMAIN T) \cup FileOp), p.index \in OrNone(DOMAIN T),
           p = [ops |-> p.ops, index |-> p.index, refs |-> p.refs],
           \A m \in Asked(p) : IsOwn(XmlAddNode(T), m), FineRefs(T, p)
    PROVE  p \in Fine(T)
<1>1. Asked(p) \subseteq DOMAIN T
  <2> SUFFICES ASSUME NEW i \in DOMAIN p.ops, p.ops[i].op = "add" PROVE p.ops[i].node \in DOMAIN T
    BY DEF Asked, Range
  <2>1. p.ops[i] \in Requests(DOMAIN T) \cup FileOp
    OBVIOUS
  <2>2. p.ops[i] \notin FileOp
    BY DEF FileOp
  <2>3. QED BY <2>1, <2>2 DEF Requests
<1>2. FineAsked(T, p)
  BY <1>1 DEF FineAsked
<1>3. p.refs \subseteq AllIds(T)
  BY <1>1 DEF FineRefs, AllIds
<1>4. p \in PartsOf(T)
  BY <1>3 DEF PartsOf, Parts
<1>5. QED BY <1>2, <1>4 DEF Fine

(* An answer that is given references keeps its requests.                  *)
LEMMA WithRefs ==
    ASSUME NEW E, NEW J, NEW R, NEW a \in Parts(E, J, R), NEW S
    PROVE  LET p == [a EXCEPT !.refs = S]
           IN /\ p.ops = a.ops /\ p.index = a.index /\ p.refs = S
              /\ p = [ops |-> a.ops, index |-> a.index, refs |-> S]
              /\ Asked(p) = Asked(a)
<1> DEFINE p == [a EXCEPT !.refs = S]
<1>1. /\ p.ops = a.ops /\ p.index = a.index /\ p.refs = S
      /\ p = [ops |-> a.ops, index |-> a.index, refs |-> S]
  BY DEF Parts
<1>2. Asked(p) = Asked(a)
  <2> HIDE DEF p
  <2>1. QED BY <1>1 DEF Asked
<1>3. QED BY <1>1, <1>2

(* An answer, which has no references, is fine.                            *)
LEMMA AnswersAreFine ==
    ASSUME NEW T, Formed(T), NEW n \in DOMAIN T, NEW c \in {0, 1}
    PROVE  /\ XmlAddNode(T)[n][c] \in Fine(T)
           /\ XmlAddNode(T)[n][c] \in Answer(DOMAIN T)
           /\ XmlAddNode(T)[n][c].ops \in Seq(Requests(DOMAIN T) \cup FileOp)
<1> DEFINE a == XmlAddNode(T)[n][c]
<1>1. a \in Answer(DOMAIN T) /\ \A m \in Asked(a) : IsOwn(XmlAddNode(T), m)
  BY AddNodeIsSound DEF Sound, Answers
<1> HIDE DEF a
<1>2. /\ a.ops \in Seq(Requests(DOMAIN T)) /\ a.index \in OrNone(DOMAIN T) /\ a.refs = {}
      /\ a = [ops |-> a.ops, index |-> a.index, refs |-> a.refs]
  BY <1>1, AnswerFields DEF Answer, Parts
<1>3. FineRefs(T, a)
  BY <1>2 DEF FineRefs
<1>4. a.ops \in Seq(Requests(DOMAIN T) \cup FileOp)
  BY <1>2
<1>5. a \in Fine(T)
  BY <1>1, <1>2, <1>3, <1>4, FinePart
<1>6. QED BY <1>1, <1>4, <1>5 DEF a

(* A reference to a node that is dumped is fine.                           *)
LEMMA ReferIsFine ==
    ASSUME NEW T, Formed(T), NEW n \in AreDumped(T, XmlAddNode(T)), NEW c \in {0, 1}
    PROVE  Refer(XmlAddNode(T), n, c) \in Fine(T)
<1> DEFINE A == XmlAddNode(T)
           a == A[n][c]
           id == Id(a.index, {})
           p == [a EXCEPT !.refs = {id}]
<1>1. n \in DOMAIN T /\ ~IsVariant(T, n) /\ A[n][0].index # None
  BY DEF AreDumped
<1>2. /\ a \in Answer(DOMAIN T) /\ a.ops \in Seq(Requests(DOMAIN T) \cup FileOp)
      /\ a.index \in OrNone(DOMAIN T)
  BY <1>1, AnswersAreFine, AnswerFields
<1>3. /\ a.index = A[n][0].index /\ a.index \in OrNone(Asked(a))
      /\ \A m \in Asked(a) : IsOwn(A, m)
      /\ ~IsVariant(T, a.index)
  BY <1>1, AddNodeIsSound DEF Sound
<1>4. a.index \in Asked(a) /\ a.index \in DOMAIN T
  BY <1>1, <1>2, <1>3 DEF OrNone
<1>5. DeclaredIds(T, A, a.index) = {id}
  BY <1>3, <1>4, ElementsDeclare
<1> HIDE DEF A, a, id
<1>6. /\ p.ops = a.ops /\ p.index = a.index /\ p.refs = {id}
      /\ p = [ops |-> a.ops, index |-> a.index, refs |-> {id}]
      /\ Asked(p) = Asked(a)
  <2>1. a \in Parts(Requests(DOMAIN T), OrNone(DOMAIN T), {})
    BY <1>2 DEF Answer
  <2>2. QED BY <2>1, WithRefs
<1> HIDE DEF p
<1>7. FineRefs(T, p)
  BY <1>4, <1>5, <1>6 DEF FineRefs, A
<1>8. \A m \in Asked(p) : IsOwn(XmlAddNode(T), m)
  BY <1>3, <1>6 DEF A
<1>9. p.ops \in Seq(Requests(DOMAIN T) \cup FileOp) /\ p.index \in OrNone(DOMAIN T)
      /\ p = [ops |-> p.ops, index |-> p.index, refs |-> p.refs]
  BY <1>2, <1>6
<1>10. p \in Fine(T)
  BY <1>7, <1>8, <1>9, FinePart
<1>11. QED BY <1>10 DEF p, id, a, A, Refer

(* So is one to a node that may be left out.                               *)
LEMMA ReferIfAnyIsFine ==
    ASSUME NEW T, Formed(T), NEW n \in DOMAIN T, ~IsVariant(T, n), NEW c \in {0, 1}
    PROVE  ReferIfAny(XmlAddNode(T), n, c) \in Fine(T)
<1> DEFINE A == XmlAddNode(T)
<1>1. A[n][c].index = A[n][0].index
  BY AddNodeIsSound DEF Sound
<1>2. CASE A[n][c].index = None
  BY <1>2, AnswersAreFine DEF ReferIfAny
<1>3. CASE A[n][c].index # None
  <2>1. n \in AreDumped(T, A)
    BY <1>1, <1>3 DEF AreDumped
  <2>2. Refer(A, n, c) \in Fine(T)
    BY <2>1, ReferIsFine
  <2>3. QED BY <1>3, <2>2 DEF ReferIfAny
<1>4. QED BY <1>2, <1>3

(* So is the location, which names a file.                                 *)
LEMMA LocationIsFine ==
    ASSUME NEW T, NEW d, T[d].file \in File
    PROVE  Location(T, d) \in Fine(T)
<1> DEFINE o == [op |-> "file", file |-> T[d].file]
           p == [ops |-> <<o>>, index |-> None, refs |-> {}]
<1>1. Location(T, d) = p
  <2>1. \A q : [Nothing EXCEPT !.ops = q] = [ops |-> q, index |-> None, refs |-> {}]
    <3>1. \A q, r : [[ops |-> r, index |-> None, refs |-> {}] EXCEPT !.ops = q]
                       = [ops |-> q, index |-> None, refs |-> {}]
      OBVIOUS
    <3>2. QED BY <3>1, Zenon DEF Nothing
  <2>2. Location(T, d) = [Nothing EXCEPT !.ops = <<o>>]
    BY Zenon DEF Location
  <2> HIDE DEF o
  <2>3. QED BY <2>1, <2>2
<1>2. o \in FileOp /\ o.op # "add"
  BY DEF FileOp
<1> HIDE DEF o
<1>3. p.ops \in Seq(Requests(DOMAIN T) \cup FileOp) /\ p.index \in OrNone(DOMAIN T) /\ p.refs = {}
      /\ p = [ops |-> p.ops, index |-> p.index, refs |-> p.refs]
  BY <1>2 DEF OrNone
<1>4. Asked(p) = {}
  <2>1. \A i \in DOMAIN p.ops : p.ops[i] = o
    OBVIOUS
  <2> HIDE DEF p
  <2>2. QED BY <1>2, <2>1 DEF Asked, Range
<1> HIDE DEF p
<1>5. FineRefs(T, p)
  BY <1>3 DEF FineRefs
<1>6. p \in Fine(T)
  BY <1>3, <1>4, <1>5, FinePart
<1>7. QED BY <1>1, <1>6

(* A type attribute is fine.                                               *)
LEMMA PrintTypeIdrefIsFine ==
    ASSUME NEW T, Formed(T), NEW t \in CanBeNamed(T), NEW c \in {0, 1}
    PROVE  PrintTypeIdref(T, XmlAddNode(T), t, c) \in Fine(T)
<1> DEFINE D == DOMAIN T
           A == XmlAddNode(T)
           idref == GetIdref(T, A, t, c)
           id == IdOf(T, A, t)
           a == A[t][c]
<1>1. /\ t \in TypeNodes(T) /\ t \in D
      /\ T[t].code = "RECORD_TYPE" => T[t].ptrmemfunc # None \/ ~T[t].template
  BY NamedTypes DEF TypeNodes
<1>2. /\ idref.ops \in Seq(Requests(D)) /\ idref.index \in OrNone(D) /\ idref.refs = {id}
      /\ idref = [ops |-> idref.ops, index |-> idref.index, refs |-> idref.refs]
      /\ \A m \in Asked(idref) : IsOwn(A, m)
  <2>1. /\ idref.ops \in Seq(Requests(D)) /\ idref.index \in OrNone(D)
        /\ idref = [ops |-> idref.ops, index |-> idref.index, refs |-> {id}]
        /\ \A m \in Asked(idref) : IsOwn(A, m)
    BY <1>1, IdrefParts
  <2> HIDE DEF idref, id, A, D
  <2>2. idref.refs = {id}
    BY <2>1
  <2>3. QED BY <2>1, <2>2
<1>3. CASE id.quals = {}
  <2>1. PrintTypeIdref(T, A, t, c) = idref
    <3> HIDE DEF idref, id
    <3>1. ~ \E i \in idref.refs : i.quals # {}
      BY <1>2, <1>3
    <3>2. QED BY <3>1, Zenon DEF PrintTypeIdref, idref
  <2>2. id.node \in Asked(idref) /\ DeclaredIds(T, A, id.node) = {Id(id.node, {})}
    BY <1>1, PlainIsDeclared
  <2>3. id = Id(id.node, {})
    <3>1. id = Id(id.node, id.quals)
      BY DEF IdOf, Id
    <3>2. QED BY <1>3, <3>1
  <2>4. FineRefs(T, idref)
    <3> HIDE DEF idref, id
    <3>1. QED BY <1>2, <2>2, <2>3 DEF FineRefs
  <2>5. idref \in Fine(T)
    <3> HIDE DEF idref
    <3>1. idref.ops \in Seq(Requests(DOMAIN T) \cup FileOp)
      BY <1>2
    <3>2. QED BY <1>2, <2>4, <3>1, FinePart
  <2>6. QED BY <2>1, <2>5
<1>4. CASE id.quals # {}
  <2> DEFINE parts == <<idref, a>>
             j == Join(parts)
  <2>1. PrintTypeIdref(T, A, t, c) = j
    <3> HIDE DEF idref, id
    <3>1. \E i \in idref.refs : i.quals # {}
      BY <1>2, <1>4
    <3>2. QED BY <3>1, Zenon DEF PrintTypeIdref, idref
  <2>2. a \in Answer(D) /\ a.refs = {} /\ \A m \in Asked(a) : IsOwn(A, m)
    BY <1>1, AnswersAreFine, AnswerFields, AddNodeIsSound DEF Sound
  <2>3. PICK m \in Asked(a) : id \in DeclaredIds(T, A, m)
    BY <1>4, QualifiedIsDeclared
  <2> HIDE DEF idref, id, a, A
  <2>4. idref \in Parts(Requests(D), OrNone(D), {id}) /\ a \in Parts(Requests(D), OrNone(D), {id})
    BY <1>2, <2>2 DEF Answer, Parts
  <2>5. None \in OrNone(D)
    BY DEF OrNone
  <2> HIDE DEF D, parts, j
  <2>6. j \in Parts(Requests(D), OrNone(D), {id})
    BY <2>4, <2>5, JoinTwo, SMTT(30) DEF j, parts
  <2>7. j.refs = {id} /\ Range(j.ops) = Range(idref.ops) \cup Range(a.ops)
    <3>1. j.refs = idref.refs \cup a.refs /\ Range(j.ops) = Range(idref.ops) \cup Range(a.ops)
      BY <2>4, <2>5, JoinTwo, SMTT(30) DEF j, parts
    <3>2. QED BY <1>2, <2>2, <3>1
  <2>8. Asked(j) = Asked(idref) \cup Asked(a)
    BY <2>7, AskedTogether
  <2>9. FineRefs(T, j) /\ \A k \in Asked(j) : IsOwn(XmlAddNode(T), k)
    BY <1>2, <2>2, <2>3, <2>7, <2>8 DEF FineRefs, A
  <2>10. /\ j.ops \in Seq(Requests(DOMAIN T) \cup FileOp) /\ j.index \in OrNone(DOMAIN T)
         /\ j = [ops |-> j.ops, index |-> j.index, refs |-> j.refs]
    <3>1. /\ j.ops \in Seq(Requests(D)) /\ j.index \in OrNone(D)
          /\ j = [ops |-> j.ops, index |-> j.index, refs |-> j.refs]
      BY <2>6, PartFields
    <3>2. QED BY <3>1 DEF D
  <2>11. j \in Fine(T)
    BY <2>9, <2>10, FinePart
  <2>12. QED BY <2>1, <2>11 DEF j, A
<1>5. QED BY <1>3, <1>4

(* The element of a qualified variant.                                     *)
LEMMA VariantIsFine ==
    ASSUME NEW T, Formed(T), NEW n \in DOMAIN T, NEW c \in {0, 1},
           IsVariant(T, n), XmlAddNode(T)[n][0].index = n
    PROVE  OutputVariant(T, XmlAddNode(T), n, c) \in Seq(Fine(T))
<1> DEFINE D == DOMAIN T
           A == XmlAddNode(T)
           idref == GetIdref(T, A, n, c)
           id == IdOf(T, A, n)
           S == {Id(i.node, {}) : i \in {k \in idref.refs : k.quals # {}}}
           p == [idref EXCEPT !.refs = S]
<1>1. n \in TypeNodes(T)
  BY DEF IsVariant, QualifiableType, TypeNodes, Decl
<1>2. T[n].code = "RECORD_TYPE" => T[n].ptrmemfunc # None \/ ~T[n].template
  <2> SUFFICES ASSUME T[n].code = "RECORD_TYPE", T[n].ptrmemfunc = None, T[n].template
               PROVE  FALSE
    OBVIOUS
  <2>1. A[n][0] = Nothing
    BY <1>1, TypeAnswers
  <2>2. QED BY <2>1, NothingIsAnAnswer DEF Formed
<1>3. /\ idref.ops \in Seq(Requests(D)) /\ idref.index \in OrNone(D)
      /\ idref = [ops |-> idref.ops, index |-> idref.index, refs |-> {id}]
      /\ \A m \in Asked(idref) : IsOwn(A, m)
  BY <1>1, IdrefParts
<1>4. id.node \in Asked(idref) /\ DeclaredIds(T, A, id.node) = {Id(id.node, {})}
  BY <1>1, <1>2, PlainIsDeclared
<1>5. OutputVariant(T, A, n, c) = <<p>>
  BY Zenon DEF OutputVariant
<1> HIDE DEF idref, id
<1>6. S \subseteq {Id(id.node, {})}
  BY <1>3
<1>7. idref \in Parts(Requests(D), OrNone(D), {id})
  BY <1>3 DEF Parts
<1> HIDE DEF S
<1>8. /\ p.ops = idref.ops /\ p.index = idref.index /\ p.refs = S
      /\ p = [ops |-> idref.ops, index |-> idref.index, refs |-> S]
      /\ Asked(p) = Asked(idref)
  BY <1>7, WithRefs
<1> HIDE DEF p
<1>9. FineRefs(T, p)
  BY <1>4, <1>6, <1>8 DEF FineRefs
<1>10. /\ p.ops \in Seq(Requests(DOMAIN T) \cup FileOp) /\ p.index \in OrNone(DOMAIN T)
       /\ p = [ops |-> p.ops, index |-> p.index, refs |-> p.refs]
  BY <1>3, <1>8
<1>11. p \in Fine(T)
  BY <1>3, <1>8, <1>9, <1>10, FinePart
<1>12. QED BY <1>5, <1>11

-----------------------------------------------------------------------------
(* Parts in sequence.                                                      *)

Dumped(T) == AreDumped(T, XmlAddNode(T))
DumpedOrTemplate(T) == OrNone(Dumped(T)) \cup NodesOf(T, "TEMPLATE_DECL")
NoVariants(T) == {n \in DOMAIN T : ~IsVariant(T, n)}
FineParts(T) == Seq(Fine(T))

(* A declaration is no variant of a type.                                  *)
LEMMA DeclsAreNoVariants ==
    ASSUME NEW T
    PROVE  DeclNodes(T) \subseteq NoVariants(T)
  BY DEF DeclNodes, TypeNodes, NoVariants, IsVariant, QualifiableType, Decl

(* References to a sequence of nodes are fine.                             *)
LEMMA ReferAllIsFine ==
    ASSUME NEW T, Formed(T), NEW ns \in Seq(Dumped(T)), NEW c \in {0, 1}
    PROVE  ReferAll(XmlAddNode(T), ns, c) \in FineParts(T)
<1>1. \A n \in Dumped(T) : Refer(XmlAddNode(T), n, c) \in Fine(T)
  BY ReferIsFine DEF Dumped
<1>2. ReferAll(XmlAddNode(T), ns, c) \in [1 .. Len(ns) -> Fine(T)] /\ Len(ns) \in Nat
  BY <1>1 DEF ReferAll
<1>3. QED BY <1>2, IsSequence DEF FineParts

(* References to those of a sequence that have an index are fine.          *)
LEMMA ReferAnyIsFine ==
    ASSUME NEW T, Formed(T), NEW ns \in Seq(NoVariants(T)), NEW c \in {0, 1}
    PROVE  ReferAny(XmlAddNode(T), ns, c) \in FineParts(T)
<1>1. \A n \in NoVariants(T) : ReferIfAny(XmlAddNode(T), n, c) \in Fine(T)
  BY ReferIfAnyIsFine DEF NoVariants
<1>2. ReferAny(XmlAddNode(T), ns, c) \in [1 .. Len(ns) -> Fine(T)] /\ Len(ns) \in Nat
  BY <1>1 DEF ReferAny
<1>3. QED BY <1>2, IsSequence DEF FineParts

(* Type attributes of a sequence of types are fine.                        *)
LEMMA PrintTypesIsFine ==
    ASSUME NEW T, Formed(T), NEW ts \in Seq(CanBeNamed(T)), NEW c \in {0, 1}
    PROVE  PrintTypes(T, XmlAddNode(T), ts, c) \in FineParts(T)
<1>1. \A t \in CanBeNamed(T) : PrintTypeIdref(T, XmlAddNode(T), t, c) \in Fine(T)
  BY PrintTypeIdrefIsFine
<1>2. PrintTypes(T, XmlAddNode(T), ts, c) \in [1 .. Len(ts) -> Fine(T)] /\ Len(ts) \in Nat
  <2> HIDE DEF CanBeNamed
  <2>1. QED BY <1>1 DEF PrintTypes
<1>3. QED BY <1>2, IsSequence DEF FineParts

(* The context attribute is fine.                                          *)
LEMMA ContextIsFine ==
    ASSUME NEW T, Formed(T), NEW n, T[n].context \in OrNone(Dumped(T))
    PROVE  Context(T, XmlAddNode(T), n) \in FineParts(T)
<1>1. CASE T[n].context = None
  BY <1>1 DEF Context, When, FineParts
<1>2. CASE T[n].context # None
  <2>1. Refer(XmlAddNode(T), T[n].context, 0) \in Fine(T)
    <3>1. T[n].context \in AreDumped(T, XmlAddNode(T))
      BY <1>2 DEF OrNone, Dumped
    <3>2. QED BY <3>1, ReferIsFine
  <2>2. Context(T, XmlAddNode(T), n) = <<Refer(XmlAddNode(T), T[n].context, 0)>>
    BY <1>2 DEF Context, When
  <2>3. QED BY <2>1, <2>2 DEF FineParts
<1>3. QED BY <1>1, <1>2

(* The befriending attribute is fine.                                      *)
LEMMA BefriendingIsFine ==
    ASSUME NEW T, Formed(T), NEW friends \in Seq(DOMAIN T), Range(friends) \subseteq DumpedOrTemplate(T)
    PROVE  Befriending(T, XmlAddNode(T), friends) \in FineParts(T)
<1> DEFINE S == DOMAIN T \ NodesOf(T, "TEMPLATE_DECL")
           listed == Chosen(friends, S)
<1>1. listed \in Seq(DOMAIN T \cap S) /\ Range(listed) = Range(friends) \cap S
  BY ChosenMembers
<1>2. Range(listed) \subseteq Dumped(T)
  BY <1>1 DEF DumpedOrTemplate, OrNone, Formed
<1> HIDE DEF listed
<1>3. listed \in Seq(Dumped(T))
  BY <1>1, <1>2, InRange
<1>4. ReferAll(XmlAddNode(T), listed, 0) \in FineParts(T)
  BY <1>3, ReferAllIsFine
<1>5. QED BY <1>4 DEF Befriending, listed

(* The methods that xml_print_overrides_r finds in one base.               *)
LEMMA OverridesHereMembers ==
    ASSUME NEW T, Formed(T), NEW t \in NodesOf(T, "RECORD_TYPE"), NEW fd
    PROVE  OverridesHere(T, t, fd) \in Seq(DeclNodes(T))
<1> DEFINE S == {m \in Range(T[t].methods) : T[m].virtual /\ T[m].sig = T[fd].sig}
<1>1. T[t].methods \in Seq(DeclNodes(T))
  BY DEF Formed, WellFormed, Accessors, NodesOf
<1>2. OverridesHere(T, t, fd) = Chosen(T[t].methods, S)
  BY Zenon DEF OverridesHere
<1> HIDE DEF S
<1>3. Chosen(T[t].methods, S) \in Seq(DeclNodes(T) \cap S)
  BY <1>1, ChosenMembers
<1>4. QED BY <1>2, <1>3

(* look_for_overrides: the search through the bases ends, and finds        *)
(* functions.                                                              *)
LEMMA OverridesIsFine ==
    ASSUME NEW T, Formed(T), NEW fd, T[fd].virtual => T[fd].context \in NodesOf(T, "RECORD_TYPE")
    PROVE  Overrides(T, XmlAddNode(T), fd) \in FineParts(T)
<1> DEFINE D == NodesOf(T, "RECORD_TYPE")
           V == Seq(DeclNodes(T))
           In(f, base) == LET here == OverridesHere(T, base, fd)
                          IN IF here # <<>> THEN <<here[1]>> ELSE f[base]
           Lists(f, t) == [i \in DOMAIN T[t].bases |-> In(f, T[t].bases[i])]
           Def(f) == [t \in D |-> FlattenSeq(Lists(f, t))]
           step == [t \in D |-> [f \in [D -> V] |-> FlattenSeq(Lists(f, t))]]
           inBases == CHOOSE f : f = Def(f)
<1>1. Overrides(T, XmlAddNode(T), fd)
         = When(T[fd].virtual, ReferAny(XmlAddNode(T), inBases[T[fd].context], 1))
  BY DEF Overrides, NodesOf
<1>2. \A t \in D : T[t].bases \in Seq(D) /\ Bases(T)[t] = Range(T[t].bases)
  BY DEF Formed, WellFormed, Accessors, NodesOf, Bases
<1>3. \A base \in D : \A f : f[base] \in V => In(f, base) \in V
  <2> SUFFICES ASSUME NEW base \in D, NEW f, f[base] \in V PROVE In(f, base) \in V
    OBVIOUS
  <2>1. OverridesHere(T, base, fd) \in V
    BY OverridesHereMembers
  <2>2. QED BY <2>1
<1>4. ASSUME NEW t \in D, NEW f, \A base \in Range(T[t].bases) : f[base] \in V
      PROVE  FlattenSeq(Lists(f, t)) \in V
  <2>1. \A i \in DOMAIN T[t].bases : In(f, T[t].bases[i]) \in V
    <3> HIDE DEF In, V
    <3>1. QED BY <1>2, <1>3, <1>4 DEF Range
  <2>2. Lists(f, t) \in [1 .. Len(T[t].bases) -> V] /\ Len(T[t].bases) \in Nat
    <3> HIDE DEF In, V
    <3>1. QED BY <1>2, <2>1
  <2> HIDE DEF Lists
  <2>3. Lists(f, t) \in Seq(Seq(DeclNodes(T)))
    BY <2>2, IsSequence
  <2>4. QED BY <2>3, FlattenParts
<1>5. PICK last, level : Rounds(D, Bases(T), last, level)
  <2>1. Grounded(D, Bases(T))
    BY DEF Formed, WellFormed, RecursionEnds
  <2>2. IsFiniteSet(D)
    <3>1. D \subseteq DOMAIN T /\ IsFiniteSet(DOMAIN T)
      BY DEF Formed, NodesOf
    <3>2. QED BY <3>1, FS_Subset
  <2> HIDE DEF D
  <2>3. QED BY <2>1, <2>2, GroundedRounds
<1>6. inBases = Def(inBases)
  <2>1. step \in [D -> [[D -> V] -> V]]
    <3>1. ASSUME NEW t \in D, NEW f \in [D -> V] PROVE FlattenSeq(Lists(f, t)) \in V
      <4>1. \A base \in Range(T[t].bases) : f[base] \in V
        <5>1. Range(T[t].bases) \subseteq D
          BY <1>2 DEF Range
        <5> HIDE DEF V
        <5>2. QED BY <5>1
      <4>2. QED BY <1>4, <4>1
    <3> HIDE DEF V, Lists
    <3>2. QED BY <3>1
  <2>2. Local(D, V, Bases(T), step)
    <3> SUFFICES ASSUME NEW t \in D, NEW f \in [D -> V], NEW g \in [D -> V],
                        \A m \in Bases(T)[t] \cap D : f[m] = g[m]
                 PROVE  step[t][f] = step[t][g]
      BY DEF Local
    <3>1. \A i \in DOMAIN T[t].bases : f[T[t].bases[i]] = g[T[t].bases[i]]
      <4>1. \A i \in DOMAIN T[t].bases : T[t].bases[i] \in Bases(T)[t] /\ T[t].bases[i] \in D
        BY <1>2 DEF Range
      <4> HIDE DEF V, D
      <4>2. QED BY <4>1
    <3>2. Lists(f, t) = Lists(g, t)
      BY <3>1
    <3> HIDE DEF Lists, V
    <3>3. QED BY <3>2
  <2>3. V # {}
    <3>1. <<>> \in V
      OBVIOUS
    <3>2. QED BY <3>1
  <2>4. \E f : Solves(D, V, step, f)
    <3> HIDE DEF D, V, step
    <3>1. QED BY <1>5, <2>1, <2>2, <2>3, RecursionIsSolved
  <2>5. PICK f : f = Def(f)
    <3>1. PICK f : Solves(D, V, step, f)
      BY <2>4
    <3>2. f \in [D -> V] /\ \A t \in D : f[t] = step[t][f]
      BY <3>1 DEF Solves
    <3>3. \A t \in D : f[t] = FlattenSeq(Lists(f, t))
      <4> HIDE DEF V, Lists
      <4>1. QED BY <3>2
    <3> HIDE DEF Lists, V
    <3>4. f = Def(f)
      BY <3>2, <3>3
    <3>5. QED BY <3>4
  <2> HIDE DEF Def
  <2>6. QED BY <2>5, Zenon
<1> HIDE DEF inBases
<1>7. \A t \in D : inBases[t] \in V
  <2> DEFINE X == {t \in D : inBases[t] \notin V}
  <2>1. ASSUME NEW t \in X PROVE Bases(T)[t] \cap X # {}
    <3> SUFFICES ASSUME Bases(T)[t] \cap X = {} PROVE FALSE
      OBVIOUS
    <3>1. \A base \in Range(T[t].bases) : inBases[base] \in V
      BY <1>2 DEF Range
    <3>2. FlattenSeq(Lists(inBases, t)) \in V
      BY <1>4, <3>1
    <3>3. inBases[t] = FlattenSeq(Lists(inBases, t))
      <4> HIDE DEF Lists
      <4>1. QED BY <1>6
    <3>4. QED BY <3>2, <3>3
  <2>2. X = {}
    <3>1. X \in SUBSET D
      OBVIOUS
    <3> HIDE DEF X, D
    <3>2. QED BY <1>5, <2>1, <3>1, RoundsAreWellFounded
  <2>3. QED BY <2>2
<1>8. CASE T[fd].virtual
  <2> DEFINE ns == inBases[T[fd].context]
  <2>1. ns \in Seq(NoVariants(T))
    <3>1. ns \in Seq(DeclNodes(T))
      BY <1>7, <1>8
    <3>2. QED BY <3>1, DeclsAreNoVariants
  <2> HIDE DEF ns
  <2>2. ReferAny(XmlAddNode(T), ns, 1) \in FineParts(T)
    BY <2>1, ReferAnyIsFine
  <2>3. QED BY <1>1, <1>8, <2>2 DEF When, ns
<1>9. CASE ~T[fd].virtual
  BY <1>1, <1>9 DEF When, FineParts
<1>10. QED BY <1>8, <1>9

(* Aliases end at a namespace that is none, and this one is dumped.        *)
LEMMA NamespacesAreReal ==
    ASSUME NEW T, Formed(T), NEW n \in NodesOf(T, "NAMESPACE_DECL")
    PROVE  RealNamespace(T, n) \in Dumped(T)
<1> DEFINE D == NodesOf(T, "NAMESPACE_DECL")
           Def(f) == [m \in D |-> IF T[m].alias = None THEN m ELSE f[T[m].alias]]
           step == [m \in D |-> [f \in [D -> D] |-> IF T[m].alias = None THEN m ELSE f[T[m].alias]]]
           real == CHOOSE f : f = Def(f)
<1>1. RealNamespace(T, n) = real[n]
  BY DEF RealNamespace, NodesOf
<1>2. \A m \in D : T[m].alias \in OrNone(D) /\ Aliases(T)[m] = {T[m].alias} \ {None}
  BY DEF Formed, WellFormed, Accessors, NodesOf, Aliases
<1>3. PICK last, level : Rounds(D, Aliases(T), last, level)
  <2>1. Grounded(D, Aliases(T))
    BY DEF Formed, WellFormed, RecursionEnds
  <2>2. IsFiniteSet(D)
    <3>1. D \subseteq DOMAIN T /\ IsFiniteSet(DOMAIN T)
      BY DEF Formed, NodesOf
    <3>2. QED BY <3>1, FS_Subset
  <2> HIDE DEF D
  <2>3. QED BY <2>1, <2>2, GroundedRounds
<1> HIDE DEF D
<1>4. real = Def(real)
  <2>1. step \in [D -> [[D -> D] -> D]]
    BY <1>2 DEF OrNone
  <2>2. Local(D, D, Aliases(T), step)
    <3> SUFFICES ASSUME NEW m \in D, NEW f \in [D -> D], NEW g \in [D -> D],
                        \A k \in Aliases(T)[m] \cap D : f[k] = g[k]
                 PROVE  step[m][f] = step[m][g]
      BY DEF Local
    <3>1. T[m].alias # None => f[T[m].alias] = g[T[m].alias]
      BY <1>2 DEF OrNone
    <3>2. QED BY <3>1
  <2>3. \E f : Solves(D, D, step, f)
    <3>1. D # {}
      BY DEF D
    <3> HIDE DEF step
    <3>2. QED BY <1>3, <2>1, <2>2, <3>1, RecursionIsSolved
  <2>4. PICK f : f = Def(f)
    <3>1. PICK f : Solves(D, D, step, f)
      BY <2>3
    <3>2. f \in [D -> D] /\ \A m \in D : f[m] = step[m][f]
      BY <3>1 DEF Solves
    <3>3. f = Def(f)
      BY <3>2
    <3>4. QED BY <3>3
  <2> HIDE DEF Def
  <2>5. QED BY <2>4, Zenon
<1> HIDE DEF real
<1>5. \A m \in D : real[m] \in D /\ T[real[m]].alias = None
  <2> DEFINE X == {m \in D : ~(real[m] \in D /\ T[real[m]].alias = None)}
  <2>1. ASSUME NEW m \in X PROVE Aliases(T)[m] \cap X # {}
    <3>1. real[m] = IF T[m].alias = None THEN m ELSE real[T[m].alias]
      BY <1>4
    <3>2. QED BY <1>2, <3>1 DEF OrNone
  <2>2. X = {}
    <3>1. X \in SUBSET D
      OBVIOUS
    <3> HIDE DEF X
    <3>2. QED BY <1>3, <2>1, <3>1, RoundsAreWellFounded
  <2>3. QED BY <2>2
<1>6. ASSUME NEW m \in D PROVE m \in Dumped(T)
  <2>1. m \in DOMAIN T /\ T[m].code = "NAMESPACE_DECL"
    BY DEF D, NodesOf
  <2>2. ~Skipped(T, m)
    BY <2>1 DEF Skipped
  <2>3. XmlAddNode(T)[m][0] = Real(m, 0)
    BY <2>1, <2>2, AddNodeRecurs, DispatchCases
  <2>4. XmlAddNode(T)[m][0].index = m
    BY <2>1, <2>3, RealIsAnAnswer
  <2>5. m # None /\ ~IsVariant(T, m)
    BY <2>1 DEF Formed, IsVariant, QualifiableType
  <2>6. QED BY <2>1, <2>4, <2>5 DEF Dumped, AreDumped
<1>7. QED BY <1>1, <1>5, <1>6 DEF D

(* The arguments of a function are fine.                                   *)
LEMMA ArgumentsAreFine ==
    ASSUME NEW T, Formed(T), NEW n, NEW c \in {0, 1},
           T[n].args \in Seq(CanBeNamed(T)), T[n].file \in File
    PROVE  OutputArguments(T, XmlAddNode(T), n, c) \in FineParts(T)
<1> DEFINE Two(i) == <<PrintTypeIdref(T, XmlAddNode(T), T[n].args[i], c), Location(T, n)>>
           parts == [i \in DOMAIN T[n].args |-> Two(i)]
<1>1. \A t \in CanBeNamed(T) : PrintTypeIdref(T, XmlAddNode(T), t, c) \in Fine(T)
  BY PrintTypeIdrefIsFine
<1>2. Location(T, n) \in Fine(T)
  BY LocationIsFine
<1>3. \A i \in DOMAIN T[n].args : Two(i) \in Seq(Fine(T))
  BY <1>1, <1>2
<1>4. OutputArguments(T, XmlAddNode(T), n, c) = FlattenSeq(parts)
  BY DEF OutputArguments
<1> HIDE DEF Two
<1>5. parts \in [1 .. Len(T[n].args) -> Seq(Fine(T))] /\ Len(T[n].args) \in Nat
  BY <1>3
<1> HIDE DEF parts
<1>6. parts \in Seq(Seq(Fine(T)))
  BY <1>5, IsSequence
<1>7. FlattenSeq(parts) \in Seq(Fine(T))
  BY <1>6, FlattenParts
<1>8. QED BY <1>4, <1>7 DEF FineParts

-----------------------------------------------------------------------------
(* The elements.                                                           *)

(* What the attributes of an element name, by the kind of its node.        *)
LEMMA NamedByKind ==
    ASSUME NEW T, NEW n
    PROVE  /\ T[n].code = "NAMESPACE_DECL" => T[n].context \in NodesNamed(T, n)
           /\ T[n].code = "TYPE_DECL" =>
                 /\ {T[n].type, T[n].original} \ {None} \subseteq TypesNamed(T, n)
                 /\ T[n].context \in NodesNamed(T, n)
           /\ T[n].code = "FUNCTION_DECL" =>
                 /\ T[n].returns \in TypesNamed(T, n)
                 /\ Range(T[n].throws) \subseteq TypesNamed(T, n)
                 /\ Range(T[n].args) \subseteq TypesNamed(T, n)
                 /\ T[n].context \in NodesNamed(T, n)
                 /\ Range(T[n].befriending) \subseteq NodesNamed(T, n)
           /\ T[n].code \in {"VAR_DECL", "FIELD_DECL"} =>
                 T[n].type \in TypesNamed(T, n) /\ T[n].context \in NodesNamed(T, n)
           /\ T[n].code \in {"POINTER_TYPE", "REFERENCE_TYPE", "ARRAY_TYPE", "OFFSET_TYPE"} =>
                 T[n].type \in TypesNamed(T, n)
           /\ T[n].code \in {"FUNCTION_TYPE", "METHOD_TYPE"} =>
                 T[n].returns \in TypesNamed(T, n) /\ Range(T[n].args) \subseteq TypesNamed(T, n)
           /\ T[n].code \in {"OFFSET_TYPE", "METHOD_TYPE"} => T[n].basetype \in NodesNamed(T, n)
           /\ T[n].code = "RECORD_TYPE" =>
                 /\ T[T[n].name].context \in NodesNamed(T, n)
                 /\ Range(T[n].befriending) \subseteq NodesNamed(T, n)
                 /\ Range(T[n].bases) \subseteq NodesNamed(T, n)
           /\ T[n].code = "ENUMERAL_TYPE" => T[T[n].name].context \in NodesNamed(T, n)
<1>1. T[n].code = "NAMESPACE_DECL" => NodesNamed(T, n) = {T[n].context}
  BY Zenon DEF NodesNamed
<1>2. T[n].code = "TYPE_DECL" =>
         /\ TypesNamed(T, n) = {T[n].type, T[n].original} \ {None}
         /\ NodesNamed(T, n) = {T[n].context}
  BY Zenon DEF TypesNamed, NodesNamed
<1>3. T[n].code = "FUNCTION_DECL" =>
         /\ TypesNamed(T, n) = {T[n].returns} \cup Range(T[n].throws) \cup Range(T[n].args)
         /\ NodesNamed(T, n) = {T[n].context} \cup Range(T[n].befriending)
  BY Zenon DEF TypesNamed, NodesNamed
<1>4. T[n].code \in {"VAR_DECL", "FIELD_DECL"} =>
         TypesNamed(T, n) = {T[n].type} /\ NodesNamed(T, n) = {T[n].context}
  BY Zenon DEF TypesNamed, NodesNamed
<1>5. T[n].code \in {"POINTER_TYPE", "REFERENCE_TYPE", "ARRAY_TYPE", "OFFSET_TYPE"} =>
         TypesNamed(T, n) = {T[n].type}
  BY Zenon DEF TypesNamed
<1>6. T[n].code \in {"FUNCTION_TYPE", "METHOD_TYPE"} =>
         TypesNamed(T, n) = {T[n].returns} \cup Range(T[n].args)
  BY Zenon DEF TypesNamed
<1>7. T[n].code \in {"OFFSET_TYPE", "METHOD_TYPE"} => NodesNamed(T, n) = {T[n].basetype}
  BY Zenon DEF NodesNamed
<1>8. T[n].code = "RECORD_TYPE" =>
         NodesNamed(T, n) = {T[T[n].name].context} \cup Range(T[n].befriending) \cup Range(T[n].bases)
  BY Zenon DEF NodesNamed
<1>9. T[n].code = "ENUMERAL_TYPE" => NodesNamed(T, n) = {T[T[n].name].context}
  BY Zenon DEF NodesNamed
<1>10. QED BY <1>1, <1>2, <1>3, <1>4, <1>5, <1>6, <1>7, <1>8, <1>9

(* The output function of an element, by the kind of its node.             *)
LEMMA OutputByKind ==
    ASSUME NEW T, NEW A, NEW n, NEW c
    PROVE  LET parts == DumpTreeNode(T, A, n, c)
               code == T[n].code
           IN /\ IsVariant(T, n) => parts = OutputVariant(T, A, n, c)
              /\ ~IsVariant(T, n) =>
                   /\ code = "NAMESPACE_DECL" => parts = OutputNamespaceDecl(T, A, n, c)
                   /\ code = "TYPE_DECL" => parts = OutputTypedef(T, A, n, c)
                   /\ code = "FUNCTION_DECL" => parts = OutputFunctionDecl(T, A, n, c)
                   /\ code \in {"VAR_DECL", "FIELD_DECL"} => parts = OutputVarDecl(T, A, n, c)
                   /\ code = "RECORD_TYPE" => parts = OutputRecordType(T, A, n, c)
                   /\ code = "FUNCTION_TYPE" => parts = OutputFunctionType(T, A, n, c)
                   /\ code = "METHOD_TYPE" => parts = OutputMethodType(T, A, n, c)
                   /\ code \in {"POINTER_TYPE", "REFERENCE_TYPE"} => parts = OutputPointerType(T, A, n)
                   /\ code = "ARRAY_TYPE" => parts = OutputArrayType(T, A, n, c)
                   /\ code = "OFFSET_TYPE" => parts = OutputOffsetType(T, A, n, c)
                   /\ code = "ENUMERAL_TYPE" => parts = OutputEnumeralType(T, A, n)
                   /\ code \notin {"NAMESPACE_DECL", "TYPE_DECL", "FUNCTION_DECL", "VAR_DECL",
                                   "FIELD_DECL", "RECORD_TYPE", "FUNCTION_TYPE", "METHOD_TYPE",
                                   "POINTER_TYPE", "REFERENCE_TYPE", "ARRAY_TYPE", "OFFSET_TYPE",
                                   "ENUMERAL_TYPE"} => parts = <<>>
<1> DEFINE parts == DumpTreeNode(T, A, n, c)
           code == T[n].code
<1>0. IsVariant(T, n) => code \in QualifiableType
  BY DEF IsVariant
<1>1. IsVariant(T, n) => parts = OutputVariant(T, A, n, c)
  BY <1>0, Zenon DEF DumpTreeNode, QualifiableType
<1> SUFFICES ASSUME ~IsVariant(T, n)
             PROVE  /\ code = "NAMESPACE_DECL" => parts = OutputNamespaceDecl(T, A, n, c)
                    /\ code = "TYPE_DECL" => parts = OutputTypedef(T, A, n, c)
                    /\ code = "FUNCTION_DECL" => parts = OutputFunctionDecl(T, A, n, c)
                    /\ code \in {"VAR_DECL", "FIELD_DECL"} => parts = OutputVarDecl(T, A, n, c)
                    /\ code = "RECORD_TYPE" => parts = OutputRecordType(T, A, n, c)
                    /\ code = "FUNCTION_TYPE" => parts = OutputFunctionType(T, A, n, c)
                    /\ code = "METHOD_TYPE" => parts = OutputMethodType(T, A, n, c)
                    /\ code \in {"POINTER_TYPE", "REFERENCE_TYPE"} => parts = OutputPointerType(T, A, n)
                    /\ code = "ARRAY_TYPE" => parts = OutputArrayType(T, A, n, c)
                    /\ code = "OFFSET_TYPE" => parts = OutputOffsetType(T, A, n, c)
                    /\ code = "ENUMERAL_TYPE" => parts = OutputEnumeralType(T, A, n)
                    /\ code \notin {"NAMESPACE_DECL", "TYPE_DECL", "FUNCTION_DECL", "VAR_DECL",
                                    "FIELD_DECL", "RECORD_TYPE", "FUNCTION_TYPE", "METHOD_TYPE",
                                    "POINTER_TYPE", "REFERENCE_TYPE", "ARRAY_TYPE", "OFFSET_TYPE",
                                    "ENUMERAL_TYPE"} => parts = <<>>
  BY <1>1
<1>2. code = "NAMESPACE_DECL" => parts = OutputNamespaceDecl(T, A, n, c)
  BY Zenon DEF DumpTreeNode
<1>3. code = "TYPE_DECL" => parts = OutputTypedef(T, A, n, c)
  BY Zenon DEF DumpTreeNode
<1>4. code = "FUNCTION_DECL" => parts = OutputFunctionDecl(T, A, n, c)
  BY Zenon DEF DumpTreeNode
<1>5. code \in {"VAR_DECL", "FIELD_DECL"} => parts = OutputVarDecl(T, A, n, c)
  BY Zenon DEF DumpTreeNode
<1>6. code = "RECORD_TYPE" => parts = OutputRecordType(T, A, n, c)
  BY Zenon DEF DumpTreeNode
<1>7. code = "FUNCTION_TYPE" => parts = OutputFunctionType(T, A, n, c)
  BY Zenon DEF DumpTreeNode
<1>8. code = "METHOD_TYPE" => parts = OutputMethodType(T, A, n, c)
  BY Zenon DEF DumpTreeNode
<1>9. code \in {"POINTER_TYPE", "REFERENCE_TYPE"} => parts = OutputPointerType(T, A, n)
  BY Zenon DEF DumpTreeNode
<1>10. code = "ARRAY_TYPE" => parts = OutputArrayType(T, A, n, c)
  BY Zenon DEF DumpTreeNode
<1>11. code = "OFFSET_TYPE" => parts = OutputOffsetType(T, A, n, c)
  BY Zenon DEF DumpTreeNode
<1>12. code = "ENUMERAL_TYPE" => parts = OutputEnumeralType(T, A, n)
  BY Zenon DEF DumpTreeNode
<1>13. code \notin {"NAMESPACE_DECL", "TYPE_DECL", "FUNCTION_DECL", "VAR_DECL",
                    "FIELD_DECL", "RECORD_TYPE", "FUNCTION_TYPE", "METHOD_TYPE",
                    "POINTER_TYPE", "REFERENCE_TYPE", "ARRAY_TYPE", "OFFSET_TYPE",
                    "ENUMERAL_TYPE"} => parts = <<>>
  BY Zenon DEF DumpTreeNode
<1>14. QED
  BY <1>2, <1>3, <1>4, <1>5, <1>6, <1>7, <1>8, <1>9, <1>10, <1>11, <1>12, <1>13, Zenon

(* A node that is asked for and is its own index has a fine element.       *)
LEMMA NamedCanBePrinted ==
    ASSUME NEW T, Formed(T), NEW n \in DOMAIN T, XmlAddNode(T)[n][0].index = n
    PROVE  TypesNamed(T, n) \subseteq CanBeNamed(T) /\ NodesNamed(T, n) \subseteq DumpedOrTemplate(T)
<1> DEFINE A == XmlAddNode(T)
           named == CanBeNamed(T)
           dumped == OrNone(AreDumped(T, A)) \cup NodesOf(T, "TEMPLATE_DECL")
<1>1. \A m \in DOMAIN T : A[m][0].index = m =>
          TypesNamed(T, m) \subseteq named /\ NodesNamed(T, m) \subseteq dumped
  BY Zenon DEF Formed, WellFormed, NamedIsDumped
<1> HIDE DEF A, named, dumped
<1>2. TypesNamed(T, n) \subseteq named /\ NodesNamed(T, n) \subseteq dumped
  BY <1>1 DEF A
<1>3. QED BY <1>2 DEF named, dumped, A, DumpedOrTemplate, Dumped

(* The same for the node that an element names as its context.             *)
LEMMA ContextOfElement ==
    ASSUME NEW T, Formed(T), NEW d \in DOMAIN T,
           T[d].code \in {"NAMESPACE_DECL", "TYPE_DECL", "FUNCTION_DECL", "VAR_DECL", "FIELD_DECL"},
           T[d].context \in DumpedOrTemplate(T)
    PROVE  Context(T, XmlAddNode(T), d) \in FineParts(T)
<1>1. T[d].context \in OrNone(DOMAIN T \ NodesOf(T, "TEMPLATE_DECL"))
  BY DEF Formed, WellFormed, Accessors
<1>2. T[d].context \in OrNone(Dumped(T))
  BY <1>1 DEF DumpedOrTemplate, OrNone
<1>3. QED BY <1>2, ContextIsFine

(* Namespaces and their aliases.                                           *)
LEMMA NamespaceIsFine ==
    ASSUME NEW T, Formed(T), NEW n \in DOMAIN T, NEW c \in {0, 1}, T[n].code = "NAMESPACE_DECL",
           NodesNamed(T, n) \subseteq DumpedOrTemplate(T)
    PROVE  OutputNamespaceDecl(T, XmlAddNode(T), n, c) \in FineParts(T)
<1> DEFINE A == XmlAddNode(T)
<1>1. Context(T, A, n) \in FineParts(T)
  BY NamedByKind, ContextOfElement
<1>2. T[n].members \in Seq(NoVariants(T))
  <2>1. T[n].members \in Seq(DeclNodes(T))
    BY DEF Formed, WellFormed, Accessors
  <2>2. QED BY <2>1, DeclsAreNoVariants
<1>3. ReferAny(A, T[n].members, 1) \in FineParts(T)
  BY <1>2, ReferAnyIsFine
<1>4. Refer(A, RealNamespace(T, n), 0) \in Fine(T)
  <2>1. RealNamespace(T, n) \in AreDumped(T, A)
    BY NamespacesAreReal DEF NodesOf, Dumped
  <2>2. QED BY <2>1, ReferIsFine
<1> HIDE DEF A
<1>5. QED BY <1>1, <1>3, <1>4 DEF OutputNamespaceDecl, When, FineParts, A

(* Variables, fields and typedefs.                                         *)
LEMMA VariableIsFine ==
    ASSUME NEW T, Formed(T), NEW n \in DOMAIN T, NEW c \in {0, 1},
           T[n].code \in {"TYPE_DECL", "VAR_DECL", "FIELD_DECL"},
           TypesNamed(T, n) \subseteq CanBeNamed(T), NodesNamed(T, n) \subseteq DumpedOrTemplate(T)
    PROVE  /\ T[n].code = "TYPE_DECL" => OutputTypedef(T, XmlAddNode(T), n, c) \in FineParts(T)
           /\ T[n].code # "TYPE_DECL" => OutputVarDecl(T, XmlAddNode(T), n, c) \in FineParts(T)
<1> DEFINE A == XmlAddNode(T)
<1>1. Context(T, A, n) \in FineParts(T)
  BY NamedByKind, ContextOfElement
<1>2. Location(T, n) \in Fine(T)
  <2>1. T[n].file \in File
    BY DEF Formed, WellFormed, Accessors
  <2>2. QED BY <2>1, LocationIsFine
<1>3. \A t \in TypesNamed(T, n) : PrintTypeIdref(T, A, t, c) \in Fine(T)
  BY PrintTypeIdrefIsFine
<1>4. CASE T[n].code = "TYPE_DECL"
  <2> DEFINE t == IF T[n].original # None THEN T[n].original ELSE T[n].type
  <2>1. t \in TypesNamed(T, n)
    <3>1. T[n].type # None
      BY <1>4 DEF Formed, WellFormed, Accessors, TypeNodes
    <3>2. QED BY <1>4, <3>1, NamedByKind
  <2>2. PrintTypeIdref(T, A, t, c) \in Fine(T)
    BY <1>3, <2>1
  <2>3. OutputTypedef(T, A, n, c) = <<PrintTypeIdref(T, A, t, c)>> \o Context(T, A, n) \o <<Location(T, n)>>
    BY DEF OutputTypedef
  <2> HIDE DEF t, A
  <2>4. QED BY <1>1, <1>2, <1>4, <2>2, <2>3 DEF FineParts, A
<1>5. CASE T[n].code # "TYPE_DECL"
  <2>1. PrintTypeIdref(T, A, T[n].type, c) \in Fine(T)
    BY <1>3, <1>5, NamedByKind
  <2> HIDE DEF A
  <2>2. QED BY <1>1, <1>2, <1>5, <2>1 DEF FineParts, OutputVarDecl, A
<1>6. QED BY <1>4, <1>5

(* Functions and methods.                                                  *)
LEMMA FunctionIsFine ==
    ASSUME NEW T, Formed(T), NEW n \in DOMAIN T, NEW c \in {0, 1}, T[n].code = "FUNCTION_DECL",
           TypesNamed(T, n) \subseteq CanBeNamed(T), NodesNamed(T, n) \subseteq DumpedOrTemplate(T)
    PROVE  OutputFunctionDecl(T, XmlAddNode(T), n, c) \in FineParts(T)
<1> DEFINE A == XmlAddNode(T)
<1>1. /\ T[n].throws \in Seq(TypeNodes(T)) /\ T[n].args \in Seq(TypeNodes(T))
      /\ T[n].befriending \in Seq(DOMAIN T) /\ T[n].file \in File
      /\ T[n].virtual => T[n].context \in NodesOf(T, "RECORD_TYPE")
  BY DEF Formed, WellFormed, Accessors
<1>2. /\ T[n].returns \in CanBeNamed(T) /\ Range(T[n].throws) \subseteq CanBeNamed(T)
      /\ Range(T[n].args) \subseteq CanBeNamed(T) /\ T[n].context \in DumpedOrTemplate(T)
      /\ Range(T[n].befriending) \subseteq DumpedOrTemplate(T)
  BY NamedByKind
<1>3. T[n].throws \in Seq(CanBeNamed(T)) /\ T[n].args \in Seq(CanBeNamed(T))
  BY <1>1, <1>2, InRange
<1>4. When(T[n].kind \notin {"Constructor", "Destructor"},
           <<PrintTypeIdref(T, A, T[n].returns, c)>>) \in FineParts(T)
  <2>1. PrintTypeIdref(T, A, T[n].returns, c) \in Fine(T)
    BY <1>2, PrintTypeIdrefIsFine
  <2> HIDE DEF A
  <2>2. QED BY <2>1 DEF When, FineParts
<1>5. When(T[n].kind \in {"Destructor", "Converter", "OperatorMethod", "Method"},
           Overrides(T, A, n)) \in FineParts(T)
  <2>1. Overrides(T, A, n) \in FineParts(T)
    BY <1>1, OverridesIsFine
  <2> HIDE DEF A
  <2>2. QED BY <2>1 DEF When, FineParts
<1>6. PrintTypes(T, A, T[n].throws, c) \in FineParts(T)
  BY <1>3, PrintTypesIsFine
<1>7. Context(T, A, n) \in FineParts(T)
  BY <1>2, ContextOfElement
<1>8. Location(T, n) \in Fine(T)
  BY <1>1, LocationIsFine
<1>9. Befriending(T, A, T[n].befriending) \in FineParts(T)
  BY <1>1, <1>2, BefriendingIsFine
<1>10. OutputArguments(T, A, n, c) \in FineParts(T)
  BY <1>1, <1>3, ArgumentsAreFine
<1> HIDE DEF A
<1>11. QED BY <1>4, <1>5, <1>6, <1>7, <1>8, <1>9, <1>10 DEF OutputFunctionDecl, FineParts, A

(* Classes.                                                                *)
LEMMA RecordIsFine ==
    ASSUME NEW T, Formed(T), NEW n \in DOMAIN T, NEW c \in {0, 1}, T[n].code = "RECORD_TYPE",
           T[n].name # None, NodesNamed(T, n) \subseteq DumpedOrTemplate(T)
    PROVE  OutputRecordType(T, XmlAddNode(T), n, c) \in FineParts(T)
<1> DEFINE A == XmlAddNode(T)
           inFields == {f \in Range(T[n].fields) : IsMemberField(T, n, f)}
           inMethods == {m \in Range(T[n].methods) : IsMemberMethod(T, m)}
           fields == Chosen(T[n].fields, inFields)
           methods == Chosen(T[n].methods, inMethods)
           members == ReferAny(A, fields \o methods, 1)
           bases == ReferAll(A, T[n].bases, 1)
           td == T[n].name
<1>1. /\ T[n].fields \in Seq(DeclNodes(T)) /\ T[n].methods \in Seq(DeclNodes(T))
      /\ T[n].bases \in Seq(NodesOf(T, "RECORD_TYPE")) /\ T[n].befriending \in Seq(DOMAIN T)
  BY DEF Formed, WellFormed, Accessors
<1>2. td \in DOMAIN T /\ T[td].code = "TYPE_DECL" /\ T[td].file \in File
  <2>1. n \in TypeNodes(T)
    BY DEF TypeNodes, Decl
  <2>2. td \in DOMAIN T /\ T[td].code = "TYPE_DECL"
    BY <2>1 DEF Formed, WellFormed, Accessors, OrNone, NodesOf
  <2>3. QED BY <2>2 DEF Formed, WellFormed, Accessors
<1>3. /\ T[td].context \in DumpedOrTemplate(T)
      /\ Range(T[n].befriending) \subseteq DumpedOrTemplate(T)
      /\ Range(T[n].bases) \subseteq DumpedOrTemplate(T)
  BY NamedByKind
<1>4. Context(T, A, td) \in FineParts(T) /\ Location(T, td) \in Fine(T)
  BY <1>2, <1>3, ContextOfElement, LocationIsFine
<1>5. Befriending(T, A, T[n].befriending) \in FineParts(T)
  BY <1>1, <1>3, BefriendingIsFine
<1>6. members \in FineParts(T)
  <2>1. fields \in Seq(DeclNodes(T)) /\ methods \in Seq(DeclNodes(T))
    <3> HIDE DEF inFields, inMethods
    <3>1. fields \in Seq(DeclNodes(T) \cap inFields) /\ methods \in Seq(DeclNodes(T) \cap inMethods)
      BY <1>1, ChosenMembers
    <3> HIDE DEF fields, methods
    <3>2. QED BY <3>1
  <2> HIDE DEF fields, methods
  <2>2. fields \o methods \in Seq(DeclNodes(T))
    BY <2>1
  <2>3. fields \o methods \in Seq(NoVariants(T))
    BY <2>2, DeclsAreNoVariants
  <2>4. QED BY <2>3, ReferAnyIsFine
<1>7. bases \in FineParts(T)
  <2>1. Range(T[n].bases) \subseteq Dumped(T)
    <3>1. Range(T[n].bases) \subseteq NodesOf(T, "RECORD_TYPE")
      BY <1>1 DEF Range
    <3>2. QED BY <1>3, <3>1 DEF DumpedOrTemplate, OrNone, NodesOf, Formed
  <2>2. T[n].bases \in Seq(Dumped(T))
    BY <1>1, <2>1, InRange
  <2>3. QED BY <2>2, ReferAllIsFine
<1>8. OutputRecordType(T, A, n, c)
         = Context(T, A, td) \o <<Location(T, td)>> \o Befriending(T, A, T[n].befriending)
              \o When(c = 1 /\ T[n].defined, members \o bases \o bases)
  BY DEF OutputRecordType
<1> HIDE DEF A, members, bases, td
<1>9. When(c = 1 /\ T[n].defined, members \o bases \o bases) \in FineParts(T)
  BY <1>6, <1>7 DEF When, FineParts
<1>10. QED BY <1>4, <1>5, <1>8, <1>9 DEF FineParts, A

(* Types that are no classes.                                              *)
LEMMA TypeIsFine ==
    ASSUME NEW T, Formed(T), NEW n \in TypeNodes(T), NEW c \in {0, 1},
           TypesNamed(T, n) \subseteq CanBeNamed(T), NodesNamed(T, n) \subseteq DumpedOrTemplate(T)
    PROVE  LET A == XmlAddNode(T)
               code == T[n].code
           IN /\ code = "FUNCTION_TYPE" => OutputFunctionType(T, A, n, c) \in FineParts(T)
              /\ code = "METHOD_TYPE" => OutputMethodType(T, A, n, c) \in FineParts(T)
              /\ code \in {"POINTER_TYPE", "REFERENCE_TYPE"} => OutputPointerType(T, A, n) \in FineParts(T)
              /\ code = "ARRAY_TYPE" => OutputArrayType(T, A, n, c) \in FineParts(T)
              /\ code = "OFFSET_TYPE" => OutputOffsetType(T, A, n, c) \in FineParts(T)
              /\ code = "ENUMERAL_TYPE" => OutputEnumeralType(T, A, n) \in FineParts(T)
<1> DEFINE A == XmlAddNode(T)
           code == T[n].code
<1>0. n \in DOMAIN T
  BY DEF TypeNodes
<1>1. \A t \in TypesNamed(T, n) : \A d \in {0, 1} : PrintTypeIdref(T, A, t, d) \in Fine(T)
  BY PrintTypeIdrefIsFine
<1>2. code \in {"OFFSET_TYPE", "METHOD_TYPE"} => Refer(A, T[n].basetype, c) \in Fine(T)
  <2> SUFFICES ASSUME code \in {"OFFSET_TYPE", "METHOD_TYPE"} PROVE Refer(A, T[n].basetype, c) \in Fine(T)
    OBVIOUS
  <2>1. T[n].basetype \in TypeNodes(T)
    BY <1>0 DEF Formed, WellFormed, Accessors
  <2>2. T[n].basetype \in DumpedOrTemplate(T)
    BY NamedByKind
  <2>3. T[n].basetype \in AreDumped(T, A)
    BY <2>1, <2>2 DEF DumpedOrTemplate, OrNone, NodesOf, TypeNodes, Formed, Decl, Dumped
  <2>4. QED BY <2>3, ReferIsFine
<1>3. code \in {"FUNCTION_TYPE", "METHOD_TYPE"} => OutputFunctionType(T, A, n, c) \in FineParts(T)
  <2> SUFFICES ASSUME code \in {"FUNCTION_TYPE", "METHOD_TYPE"}
               PROVE  OutputFunctionType(T, A, n, c) \in FineParts(T)
    OBVIOUS
  <2>1. T[n].returns \in TypesNamed(T, n) /\ Range(T[n].args) \subseteq CanBeNamed(T)
    BY NamedByKind
  <2>2. T[n].args \in Seq(TypeNodes(T))
    BY <1>0 DEF Formed, WellFormed, Accessors
  <2>3. T[n].args \in Seq(CanBeNamed(T))
    BY <2>1, <2>2, InRange
  <2>4. PrintTypes(T, A, T[n].args, c) \in FineParts(T)
    BY <2>3, PrintTypesIsFine
  <2>5. PrintTypeIdref(T, A, T[n].returns, c) \in Fine(T)
    BY <1>1, <2>1
  <2> HIDE DEF A
  <2>6. QED BY <2>4, <2>5 DEF OutputFunctionType, FineParts
<1>4. code = "METHOD_TYPE" => OutputMethodType(T, A, n, c) \in FineParts(T)
  <2> HIDE DEF A
  <2>1. QED BY <1>2, <1>3 DEF OutputMethodType, FineParts
<1>5. code \in {"POINTER_TYPE", "REFERENCE_TYPE", "ARRAY_TYPE", "OFFSET_TYPE"} =>
         \A d \in {0, 1} : PrintTypeIdref(T, A, T[n].type, d) \in Fine(T)
  <2> HIDE DEF A
  <2>1. QED BY <1>1, NamedByKind
<1>6. code \in {"POINTER_TYPE", "REFERENCE_TYPE"} => OutputPointerType(T, A, n) \in FineParts(T)
  <2> HIDE DEF A
  <2>1. QED BY <1>5 DEF OutputPointerType, FineParts
<1>7. code = "ARRAY_TYPE" => OutputArrayType(T, A, n, c) \in FineParts(T)
  <2> HIDE DEF A
  <2>1. QED BY <1>5 DEF OutputArrayType, FineParts
<1>8. code = "OFFSET_TYPE" => OutputOffsetType(T, A, n, c) \in FineParts(T)
  <2> HIDE DEF A
  <2>1. QED BY <1>2, <1>5 DEF OutputOffsetType, FineParts
<1>9. code = "ENUMERAL_TYPE" => OutputEnumeralType(T, A, n) \in FineParts(T)
  <2> SUFFICES ASSUME code = "ENUMERAL_TYPE" PROVE OutputEnumeralType(T, A, n) \in FineParts(T)
    OBVIOUS
  <2> DEFINE td == T[n].name
  <2>1. td # None
    BY <1>0 DEF Formed, WellFormed, Accessors
  <2>2. td \in DOMAIN T /\ T[td].code = "TYPE_DECL"
    BY <1>0, <2>1 DEF Formed, WellFormed, Accessors, OrNone, NodesOf
  <2>3. T[td].file \in File
    BY <2>2 DEF Formed, WellFormed, Accessors
  <2>4. T[td].context \in DumpedOrTemplate(T)
    BY NamedByKind
  <2>5. Context(T, A, td) \in FineParts(T) /\ Location(T, td) \in Fine(T)
    BY <2>2, <2>3, <2>4, ContextOfElement, LocationIsFine
  <2> HIDE DEF A
  <2>6. QED BY <2>5 DEF OutputEnumeralType, FineParts
<1>10. QED BY <1>3, <1>4, <1>6, <1>7, <1>8, <1>9

(* Every element.                                                          *)
LEMMA ElementIsFine ==
    ASSUME NEW T, Formed(T), NEW n \in DOMAIN T, XmlAddNode(T)[n][0].index = n, NEW c \in {0, 1}
    PROVE  DumpTreeNode(T, XmlAddNode(T), n, c) \in FineParts(T)
<1> DEFINE A == XmlAddNode(T)
           code == T[n].code
           parts == DumpTreeNode(T, A, n, c)
<1>1. TypesNamed(T, n) \subseteq CanBeNamed(T) /\ NodesNamed(T, n) \subseteq DumpedOrTemplate(T)
  BY NamedCanBePrinted
<1>2. CASE IsVariant(T, n)
  BY <1>2, VariantIsFine, OutputByKind DEF FineParts
<1>3. CASE ~IsVariant(T, n)
  <2>1. CASE code = "NAMESPACE_DECL"
    BY <1>1, <1>3, <2>1, NamespaceIsFine, OutputByKind
  <2>2. CASE code \in {"TYPE_DECL", "VAR_DECL", "FIELD_DECL"}
    <3>1. /\ code = "TYPE_DECL" => OutputTypedef(T, A, n, c) \in FineParts(T)
          /\ code # "TYPE_DECL" => OutputVarDecl(T, A, n, c) \in FineParts(T)
      BY <1>1, <2>2, VariableIsFine
    <3>2. /\ code = "TYPE_DECL" => parts = OutputTypedef(T, A, n, c)
          /\ code # "TYPE_DECL" => parts = OutputVarDecl(T, A, n, c)
      BY <1>3, <2>2, OutputByKind
    <3>3. QED BY <3>1, <3>2
  <2>3. CASE code = "FUNCTION_DECL"
    BY <1>1, <1>3, <2>3, FunctionIsFine, OutputByKind
  <2>4. CASE code = "RECORD_TYPE"
    <3>1. n \in TypeNodes(T)
      BY <2>4 DEF TypeNodes, Decl
    <3>2. T[n].ptrmemfunc = None
      <4> SUFFICES ASSUME T[n].ptrmemfunc # None PROVE FALSE
        OBVIOUS
      <4> DEFINE p == T[n].ptrmemfunc
      <4>1. A[n][0] = Real(p, 0) /\ p \in NodesOf(T, "POINTER_TYPE")
        BY <2>4, <3>1, TypeAnswers
      <4>2. p \in DOMAIN T /\ T[p].code = "POINTER_TYPE"
        BY <4>1 DEF NodesOf
      <4>3. A[n][0].index = p
        BY <4>1, <4>2, RealIsAnAnswer
      <4>4. QED BY <2>4, <4>2, <4>3
    <3>3. T[n].name # None
      BY <2>4, <3>2 DEF Formed, WellFormed, Accessors
    <3>4. OutputRecordType(T, A, n, c) \in FineParts(T)
      BY <1>1, <2>4, <3>3, RecordIsFine
    <3>5. QED BY <1>3, <2>4, <3>4, OutputByKind
  <2>5. CASE code \in {"FUNCTION_TYPE", "METHOD_TYPE", "POINTER_TYPE", "REFERENCE_TYPE",
                       "ARRAY_TYPE", "OFFSET_TYPE", "ENUMERAL_TYPE"}
    <3>1. n \in TypeNodes(T)
      BY <2>5 DEF TypeNodes, Decl
    <3>2. /\ code = "FUNCTION_TYPE" => OutputFunctionType(T, A, n, c) \in FineParts(T)
          /\ code = "METHOD_TYPE" => OutputMethodType(T, A, n, c) \in FineParts(T)
          /\ code \in {"POINTER_TYPE", "REFERENCE_TYPE"} => OutputPointerType(T, A, n) \in FineParts(T)
          /\ code = "ARRAY_TYPE" => OutputArrayType(T, A, n, c) \in FineParts(T)
          /\ code = "OFFSET_TYPE" => OutputOffsetType(T, A, n, c) \in FineParts(T)
          /\ code = "ENUMERAL_TYPE" => OutputEnumeralType(T, A, n) \in FineParts(T)
      BY <1>1, <3>1, TypeIsFine
    <3>3. /\ code = "FUNCTION_TYPE" => parts = OutputFunctionType(T, A, n, c)
          /\ code = "METHOD_TYPE" => parts = OutputMethodType(T, A, n, c)
          /\ code \in {"POINTER_TYPE", "REFERENCE_TYPE"} => parts = OutputPointerType(T, A, n)
          /\ code = "ARRAY_TYPE" => parts = OutputArrayType(T, A, n, c)
          /\ code = "OFFSET_TYPE" => parts = OutputOffsetType(T, A, n, c)
          /\ code = "ENUMERAL_TYPE" => parts = OutputEnumeralType(T, A, n)
      BY <1>3, OutputByKind
    <3> HIDE DEF A, parts
    <3>4. QED BY <2>5, <3>2, <3>3 DEF A, parts
  <2>6. CASE code \notin {"NAMESPACE_DECL", "TYPE_DECL", "FUNCTION_DECL", "VAR_DECL",
                          "FIELD_DECL", "RECORD_TYPE", "FUNCTION_TYPE", "METHOD_TYPE",
                          "POINTER_TYPE", "REFERENCE_TYPE", "ARRAY_TYPE", "OFFSET_TYPE",
                          "ENUMERAL_TYPE"}
    <3>1. parts = <<>>
      BY <1>3, <2>6, OutputByKind
    <3> HIDE DEF parts
    <3>2. parts \in FineParts(T)
      BY <3>1 DEF FineParts
    <3>3. QED BY <3>2 DEF parts
  <2> HIDE DEF parts, A
  <2>7. QED BY <2>1, <2>2, <2>3, <2>4, <2>5, <2>6 DEF parts, A
<1>4. QED BY <1>2, <1>3

-----------------------------------------------------------------------------
(* Scripts.                                                                *)

(* The requests of an element, and its references.                         *)
LEMMA ElementRefers ==
    ASSUME NEW T, Formed(T), NEW n \in DOMAIN T, XmlAddNode(T)[n][0].index = n, NEW c \in {0, 1}
    PROVE  LET element == Join(DumpTreeNode(T, XmlAddNode(T), n, c))
           IN /\ \A m \in Asked(element) : IsOwn(XmlAddNode(T), m)
              /\ \A id \in References(T, n, c) :
                    \E m \in Asked(element) : id \in DeclaredIds(T, XmlAddNode(T), m)
<1> DEFINE parts == DumpTreeNode(T, XmlAddNode(T), n, c)
           element == Join(parts)
<1>1. parts \in Seq(Fine(T))
  BY ElementIsFine DEF FineParts
<1>2. References(T, n, c) = element.refs
  BY DEF References
<1> HIDE DEF parts
<1>3. \A i \in DOMAIN parts : FineAsked(T, parts[i]) /\ FineRefs(T, parts[i])
  <2> SUFFICES ASSUME NEW i \in DOMAIN parts PROVE FineAsked(T, parts[i]) /\ FineRefs(T, parts[i])
    OBVIOUS
  <2>1. parts[i] \in Fine(T)
    BY <1>1
  <2>2. QED BY <2>1 DEF Fine
<1>4. parts \in Seq(PartsOf(T))
  <2>1. Fine(T) \subseteq PartsOf(T)
    BY DEF Fine
  <2>2. QED BY <1>1, <2>1
<1>5. /\ Range(element.ops) = UNION {Range(parts[i].ops) : i \in DOMAIN parts}
      /\ element.refs = UNION {parts[i].refs : i \in DOMAIN parts}
  <2>1. parts \in Seq(Parts(Requests(DOMAIN T) \cup FileOp, OrNone(DOMAIN T), AllIds(T)))
    BY <1>4 DEF PartsOf
  <2>2. QED BY <2>1, JoinParts
<1> HIDE DEF element
<1>6. \A m \in Asked(element) : \E i \in DOMAIN parts : m \in Asked(parts[i])
  BY <1>5 DEF Asked
<1>7. \A i \in DOMAIN parts : Asked(parts[i]) \subseteq Asked(element)
  BY <1>5 DEF Asked
<1>8. \A m \in Asked(element) : IsOwn(XmlAddNode(T), m)
  BY <1>3, <1>6 DEF FineAsked
<1>9. \A id \in element.refs : \E m \in Asked(element) : id \in DeclaredIds(T, XmlAddNode(T), m)
  BY <1>3, <1>5, <1>7 DEF FineRefs
<1>10. QED BY <1>2, <1>8, <1>9 DEF element, parts

(* The nodes asked for are the targets of the requests.                    *)
LEMMA TargetsAreAsked ==
    ASSUME NEW p
    PROVE  Reach!Targets(p.ops) = Asked(p)
  BY DEF Reach!Targets, Asked, Range

(* The trees of the units are well formed.                                 *)
LEMMA UnitsHaveTrees ==
    ASSUME NEW u \in Unit
    PROVE  Formed(Tree[u]) /\ DOMAIN Tree[u] = Node
  BY ScriptsComeFromTrees, TreesAreWellFormed DEF Formed

(* Starts and elements ask for nodes with an index of their own only.      *)
LEMMA ScriptsAskForOwn ==
    ASSUME NEW u \in Unit
    PROVE  LET A == XmlAddNode(Tree[u])
           IN /\ \A m \in Reach!Targets(Start[u]) : IsOwn(A, m)
              /\ \A n \in Node : \A c \in {0, 1} : \A m \in Reach!Targets(Script[u][n][c]) : IsOwn(A, m)
              /\ \A n \in Node : \A c \in {0, 1} : IsOwn(A, n) =>
                    \A id \in References(Tree[u], n, c) :
                       \E m \in Reach!Targets(Script[u][n][c]) : id \in DeclaredIds(Tree[u], A, m)
<1> DEFINE T == Tree[u]
           A == XmlAddNode(T)
           Element(n, c) == Join(DumpTreeNode(T, A, n, c))
<1>1. Formed(T) /\ DOMAIN T = Node
  BY UnitsHaveTrees
<1>2. ASSUME NEW n \in Node, NEW c \in {0, 1}
      PROVE  Script[u][n][c] = IF A[n][c].index # n THEN <<>> ELSE Element(n, c).ops
  <2>1. Script[u] = [m \in DOMAIN T |-> [d \in {0, 1} |->
                        IF A[m][d].index # m THEN <<>> ELSE Element(m, d).ops]]
    BY ScriptsComeFromTrees DEF ScriptOf
  <2> HIDE DEF A, Element
  <2>2. QED BY <1>1, <2>1
<1>3. ASSUME NEW m \in Reach!Targets(Start[u]) PROVE IsOwn(A, m)
  <2> DEFINE starts == AddAll(A, Starts[u], 1)
  <2>1. Start[u] = starts.ops /\ Starts[u] \in Seq(Node)
    BY ScriptsComeFromTrees, TreesAreWellFormed DEF StartOf
  <2>2. \A k \in Node : A[k][1] \in Answer(Node) /\ \A o \in Asked(A[k][1]) : IsOwn(A, o)
    BY <1>1, AddNodeIsSound DEF Sound, Answers
  <2>3. \A o \in Range(starts.ops) : \E k \in Range(Starts[u]) : o \in Range(A[k][1].ops)
    <3>1. \A k \in Node : A[k][1] \in Answer(Node)
      BY <2>2
    <3> HIDE DEF A
    <3>2. QED BY <2>1, <3>1, AddAllIsAnAnswer
  <2> HIDE DEF starts, A
  <2>4. m \in Asked(starts)
    BY <2>1, TargetsAreAsked
  <2>5. PICK k \in Range(Starts[u]) : m \in Asked(A[k][1])
    BY <2>3, <2>4 DEF Asked
  <2>6. k \in Node
    BY <2>1, <2>5 DEF Range
  <2>7. QED BY <2>2, <2>5, <2>6
<1>4. ASSUME NEW n \in Node, NEW c \in {0, 1}, A[n][c].index = n
      PROVE  /\ \A m \in Reach!Targets(Script[u][n][c]) : IsOwn(A, m)
             /\ \A id \in References(T, n, c) :
                   \E m \in Reach!Targets(Script[u][n][c]) : id \in DeclaredIds(T, A, m)
  <2>1. A[n][0].index = n
    <3>1. A[n][0].index = A[n][1].index
      BY <1>1, AddNodeIsSound DEF Sound
    <3> HIDE DEF A
    <3>2. QED BY <1>4, <3>1
  <2>2. /\ \A m \in Asked(Element(n, c)) : IsOwn(A, m)
        /\ \A id \in References(T, n, c) :
              \E m \in Asked(Element(n, c)) : id \in DeclaredIds(T, A, m)
    BY <1>1, <2>1, ElementRefers
  <2> HIDE DEF A, Element
  <2>3. Script[u][n][c] = Element(n, c).ops
    BY <1>2, <1>4
  <2>4. Reach!Targets(Script[u][n][c]) = Asked(Element(n, c))
    BY <2>3, TargetsAreAsked
  <2>5. QED BY <2>2, <2>4
<1>5. ASSUME NEW n \in Node, NEW c \in {0, 1}, A[n][c].index # n
      PROVE  Reach!Targets(Script[u][n][c]) = {}
  BY <1>2, <1>5, NoTargets
<1> HIDE DEF A, T
<1>6. \A n \in Node : \A c \in {0, 1} : \A m \in Reach!Targets(Script[u][n][c]) : IsOwn(A, m)
  BY <1>4, <1>5
<1>7. \A n \in Node : \A c \in {0, 1} : IsOwn(A, n) =>
         \A id \in References(T, n, c) :
            \E m \in Reach!Targets(Script[u][n][c]) : id \in DeclaredIds(T, A, m)
  BY <1>4 DEF IsOwn
<1>8. QED BY <1>3, <1>6, <1>7 DEF A, T

(* Whatever the dumper has met has an index of its own.                    *)
LEMMA MetIsOwn ==
    ASSUME TypeOK, Dumping
    PROVE  \A n \in Met : IsOwn(XmlAddNode(Tree[tu]), n)
<1> DEFINE A == XmlAddNode(Tree[tu])
<1>1. tu \in Unit /\ Full \subseteq Node /\ Partial \subseteq Node
  <2>1. tu \in Unit
    BY DEF TypeOK
  <2>2. QED BY <2>1, PrintedParts DEF Dumping
<1>2. /\ \A m \in Reach!Targets(Start[tu]) : IsOwn(A, m)
      /\ \A n \in Node : \A c \in {0, 1} : \A m \in Reach!Targets(Script[tu][n][c]) : IsOwn(A, m)
  BY <1>1, ScriptsAskForOwn
<1> HIDE DEF A
<1>3. \A m \in Mentioned : IsOwn(A, m)
  BY <1>1, <1>2 DEF Mentioned, Reach!Mentioned
<1>4. \A m \in Reach!Targets(Running) : IsOwn(A, m)
  <2>1. CASE current = NoNode
    BY <1>2, <2>1 DEF Running
  <2>2. CASE current # NoNode
    <3>1. current \in Node /\ complete[current] \in {0, 1}
      BY <2>2 DEF TypeOK, Flag
    <3>2. QED BY <1>2, <2>2, <3>1 DEF Running
  <2>3. QED BY <2>1, <2>2
<1>5. QED BY <1>3, <1>4 DEF Dumping, Reasons, A

-----------------------------------------------------------------------------
(* Ids.                                                                    *)

(* The id of a variant with an element is made of the typedef that gives   *)
(* it its title, or of the main variant.                                   *)
LEMMA VariantIds ==
    ASSUME NEW T, Formed(T), NEW t \in DOMAIN T, IsVariant(T, t), IsOwn(XmlAddNode(T), t)
    PROVE  LET A == XmlAddNode(T)
               td == Title(T, A, t)
               named == T[T[td].type]
           IN /\ td = None => IdOf(T, A, t) = Id(T[t].main, T[t].quals)
              /\ td # None => /\ td \in DOMAIN T /\ T[td].code = "TYPE_DECL"
                              /\ IdOf(T, A, t) = Id(td, T[t].quals \ named.quals)
                              /\ named.main = T[t].main /\ named.quals \subseteq T[t].quals
              /\ t \in TypeNodes(T) /\ T[t].main \in TypeNodes(T)
<1> DEFINE A == XmlAddNode(T)
           td == T[t].name
           i == A[td][0].index
<1>1. t \in TypeNodes(T)
  BY DEF IsVariant, QualifiableType, TypeNodes, Decl
<1>2. T[t].main \in TypeNodes(T) /\ td \in OrNone(NodesOf(T, "TYPE_DECL"))
  BY <1>1 DEF Formed, WellFormed, Accessors, TypeNodes
<1>3. T[t].code = "RECORD_TYPE" => T[t].ptrmemfunc = None /\ ~T[t].template
  <2> SUFFICES ASSUME T[t].code = "RECORD_TYPE" PROVE T[t].ptrmemfunc = None /\ ~T[t].template
    OBVIOUS
  <2>1. A[t][0].index = t /\ t # None
    BY DEF IsOwn, Formed
  <2>2. T[t].ptrmemfunc = None
    <3> SUFFICES ASSUME T[t].ptrmemfunc # None PROVE FALSE
      OBVIOUS
    <3> DEFINE p == T[t].ptrmemfunc
    <3>1. A[t][0] = Real(p, 0) /\ p \in NodesOf(T, "POINTER_TYPE")
      BY <1>1, TypeAnswers
    <3>2. p \in DOMAIN T /\ T[p].code = "POINTER_TYPE"
      BY <3>1 DEF NodesOf
    <3>3. A[t][0].index = p
      BY <3>1, <3>2, RealIsAnAnswer
    <3>4. QED BY <2>1, <3>2, <3>3
  <2>3. ~T[t].template
    <3> SUFFICES ASSUME T[t].template PROVE FALSE
      OBVIOUS
    <3>1. A[t][0] = Nothing
      BY <1>1, <2>2, TypeAnswers
    <3>2. QED BY <2>1, <3>1, NothingIsAnAnswer
  <2>4. QED BY <2>2, <2>3
<1>4. /\ T[T[t].main].main = T[t].main /\ T[T[t].main].quals = {}
      /\ td # None => T[T[td].type].main = T[t].main /\ T[T[td].type].quals \subseteq T[t].quals
  BY <1>1 DEF Formed, WellFormed, VariantsAgree
<1>5. CASE td # None /\ i = td
  <2>1. Title(T, A, t) = td
    BY <1>5 DEF Title
  <2>2. IdOf(T, A, t) = Id(td, T[t].quals \ T[T[td].type].quals)
    BY <1>5 DEF IdOf
  <2>3. td \in DOMAIN T /\ T[td].code = "TYPE_DECL"
    BY <1>2, <1>5 DEF OrNone, NodesOf
  <2>4. QED BY <1>1, <1>2, <1>4, <1>5, <2>1, <2>2, <2>3
<1>6. CASE ~(td # None /\ i = td)
  <2>1. Title(T, A, t) = None
    BY <1>6 DEF Title
  <2>2. IdOf(T, A, t) = Id(T[t].main, T[t].quals)
    <3>1. CASE td # None /\ i # None
      <4>1. td \in NodesOf(T, "TYPE_DECL")
        BY <1>2, <3>1 DEF OrNone
      <4>2. i = T[td].type /\ T[i].main = i
        BY <1>6, <3>1, <4>1, TypedefAnswers
      <4>3. i = T[t].main
        BY <1>4, <3>1, <4>2
      <4>4. T[T[td].type].quals = {}
        BY <1>4, <4>2, <4>3
      <4>5. T[t].quals \ T[T[td].type].quals = T[t].quals
        BY <4>4
      <4>6. IdOf(T, A, t) = Id(i, T[t].quals \ T[T[td].type].quals)
        BY <3>1 DEF IdOf
      <4>7. QED BY <4>3, <4>5, <4>6
    <3>2. CASE ~(td # None /\ i # None)
      <4>1. A[T[t].main][0].index = T[t].main
        BY <1>1, <1>3, MainAnswers
      <4>2. QED BY <3>2, <4>1 DEF IdOf
    <3>3. QED BY <3>1, <3>2
  <2>3. QED BY <1>1, <1>2, <2>1, <2>2
<1>7. QED BY <1>5, <1>6

(* Two elements of a document declare no id in common.                     *)
LEMMA DeclaredApart ==
    ASSUME NEW T, Formed(T), NEW m \in DOMAIN T, NEW n \in DOMAIN T, m # n,
           IsOwn(XmlAddNode(T), m), IsOwn(XmlAddNode(T), n)
    PROVE  DeclaredIds(T, XmlAddNode(T), m) \cap DeclaredIds(T, XmlAddNode(T), n) = {}
<1> DEFINE A == XmlAddNode(T)
           x == IdOf(T, A, m)
           y == IdOf(T, A, n)
<1>1. /\ ~IsVariant(T, m) => DeclaredIds(T, A, m) = {Id(m, {})}
      /\ IsVariant(T, m) => DeclaredIds(T, A, m) = {i \in {x} : i.quals # {}}
      /\ ~IsVariant(T, n) => DeclaredIds(T, A, n) = {Id(n, {})}
      /\ IsVariant(T, n) => DeclaredIds(T, A, n) = {i \in {y} : i.quals # {}}
  BY ElementsDeclare
<1>2. ASSUME IsVariant(T, m), IsVariant(T, n), x = y, x.quals # {} PROVE FALSE
  <2> DEFINE p == Title(T, A, m)
             q == Title(T, A, n)
  <2>1. /\ p = None => x = Id(T[m].main, T[m].quals)
        /\ p # None => /\ p \in DOMAIN T /\ T[p].code = "TYPE_DECL"
                       /\ x = Id(p, T[m].quals \ T[T[p].type].quals)
                       /\ T[T[p].type].main = T[m].main /\ T[T[p].type].quals \subseteq T[m].quals
        /\ m \in TypeNodes(T) /\ T[m].main \in TypeNodes(T)
    BY <1>2, VariantIds
  <2>2. /\ q = None => y = Id(T[n].main, T[n].quals)
        /\ q # None => /\ q \in DOMAIN T /\ T[q].code = "TYPE_DECL"
                       /\ y = Id(q, T[n].quals \ T[T[q].type].quals)
                       /\ T[T[q].type].main = T[n].main /\ T[T[q].type].quals \subseteq T[n].quals
        /\ n \in TypeNodes(T) /\ T[n].main \in TypeNodes(T)
    BY <1>2, VariantIds
  <2>3. \A s \in TypeNodes(T) : T[s].code # "TYPE_DECL"
    BY DEF TypeNodes, Decl
  <2>4. T[m].main = T[n].main /\ T[m].quals = T[n].quals /\ p = q
    <3> HIDE DEF p, q, x, y
    <3>1. \A a, b, r, s : Id(a, r) = Id(b, s) => a = b /\ r = s
      BY DEF Id
    <3>2. CASE p = None /\ q = None
      BY <1>2, <2>1, <2>2, <3>1, <3>2
    <3>3. CASE p # None /\ q # None
      <4> DEFINE r == T[m].quals \ T[T[p].type].quals
                 s == T[n].quals \ T[T[q].type].quals
      <4>0. Id(p, r) = Id(q, s)
        BY <1>2, <2>1, <2>2, <3>3
      <4>1. p = q /\ r = s
        <5> HIDE DEF r, s
        <5>1. QED BY <3>1, <4>0
      <4>2. QED BY <2>1, <2>2, <3>3, <4>1
    <3>4. CASE p = None /\ q # None
      <4> DEFINE s == T[n].quals \ T[T[q].type].quals
      <4>1. Id(T[m].main, T[m].quals) = Id(q, s)
        BY <1>2, <2>1, <2>2, <3>4
      <4>2. T[m].main = q
        <5> HIDE DEF s
        <5>1. QED BY <3>1, <4>1
      <4>3. QED BY <2>1, <2>2, <2>3, <3>4, <4>2
    <3>5. CASE p # None /\ q = None
      <4> DEFINE s == T[m].quals \ T[T[p].type].quals
      <4>1. Id(T[n].main, T[n].quals) = Id(p, s)
        BY <1>2, <2>1, <2>2, <3>5
      <4>2. T[n].main = p
        <5> HIDE DEF s
        <5>1. QED BY <3>1, <4>1
      <4>3. QED BY <2>1, <2>2, <2>3, <3>5, <4>2
    <3>6. QED BY <3>2, <3>3, <3>4, <3>5
  <2>5. m = n \/ T[m].quals = {}
    <3>1. \A s, t \in TypeNodes(T) :
             T[s].main = T[t].main /\ T[s].quals = T[t].quals /\ Title(T, A, s) = Title(T, A, t)
                => s = t \/ T[s].quals = {}
      BY DEF Formed, WellFormed, OneVariantEach
    <3> HIDE DEF A
    <3>2. QED BY <2>1, <2>2, <2>4, <3>1
  <2>6. T[m].quals # {}
    <3>1. x.quals \subseteq T[m].quals
      BY DEF IdOf, Id
    <3>2. QED BY <1>2, <3>1
  <2>7. QED BY <2>5, <2>6
<1>3. \A k : Id(k, {}).quals = {} /\ Id(k, {}).node = k
  BY DEF Id
<1> HIDE DEF x, y, A
<1>4. DeclaredIds(T, A, m) \cap DeclaredIds(T, A, n) = {}
  BY <1>1, <1>2, <1>3
<1>5. QED BY <1>4 DEF A

-----------------------------------------------------------------------------
(* The document.                                                           *)

(* In a quiet unit no two elements of the document declare the same id,    *)
(* although the id of a qualified type is made up from the index of        *)
(* another node.                                                           *)
THEOREM IdsAreUnique ==
    ASSUME QuietUnits
    PROVE  Spec => []UniqueIds
<1>1. ASSUME TypeOK, Dumping PROVE UniqueIds
  <2> SUFFICES ASSUME NEW i \in DOMAIN doc, NEW j \in DOMAIN doc, i # j
               PROVE  Declared(i) \cap Declared(j) = {}
    BY DEF UniqueIds
  <2> DEFINE T == Tree[tu]
             m == doc[i].node
             n == doc[j].node
  <2>1. tu \in Unit
    BY <1>1 DEF TypeOK
  <2>2. Formed(T) /\ DOMAIN T = Node
    BY <2>1, UnitsHaveTrees
  <2>3. m # n
    BY <1>1 DEF Dumping, PrintedOnce
  <2>4. m \in Met /\ n \in Met
    BY <1>1 DEF Dumping, Schedule, Printed
  <2>5. m \in Node /\ n \in Node
    BY <2>4 DEF Met
  <2>6. IsOwn(XmlAddNode(T), m) /\ IsOwn(XmlAddNode(T), n)
    <3>1. \A k \in Met : IsOwn(XmlAddNode(T), k)
      BY <1>1, MetIsOwn
    <3> HIDE DEF T, m, n
    <3>2. QED BY <2>4, <3>1
  <2> HIDE DEF T, m, n
  <2>7. DeclaredIds(T, XmlAddNode(T), m) \cap DeclaredIds(T, XmlAddNode(T), n) = {}
    BY <2>2, <2>3, <2>5, <2>6, DeclaredApart
  <2>8. QED BY <2>7 DEF Declared, T, m, n
<1>2. TypeOK /\ Dumping => UniqueIds
  BY <1>1
<1>3. QED BY <1>2, TypeCorrect, DumpingInductive, PTL

(* In a quiet unit every reference of a closed document leads to one of    *)
(* its elements: what an attribute refers to has been asked for, and what  *)
(* has been asked for is printed.                                          *)
THEOREM ReferencesResolve ==
    ASSUME QuietUnits
    PROVE  Spec => []RefsResolve
<1>1. ASSUME TypeOK, Dumping PROVE RefsResolve
  <2> SUFFICES ASSUME output = "whole", NEW i \in DOMAIN doc, NEW id \in Referred(i)
               PROVE  \E j \in DOMAIN doc : id \in Declared(j)
    BY DEF RefsResolve
  <2> DEFINE T == Tree[tu]
             A == XmlAddNode(T)
             n == doc[i].node
             c == doc[i].complete
  <2>1. tu \in Unit /\ c \in {0, 1} /\ n \in Node
    <3>1. doc[i] \in [node : Node, complete : {0, 1}]
      <4> DEFINE E == [node : Node, complete : {0, 1}]
      <4>1. doc \in Seq(E)
        BY <1>1 DEF TypeOK, Flag
      <4> HIDE DEF E, T, A, n, c
      <4>2. doc[i] \in E
        BY <4>1
      <4>3. QED BY <4>2 DEF E
    <3>2. tu \in Unit
      BY <1>1 DEF TypeOK
    <3>3. QED BY <3>1, <3>2
  <2>2. Mentioned \subseteq Printed
    <3>1. pc = "done"
      BY <1>1 DEF Dumping, Schedule
    <3>2. ReachPhase = "closed"
      BY <3>1 DEF ReachPhase
    <3>3. Mentioned \subseteq Full \cup Partial
      BY <1>1, <3>2 DEF Dumping, ExactlyTheReachable, Reach!AllMentioned, Reach!Mentions,
                        Full, Partial, Mentioned
    <3>4. QED BY <1>1, <3>3, PrintedParts DEF Dumping
  <2>3. Reach!Targets(Script[tu][n][c]) \subseteq Mentioned
    <3>1. c = 1 => n \in Full
      BY DEF Full
    <3>2. c = 0 => n \in Partial
      BY DEF Partial
    <3> HIDE DEF n, c
    <3>3. QED BY <2>1, <3>1, <3>2 DEF Mentioned, Reach!Mentioned
  <2>4. IsOwn(A, n)
    <3>1. n \in Met
      BY <1>1 DEF Dumping, Schedule, Printed
    <3>2. \A k \in Met : IsOwn(A, k)
      BY <1>1, MetIsOwn
    <3> HIDE DEF n, A
    <3>3. QED BY <3>1, <3>2
  <2>5. id \in References(T, n, c)
    BY DEF Referred
  <2>6. PICK m \in Reach!Targets(Script[tu][n][c]) : id \in DeclaredIds(T, A, m)
    <3>1. \A k \in Node : \A d \in {0, 1} : IsOwn(A, k) =>
             \A r \in References(T, k, d) :
                \E m \in Reach!Targets(Script[tu][k][d]) : r \in DeclaredIds(T, A, m)
      BY <2>1, ScriptsAskForOwn
    <3> HIDE DEF n, c, A, T
    <3>2. QED BY <2>1, <2>4, <2>5, <3>1
  <2>7. m \in Printed
    BY <2>2, <2>3, <2>6
  <2>8. PICK j \in DOMAIN doc : doc[j].node = m
    BY <2>7 DEF Printed
  <2>9. id \in Declared(j)
    BY <2>6, <2>8 DEF Declared
  <2>10. QED BY <2>9
<1>2. TypeOK /\ Dumping => RefsResolve
  BY <1>1
<1>3. QED BY <1>2, TypeCorrect, DumpingInductive, PTL
=============================================================================
