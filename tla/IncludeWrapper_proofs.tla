------------------------ MODULE IncludeWrapper_proofs ------------------------
(***************************************************************************)
(* What the search for headers keeps for every set of units, every depth   *)
(* and every nesting of files: #include_next leaves the wrappers, no       *)
(* header is read past its wrapper, and transparent wrappers do not change *)
(* where a header is found.  This is about IncludeSearch alone.            *)
(*                                                                         *)
(* The chains of directories of every command line are the right ones, and *)
(* what this means for the units that are read with them.                  *)
(* remove_duplicates and c_common_handle_option are recursive functions    *)
(* here.  That there are such functions, and what they keep at each step,  *)
(* is shown by counting up to the length of their argument.                *)
(***************************************************************************)
EXTENDS IncludeWrapper, TLAPS, SequenceTheorems, WellFoundedInduction, FiniteSetTheorems

Dirs == DOMAIN unit.place
Paths == Seq(CppDirs(Dirs))
Frames == [dir : Paths \ {<<>>}, name : unit.names, sysp : BOOLEAN, at : Nat,
           body : Seq(Directives(unit.names, Dirs))]

-----------------------------------------------------------------------------
(* Search paths: what they are made of, and what is found in them.         *)

(* A set of numbers that is not empty has a least one.                     *)
LEMMA LeastNumber ==
    ASSUME NEW S \in SUBSET Nat, S # {}
    PROVE  \E k \in S : \A l \in S : k <= l
<1> DEFINE Less == OpToRel(<, Nat)
<1>1. \A l, k \in Nat : l < k => <<l, k>> \in Less
    BY DEF OpToRel
<1>2. IsWellFoundedOn(Less, Nat)
    BY NatLessThanWellFounded, Zenon
<1> HIDE DEF Less
<1>3. PICK k \in S : \A l \in S : ~ (<<l, k>> \in Less)
    BY <1>2, WFMin, Zenon
<1>4. \A l \in S : ~ (l < k)
    BY <1>1, <1>3
<1> QED
    BY <1>4

(* _cpp_find_file returns the first directory that has the file.           *)
LEMMA FirstHit ==
    ASSUME NEW S, NEW path \in Seq(S), NEW name, Hits(path, name) # {}
    PROVE  /\ FindFile(path, name) \in DOMAIN path
           /\ FindFile(path, name) \in Hits(path, name)
           /\ \A l \in Hits(path, name) : FindFile(path, name) <= l
<1>1. Hits(path, name) \in SUBSET Nat
    BY DEF Hits
<1>2. \E k \in Hits(path, name) : \A l \in Hits(path, name) : k <= l
    BY <1>1, LeastNumber
<1> QED
    BY <1>2 DEF FindFile, Hits

(* The first directory is one only.                                        *)
LEMMA FirstHitUnique ==
    ASSUME NEW S, NEW path \in Seq(S), NEW name, NEW k \in Hits(path, name),
           \A l \in Hits(path, name) : k <= l
    PROVE  FindFile(path, name) = k
<1>1. k \in Nat /\ FindFile(path, name) \in Nat
    BY FirstHit DEF Hits
<1>2. k <= FindFile(path, name) /\ FindFile(path, name) <= k
    BY FirstHit
<1> QED
    BY <1>1, <1>2

(* What is known of the unit.                                              *)
LEMMA UnitFacts ==
    ASSUME unit \in Units
    PROVE  /\ unit.wrapper \in Paths /\ unit.quote \in Paths /\ unit.bracket \in Paths
           /\ \A k \in DOMAIN unit.wrapper : unit.wrapper[k].chain = "wrapper"
           /\ \A k \in DOMAIN unit.quote : unit.quote[k].chain # "wrapper"
           /\ \A k \in DOMAIN unit.bracket : unit.bracket[k].chain # "wrapper"
           /\ unit.main \in Dirs /\ "cwd" \in Dirs /\ unit.ignores \in BOOLEAN
           /\ Files \subseteq {unit.place[d] : d \in Dirs} \X unit.names
           /\ \A f \in Files : unit.body[f] \in Seq(Directives(unit.names, Dirs))
           /\ <<unit.place[unit.main], "main">> \in Files
           /\ unit.cmdline \in Seq(Directives(unit.names, Dirs)) /\ unit.guarded \subseteq Files
<1>1. IsUnit(unit)
    BY UnitAssumption
<1> QED
    BY <1>1 DEF IsUnit, Paths, Dirs, Files

(* The stack, without the rest of the type invariant.                      *)
LEMMA FrameFacts ==
    ASSUME TypeOK, NEW i \in DOMAIN stack
    PROVE  /\ stack \in Seq(Frames) /\ stack[i] \in Frames /\ i \in 1..Len(stack)
           /\ stack[i].dir \in Paths /\ stack[i].dir # <<>> /\ Len(stack[i].dir) \in Nat \ {0}
           /\ stack[i].dir[1] \in CppDirs(Dirs) /\ stack[i].dir[1].name \in Dirs
           /\ stack[i].sysp \in BOOLEAN
<1>1. stack \in Seq(Frames) /\ stack[i] \in Frames /\ i \in 1..Len(stack)
    <2>1. stack \in Seq(Frames)
        BY DEF TypeOK, Frames, Paths, Dirs
    <2>2. i \in 1..Len(stack)
        BY <2>1, LenProperties
    <2> QED
        BY <2>1, <2>2, ElementOfSeq
<1>2. stack[i].dir \in Paths /\ stack[i].dir # <<>> /\ stack[i].sysp \in BOOLEAN
    BY <1>1 DEF Frames
<1>3. Len(stack[i].dir) \in Nat \ {0}
    BY <1>2, EmptySeq DEF Paths
<1>4. stack[i].dir[1] \in CppDirs(Dirs)
    BY <1>2, <1>3, ElementOfSeq DEF Paths
<1> QED
    BY <1>1, <1>2, <1>3, <1>4 DEF CppDirs

(* The directory of the including file.                                    *)
LEMMA SourceFacts ==
    ASSUME unit \in Units, TypeOK, NEW i \in DOMAIN stack, NEW d
    PROVE  /\ Source(i, d) \in Dirs /\ SourceSysp(i, d) \in BOOLEAN
           /\ MakeCppDir(i, d) \in CppDirs(Dirs) /\ MakeCppDir(i, d).chain # "wrapper"
<1>1. Source(i, d) \in Dirs
    BY UnitFacts, FrameFacts DEF Source
<1>2. SourceSysp(i, d) \in BOOLEAN
    BY FrameFacts DEF SourceSysp, TypeOK
<1> QED
    BY <1>1, <1>2 DEF MakeCppDir, CppDir, CppDirs, Chains

(* The search path of a directive is one, and has no wrapper.              *)
NoWrapper(path) == \A k \in DOMAIN path : path[k].chain # "wrapper"
LEMMA HeadFacts ==
    ASSUME unit \in Units, TypeOK, NextLeavesWrappers, NEW i \in DOMAIN stack,
           NEW d \in Directives(unit.names, Dirs)
    PROVE  SearchPathHead(i, d) \in Paths /\ NoWrapper(SearchPathHead(i, d))
<1>1. CASE Absolute(d)
    <2> DEFINE e == CppDir(d.at, "none", FALSE)
    <2>1. e \in CppDirs(Dirs) /\ e.chain # "wrapper"
        BY <1>1 DEF Absolute, Directives, CppDir, CppDirs, Chains
    <2>2. SearchPathHead(i, d) = <<e>>
        BY <1>1 DEF SearchPathHead
    <2> HIDE DEF e
    <2> QED
        BY <2>1, <2>2 DEF Paths, NoWrapper
<1>2. CASE ~Absolute(d) /\ Type(i, d) = "include_next"
    <2> DEFINE dir == stack[i].dir
    <2>1. SearchPathHead(i, d) = Tail(dir)
        BY <1>2 DEF SearchPathHead
    <2>2. dir \in Paths /\ dir # <<>>
        BY FrameFacts
    <2>3. /\ Tail(dir) \in Paths /\ Len(Tail(dir)) = Len(dir) - 1 /\ Len(dir) \in Nat
          /\ \A k \in 1..Len(Tail(dir)) : Tail(dir)[k] = dir[k + 1]
        BY <2>2, HeadTailProperties, LenProperties DEF Paths
    <2>4. \A k \in 2..Len(dir) : dir[k].chain # "wrapper"
        BY DEF NextLeavesWrappers
    <2> HIDE DEF dir
    <2>5. DOMAIN Tail(dir) = 1..Len(Tail(dir))
        BY <2>3 DEF Paths
    <2>6. ASSUME NEW k \in DOMAIN Tail(dir)
          PROVE  Tail(dir)[k].chain # "wrapper"
        <3>1. k \in 1..Len(Tail(dir)) /\ k + 1 \in 2..Len(dir)
            BY <2>3, <2>5
        <3> QED
            BY <3>1, <2>3, <2>4
    <2> QED
        BY <2>1, <2>3, <2>6 DEF NoWrapper
<1>3. CASE ~Absolute(d) /\ Type(i, d) # "include_next" /\ ~d.angle /\ Makes(i, d)
    <2> DEFINE e == MakeCppDir(i, d)
    <2>1. e \in CppDirs(Dirs) /\ e.chain # "wrapper"
        BY SourceFacts
    <2>2. SearchPathHead(i, d) = <<e>> \o unit.quote
        BY <1>3 DEF SearchPathHead
    <2>3. unit.quote \in Paths /\ NoWrapper(unit.quote)
        BY UnitFacts DEF NoWrapper
    <2> HIDE DEF e
    <2>4. <<e>> \in Paths /\ Len(<<e>>) = 1 /\ <<e>>[1] = e
        BY <2>1 DEF Paths
    <2> DEFINE head == <<e>> \o unit.quote
    <2>5. /\ head \in Paths /\ Len(head) = 1 + Len(unit.quote)
          /\ \A k \in 1..1 + Len(unit.quote) :
                head[k] = IF k <= 1 THEN <<e>>[k] ELSE unit.quote[k - 1]
        BY <2>3, <2>4, ConcatProperties DEF Paths
    <2> HIDE DEF head
    <2>6. ASSUME NEW k \in DOMAIN head
          PROVE  head[k].chain # "wrapper"
        <3>1. k \in 1..1 + Len(unit.quote) /\ Len(unit.quote) \in Nat
            BY <2>3, <2>5, LenProperties DEF Paths
        <3>2. k # 1 => k - 1 \in DOMAIN unit.quote
            BY <2>3, <3>1 DEF Paths
        <3> QED
            BY <2>1, <2>3, <2>4, <2>5, <3>1, <3>2 DEF NoWrapper
    <2> QED
        BY <2>2, <2>5, <2>6 DEF NoWrapper, head
<1>4. CASE ~Absolute(d) /\ Type(i, d) # "include_next" /\ ~(~d.angle /\ Makes(i, d))
    <2>1. SearchPathHead(i, d) \in {unit.quote, unit.bracket}
        BY <1>4 DEF SearchPathHead
    <2> QED
        BY <2>1, UnitFacts DEF NoWrapper
<1> QED
    BY <1>1, <1>2, <1>3, <1>4

(* The wrappers and a search path are joined for one search.               *)
LEMMA JoinFacts ==
    ASSUME unit \in Units, NEW head \in Paths
    PROVE  /\ unit.wrapper \o head \in Paths
           /\ Len(unit.wrapper) \in Nat /\ Len(head) \in Nat
           /\ DOMAIN unit.wrapper = 1..Len(unit.wrapper) /\ DOMAIN head = 1..Len(head)
           /\ DOMAIN (unit.wrapper \o head) = 1..Len(unit.wrapper) + Len(head)
           /\ Len(unit.wrapper \o head) = Len(unit.wrapper) + Len(head)
           /\ \A k \in 1..Len(unit.wrapper) : (unit.wrapper \o head)[k] = unit.wrapper[k]
           /\ \A k \in 1..Len(head) : (unit.wrapper \o head)[Len(unit.wrapper) + k] = head[k]
<1>1. unit.wrapper \in Paths
    BY UnitFacts
<1>2. /\ unit.wrapper \o head \in Paths
      /\ Len(unit.wrapper \o head) = Len(unit.wrapper) + Len(head)
      /\ \A k \in 1..Len(unit.wrapper) + Len(head) :
            (unit.wrapper \o head)[k] =
                IF k <= Len(unit.wrapper) THEN unit.wrapper[k] ELSE head[k - Len(unit.wrapper)]
    BY <1>1, ConcatProperties DEF Paths
<1>3. /\ Len(unit.wrapper) \in Nat /\ Len(head) \in Nat
      /\ DOMAIN unit.wrapper = 1..Len(unit.wrapper) /\ DOMAIN head = 1..Len(head)
    BY <1>1, LenProperties DEF Paths
<1>4. DOMAIN (unit.wrapper \o head) = 1..Len(unit.wrapper) + Len(head)
    BY <1>2, LenProperties DEF Paths
<1>5. ASSUME NEW k \in 1..Len(head)
      PROVE  (unit.wrapper \o head)[Len(unit.wrapper) + k] = head[k]
    <2>1. /\ Len(unit.wrapper) + k \in 1..Len(unit.wrapper) + Len(head)
          /\ ~(Len(unit.wrapper) + k <= Len(unit.wrapper))
          /\ Len(unit.wrapper) + k - Len(unit.wrapper) = k
        BY <1>3
    <2> QED
        BY <1>2, <2>1
<1>6. ASSUME NEW k \in 1..Len(unit.wrapper)
      PROVE  (unit.wrapper \o head)[k] = unit.wrapper[k]
    <2>1. k \in 1..Len(unit.wrapper) + Len(head) /\ k <= Len(unit.wrapper)
        BY <1>3
    <2> QED
        BY <1>2, <2>1
<1> QED
    BY <1>2, <1>3, <1>4, <1>5, <1>6

(* The rest of a path from a directory on.                                 *)
LEMMA SuffixFacts ==
    ASSUME NEW path \in Paths, NEW k \in DOMAIN path
    PROVE  /\ SubSeq(path, k, Len(path)) \in Paths \ {<<>>}
           /\ Len(SubSeq(path, k, Len(path))) = Len(path) - k + 1
           /\ SubSeq(path, k, Len(path))[1] = path[k]
           /\ \A l \in 1..Len(path) - k + 1 : SubSeq(path, k, Len(path))[l] = path[k + l - 1]
<1>1. Len(path) \in Nat /\ DOMAIN path = 1..Len(path) /\ k \in 1..Len(path)
    BY LenProperties DEF Paths
<1>2. \A l \in k..Len(path) : path[l] \in CppDirs(Dirs)
    BY <1>1, ElementOfSeq DEF Paths
<1>3. /\ SubSeq(path, k, Len(path)) \in Paths
      /\ Len(SubSeq(path, k, Len(path))) = Len(path) - k + 1
      /\ \A l \in 1..Len(path) - k + 1 : SubSeq(path, k, Len(path))[l] = path[k + l - 1]
    BY <1>1, <1>2, SubSeqProperties DEF Paths
<1>4. 1 \in 1..Len(path) - k + 1 /\ k + 1 - 1 = k
    BY <1>1
<1>5. SubSeq(path, k, Len(path)) # <<>>
    BY <1>1, <1>3
<1> QED
    BY <1>3, <1>4, <1>5

(* What is found in a path without wrappers.                               *)
FoundIn(dir, head, name) ==
    /\ dir \in Paths \ {<<>>} /\ File(dir[1], name) \in Files
    /\ \A l \in 2..Len(dir) : dir[l].chain # "wrapper"
    /\ dir[1].chain # "wrapper" => dir = Suffix(head, FindFile(head, name))
LEMMA FoundPlain ==
    ASSUME unit \in Units, NEW head \in Paths, NoWrapper(head), NEW name, Hits(head, name) # {}
    PROVE  LET k == FindFile(head, name)
               dir == SubSeq(head, k, Len(head))
           IN FoundIn(dir, head, name) /\ dir[1].chain # "wrapper"
<1> DEFINE k == FindFile(head, name)
           dir == SubSeq(head, k, Len(head))
<1>1. k \in DOMAIN head /\ File(head[k], name) \in Files
    BY FirstHit DEF Hits, Paths
<1>2. /\ dir \in Paths \ {<<>>} /\ Len(dir) = Len(head) - k + 1 /\ dir[1] = head[k]
      /\ \A l \in 1..Len(head) - k + 1 : dir[l] = head[k + l - 1]
    BY <1>1, SuffixFacts
<1>3. Len(head) \in Nat /\ DOMAIN head = 1..Len(head)
    BY LenProperties DEF Paths
<1>4. ASSUME NEW l \in 2..Len(dir)
      PROVE  dir[l].chain # "wrapper"
    <2>1. l \in 1..Len(head) - k + 1 /\ k + l - 1 \in DOMAIN head
        BY <1>1, <1>2, <1>3
    <2> QED
        BY <1>2, <2>1 DEF NoWrapper
<1> HIDE DEF k
<1>5. dir = Suffix(head, k)
    BY DEF Suffix
<1> HIDE DEF dir
<1>6. FoundIn(dir, head, name) /\ dir[1].chain # "wrapper"
    BY <1>1, <1>2, <1>4, <1>5 DEF FoundIn, NoWrapper, k
<1> QED
    BY <1>6 DEF dir, k

(* What is found in the wrappers, or after them.                           *)
LEMMA FoundWrapped ==
    ASSUME unit \in Units, NEW head \in Paths, NoWrapper(head), NEW name,
           Hits(unit.wrapper \o head, name) # {}
    PROVE  LET path == unit.wrapper \o head
               k == FindFile(path, name)
               dir == IF k <= Len(unit.wrapper) THEN <<unit.wrapper[k]>> \o head
                      ELSE SubSeq(path, k, Len(path))
           IN /\ FoundIn(dir, head, name)
              /\ dir[1].chain = "wrapper" =>
                    /\ dir = <<dir[1]>> \o head
                    /\ \E n \in DOMAIN unit.wrapper : dir[1] = unit.wrapper[n]
              /\ Hits(unit.wrapper, name) # {} => dir[1].chain = "wrapper"
<1> DEFINE path == unit.wrapper \o head
           k == FindFile(path, name)
           W == Len(unit.wrapper)
           Conclusion(dir) ==
              /\ FoundIn(dir, head, name)
              /\ dir[1].chain = "wrapper" =>
                    /\ dir = <<dir[1]>> \o head
                    /\ \E n \in DOMAIN unit.wrapper : dir[1] = unit.wrapper[n]
              /\ Hits(unit.wrapper, name) # {} => dir[1].chain = "wrapper"
<1>1. /\ path \in Paths /\ W \in Nat /\ Len(head) \in Nat
      /\ DOMAIN unit.wrapper = 1..W /\ DOMAIN head = 1..Len(head)
      /\ DOMAIN path = 1..W + Len(head) /\ Len(path) = W + Len(head)
      /\ \A l \in 1..W : path[l] = unit.wrapper[l]
      /\ \A l \in 1..Len(head) : path[W + l] = head[l]
    BY JoinFacts
<1>2. /\ k \in DOMAIN path /\ k \in Hits(path, name)
      /\ \A l \in Hits(path, name) : k <= l
    BY <1>1, FirstHit DEF Paths
<1>3. unit.wrapper \in Paths /\ \A l \in DOMAIN unit.wrapper : unit.wrapper[l].chain = "wrapper"
    BY UnitFacts
<1> HIDE DEF path, k, W
<1>4. File(path[k], name) \in Files
    BY <1>2 DEF Hits
<1>5. CASE k <= W
    <2> DEFINE e == unit.wrapper[k]
               dir == <<e>> \o head
    <2>1. k \in 1..W /\ path[k] = e
        BY <1>1, <1>2, <1>5
    <2>2. e \in CppDirs(Dirs) /\ e.chain = "wrapper"
        BY <1>1, <1>3, <2>1, ElementOfSeq DEF Paths, W
    <2> HIDE DEF e
    <2>3. <<e>> \in Paths /\ Len(<<e>>) = 1 /\ <<e>>[1] = e
        BY <2>2 DEF Paths
    <2>4. /\ dir \in Paths /\ Len(dir) = 1 + Len(head)
          /\ \A l \in 1..1 + Len(head) : dir[l] = IF l <= 1 THEN <<e>>[l] ELSE head[l - 1]
        BY <2>3, ConcatProperties DEF Paths
    <2>5. dir[1] = e /\ dir # <<>>
        BY <1>1, <2>3, <2>4
    <2>6. ASSUME NEW l \in 2..Len(dir)
          PROVE  dir[l].chain # "wrapper"
        <3>1. l \in 1..1 + Len(head) /\ ~(l <= 1) /\ l - 1 \in DOMAIN head
            BY <1>1, <2>4
        <3> QED
            BY <2>4, <3>1 DEF NoWrapper
    <2>7. dir = <<dir[1]>> \o head
        BY <2>5
    <2>8. \E n \in DOMAIN unit.wrapper : dir[1] = unit.wrapper[n]
        BY <1>1, <2>1, <2>5 DEF e
    <2> HIDE DEF dir
    <2>9. Conclusion(dir)
        BY <1>4, <2>1, <2>2, <2>4, <2>5, <2>6, <2>7, <2>8 DEF FoundIn
    <2> QED
        BY <1>5, <2>9 DEF dir, e, path, k, W
<1>6. CASE ~(k <= W)
    <2> DEFINE m == k - W
               dir == SubSeq(path, k, Len(path))
    <2>1. m \in DOMAIN head /\ k = W + m /\ path[k] = head[m]
        <3>1. m \in 1..Len(head) /\ k = W + m
            BY <1>1, <1>2, <1>6
        <3>2. path[W + m] = head[m]
            BY <1>1, <3>1
        <3> QED
            BY <1>1, <3>1, <3>2
    <2>2. m \in Hits(head, name)
        BY <1>4, <2>1 DEF Hits
    <2>3. ASSUME NEW l \in Hits(head, name)
          PROVE  m <= l
        <3>1. l \in DOMAIN head /\ File(head[l], name) \in Files
            BY DEF Hits
        <3>2. W + l \in DOMAIN path /\ path[W + l] = head[l]
            BY <1>1, <3>1
        <3>3. k <= W + l
            BY <1>2, <3>1, <3>2 DEF Hits
        <3> QED
            BY <1>1, <1>2, <3>1, <3>3
    <2>4. FindFile(head, name) = m
        BY <2>2, <2>3, FirstHitUnique DEF Paths
    <2>5. SubSeq(path, k, Len(path)) = SubSeq(head, m, Len(head))
        <3> DEFINE r == SubSeq(path, k, Len(path))
                   t == SubSeq(head, m, Len(head))
        <3>1. /\ r \in Paths /\ Len(r) = Len(path) - k + 1
              /\ \A l \in 1..Len(path) - k + 1 : r[l] = path[k + l - 1]
            BY <1>1, <1>2, SuffixFacts
        <3>2. /\ t \in Paths /\ Len(t) = Len(head) - m + 1
              /\ \A l \in 1..Len(head) - m + 1 : t[l] = head[m + l - 1]
            BY <2>1, SuffixFacts
        <3> HIDE DEF r, t
        <3>3. Len(path) - k + 1 = Len(head) - m + 1 /\ m \in 1..Len(head)
            BY <1>1, <2>1
        <3>4. ASSUME NEW l \in 1..Len(r)
              PROVE  r[l] = t[l]
            <4>0. /\ W \in Nat /\ Len(head) \in Nat /\ m \in Nat /\ l \in Nat /\ m >= 1 /\ l >= 1
                  /\ l <= Len(head) - m + 1 /\ k = W + m
                BY <1>1, <2>1, <3>1, <3>3
            <4>1. m + l - 1 \in 1..Len(head) /\ k + l - 1 = W + (m + l - 1)
                <5> HIDE DEF m, k, W
                <5> QED
                    BY <4>0
            <4>2. path[W + (m + l - 1)] = head[m + l - 1]
                BY <1>1, <4>1
            <4> QED
                BY <3>1, <3>2, <3>3, <4>1, <4>2
        <3>5. r = t
            BY <3>1, <3>2, <3>3, <3>4, SeqEqual DEF Paths
        <3> QED
            BY <3>5 DEF r, t
    <2>6. FoundIn(dir, head, name) /\ dir[1].chain # "wrapper"
        BY <2>2, <2>4, <2>5, FoundPlain
    <2>7. Hits(unit.wrapper, name) = {}
        <3> SUFFICES ASSUME NEW l \in Hits(unit.wrapper, name) PROVE FALSE
            OBVIOUS
        <3>1. l \in DOMAIN unit.wrapper /\ File(unit.wrapper[l], name) \in Files
            BY DEF Hits
        <3>2. l \in DOMAIN path /\ path[l] = unit.wrapper[l] /\ l <= W
            BY <1>1, <3>1
        <3> QED
            BY <1>1, <1>2, <1>6, <3>1, <3>2 DEF Hits
    <2> HIDE DEF dir
    <2>8. Conclusion(dir)
        BY <2>6, <2>7
    <2> QED
        BY <1>6, <2>8 DEF dir, path, k, W
<1> QED
    BY <1>5, <1>6

(* What a directive of a file finds.                                       *)
LEMMA FoundFacts ==
    ASSUME unit \in Units, TypeOK, NextLeavesWrappers, NEW i \in DOMAIN stack,
           NEW d \in Directives(unit.names, Dirs), Hits(SearchPath(i, d), d.name) # {}
    PROVE  LET k == FindFile(SearchPath(i, d), d.name)
               dir == FoundDir(i, d, k)
               head == SearchPathHead(i, d)
           IN /\ FoundIn(dir, head, d.name)
              /\ dir[1].chain = "wrapper" =>
                    /\ Wrapped(i, d) /\ dir = <<dir[1]>> \o head
                    /\ \E n \in DOMAIN unit.wrapper : dir[1] = unit.wrapper[n]
              /\ Wrapped(i, d) /\ Hits(unit.wrapper, d.name) # {} => dir[1].chain = "wrapper"
<1> DEFINE head == SearchPathHead(i, d)
           k == FindFile(SearchPath(i, d), d.name)
           dir == FoundDir(i, d, k)
<1>1. head \in Paths /\ NoWrapper(head)
    BY HeadFacts
<1> HIDE DEF head
<1>2. CASE Wrapped(i, d)
    <2> DEFINE path == unit.wrapper \o head
    <2>1. SearchPath(i, d) = path /\ k = FindFile(path, d.name) /\ Hits(path, d.name) # {}
        BY <1>2 DEF SearchPath, head
    <2>2. dir = IF FindFile(path, d.name) <= Len(unit.wrapper)
                THEN <<unit.wrapper[FindFile(path, d.name)]>> \o head
                ELSE SubSeq(path, FindFile(path, d.name), Len(path))
        BY <1>2, <2>1 DEF FoundDir, head
    <2> HIDE DEF dir, k
    <2>3. /\ FoundIn(dir, head, d.name)
          /\ dir[1].chain = "wrapper" =>
                /\ dir = <<dir[1]>> \o head
                /\ \E n \in DOMAIN unit.wrapper : dir[1] = unit.wrapper[n]
          /\ Hits(unit.wrapper, d.name) # {} => dir[1].chain = "wrapper"
        BY <1>1, <2>1, <2>2, FoundWrapped, Zenon
    <2> QED
        BY <1>2, <2>3 DEF dir, head, k
<1>3. CASE ~Wrapped(i, d)
    <2>1. SearchPath(i, d) = head
        BY <1>3 DEF SearchPath, head
    <2>2. dir = SubSeq(head, k, Len(head))
        BY <1>3, <2>1 DEF FoundDir
    <2> HIDE DEF dir
    <2> QED
        BY <1>1, <1>3, <2>1, <2>2, FoundPlain DEF dir, head
<1> QED
    BY <1>2, <1>3

-----------------------------------------------------------------------------
(* The stack of files.                                                     *)

(* How a file in the stack is linked to the directive that led to it.      *)
Linked(i) ==
    LET d == LastDirective(i - 1) IN
    /\ stack[i - 1].at \in 1..Len(stack[i - 1].body)
    /\ stack[i].name = d.name
    /\ Makes(i - 1, d) => Source(i - 1, d) \in DOMAIN made
    /\ Hits(unit.wrapper, d.name) # {} =>
          \/ IsWrapper(i)
          \/ d.type = "include_next" /\ i > 2
          \/ d.at # "search"
IInv ==
    /\ unit \in Units /\ TypeOK /\ NextLeavesWrappers
    /\ stack # <<>> => started /\ ~IsWrapper(1)
    /\ \A i \in 2..Len(stack) : Linked(i)

(* The first n files stay, and the nth may have gone on.                   *)
Kept(n) ==
    /\ unit' = unit
    /\ \A i \in 1..n : /\ stack'[i].dir = stack[i].dir /\ stack'[i].name = stack[i].name
                       /\ stack'[i].sysp = stack[i].sysp /\ stack'[i].body = stack[i].body
    /\ \A i \in 1..n - 1 : stack'[i].at = stack[i].at
    /\ \A s \in DOMAIN made : s \in DOMAIN made' /\ made'[s] = made[s]

(* A file that stays searches where it has searched.                       *)
LEMMA SameSearch ==
    ASSUME NEW n, Kept(n), NEW i \in 1..n, NEW d
    PROVE  /\ Makes(i, d)' = Makes(i, d) /\ Source(i, d)' = Source(i, d)
           /\ IsWrapper(i)' = IsWrapper(i) /\ Wrapped(i, d)' = Wrapped(i, d)
           /\ (Makes(i, d) => Source(i, d) \in DOMAIN made) =>
                 SearchPathHead(i, d)' = SearchPathHead(i, d)
<1>1. /\ Source(i, d)' = Source(i, d) /\ IsWrapper(i)' = IsWrapper(i)
      /\ Makes(i, d)' = Makes(i, d) /\ Wrapped(i, d)' = Wrapped(i, d)
      /\ Type(i, d)' = Type(i, d)
    BY DEF Kept, Source, IsWrapper, Makes, Wrapped, Type, Absolute
<1>2. ASSUME Source(i, d) \in DOMAIN made
      PROVE  MakeCppDir(i, d)' = MakeCppDir(i, d)
    BY <1>1, <1>2 DEF Kept, MakeCppDir, SourceSysp
<1>3. CASE Makes(i, d) /\ Source(i, d) \in DOMAIN made
    BY <1>1, <1>2, <1>3 DEF Kept, SearchPathHead, Absolute
<1>4. CASE ~Makes(i, d)
    BY <1>1, <1>4 DEF Kept, SearchPathHead, Absolute
<1> QED
    BY <1>1, <1>3, <1>4

LEMMA SameHits ==
    ASSUME unit' = unit, NEW path, NEW name
    PROVE  Hits(path, name)' = Hits(path, name) /\ FindFile(path, name)' = FindFile(path, name)
BY DEF Hits, FindFile, File, Files

LEMMA StillLinked ==
    ASSUME NEW n \in Nat, Kept(n), NEW i \in 2..n, Linked(i)
    PROVE  Linked(i)'
<1> DEFINE d == LastDirective(i - 1)
<1>1. i - 1 \in 1..n - 1 /\ i - 1 \in 1..n /\ i \in 1..n
    OBVIOUS
<1>2. d' = d /\ stack'[i - 1].at = stack[i - 1].at /\ stack'[i - 1].body = stack[i - 1].body
      /\ stack'[i].name = stack[i].name
    BY <1>1 DEF LastDirective, Kept
<1>3. \A e : /\ Makes(i - 1, e)' = Makes(i - 1, e) /\ Source(i - 1, e)' = Source(i - 1, e)
             /\ Hits(unit.wrapper, e)' = Hits(unit.wrapper, e)
    BY <1>1, SameSearch DEF Hits, File, Files, Kept
<1>4. IsWrapper(i)' = IsWrapper(i)
    BY <1>1, SameSearch
<1> QED
    BY <1>2, <1>3, <1>4 DEF Linked, Kept

(* The directive that is read, and the file after it.                      *)
LEMMA HereFacts ==
    ASSUME unit \in Units, TypeOK, Reading
    PROVE  /\ Here \in Nat \ {0} /\ Here \in DOMAIN stack /\ DOMAIN stack = 1..Here
           /\ Directive \in Directives(unit.names, Dirs)
           /\ Advanced \in Seq(Frames) /\ Len(Advanced) = Here
           /\ Advanced[Here].at \in 1..Len(Advanced[Here].body)
           /\ Advanced[Here].body[Advanced[Here].at] = Directive
           /\ \A i \in 1..Here :
                 /\ Advanced[i].dir = stack[i].dir /\ Advanced[i].name = stack[i].name
                 /\ Advanced[i].sysp = stack[i].sysp /\ Advanced[i].body = stack[i].body
           /\ \A i \in 1..Here - 1 : Advanced[i].at = stack[i].at
<1>1. stack \in Seq(Frames) /\ stack # <<>>
    BY DEF TypeOK, Frames, Paths, Dirs, Reading
<1>2. Here \in Nat \ {0} /\ Here \in DOMAIN stack /\ DOMAIN stack = 1..Here
    BY <1>1, EmptySeq, LenProperties DEF Here
<1>3. Top \in Frames /\ Top = stack[Here] /\ Top.at < Len(Top.body)
    BY <1>1, <1>2, ElementOfSeq DEF Top, Here, Reading
<1>4. Top.at \in Nat /\ Top.body \in Seq(Directives(unit.names, Dirs)) /\ Len(Top.body) \in Nat
    BY <1>3, LenProperties DEF Frames
<1>5. Top.at + 1 \in 1..Len(Top.body)
    BY <1>3, <1>4
<1>6. Directive \in Directives(unit.names, Dirs)
    BY <1>4, <1>5, ElementOfSeq DEF Directive
<1> DEFINE next == [Top EXCEPT !.at = @ + 1]
<1>7. next \in Frames /\ next.at = Top.at + 1 /\ next.body = Top.body /\ next.dir = Top.dir
      /\ next.name = Top.name /\ next.sysp = Top.sysp
    BY <1>3 DEF Frames
<1>8. Advanced = [stack EXCEPT ![Here] = next]
    BY <1>3 DEF Advanced
<1> HIDE DEF next
<1>9. /\ Advanced \in Seq(Frames) /\ Len(Advanced) = Here
      /\ \A i \in 1..Here : Advanced[i] = IF i = Here THEN next ELSE stack[i]
    BY <1>1, <1>2, <1>7, <1>8, ExceptSeq DEF Here
<1>10. Advanced[Here] = next
    BY <1>2, <1>9
<1>11. Directive = next.body[next.at]
    BY <1>7 DEF Directive
<1> QED
    BY <1>2, <1>3, <1>5, <1>6, <1>7, <1>9, <1>10, <1>11

(* Made directories are remembered, as they were made.                     *)
LEMMA Remembered ==
    ASSUME unit \in Units, TypeOK, NEW i \in DOMAIN stack, NEW d, Remember(i, d)
    PROVE  /\ \A s \in DOMAIN made : s \in DOMAIN made' /\ made'[s] = made[s]
           /\ DOMAIN made' \subseteq Dirs /\ \A s \in DOMAIN made' : made'[s] \in BOOLEAN
           /\ Makes(i, d) => Source(i, d) \in DOMAIN made'
                             /\ made'[Source(i, d)] = SourceSysp(i, d)
<1>1. DOMAIN made \subseteq Dirs /\ \A s \in DOMAIN made : made[s] \in BOOLEAN
    BY DEF TypeOK, Dirs
<1>2. CASE Makes(i, d)
    <2>1. made' = [n \in DOMAIN made \cup {Source(i, d)} |->
                      IF n = Source(i, d) THEN SourceSysp(i, d) ELSE made[n]]
        BY <1>2 DEF Remember
    <2>2. Source(i, d) \in DOMAIN made => SourceSysp(i, d) = made[Source(i, d)]
        BY DEF SourceSysp
    <2> QED
        BY <1>1, <1>2, <2>1, <2>2, SourceFacts
<1>3. CASE ~Makes(i, d)
    BY <1>1, <1>3 DEF Remember
<1> QED
    BY <1>2, <1>3

(* A directive searches afterwards where it has searched.                  *)
LEMMA SearchAfter ==
    ASSUME unit \in Units, TypeOK, NEW n, Kept(n), NEW i \in DOMAIN stack, i \in 1..n, NEW d,
           Remember(i, d)
    PROVE  SearchPathHead(i, d)' = SearchPathHead(i, d)
<1>1. CASE Makes(i, d)
    <2>1. Source(i, d)' = Source(i, d) /\ Makes(i, d)'
        BY <1>1, SameSearch
    <2>2. Source(i, d) \in DOMAIN made' /\ made'[Source(i, d)] = SourceSysp(i, d)
        BY <1>1, Remembered
    <2>3. MakeCppDir(i, d)' = MakeCppDir(i, d)
        <3>1. SourceSysp(i, d)' = SourceSysp(i, d)
            BY <2>1, <2>2 DEF SourceSysp
        <3> QED
            BY <2>1, <3>1 DEF MakeCppDir
    <2> QED
        BY <1>1, <2>1, <2>3 DEF Kept, SearchPathHead, Type, Absolute
<1>2. CASE ~Makes(i, d)
    BY <1>2, SameSearch
<1> QED
    BY <1>1, <1>2

(* The buffer of a file that is found.                                     *)
LEMMA BufferFacts ==
    ASSUME unit \in Units, NEW dir \in Paths \ {<<>>}, NEW name \in unit.names,
           NEW sysp \in BOOLEAN, File(dir[1], name) \in Files
    PROVE  /\ Buffer(dir, name, sysp) \in Frames /\ Buffer(dir, name, sysp).dir = dir
           /\ Buffer(dir, name, sysp).name = name /\ Buffer(dir, name, sysp).at = 0
<1> DEFINE file == File(dir[1], name)
           body == IF file \in defined THEN <<>> ELSE unit.body[file]
<1>1. unit.body[file] \in Seq(Directives(unit.names, Dirs))
    BY UnitFacts
<1>2. body \in Seq(Directives(unit.names, Dirs))
    <2>1. <<>> \in Seq(Directives(unit.names, Dirs))
        BY EmptySeq
    <2> HIDE DEF file
    <2> QED
        BY <1>1, <2>1
<1>3. Buffer(dir, name, sysp) = [dir |-> dir, name |-> name, sysp |-> sysp, at |-> 0, body |-> body]
    BY DEF Buffer
<1> HIDE DEF body
<1> QED
    BY <1>2, <1>3 DEF Frames

(* What keeps of the type invariant when the stack is one of files.        *)
LEMMA TypeAgain ==
    ASSUME unit' = unit, started' \in BOOLEAN, stack' \in Seq(Frames),
           \A i \in DOMAIN stack' : stack'[i].at <= Len(stack'[i].body),
           DOMAIN made' \subseteq Dirs, \A s \in DOMAIN made' : made'[s] \in BOOLEAN,
           defined' \subseteq unit.guarded
    PROVE  TypeOK'
BY DEF TypeOK, Frames, Paths, Dirs

(* The invariant of the files that stay.                                   *)
LEMMA KeptInvariant ==
    ASSUME IInv, NEW n \in Nat, n <= Len(stack), Kept(n)
    PROVE  /\ \A i \in 1..n : \A k \in 2..Len(stack'[i].dir) : stack'[i].dir[k].chain # "wrapper"
           /\ \A i \in 2..n : Linked(i)'
           /\ n # 0 => started /\ ~IsWrapper(1)'
<1>1. DOMAIN stack = 1..Len(stack) /\ Len(stack) \in Nat
    BY LenProperties DEF IInv, TypeOK
<1>2. ASSUME NEW i \in 1..n, NEW k \in 2..Len(stack'[i].dir)
      PROVE  stack'[i].dir[k].chain # "wrapper"
    BY <1>1 DEF Kept, IInv, NextLeavesWrappers
<1>3. ASSUME NEW i \in 2..n
      PROVE  Linked(i)'
    <2>1. i \in 2..Len(stack)
        BY <1>1
    <2> QED
        BY <2>1, StillLinked DEF IInv
<1>4. ASSUME n # 0
      PROVE  started /\ ~IsWrapper(1)'
    <2>1. stack # <<>> /\ 1 \in 1..n
        BY <1>1, <1>4
    <2> QED
        BY <1>4, <2>1, SameSearch DEF IInv
<1> QED
    BY <1>2, <1>3, <1>4

(* A directive that finds nothing.                                         *)
LEMMA MissKeeps ==
    ASSUME IInv, Reading, stack' = Advanced, unit' = unit, started' = started,
           defined' = defined, DOMAIN made' \subseteq Dirs,
           \A s \in DOMAIN made' : made'[s] \in BOOLEAN,
           \A s \in DOMAIN made : s \in DOMAIN made' /\ made'[s] = made[s]
    PROVE  IInv' /\ Kept(Here)
<1>1. unit \in Units /\ TypeOK
    BY DEF IInv
<1>2. Kept(Here)
    BY <1>1, HereFacts DEF Kept
<1>3. Here \in Nat /\ Here <= Len(stack) /\ Here # 0 /\ Len(stack') = Here
      /\ stack' \in Seq(Frames) /\ DOMAIN stack' = 1..Here
    BY <1>1, HereFacts DEF Here
<1>4. \A i \in DOMAIN stack' : stack'[i].at <= Len(stack'[i].body)
    <2>1. ASSUME NEW i \in 1..Here - 1
          PROVE  stack'[i].at <= Len(stack'[i].body)
        <3>1. i \in 1..Here /\ i \in DOMAIN stack
            BY <1>1, HereFacts
        <3>2. stack'[i].at = stack[i].at /\ stack'[i].body = stack[i].body
            BY <1>1, <3>1, HereFacts
        <3> QED
            BY <1>1, <3>1, <3>2 DEF TypeOK
    <2>2. stack'[Here].at <= Len(stack'[Here].body)
        BY <1>1, HereFacts
    <2> QED
        BY <1>3, <2>1, <2>2
<1>5. TypeOK'
    BY <1>1, <1>3, <1>4, TypeAgain DEF TypeOK
<1>6. /\ \A i \in 1..Here : \A k \in 2..Len(stack'[i].dir) : stack'[i].dir[k].chain # "wrapper"
      /\ \A i \in 2..Here : Linked(i)'
      /\ started /\ ~IsWrapper(1)'
    BY <1>2, <1>3, KeptInvariant
<1>7. NextLeavesWrappers'
    BY <1>3, <1>6 DEF NextLeavesWrappers
<1>8. (stack # <<>> => started /\ ~IsWrapper(1))'
    BY <1>6 DEF Reading
<1>9. (\A i \in 2..Len(stack) : Linked(i))'
    BY <1>3, <1>6
<1> QED
    BY <1>1, <1>2, <1>5, <1>7, <1>8, <1>9 DEF IInv

(* A directive that finds a file.                                          *)
LEMMA NewFile ==
    ASSUME IInv, StackInclude, NEW h, h = Here, NEW d, d = Directive
    PROVE  LET head == SearchPathHead(h, d)
               new == stack'[h + 1]
           IN /\ Kept(h) /\ Len(stack') = h + 1 /\ TypeOK'
              /\ LastDirective(h)' = d /\ SearchPathHead(h, d)' = head
              /\ stack'[h].at \in 1..Len(stack'[h].body)
              /\ Makes(h, d) => Source(h, d) \in DOMAIN made'
              /\ new.name = d.name /\ FoundIn(new.dir, head, d.name)
              /\ new.dir[1].chain = "wrapper" =>
                    /\ Wrapped(h, d) /\ new.dir = <<new.dir[1]>> \o head
                    /\ \E n \in DOMAIN unit.wrapper : new.dir[1] = unit.wrapper[n]
              /\ Wrapped(h, d) /\ Hits(unit.wrapper, d.name) # {} =>
                    new.dir[1].chain = "wrapper"
              /\ new = Buffer(new.dir, d.name, new.sysp)
              /\ started' = started /\ h \in Nat \ {0}
<1> DEFINE head == SearchPathHead(h, d)
           dir == FoundDir(h, d, FindFile(SearchPath(h, d), d.name))
           sysp == Top.sysp \/ dir[1].sysp
           new == Buffer(dir, d.name, sysp)
<1>1. unit \in Units /\ TypeOK /\ NextLeavesWrappers /\ Reading
    BY DEF IInv, StackInclude
<1>2. d \in Directives(unit.names, Dirs) /\ h \in DOMAIN stack /\ h \in Nat \ {0}
    BY <1>1, HereFacts
<1>3. Hits(SearchPath(h, d), d.name) # {} /\ ~TooDeep
    BY DEF StackInclude, Exhausted
<1>4. /\ FoundIn(dir, head, d.name)
      /\ dir[1].chain = "wrapper" =>
            /\ Wrapped(h, d) /\ dir = <<dir[1]>> \o head
            /\ \E n \in DOMAIN unit.wrapper : dir[1] = unit.wrapper[n]
      /\ Wrapped(h, d) /\ Hits(unit.wrapper, d.name) # {} => dir[1].chain = "wrapper"
    BY <1>1, <1>2, <1>3, FoundFacts
<1>5. /\ stack' = Append(Advanced, new) /\ defined' = defined \cup ({File(dir[1], d.name)} \cap unit.guarded)
      /\ Remember(h, d) /\ unit' = unit /\ started' = started
    BY DEF StackInclude, StackFile
<1> HIDE DEF head, dir
<1>6. dir \in Paths \ {<<>>} /\ File(dir[1], d.name) \in Files /\ d.name \in unit.names
    BY <1>2, <1>4 DEF FoundIn, Directives
<1>7. sysp \in BOOLEAN
    <2>1. Top.sysp \in BOOLEAN
        BY <1>1, <1>2, FrameFacts DEF Top, Here
    <2>2. Len(dir) \in Nat \ {0}
        BY <1>6, EmptySeq DEF Paths
    <2>3. dir[1] \in CppDirs(Dirs)
        BY <1>6, <2>2, ElementOfSeq DEF Paths
    <2> QED
        BY <2>1, <2>3 DEF CppDirs
<1> HIDE DEF sysp
<1>8. new \in Frames /\ new.dir = dir /\ new.name = d.name /\ new.at = 0
    BY <1>1, <1>6, <1>7, BufferFacts
<1>9. new.sysp = sysp
    BY DEF Buffer
<1> HIDE DEF new
<1>10. /\ stack' \in Seq(Frames) /\ Len(stack') = h + 1 /\ stack'[h + 1] = new
       /\ \A i \in 1..h : stack'[i] = Advanced[i]
    BY <1>1, <1>5, <1>8, HereFacts, AppendProperties
<1>11. \A s \in DOMAIN made : s \in DOMAIN made' /\ made'[s] = made[s]
    BY <1>1, <1>2, <1>5, Remembered
<1>12. Kept(h)
    <2>1. \A i \in 1..h - 1 : i \in 1..h
        BY <1>2
    <2> QED
        BY <1>1, <1>5, <1>10, <1>11, <2>1, HereFacts DEF Kept
<1>13. stack'[h].at \in 1..Len(stack'[h].body) /\ stack'[h].body[stack'[h].at] = d
    BY <1>1, <1>2, <1>10, HereFacts
<1>14. SearchPathHead(h, d)' = head
    <2>1. h \in 1..h
        BY <1>2
    <2> QED
        BY <1>1, <1>2, <1>5, <1>12, <2>1, SearchAfter DEF head
<1>15. LastDirective(h)' = d
    BY <1>13 DEF LastDirective
<1>16. Makes(h, d) => Source(h, d) \in DOMAIN made'
    BY <1>1, <1>2, <1>5, Remembered
<1>17. TypeOK'
    <2>1. ASSUME NEW i \in DOMAIN stack'
          PROVE  stack'[i].at <= Len(stack'[i].body)
        <3>1. DOMAIN stack' = 1..h + 1
            BY <1>2, <1>10, LenProperties
        <3>2. stack'[h + 1].body \in Seq(Directives(unit.names, Dirs))
            BY <1>8, <1>10 DEF Frames
        <3>3. CASE i = h + 1
            BY <1>8, <1>10, <3>2, <3>3, LenProperties
        <3>4. CASE i = h
            BY <1>13, <3>4
        <3>5. CASE i \in 1..h - 1
            <4>1. i \in DOMAIN stack /\ i \in 1..h
                BY <1>1, <1>2, <3>5, HereFacts
            <4>2. stack'[i].at = stack[i].at /\ stack'[i].body = stack[i].body
                BY <1>12, <3>5, <4>1 DEF Kept
            <4> QED
                BY <1>1, <4>1, <4>2 DEF TypeOK
        <3> QED
            BY <1>2, <3>1, <3>3, <3>4, <3>5
    <2>2. defined' \subseteq unit.guarded /\ started' \in BOOLEAN
        BY <1>1, <1>5 DEF TypeOK
    <2>3. DOMAIN made' \subseteq Dirs /\ \A s \in DOMAIN made' : made'[s] \in BOOLEAN
        BY <1>1, <1>2, <1>5, Remembered
    <2> QED
        BY <1>5, <1>10, <2>1, <2>2, <2>3, TypeAgain
<1>18. stack'[h + 1] = Buffer(dir, d.name, stack'[h + 1].sysp) /\ stack'[h + 1].dir = dir
       /\ stack'[h + 1].name = d.name
    BY <1>8, <1>9, <1>10 DEF new
<1> QED
    BY <1>2, <1>4, <1>5, <1>10, <1>12, <1>13, <1>14, <1>15, <1>16, <1>17, <1>18 DEF head

(* How a new file is linked.                                               *)
LEMMA LinkedAfter ==
    ASSUME NEW i, NEW d, LastDirective(i - 1)' = d,
           (stack[i - 1].at \in 1..Len(stack[i - 1].body))',
           stack'[i].name = d.name,
           Makes(i - 1, d)' => Source(i - 1, d)' \in DOMAIN made',
           Hits(unit.wrapper, d.name)' # {} =>
              \/ IsWrapper(i)'
              \/ d.type = "include_next" /\ i > 2
              \/ d.at # "search"
    PROVE  Linked(i)'
BY DEF Linked

LEMMA FoundKeeps ==
    ASSUME IInv, StackInclude
    PROVE  IInv'
<1>1. unit \in Units /\ TypeOK /\ Reading
    BY DEF IInv, StackInclude
<1>2. PICK h, d : h = Here /\ d = Directive
    OBVIOUS
<1>3. h \in Nat \ {0} /\ h <= Len(stack) /\ d \in Directives(unit.names, Dirs)
    BY <1>1, <1>2, HereFacts DEF Here
<1> DEFINE new == stack'[h + 1]
<1> DEFINE head == SearchPathHead(h, d)
<1>4. /\ Kept(h) /\ Len(stack') = h + 1 /\ TypeOK'
      /\ LastDirective(h)' = d /\ stack'[h].at \in 1..Len(stack'[h].body)
      /\ Makes(h, d) => Source(h, d) \in DOMAIN made'
      /\ new.name = d.name /\ FoundIn(new.dir, head, d.name)
      /\ Wrapped(h, d) /\ Hits(unit.wrapper, d.name) # {} => new.dir[1].chain = "wrapper"
      /\ started' = started
    BY <1>2, NewFile
<1>5. /\ \A i \in 1..h : \A k \in 2..Len(stack'[i].dir) : stack'[i].dir[k].chain # "wrapper"
      /\ \A i \in 2..h : Linked(i)'
      /\ started /\ ~IsWrapper(1)'
    BY <1>3, <1>4, KeptInvariant
<1>6. DOMAIN stack' = 1..h + 1
    BY <1>4, LenProperties DEF TypeOK
<1>7. NextLeavesWrappers'
    <2>1. \A k \in 2..Len(stack'[h + 1].dir) : stack'[h + 1].dir[k].chain # "wrapper"
        BY <1>4 DEF FoundIn
    <2>2. \A i \in 1..h + 1 : i \in 1..h \/ i = h + 1
        BY <1>3
    <2> QED
        BY <1>5, <1>6, <2>1, <2>2 DEF NextLeavesWrappers
<1>8. Linked(h + 1)'
    <2>1. h + 1 - 1 = h /\ h \in 1..h
        BY <1>3
    <2>2. Makes(h, d)' = Makes(h, d) /\ Source(h, d)' = Source(h, d) /\ unit' = unit
        BY <1>4, <2>1, SameSearch DEF Kept
    <2>3. Hits(unit.wrapper, d.name)' = Hits(unit.wrapper, d.name)
        BY <2>2 DEF Hits, File, Files
    <2>4. ASSUME Hits(unit.wrapper, d.name) # {}, d.type # "include_next" \/ ~(h + 1 > 2),
                 d.at = "search"
          PROVE  IsWrapper(h + 1)'
        <3>1. Wrapped(h, d)
            BY <1>3, <2>4 DEF Wrapped, Type, Absolute
        <3> QED
            BY <1>4, <2>4, <3>1 DEF IsWrapper
    <2> QED
        BY <1>4, <2>1, <2>2, <2>3, <2>4, LinkedAfter
<1>9. (\A i \in 2..Len(stack) : Linked(i))'
    BY <1>3, <1>4, <1>5, <1>8
<1>10. (stack # <<>> => started /\ ~IsWrapper(1))'
    BY <1>4, <1>5
<1> QED
    BY <1>1, <1>4, <1>7, <1>9, <1>10 DEF IInv, Kept

LEMMA PopKeeps ==
    ASSUME IInv, PopBuffer
    PROVE  /\ IInv' /\ Kept(Len(stack) - 1) /\ Len(stack) - 1 \in Nat
           /\ Len(stack') = Len(stack) - 1
<1> DEFINE n == Len(stack) - 1
<1>1. unit \in Units /\ TypeOK /\ stack # <<>> /\ stack' = SubSeq(stack, 1, n)
      /\ UNCHANGED <<unit, started, made, defined>>
    BY DEF IInv, PopBuffer
<1>2. stack \in Seq(Frames) /\ n \in Nat /\ n <= Len(stack) /\ DOMAIN stack = 1..Len(stack)
    <2>1. stack \in Seq(Frames)
        BY <1>1 DEF TypeOK, Frames, Paths, Dirs
    <2> QED
        BY <1>1, <2>1, EmptySeq, LenProperties
<1> HIDE DEF n
<1>3. \A i \in 1..n : stack[i] \in Frames
    BY <1>2, ElementOfSeq DEF n
<1>4. stack' \in Seq(Frames) /\ Len(stack') = n /\ \A i \in 1..n : stack'[i] = stack[i]
    <2>1. /\ SubSeq(stack, 1, n) \in Seq(Frames)
          /\ Len(SubSeq(stack, 1, n)) = IF 1 <= n THEN n - 1 + 1 ELSE 0
          /\ \A i \in 1..n - 1 + 1 : SubSeq(stack, 1, n)[i] = stack[1 + i - 1]
        BY <1>2, <1>3, SubSeqProperties
    <2> QED
        BY <1>1, <1>2, <2>1
<1>5. Kept(n)
    BY <1>1, <1>2, <1>4 DEF Kept
<1>6. DOMAIN stack' = 1..n
    BY <1>4, LenProperties
<1>7. TypeOK'
    <2>1. \A i \in DOMAIN stack' : i \in DOMAIN stack /\ stack'[i] = stack[i]
        BY <1>2, <1>4, <1>6
    <2>2. \A i \in DOMAIN stack' : stack'[i].at <= Len(stack'[i].body)
        BY <1>1, <2>1 DEF TypeOK
    <2> QED
        BY <1>1, <1>4, <2>2, TypeAgain DEF TypeOK, Dirs
<1>8. /\ \A i \in 1..n : \A k \in 2..Len(stack'[i].dir) : stack'[i].dir[k].chain # "wrapper"
      /\ \A i \in 2..n : Linked(i)'
      /\ n # 0 => started /\ ~IsWrapper(1)'
    BY <1>2, <1>5, KeptInvariant
<1>9. NextLeavesWrappers'
    BY <1>6, <1>8 DEF NextLeavesWrappers
<1>10. (stack # <<>> => started /\ ~IsWrapper(1))'
    <2>1. stack' # <<>> => n # 0
        BY <1>2, <1>4, EmptySeq
    <2> QED
        BY <1>1, <1>8, <2>1
<1>11. (\A i \in 2..Len(stack) : Linked(i))'
    BY <1>4, <1>8
<1> QED
    BY <1>1, <1>2, <1>4, <1>5, <1>7, <1>9, <1>10, <1>11 DEF IInv, n

LEMMA MainKeeps ==
    ASSUME IInv, ReadMainFile
    PROVE  IInv' /\ Len(stack') = 1 /\ unit' = unit
<1> DEFINE e == CppDir(unit.main, "none", FALSE)
           buffer == Buffer(<<e>>, "main", FALSE)
           new == [buffer EXCEPT !.body = unit.cmdline \o @]
<1>1. unit \in Units /\ TypeOK /\ stack' = <<new>> /\ started' = TRUE
      /\ UNCHANGED <<unit, made>> /\ defined' = defined
    BY DEF IInv, ReadMainFile
<1>2. e \in CppDirs(Dirs) /\ e.chain = "none" /\ e.name = unit.main
    BY <1>1, UnitFacts DEF CppDir, CppDirs, Chains
<1> HIDE DEF e
<1>3. <<e>> \in Paths \ {<<>>} /\ <<e>>[1] = e /\ Len(<<e>>) = 1
    BY <1>2 DEF Paths
<1>4. File(<<e>>[1], "main") \in Files /\ "main" \in unit.names
    BY <1>1, <1>2, <1>3, UnitFacts DEF File
<1>5. buffer \in Frames /\ buffer.dir = <<e>> /\ buffer.at = 0
    BY <1>1, <1>3, <1>4, BufferFacts
<1> HIDE DEF buffer
<1>6. unit.cmdline \o buffer.body \in Seq(Directives(unit.names, Dirs))
    BY <1>1, <1>5, UnitFacts, ConcatProperties DEF Frames
<1>7. new \in Frames /\ new.dir = <<e>> /\ new.at = 0 /\ Len(new.body) \in Nat
    BY <1>5, <1>6, LenProperties DEF Frames
<1> HIDE DEF new
<1>8. stack' \in Seq(Frames) /\ Len(stack') = 1 /\ stack'[1] = new /\ DOMAIN stack' = {1}
    BY <1>1, <1>7
<1>9. TypeOK'
    <2>1. \A i \in DOMAIN stack' : stack'[i].at <= Len(stack'[i].body)
        BY <1>7, <1>8
    <2> QED
        BY <1>1, <1>8, <2>1, TypeAgain DEF TypeOK, Dirs
<1>10. NextLeavesWrappers'
    BY <1>3, <1>7, <1>8 DEF NextLeavesWrappers
<1>11. ~IsWrapper(1)'
    BY <1>2, <1>3, <1>7, <1>8 DEF IsWrapper
<1> QED
    BY <1>1, <1>8, <1>9, <1>10, <1>11 DEF IInv

(* The invariant is kept by every step.                                    *)
LEMMA Step_IInv ==
    ASSUME IInv, [Next]_vars
    PROVE  IInv'
<1>1. CASE ReadMainFile
    BY <1>1, MainKeeps
<1>2. CASE NestedTooDeeply
    BY <1>2, MissKeeps DEF NestedTooDeeply, IInv, TypeOK, Dirs
<1>3. CASE IncludeFails
    <2>1. unit \in Units /\ TypeOK /\ Reading /\ Remember(Here, Directive)
        BY <1>3 DEF IncludeFails, IInv
    <2>2. Here \in DOMAIN stack
        BY <2>1, HereFacts
    <2>3. /\ DOMAIN made' \subseteq Dirs /\ \A s \in DOMAIN made' : made'[s] \in BOOLEAN
          /\ \A s \in DOMAIN made : s \in DOMAIN made' /\ made'[s] = made[s]
        BY <2>1, <2>2, Remembered
    <2> QED
        BY <1>3, <2>1, <2>3, MissKeeps DEF IncludeFails
<1>4. CASE StackInclude
    BY <1>4, FoundKeeps
<1>5. CASE PopBuffer
    BY <1>5, PopKeeps
<1>6. CASE UNCHANGED vars
    <2>1. /\ unit' = unit /\ started' = started /\ stack' = stack /\ made' = made
          /\ defined' = defined /\ seen' = seen
        BY <1>6 DEF vars
    <2>2. TypeOK' /\ NextLeavesWrappers' /\ (stack # <<>> => started /\ ~IsWrapper(1))'
        BY <2>1 DEF IInv, TypeOK, NextLeavesWrappers, IsWrapper
    <2>3. DOMAIN stack = 1..Len(stack) /\ Len(stack) \in Nat
        BY LenProperties DEF IInv, TypeOK
    <2>4. Kept(Len(stack))
        BY <2>1, <2>3 DEF Kept
    <2>5. \A i \in 2..Len(stack) : Linked(i)'
        BY <2>3, <2>4, KeptInvariant
    <2> QED
        BY <2>1, <2>2, <2>5 DEF IInv
<1> QED
    BY <1>1, <1>2, <1>3, <1>4, <1>5, <1>6 DEF Next, Step, Done

LEMMA Init_IInv == Init => IInv
<1> SUFFICES ASSUME Init PROVE IInv
    OBVIOUS
<1>1. stack \in Seq(Frames) /\ Len(stack) = 0 /\ DOMAIN stack = {}
    BY DEF Init
<1>2. TypeOK
    BY <1>1 DEF Init, TypeOK, Frames, Paths, Dirs
<1> QED
    BY <1>1, <1>2 DEF Init, IInv, NextLeavesWrappers

LEMMA Always_IInv == Spec => []IInv
<1>1. IInv /\ [Next]_vars => IInv'
    BY Step_IInv
<1> QED
    BY Init_IInv, <1>1, PTL DEF Spec

(* The stack is one of files that exist, each of them somewhere between    *)
(* its directives (cpp_buffer, files.c).                                   *)
THEOREM TypeCorrect == Spec => []TypeOK
<1>1. IInv => TypeOK
    BY DEF IInv
<1> QED
    BY Always_IInv, <1>1, PTL

(* Behind the directory where a file was found there is no wrapper: an     *)
(* #include_next of a header never reads a wrapper (_cpp_stack_include).   *)
THEOREM WrappersAreLeft == Spec => []NextLeavesWrappers
<1>1. IInv => NextLeavesWrappers
    BY DEF IInv
<1> QED
    BY Always_IInv, <1>1, PTL

(* A header that has a wrapper is read through it whoever includes it and  *)
(* in whatever form, but for #include_next and absolute names.             *)
THEOREM WrappersAreSearched == Spec => []NoHeaderPastItsWrapper
<1>1. IInv => NoHeaderPastItsWrapper
    BY DEF IInv, NoHeaderPastItsWrapper, Linked
<1> QED
    BY Always_IInv, <1>1, PTL

-----------------------------------------------------------------------------
(* Wrappers that only include the next header of their name.               *)
AllTransparent == \A u \in Units : Transparent(u)

(* A wrapper goes on with the search that led to it, and its only          *)
(* directive is NextOf; a header that is no wrapper is where the property  *)
(* wants it.                                                               *)
WrapperFrame(i) ==
    IsWrapper(i) =>
        /\ stack[i].dir = <<stack[i].dir[1]>> \o SearchPathHead(i - 1, LastDirective(i - 1))
        /\ stack[i].body = <<NextOf(stack[i].name)>>
RightPlace(i, j, d) ==
    stack[i].name = d.name
    /\ stack[i].dir = Suffix(SearchPathHead(j, d), FindFile(SearchPathHead(j, d), d.name))
HeaderFrame(i) == ~IsWrapper(i) => RightPlace(i, Includer(i), LastDirective(Includer(i)))
WInv == IInv /\ \A i \in 2..Len(stack) : WrapperFrame(i) /\ HeaderFrame(i)

(* What a file in the stack needs of those before it does not change.      *)
LEMMA SameDirective ==
    ASSUME IInv, NEW n \in Nat, n <= Len(stack), Kept(n), NEW j \in 1..n - 1
    PROVE  /\ LastDirective(j)' = LastDirective(j)
           /\ SearchPathHead(j, LastDirective(j))' = SearchPathHead(j, LastDirective(j))
<1>1. LastDirective(j)' = LastDirective(j) /\ j \in 1..n
    BY DEF LastDirective, Kept
<1>2. Linked(j + 1) /\ j + 1 - 1 = j
    <2>1. j + 1 \in 2..Len(stack)
        BY LenProperties DEF IInv, TypeOK
    <2> QED
        BY <2>1 DEF IInv
<1>3. PICK d : d = LastDirective(j)
    OBVIOUS
<1>4. Makes(j, d) => Source(j, d) \in DOMAIN made
    BY <1>2, <1>3 DEF Linked
<1>5. SearchPathHead(j, d)' = SearchPathHead(j, d)
    BY <1>1, <1>4, SameSearch
<1>6. SearchPathHead(j, LastDirective(j))' = SearchPathHead(j, d)'
    BY <1>1, <1>3
<1> QED
    BY <1>1, <1>3, <1>5, <1>6

LEMMA StillInPlace ==
    ASSUME WInv, NEW n \in Nat, n <= Len(stack), Kept(n), NEW i \in 2..n
    PROVE  WrapperFrame(i)' /\ HeaderFrame(i)'
<1>1. i \in 2..Len(stack) /\ i \in 1..n /\ i - 1 \in 1..n - 1 /\ Len(stack) \in Nat
    BY LenProperties DEF WInv, IInv, TypeOK
<1>2. WrapperFrame(i) /\ HeaderFrame(i) /\ IInv
    BY <1>1 DEF WInv
<1>3. /\ stack'[i].dir = stack[i].dir /\ stack'[i].name = stack[i].name
      /\ stack'[i].body = stack[i].body
    BY <1>1 DEF Kept
<1>4. IsWrapper(i)' = IsWrapper(i) /\ IsWrapper(i - 1)' = IsWrapper(i - 1)
    BY <1>1, SameSearch
<1>5. WrapperFrame(i)'
    <2>1. SearchPathHead(i - 1, LastDirective(i - 1))' = SearchPathHead(i - 1, LastDirective(i - 1))
        BY <1>1, <1>2, SameDirective
    <2> QED
        BY <1>2, <1>3, <1>4, <2>1 DEF WrapperFrame
<1>6. PICK j : j = Includer(i)
    OBVIOUS
<1>7. Includer(i)' = j
    BY <1>4, <1>6 DEF Includer
<1>8. j \in 1..n - 1
    <2>1. IsWrapper(i - 1) => i - 1 # 1
        BY <1>1, <1>2, EmptySeq DEF IInv
    <2> QED
        BY <1>1, <1>6, <2>1 DEF Includer
<1>9. PICK d : d = LastDirective(j)
    OBVIOUS
<1>10. PICK head : head = SearchPathHead(j, d)
    OBVIOUS
<1>11. LastDirective(j)' = d /\ SearchPathHead(j, d)' = head
    <2>1. /\ LastDirective(j)' = LastDirective(j)
          /\ SearchPathHead(j, LastDirective(j))' = SearchPathHead(j, LastDirective(j))
        BY <1>2, <1>8, SameDirective
    <2> QED
        BY <1>9, <1>10, <2>1
<1>12. FindFile(head, d.name)' = FindFile(head, d.name)
    BY SameHits DEF Kept
<1>13. ~IsWrapper(i) => RightPlace(i, j, d)'
    <2>1. ~IsWrapper(i) => RightPlace(i, j, d)
        BY <1>2, <1>6, <1>9 DEF HeaderFrame
    <2> QED
        BY <1>3, <1>10, <1>11, <1>12, <2>1 DEF RightPlace, Suffix
<1>14. HeaderFrame(i)'
    BY <1>4, <1>7, <1>11, <1>13 DEF HeaderFrame
<1> QED
    BY <1>5, <1>14

(* The wrapper that is read is what it is in the unit.                     *)
LEMMA WrapperBody ==
    ASSUME AllTransparent, unit \in Units, TypeOK, NEW n \in DOMAIN unit.wrapper, NEW dir,
           dir[1] = unit.wrapper[n], NEW name, NEW sysp, File(dir[1], name) \in Files
    PROVE  Buffer(dir, name, sysp).body = <<NextOf(name)>>
<1> DEFINE file == File(dir[1], name)
<1>1. Transparent(unit)
    BY DEF AllTransparent
<1>2. file[1] = unit.place[unit.wrapper[n].name] /\ file[2] = name
    BY DEF File
<1>3. unit.body[file] = <<NextOf(name)>> /\ file \notin unit.guarded
    BY <1>1, <1>2 DEF Transparent, Files
<1>4. file \notin defined
    BY <1>3 DEF TypeOK
<1> QED
    BY <1>3, <1>4 DEF Buffer

(* Where the search of the file before goes on, and what it looks for.     *)
LEMMA SearchGoesOn ==
    ASSUME WInv, Reading, NEW h, h = Here, NEW d, d = Directive, IsWrapper(h)
    PROVE  /\ h \in 2..Len(stack) /\ d.name = LastDirective(h - 1).name
           /\ SearchPathHead(h, d) = SearchPathHead(h - 1, LastDirective(h - 1))
<1>1. unit \in Units /\ TypeOK /\ NextLeavesWrappers /\ IInv
    BY DEF WInv, IInv
<1>2. h \in Nat \ {0} /\ h \in DOMAIN stack /\ h = Len(stack)
    BY <1>1, HereFacts DEF Here
<1>3. h # 1 /\ h \in 2..Len(stack)
    BY <1>1, <1>2, EmptySeq DEF IInv, Reading
<1>4. WrapperFrame(h) /\ Linked(h)
    BY <1>1, <1>3 DEF WInv, IInv
<1> DEFINE head == SearchPathHead(h - 1, LastDirective(h - 1))
<1>5. head \in Paths
    <2>1. h - 1 \in DOMAIN stack
        BY <1>1, <1>2, <1>3, HereFacts
    <2>2. stack[h - 1].body \in Seq(Directives(unit.names, Dirs))
        BY <1>1, <2>1, FrameFacts DEF Frames
    <2>3. LastDirective(h - 1) \in Directives(unit.names, Dirs)
        BY <1>4, <2>2, ElementOfSeq DEF LastDirective, Linked
    <2> QED
        BY <1>1, <2>1, <2>3, HeadFacts
<1> HIDE DEF head
<1>6. stack[h].dir = <<stack[h].dir[1]>> \o head /\ stack[h].body = <<NextOf(stack[h].name)>>
    BY <1>4 DEF WrapperFrame, head
<1>7. d = NextOf(stack[h].name)
    <2>1. stack[h].at \in Nat /\ stack[h].at < Len(stack[h].body)
        BY <1>1, <1>2, FrameFacts DEF Frames, Reading, Top
    <2>2. Len(stack[h].body) = 1
        BY <1>6
    <2>3. stack[h].at + 1 = 1
        BY <2>1, <2>2
    <2> QED
        BY <1>2, <1>6, <2>3 DEF Directive, Top
<1>8. SearchPathHead(h, d) = Tail(stack[h].dir)
    BY <1>3, <1>7 DEF SearchPathHead, Absolute, Type, NextOf
<1>9. Tail(stack[h].dir) = head
    <2>1. stack[h].dir[1] \in CppDirs(Dirs)
        BY <1>1, <1>2, FrameFacts
    <2>2. PICK e \in CppDirs(Dirs) : stack[h].dir = <<e>> \o head
        BY <1>6, <2>1
    <2>3. <<e>> \in Paths /\ Len(<<e>>) = 1
        BY DEF Paths
    <2> DEFINE s == <<e>> \o head
    <2>4. /\ s \in Paths /\ Len(s) = 1 + Len(head) /\ Len(head) \in Nat
          /\ \A k \in 1..1 + Len(head) : s[k] = IF k <= 1 THEN <<e>>[k] ELSE head[k - 1]
        BY <1>5, <2>3, ConcatProperties, LenProperties DEF Paths
    <2> HIDE DEF s
    <2>5. s # <<>>
        BY <2>4
    <2>6. /\ Tail(s) \in Paths /\ Len(Tail(s)) = Len(head)
          /\ \A k \in 1..Len(Tail(s)) : Tail(s)[k] = s[k + 1]
        BY <2>4, <2>5, HeadTailProperties DEF Paths
    <2>7. ASSUME NEW k \in 1..Len(head)
          PROVE  Tail(s)[k] = head[k]
        <3>1. k + 1 \in 1..1 + Len(head) /\ ~(k + 1 <= 1) /\ k + 1 - 1 = k
            BY <2>4
        <3> QED
            BY <2>4, <2>6, <3>1
    <2>8. Tail(s) = head
        BY <1>5, <2>6, <2>7, SeqEqual DEF Paths
    <2> QED
        BY <2>2, <2>8 DEF s
<1>10. d.name = LastDirective(h - 1).name
    BY <1>4, <1>7 DEF NextOf, Linked
<1> QED
    BY <1>3, <1>8, <1>9, <1>10 DEF head

(* How a wrapper is placed.                                                *)
LEMMA WrapperAfter ==
    ASSUME NEW i, NEW head, SearchPathHead(i - 1, LastDirective(i - 1))' = head,
           stack'[i].dir = <<stack'[i].dir[1]>> \o head,
           stack'[i].body = <<NextOf(stack'[i].name)>>
    PROVE  WrapperFrame(i)'
BY DEF WrapperFrame, NextOf

LEMMA IncluderAfter ==
    ASSUME NEW i, NEW j, NEW k, i - 1 = j, i - 2 = k, IsWrapper(j)'
    PROVE  Includer(i)' = k
BY DEF Includer

LEMMA NewInPlace ==
    ASSUME AllTransparent, WInv, StackInclude, NEW h, h = Here, NEW d, d = Directive
    PROVE  WrapperFrame(h + 1)' /\ HeaderFrame(h + 1)'
<1> DEFINE new == stack'[h + 1]
           head == SearchPathHead(h, d)
<1>1. IInv /\ Reading /\ unit \in Units /\ TypeOK /\ h <= Len(stack)
    BY HereFacts DEF WInv, IInv, StackInclude, Here
<1>2. /\ Kept(h) /\ LastDirective(h)' = d /\ SearchPathHead(h, d)' = head
      /\ new.name = d.name /\ FoundIn(new.dir, head, d.name)
      /\ new.dir[1].chain = "wrapper" =>
            /\ new.dir = <<new.dir[1]>> \o head
            /\ \E n \in DOMAIN unit.wrapper : new.dir[1] = unit.wrapper[n]
      /\ new = Buffer(new.dir, d.name, new.sysp) /\ h \in Nat \ {0}
    BY <1>1, NewFile
<1>3. h + 1 - 1 = h /\ h + 1 - 2 = h - 1 /\ h \in 1..h
    BY <1>2
<1>4. IsWrapper(h + 1)' <=> new.dir[1].chain = "wrapper"
    BY DEF IsWrapper
<1>5. WrapperFrame(h + 1)'
    <2> SUFFICES ASSUME new.dir[1].chain = "wrapper" PROVE WrapperFrame(h + 1)'
        BY <1>4 DEF WrapperFrame
    <2>1. LastDirective(h + 1 - 1)' = d
        BY <1>2, <1>3
    <2>2. SearchPathHead(h + 1 - 1, LastDirective(h + 1 - 1))' = head
        BY <1>2, <1>3
    <2>3. new.body = <<NextOf(new.name)>>
        <3>1. PICK n \in DOMAIN unit.wrapper : new.dir[1] = unit.wrapper[n]
            BY <1>2
        <3>2. File(new.dir[1], d.name) \in Files
            BY <1>2 DEF FoundIn
        <3>3. PICK dir, sysp : dir = new.dir /\ sysp = new.sysp
            OBVIOUS
        <3> HIDE DEF new
        <3>4. Buffer(dir, d.name, sysp).body = <<NextOf(d.name)>>
            BY <1>1, <3>1, <3>2, <3>3, WrapperBody
        <3> QED
            BY <1>2, <3>3, <3>4
    <2> QED
        BY <1>2, <2>2, <2>3, WrapperAfter
<1>6. ASSUME new.dir[1].chain # "wrapper"
      PROVE  HeaderFrame(h + 1)'
    <2>1. new.dir = Suffix(head, FindFile(head, d.name))
        BY <1>2, <1>6 DEF FoundIn
    <2>2. IsWrapper(h + 1 - 1)' = IsWrapper(h)
        BY <1>2, <1>3, SameSearch
    <2>3. \A path, name : FindFile(path, name)' = FindFile(path, name)
        BY <1>2, SameHits DEF Kept
    <2>4. CASE ~IsWrapper(h)
        <3>1. Includer(h + 1)' = h
            BY <1>3, <2>2, <2>4 DEF Includer
        <3>2. RightPlace(h + 1, h, d)'
            BY <1>2, <2>1, <2>3 DEF RightPlace, Suffix
        <3> QED
            BY <1>2, <3>1, <3>2 DEF HeaderFrame
    <2>5. CASE IsWrapper(h)
        <3>1. Includer(h + 1)' = h - 1
            <4>1. IsWrapper(h)'
                BY <1>3, <2>2, <2>5
            <4> QED
                BY <1>3, <4>1, IncluderAfter
        <3>2. /\ h \in 2..Len(stack) /\ d.name = LastDirective(h - 1).name
              /\ head = SearchPathHead(h - 1, LastDirective(h - 1))
            BY <1>1, <2>5, SearchGoesOn
        <3>3. h - 1 \in 1..h - 1
            BY <1>2, <3>2
        <3>4. /\ LastDirective(h - 1)' = LastDirective(h - 1)
              /\ SearchPathHead(h - 1, LastDirective(h - 1))' = head
            BY <1>1, <1>2, <3>2, <3>3, SameDirective
        <3>5. PICK e : e = LastDirective(h - 1)
            OBVIOUS
        <3>6. LastDirective(h - 1)' = e /\ SearchPathHead(h - 1, e)' = head /\ e.name = d.name
            BY <3>2, <3>4, <3>5
        <3>7. RightPlace(h + 1, h - 1, e)'
            BY <1>2, <2>1, <2>3, <3>6 DEF RightPlace, Suffix
        <3> QED
            BY <3>1, <3>6, <3>7 DEF HeaderFrame
    <2> QED
        BY <2>4, <2>5
<1> QED
    BY <1>4, <1>5, <1>6 DEF HeaderFrame

LEMMA Step_WInv ==
    ASSUME AllTransparent, WInv, [Next]_vars
    PROVE  WInv'
<1>1. IInv /\ IInv' /\ unit \in Units /\ TypeOK
    BY Step_IInv DEF WInv, IInv
<1>2. DOMAIN stack = 1..Len(stack) /\ Len(stack) \in Nat
    BY <1>1, LenProperties DEF TypeOK
<1>3. ASSUME NEW n \in Nat, n <= Len(stack), Kept(n), Len(stack') = n
      PROVE  WInv'
    BY <1>1, <1>3, StillInPlace DEF WInv
<1>4. CASE ReadMainFile
    BY <1>1, <1>4, MainKeeps DEF WInv
<1>5. CASE NestedTooDeeply
    <2>1. Kept(Here) /\ Len(stack') = Here /\ Here \in Nat /\ Here <= Len(stack)
        BY <1>1, <1>5, HereFacts, MissKeeps DEF NestedTooDeeply, TypeOK, Dirs, Here
    <2> QED
        BY <1>3, <2>1
<1>6. CASE IncludeFails
    <2>1. Reading /\ Remember(Here, Directive)
        BY <1>6 DEF IncludeFails
    <2>2. Here \in DOMAIN stack /\ Here \in Nat /\ Here <= Len(stack) /\ Len(stack') = Here
        BY <1>1, <1>6, <2>1, HereFacts DEF IncludeFails, Here
    <2>3. Kept(Here)
        BY <1>1, <1>6, <2>1, <2>2, Remembered, MissKeeps DEF IncludeFails
    <2> QED
        BY <1>3, <2>2, <2>3
<1>7. CASE StackInclude
    <2>1. PICK h, d : h = Here /\ d = Directive
        OBVIOUS
    <2>2. Kept(h) /\ Len(stack') = h + 1 /\ h \in Nat /\ h <= Len(stack)
        <3>1. h = Len(stack)
            BY <2>1 DEF Here
        <3>2. Kept(h) /\ Len(stack') = h + 1
            BY <1>1, <1>7, <2>1, NewFile
        <3> QED
            BY <1>2, <3>1, <3>2
    <2>3. WrapperFrame(h + 1)' /\ HeaderFrame(h + 1)'
        BY <1>7, <2>1, NewInPlace
    <2>4. \A i \in 2..h : WrapperFrame(i)' /\ HeaderFrame(i)'
        BY <2>2, StillInPlace
    <2>5. \A i \in 2..h + 1 : WrapperFrame(i)' /\ HeaderFrame(i)'
        BY <2>2, <2>3, <2>4
    <2> QED
        BY <1>1, <2>2, <2>5 DEF WInv
<1>8. CASE PopBuffer
    <2>1. PICK n : n = Len(stack) - 1
        OBVIOUS
    <2>2. Kept(n) /\ n \in Nat /\ n <= Len(stack) /\ Len(stack') = n
        <3>1. /\ Kept(Len(stack) - 1) /\ Len(stack) - 1 \in Nat
              /\ Len(stack') = Len(stack) - 1
            BY <1>1, <1>8, PopKeeps
        <3>2. n <= Len(stack)
            BY <1>2, <2>1
        <3> QED
            BY <2>1, <3>1, <3>2 DEF Kept
    <2> QED
        BY <1>3, <2>2
<1>9. CASE UNCHANGED vars
    <2>1. PICK n : n = Len(stack)
        OBVIOUS
    <2>2. Kept(n) /\ n \in Nat /\ n <= Len(stack) /\ Len(stack') = n
        BY <1>2, <1>9, <2>1 DEF vars, Kept
    <2> QED
        BY <1>3, <2>2
<1> QED
    BY <1>4, <1>5, <1>6, <1>7, <1>8, <1>9 DEF Next, Step, Done

(* With wrappers that only include the next header of their name, each     *)
(* header is found in the directory, and with the rest of the search path, *)
(* that a search without wrappers gives (_cpp_stack_include's wrapper_dir).*)
THEOREM WrappersChangeNothing ==
    ASSUME AllTransparent
    PROVE  Spec => []FoundAsWithoutWrappers
<1>1. Init => WInv
    BY Init_IInv DEF Init, WInv
<1>2. WInv /\ [Next]_vars => WInv'
    BY Step_WInv
<1>3. WInv => FoundAsWithoutWrappers
    BY DEF WInv, HeaderFrame, RightPlace, FoundAsWithoutWrappers
<1> QED
    BY <1>1, <1>2, <1>3, PTL DEF Spec

-----------------------------------------------------------------------------
(* Recursion over sequences.                                               *)

(* A set of numbers that holds 0 and with each number below n the next one *)
(* holds all up to n.                                                      *)
LEMMA CountingUp ==
    ASSUME NEW n \in Nat, NEW S, 0 \in S,
           ASSUME NEW i \in 1 .. n, i - 1 \in S PROVE i \in S
    PROVE  \A i \in 0 .. n : i \in S
<1> DEFINE Missing == {i \in 0 .. n : i \notin S}
<1> SUFFICES ASSUME Missing # {} PROVE FALSE
    BY DEF Missing
<1>1. Missing \in SUBSET Nat
    OBVIOUS
<1>2. PICK k \in Missing : \A l \in Missing : k <= l
    BY <1>1, LeastNumber, Zenon
<1>3. k \in 1 .. n /\ k \notin S /\ k - 1 \in 0 .. n /\ ~ (k <= k - 1)
    BY <1>2
<1>4. k - 1 \in S
    BY <1>2, <1>3
<1> QED
    BY <1>3, <1>4

(* A function that steps from each value to the next exists.               *)
Recurs(n, A, a, step, f) ==
    f \in [0 .. n -> A] /\ f[0] = a /\ \A i \in 1 .. n : f[i] = step[i][f[i - 1]]

LEMMA RecursionExists ==
    ASSUME NEW n \in Nat, NEW A, NEW a \in A, NEW step \in [1 .. n -> [A -> A]]
    PROVE  \E f : Recurs(n, A, a, step, f)
<1> DEFINE Reaches(m, f) == f[0] = a /\ \A i \in 1 .. m : f[i] = step[i][f[i - 1]]
           S == {m \in 0 .. n : \E f \in [0 .. m -> A] : Reaches(m, f)}
<1>1. 0 \in S
    <2> DEFINE f == [i \in 0 .. 0 |-> a]
    <2>1. f \in [0 .. 0 -> A] /\ Reaches(0, f)
        OBVIOUS
    <2> HIDE DEF f, Reaches
    <2>2. \E h \in [0 .. 0 -> A] : Reaches(0, h)
        BY <2>1
    <2> QED
        BY <2>2
<1>2. ASSUME NEW m \in 1 .. n, m - 1 \in S PROVE m \in S
    <2>1. PICK g \in [0 .. m - 1 -> A] : Reaches(m - 1, g)
        BY <1>2
    <2> DEFINE f == [i \in 0 .. m |-> IF i = m THEN step[m][g[m - 1]] ELSE g[i]]
    <2>2. m - 1 \in 0 .. m - 1 /\ g[m - 1] \in A /\ step[m] \in [A -> A]
        OBVIOUS
    <2>3. step[m][g[m - 1]] \in A
        BY <2>2
    <2>4. f \in [0 .. m -> A]
        <3>1. \A i \in 0 .. m : i # m => i \in 0 .. m - 1
            OBVIOUS
        <3> QED
            BY <2>3, <3>1
    <2>5. f[0] = a /\ f[m - 1] = g[m - 1] /\ f[m] = step[m][g[m - 1]]
        BY <2>1
    <2>6. ASSUME NEW i \in 1 .. m - 1 PROVE f[i] = step[i][f[i - 1]]
        <3>1. f[i] = g[i] /\ f[i - 1] = g[i - 1]
            OBVIOUS
        <3>2. g[i] = step[i][g[i - 1]]
            BY <2>1
        <3> QED
            BY <3>1, <3>2
    <2> HIDE DEF f
    <2>7. Reaches(m, f)
        <3>1. \A i \in 1 .. m : i = m \/ i \in 1 .. m - 1
            OBVIOUS
        <3> QED
            BY <2>5, <2>6, <3>1
    <2> HIDE DEF Reaches
    <2>8. \E h \in [0 .. m -> A] : Reaches(m, h)
        BY <2>4, <2>7
    <2> QED
        BY <2>8
<1> HIDE DEF S
<1>3. n \in S
    <2>1. \A i \in 0 .. n : i \in S
        BY <1>1, <1>2, CountingUp
    <2> QED
        BY <2>1
<1> QED
    BY <1>3 DEF S, Recurs

-----------------------------------------------------------------------------
(* remove_duplicates, entry by entry.                                      *)
KeptOf(place, head, system, join, i, others) ==
    IF Redundant(place, head, system, join, i, others) THEN others
    ELSE Append(others, head[i])

EntryByEntry(place, E, head, system, join, kept) ==
    /\ kept \in [0 .. Len(head) -> Seq(E)] /\ kept[0] = <<>>
    /\ \A i \in 1 .. Len(head) : kept[i] = KeptOf(place, head, system, join, i, kept[i - 1])

LEMMA KeptIs ==
    ASSUME NEW place, NEW E, NEW head \in Seq(E), NEW system, NEW join
    PROVE  EntryByEntry(place, E, head, system, join, KeptSoFar(place, head, system, join))
<1> DEFINE n == Len(head)
           Of(i, others) == KeptOf(place, head, system, join, i, others)
           Def(f) == [i \in 0 .. n |-> IF i = 0 THEN <<>> ELSE Of(i, f[i - 1])]
           step == [i \in 1 .. n |-> [others \in Seq(E) |-> Of(i, others)]]
<1>1. n \in Nat /\ <<>> \in Seq(E) /\ \A i \in 1 .. n : head[i] \in E
    BY LenProperties, ElementOfSeq, EmptySeq
<1>2. \A i \in 1 .. n : \A others \in Seq(E) : Of(i, others) \in Seq(E)
    BY <1>1, AppendProperties DEF KeptOf
<1>3. KeptSoFar(place, head, system, join) = CHOOSE f : f = Def(f)
    BY Zenon DEF KeptSoFar, KeptOf
<1> HIDE DEF n, Of
<1>4. step \in [1 .. n -> [Seq(E) -> Seq(E)]]
    BY <1>2
<1>5. PICK f \in [0 .. n -> Seq(E)] : f[0] = <<>> /\ \A i \in 1 .. n : f[i] = step[i][f[i - 1]]
    <2> HIDE DEF step
    <2>1. n \in Nat /\ <<>> \in Seq(E)
        BY <1>1
    <2>2. \E f : Recurs(n, Seq(E), <<>>, step, f)
        BY <2>1, <1>4, RecursionExists
    <2> QED
        BY <2>2 DEF Recurs
<1>6. \A i \in 0 .. n : i # 0 => i \in 1 .. n /\ i - 1 \in 0 .. n
    BY <1>1
<1>7. f = Def(f)
    <2>1. ASSUME NEW i \in 1 .. n PROVE f[i] = Of(i, f[i - 1])
        <3>1. i - 1 \in 0 .. n
            BY <1>1
        <3>2. f[i - 1] \in Seq(E) /\ f[i] = step[i][f[i - 1]]
            BY <1>5, <3>1
        <3> QED
            BY <3>2
    <2>2. \A i \in 0 .. n : f[i] = IF i = 0 THEN <<>> ELSE Of(i, f[i - 1])
        BY <2>1, <1>5, <1>6
    <2> QED
        BY <2>2, <1>5
<1> DEFINE kept == KeptSoFar(place, head, system, join)
<1>8. kept = Def(kept)
    <2> HIDE DEF Def
    <2> QED
        BY <1>3, <1>7, Zenon
<1> HIDE DEF kept
<1>9. 0 \in 0 .. n /\ kept[0] = <<>> /\ \A i \in 1 .. n : kept[i] = Of(i, kept[i - 1])
    <2>1. \A i \in 1 .. n : i \in 0 .. n /\ i # 0
        BY <1>1
    <2> QED
        BY <1>1, <1>8, <2>1
<1>10. \A i \in 0 .. n : kept[i] \in Seq(E)
    <2> DEFINE S == {i \in 0 .. n : kept[i] \in Seq(E)}
    <2>1. 0 \in S
        BY <1>1, <1>9
    <2>2. ASSUME NEW i \in 1 .. n, i - 1 \in S PROVE i \in S
        BY <2>2, <1>2, <1>9
    <2> HIDE DEF S
    <2>3. \A i \in 0 .. n : i \in S
        BY <1>1, <2>1, <2>2, CountingUp
    <2> QED
        BY <2>3 DEF S
<1>11. kept \in [0 .. n -> Seq(E)]
    BY <1>8, <1>10
<1> QED
    BY <1>9, <1>11 DEF kept, n, Of, EntryByEntry

-----------------------------------------------------------------------------
(* The entries at some positions, in order.                                *)
LEMMA RankType ==
    ASSUME NEW m \in Nat, NEW S \in SUBSET (1 .. m)
    PROVE  /\ IsFiniteSet(S) /\ Cardinality(S) \in Nat
           /\ \A k : IsFiniteSet({l \in S : l <= k}) /\ Rank(S, k) \in Nat
<1>1. IsFiniteSet(1 .. m)
    BY FS_Interval
<1>2. IsFiniteSet(S)
    BY <1>1, FS_Subset
<1>3. ASSUME NEW k PROVE IsFiniteSet({l \in S : l <= k})
    <2>1. {l \in S : l <= k} \in SUBSET S
        OBVIOUS
    <2> QED
        BY <2>1, <1>2, FS_Subset
<1> QED
    BY <1>2, <1>3, FS_CardinalityType DEF Rank

LEMMA RankIncreases ==
    ASSUME NEW m \in Nat, NEW S \in SUBSET (1 .. m), NEW j \in S, NEW k \in S, j < k
    PROVE  Rank(S, j) < Rank(S, k)
<1> DEFINE U == {l \in S : l <= j}
           V == {l \in S : l <= k}
<1>1. IsFiniteSet(U) /\ IsFiniteSet(V) /\ Cardinality(U) \in Nat /\ Cardinality(V) \in Nat
    BY RankType DEF Rank
<1>2. k \notin U /\ U \cup {k} \in SUBSET V
    <2>1. \A l \in S : l \in Nat
        OBVIOUS
    <2>2. j \in Nat /\ k \in Nat
        BY <2>1
    <2>3. k \notin U /\ k \in V
        BY <2>2
    <2>4. ASSUME NEW l \in U PROVE l \in V
        BY <2>1, <2>2
    <2> QED
        BY <2>3, <2>4
<1>3. Cardinality(U \cup {k}) = Cardinality(U) + 1
    BY <1>1, <1>2, FS_AddElement
<1>4. Cardinality(U \cup {k}) <= Cardinality(V)
    BY <1>1, <1>2, FS_Subset
<1> HIDE DEF U, V
<1>5. Cardinality(U) < Cardinality(V)
    BY <1>1, <1>3, <1>4
<1> QED
    BY <1>5 DEF Rank, U, V

LEMMA RankUnique ==
    ASSUME NEW m \in Nat, NEW S \in SUBSET (1 .. m), NEW j \in S, NEW k \in S,
           Rank(S, j) = Rank(S, k)
    PROVE  j = k
<1>1. Rank(S, j) \in Nat /\ Rank(S, k) \in Nat
    BY RankType
<1>2. j \in Nat /\ k \in Nat
    OBVIOUS
<1>3. ASSUME j < k PROVE FALSE
    BY <1>1, <1>3, RankIncreases
<1>4. ASSUME k < j PROVE FALSE
    BY <1>1, <1>4, RankIncreases
<1> QED
    BY <1>2, <1>3, <1>4

Lists(c, chain, S) ==
    /\ Len(c) = Cardinality(S)
    /\ \A n \in 1 .. Len(c) : \E k \in S : Rank(S, k) = n /\ c[n] = chain[k]

LEMMA ListsOnlyListed ==
    ASSUME NEW m \in Nat, NEW S \in SUBSET (1 .. m), NEW E, NEW c \in Seq(E), NEW chain,
           Lists(c, chain, S)
    PROVE  c = Listed(chain, S)
<1>1. Len(c) \in Nat /\ c = [n \in 1 .. Len(c) |-> c[n]] /\ Len(c) = Cardinality(S)
    BY LenProperties DEF Lists
<1>2. ASSUME NEW n \in 1 .. Len(c)
      PROVE  c[n] = chain[CHOOSE k \in S : Rank(S, k) = n]
    <2>1. PICK k \in S : Rank(S, k) = n /\ c[n] = chain[k]
        BY DEF Lists
    <2> DEFINE j == CHOOSE l \in S : Rank(S, l) = n
    <2>2. j \in S /\ Rank(S, j) = n
        BY <2>1
    <2> HIDE DEF j
    <2>3. j = k
        BY <2>1, <2>2, RankUnique
    <2> QED
        BY <2>1, <2>3 DEF j
<1> QED
    BY <1>1, <1>2 DEF Listed

(* What a chain lists at the first positions: nothing, or what it has      *)
(* listed before and one more.                                             *)
UpTo(S, i) == {k \in S : k <= i}

LEMMA ListsNothing ==
    ASSUME NEW m \in Nat, NEW S \in SUBSET (1 .. m), NEW chain
    PROVE  Lists(<<>>, chain, UpTo(S, 0))
<1>1. UpTo(S, 0) = {}
    <2>1. \A k \in S : ~ (k <= 0)
        OBVIOUS
    <2> QED
        BY <2>1 DEF UpTo
<1> QED
    BY <1>1, FS_EmptySet DEF Lists

LEMMA ListsOneMore ==
    ASSUME NEW m \in Nat, NEW S \in SUBSET (1 .. m), NEW i \in S, NEW E, NEW c \in Seq(E),
           NEW chain, chain[i] \in E, Lists(c, chain, UpTo(S, i - 1))
    PROVE  Lists(Append(c, chain[i]), chain, UpTo(S, i))
<1> DEFINE U == UpTo(S, i - 1)
           V == UpTo(S, i)
           d == Append(c, chain[i])
<1>1. /\ U \in SUBSET (1 .. m) /\ V \in SUBSET (1 .. m) /\ V = U \cup {i} /\ i \notin U
      /\ i \in Nat
    <2>1. i \in Nat /\ \A k \in S : k \in Nat /\ (k <= i <=> k <= i - 1 \/ k = i)
        <3>1. \A k \in S : k \in Nat
            OBVIOUS
        <3> QED
            BY <3>1
    <2>2. ~ (i <= i - 1)
        BY <2>1
    <2> QED
        BY <2>1, <2>2 DEF UpTo
<1>2. /\ IsFiniteSet(U) /\ Cardinality(U) \in Nat /\ Cardinality(V) \in Nat
    BY <1>1, RankType
<1>3. Cardinality(V) = Cardinality(U) + 1
    BY <1>1, <1>2, FS_AddElement
<1>4. Rank(V, i) = Cardinality(V)
    <2>1. {l \in V : l <= i} = V
        BY DEF UpTo
    <2> QED
        BY <2>1 DEF Rank
<1>5. ASSUME NEW k \in U PROVE Rank(V, k) = Rank(U, k)
    <2>1. \A l \in U : l \in Nat /\ l <= i - 1
        BY <1>1 DEF UpTo
    <2>2. ~ (i <= k)
        BY <1>1, <2>1
    <2>3. \A l : l \in V <=> l \in U \/ l = i
        BY <1>1
    <2> HIDE DEF U, V
    <2>4. {l \in V : l <= k} = {l \in U : l <= k}
        BY <2>2, <2>3
    <2> QED
        BY <2>4 DEF Rank
<1>6. Len(c) = Cardinality(U) /\ \A n \in 1 .. Len(c) : \E k \in U : Rank(U, k) = n /\ c[n] = chain[k]
    BY DEF Lists
<1>7. /\ Len(d) = Len(c) + 1 /\ d[Len(d)] = chain[i]
      /\ \A n \in 1 .. Len(c) : d[n] = c[n]
    BY AppendProperties
<1> HIDE DEF U, V, d
<1>8. ASSUME NEW n \in 1 .. Len(d)
      PROVE  \E k \in V : Rank(V, k) = n /\ d[n] = chain[k]
    <2>1. CASE n = Len(d)
        <3>1. Rank(V, i) = n /\ d[n] = chain[i] /\ i \in V
            BY <2>1, <1>1, <1>3, <1>4, <1>6, <1>7
        <3> QED
            BY <3>1
    <2>2. CASE n # Len(d)
        <3>1. n \in 1 .. Len(c)
            BY <2>2, <1>2, <1>6, <1>7
        <3>2. PICK k \in U : Rank(U, k) = n /\ c[n] = chain[k]
            BY <3>1, <1>6
        <3>3. k \in V /\ Rank(V, k) = n /\ d[n] = chain[k]
            BY <3>1, <3>2, <1>1, <1>5, <1>7
        <3> QED
            BY <3>3
    <2> QED
        BY <2>1, <2>2
<1>9. Len(d) = Cardinality(V)
    BY <1>3, <1>6, <1>7
<1> QED
    BY <1>8, <1>9 DEF Lists, V, d

-----------------------------------------------------------------------------
(* What has been kept of the first i entries: those entries are listed     *)
(* that are the first for their place, and of each place it is known       *)
(* whether it has been met.                                                *)
Met(place, head, i, e) == \E l \in 1 .. i : Same(place, e, head[l])
Knows(place, head, system, c, i) ==
    \A e : place[e.name] # "nowhere" /\ ~Among(place, e, system) =>
              (Among(place, e, c) <=> Met(place, head, i, e))
KeptRight(place, head, system, c, i) ==
    /\ Lists(c, head, UpTo(Firsts(place, head, system), i))
    /\ Knows(place, head, system, c, i)

LEMMA FirstsType ==
    ASSUME NEW place, NEW E, NEW head \in Seq(E), NEW system
    PROVE  Len(head) \in Nat /\ Firsts(place, head, system) \in SUBSET (1 .. Len(head))
  BY LenProperties DEF Firsts

(* An entry is kept if and only if it is the first for its place.          *)
LEMMA FirstIsKept ==
    ASSUME NEW place, NEW E, NEW head \in Seq(E), NEW system, NEW i \in 1 .. Len(head), NEW c,
           Knows(place, head, system, c, i - 1)
    PROVE  i \in Firsts(place, head, system) <=>
              /\ place[head[i].name] # "nowhere"
              /\ ~Among(place, head[i], system) /\ ~Among(place, head[i], c)
<1>1. i \in DOMAIN head
    BY LenProperties
<1>2. i \in Firsts(place, head, system) <=>
         /\ place[head[i].name] # "nowhere" /\ ~Among(place, head[i], system)
         /\ ~Met(place, head, i - 1, head[i])
    BY <1>1 DEF Firsts, Met
<1> QED
    BY <1>2 DEF Knows

LEMMA SamePlace ==
    ASSUME NEW place, NEW e, NEW f, Same(place, e, f)
    PROVE  /\ place[e.name] = place[f.name]
           /\ \A c : Among(place, e, c) <=> Among(place, f, c)
  BY DEF Same, Among

LEMMA AmongAppended ==
    ASSUME NEW place, NEW E, NEW c \in Seq(E), NEW f \in E, NEW e
    PROVE  Among(place, e, Append(c, f)) <=> Among(place, e, c) \/ Same(place, e, f)
<1>1. /\ DOMAIN c = 1 .. Len(c) /\ Len(c) \in Nat
      /\ DOMAIN Append(c, f) = 1 .. Len(c) + 1
      /\ \A k \in 1 .. Len(c) : Append(c, f)[k] = c[k]
      /\ Append(c, f)[Len(c) + 1] = f
    BY LenProperties, AppendProperties
<1>2. \A k : k \in 1 .. Len(c) + 1 <=> k \in 1 .. Len(c) \/ k = Len(c) + 1
    BY <1>1
<1> QED
    BY <1>1, <1>2 DEF Among

LEMMA MetOneMore ==
    ASSUME NEW place, NEW head, NEW i \in Nat \ {0}, NEW e
    PROVE  Met(place, head, i, e) <=> Met(place, head, i - 1, e) \/ Same(place, e, head[i])
<1>1. \A l : l \in 1 .. i <=> l \in 1 .. i - 1 \/ l = i
    OBVIOUS
<1> QED
    BY <1>1 DEF Met

LEMMA OneEntry ==
    ASSUME NEW place, NEW E, NEW head \in Seq(E), NEW system, NEW join, NEW i \in 1 .. Len(head),
           NEW c \in Seq(E), KeptRight(place, head, system, c, i - 1),
           ~ (i = Len(head) /\ join # <<>> /\ Same(place, head[i], join[1]))
    PROVE  KeptRight(place, head, system, KeptOf(place, head, system, join, i, c), i)
<1> DEFINE S == Firsts(place, head, system)
           d == KeptOf(place, head, system, join, i, c)
<1>1. Len(head) \in Nat /\ S \in SUBSET (1 .. Len(head)) /\ head[i] \in E /\ i \in Nat \ {0}
    BY FirstsType, ElementOfSeq
<1>2. Lists(c, head, UpTo(S, i - 1)) /\ Knows(place, head, system, c, i - 1)
    BY DEF KeptRight
<1>3. i \in S <=> /\ place[head[i].name] # "nowhere"
                  /\ ~Among(place, head[i], system) /\ ~Among(place, head[i], c)
    BY <1>2, FirstIsKept
<1>4. d = IF i \in S THEN Append(c, head[i]) ELSE c
    BY <1>3 DEF KeptOf, Redundant
<1> HIDE DEF S, d
<1>5. CASE i \in S
    <2>1. Lists(d, head, UpTo(S, i))
        BY <1>1, <1>2, <1>4, <1>5, ListsOneMore
    <2>2. ASSUME NEW e, place[e.name] # "nowhere", ~Among(place, e, system)
          PROVE  Among(place, e, d) <=> Met(place, head, i, e)
        <3>1. Among(place, e, d) <=> Among(place, e, c) \/ Same(place, e, head[i])
            BY <1>1, <1>4, <1>5, AmongAppended
        <3>2. Met(place, head, i, e) <=> Met(place, head, i - 1, e) \/ Same(place, e, head[i])
            BY <1>1, MetOneMore
        <3>3. Among(place, e, c) <=> Met(place, head, i - 1, e)
            BY <1>2, <2>2 DEF Knows
        <3> QED
            BY <3>1, <3>2, <3>3
    <2> QED
        BY <2>1, <2>2 DEF KeptRight, Knows, S, d
<1>6. CASE i \notin S
    <2>1. UpTo(S, i) = UpTo(S, i - 1)
        <3>1. \A k \in S : k # i /\ k \in Nat
            BY <1>1, <1>6
        <3>2. \A k \in S : k <= i <=> k <= i - 1
            BY <1>1, <3>1
        <3> QED
            BY <3>2 DEF UpTo
    <2>2. Lists(d, head, UpTo(S, i))
        BY <1>2, <1>4, <1>6, <2>1
    <2>3. ASSUME NEW e, place[e.name] # "nowhere", ~Among(place, e, system)
          PROVE  Among(place, e, d) <=> Met(place, head, i, e)
        <3>1. Met(place, head, i, e) <=> Met(place, head, i - 1, e) \/ Same(place, e, head[i])
            BY <1>1, MetOneMore
        <3>2. Among(place, e, c) <=> Met(place, head, i - 1, e)
            BY <1>2, <2>3 DEF Knows
        <3>3. ASSUME Same(place, e, head[i]) PROVE Among(place, e, c)
            BY <1>3, <1>6, <2>3, <3>3, SamePlace
        <3>4. d = c
            BY <1>4, <1>6
        <3> QED
            BY <3>1, <3>2, <3>3, <3>4
    <2> QED
        BY <2>2, <2>3 DEF KeptRight, Knows, S, d
<1> QED
    BY <1>5, <1>6

(* After no entry, nothing is kept.                                        *)
LEMMA NoEntry ==
    ASSUME NEW place, NEW E, NEW head \in Seq(E), NEW system
    PROVE  KeptRight(place, head, system, <<>>, 0)
<1>1. Lists(<<>>, head, UpTo(Firsts(place, head, system), 0))
    BY FirstsType, ListsNothing
<1>2. \A e : ~Among(place, e, <<>>) /\ ~Met(place, head, 0, e)
    <2>1. DOMAIN <<>> = {} /\ 1 .. 0 = {}
        OBVIOUS
    <2> QED
        BY <2>1 DEF Among, Met
<1> QED
    BY <1>1, <1>2 DEF KeptRight, Knows

(* What is kept of all entries but the last, and of all entries if the     *)
(* last one is not that of join.                                           *)
LastJoins(place, head, join) ==
    Len(head) > 0 /\ join # <<>> /\ Same(place, head[Len(head)], join[1])

LEMMA KeptIsRight ==
    ASSUME NEW place, NEW E, NEW head \in Seq(E), NEW system, NEW join, NEW n \in 0 .. Len(head),
           n = Len(head) => ~LastJoins(place, head, join)
    PROVE  KeptRight(place, head, system, KeptSoFar(place, head, system, join)[n], n)
<1> DEFINE kept == KeptSoFar(place, head, system, join)
<1>0. EntryByEntry(place, E, head, system, join, kept)
    BY KeptIs
<1> HIDE DEF kept
<1>1. /\ kept \in [0 .. Len(head) -> Seq(E)] /\ kept[0] = <<>>
      /\ \A i \in 1 .. Len(head) :
            kept[i] = KeptOf(place, head, system, join, i, kept[i - 1])
    BY <1>0 DEF EntryByEntry
<1> DEFINE S == {i \in 0 .. n : KeptRight(place, head, system, kept[i], i)}
<1>2. Len(head) \in Nat
    BY LenProperties
<1>3. 0 \in S
    BY <1>1, <1>2, NoEntry
<1>4. ASSUME NEW i \in 1 .. n, i - 1 \in S PROVE i \in S
    <2>1. i \in 1 .. Len(head) /\ i - 1 \in 0 .. Len(head) /\ Len(head) > 0
        BY <1>2
    <2>2. kept[i - 1] \in Seq(E) /\ KeptRight(place, head, system, kept[i - 1], i - 1)
        BY <1>1, <1>4, <2>1
    <2>3. ~ (i = Len(head) /\ join # <<>> /\ Same(place, head[i], join[1]))
        BY <1>2, <2>1 DEF LastJoins
    <2>4. KeptRight(place, head, system, kept[i], i)
        BY <1>1, <2>1, <2>2, <2>3, OneEntry
    <2> QED
        BY <2>4
<1> HIDE DEF S
<1>5. n \in Nat
    BY <1>2
<1>6. \A i \in 0 .. n : i \in S
    BY <1>3, <1>4, <1>5, CountingUp
<1> QED
    BY <1>5, <1>6 DEF S, kept

LEMMA UpToAll ==
    ASSUME NEW m \in Nat, NEW S \in SUBSET (1 .. m)
    PROVE  UpTo(S, m) = S /\ (m \notin S => UpTo(S, m - 1) = S)
<1>1. \A k \in S : k \in Nat /\ k <= m
    OBVIOUS
<1>2. m \notin S => \A k \in S : k <= m - 1
    BY <1>1
<1> QED
    BY <1>1, <1>2 DEF UpTo

LEMMA AppendedLast ==
    ASSUME NEW E, NEW c \in Seq(E), NEW e \in E
    PROVE  LET d == Append(c, e) IN d # <<>> /\ d[Len(d)] = e /\ SubSeq(d, 1, Len(d) - 1) = c
<1> DEFINE d == Append(c, e)
<1>1. d \in Seq(E) /\ Len(d) = Len(c) + 1 /\ d[Len(d)] = e /\ d # <<>>
      /\ Len(c) \in Nat /\ \A i \in 1 .. Len(c) : d[i] = c[i] /\ c[i] \in E
    BY AppendProperties, LenProperties, ElementOfSeq
<1> HIDE DEF d
<1>2. \A i \in 1 .. Len(c) : d[i] \in E
    BY <1>1
<1>3. /\ SubSeq(d, 1, Len(c)) \in Seq(E) /\ Len(SubSeq(d, 1, Len(c))) = Len(c)
      /\ \A i \in 1 .. Len(c) : SubSeq(d, 1, Len(c))[i] = d[i]
    <2>1. 1 \in Int /\ Len(c) \in Int /\ \A i \in 1 .. Len(c) - 1 + 1 : 1 + i - 1 = i
        BY <1>1
    <2>2. Len(c) - 1 + 1 = Len(c) /\ (~ (1 <= Len(c)) => Len(c) = 0)
        BY <1>1
    <2> QED
        BY <1>2, <2>1, <2>2, SubSeqProperties
<1>4. SubSeq(d, 1, Len(c)) = c
    <2>1. \A i \in 1 .. Len(c) : SubSeq(d, 1, Len(c))[i] = c[i]
        BY <1>1, <1>3
    <2> QED
        BY <1>3, <2>1, SeqEqual
<1>5. Len(d) - 1 = Len(c)
    BY <1>1
<1> QED
    BY <1>1, <1>4, <1>5 DEF d

(* remove_duplicates keeps the first entry of each place, in order; it may *)
(* drop the last of these if join begins with its place.                   *)
Joined(place, system, join, besides, chain) ==
    \/ chain = besides \o join
    \/ /\ besides # <<>> /\ join # <<>> /\ ~Among(place, join[1], system)
       /\ Same(place, besides[Len(besides)], join[1])
       /\ chain = SubSeq(besides, 1, Len(besides) - 1) \o join

LEMMA DuplicatesRemoved ==
    ASSUME NEW place, NEW E, NEW head \in Seq(E), NEW system, NEW join
    PROVE  /\ Besides(place, head, system) \in Seq(E)
           /\ Joined(place, system, join, Besides(place, head, system),
                     RemoveDuplicates(place, head, system, join))
<1> DEFINE n == Len(head)
           kept == KeptSoFar(place, head, system, join)
           S == Firsts(place, head, system)
           besides == Besides(place, head, system)
<1>1. n \in Nat /\ S \in SUBSET (1 .. n) /\ n \in 0 .. n
    BY FirstsType
<1>2. /\ kept \in [0 .. n -> Seq(E)]
      /\ \A i \in 1 .. n : kept[i] = KeptOf(place, head, system, join, i, kept[i - 1])
    <2>1. EntryByEntry(place, E, head, system, join, kept)
        BY KeptIs
    <2> HIDE DEF kept
    <2> QED
        BY <2>1 DEF EntryByEntry
<1>3. besides = Listed(head, S) /\ RemoveDuplicates(place, head, system, join) = kept[n] \o join
    BY DEF Besides, RemoveDuplicates
<1>4. ASSUME NEW i \in 0 .. n, i = n => ~LastJoins(place, head, join)
      PROVE  Lists(kept[i], head, UpTo(S, i))
    BY <1>4, KeptIsRight DEF KeptRight
<1> HIDE DEF kept, S, besides, n
<1>5. CASE ~LastJoins(place, head, join)
    <2>1. Lists(kept[n], head, UpTo(S, n)) /\ kept[n] \in Seq(E)
        BY <1>1, <1>2, <1>4, <1>5
    <2>2. UpTo(S, n) = S
        BY <1>1, UpToAll
    <2>3. kept[n] = besides
        BY <1>1, <1>3, <2>1, <2>2, ListsOnlyListed
    <2> QED
        BY <1>3, <2>1, <2>3 DEF besides, Joined
<1>6. CASE LastJoins(place, head, join)
    <2>1. n \in 1 .. n /\ n - 1 \in 0 .. n /\ n - 1 # n /\ join # <<>> /\ Same(place, head[n], join[1])
        BY <1>1, <1>6 DEF LastJoins, n
    <2> DEFINE c == kept[n - 1]
    <2>2. c \in Seq(E) /\ Lists(c, head, UpTo(S, n - 1))
        BY <1>2, <1>4, <2>1
    <2>3. kept[n] = c
        <3>1. Redundant(place, head, system, join, n, c)
            BY <2>1 DEF Redundant, n
        <3> QED
            BY <1>2, <2>1, <3>1 DEF KeptOf
    <2>4. head[n] \in E
        BY <2>1, ElementOfSeq DEF n
    <2> HIDE DEF c
    <2>5. CASE n \in S
        <3>1. Lists(Append(c, head[n]), head, UpTo(S, n))
            BY <1>1, <2>2, <2>4, <2>5, ListsOneMore
        <3>2. UpTo(S, n) = S /\ Append(c, head[n]) \in Seq(E)
            BY <1>1, <2>2, <2>4, UpToAll, AppendProperties
        <3>3. Append(c, head[n]) = besides
            BY <1>1, <1>3, <3>1, <3>2, ListsOnlyListed
        <3>4. /\ besides \in Seq(E) /\ besides # <<>> /\ besides[Len(besides)] = head[n]
              /\ SubSeq(besides, 1, Len(besides) - 1) = c
            BY <2>2, <2>4, <3>2, <3>3, AppendedLast
        <3>5. ~Among(place, join[1], system)
            <4>1. ~Among(place, head[n], system)
                BY <2>5 DEF S, Firsts
            <4> QED
                BY <2>1, <4>1, SamePlace
        <3> QED
            BY <1>3, <2>1, <2>3, <3>4, <3>5 DEF besides, Joined
    <2>6. CASE n \notin S
        <3>1. UpTo(S, n - 1) = S
            BY <1>1, <2>6, UpToAll
        <3>2. c = besides
            BY <1>1, <1>3, <2>2, <3>1, ListsOnlyListed
        <3> QED
            BY <1>3, <2>2, <2>3, <3>2 DEF besides, Joined
    <2> QED
        BY <2>5, <2>6
<1> QED
    BY <1>5, <1>6

(* The chains keep what they hold.                                         *)
LEMMA DuplicatesRemovedType ==
    ASSUME NEW place, NEW E, NEW head \in Seq(E), NEW system, NEW join \in Seq(E)
    PROVE  RemoveDuplicates(place, head, system, join) \in Seq(E)
<1> DEFINE kept == KeptSoFar(place, head, system, join)
<1>1. EntryByEntry(place, E, head, system, join, kept)
    BY KeptIs
<1>2. Len(head) \in 0 .. Len(head)
    BY LenProperties
<1> HIDE DEF kept
<1>3. kept[Len(head)] \in Seq(E)
    BY <1>1, <1>2 DEF EntryByEntry
<1>4. kept[Len(head)] \o join \in Seq(E)
    BY <1>3, ConcatProperties
<1> QED
    BY <1>4 DEF RemoveDuplicates, kept

LEMMA NothingJoined ==
    ASSUME NEW place, NEW E, NEW head \in Seq(E), NEW system
    PROVE  /\ Besides(place, head, system) \in Seq(E)
           /\ RemoveDuplicates(place, head, system, <<>>) = Besides(place, head, system)
<1> DEFINE besides == Besides(place, head, system)
           chain == RemoveDuplicates(place, head, system, <<>>)
<1>1. besides \in Seq(E) /\ Joined(place, system, <<>>, besides, chain)
    BY DuplicatesRemoved
<1> HIDE DEF besides, chain
<1>2. chain = besides
    BY <1>1, ConcatEmptySeq DEF Joined
<1> QED
    BY <1>1, <1>2 DEF besides, chain

(* The system chain is joined to the bracket chain, of which it has        *)
(* nothing in common.                                                      *)
LEMMA SystemJoined ==
    ASSUME NEW place, NEW E, NEW head \in Seq(E), NEW F, NEW system \in Seq(F)
    PROVE  RemoveDuplicates(place, head, system, system) = Besides(place, head, system) \o system
<1>1. ASSUME system # <<>> PROVE Among(place, system[1], system)
    <2>1. 1 \in DOMAIN system
        BY <1>1, EmptySeq, LenProperties
    <2> QED
        BY <2>1 DEF Among, Same
<1>2. Joined(place, system, system, Besides(place, head, system),
             RemoveDuplicates(place, head, system, system))
    BY DuplicatesRemoved
<1> QED
    BY <1>1, <1>2 DEF Joined

(* merge_include_chains gives the right chains.                            *)
LEMMA MergedRight ==
    ASSUME NEW place, NEW W, NEW N, NEW heads, heads.wrapper \in Seq(W),
           {heads.quote, heads.bracket, heads.system, heads.after} \subseteq Seq(N)
    PROVE  RightChains(place, heads, MergeIncludeChains(place, heads))
<1> DEFINE whole == heads.system \o heads.after
           system == Besides(place, whole, <<>>)
           bracket == Besides(place, heads.bracket, system) \o system
           quote == Besides(place, heads.quote, system)
           chains == MergeIncludeChains(place, heads)
           joined == RemoveDuplicates(place, heads.quote, system, bracket)
<1>1. whole \in Seq(N)
    BY ConcatProperties
<1> HIDE DEF whole
<1>2. system \in Seq(N) /\ RemoveDuplicates(place, whole, <<>>, <<>>) = system
    BY <1>1, NothingJoined
<1> HIDE DEF system
<1>3. RemoveDuplicates(place, heads.bracket, system, system) = bracket
    BY <1>2, SystemJoined
<1>4. RemoveDuplicates(place, heads.wrapper, system, <<>>) = Besides(place, heads.wrapper, system)
    BY NothingJoined
<1> HIDE DEF bracket
<1>5. Joined(place, system, bracket, quote, joined)
    BY DuplicatesRemoved
<1>6. chains = [wrapper |-> Besides(place, heads.wrapper, system), quote |-> joined,
                bracket |-> IF bracket = <<>> THEN joined ELSE bracket,
                ignores |-> heads.ignores]
    BY <1>2, <1>3, <1>4, Zenon DEF MergeIncludeChains, whole
<1> HIDE DEF quote, joined, chains
<1>7. /\ chains.wrapper = Besides(place, heads.wrapper, system) /\ chains.quote = joined
      /\ chains.bracket = IF bracket = <<>> THEN joined ELSE bracket
    BY <1>6
<1>8. /\ chains.bracket = IF bracket = <<>> THEN chains.quote ELSE bracket
      /\ chains.wrapper = Besides(place, heads.wrapper, system)
      /\ \/ chains.quote = quote \o bracket
         \/ /\ quote # <<>> /\ bracket # <<>>
            /\ Same(place, quote[Len(quote)], bracket[1])
            /\ chains.quote = SubSeq(quote, 1, Len(quote) - 1) \o bracket
    BY <1>5, <1>7 DEF Joined
<1> QED
    BY <1>8, Zenon DEF RightChains, whole, system, bracket, quote, chains

-----------------------------------------------------------------------------
(* The command line.                                                       *)
Named(D, chains) == [name : D, chain : chains, sysp : BOOLEAN]
Others == {"quote", "bracket", "system"}
HeadTypes(D) ==
    [wrapper : Seq(Named(D, {"wrapper"})), quote : Seq(Named(D, Others)),
     bracket : Seq(Named(D, Others)), system : Seq(Named(D, Others)),
     after : Seq(Named(D, Others)), ignores : BOOLEAN]

LEMMA EntryTypes ==
    ASSUME NEW D, NEW dir \in D
    PROVE  /\ Entry("wrapper", dir) \in Named(D, {"wrapper"})
           /\ \A c \in {"quote", "bracket", "system", "after"} : Entry(c, dir) \in Named(D, Others)
  BY DEF Entry, Named, Others

LEMMA PathAdded ==
    ASSUME NEW D, NEW dir \in D, NEW heads \in HeadTypes(D),
           NEW chain \in {"wrapper", "quote", "bracket", "system", "after"}
    PROVE  AddPath(heads, chain, dir) \in HeadTypes(D)
<1> DEFINE N == Named(D, Others)
           W == Named(D, {"wrapper"})
           e == Entry(chain, dir)
<1>1. chain = "wrapper" => e \in W
    BY EntryTypes
<1>2. chain # "wrapper" => e \in N
    BY EntryTypes
<1> HIDE DEF N, W, e
<1>3. heads \in [wrapper : Seq(W), quote : Seq(N), bracket : Seq(N), system : Seq(N),
                 after : Seq(N), ignores : BOOLEAN]
    BY DEF HeadTypes, N, W
<1>4. AddPath(heads, chain, dir) = [heads EXCEPT ![chain] = Append(heads[chain], e)]
    BY DEF AddPath, e
<1>5. CASE chain = "wrapper"
    <2>1. Append(heads.wrapper, e) \in Seq(W)
        BY <1>1, <1>3, <1>5, AppendProperties
    <2> QED
        BY <1>3, <1>4, <1>5, <2>1 DEF HeadTypes, N, W
<1>6. CASE chain # "wrapper"
    <2>1. heads[chain] \in Seq(N)
        BY <1>3, <1>6
    <2>2. Append(heads[chain], e) \in Seq(N)
        BY <1>2, <1>6, <2>1, AppendProperties
    <2> QED
        BY <1>3, <1>4, <1>6, <2>2 DEF HeadTypes, N, W
<1> QED
    BY <1>5, <1>6

LEMMA OptionHandled ==
    ASSUME NEW D, NEW heads \in HeadTypes(D), NEW option \in [opt : Options, dir : D]
    PROVE  HandleOption(heads, option) \in HeadTypes(D)
<1>1. option.opt \in Options /\ option.dir \in D
    OBVIOUS
<1>2. \A c \in {"wrapper", "quote", "bracket", "system", "after"} :
          AddPath(heads, c, option.dir) \in HeadTypes(D)
    BY <1>1, PathAdded
<1>3. SplitQuoteChain(heads) \in HeadTypes(D)
    <2>1. <<>> \in Seq(Named(D, Others))
        BY EmptySeq
    <2> QED
        BY <2>1 DEF SplitQuoteChain, HeadTypes
<1>4. HandleI(heads, option.dir) \in HeadTypes(D)
    BY <1>2, <1>3 DEF HandleI
<1>5. HandleOption(heads, option) \in
          {AddPath(heads, "wrapper", option.dir), AddPath(heads, "quote", option.dir),
           AddPath(heads, "system", option.dir), AddPath(heads, "after", option.dir),
           HandleI(heads, option.dir)}
    <2>1. CASE option.opt = "-iwrapper"
        BY <2>1, Zenon DEF HandleOption
    <2>2. CASE option.opt = "-iquote"
        BY <2>2, Zenon DEF HandleOption
    <2>3. CASE option.opt = "-I"
        BY <2>3, Zenon DEF HandleOption
    <2>4. CASE option.opt = "-isystem"
        BY <2>4, Zenon DEF HandleOption
    <2>5. CASE option.opt = "-idirafter"
        BY <2>5, Zenon DEF HandleOption
    <2> QED
        BY <1>1, <2>1, <2>2, <2>3, <2>4, <2>5, Zenon DEF Options
<1> QED
    BY <1>2, <1>4, <1>5

LEMMA NoHeads == \A D : Heads \in HeadTypes(D)
<1> TAKE D
<1>1. <<>> \in Seq(Named(D, Others)) /\ <<>> \in Seq(Named(D, {"wrapper"}))
    BY EmptySeq
<1> QED
    BY <1>1 DEF Heads, HeadTypes

LEMMA OptionsHandled ==
    ASSUME NEW D, NEW options \in Seq([opt : Options, dir : D])
    PROVE  HandleOptions(options) \in HeadTypes(D)
<1> DEFINE n == Len(options)
           T == HeadTypes(D)
           Def(f) == [i \in 0 .. n |-> IF i = 0 THEN Heads ELSE HandleOption(f[i - 1], options[i])]
           step == [i \in 1 .. n |-> [heads \in T |-> HandleOption(heads, options[i])]]
           handled == CHOOSE f : f = Def(f)
<1>1. n \in Nat /\ Heads \in T
    BY LenProperties, NoHeads
<1>2. \A i \in 1 .. n : \A heads \in T : HandleOption(heads, options[i]) \in T
    BY OptionHandled, ElementOfSeq
<1>3. HandleOptions(options) = handled[n]
    BY Zenon DEF HandleOptions
<1> HIDE DEF n, T
<1>4. step \in [1 .. n -> [T -> T]]
    BY <1>2
<1>5. PICK f : Recurs(n, T, Heads, step, f)
    <2> HIDE DEF step
    <2> QED
        BY <1>1, <1>4, RecursionExists
<1>6. f = Def(f)
    <2>1. f \in [0 .. n -> T] /\ f[0] = Heads
        BY <1>5 DEF Recurs
    <2>2. ASSUME NEW i \in 1 .. n PROVE f[i] = HandleOption(f[i - 1], options[i])
        <3>1. i - 1 \in 0 .. n
            BY <1>1
        <3>2. f[i - 1] \in T /\ f[i] = step[i][f[i - 1]]
            BY <1>5, <3>1 DEF Recurs
        <3> QED
            BY <3>2
    <2>3. \A i \in 0 .. n : i # 0 => i \in 1 .. n
        BY <1>1
    <2> QED
        BY <2>1, <2>2, <2>3
<1>7. handled = Def(handled)
    <2> HIDE DEF Def
    <2> QED
        BY <1>6, Zenon
<1> HIDE DEF handled
<1>8. handled[0] = Heads /\ \A i \in 1 .. n : handled[i] = HandleOption(handled[i - 1], options[i])
    <2>1. 0 \in 0 .. n /\ \A i \in 1 .. n : i \in 0 .. n /\ i # 0
        BY <1>1
    <2> QED
        BY <1>7, <2>1
<1>9. handled[n] \in T
    <2> DEFINE S == {i \in 0 .. n : handled[i] \in T}
    <2>1. 0 \in S
        BY <1>1, <1>8
    <2>2. ASSUME NEW i \in 1 .. n, i - 1 \in S PROVE i \in S
        BY <2>2, <1>2, <1>8
    <2> HIDE DEF S
    <2>3. \A i \in 0 .. n : i \in S
        BY <1>1, <2>1, <2>2, CountingUp
    <2> QED
        BY <1>1, <2>3 DEF S
<1> QED
    BY <1>3, <1>9 DEF T

LEMMA StandardAdded ==
    ASSUME NEW D, NEW heads \in HeadTypes(D), NEW standard \in Seq(D)
    PROVE  AddStandardPaths(heads, standard) \in HeadTypes(D)
<1> DEFINE N == Named(D, Others)
           W == Named(D, {"wrapper"})
           more == [k \in DOMAIN standard |-> Entry("system", standard[k])]
<1>1. DOMAIN standard = 1 .. Len(standard) /\ Len(standard) \in Nat
      /\ \A k \in 1 .. Len(standard) : standard[k] \in D
    BY LenProperties, ElementOfSeq
<1>2. \A k \in 1 .. Len(standard) : Entry("system", standard[k]) \in N
    BY <1>1, EntryTypes
<1> HIDE DEF N, W
<1>3. more \in Seq(N)
    <2>1. more \in [1 .. Len(standard) -> N]
        BY <1>1, <1>2
    <2> QED
        BY <1>1, <2>1, SeqDef
<1>4. AddStandardPaths(heads, standard) = [heads EXCEPT !.system = heads.system \o more]
    BY DEF AddStandardPaths
<1> HIDE DEF more
<1>5. heads \in [wrapper : Seq(W), quote : Seq(N), bracket : Seq(N), system : Seq(N),
                 after : Seq(N), ignores : BOOLEAN]
    BY DEF HeadTypes, N, W
<1>6. heads.system \o more \in Seq(N)
    BY <1>3, <1>5, ConcatProperties
<1> QED
    BY <1>4, <1>5, <1>6 DEF HeadTypes, N, W

HeadsOf(options, standard) == AddStandardPaths(HandleOptions(options), standard)

LEMMA HeadsOfTyped ==
    ASSUME NEW D, NEW options \in Seq([opt : Options, dir : D]), NEW standard \in Seq(D)
    PROVE  HeadsOf(options, standard) \in HeadTypes(D)
  BY OptionsHandled, StandardAdded DEF HeadsOf

(* Every command line, whatever its directories are and wherever they      *)
(* lead, has the right chains.                                             *)
THEOREM EveryLineIsRight ==
    ASSUME NEW D, NEW place,
           NEW options \in Seq([opt : Options, dir : D]), NEW standard \in Seq(D)
    PROVE  RightChains(place, AddStandardPaths(HandleOptions(options), standard),
                       IncludeChains(place, options, standard))
<1> DEFINE heads == HeadsOf(options, standard)
<1>1. heads \in HeadTypes(D)
    BY HeadsOfTyped
<1> HIDE DEF heads
<1>2. /\ heads.wrapper \in Seq(Named(D, {"wrapper"}))
      /\ {heads.quote, heads.bracket, heads.system, heads.after} \subseteq Seq(Named(D, Others))
    BY <1>1 DEF HeadTypes
<1>3. RightChains(place, heads, MergeIncludeChains(place, heads))
    BY <1>2, MergedRight
<1> QED
    BY <1>3 DEF heads, HeadsOf, IncludeChains

(* A chain holds the directories it is given, so no path but the wrappers' *)
(* own holds a wrapper: what IncludeSearch assumes of its units.           *)
THEOREM EveryLineIsTyped ==
    ASSUME NEW D, NEW place,
           NEW options \in Seq([opt : Options, dir : D]), NEW standard \in Seq(D)
    PROVE  LET chains == IncludeChains(place, options, standard)
           IN /\ {chains.wrapper, chains.quote, chains.bracket} \subseteq Seq(CppDirs(D))
              /\ \A k \in DOMAIN chains.wrapper : chains.wrapper[k].chain = "wrapper"
              /\ \A k \in DOMAIN chains.quote : chains.quote[k].chain # "wrapper"
              /\ \A k \in DOMAIN chains.bracket : chains.bracket[k].chain # "wrapper"
<1> DEFINE heads == HeadsOf(options, standard)
           N == Named(D, Others)
           W == Named(D, {"wrapper"})
           system == RemoveDuplicates(place, heads.system \o heads.after, <<>>, <<>>)
           bracket == RemoveDuplicates(place, heads.bracket, system, system)
           quote == RemoveDuplicates(place, heads.quote, system, bracket)
           wrapper == RemoveDuplicates(place, heads.wrapper, system, <<>>)
           chains == IncludeChains(place, options, standard)
<1>1. chains = [wrapper |-> wrapper, quote |-> quote,
                bracket |-> IF bracket = <<>> THEN quote ELSE bracket,
                ignores |-> heads.ignores]
    BY Zenon DEF IncludeChains, MergeIncludeChains, HeadsOf
<1>2. heads \in HeadTypes(D)
    BY HeadsOfTyped
<1> HIDE DEF heads
<1>3. /\ heads.wrapper \in Seq(W) /\ heads.quote \in Seq(N) /\ heads.bracket \in Seq(N)
      /\ heads.system \in Seq(N) /\ heads.after \in Seq(N)
    BY <1>2 DEF HeadTypes
<1> HIDE DEF N, W
<1>4. <<>> \in Seq(N) /\ <<>> \in Seq(W) /\ heads.system \o heads.after \in Seq(N)
    BY <1>3, EmptySeq, ConcatProperties
<1>5. system \in Seq(N)
    BY <1>4, DuplicatesRemovedType
<1> HIDE DEF system
<1>6. bracket \in Seq(N)
    BY <1>3, <1>5, DuplicatesRemovedType
<1> HIDE DEF bracket
<1>7. quote \in Seq(N)
    BY <1>3, <1>6, DuplicatesRemovedType
<1>8. wrapper \in Seq(W)
    BY <1>3, <1>4, DuplicatesRemovedType
<1> HIDE DEF quote, wrapper, chains
<1>9. chains.wrapper \in Seq(W) /\ chains.quote \in Seq(N) /\ chains.bracket \in Seq(N)
    BY <1>1, <1>6, <1>7, <1>8
<1>10. N \subseteq CppDirs(D) /\ W \subseteq CppDirs(D)
    BY DEF N, W, Named, Others, CppDirs, Chains
<1>11. (\A e \in W : e.chain = "wrapper") /\ (\A e \in N : e.chain # "wrapper")
    BY DEF N, W, Named, Others
<1>12. {chains.wrapper, chains.quote, chains.bracket} \subseteq Seq(CppDirs(D))
    BY <1>9, <1>10, SeqMonotonic
<1>13. /\ \A k \in DOMAIN chains.wrapper : chains.wrapper[k] \in W
       /\ \A k \in DOMAIN chains.quote : chains.quote[k] \in N
       /\ \A k \in DOMAIN chains.bracket : chains.bracket[k] \in N
    BY <1>9, LenProperties, ElementOfSeq
<1>14. /\ \A k \in DOMAIN chains.wrapper : chains.wrapper[k].chain = "wrapper"
       /\ \A k \in DOMAIN chains.quote : chains.quote[k].chain # "wrapper"
       /\ \A k \in DOMAIN chains.bracket : chains.bracket[k].chain # "wrapper"
    BY <1>11, <1>13
<1> QED
    BY <1>12, <1>14, Zenon DEF chains

-----------------------------------------------------------------------------
(* The unit that is read.                                                  *)

LEMMA SameUnit == WrapperSpec => [](unit \in Units)
<1>1. WrapperInit => unit \in Units
    BY DEF WrapperInit, Init
<1>2. unit \in Units /\ [WrapperNext]_wrapperVars => (unit \in Units)'
    BY DEF WrapperNext, WrapperStep, ReadMainFile, NestedTooDeeply, IncludeFails, StackInclude,
           PopBuffer, Done, wrapperVars, vars
<1> QED
    BY <1>1, <1>2, PTL DEF WrapperSpec

(* While a unit is read its chains are those its command line asks for:    *)
(* the first mention of each directory counts, the directories of the      *)
(* system only where the system has them, and <> searches the end of what  *)
(* "" searches.                                                            *)
THEOREM UnitsHaveRightChains == WrapperSpec => []ChainsAreRight
<1>1. unit \in Units => ChainsAreRight
    <2> SUFFICES ASSUME unit \in Units PROVE ChainsAreRight
        OBVIOUS
    <2> DEFINE place == unit.place
               line == unit.line
               D == DOMAIN unit.place \cup {"-"}
               chains == IncludeChains(place, line.options, line.standard)
               heads == AddStandardPaths(HandleOptions(line.options), line.standard)
    <2>1. /\ line.options \in Seq([opt : Options, dir : D]) /\ line.standard \in Seq(DOMAIN place)
          /\ unit.wrapper = chains.wrapper /\ unit.quote = chains.quote
          /\ unit.bracket = chains.bracket
        BY LineAssumption DEF OfLine
    <2>2. line.standard \in Seq(D)
        BY <2>1, SeqMonotonic
    <2>3. RightChains(place, heads, chains)
        BY <2>1, <2>2, EveryLineIsRight
    <2> HIDE DEF place, heads, chains
    <2>4. RightChains(place, heads, unit)
        BY <2>1, <2>3 DEF RightChains
    <2> QED
        BY <2>4 DEF ChainsAreRight, place, heads
<1> QED
    BY <1>1, SameUnit, PTL
=============================================================================
