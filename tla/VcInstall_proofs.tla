--------------------------- MODULE VcInstall_proofs ---------------------------
(***************************************************************************)
(* What the timestamp of gccxml_vcconfig means on every machine, whatever  *)
(* fails and however often the build is interrupted and repeated.          *)
(***************************************************************************)
EXTENDS VcInstall, TLAPS

(* A disk as TypeOK wants it.                                              *)
Typed(d) == DOMAIN d = Products /\ \A i \in Products : d[i] \in [Headers(world, i) -> Contents]

(* What is known of the machine.                                           *)
LEMMA Machine ==
    ASSUME world \in Worlds
    PROVE  /\ Len(world.products) \in Nat /\ Products = 1..Len(world.products)
           /\ \A i \in Products :
                 /\ world.products[i].found \in BOOLEAN /\ world.products[i].patch \in BOOLEAN
                 /\ Len(world.products[i].headers) \in Nat
                 /\ DOMAIN world.products[i].headers = 1..Len(world.products[i].headers)
                 /\ world.products[i].present \subseteq Headers(world, i)
BY WorldAssumption DEF IsSequence, Products

(* What is known of the product whose turn it is.                          *)
LEMMA ProductFacts ==
    ASSUME world \in Worlds, run.i \in Products
    PROVE  /\ Len(Product.headers) \in Nat
           /\ DOMAIN Product.headers = 1..Len(Product.headers)
           /\ Headers(world, run.i) = {Product.headers[n] : n \in DOMAIN Product.headers}
BY Machine DEF Product, Headers

(* The header that is copied is one of the product's.                      *)
LEMMA HeaderOfProduct ==
    ASSUME world \in Worlds, run.i \in Products, run.k \in Nat \ {0}, run.k <= Len(Product.headers)
    PROVE  Product.headers[run.k] \in Headers(world, run.i)
<1>1. run.k \in DOMAIN world.products[run.i].headers
    BY Machine DEF Product
<1> QED
    BY <1>1 DEF Product, Headers

(* One copy changes, and no other.                                         *)
LEMMA HeaderChange ==
    ASSUME Typed(disk), NEW i \in Products, NEW h \in Headers(world, i), NEW c \in Contents,
           disk' = [disk EXCEPT ![i][h] = c]
    PROVE  /\ Typed(disk')
           /\ disk'[i] = [disk[i] EXCEPT ![h] = c]
           /\ \A j \in Products \ {i} : disk'[j] = disk[j]
BY DEF Typed

(* The copies of one product change, and no other.                         *)
LEMMA ProductChange ==
    ASSUME Typed(disk), NEW i \in Products, NEW f \in [Headers(world, i) -> Contents],
           disk' = [disk EXCEPT ![i] = f]
    PROVE  /\ Typed(disk')
           /\ disk'[i] = f
           /\ \A j \in Products \ {i} : disk'[j] = disk[j]
BY DEF Typed

(* What patch leaves is a copy; content it is with a copy as it came only  *)
(* when it has patched it, and never with one that is absent.              *)
LEMMA PatchLeaves ==
    ASSUME NEW c \in Contents, NEW x \in Patched(c)
    PROVE  /\ x[1] \in Contents /\ x[2] \in BOOLEAN
           /\ c = "original" => x[1] = "patched"
           /\ c = "absent" => ~x[2]
<1>1. CASE c = "absent"
    <2>1. x = <<"absent", FALSE>>
        BY <1>1 DEF Patched
    <2> QED
        BY <1>1, <2>1 DEF Contents
<1>2. CASE c = "original"
    <2>1. x = <<"patched", TRUE>>
        BY <1>2 DEF Patched
    <2> QED
        BY <1>2, <2>1 DEF Contents
<1>3. CASE c = "short"
    <2>1. x = <<"short", FALSE>> \/ x = <<"short", TRUE>>
        BY <1>3 DEF Patched
    <2>2. CASE x = <<"short", FALSE>>
        BY <1>3, <2>2 DEF Contents
    <2>3. CASE x = <<"short", TRUE>>
        BY <1>3, <2>3 DEF Contents
    <2> QED
        BY <2>1, <2>2, <2>3
<1>4. CASE c \notin {"absent", "original", "short"}
    <2>1. x = <<c, FALSE>> \/ x = <<"original", TRUE>>
        BY <1>4 DEF Patched
    <2>2. CASE x = <<c, FALSE>>
        BY <1>4, <2>2 DEF Contents
    <2>3. CASE x = <<"original", TRUE>>
        BY <1>4, <2>3 DEF Contents
    <2> QED
        BY <2>1, <2>2, <2>3
<1> QED
    BY <1>1, <1>2, <1>3, <1>4

(* What patch leaves when cat fails is a copy, too.                        *)
LEMMA PartlyPatchedLeaves ==
    ASSUME NEW c \in Contents, NEW x \in PartlyPatched(c)
    PROVE  x[1] \in Contents /\ x[2] \in BOOLEAN
<1>1. \/ x \in Patched(c)
      \/ x = <<c, TRUE>>
      \/ x = <<"outdated", TRUE>>
    BY DEF PartlyPatched
<1>2. CASE x \in Patched(c)
    BY <1>2, PatchLeaves
<1>3. CASE x = <<c, TRUE>>
    BY <1>3
<1>4. CASE x = <<"outdated", TRUE>>
    BY <1>4 DEF Contents
<1> QED
    BY <1>1, <1>2, <1>3, <1>4

(* A wiped disk is a disk, and one of which some files are left has those  *)
(* only.                                                                   *)
LEMMA Wiped ==
    ASSUME Typed(disk)
    PROVE  /\ Typed(Copies)
           /\ \A i \in Products : \A h \in Headers(world, i) : Copies[i][h] = "absent"
<1> QED
    BY DEF Typed, Copies, Contents
LEMMA WipedButSome ==
    ASSUME Typed(disk), NEW some, WipeBut(some)
    PROVE  /\ Typed(disk')
           /\ \A i \in Products : \A h \in Headers(world, i) :
                 disk'[i][h] = "absent" \/ <<i, h>> \in some
BY DEF WipeBut, Typed, Contents

(* The failures that a run may pass over, and what one of them adds.       *)
Lapses == {"remove", "copy", "short", "cat"} \X Products \X AllHeaders
LEMMA LapseAdds ==
    ASSUME NEW what \in {"remove", "copy", "short", "cat"}, NEW some, lapses \subseteq Lapses,
           \A x \in some : x[1] \in Products /\ x[2] \in Headers(world, x[1]),
           Lapse(what, some)
    PROVE  lapses' \subseteq Lapses
BY DEF Lapse, Lapses, AllHeaders
LEMMA LapsesGrow ==
    ASSUME NEW what, NEW some, Lapse(what, some)
    PROVE  /\ \A w, i, h : Lapsed(w, i, h) => Lapsed(w, i, h)'
           /\ \A i, h : <<i, h>> \in some => Lapsed(what, i, h)'
<1>1. ASSUME NEW i, NEW h, <<i, h>> \in some PROVE <<what, i, h>> \in lapses'
    BY <1>1 DEF Lapse
<1>2. lapses \subseteq lapses'
    BY DEF Lapse
<1> QED
    BY <1>1, <1>2 DEF Lapsed

LEMMA LapseOfOne ==
    ASSUME NEW what, NEW i, NEW h, Lapse(what, {<<i, h>>})
    PROVE  Lapsed(what, i, h)'
<1>1. <<what, i, h>> \in {<<what, x[1], x[2]>> : x \in {<<i, h>>}}
    OBVIOUS
<1> QED
    BY <1>1 DEF Lapse, Lapsed

(* They stay when nothing is added.                                        *)
LEMMA LapsesSame ==
    ASSUME UNCHANGED lapses
    PROVE  \A w, i, h : /\ Lapsed(w, i, h) => Lapsed(w, i, h)'
                        /\ Unnoticed(i, h) => Unnoticed(i, h)'
BY DEF Lapsed, Unnoticed

(* Some headers being patched, the disk is a disk.                         *)
LEMMA PatchedInPart ==
    ASSUME Typed(disk), run.i \in Products, PatchSome
    PROVE  /\ Typed(disk')
           /\ \A j \in Products \ {run.i} : disk'[j] = disk[j]
<1>1. PICK done : disk' = [disk EXCEPT ![run.i] = [h \in Headers(world, run.i) |->
                              IF h \in done THEN "patched" ELSE disk[run.i][h]]]
    BY DEF PatchSome
<1>2. [h \in Headers(world, run.i) |-> IF h \in done THEN "patched" ELSE disk[run.i][h]]
            \in [Headers(world, run.i) -> Contents]
    BY DEF Typed, Contents
<1> QED
    BY <1>1, <1>2, ProductChange

-----------------------------------------------------------------------------
(* The products that have had their turn are installed if nothing failed,  *)
(* the one whose turn it is has copies as they came, or none, and what is  *)
(* still to come has been wiped - but for the headers with a failure that  *)
(* went unnoticed, and those that could not be removed, until they are     *)
(* copied.                                                                 *)
Copied(k) == {Product.headers[n] : n \in {m \in DOMAIN Product.headers : m < k}}
Before ==
    \A i \in Found(world) : i < run.i /\ run.result = 0 =>
        \A h \in Headers(world, i) : disk[i][h] = "patched" \/ Unnoticed(i, h)
Now ==
    At("copy") =>
        \A h \in Headers(world, run.i) :
            \/ disk[run.i][h] \in {"original", "absent"}
            \/ Unnoticed(run.i, h)
            \/ Lapsed("remove", run.i, h) /\ h \notin Copied(run.k)
After ==
    \A i \in Products : i > run.i \/ (At("product") /\ i = run.i) \/ At("tools") =>
        \A h \in Headers(world, i) : disk[i][h] = "absent" \/ Lapsed("remove", i, h)
Turns ==
    /\ At("idle") \/ stamp # "fresh"
    /\ At("wipe") \/ At("tools") => run = [Idle EXCEPT !.pc = run.pc]
    /\ At("product") => run.k = 1
    /\ At("tools") \/ At("product") \/ At("copy") => Before /\ Now /\ After
    /\ At("idle") => StampMeansInstalled

(* The product whose headers are copied is one of the machine's.           *)
InProducts == At("copy") => run.i \in Products

(* TypeOK with what it takes to be inductive.                              *)
TypeInv == TypeOK /\ InProducts

(* The values that `run' takes.                                            *)
Runs == [pc : {"idle", "wipe", "tools", "product", "copy"},
         i : 1..Len(world.products) + 1, k : Nat \ {0}, result : {0, 1}]

(* The parts of a typed state.                                             *)
LEMMA TypeParts ==
    ASSUME TypeInv
    PROVE  /\ world \in Worlds /\ Typed(disk) /\ stamp \in {"none", "old", "fresh"} /\ run \in Runs
           /\ lapses \subseteq Lapses /\ faults \in 0..world.faults
           /\ world.faults \in Nat
           /\ run.pc = "copy" => run.i \in Products
BY WorldAssumption DEF TypeInv, TypeOK, Typed, InProducts, At, Runs, Lapses

(* What it takes for the next state to be typed.                           *)
LEMMA TypeKept ==
    ASSUME TypeInv, world' = world, Typed(disk'), stamp' \in {"none", "old", "fresh"}, run' \in Runs,
           lapses' \subseteq Lapses, faults' \in 0..world.faults,
           run'.pc = "copy" => run'.i \in Products
    PROVE  TypeInv'
<1>1. Products' = Products /\ Runs' = Runs /\ Lapses' = Lapses
    BY DEF Products, Runs, Lapses, AllHeaders, Headers
<1>2. \A i \in Products' : disk'[i] \in [Headers(world', i) -> Contents]
    BY <1>1 DEF Typed
<1>3. TypeOK'
    BY <1>1, <1>2, TypeParts DEF TypeOK, Typed, Runs, Lapses
<1> QED
    BY <1>1, <1>3 DEF TypeInv, InProducts, At

(* What RunPatch makes of the disk when patch has run to its end.          *)
LEMMA OutcomeTyped ==
    ASSUME Typed(disk), run.i \in Products,
           NEW o \in Outcomes(TRUE) \cup Outcomes(FALSE), PatchEnds(o)
    PROVE  /\ Typed(disk')
           /\ \A h \in Headers(world, run.i) : disk'[run.i][h] = o[h][1]
           /\ \A j \in Products \ {run.i} : disk'[j] = disk[j]
<1> DEFINE f == [h \in Headers(world, run.i) |-> o[h][1]]
<1>1. \A h \in Headers(world, run.i) :
         /\ disk[run.i][h] \in Contents
         /\ o[h] \in Patched(disk[run.i][h]) \/ o[h] \in PartlyPatched(disk[run.i][h])
    BY DEF Typed, Outcomes
<1>2. f \in [Headers(world, run.i) -> Contents] /\ disk' = [disk EXCEPT ![run.i] = f]
    BY <1>1, PatchLeaves, PartlyPatchedLeaves DEF PatchEnds
<1>3. \A h \in Headers(world, run.i) : f[h] = o[h][1]
    OBVIOUS
<1> HIDE DEF f
<1>4. Typed(disk') /\ disk'[run.i] = f /\ \A j \in Products \ {run.i} : disk'[j] = disk[j]
    BY <1>2, ProductChange
<1> QED
    BY <1>3, <1>4

(* When the result of a product is known, the run goes on with the next.   *)
LEMMA DoneTyped ==
    ASSUME TypeInv, run.i \in Products, NEW ok, Done(ok)
    PROVE  run' \in Runs /\ run'.pc = "product"
<1>1. run.i + 1 \in 1..Len(world.products) + 1
    BY TypeParts, Machine DEF Runs
<1>2. run' = [pc |-> "product", i |-> run.i + 1, k |-> 1,
              result |-> IF ok THEN run.result ELSE 1]
    BY TypeParts DEF Done, Runs
<1>3. (IF ok THEN run.result ELSE 1) \in {0, 1}
    BY TypeParts DEF Runs
<1> QED
    BY <1>1, <1>2, <1>3 DEF Runs

(* The product after one has its turn; one that fails makes the run fail.  *)
LEMMA DoneNext ==
    ASSUME TypeInv, NEW ok \in BOOLEAN, Done(ok)
    PROVE  /\ run'.pc = "product" /\ run'.i = run.i + 1 /\ run'.k = 1
           /\ run'.result = 0 => run.result = 0 /\ ok
<1>1. run \in Runs
    BY TypeParts
<1> QED
    BY <1>1 DEF Done, Runs

(* The invariant of the types: every step keeps it.                        *)
LEMMA TypeStep == TypeInv /\ [Next]_vars => TypeInv'
<1> SUFFICES ASSUME TypeInv, [Next]_vars PROVE TypeInv'
    OBVIOUS
<1>0. /\ world \in Worlds /\ Typed(disk) /\ stamp \in {"none", "old", "fresh"} /\ run \in Runs
      /\ lapses \subseteq Lapses /\ faults \in 0..world.faults
      /\ world.faults \in Nat /\ (run.pc = "copy" => run.i \in Products)
      /\ Len(world.products) \in Nat /\ Products = 1..Len(world.products)
    BY TypeParts, Machine
<1> USE <1>0 DEF Runs, At
<1>1. CASE Start
    BY <1>1, TypeKept DEF Start, Idle
<1>2. CASE Wipe
    <2>1. Typed(disk') /\ lapses' \subseteq Lapses
        <3>1. CASE disk' = Copies /\ UNCHANGED lapses
            BY <3>1, Wiped
        <3>2. CASE \E some \in SUBSET There : WipeBut(some) /\ Lapse("remove", some)
            <4>1. PICK some \in SUBSET There : WipeBut(some) /\ Lapse("remove", some)
                BY <3>2
            <4>2. \A x \in some : x[1] \in Products /\ x[2] \in Headers(world, x[1])
                BY DEF There
            <4> QED
                BY <4>1, <4>2, WipedButSome, LapseAdds
        <3> QED
            BY <1>2, <3>1, <3>2 DEF Wipe
    <2> QED
        BY <1>2, <2>1, TypeKept DEF Wipe, MayFail, Fault
<1>3. CASE FindTools
    BY <1>3, TypeKept DEF FindTools, Idle
<1>4. CASE NextProduct
    <2>1. run.i \in Products /\ UNCHANGED <<world, disk, stamp, lapses, faults>>
        BY <1>4 DEF NextProduct
    <2>2. run' \in Runs /\ (run'.pc = "copy" => run'.i \in Products)
        BY <1>4, <2>1, DoneTyped DEF NextProduct
    <2> QED
        BY <2>1, <2>2, TypeKept
<1>5. CASE CopyHeader
    <2> DEFINE h == Product.headers[run.k]
    <2>1. run.i \in Products /\ h \in Headers(world, run.i)
        BY <1>5, HeaderOfProduct DEF CopyHeader
    <2> HIDE DEF h
    <2>2. UNCHANGED disk \/ \E c \in Contents : disk' = [disk EXCEPT ![run.i][h] = c]
        BY <1>5 DEF CopyHeader, Contents, h
    <2>3. Typed(disk')
        BY <2>1, <2>2, HeaderChange DEF Typed
    <2>4. lapses' \subseteq Lapses
        <3>1. \/ UNCHANGED lapses
              \/ Lapse("copy", {<<run.i, h>>})
              \/ Lapse("short", {<<run.i, h>>})
            BY <1>5 DEF CopyHeader, h
        <3>2. \A x \in {<<run.i, h>>} : x[1] \in Products /\ x[2] \in Headers(world, x[1])
            BY <2>1
        <3> QED
            BY <3>1, <3>2, LapseAdds
    <2> QED
        <3>1. world' = world /\ stamp' = stamp /\ run' = [run EXCEPT !.k = run.k + 1]
            BY <1>5 DEF CopyHeader
        <3>2. faults' = faults \/ (faults > 0 /\ faults' = faults - 1)
            BY <1>5 DEF CopyHeader, MayFail, Fault
        <3>3. faults' \in 0..world.faults
            BY <3>2
        <3>4. run' \in Runs /\ run'.i = run.i /\ run'.pc = run.pc
            BY <3>1
        <3> QED
            BY <2>3, <2>4, <3>1, <3>3, <3>4, TypeKept
<1>6. CASE RunPatch
    <2>1. Typed(disk')
        BY <1>6, OutcomeTyped, PatchedInPart DEF RunPatch
    <2>2. lapses' \subseteq Lapses
        <3>1. UNCHANGED lapses \/ Lapse("cat", {run.i} \X Headers(world, run.i))
            BY <1>6 DEF RunPatch
        <3>2. \A x \in {run.i} \X Headers(world, run.i) : x[1] \in Products /\ x[2] \in Headers(world, x[1])
            BY <1>6 DEF RunPatch
        <3> QED
            BY <3>1, <3>2, LapseAdds
    <2> QED
        <3>1. world' = world /\ stamp' = stamp
            BY <1>6 DEF RunPatch
        <3>2. faults' = faults \/ (faults > 0 /\ faults' = faults - 1)
            BY <1>6 DEF RunPatch, MayFail, Fault
        <3>3. faults' \in 0..world.faults
            BY <3>2
        <3>4. run' \in Runs /\ run'.pc = "product"
            BY <1>6, DoneTyped DEF RunPatch, PatchEnds
        <3> QED
            BY <2>1, <2>2, <3>1, <3>3, <3>4, TypeKept
<1>7. CASE WriteStamp
    BY <1>7, TypeKept DEF WriteStamp, MayFail, Fault, Idle
<1>8. CASE Interrupted
    <2>1. Typed(disk')
        <3>1. CASE At("wipe") /\ \E some \in SUBSET There : WipeBut(some)
            BY <3>1, WipedButSome
        <3>2. CASE At("copy") /\ run.k <= Len(Product.headers) /\ \E content \in {"absent", "short"} :
                       disk' = [disk EXCEPT ![run.i][Product.headers[run.k]] = content]
            BY <3>2, HeaderOfProduct, HeaderChange DEF Contents
        <3>3. CASE At("copy") /\ PatchSome
            BY <3>3, PatchedInPart
        <3>4. CASE UNCHANGED disk
            BY <3>4 DEF Typed
        <3> QED
            BY <1>8, <3>1, <3>2, <3>3, <3>4 DEF Interrupted
    <2> QED
        BY <1>8, <2>1, TypeKept DEF Interrupted, MayFail, Fault, Idle
<1>9. CASE PatchesChange
    <2>1. Typed(disk')
        BY <1>9 DEF PatchesChange, Typed, Contents
    <2> QED
        BY <1>9, <2>1, TypeKept DEF PatchesChange, MayFail, Fault
<1>10. CASE UNCHANGED vars
    BY <1>10, TypeKept DEF vars
<1> QED
    BY <1>1, <1>2, <1>3, <1>4, <1>5, <1>6, <1>7, <1>8, <1>9, <1>10 DEF Next, Step, Built

(* The types are right, whatever fails, in every build on every machine.   *)
THEOREM TypeCorrect == Spec => []TypeOK
<1>1. Init => TypeInv
    BY Machine, WorldAssumption, Wiped DEF Init, TypeInv, TypeOK, InProducts, At, Idle, Copies, Contents
<1>2. TypeInv => TypeOK
    BY DEF TypeInv
<1> QED
    BY <1>1, <1>2, TypeStep, PTL DEF Spec

-----------------------------------------------------------------------------
(* Every step keeps the turns.                                             *)
LEMMA TurnsStep == TypeInv /\ Turns /\ [Next]_vars => Turns'
<1> SUFFICES ASSUME TypeInv, Turns, [Next]_vars PROVE Turns'
    OBVIOUS
<1>0. /\ world \in Worlds /\ Typed(disk) /\ run \in Runs /\ (run.pc = "copy" => run.i \in Products)
      /\ Len(world.products) \in Nat /\ Products = 1..Len(world.products)
    BY TypeParts, Machine
<1> USE <1>0 DEF Runs, At
<1>1. CASE Start
    BY <1>1 DEF Start, Turns, Idle
<1>2. CASE Wipe
    <2>1. run' = [Idle EXCEPT !.pc = "tools"] /\ world' = world /\ stamp' = stamp
        BY <1>2 DEF Wipe, Turns, Idle
    <2>2. \A i \in Products : \A h \in Headers(world, i) : disk'[i][h] = "absent" \/ Lapsed("remove", i, h)'
        <3>1. CASE disk' = Copies
            BY <3>1, Wiped
        <3>2. CASE \E some \in SUBSET There : WipeBut(some) /\ Lapse("remove", some)
            <4>1. PICK some \in SUBSET There : WipeBut(some) /\ Lapse("remove", some)
                BY <3>2
            <4>2. \A i, h : <<i, h>> \in some => Lapsed("remove", i, h)'
                BY <4>1, LapsesGrow
            <4>3. \A i \in Products : \A h \in Headers(world, i) :
                     disk'[i][h] = "absent" \/ <<i, h>> \in some
                BY <1>0, <4>1, WipedButSome, Zenon
            <4> QED
                BY <4>2, <4>3
        <3> QED
            BY <1>2, <3>1, <3>2 DEF Wipe
    <2>3. Before' /\ Now' /\ After'
        BY <2>1, <2>2 DEF Before, Now, After, Idle, Found, Products, Headers
    <2> QED
        BY <1>2, <2>1, <2>3 DEF Wipe, Turns, Idle
<1>3. CASE FindTools
    <2>1. run.i = 1 /\ run.k = 1 /\ stamp # "fresh"
        BY <1>3 DEF FindTools, Turns, Idle
    <2>2. CASE run' = Idle
        BY <1>3, <2>1, <2>2 DEF FindTools, Turns, Idle, StampMeansInstalled
    <2>3. CASE run' = [run EXCEPT !.pc = "product"]
        <3>1. UNCHANGED <<world, disk, stamp, lapses, faults>>
            BY <1>3 DEF FindTools
        <3>2. Before /\ Now /\ After => Before' /\ Now' /\ After'
            <4>1. Before' /\ Now'
                BY <2>1, <2>3, <3>1 DEF Before, Now, Found
            <4>2. \A i, h : Lapsed("remove", i, h) => Lapsed("remove", i, h)'
                BY <3>1, LapsesSame
            <4>3. After => After'
                BY <1>3, <2>1, <2>3, <3>1, <4>2 DEF FindTools, After, Products, Headers
            <4> QED
                BY <4>1, <4>3
        <3> QED
            BY <1>3, <2>1, <2>3, <3>1, <3>2 DEF FindTools, Turns
    <2> QED
        BY <1>3, <2>2, <2>3 DEF FindTools
<1>4. CASE NextProduct
    <2>1. /\ run.i \in Products /\ run.k = 1 /\ stamp # "fresh" /\ At("product")
          /\ UNCHANGED <<world, disk, stamp, lapses, faults>>
        BY <1>4 DEF NextProduct, Turns
    <2>2. \A w, i, h : /\ Lapsed(w, i, h) => Lapsed(w, i, h)'
                       /\ Unnoticed(i, h) => Unnoticed(i, h)'
        BY <2>1, LapsesSame
    <2>3. CASE run' = [run EXCEPT !.pc = "copy"]
        <3>1. Copied(run.k)' = {}
            BY <2>1, <2>3, ProductFacts DEF Copied, Product, Products
        <3>2. Before => Before'
            <4> SUFFICES ASSUME Before, run.result = 0, NEW i \in Found(world), i < run.i,
                                NEW h \in Headers(world, i)
                         PROVE  disk[i][h] = "patched" \/ Unnoticed(i, h)'
                BY <2>1, <2>3 DEF Before, Found, Headers
            <4> QED
                BY <2>2 DEF Before
        <3>3. After => Now' /\ After'
            BY <2>1, <2>3, <2>2, <3>1 DEF Now, After, Products, Headers
        <3> QED
            BY <2>1, <2>3, <3>2, <3>3 DEF Turns
    <2>4. CASE Done(~Product.found)
        <3>1. run'.pc = "product" /\ run'.i = run.i + 1 /\ run'.k = 1
              /\ (run'.result = 0 => run.result = 0 /\ ~Product.found)
            BY <2>4 DEF Done
        <3>2. Before => Before'
            <4> SUFFICES ASSUME Before, run'.result = 0, NEW i \in Found(world), i < run.i + 1,
                                NEW h \in Headers(world, i)
                         PROVE  disk[i][h] = "patched" \/ Unnoticed(i, h)'
                BY <2>1, <3>1 DEF Before, Found, Headers
            <4>1. i < run.i
                BY <2>1, <3>1 DEF Found, Product, Products
            <4> QED
                BY <2>2, <3>1, <4>1 DEF Before
        <3>3. After => Now' /\ After'
            BY <2>1, <2>2, <3>1 DEF Now, After, Products, Headers
        <3> QED
            BY <2>1, <3>1, <3>2, <3>3 DEF Turns
    <2> QED
        BY <1>4, <2>3, <2>4 DEF NextProduct
<1>5. CASE CopyHeader
    <2>1. /\ At("copy") /\ run.i \in Products /\ stamp # "fresh"
          /\ run' = [run EXCEPT !.k = run.k + 1] /\ world' = world /\ stamp' = stamp
          /\ Product.headers[run.k] \in Headers(world, run.i)
        BY <1>5, HeaderOfProduct DEF CopyHeader, Turns
    <2>2. PICK p \in Products : p = run.i
        BY <2>1
    <2>3. PICK h \in Headers(world, p) : h = Product.headers[run.k]
        BY <2>1, <2>2
    <2>4. \A w, i, g : Lapsed(w, i, g) => Lapsed(w, i, g)'
        <3>1. \/ UNCHANGED lapses
              \/ Lapse("copy", {<<p, h>>})
              \/ Lapse("short", {<<p, h>>})
            BY <1>5, <2>2, <2>3 DEF CopyHeader
        <3> QED
            BY <3>1, LapsesSame, LapsesGrow, Zenon
    <2>5. /\ Lapse("copy", {<<p, h>>}) => Lapsed("copy", p, h)'
          /\ Lapse("short", {<<p, h>>}) => Lapsed("short", p, h)'
        BY LapseOfOne, Zenon
    <2>6. /\ \A j \in Products \ {p} : disk'[j] = disk[j]
          /\ \A g \in Headers(world, p) \ {h} : disk'[p][g] = disk[p][g]
          /\ \/ disk'[p][h] \in {"original", "absent"}
             \/ Lapsed("short", p, h)'
             \/ disk'[p][h] = disk[p][h] /\ Lapsed("copy", p, h)'
        <3>1. CASE UNCHANGED disk /\ Lapse("copy", {<<p, h>>})
            BY <2>5, <3>1
        <3>2. CASE \E c \in Contents :
                        /\ disk' = [disk EXCEPT ![p][h] = c]
                        /\ c \in {"original", "absent"} \/ Lapse("short", {<<p, h>>})
            <4>1. PICK c \in Contents :
                        /\ disk' = [disk EXCEPT ![p][h] = c]
                        /\ c \in {"original", "absent"} \/ Lapse("short", {<<p, h>>})
                BY <3>2
            <4>2. disk'[p] = [disk[p] EXCEPT ![h] = c] /\ \A j \in Products \ {p} : disk'[j] = disk[j]
                <5>1. p \in DOMAIN disk
                    BY DEF Typed
                <5>2. disk' = [disk EXCEPT ![p] = [disk[p] EXCEPT ![h] = c]]
                    BY <4>1
                <5> QED
                    BY <5>1, <5>2
            <4>3. disk[p] \in [Headers(world, p) -> Contents]
                BY DEF Typed
            <4>4. disk'[p][h] = c /\ \A g \in Headers(world, p) \ {h} : disk'[p][g] = disk[p][g]
                BY <4>2, <4>3
            <4> QED
                BY <2>5, <4>1, <4>2, <4>4
        <3> QED
            BY <1>5, <2>2, <2>3, <3>1, <3>2 DEF CopyHeader, Contents
    <2>7. \A g \in Headers(world, p) \ {h} : g \notin Copied(run.k) => g \notin Copied(run.k)'
        <3>1. Product' = Product /\ run'.k = run.k + 1
            BY <2>1 DEF Product
        <3>2. \A m \in DOMAIN Product.headers : m < run.k + 1 => m < run.k \/ m = run.k
            BY <2>1, ProductFacts
        <3> QED
            BY <2>3, <3>1, <3>2 DEF Copied
    <2>8. \A i, g : Unnoticed(i, g) => Unnoticed(i, g)'
        BY <2>4 DEF Unnoticed
    <2>9. Before => Before'
        BY <2>1, <2>2, <2>6, <2>8 DEF Before, Found, Products, Headers
    <2>10. Now => Now'
        <3> SUFFICES ASSUME Now, NEW g \in Headers(world, p)
                     PROVE  \/ disk'[p][g] \in {"original", "absent"}
                            \/ Unnoticed(p, g)'
                            \/ Lapsed("remove", p, g)' /\ g \notin Copied(run.k)'
            BY <2>1, <2>2 DEF Now, Headers
        <3>1. \/ disk[p][g] \in {"original", "absent"}
              \/ Unnoticed(p, g)
              \/ Lapsed("remove", p, g) /\ g \notin Copied(run.k)
            BY <2>1, <2>2 DEF Now
        <3>2. CASE g # h
            BY <2>4, <2>6, <2>7, <2>8, <3>1, <3>2
        <3>3. CASE g = h
            <4>1. Lapsed("remove", p, h)' /\ Lapsed("copy", p, h)' => Unnoticed(p, h)'
                BY DEF Unnoticed
            <4>2. Lapsed("short", p, h)' => Unnoticed(p, h)'
                BY DEF Unnoticed
            <4> QED
                BY <2>4, <2>6, <2>8, <3>1, <3>3, <4>1, <4>2
        <3> QED
            BY <3>2, <3>3
    <2>11. After => After'
        <3>1. ASSUME After, NEW i \in Products, i > p, NEW g \in Headers(world, i)
              PROVE  disk'[i][g] = "absent" \/ Lapsed("remove", i, g)'
            BY <2>2, <2>4, <2>6, <3>1 DEF After, Products
        <3> QED
            BY <2>1, <2>2, <3>1 DEF After, Products, Headers
    <2> QED
        BY <2>1, <2>9, <2>10, <2>11 DEF Turns
<1>6. CASE RunPatch
    <2>1. /\ At("copy") /\ run.i \in Products /\ stamp # "fresh" /\ run.k > Len(Product.headers)
          /\ UNCHANGED <<world, stamp>>
        BY <1>6 DEF RunPatch, Turns
    <2>2. PICK p \in Products : p = run.i
        BY <2>1
    <2>3. Headers(world, p) \subseteq Copied(run.k)
        BY <2>1, <2>2 DEF Copied, Product, Headers
    <2>4. /\ run'.pc = "product" /\ run'.i = p + 1 /\ run'.k = 1
          /\ run'.result = 0 => run.result = 0
        BY <1>6, <2>2, DoneNext DEF RunPatch, PatchEnds
    <2>5. \A j \in Products \ {p} : disk'[j] = disk[j]
        BY <1>6, <2>2, OutcomeTyped, PatchedInPart DEF RunPatch
    <2>6. \A w, i, h : Lapsed(w, i, h) => Lapsed(w, i, h)'
        <3>1. UNCHANGED lapses \/ Lapse("cat", {run.i} \X Headers(world, run.i))
            BY <1>6 DEF RunPatch
        <3> QED
            BY <3>1, LapsesSame, LapsesGrow, Zenon
    <2>7. \A i, h : Unnoticed(i, h) => Unnoticed(i, h)'
        BY <2>6 DEF Unnoticed
    <2>8. ASSUME Now, run'.result = 0, NEW h \in Headers(world, p)
          PROVE  disk'[p][h] = "patched" \/ Unnoticed(p, h)'
        <3>1. ~Done(FALSE)
            BY <2>8, DoneNext
        <3>2. CASE \E o \in Outcomes(TRUE) : PatchEnds(o)
            <4>1. PICK o \in Outcomes(TRUE) : PatchEnds(o)
                BY <3>2
            <4>2. o[h][2]
                BY <2>2, <2>8, <4>1, DoneNext DEF PatchEnds
            <4>3. disk[p][h] \in {"original", "absent"} \/ Unnoticed(p, h)
                BY <2>1, <2>2, <2>3, <2>8 DEF Now
            <4>4. o[h] \in Patched(disk[p][h]) /\ disk[p][h] \in Contents
                BY <2>2, <4>1 DEF Outcomes, Typed
            <4>5. disk[p][h] \in {"original", "absent"} => o[h][1] = "patched"
                BY <4>2, <4>4, PatchLeaves
            <4>6. disk'[p][h] = o[h][1]
                BY <2>2, <4>1, OutcomeTyped
            <4> QED
                BY <2>7, <4>3, <4>5, <4>6
        <3>3. CASE Lapse("cat", {run.i} \X Headers(world, run.i))
            <4>1. <<p, h>> \in {run.i} \X Headers(world, run.i)
                BY <2>2
            <4>2. Lapsed("cat", p, h)'
                BY <3>3, <4>1, LapsesGrow
            <4> QED
                BY <4>2 DEF Unnoticed
        <3> QED
            BY <1>6, <3>1, <3>2, <3>3 DEF RunPatch
    <2>9. Before /\ Now => Before'
        <3> SUFFICES ASSUME Before, Now, run'.result = 0,
                            NEW i \in Found(world), i < run'.i, NEW h \in Headers(world, i)
                     PROVE  disk'[i][h] = "patched" \/ Unnoticed(i, h)'
            BY <2>1 DEF Before, Found, Headers
        <3>1. i \in Products /\ (i < run.i \/ i = p)
            BY <2>2, <2>4 DEF Found, Products
        <3>2. CASE i = p
            BY <2>8, <3>2
        <3>3. CASE i < run.i
            BY <2>2, <2>4, <2>5, <2>7, <3>1, <3>3 DEF Before
        <3> QED
            BY <3>1, <3>2, <3>3
    <2>10. After => Now' /\ After'
        <3>1. Now'
            BY <2>4 DEF Now
        <3>2. ASSUME After, NEW i \in Products, i > p, NEW h \in Headers(world, i)
              PROVE  disk'[i][h] = "absent" \/ Lapsed("remove", i, h)'
            BY <2>2, <2>5, <2>6, <3>2 DEF After, Products
        <3> QED
            BY <2>1, <2>2, <2>4, <3>1, <3>2 DEF After, Products, Headers
    <2> QED
        BY <2>1, <2>2, <2>4, <2>9, <2>10 DEF Turns
<1>7. CASE WriteStamp
    <2>1. At("product") /\ run.i > Len(world.products) /\ run' = Idle
          /\ UNCHANGED <<world, disk, lapses>> /\ stamp # "fresh"
        BY <1>7 DEF WriteStamp, Turns
    <2>2. stamp' = "fresh" => run.result = 0
        BY <1>7, <2>1 DEF WriteStamp
    <2>3. ASSUME stamp' = "fresh", Before PROVE Installed'
        <3>1. \A i, h : Unnoticed(i, h) => Unnoticed(i, h)'
            BY <2>1, LapsesSame
        <3> QED
            BY <2>1, <2>2, <2>3, <3>1 DEF Before, Installed, Found, Products, Headers
    <2> QED
        BY <2>1, <2>3 DEF Turns, StampMeansInstalled, Idle
<1>8. CASE Interrupted
    <2>1. ~At("idle") /\ run' = Idle /\ stamp' = stamp
        BY <1>8 DEF Interrupted
    <2> QED
        BY <2>1 DEF Turns, Idle, StampMeansInstalled
<1>9. CASE PatchesChange
    BY <1>9 DEF PatchesChange, Turns, StampMeansInstalled
<1>10. CASE UNCHANGED vars
    <2>1. \A w, i, h : /\ Lapsed(w, i, h) => Lapsed(w, i, h)'
                       /\ Unnoticed(i, h) => Unnoticed(i, h)'
        BY <1>10, LapsesSame DEF vars
    <2>2. Found(world)' = Found(world) /\ Products' = Products /\ Copied(run.k)' = Copied(run.k)
        BY <1>10 DEF vars, Found, Products, Copied, Product
    <2>3. \A i : Headers(world, i)' = Headers(world, i)
        BY <1>10 DEF vars, Headers
    <2>4. Before => Before'
        BY <1>10, <2>1, <2>2, <2>3 DEF vars, Before
    <2>5. Now => Now'
        BY <1>10, <2>1, <2>2 DEF vars, Now, Headers
    <2>6. After => After'
        BY <1>10, <2>1, <2>2, <2>3 DEF vars, After
    <2>7. StampMeansInstalled => StampMeansInstalled'
        BY <1>10, <2>1, <2>2, <2>3 DEF vars, StampMeansInstalled, Installed
    <2> QED
        BY <1>10, <2>4, <2>5, <2>6, <2>7 DEF vars, Turns
<1> QED
    BY <1>1, <1>2, <1>3, <1>4, <1>5, <1>6, <1>7, <1>8, <1>9, <1>10 DEF Next, Step, Built

(* A fresh timestamp means that every header of every compiler is patched, *)
(* once and by the patch files that are there, on every machine, whatever  *)
(* fails for other headers and whenever a run is interrupted.  It says     *)
(* nothing of the headers that are Unnoticed: InstallSupport looks only at *)
(* the exit status of patch, and main only at what InstallSupport returns, *)
(* so that a copy which is cut short, one which was neither removed nor    *)
(* replaced, and a patch file which cat does not pass on to its end may go *)
(* by.                                                                     *)
THEOREM StampIsTrue == Spec => []StampMeansInstalled
<1>1. Init => TypeInv /\ Turns
    BY Machine, WorldAssumption, Wiped
        DEF Init, TypeInv, TypeOK, InProducts, At, Idle, Copies, Contents, Turns, StampMeansInstalled
<1>2. TypeInv /\ Turns => StampMeansInstalled
    BY DEF Turns, StampMeansInstalled
<1> QED
    BY <1>1, <1>2, TypeStep, TurnsStep, PTL DEF Spec
=============================================================================
