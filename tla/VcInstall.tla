------------------------------ MODULE VcInstall ------------------------------
(***************************************************************************)
(* gccxml_vcconfig (VcInstall/vcInstall.cxx), which copies and patches the *)
(* headers of the Visual C++ compilers it finds, as a build runs it: again *)
(* and again until its timestamp file is newer than the patch files, after *)
(* runs that failed half way or were interrupted.                          *)
(***************************************************************************)
EXTENDS Naturals, Sequences

CONSTANT Worlds \* the machines to consider

Fallible == {"remove", "copy", "patch", "cat", "stamp", "interrupt", "update"}

(* A machine has the products gccxml_vcconfig asks the registry for, in    *)
(* its order: whether each is installed and which of the headers that its  *)
(* patch file names it has (there may be no patch file); the tools patch   *)
(* and cat, or not; what may go wrong, and how often in all.               *)
Headers(w, i) == {w.products[i].headers[k] : k \in DOMAIN w.products[i].headers}
Found(w) == {i \in DOMAIN w.products : w.products[i].found}
IsSequence(s) == Len(s) \in Nat /\ DOMAIN s = 1..Len(s)
ASSUME WorldAssumption ==
    \A w \in Worlds :
        /\ w.tools \in BOOLEAN /\ w.failures \subseteq Fallible /\ w.faults \in Nat
        /\ IsSequence(w.products)
        /\ \A i \in DOMAIN w.products :
              /\ w.products[i].found \in BOOLEAN /\ w.products[i].patch \in BOOLEAN
              /\ IsSequence(w.products[i].headers)
              /\ w.products[i].present \subseteq Headers(w, i)

(* A copy of a header is as it came from the product, patched, patched by  *)
(* an older patch file or in part, or cut short.                           *)
Contents == {"absent", "original", "patched", "outdated", "short"}

VARIABLES
    world,  \* the machine, chosen once
    disk,   \* the copy of each header of each product
    stamp,  \* the timestamp file: "none", "old" or "fresh"
    run,    \* the step gccxml_vcconfig is at, its product and header, its result
    lapses, \* the failures of this run that it does not look at: what, and the
            \* product and the header it is about
    faults  \* how many failures are still to come

vars == <<world, disk, stamp, run, lapses, faults>>

Products == DOMAIN world.products
Product == world.products[run.i]
AllHeaders == UNION {Headers(world, i) : i \in Products}
Copies == [i \in Products |-> [h \in Headers(world, i) |-> "absent"]]
Idle == [pc |-> "idle", i |-> 1, k |-> 1, result |-> 0]

Init ==
    /\ world \in Worlds
    /\ disk = Copies
    /\ stamp = "none"
    /\ run = Idle
    /\ lapses = {}
    /\ faults = world.faults

At(step) == run.pc = step
MayFail(what) == faults > 0 /\ what \in world.failures
Fault == faults' = faults - 1

-----------------------------------------------------------------------------
(* The build runs gccxml_vcconfig while the timestamp file is missing or   *)
(* older than a patch file.                                                *)
Start ==
    /\ At("idle") /\ stamp # "fresh"
    /\ run' = [Idle EXCEPT !.pc = "wipe"]
    /\ lapses' = {}
    /\ UNCHANGED <<world, disk, stamp, faults>>

(* Some files are left.                                                    *)
WipeBut(some) ==
    disk' = [i \in Products |-> [h \in Headers(world, i) |->
                IF <<i, h>> \in some THEN disk[i][h] ELSE "absent"]]
There == {x \in Products \X AllHeaders :
             x[2] \in Headers(world, x[1]) /\ disk[x[1]][x[2]] # "absent"}
Lapse(what, some) == lapses' = lapses \cup {<<what, x[1], x[2]>> : x \in some}

(* "Wipe out any existing VC support directories."  Nobody looks whether a *)
(* file could not be removed.                                              *)
(* Mutant: what is there is kept.                                          *)
WipeNothing ==
    /\ At("wipe")
    /\ run' = [run EXCEPT !.pc = "tools"]
    /\ UNCHANGED <<world, disk, stamp, lapses, faults>>
Wipe ==
    /\ At("wipe")
    /\ \/ disk' = Copies /\ UNCHANGED <<lapses, faults>>
       \/ /\ MayFail("remove") /\ Fault
          /\ \E some \in SUBSET There : WipeBut(some) /\ Lapse("remove", some)
    /\ run' = [run EXCEPT !.pc = "tools"]
    /\ UNCHANGED <<world, stamp>>

(* The tools are needed if there is anything to do.                        *)
FindTools ==
    /\ At("tools")
    /\ run' = IF world.tools \/ Found(world) = {} THEN [run EXCEPT !.pc = "product"] ELSE Idle
    /\ UNCHANGED <<world, disk, stamp, lapses, faults>>

(* The next product, when the result of one is known.                      *)
Done(ok) == run' = [run EXCEPT !.pc = "product", !.i = @ + 1, !.k = 1,
                               !.result = IF ok THEN @ ELSE 1]

NextProduct ==
    /\ At("product") /\ run.i <= Len(world.products)
    /\ IF Product.found /\ Product.patch THEN run' = [run EXCEPT !.pc = "copy"]
                                         ELSE Done(~Product.found)
    /\ UNCHANGED <<world, disk, stamp, lapses, faults>>

(* InstallSupport: the copies of the headers the patch file names.  Nobody *)
(* looks whether a header could not be read, or its copy not be written.   *)
CopyHeader ==
    /\ At("copy") /\ run.k <= Len(Product.headers)
    /\ LET h == Product.headers[run.k]
           Becomes(content) == disk' = [disk EXCEPT ![run.i][h] = content]
       IN IF h \notin Product.present
          THEN Lapse("copy", {<<run.i, h>>}) /\ UNCHANGED <<disk, faults>>
          ELSE \/ Becomes("original") /\ UNCHANGED <<lapses, faults>>
               \/ /\ MayFail("copy") /\ Fault
                  /\ \/ (UNCHANGED disk \/ Becomes("absent")) /\ Lapse("copy", {<<run.i, h>>})
                     \/ Becomes("short") /\ Lapse("short", {<<run.i, h>>})
    /\ run' = [run EXCEPT !.k = @ + 1]
    /\ UNCHANGED <<world, stamp>>

(* What patch -t leaves of a file, and whether it is content: a file that  *)
(* is patched already it may take for one to be reversed, and a short one  *)
(* may still have all the lines to be changed.                             *)
Patched(content) ==
    CASE content = "absent"   -> {<<"absent", FALSE>>}
      [] content = "original" -> {<<"patched", TRUE>>}
      [] content = "short"    -> {<<"short", FALSE>>, <<"short", TRUE>>}
      [] OTHER                -> {<<content, FALSE>>, <<"original", TRUE>>}
(* And of one that it is given no hunk of the patch file for, or some.     *)
PartlyPatched(content) ==
    Patched(content) \cup {<<content, TRUE>>}
        \cup (IF content \in {"original", "patched"} THEN {<<"outdated", TRUE>>} ELSE {})
Outcomes(whole) ==
    {o \in [Headers(world, run.i) -> Contents \X BOOLEAN] :
        \A h \in Headers(world, run.i) :
            o[h] \in IF whole THEN Patched(disk[run.i][h]) ELSE PartlyPatched(disk[run.i][h])}
PatchEnds(o) ==
    /\ disk' = [disk EXCEPT ![run.i] = [h \in Headers(world, run.i) |-> o[h][1]]]
    /\ Done(\A h \in Headers(world, run.i) : o[h][2])

(* Some headers only are patched.                                          *)
PatchSome ==
    \E done \in SUBSET {h \in Headers(world, run.i) : disk[run.i][h] = "original"} :
        disk' = [disk EXCEPT ![run.i] = [h \in Headers(world, run.i) |->
                    IF h \in done THEN "patched" ELSE disk[run.i][h]]]

(* cat | patch: the result is that of patch, to which a cat that fails, or *)
(* stops at the end of a hunk, is the end of the patch file.               *)
RunPatch ==
    /\ At("copy") /\ run.k > Len(Product.headers)
    /\ \/ (\E o \in Outcomes(TRUE) : PatchEnds(o)) /\ UNCHANGED <<lapses, faults>>
       \/ /\ MayFail("cat") /\ Fault
          /\ \E o \in Outcomes(FALSE) : PatchEnds(o)
          /\ Lapse("cat", {run.i} \X Headers(world, run.i))
       \/ MayFail("patch") /\ Fault /\ PatchSome /\ Done(FALSE) /\ UNCHANGED lapses
    /\ UNCHANGED <<world, stamp>>

(* "If we succeeded, write the timestamp file."                            *)
(* Mutant: also if not.                                                    *)
WriteStampAlways ==
    /\ At("product") /\ run.i > Len(world.products)
    /\ stamp' = "fresh"
    /\ run' = Idle
    /\ UNCHANGED <<world, disk, lapses, faults>>
WriteStamp ==
    /\ At("product") /\ run.i > Len(world.products)
    /\ \/ stamp' = (IF run.result = 0 THEN "fresh" ELSE stamp) /\ UNCHANGED faults
       \/ run.result = 0 /\ MayFail("stamp") /\ Fault /\ stamp' \in {stamp, "fresh"}
    /\ run' = Idle
    /\ UNCHANGED <<world, disk, lapses>>

-----------------------------------------------------------------------------
(* The run is interrupted: a directory may be wiped half way, a header     *)
(* that is being copied is cut short, some headers may be patched.         *)
Interrupted ==
    /\ MayFail("interrupt") /\ Fault
    /\ \/ At("wipe") /\ \E some \in SUBSET There : WipeBut(some)
       \/ /\ At("copy") /\ run.k <= Len(Product.headers)
          /\ Product.headers[run.k] \in Product.present
          /\ \E content \in {"absent", "short"} :
                disk' = [disk EXCEPT ![run.i][Product.headers[run.k]] = content]
       \/ At("copy") /\ run.k > Len(Product.headers) /\ PatchSome
       \/ ~At("idle") /\ UNCHANGED disk
    /\ run' = Idle
    /\ UNCHANGED <<world, stamp, lapses>>

(* GCC-XML is updated between two builds: its patch files have changed.    *)
PatchesChange ==
    /\ MayFail("update") /\ Fault
    /\ At("idle") /\ stamp # "none"
    /\ stamp' = "old"
    /\ disk' = [i \in Products |-> [h \in Headers(world, i) |->
                    IF disk[i][h] = "patched" THEN "outdated" ELSE disk[i][h]]]
    /\ UNCHANGED <<world, run, lapses>>

Built == At("idle") /\ stamp = "fresh" /\ UNCHANGED vars

Step == Start \/ Wipe \/ FindTools \/ NextProduct \/ CopyHeader \/ RunPatch \/ WriteStamp
Next == Step \/ Interrupted \/ PatchesChange \/ Built

(* The program runs on, and the build is repeated.                         *)
Spec == Init /\ [][Next]_vars /\ WF_vars(Step)

-----------------------------------------------------------------------------
TypeOK ==
    /\ world \in Worlds
    /\ DOMAIN disk = Products
    /\ \A i \in Products : disk[i] \in [Headers(world, i) -> Contents]
    /\ stamp \in {"none", "old", "fresh"}
    /\ run \in [pc : {"idle", "wipe", "tools", "product", "copy"},
                i : 1..Len(world.products) + 1, k : Nat \ {0}, result : {0, 1}]
    /\ lapses \subseteq {"remove", "copy", "short", "cat"} \X Products \X AllHeaders
    /\ faults \in 0..world.faults

(* What nobody looks at and patch may not notice either: a copy that is    *)
(* cut short; one that was neither removed nor replaced; a patch file that *)
(* cat does not pass on to its end.                                        *)
Lapsed(what, i, h) == <<what, i, h>> \in lapses
Unnoticed(i, h) ==
    \/ Lapsed("short", i, h)
    \/ Lapsed("remove", i, h) /\ Lapsed("copy", i, h)
    \/ Lapsed("cat", i, h)

Installed ==
    \A i \in Found(world) : \A h \in Headers(world, i) :
        disk[i][h] = "patched" \/ Unnoticed(i, h)

(* A timestamp that is newer than the patch files means that every header  *)
(* is patched, once and by the patch files that are there, whatever the    *)
(* runs before have left and whatever fails for other headers: no later    *)
(* build looks at the headers again.                                       *)
StampMeansInstalled == stamp = "fresh" => Installed

(* Whatever has gone wrong, repeated builds lead to an installation that   *)
(* stays, if the machine has all that is needed.  It is not complete if    *)
(* the last run had a failure that is Unnoticed: no build repairs that.    *)
Complete ==
    /\ world.tools
    /\ \A i \in Found(world) : /\ world.products[i].patch
                               /\ Headers(world, i) = world.products[i].present
Recovers == Complete => <>[](stamp = "fresh" /\ Installed)
=============================================================================
