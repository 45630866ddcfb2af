--------------------------- MODULE IncludeWrapper --------------------------
(***************************************************************************)
(* Wrappers that only patch what they wrap, as those of Support do: their  *)
(* one directive is an #include_next of their own name.  The chains are    *)
(* those of a command line.                                                *)
(***************************************************************************)
EXTENDS IncludeSearch, IncludeChains

ASSUME WrapperAssumption == \A u \in Units : Transparent(u)

OfLine(u) == IncludeChains(u.place, u.line.options, u.line.standard)
ASSUME LineAssumption ==
    \A u \in Units :
        /\ u.line.options \in Seq([opt : Options, dir : DOMAIN u.place \cup {"-"}])
        /\ u.line.standard \in Seq(DOMAIN u.place)
        /\ u.wrapper = OfLine(u).wrapper /\ u.quote = OfLine(u).quote
        /\ u.bracket = OfLine(u).bracket /\ u.ignores = OfLine(u).ignores

(* The chains of a unit are those of its command line, without duplicates  *)
(* and in the right order.                                                 *)
ChainsAreRight ==
    RightChains(unit.place,
                AddStandardPaths(HandleOptions(unit.line.options), unit.line.standard), unit)

(* The same unit read without -iwrapper: wrappers are left out of the      *)
(* stack and of what is read, and a directive that has only led to a       *)
(* wrapper is yet to come.  before is made as it was before that directive.*)
VARIABLE before
Pending(i) == i < Len(stack) /\ IsWrapper(i + 1) /\ stack[i + 1].at = 0
Real == SelectSeq([i \in DOMAIN stack |-> i], LAMBDA i : ~IsWrapper(i))
RealStack ==
    [n \in DOMAIN Real |->
        [stack[Real[n]] EXCEPT !.at = IF Pending(Real[n]) THEN @ - 1 ELSE @]]
RealSeen == SelectSeq(seen, LAMBDA e : e.where.chain # "wrapper")
RealMade == IF stack # <<>> /\ Pending(Here - 1) THEN before ELSE made

Plain == INSTANCE IncludeSearch WITH
    Units <- {[u EXCEPT !.wrapper = <<>>] : u \in Units},
    unit <- [unit EXCEPT !.wrapper = <<>>],
    stack <- RealStack, seen <- RealSeen, made <- RealMade

(* Transparent wrappers change nothing.                                    *)
WrappersAreTransparent == Plain!Init /\ [][Plain!Next]_(Plain!vars)

WrapperInit == Init /\ before = made
Remembers == before' = made
WrapperStep ==
    \/ ReadMainFile /\ Remembers
    \/ NestedTooDeeply /\ Remembers
    \/ IncludeFails /\ Remembers
    \/ StackInclude /\ Remembers
    \/ PopBuffer /\ Remembers
WrapperNext == WrapperStep \/ (Done /\ Remembers)
wrapperVars == <<vars, before>>
WrapperSpec == WrapperInit /\ [][WrapperNext]_wrapperVars /\ WF_wrapperVars(WrapperStep)
=============================================================================
