------------------------------ MODULE XmlTree ------------------------------
(***************************************************************************)
(* What cp/xml.c asks for and refers to while it prints one tree node: the *)
(* dispatch of xml_add_node, the attributes that mention other nodes, and  *)
(* the output functions that xml_dump_tree_node selects.                   *)
(*                                                                         *)
(* A tree T maps every node to a record of the accessors that xml.c reads. *)
(* "code" is TREE_CODE; the other fields depend on it:                     *)
(*   NAMESPACE_DECL  context, alias, members (all_decls)                   *)
(*   TYPE_DECL       type, original, implicit, name, context, file         *)
(*   FUNCTION_DECL   kind (the tag), returns, throws, args (after "this",  *)
(*                   without artificial ones), virtual, sig, artificial,   *)
(*                   cloned, invalid, assigns, context, befriending, file  *)
(*   VAR_DECL, FIELD_DECL   type, artificial, context, file                *)
(*   TEMPLATE_DECL   specializations, instantiations (types), type         *)
(*   OVERLOAD        functions                                             *)
(*   types           main, quals, name (TYPE_NAME), and by code            *)
(*     RECORD_TYPE   context, template, ptrmemfunc, defined, fields,       *)
(*                   methods, bases, befriending, open                     *)
(*     POINTER_TYPE, REFERENCE_TYPE, ARRAY_TYPE   type                     *)
(*     OFFSET_TYPE   basetype, type                                        *)
(*     FUNCTION_TYPE, METHOD_TYPE   returns, args, basetype                *)
(* "builtin" holds of a declaration whose source line is 0.  A missing     *)
(* node is None.  UNION_TYPE is printed as RECORD_TYPE is; INTEGER_TYPE    *)
(* stands for the fundamental types, and any other code for the nodes      *)
(* printed as <Unimplemented>.                                             *)
(***************************************************************************)
EXTENDS Naturals, Sequences, SequencesExt

CONSTANT None

Decl == {"NAMESPACE_DECL", "TYPE_DECL", "FUNCTION_DECL", "VAR_DECL",
         "FIELD_DECL", "CONST_DECL", "TEMPLATE_DECL"}
PredefinedType == {"ARRAY_TYPE", "POINTER_TYPE", "REFERENCE_TYPE",
                   "INTEGER_TYPE", "FUNCTION_TYPE", "TYPENAME_TYPE"}
TaggedType == {"RECORD_TYPE", "ENUMERAL_TYPE"}
QualifiableType == {"RECORD_TYPE", "ENUMERAL_TYPE", "ARRAY_TYPE", "POINTER_TYPE",
                    "REFERENCE_TYPE", "FUNCTION_TYPE", "METHOD_TYPE",
                    "OFFSET_TYPE", "INTEGER_TYPE"}

-----------------------------------------------------------------------------
(* A part of the output: the requests made for it, the index it yields (of *)
(* which node, or None for index 0) and the ids it prints as references.   *)
(* An id is an index with the letters of the qualifiers appended.          *)
Id(n, q) == [node |-> n, quals |-> q]

Nothing == [ops |-> <<>>, index |-> None, refs |-> {}]
Real(n, c) ==
    [Nothing EXCEPT !.ops = <<[op |-> "add", node |-> n, complete |-> c]>>,
                    !.index = n]
(* One part after another; the index is that of the last.                  *)
Join(parts) ==
    [ops   |-> FlattenSeq([i \in DOMAIN parts |-> parts[i].ops]),
     index |-> IF parts = <<>> THEN None ELSE Last(parts).index,
     refs  |-> UNION {parts[i].refs : i \in DOMAIN parts}]
NoIndex(part) == [part EXCEPT !.index = None]
When(condition, parts) == IF condition THEN parts ELSE <<>>
(* The members of s that are in S, in their order.                         *)
Chosen(s, S) == FlattenSeq([i \in DOMAIN s |-> When(s[i] \in S, <<s[i]>>)])

-----------------------------------------------------------------------------
(* xml_add_node and the functions it dispatches to.  "add" is xml_add_node *)
(* itself, for the recursive calls.                                        *)

NodesOf(T, code) == {n \in DOMAIN T : T[n].code = code}

(* Declarations of the compiler's own, and functions that synthesize_method *)
(* could not define, are never dumped.                                     *)
Skipped(T, n) ==
    \/ T[n].code \in Decl \ {"NAMESPACE_DECL"} /\ T[n].builtin
    \/ T[n].code = "FUNCTION_DECL" /\ T[n].invalid

TypedefTarget(T, td) ==
    LET t == IF T[td].original # None THEN T[td].original ELSE T[td].type
    IN IF T[t].main # None THEN T[t].main ELSE t

(* typedef struct A A: the type itself is added, the typedef is not.       *)
NamesItself(T, td) ==
    LET named == T[T[td].type].name
    IN /\ T[td].original = None
       /\ named # None
       /\ T[td].name = T[named].name
       /\ T[td].context = T[named].context

AddTypedef(T, add, td, c) ==
    IF NamesItself(T, td) THEN NoIndex(add[T[td].type][c])
    ELSE LET target == add[TypedefTarget(T, td)][c]
         IN IF target.index # None THEN Join(<<target, Real(td, c)>>) ELSE target

(* The name of the member typedef every class has of itself.               *)
SelfTypedefNames(T, t) ==
    IF T[t].code # "RECORD_TYPE" THEN {}
    ELSE {T[f].name : f \in {g \in Range(T[t].fields) :
                               /\ T[g].code = "TYPE_DECL"
                               /\ T[g].type = t
                               /\ T[g].artificial}}

(* The declaration of a class or an enumeration, not a typedef to it.      *)
DeclaresItsType(T, td) ==
    LET t == T[td].type
    IN \/ T[td].implicit
       \/ /\ T[td].context = T[t].context
          /\ T[td].name \in SelfTypedefNames(T, t)
          /\ T[t].name = td

AddTypeDecl(T, add, td, c) ==
    LET t == T[td].type
        pointsToMember == T[t].code = "RECORD_TYPE" /\ T[t].ptrmemfunc # None
    IN CASE T[t].code \in PredefinedType \/ pointsToMember -> AddTypedef(T, add, td, c)
         [] T[t].code \in TaggedType /\ ~pointsToMember ->
                IF DeclaresItsType(T, td) THEN add[t][c] ELSE AddTypedef(T, add, td, c)
         [] OTHER -> Real(td, c)

AddAll(add, ns, c) == NoIndex(Join([i \in DOMAIN ns |-> add[ns[i]][c]]))

(* The specializations that are functions, the instantiations whose        *)
(* arguments are real types, and the member templates of a complete one.   *)
AddTemplateDecl(T, add, td, c) ==
    LET functions == Chosen(T[td].specializations, NodesOf(T, "FUNCTION_DECL"))
        types == Chosen(T[td].instantiations, {t \in NodesOf(T, "RECORD_TYPE") : ~T[t].open})
        memberTemplates ==
            IF c = 1 /\ T[T[td].type].code = "RECORD_TYPE"
              THEN Chosen(T[T[td].type].fields, NodesOf(T, "TEMPLATE_DECL"))
              ELSE <<>>
    IN AddAll(add, functions \o [i \in DOMAIN types |-> T[types[i]].name]
                             \o memberTemplates, c)

AddRecord(T, add, n, c) ==
    CASE T[n].ptrmemfunc # None -> add[T[n].ptrmemfunc][c]
      [] T[n].ptrmemfunc = None /\ T[n].template -> Nothing
      [] OTHER -> Real(n, c)

Dispatch(T, add, n, c) ==
    CASE Skipped(T, n)                -> Nothing
      [] T[n].code = "CONST_DECL"     -> Nothing
      [] T[n].code = "TYPE_DECL" /\ ~Skipped(T, n) -> AddTypeDecl(T, add, n, c)
      [] T[n].code = "OVERLOAD"       -> AddAll(add, T[n].functions, c)
      [] T[n].code = "TEMPLATE_DECL" /\ ~Skipped(T, n) -> AddTemplateDecl(T, add, n, c)
      [] T[n].code = "RECORD_TYPE"    -> AddRecord(T, add, n, c)
      [] OTHER                        -> Real(n, c)

(* xml_add_node(n, c) is XmlAddNode(T)[n][c].                              *)
XmlAddNode(T) ==
    LET add[n \in DOMAIN T] == [c \in {0, 1} |-> Dispatch(T, add, n, c)]
    IN add

-----------------------------------------------------------------------------
(* Attributes.  A is XmlAddNode(T).                                        *)

(* An id printed whatever the index, and one left out when it is 0.        *)
Refer(A, n, c) == [A[n][c] EXCEPT !.refs = {Id(A[n][c].index, {})}]
ReferIfAny(A, n, c) == IF A[n][c].index = None THEN A[n][c] ELSE Refer(A, n, c)
ReferAll(A, ns, c) == [i \in DOMAIN ns |-> Refer(A, ns[i], c)]
ReferAny(A, ns, c) == [i \in DOMAIN ns |-> ReferIfAny(A, ns[i], c)]

Location(T, d) == [Nothing EXCEPT !.ops = <<[op |-> "file", file |-> T[d].file]>>]

(* Mutant of GetIdref: typedefs are not looked at.                         *)
GetIdrefUnnamed(T, A, t, c) ==
    LET main == A[T[t].main][c]
    IN [main EXCEPT !.refs = {Id(main.index, T[t].quals)}]

(* The id that stands for type t: that of its typedef if it has one that   *)
(* is dumped, with the qualifiers the typedef does not already hold.       *)
GetIdref(T, A, t, c) ==
    LET main == A[T[t].main][c]
        name == IF T[t].name = None THEN Nothing ELSE A[T[t].name][c]
        id == IF name.index # None
                THEN Id(name.index, T[t].quals \ T[T[T[t].name].type].quals)
                ELSE Id(main.index, T[t].quals)
    IN [Join(<<main, name>>) EXCEPT !.refs = {id}]

(* Mutant of PrintTypeIdref: the qualified type is not asked for.          *)
PrintTypeIdrefOnly(T, A, t, c) == GetIdref(T, A, t, c)

(* A qualified reference also asks for the qualified type itself.          *)
PrintTypeIdref(T, A, t, c) ==
    LET idref == GetIdref(T, A, t, c)
    IN IF \E id \in idref.refs : id.quals # {}
         THEN Join(<<idref, A[t][c]>>) ELSE idref

Context(T, A, n) == When(T[n].context # None, <<Refer(A, T[n].context, 0)>>)

(* Friends that are templates are not listed.                              *)
Befriending(T, A, friends) ==
    ReferAll(A, Chosen(friends, DOMAIN T \ NodesOf(T, "TEMPLATE_DECL")), 0)

(* look_for_overrides_here: the virtual function of class t that fd        *)
(* overrides, if any.                                                      *)
OverridesHere(T, t, fd) ==
    Chosen(T[t].methods,
           {m \in Range(T[t].methods) : T[m].virtual /\ T[m].sig = T[fd].sig})

(* In each base the nearest overridden function; all asked for complete.   *)
Overrides(T, A, fd) ==
    LET inBases[t \in {n \in DOMAIN T : T[n].code = "RECORD_TYPE"}] ==
          FlattenSeq([i \in DOMAIN T[t].bases |->
              LET base == T[t].bases[i]
                  here == OverridesHere(T, base, fd)
              IN IF here # <<>> THEN <<here[1]>> ELSE inBases[base]])
    IN When(T[fd].virtual, ReferAny(A, inBases[T[fd].context], 1))

PrintTypes(T, A, ts, c) == [i \in DOMAIN ts |-> PrintTypeIdref(T, A, ts[i], c)]

-----------------------------------------------------------------------------
(* The output functions: the parts of the element of node n.               *)

(* Aliases lead to a namespace that is none.                               *)
RealNamespace(T, n) ==
    LET real[m \in {k \in DOMAIN T : T[k].code = "NAMESPACE_DECL"}] ==
          IF T[m].alias = None THEN m ELSE real[T[m].alias]
    IN real[n]

OutputNamespaceDecl(T, A, n, c) ==
    Context(T, A, n) \o
    (IF T[n].alias = None
       THEN When(c = 1, ReferAny(A, T[n].members, 1))
       ELSE <<Refer(A, RealNamespace(T, n), 0)>>)

OutputTypedef(T, A, n, c) ==
    LET t == IF T[n].original # None THEN T[n].original ELSE T[n].type
    IN <<PrintTypeIdref(T, A, t, c)>> \o Context(T, A, n) \o <<Location(T, n)>>

(* Arguments are printed with the location of the function: parameters are *)
(* declared in its file.                                                   *)
OutputArguments(T, A, n, c) ==
    FlattenSeq([i \in DOMAIN T[n].args |->
        <<PrintTypeIdref(T, A, T[n].args[i], c), Location(T, n)>>])

OutputFunctionDecl(T, A, n, c) ==
    When(T[n].kind \notin {"Constructor", "Destructor"},
         <<PrintTypeIdref(T, A, T[n].returns, c)>>)
    \o When(T[n].kind \in {"Destructor", "Converter", "OperatorMethod", "Method"},
            Overrides(T, A, n))
    \o PrintTypes(T, A, T[n].throws, c)
    \o Context(T, A, n)
    \o <<Location(T, n)>>
    \o Befriending(T, A, T[n].befriending)
    \o OutputArguments(T, A, n, c)

(* Variables and fields.  The type of a field is that of the bit-field.    *)
OutputVarDecl(T, A, n, c) ==
    <<PrintTypeIdref(T, A, T[n].type, c)>> \o Context(T, A, n) \o <<Location(T, n)>>

(* Compiler-generated fields are left out, and so is the typedef a class   *)
(* has of itself.                                                          *)
IsMemberField(T, t, f) ==
    /\ T[f].artificial => T[f].code = "TYPE_DECL" /\ T[f].implicit
    /\ ~(T[f].code = "TYPE_DECL" /\ T[f].type = t)
(* Compiler-generated methods are left out, but for the special members.   *)
IsMemberMethod(T, m) ==
    /\ T[m].artificial => T[m].kind \in {"Constructor", "Destructor"} \/ T[m].assigns
    /\ ~T[m].cloned

(* The bases are referred to twice, by an attribute and by Base elements.  *)
OutputRecordType(T, A, n, c) ==
    LET fields == Chosen(T[n].fields, {f \in Range(T[n].fields) : IsMemberField(T, n, f)})
        methods == Chosen(T[n].methods, {m \in Range(T[n].methods) : IsMemberMethod(T, m)})
        bases == ReferAll(A, T[n].bases, 1)
    IN Context(T, A, T[n].name) \o <<Location(T, T[n].name)>>
       \o Befriending(T, A, T[n].befriending)
       \o When(c = 1 /\ T[n].defined, ReferAny(A, fields \o methods, 1) \o bases \o bases)

OutputFunctionType(T, A, n, c) ==
    <<PrintTypeIdref(T, A, T[n].returns, c)>> \o PrintTypes(T, A, T[n].args, c)
OutputMethodType(T, A, n, c) ==
    <<Refer(A, T[n].basetype, c)>> \o OutputFunctionType(T, A, n, c)

(* What a pointer points to may stay incomplete.                           *)
OutputPointerType(T, A, n) == <<PrintTypeIdref(T, A, T[n].type, 0)>>
OutputArrayType(T, A, n, c) == <<PrintTypeIdref(T, A, T[n].type, c)>>
OutputOffsetType(T, A, n, c) ==
    <<Refer(A, T[n].basetype, c), PrintTypeIdref(T, A, T[n].type, c)>>
OutputEnumeralType(T, A, n) == Context(T, A, T[n].name) \o <<Location(T, T[n].name)>>

(* A qualified variant refers to the id it qualifies, unless it turns out  *)
(* to have no qualifiers of its own and is not printed.                    *)
OutputVariant(T, A, n, c) ==
    LET idref == GetIdref(T, A, n, c)
    IN <<[idref EXCEPT !.refs = {Id(id.node, {}) : id \in {i \in @ : i.quals # {}}}]>>

IsVariant(T, n) == T[n].code \in QualifiableType /\ T[n].main # n

DumpTreeNode(T, A, n, c) ==
    CASE IsVariant(T, n)                  -> OutputVariant(T, A, n, c)
      [] T[n].code = "NAMESPACE_DECL"     -> OutputNamespaceDecl(T, A, n, c)
      [] T[n].code = "TYPE_DECL"          -> OutputTypedef(T, A, n, c)
      [] T[n].code = "FUNCTION_DECL"      -> OutputFunctionDecl(T, A, n, c)
      [] T[n].code \in {"VAR_DECL", "FIELD_DECL"} -> OutputVarDecl(T, A, n, c)
      [] T[n].code = "RECORD_TYPE" /\ ~IsVariant(T, n) -> OutputRecordType(T, A, n, c)
      [] T[n].code = "FUNCTION_TYPE" /\ ~IsVariant(T, n) -> OutputFunctionType(T, A, n, c)
      [] T[n].code = "METHOD_TYPE" /\ ~IsVariant(T, n) -> OutputMethodType(T, A, n, c)
      [] T[n].code \in {"POINTER_TYPE", "REFERENCE_TYPE"} /\ ~IsVariant(T, n) ->
             OutputPointerType(T, A, n)
      [] T[n].code = "ARRAY_TYPE" /\ ~IsVariant(T, n) -> OutputArrayType(T, A, n, c)
      [] T[n].code = "OFFSET_TYPE" /\ ~IsVariant(T, n) -> OutputOffsetType(T, A, n, c)
      [] T[n].code = "ENUMERAL_TYPE" /\ ~IsVariant(T, n) -> OutputEnumeralType(T, A, n)
      [] OTHER                            -> <<>>

(* The ids that the element of n declares: one, or none for a variant      *)
(* without qualifiers of its own.                                          *)
DeclaredIds(T, A, n) ==
    IF IsVariant(T, n) THEN {id \in GetIdref(T, A, n, 0).refs : id.quals # {}}
                       ELSE {Id(n, {})}

-----------------------------------------------------------------------------
(* The scripts of a tree, as XmlDump takes them.                           *)
ScriptOf(T) ==
    LET A == XmlAddNode(T)
    IN [n \in DOMAIN T |-> [c \in {0, 1} |->
           IF A[n][c].index # n THEN <<>> ELSE Join(DumpTreeNode(T, A, n, c)).ops]]

(* The requests for a start, and the references the element of n prints.   *)
StartOf(T, ns) == AddAll(XmlAddNode(T), ns, 1).ops
References(T, n, c) == Join(DumpTreeNode(T, XmlAddNode(T), n, c)).refs
=============================================================================
