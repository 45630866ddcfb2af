------------------------------ MODULE XmlForm -------------------------------
(***************************************************************************)
(* What the dumper relies on when it reads a tree: the shape that the C++  *)
(* front end gives to it.  The accessors of a node lead to nodes of the    *)
(* right kind, recursion over the tree ends, the variants of a type agree  *)
(* with one another (build_qualified_type in gcc/tree.c), and what an      *)
(* attribute must refer to is dumped.                                      *)
(*                                                                         *)
(* A tree that is not so is one that the dumper prints wrongly.  There are *)
(* two such C++ constructs known: a const or volatile vector type, for     *)
(* which there is no CvQualifiedType element, and a qualified type named   *)
(* by a typedef of the compiler's own (const __builtin_va_list, where that *)
(* is char* ), which has the same id as the qualified type itself.         *)
(***************************************************************************)
EXTENDS XmlTree

-----------------------------------------------------------------------------
(* next[x] are the elements of S that x leads to.  No path is endless:     *)
(* when those that lead to none are taken away, as often as need be,       *)
(* nothing remains.                                                        *)
Remaining(S, next) ==
    LET rest[k \in 0 .. Cardinality(S)] ==
          IF k = 0 THEN S ELSE LET before == rest[k - 1]
                               IN {x \in before : next[x] \cap before # {}}
    IN rest
Grounded(S, next) == Remaining(S, next)[Cardinality(S)] = {}

(* The nodes that xml_add_node, called for n, may call itself for.         *)
Leads(T, n) ==
    {m \in DOMAIN T :
        \/ T[n].code = "TYPE_DECL" /\ m \in {T[n].type, TypedefTarget(T, n)}
        \/ T[n].code = "OVERLOAD" /\ m \in Range(T[n].functions)
        \/ T[n].code = "RECORD_TYPE" /\ m = T[n].ptrmemfunc
        \/ /\ T[n].code = "TEMPLATE_DECL"
           /\ \/ m \in Range(T[n].specializations)
              \/ m \in {T[t].name : t \in Range(T[n].instantiations)}
              \/ /\ T[T[n].type].code = "RECORD_TYPE"
                 /\ m \in Range(T[T[n].type].fields) \cap NodesOf(T, "TEMPLATE_DECL")}

Bases(T) == [n \in NodesOf(T, "RECORD_TYPE") |-> Range(T[n].bases)]
Aliases(T) == [n \in NodesOf(T, "NAMESPACE_DECL") |-> {T[n].alias} \ {None}]

RecursionEnds(T) ==
    /\ Grounded(DOMAIN T, [n \in DOMAIN T |-> Leads(T, n)])
    /\ Grounded(NodesOf(T, "RECORD_TYPE"), Bases(T))
    /\ Grounded(NodesOf(T, "NAMESPACE_DECL"), Aliases(T))

-----------------------------------------------------------------------------
TypeNodes(T) == {n \in DOMAIN T : T[n].code \notin Decl \cup {"OVERLOAD"}}
DeclNodes(T) == DOMAIN T \ TypeNodes(T)
OrNone(S) == S \cup {None}

(* What the accessors of each kind of node yield, given the files there    *)
(* are.  A class or an enumeration without a name has one made up for it.  *)
Accessors(T, files) ==
    \A n \in DOMAIN T :
        /\ n \in TypeNodes(T) =>
              T[n].main \in TypeNodes(T) /\ T[n].name \in OrNone(NodesOf(T, "TYPE_DECL"))
        /\ T[n].code \in {"NAMESPACE_DECL", "TYPE_DECL", "FUNCTION_DECL", "VAR_DECL", "FIELD_DECL"} =>
              T[n].context \in OrNone(DOMAIN T \ NodesOf(T, "TEMPLATE_DECL"))
        /\ T[n].code \in {"TYPE_DECL", "FUNCTION_DECL", "VAR_DECL", "FIELD_DECL"} => T[n].file \in files
        /\ T[n].code = "NAMESPACE_DECL" =>
              /\ T[n].alias \in OrNone(NodesOf(T, "NAMESPACE_DECL"))
              /\ T[n].members \in Seq(DeclNodes(T))
        /\ T[n].code = "TYPE_DECL" => T[n].type \in TypeNodes(T) /\ T[n].original \in OrNone(TypeNodes(T))
        /\ T[n].code = "FUNCTION_DECL" =>
              /\ T[n].returns \in TypeNodes(T)
              /\ T[n].throws \in Seq(TypeNodes(T)) /\ T[n].args \in Seq(TypeNodes(T))
              /\ T[n].befriending \in Seq(DOMAIN T)
              /\ T[n].virtual => T[n].context \in NodesOf(T, "RECORD_TYPE")
        /\ T[n].code \in {"VAR_DECL", "FIELD_DECL", "POINTER_TYPE", "REFERENCE_TYPE",
                          "ARRAY_TYPE", "OFFSET_TYPE"} => T[n].type \in TypeNodes(T)
        /\ T[n].code = "TEMPLATE_DECL" =>
              /\ T[n].type \in TypeNodes(T) /\ T[n].specializations \in Seq(DOMAIN T)
              /\ T[n].instantiations \in Seq({t \in TypeNodes(T) : T[t].name # None})
        /\ T[n].code = "OVERLOAD" => T[n].functions \in Seq(DOMAIN T)
        /\ T[n].code = "RECORD_TYPE" =>
              /\ T[n].ptrmemfunc \in OrNone(NodesOf(T, "POINTER_TYPE"))
              /\ T[n].fields \in Seq(DeclNodes(T)) /\ T[n].methods \in Seq(DeclNodes(T))
              /\ T[n].bases \in Seq(NodesOf(T, "RECORD_TYPE"))
              /\ T[n].befriending \in Seq(DOMAIN T)
              /\ T[n].ptrmemfunc = None => T[n].name # None
        /\ T[n].code = "ENUMERAL_TYPE" => T[n].name # None
        /\ T[n].code \in {"OFFSET_TYPE", "METHOD_TYPE"} => T[n].basetype \in TypeNodes(T)
        /\ T[n].code \in {"FUNCTION_TYPE", "METHOD_TYPE"} =>
              T[n].returns \in TypeNodes(T) /\ T[n].args \in Seq(TypeNodes(T))

-----------------------------------------------------------------------------
(* The variants of a type share what does not depend on qualifiers.  The   *)
(* typedef that names a variant is one of the same type, and its           *)
(* qualifiers are among those of the variant.  A pointer to a member       *)
(* function has variants made from those of the pointer to the function.   *)
VariantsAgree(T) ==
    \A t \in TypeNodes(T) :
        LET main == T[t].main
            named == T[T[t].name].type
            pointer == T[t].ptrmemfunc
        IN /\ T[main].main = main /\ T[main].quals = {} /\ T[main].code = T[t].code
           /\ T[t].name # None => T[named].main = main /\ T[named].quals \subseteq T[t].quals
           /\ T[t].code = "RECORD_TYPE" =>
                 /\ T[t].template = T[main].template
                 /\ (pointer = None) <=> (T[main].ptrmemfunc = None)
                 /\ pointer # None => T[pointer].main = T[main].ptrmemfunc
                 /\ pointer # None /\ T[t].quals # {} =>
                       /\ T[t].name = None /\ T[pointer].name = None
                       /\ T[pointer].quals = T[t].quals

(* The declaration of a class declares the class itself, not a variant.    *)
ClassesAreMain(T) ==
    \A td \in NodesOf(T, "TYPE_DECL") :
        LET t == T[td].type
        IN T[t].code \in TaggedType /\ DeclaresItsType(T, td) => T[t].main = t

(* The typedef whose id stands for a type, if there is one.                *)
Title(T, A, t) ==
    IF T[t].name # None /\ A[T[t].name][0].index = T[t].name THEN T[t].name ELSE None

(* There is one variant for each set of qualifiers and each dumped typedef *)
(* (get_qualified_type in gcc/tree.c looks for it before it makes one).    *)
OneVariantEach(T) ==
    LET A == XmlAddNode(T)
    IN \A s, t \in TypeNodes(T) :
          T[s].main = T[t].main /\ T[s].quals = T[t].quals /\ Title(T, A, s) = Title(T, A, t)
             => s = t \/ T[s].quals = {}

-----------------------------------------------------------------------------
(* The types that the type attributes of a node refer to, and the nodes    *)
(* that its other attributes refer to whatever their index is.             *)
TypesNamed(T, n) ==
    CASE T[n].code = "TYPE_DECL"     -> {T[n].type, T[n].original} \ {None}
      [] T[n].code = "FUNCTION_DECL" -> {T[n].returns} \cup Range(T[n].throws) \cup Range(T[n].args)
      [] T[n].code \in {"FUNCTION_TYPE", "METHOD_TYPE"} -> {T[n].returns} \cup Range(T[n].args)
      [] T[n].code \in {"VAR_DECL", "FIELD_DECL", "POINTER_TYPE", "REFERENCE_TYPE",
                        "ARRAY_TYPE", "OFFSET_TYPE"} -> {T[n].type}
      [] OTHER -> {}
NodesNamed(T, n) ==
    CASE T[n].code \in {"NAMESPACE_DECL", "TYPE_DECL", "VAR_DECL", "FIELD_DECL"} -> {T[n].context}
      [] T[n].code = "FUNCTION_DECL" -> {T[n].context} \cup Range(T[n].befriending)
      [] T[n].code = "RECORD_TYPE" ->
             {T[T[n].name].context} \cup Range(T[n].befriending) \cup Range(T[n].bases)
      [] T[n].code = "ENUMERAL_TYPE" -> {T[T[n].name].context}
      [] T[n].code \in {"OFFSET_TYPE", "METHOD_TYPE"} -> {T[n].basetype}
      [] OTHER -> {}

(* A type can be named if it is not a class template and, when qualified,  *)
(* has an element of its own; other nodes if they are dumped as they are.  *)
CanBeNamed(T) ==
    {t \in TypeNodes(T) : /\ T[t].code = "RECORD_TYPE" => T[t].ptrmemfunc # None \/ ~T[t].template
                          /\ T[t].quals # {} => T[t].code \in QualifiableType}
AreDumped(T, A) == {n \in DOMAIN T : ~IsVariant(T, n) /\ A[n][0].index # None}

NamedIsDumped(T) ==
    LET A == XmlAddNode(T)
        named == CanBeNamed(T)
        dumped == OrNone(AreDumped(T, A)) \cup NodesOf(T, "TEMPLATE_DECL")
    IN \A n \in DOMAIN T : A[n][0].index = n =>
          TypesNamed(T, n) \subseteq named /\ NodesNamed(T, n) \subseteq dumped

WellFormed(T, files) ==
    /\ Accessors(T, files) /\ RecursionEnds(T)
    /\ VariantsAgree(T) /\ ClassesAreMain(T) /\ OneVariantEach(T) /\ NamedIsDumped(T)
=============================================================================
