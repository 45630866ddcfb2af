---------------------------- MODULE MCXmlOutput ----------------------------
(***************************************************************************)
(* Small C++ units.  All of them declare                                   *)
(*     class G;                     struct B { virtual void f() {...} };   *)
(*     enum E {};                   struct D : B { void f() throw(int) {...} }; *)
(*     typedef const B CB;          template<class T> struct V { T t; };   *)
(*     typedef struct A {} A;       void g(const B&); void g(int);         *)
(*     namespace N { const int y; } namespace M = N;                       *)
(*     typedef float v4 __attribute__((vector_size(16)));                  *)
(*     <type> x;                                                           *)
(* and choose the type of x, the classes that the bodies of B::f and D::f  *)
(* declare, and where the dump starts.                                     *)
(***************************************************************************)
EXTENDS XmlOutput, FiniteSets

CONSTANTS
    VarTypes, \* the types of x to try
    Bodies,   \* what the bodies of B::f and D::f declare
    DumpFrom  \* the starting declarations to try

global == "::"
Void == "void"

-----------------------------------------------------------------------------
(* Tree nodes.  Unless Mains says otherwise a type is its main variant.    *)
Type(code) == [code |-> code, quals |-> {}, name |-> None]
Pointer(code, type) == [code |-> code, quals |-> {}, name |-> None, type |-> type]
Record(decl, context) ==
    [code |-> "RECORD_TYPE", quals |-> {}, name |-> decl, context |-> context,
     template |-> FALSE, ptrmemfunc |-> None, defined |-> TRUE, fields |-> <<>>,
     methods |-> <<>>, bases |-> <<>>, befriending |-> <<>>, open |-> FALSE]
ClassDecl(type, id, context) ==
    [code |-> "TYPE_DECL", type |-> type, original |-> None, implicit |-> TRUE,
     name |-> id, context |-> context, file |-> "h", builtin |-> FALSE,
     artificial |-> TRUE]
Typedef(type, original, id) ==
    [ClassDecl(type, id, global) EXCEPT !.original = original, !.implicit = FALSE,
                                        !.artificial = FALSE]
Builtin(type, id) == [Typedef(type, None, id) EXCEPT !.builtin = TRUE]
Function(kind, sig, context) ==
    [code |-> "FUNCTION_DECL", kind |-> kind, returns |-> Void, throws |-> <<>>,
     args |-> <<>>, virtual |-> FALSE, sig |-> sig, artificial |-> FALSE,
     cloned |-> FALSE, invalid |-> FALSE, assigns |-> FALSE, context |-> context,
     befriending |-> <<>>, file |-> "h", builtin |-> FALSE]
Variable(code, type, context) ==
    [code |-> code, type |-> type, artificial |-> FALSE, context |-> context,
     file |-> "c", builtin |-> FALSE]

(* The qualified types: variants of the types they qualify, with the name  *)
(* of the typedef that made them or of the type itself.                    *)
Mains ==
    "B const" :> "B"
 @@ "CB type" :> "B"
 @@ "CB volatile" :> "B"
 @@ "D const" :> "D"
 @@ "int const" :> "int"
 @@ "D const* const" :> "D const*"
 @@ "B const[]" :> "B[]"
 @@ "pmf const" :> "pmf"
 @@ "void(D::*)(int) const" :> "void(D::*)(int)"
 @@ "v4 type" :> "vector"

Namespaces ==
    global :> [code |-> "NAMESPACE_DECL", context |-> None, alias |-> None,
               members |-> <<"class G", "class B", "class D", "template V", "CB",
                             "class E", "v4", "A", "x", "overloads", "N", "M">>]
 @@ "N" :> [code |-> "NAMESPACE_DECL", context |-> global, alias |-> None, members |-> <<"N::y">>]
 @@ "M" :> [code |-> "NAMESPACE_DECL", context |-> global, alias |-> "N", members |-> <<>>]
 @@ "std" :> [code |-> "NAMESPACE_DECL", context |-> global, alias |-> None, members |-> <<>>]
 @@ "N::y" :> Variable("VAR_DECL", "int const", "N")

Classes ==
    "G" :> Record("class G", global)
 @@ "class G" :> ClassDecl("G", "G", global)
 @@ "B" :> [Record("class B", global) EXCEPT !.fields = <<"B::B">>,
                                             !.methods = <<"B::f", "B::=">>]
 @@ "class B" :> ClassDecl("B", "B", global)
 @@ "B::B" :> ClassDecl("B", "B", "B")
 @@ "B::f" :> [Function("Method", "f", "B") EXCEPT !.virtual = TRUE]
 @@ "B::=" :> [Function("OperatorMethod", "=", "B") EXCEPT
                   !.artificial = TRUE, !.assigns = TRUE, !.args = <<"B const&">>]
 @@ "D" :> [Record("class D", global) EXCEPT !.bases = <<"B">>,
                                             !.methods = <<"D::f", "D::D">>]
 @@ "class D" :> ClassDecl("D", "D", global)
 @@ "D::f" :> [Function("Method", "f", "D") EXCEPT !.virtual = TRUE, !.throws = <<"int">>]
 @@ "D::D" :> [Function("Constructor", "D", "D") EXCEPT !.artificial = TRUE,
                                                        !.invalid = TRUE]
 @@ "A" :> Typedef("A type", None, "A")          \* typedef struct A {} A;
 @@ "A type" :> [Record("A", global) EXCEPT !.fields = <<"A::A">>]
 @@ "A::A" :> ClassDecl("A type", "A", "A type")
 @@ "template V" :> [code |-> "TEMPLATE_DECL", specializations |-> <<>>, type |-> "V",
                     instantiations |-> <<"V<int>", "V<T>">>, builtin |-> FALSE]
 @@ "V" :> [Record("class V", global) EXCEPT !.template = TRUE]
 @@ "class V" :> ClassDecl("V", "V", global)
 @@ "V<T>" :> [Record("class V<T>", global) EXCEPT !.open = TRUE]
 @@ "class V<T>" :> ClassDecl("V<T>", "V", global)
 @@ "V<int>" :> [Record("class V<int>", global) EXCEPT !.fields = <<"V<int>::t">>]
 @@ "class V<int>" :> ClassDecl("V<int>", "V", global)
 @@ "V<int>::t" :> Variable("FIELD_DECL", "int", "V<int>")

(* Local classes: L in D::f and K in B::f.                                 *)
Locals ==
    "L" :> Record("class L", "D::f") @@ "class L" :> ClassDecl("L", "L", "D::f")
 @@ "K" :> Record("class K", "B::f") @@ "class K" :> ClassDecl("K", "K", "B::f")

Functions ==
    "overloads" :> [code |-> "OVERLOAD", functions |-> <<"g(B const&)", "g(int)">>]
 @@ "g(B const&)" :> [Function("Function", "g", global) EXCEPT !.args = <<"B const&">>]
 @@ "g(int)" :> [Function("Function", "g", global) EXCEPT !.args = <<"int">>]

Types ==
    Void :> [Type("INTEGER_TYPE") EXCEPT !.name = "type void"]
 @@ "type void" :> Builtin(Void, "void")
 @@ "int" :> [Type("INTEGER_TYPE") EXCEPT !.name = "type int"]
 @@ "type int" :> Builtin("int", "int")
 @@ "int const" :> [Type("INTEGER_TYPE") EXCEPT !.name = "type int", !.quals = {"c"}]
 @@ "B const" :> [Record("class B", global) EXCEPT !.quals = {"c"}]
 @@ "B const&" :> Pointer("REFERENCE_TYPE", "B const")
 @@ "CB" :> Typedef("CB type", "B const", "CB")  \* typedef const B CB;
 @@ "CB type" :> [Record("CB", global) EXCEPT !.quals = {"c"}]
 @@ "CB volatile" :> [Record("CB", global) EXCEPT !.quals = {"c", "v"}]
 @@ "D const" :> [Record("class D", global) EXCEPT !.quals = {"c"}]
 @@ "D const*" :> Pointer("POINTER_TYPE", "D const")
 @@ "D const* const" :> [Pointer("POINTER_TYPE", "D const") EXCEPT !.quals = {"c"}]
 @@ "B[]" :> Pointer("ARRAY_TYPE", "B")
 @@ "B const[]" :> [Pointer("ARRAY_TYPE", "B const") EXCEPT !.quals = {"c"}]
 @@ "pmf" :> [Record(None, None) EXCEPT !.ptrmemfunc = "void(D::*)(int)"]
 @@ "pmf const" :> [Record(None, None) EXCEPT !.ptrmemfunc = "void(D::*)(int) const",
                                              !.quals = {"c"}]
 @@ "void(D::*)(int)" :> Pointer("POINTER_TYPE", "method")
 @@ "void(D::*)(int) const" :> [Pointer("POINTER_TYPE", "method") EXCEPT !.quals = {"c"}]
 @@ "method" :> [code |-> "METHOD_TYPE", quals |-> {}, name |-> None, basetype |-> "D",
                 returns |-> Void, args |-> <<"int">>]
 @@ "int D::*" :> [code |-> "OFFSET_TYPE", quals |-> {}, name |-> None, basetype |-> "D",
                   type |-> "int"]
 @@ "E" :> [Type("ENUMERAL_TYPE") EXCEPT !.name = "class E"] \* enum E {};
 @@ "class E" :> ClassDecl("E", "E", global)
 @@ "vector" :> Type("VECTOR_TYPE")   \* typedef float v4 __attribute__((vector_size(16)));
 @@ "v4" :> Typedef("v4 type", "vector", "v4")
 @@ "v4 type" :> [Type("VECTOR_TYPE") EXCEPT !.name = "v4"]

CommonNodes == Namespaces @@ Classes @@ Locals @@ Functions @@ Types

MCNode == DOMAIN CommonNodes \cup {"x"}
MCFile == {"h", "c"}

-----------------------------------------------------------------------------
MCUnit == [varType : VarTypes, body : Bodies, start : DumpFrom]

(* The local classes that a body declares befriend the global class G.     *)
Friends(body) == CASE body = "empty" -> <<>>
                   [] body = "L"     -> <<"L">>
                   [] body = "L, K"  -> <<"L", "K">>

TreeOf(u) ==
    LET nodesOf == "x" :> Variable("VAR_DECL", u.varType, global) @@ CommonNodes
        tree == [nodesOf EXCEPT !["G"].befriending = Friends(u.body)]
    IN [n \in MCNode |->
          IF "quals" \in DOMAIN tree[n]
            THEN [main |-> IF n \in DOMAIN Mains THEN Mains[n] ELSE n] @@ tree[n]
            ELSE tree[n]]

MCTree == [u \in MCUnit |-> TreeOf(u)]
(* Namespace std is added with the global one: it is not always referenced. *)
MCStarts == [u \in MCUnit |-> <<u.start>> \o When(u.start = global, <<"std">>)]
MCScript == [u \in MCUnit |-> ScriptOf(TreeOf(u))]
MCStart == [u \in MCUnit |-> StartOf(TreeOf(u), MCStarts[u])]

-----------------------------------------------------------------------------
(* The theorems about quiet units are about all that start elsewhere than  *)
(* at the class that local classes befriend (run local_class).  A few      *)
(* rounds lead to the least sets that Quiet speaks of.                     *)
MaxRound == 12
InFull(u) == LET full[k \in 0 .. MaxRound] == IF k = 0 THEN {} ELSE Reach!Wanted(u, full[k - 1])
             IN full[MaxRound]
InPart(u) == LET F == InFull(u)
                 part[k \in 0 .. MaxRound] ==
                    IF k = 0 THEN {} ELSE Reach!Mentioned(u, F, part[k - 1]) \ F
             IN part[MaxRound]
ASSUME UnitsAreQuiet ==
    \A u \in MCUnit : u.start # "class G" =>
        LET F == InFull(u)
            P == InPart(u)
        IN /\ Reach!ClosedSet(u, F) /\ Reach!Mentions(u, F, P)
           /\ \A n \in P : Reach!FullTargets(Script[u][n][0]) = {}
=============================================================================
