--------------------------- MODULE IncludeSearch ---------------------------
(***************************************************************************)
(* How the preprocessor finds headers: libcpp/files.c with the search for  *)
(* header wrappers that GCC-XML adds to it (-iwrapper).                    *)
(*                                                                         *)
(* A directory of a search path is a cpp_dir.  Its next pointers are the   *)
(* rest of a sequence here: file->dir is the search path that begins at    *)
(* the directory where the file was found.                                 *)
(***************************************************************************)
EXTENDS Naturals, Sequences, FiniteSets

CONSTANTS
    Units,   \* what may be compiled: chains of directories and files
    StackMax \* CPP_STACK_MAX, the deepest nesting of files

VARIABLES
    unit,    \* the unit that is compiled, which does not change
    started, \* the main file has been stacked
    stack,   \* pfile->buffer, the innermost file last
    made,    \* dir_hash: whether the directory of a file counts as system's
    defined, \* the files whose guard is defined
    seen     \* what has been read and what was not found, in order

vars == <<unit, started, stack, made, defined, seen>>

(* wrapper, quote, bracket: the chains; place: where a directory name      *)
(* leads; names: of headers; body: the directives of each file             *)
(* <<place, name>>; guarded: the files with a header guard; main: the      *)
(* directory of the main file; cmdline: -include; ignores:                 *)
(* quote_ignores_source_dir (-I-).                                         *)
Chains == {"wrapper", "quote", "bracket", "system", "made", "none"}
CppDir(name, chain, sysp) == [name |-> name, chain |-> chain, sysp |-> sysp]
Files == DOMAIN unit.body
File(dir, name) == <<unit.place[dir.name], name>>

Directives(names, dirs) ==
    [type : {"include", "include_next", "cmdline"}, angle : BOOLEAN, name : names,
     at : dirs \cup {"search"}]
CppDirs(dirs) == [name : dirs, chain : Chains, sysp : BOOLEAN]
IsUnit(u) ==
    LET dirs == DOMAIN u.place IN
    /\ {u.wrapper, u.quote, u.bracket} \subseteq Seq(CppDirs(dirs))
    /\ \A k \in DOMAIN u.wrapper : u.wrapper[k].chain = "wrapper"
    /\ \A k \in DOMAIN u.quote : u.quote[k].chain # "wrapper"
    /\ \A k \in DOMAIN u.bracket : u.bracket[k].chain # "wrapper"
    /\ u.main \in dirs /\ "cwd" \in dirs /\ u.ignores \in BOOLEAN
    /\ DOMAIN u.body \subseteq {u.place[d] : d \in dirs} \X u.names
    /\ \A f \in DOMAIN u.body : u.body[f] \in Seq(Directives(u.names, dirs))
    /\ <<u.place[u.main], "main">> \in DOMAIN u.body
    /\ u.cmdline \in Seq(Directives(u.names, dirs)) /\ u.guarded \subseteq DOMAIN u.body
ASSUME UnitAssumption == \A u \in Units : IsUnit(u)
ASSUME StackMaxAssumption == StackMax \in Nat \ {0}

Top == stack[Len(stack)]
Reading == started /\ stack # <<>> /\ Top.at < Len(Top.body)
Directive == Top.body[Top.at + 1]

-----------------------------------------------------------------------------
(* A directive d of the file stack[i].  do_include_next: in the primary    *)
(* source file #include_next is #include.                                  *)
Type(i, d) == IF i = 1 /\ d.type = "include_next" THEN "include" ELSE d.type
Absolute(d) == d.at # "search"

(* make_cpp_dir: a directory is made once, with the sysp of its first use. *)
Makes(i, d) ==
    /\ ~Absolute(d) /\ ~d.angle /\ Type(i, d) # "include_next"
    /\ Type(i, d) = "cmdline" \/ ~unit.ignores
Source(i, d) == IF d.type = "cmdline" THEN "cwd" ELSE stack[i].dir[1].name
SourceSysp(i, d) ==
    IF Source(i, d) \in DOMAIN made THEN made[Source(i, d)]
    ELSE d.type # "cmdline" /\ stack[i].sysp
MakeCppDir(i, d) == CppDir(Source(i, d), "made", SourceSysp(i, d))
Remember(i, d) ==
    made' = IF ~Makes(i, d) THEN made
            ELSE [n \in DOMAIN made \cup {Source(i, d)} |->
                     IF n = Source(i, d) THEN SourceSysp(i, d) ELSE made[n]]

(* search_path_head.  The directory of an #include "" and of -include is   *)
(* searched before the chain.                                              *)
SearchPathHead(i, d) ==
    IF Absolute(d) THEN <<CppDir(d.at, "none", FALSE)>>
    ELSE IF Type(i, d) = "include_next" THEN Tail(stack[i].dir)
    ELSE IF d.angle THEN unit.bracket
    ELSE IF Makes(i, d) THEN <<MakeCppDir(i, d)>> \o unit.quote
    ELSE unit.quote

(* _cpp_find_file: the first directory of the path that has the file.      *)
Hits(path, name) == {k \in DOMAIN path : File(path[k], name) \in Files}
FindFile(path, name) == CHOOSE k \in Hits(path, name) : \A l \in Hits(path, name) : k <= l

(* _cpp_stack_include: the wrapper chain is searched first, joined to the  *)
(* path for this search only.  A wrapper is as if found in a directory of  *)
(* its own (wrapper_dir), followed by the original path.                   *)
(* Mutants: also for #include_next, and only for <>.                      *)
WrappedAlways(i, d) == ~Absolute(d)
WrappedAngle(i, d) == Type(i, d) # "include_next" /\ ~Absolute(d) /\ d.angle
Wrapped(i, d) == Type(i, d) # "include_next" /\ ~Absolute(d)
SearchPath(i, d) ==
    IF Wrapped(i, d) THEN unit.wrapper \o SearchPathHead(i, d) ELSE SearchPathHead(i, d)
(* Mutant: without a wrapper_dir the search goes on among the wrappers.    *)
FoundDirShared(i, d, k) == SubSeq(SearchPath(i, d), k, Len(SearchPath(i, d)))
FoundDir(i, d, k) ==
    IF Wrapped(i, d) /\ k <= Len(unit.wrapper)
    THEN <<unit.wrapper[k]>> \o SearchPathHead(i, d)
    ELSE SubSeq(SearchPath(i, d), k, Len(SearchPath(i, d)))

-----------------------------------------------------------------------------
(* _cpp_stack_file: a header whose guard is defined is read, but is empty. *)
(* Mutant BufferPastStart: reading begins after the first directive.      *)
BufferPastStart(dir, name, sysp) ==
    [dir |-> dir, name |-> name, sysp |-> sysp, at |-> 1,
     body |-> unit.body[File(dir[1], name)]]
Buffer(dir, name, sysp) ==
    LET file == File(dir[1], name) IN
    [dir |-> dir, name |-> name, sysp |-> sysp, at |-> 0,
     body |-> IF file \in defined THEN <<>> ELSE unit.body[file]]
Event(where, name, sysp) == [where |-> where, name |-> name, sysp |-> sysp]
StackFile(below, dir, name, sysp) ==
    LET file == File(dir[1], name) IN
    /\ stack' = Append(below, Buffer(dir, name, sysp))
    /\ defined' = defined \cup ({file} \cap unit.guarded)
    /\ seen' = Append(seen, Event(dir[1], name, sysp))

(* cpp_read_main_file, and the -include options that come before it.       *)
ReadMainFile ==
    /\ ~started /\ started' = TRUE
    /\ LET dir == <<CppDir(unit.main, "none", FALSE)>> IN
       /\ stack' = <<[Buffer(dir, "main", FALSE) EXCEPT !.body = unit.cmdline \o @]>>
       /\ seen' = <<Event(dir[1], "main", FALSE)>>
    /\ UNCHANGED <<unit, made, defined>>

Here == Len(stack)
Advanced == [stack EXCEPT ![Here].at = @ + 1]
TooDeep == Directive.type # "cmdline" /\ Here >= StackMax
Exhausted ==
    \/ SearchPathHead(Here, Directive) = <<>>
    \/ Hits(SearchPath(Here, Directive), Directive.name) = {}
Missed == Event(CppDir("missing", "none", FALSE), Directive.name, FALSE)

(* do_include_common: "#include nested too deeply".                        *)
NestedTooDeeply ==
    /\ Reading /\ TooDeep
    /\ stack' = Advanced /\ seen' = Append(seen, Missed)
    /\ UNCHANGED <<unit, started, made, defined>>

(* No directory left to search, or the file is in none of them.            *)
(* Mutant IncludeFailsAgain: the failed directive is read again.          *)
IncludeFailsAgain ==
    /\ Reading /\ ~TooDeep /\ Exhausted
    /\ UNCHANGED vars
IncludeFails ==
    /\ Reading /\ ~TooDeep /\ Exhausted
    /\ stack' = Advanced /\ seen' = Append(seen, Missed)
    /\ Remember(Here, Directive)
    /\ UNCHANGED <<unit, started, defined>>

StackInclude ==
    /\ Reading /\ ~TooDeep /\ ~Exhausted
    /\ LET k == FindFile(SearchPath(Here, Directive), Directive.name)
           dir == FoundDir(Here, Directive, k)
       IN StackFile(Advanced, dir, Directive.name, Top.sysp \/ dir[1].sysp)
    /\ Remember(Here, Directive)
    /\ UNCHANGED <<unit, started>>

PopBuffer ==
    /\ started /\ stack # <<>> /\ Top.at = Len(Top.body)
    /\ stack' = SubSeq(stack, 1, Len(stack) - 1)
    /\ UNCHANGED <<unit, started, made, defined, seen>>

Finished == started /\ stack = <<>>
Done == Finished /\ UNCHANGED vars

Init ==
    /\ unit \in Units
    /\ started = FALSE /\ stack = <<>> /\ made = <<>> /\ defined = {} /\ seen = <<>>
Step == ReadMainFile \/ NestedTooDeeply \/ IncludeFails \/ StackInclude \/ PopBuffer
Next == Step \/ Done
Spec == Init /\ [][Next]_vars /\ WF_vars(Step)

-----------------------------------------------------------------------------
(* Where the directives and their results are, in the stack.               *)
IsWrapper(i) == stack[i].dir[1].chain = "wrapper"
Includer(i) == IF IsWrapper(i - 1) THEN i - 2 ELSE i - 1
LastDirective(i) == stack[i].body[stack[i].at]
Suffix(path, k) == SubSeq(path, k, Len(path))

TypeOK ==
    LET dirs == DOMAIN unit.place IN
    /\ started \in BOOLEAN
    /\ stack \in Seq([dir : Seq(CppDirs(dirs)) \ {<<>>}, name : unit.names, sysp : BOOLEAN,
                      at : Nat, body : Seq(Directives(unit.names, dirs))])
    /\ \A i \in DOMAIN stack : stack[i].at <= Len(stack[i].body)
    /\ DOMAIN made \subseteq dirs /\ \A d \in DOMAIN made : made[d] \in BOOLEAN
    /\ defined \subseteq unit.guarded

(* The files of wrappers are transparent.                                  *)
NextOf(name) == [type |-> "include_next", angle |-> TRUE, name |-> name, at |-> "search"]
Transparent(s) ==
    \A k \in DOMAIN s.wrapper : \A f \in DOMAIN s.body :
        f[1] = s.place[s.wrapper[k].name] => s.body[f] = <<NextOf(f[2])>> /\ f \notin s.guarded

(* Through whatever chain of wrappers, quotes and #include_next a header   *)
(* is reached, it is found where a search without wrappers finds it, and   *)
(* the search goes on from there.                                          *)
FoundAsWithoutWrappers ==
    \A i \in 2..Len(stack) : ~IsWrapper(i) =>
        LET j == Includer(i)
            d == LastDirective(j)
            path == SearchPathHead(j, d)
        IN stack[i].name = d.name /\ stack[i].dir = Suffix(path, FindFile(path, d.name))

(* A header that has a wrapper is read through it, but for #include_next   *)
(* and an absolute name.                                                   *)
NoHeaderPastItsWrapper ==
    \A i \in 2..Len(stack) :
        Hits(unit.wrapper, stack[i].name) # {} =>
            \/ IsWrapper(i)
            \/ LastDirective(i - 1).type = "include_next" /\ i > 2
            \/ LastDirective(i - 1).at # "search"

(* #include_next never finds a wrapper.                                    *)
NextLeavesWrappers ==
    \A i \in DOMAIN stack : \A k \in 2..Len(stack[i].dir) : stack[i].dir[k].chain # "wrapper"

Ends == <>Finished
=============================================================================
