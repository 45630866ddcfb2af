--------------------------- MODULE IncludeChains ---------------------------
(***************************************************************************)
(* The chains of directories that a command line gives: c-incpath.c, with  *)
(* the chain of wrappers that GCC-XML adds.                                *)
(*                                                                         *)
(* A command line is a sequence of [opt, dir]; place tells where a         *)
(* directory name leads (its inode and device), "nowhere" if it does not   *)
(* exist.  An entry of a chain is a cpp_dir of IncludeSearch.              *)
(***************************************************************************)
EXTENDS Naturals, Sequences, FiniteSets

Heads == [wrapper |-> <<>>, quote |-> <<>>, bracket |-> <<>>, system |-> <<>>, after |-> <<>>,
          ignores |-> FALSE]
Entry(chain, dir) ==
    [name |-> dir, chain |-> IF chain = "after" THEN "system" ELSE chain,
     sysp |-> chain \in {"system", "after"}]

Options == {"-iwrapper", "-iquote", "-I", "-isystem", "-idirafter"}

(* add_path, and split_quote_chain for -I-: what was given with -I so far  *)
(* is the quote chain.                                                     *)
AddPath(heads, chain, dir) == [heads EXCEPT ![chain] = Append(@, Entry(chain, dir))]
SplitQuoteChain(heads) ==
    [heads EXCEPT !.quote = heads.bracket, !.bracket = <<>>, !.ignores = TRUE]

(* c_common_handle_option, as far as it is about directories.              *)
HandleI(heads, arg) == IF arg = "-" THEN SplitQuoteChain(heads) ELSE AddPath(heads, "bracket", arg)
HandleOption(heads, option) ==
    CASE option.opt = "-iwrapper" -> AddPath(heads, "wrapper", option.dir)
      [] option.opt = "-iquote" -> AddPath(heads, "quote", option.dir)
      [] option.opt = "-I" -> HandleI(heads, option.dir)
      [] option.opt = "-isystem" -> AddPath(heads, "system", option.dir)
      [] option.opt = "-idirafter" -> AddPath(heads, "after", option.dir)
HandleOptions(options) ==
    LET handled[i \in 0..Len(options)] ==
            IF i = 0 THEN Heads ELSE HandleOption(handled[i - 1], options[i])
    IN handled[Len(options)]
(* add_standard_paths: at the end of the system chain.                     *)
AddStandardPaths(heads, standard) ==
    [heads EXCEPT !.system = @ \o [k \in DOMAIN standard |-> Entry("system", standard[k])]]

Same(place, e, f) == place[e.name] = place[f.name]
Among(place, e, chain) == \E k \in DOMAIN chain : Same(place, e, chain[k])
(* Mutant of RemoveDuplicates: what has been kept already stays.           *)
RemoveDuplicatesOfSystem(place, head, system, join) ==
    LET Redundant(i) ==
            \/ place[head[i].name] = "nowhere"
            \/ Among(place, head[i], system)
            \/ i = Len(head) /\ join # <<>> /\ Same(place, head[i], join[1])
        kept[i \in 0..Len(head)] ==
            IF i = 0 THEN <<>>
            ELSE IF Redundant(i) THEN kept[i - 1] ELSE Append(kept[i - 1], head[i])
    IN kept[Len(head)] \o join

(* remove_duplicates: of chain head, what does not exist, what is in the   *)
(* chain system, and what has been kept already is removed, and the last   *)
(* of all if it is the first of join.                                      *)
Redundant(place, head, system, join, i, others) ==
    \/ place[head[i].name] = "nowhere"
    \/ Among(place, head[i], system)
    \/ Among(place, head[i], others)
    \/ i = Len(head) /\ join # <<>> /\ Same(place, head[i], join[1])
KeptSoFar(place, head, system, join) ==
    LET kept[i \in 0..Len(head)] ==
            IF i = 0 THEN <<>>
            ELSE LET others == kept[i - 1]
                 IN IF Redundant(place, head, system, join, i, others) THEN others
                    ELSE Append(others, head[i])
    IN kept
RemoveDuplicates(place, head, system, join) ==
    KeptSoFar(place, head, system, join)[Len(head)] \o join

(* merge_include_chains and cpp_set_include_chains.                        *)
MergeIncludeChains(place, heads) ==
    LET system == RemoveDuplicates(place, heads.system \o heads.after, <<>>, <<>>)
        bracket == RemoveDuplicates(place, heads.bracket, system, system)
        quote == RemoveDuplicates(place, heads.quote, system, bracket)
    IN [wrapper |-> RemoveDuplicates(place, heads.wrapper, system, <<>>),
        quote |-> quote,
        bracket |-> IF bracket = <<>> THEN quote ELSE bracket,
        ignores |-> heads.ignores]

IncludeChains(place, options, standard) ==
    MergeIncludeChains(place, AddStandardPaths(HandleOptions(options), standard))

-----------------------------------------------------------------------------
(* What the chains must be, without the loops: the directories in the      *)
(* order of their first mention, but those of the system's only where the  *)
(* system has them, and <> searches the end of what "" searches.           *)
Firsts(place, chain, system) ==
    {k \in DOMAIN chain :
        /\ place[chain[k].name] # "nowhere" /\ ~Among(place, chain[k], system)
        /\ \A l \in 1..k - 1 : ~Same(place, chain[k], chain[l])}
(* The entries of a chain at these positions, in their order.              *)
Rank(positions, k) == Cardinality({l \in positions : l <= k})
Listed(chain, positions) ==
    [n \in 1..Cardinality(positions) |->
        chain[CHOOSE k \in positions : Rank(positions, k) = n]]
Besides(place, chain, system) == Listed(chain, Firsts(place, chain, system))
RightChains(place, heads, chains) ==
    LET system == Besides(place, heads.system \o heads.after, <<>>)
        bracket == Besides(place, heads.bracket, system) \o system
        quote == Besides(place, heads.quote, system)
    IN /\ chains.bracket = IF bracket = <<>> THEN chains.quote ELSE bracket
       /\ chains.wrapper = Besides(place, heads.wrapper, system)
       /\ \/ chains.quote = quote \o bracket
          \/ /\ quote # <<>> /\ bracket # <<>>
             /\ Same(place, quote[Len(quote)], bracket[1])
             /\ chains.quote = SubSeq(quote, 1, Len(quote) - 1) \o bracket
=============================================================================
