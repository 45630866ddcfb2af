-------------------------- MODULE MCIncludeWrapper -------------------------
(* Command lines with wrappers, and all ways to have two headers in their  *)
(* directories.                                                            *)
EXTENDS IncludeWrapper

Dirs == {"src", "cwd", "w1", "w2", "q", "d1", "d2", "sys", "alias", "gone"}
Place == [d \in Dirs |-> CASE d = "alias" -> "d1" [] d = "gone" -> "nowhere" [] OTHER -> d]

Opt(opt, dir) == [opt |-> opt, dir |-> dir]
CommandLine(options, standard) == [options |-> options, standard |-> standard]
CommandLines ==
    {CommandLine(<<Opt("-iwrapper", "w1"), Opt("-iwrapper", "w2"), Opt("-I", "d1"),
                   Opt("-isystem", "d2")>>, <<"sys">>),
     CommandLine(<<Opt("-iwrapper", "w1"), Opt("-iquote", "q"), Opt("-I", "d1"),
                   Opt("-I", "alias"), Opt("-idirafter", "d2")>>, <<"sys">>),
     CommandLine(<<Opt("-I", "d1"), Opt("-I", "-"), Opt("-I", "d2"), Opt("-iwrapper", "w1")>>,
                 <<"sys">>),
     CommandLine(<<Opt("-iwrapper", "w1"), Opt("-I", "d1"), Opt("-I", "gone"),
                   Opt("-isystem", "alias")>>, <<"sys">>),
     CommandLine(<<Opt("-iwrapper", "sys"), Opt("-iwrapper", "w1"), Opt("-I", "w1"),
                   Opt("-I", "d1")>>, <<"sys">>),
     CommandLine(<<Opt("-iquote", "d1"), Opt("-iquote", "gone"), Opt("-I", "d1"),
                   Opt("-iwrapper", "w1")>>, <<>>),
     CommandLine(<<Opt("-iquote", "d1"), Opt("-iwrapper", "w1"), Opt("-iwrapper", "gone")>>,
                 <<>>)}

Include(angle, name, at) == [type |-> "include", angle |-> angle, name |-> name, at |-> at]
Quote(name) == Include(FALSE, name, "search")
Angle(name) == Include(TRUE, name, "search")
Cmdline(name) == [Quote(name) EXCEPT !.type = "cmdline"]

WithBody(line, body, guarded, cmdline) ==
    LET chains == IncludeChains(Place, line.options, line.standard) IN
    [wrapper |-> chains.wrapper, quote |-> chains.quote, bracket |-> chains.bracket,
     ignores |-> chains.ignores, line |-> line, place |-> Place,
     names |-> {"main", "x", "y"}, body |-> body, guarded |-> guarded, main |-> "src",
     cmdline |-> cmdline]

(* x is included in every way; a header includes the next of its name or   *)
(* the other header, in cycles if both are guarded.                        *)
Main == <<Quote("x"), Angle("x"), NextOf("x"), Include(FALSE, "x", "d1"), Quote("y")>>
Wrappers == {"w1", "w2"}
Unit(line, xs, ys, x, y, guards) ==
    LET at == {<<"src", "main">>} \cup (xs \X {"x"}) \cup (ys \X {"y"})
        body == [f \in at |->
                   CASE f[2] = "main" -> Main
                     [] f[2] # "main" /\ f[1] \in Wrappers -> <<NextOf(f[2])>>
                     [] f[2] = "x" /\ f[1] \notin Wrappers -> x
                     [] f[2] = "y" /\ f[1] \notin Wrappers -> y]
        guarded == IF guards THEN {f \in at : f[2] # "main" /\ f[1] \notin Wrappers} ELSE {}
    IN WithBody(line, body, guarded, <<Cmdline("y")>>)
Variants ==
    [line : CommandLines,
     xs : {{"w1", "d1"} \cup s : s \in SUBSET {"src", "w2", "d2"}},
     ys : {{"q"}, {"w1", "d2", "sys"}, {"w2", "src", "cwd"}},
     x : {<<NextOf("x")>>, <<Quote("y")>>}, y : {<<>>, <<Angle("x")>>}, guards : BOOLEAN]
Cyclic(c) == ~c.guards /\ c.x = <<Quote("y")>> /\ c.y = <<Angle("x")>>

(* No wrappers, and a header that includes itself for ever.                *)
Endless ==
    LET body == [f \in {<<"src", "main">>, <<"d1", "x">>} |-> <<Angle("x")>>]
    IN WithBody(CommandLine(<<Opt("-I", "d1")>>, <<>>), body, {}, <<>>)

MCUnits ==
    {Endless} \cup
    {Unit(v.line, v.xs, v.ys, v.x, v.y, v.guards) : v \in {w \in Variants : ~Cyclic(w)}}
=============================================================================
