----------------------------- MODULE MCVcInstall -----------------------------
(* Machines with two products, of which the first has two headers, and     *)
(* machines without the tools.                                             *)
EXTENDS VcInstall

CONSTANTS h1, h2 \* the headers

MCFaults == 3 \* bound: failures in all

ProductOf(headers, found, patch, present) ==
    [headers |-> headers, found |-> found, patch |-> patch, present |-> present]
Machine(products, tools) ==
    [products |-> products, tools |-> tools, failures |-> Fallible, faults |-> MCFaults]

MCWorlds ==
    {Machine(<<ProductOf(<<h1, h2>>, TRUE, TRUE, {h1, h2}),
               ProductOf(<<h1>>, found, patch, present)>>, TRUE) :
        found \in BOOLEAN, patch \in BOOLEAN, present \in SUBSET {h1}}
    \cup {Machine(<<ProductOf(<<h1>>, found, TRUE, {h1})>>, FALSE) : found \in BOOLEAN}
=============================================================================
