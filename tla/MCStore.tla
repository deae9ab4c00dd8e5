------------------------------ MODULE MCStore ------------------------------
(***************************************************************************)
(* Small limits for Store: capabilities of at most 9 bytes, six of which   *)
(* are no name, and arrays that hold two short or one split one.           *)
(***************************************************************************)
EXTENDS Store

CONSTANTS usr, etc, opt, size, recno

Cap(rank, len, evr) == [rank |-> rank, len |-> len, evr |-> evr, self |-> FALSE, bastard |-> FALSE]
Plain == Cap(2, 3, 0)
Versioned == Cap(3, 1, 2)
Split == Cap(4, 5, 0)
SplitVersioned == Cap(5, 4, 1)
Large == Cap(6, 9, 0)
Short == Cap(7, 1, 0)
Itself == [Cap(1, 1, 1) EXCEPT !.self = TRUE]
MadeUp == [Cap(8, 2, 0) EXCEPT !.bastard = TRUE]
Long == Cap(9, 1, 4)

Caps == {Plain, Versioned, Split, SplitVersioned, Large, Short, MadeUp}
Arrays(n) == {s \in UNION {[1..k -> Caps] : k \in 0..n} : IsInjective(s)}
Package(caps, reqs, sugs, cnfls, fields, dirs) ==
    [arrays |-> [caps |-> caps, reqs |-> reqs, sugs |-> sugs, cnfls |-> cnfls],
     fields |-> fields, dirs |-> dirs]

MCPkgs ==
    {Package(<<Itself>> \o caps, reqs, << >>, <<Plain>>, {size}, {usr}) : caps \in Arrays(1), reqs \in Arrays(3)}
    \union {Package(<<Itself>>, << >>, sugs, cnfls, {recno}, dirs) :
                sugs \in {<<Split, Short>>, <<Long>>}, cnfls \in Arrays(1), dirs \in SUBSET {usr, etc, opt}}

Option(depdirs, excluded, wanted, full, nofl) ==
    [depdirs |-> depdirs, excluded |-> excluded, wanted |-> wanted, full |-> full, nofl |-> nofl, recno |-> nofl]
MCOptions ==
    {Option({usr}, {}, {}, FALSE, TRUE), Option({usr}, {etc}, {usr, opt}, FALSE, FALSE),
     Option({usr}, {usr, opt}, {etc, opt}, FALSE, FALSE), Option({}, {}, {usr, etc}, TRUE, FALSE),
     Option({etc}, {}, {}, FALSE, FALSE)}
=============================================================================
