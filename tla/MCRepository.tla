---------------------------- MODULE MCRepository ----------------------------
(***************************************************************************)
(* Small databases for Repository: a in two versions, of which one is      *)
(* built for two architectures, and b.                                     *)
(***************************************************************************)
EXTENDS Repository

CONSTANTS a1, a2, a2x, a, b, v, d, f, s1, s2

MCPkg == {a1, a2, a2x, b}
MCPaths == <<<<d, f>>>>
MCName == {a, b, v} \union ToSet(MCPaths)
MCNameRank == [n \in MCName |-> CASE n = a -> 1 [] n = b -> 2 [] n = v -> 3 [] OTHER -> 4]

Named(p) == IF p = b THEN b ELSE a
Version(p) == IF p \in {a2, a2x} THEN 2 ELSE 1
MCSet ==
    [name |-> [p \in MCPkg |-> Named(p)], evr |-> [p \in MCPkg |-> Version(p)],
     arch |-> [p \in MCPkg |-> IF p = a2x THEN 2 ELSE 1], pri |-> [p \in MCPkg |-> 1],
     caps |-> [p \in MCPkg |-> {Unversioned(Named(p))} \union
                               (IF p = a1 THEN {} ELSE {Unversioned(v)})],
     files |-> [p \in MCPkg |-> IF p = a2 THEN {} ELSE {<<d, f>>}]]
MCRequires == [p \in MCPkg |-> CASE p = b -> {a} [] p = a1 -> {v, b} [] OTHER -> {b}]

MCPlaces ==
    {[files |-> [p \in MCPkg |-> IF p \in x[1] THEN 1 ELSE 0],
      repo |-> [p \in MCPkg |-> IF p \in x[2] THEN 2 ELSE 0]] :
        x \in {<<{a1, b}, {a2, b}>>, <<{a1, a2}, {a2x}>>}}
MCOutside == {<<b, 2>>}
Processes == Permutations(Session)
MCAlike == {b}
MCMkidx == {c \in Command : c.original = "none"}
=============================================================================
