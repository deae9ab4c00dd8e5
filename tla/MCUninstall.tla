---------------------------- MODULE MCUninstall ----------------------------
(***************************************************************************)
(* Small databases for Uninstall: three packages that may provide the      *)
(* capability "v" and require each other or "v".                           *)
(***************************************************************************)
EXTENDS Uninstall, FiniteSetsExt, TLC

CONSTANTS a, b, c,      \* packages, and their names
          v,            \* a capability any of them may provide
          d             \* a directory

MCPkg == {a, b, c}
MCName == MCPkg \union {v, d}
MCMaxEvr == 2

Versioned(n, ver, rel) ==
    [name |-> n, evr |-> [e |-> 0, v |-> ver, r |-> 0], rel |-> rel]
MCSelfCap == [p \in MCPkg |-> Versioned(p, 1, {"EQ"})]

AtMost(n, S) == UNION {kSubset(k, S) : k \in 0..n}

(* Every database in which package p provides one set of caps[p] beside    *)
(* itself and requires one set of reqs[p].                                 *)
DatabasesOf(caps, reqs) ==
    {[caps |-> (a :> {MCSelfCap[a]} \union ca) @@ (b :> {MCSelfCap[b]} \union cb)
               @@ (c :> {MCSelfCap[c]} \union cc),
      reqs |-> (a :> ra) @@ (b :> rb) @@ (c :> rc),
      skipped |-> [p \in MCPkg |-> {}], dirs |-> [p \in MCPkg |-> {}]] :
        ca \in caps[a], cb \in caps[b], cc \in caps[c],
        ra \in reqs[a], rb \in reqs[b], rc \in reqs[c]}

(* Versioned: a provides v in either version, b perhaps in the second; c   *)
(* may require two capabilities.                                           *)
VersionedDatabases ==
    DatabasesOf((a :> {{Versioned(v, ver, {"EQ"})} : ver \in 1..2}) @@
                (b :> {{}, {Versioned(v, 2, {"EQ"})}}) @@ (c :> {{}}),
                [p \in MCPkg |-> AtMost(IF p = c THEN 2 ELSE 1,
                    {Unversioned(q) : q \in MCPkg \ {p}} \union
                    {Versioned(v, 2, {"EQ", "GT"})})])

(* Named: packages may require themselves too; a and b may provide v.      *)
NamedDatabases ==
    DatabasesOf([p \in MCPkg |-> IF p = c THEN {{}} ELSE {{}, {Unversioned(v)}}],
                [p \in MCPkg |-> AtMost(1, {Unversioned(n) :
                    n \in IF p = c THEN {a, v} ELSE MCPkg \union {v}})])

(* Directories: c's only tie to the others is that its files live in d.    *)
DirectoryDatabases ==
    {[caps |-> [p \in MCPkg |-> {MCSelfCap[p]} \union
                                (IF p \in owners THEN {Unversioned(d)} ELSE {})],
      reqs |-> reqs,
      skipped |-> [p \in MCPkg |-> {}],
      dirs |-> [p \in MCPkg |-> IF p = c THEN {d} ELSE {}]] :
        owners \in SUBSET {a, b},
        reqs \in [MCPkg -> AtMost(1, {Unversioned(a)})]}

(* Promoted: c requires a version of v, and perhaps a release of it, which *)
(* a provides; b provides v without either, without the release or in      *)
(* another version, and c may do so itself.                                *)
Released(n, ver, rel, r) == [Versioned(n, ver, rel) EXCEPT !.evr.r = r]
PromotedDatabases ==
    DatabasesOf((a :> {{Released(v, 2, {"EQ"}, 1)}}) @@
                (b :> {{Unversioned(v)}, {Versioned(v, 2, {"EQ"})}, {Versioned(v, 1, {"EQ"})}}) @@
                (c :> {{}, {Versioned(v, 1, {"EQ"})}}),
                (a :> {{}, {Unversioned(c)}}) @@ (b :> {{}, {Unversioned(a)}}) @@
                (c :> {{Released(v, 2, {"EQ"}, 1)}, {Versioned(v, 2, {"EQ", "GT"})}}))

MCDatabases == PromotedDatabases \union VersionedDatabases \union NamedDatabases \union DirectoryDatabases

(* PkgId: with multilib off two records of one name and EVR share an id.   *)
OwnIds == [p \in MCPkg |-> p]

NoTest(greedy, autodirdep, track) ==
    [follow |-> TRUE, greedy |-> greedy, autodirdep |-> autodirdep,
     test |-> FALSE, rpmtest |-> FALSE, track |-> track]
Test(follow, rpmtest) ==
    [follow |-> follow, greedy |-> IF follow THEN 1 ELSE 0, autodirdep |-> FALSE,
     test |-> TRUE, rpmtest |-> rpmtest, track |-> FALSE]

(* Only a run that is no test tracks what it removed, cli/uninstall.c:274. *)
MCOptions == {NoTest(0, FALSE, TRUE), NoTest(2, TRUE, FALSE),
              Test(TRUE, TRUE), Test(FALSE, FALSE)}
=============================================================================
