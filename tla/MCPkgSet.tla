------------------------------ MODULE MCPkgSet ------------------------------
(***************************************************************************)
(* Small package sets for PkgSet.                                          *)
(***************************************************************************)
EXTENDS PkgSet

CONSTANTS a, b, k, h,   \* packages, and their names
          k2,           \* a newer k
          v, w, u,      \* capabilities; nobody provides u
          d, f, g,      \* components of paths
          s1, s2

MCPkg == {a, b, k, h, k2}
MCPaths == <<<<d>>, <<d, f>>, <<d, g>>>>
MCName == {a, b, k, h, v, w, u} \union ToSet(MCPaths)
Places == <<a, b, k, h, u, v, w>> \o MCPaths
MCNameRank == [n \in MCName |-> CHOOSE i \in DOMAIN Places : Places[i] = n]
MCName1(p) == IF p = k2 THEN k ELSE p
Version(p) == IF p = k2 THEN 2 ELSE 1
Versioned(n, ver, rel) == [name |-> n, evr |-> [e |-> 0, v |-> ver, r |-> 0], rel |-> rel]

(* Only a, b, k and h are there unless newer says so; caps and files are   *)
(* what they have besides their names.                                     *)
SetOf(newer, caps, reqs, cnfl, owned, alike, pm) ==
    [name |-> [p \in MCPkg |-> MCName1(p)],
     evr |-> [p \in MCPkg |-> Version(p)],
     arch |-> [p \in MCPkg |-> 1],
     pri |-> [p \in MCPkg |-> 1],
     from |-> [p \in MCPkg |-> IF p = k2 THEN s2 ELSE s1],
     ignored |-> IF newer THEN {} ELSE {k2},
     caps |-> [p \in MCPkg |-> {Versioned(MCName1(p), Version(p), {"EQ"})} \union caps[p]],
     reqs |-> reqs,
     cnfls |-> [p \in MCPkg |-> IF p \in cnfl THEN {[req |-> Unversioned(h), bastard |-> FALSE]}
                                ELSE {}],
     files |-> owned, alike |-> alike, pm |-> pm]

NoOwned == [p \in MCPkg |-> {}]
Needs(names) == [i \in DOMAIN names |-> Unversioned(names[i])]
CapsOf(vs, ws) == [p \in MCPkg |-> {Unversioned(n) : n \in (IF p \in vs THEN {v} ELSE {}) \union
                                                            (IF p \in ws THEN {w} ELSE {})}]

(* Alternatives, circles, packages that satisfy themselves, and what       *)
(* nobody provides.                                                        *)
MarkSets ==
    {SetOf(newer, CapsOf(vs, ws),
           [p \in MCPkg |-> CASE p = a -> Needs(ra) [] p = k -> Needs(rx)
                               [] p = b -> << << >>, Needs(<<u, k>>), <<Versioned(k, 2, {"EQ"})>> >>[rb]
                               [] p = h -> Needs(ry) [] p = k2 -> <<Versioned(k, 2, {"EQ"})>>],
           {}, NoOwned, {}, {Unversioned(u)}) :
        newer \in BOOLEAN, vs \in {{k, h}, {b, k}, {a, k2}}, ws \in {{k}, {h}, {}},
        ra \in {<<v>>, <<v, w>>, <<w, v>>}, rb \in {1, 2, 3},
        rx \in {<< >>, <<v, b>>, <<w>>}, ry \in {<< >>, <<v>>, <<a>>}}

(* Who owns the files and the directory.                                   *)
FileSets ==
    {SetOf(FALSE, CapsOf({k}, {}),
           [p \in MCPkg |-> CASE p = a -> Needs(ra) [] p = b -> << <<Unversioned(<<d>>)>>, << >> >>[rb]
                               [] p = k -> Needs(<<h>>) [] OTHER -> << >>],
           cnfl, [p \in MCPkg |-> CASE p = a -> {<<d, f>>} [] p = b -> {<<d, f>>, <<d, g>>} \union ob
                                      [] p = k -> {<<d, f>>} \union ox [] p = h -> oy [] OTHER -> {}],
           alike, {}) :
        ra \in {<<v>>, <<b>>, << >>}, rb \in {1, 2}, cnfl \in {{}, {a}},
        ox \in {{}, {<<d>>}}, ob \in {{}, {<<d>>}}, oy \in {{}, {<<d>>}, {<<d, g>>}}, alike \in {{}, {<<d, f>>}}}

MCSets == MarkSets \union FileSets

Names1(ps) == {[name |-> p, glob |-> {}] : p \in ps}
All == {[name |-> u, glob |-> MCPkg]}
Verify(masks, checks, options) ==
    [type |-> "verify", masks |-> masks, checks |-> checks, options |-> options]
Dist(masks, options) ==
    [type |-> "install-dist", masks |-> masks, checks |-> {}, options |-> options]

MCCommands ==
    {<<Dist(Names1({a}), {})>>, <<Dist(Names1({b}), {"nodeps"})>>,
     <<Dist(Names1({w}), {"caplookup", "uniqn", "force"})>>,
     <<Verify(Names1({b}), {"deps"}, {}), Verify(Names1({a}), Check, {})>>,
     <<Verify(All, {"file-conflicts", "file-missing-deps"}, {})>>}
=============================================================================
