----------------------------- MODULE MCInstall -----------------------------
(***************************************************************************)
(* Small repositories and databases for Install.                           *)
(***************************************************************************)
EXTENDS Install

CONSTANTS a, b, c, d,   \* available packages, and their names
          o, u,         \* names of the installed ones
          o1, u1, o2, u2,
          v, w          \* capabilities

MCPkg == {a, b, c, d, o1, u1, o2, u2}
MCName == {a, b, c, d, o, u, v, w}
MCMaxEvr == 2

Versioned(n, ver, rel) == [name |-> n, evr |-> [e |-> 0, v |-> ver, r |-> 0], rel |-> rel]
MCSelfCap ==
    [p \in MCPkg |-> CASE p = o1 -> Versioned(o, 1, {"EQ"}) [] p = o2 -> Versioned(o, 2, {"EQ"})
                       [] p = u1 -> Versioned(u, 1, {"EQ"}) [] p = u2 -> Versioned(u, 2, {"EQ"})
                       [] OTHER -> Versioned(p, 1, {"EQ"})]

Requiring(names) == {{Unversioned(n) : n \in N} : N \in names}

NoConflicts == [p \in MCPkg |-> {}]

(* c and d provide v and nobody does w; b and c obsolete o1.               *)
BacktrackDatabases ==
    {[caps |-> [p \in MCPkg |-> {MCSelfCap[p]} \union
                                (IF p \in {c, d} THEN {Unversioned(v)} ELSE {})],
      reqs |-> [p \in MCPkg |-> CASE p = a -> ra [] p = b -> rb [] p = c -> rc
                                  [] p = u2 -> ru [] OTHER -> {}],
      obsl |-> [p \in MCPkg |-> IF p \in {b, c} THEN {Unversioned(o)} ELSE {}],
      cnfl |-> NoConflicts,
      avail |-> {a, b, c, d, u2}, inst |-> {o1}] :
        ra \in Requiring({{b}, {v}, {b, v}}), rb \in Requiring({{}, {v, w}}),
        rc \in Requiring({{u}, {b, u}}), ru \in Requiring({{}, {w}})}

(* o1 and u1 are installed, o2 and u2 newer.                               *)
UpgradeDatabases ==
    {[caps |-> [p \in MCPkg |-> {MCSelfCap[p]} \union
                                (IF p \in prov THEN {Unversioned(v)} ELSE {})],
      reqs |-> [p \in MCPkg |-> CASE p = a -> ra [] p = u1 -> ru1 [] p = u2 -> ru2
                                  [] OTHER -> {}],
      obsl |-> [p \in MCPkg |-> IF p = b THEN {Versioned(o, 2, {"LT"})} ELSE {}],
      cnfl |-> NoConflicts,
      avail |-> {a, b, o2, u2}, inst |-> {o1, u1}] :
        prov \in {{o1}, {u1}, {o1, o2}, {o1, b}, {o1, a, b}},
        ra \in {{Unversioned(v)}, {Versioned(o, 2, {"EQ", "GT"})}},
        ru1 \in {{Unversioned(v)}, {Unversioned(o)}, {Versioned(o, 1, {"EQ"})}},
        ru2 \in {{}, {Unversioned(v)}, {Versioned(o, 2, {"EQ"})}}}

Quarrel(ofA, ofC, ofU1) ==
    [p \in MCPkg |-> CASE p = a -> ofA [] p = c -> ofC [] p = u1 -> ofU1 [] OTHER -> {}]
Quarrels ==
    {Quarrel({Versioned(o, 2, {"LT"})}, {}, {}), Quarrel({Versioned(v, 2, {"LT"})}, {}, {}),
     Quarrel({Unversioned(c)}, {}, {Versioned(a, 1, {"EQ"})}),
     Quarrel({Unversioned(v)}, {}, {}), Quarrel({}, {Unversioned(a)}, {}),
     Quarrel({Versioned(v, 2, {"LT"})}, {Versioned(a, 1, {"EQ"})}, {Unversioned(a)})}

(* a conflicts with o1, or u1 with a: o2 and u2 are newer, b and d       *)
(* obsolete o, and c and d are a newer version of what o1 provides.        *)
ConflictDatabases ==
    {[caps |-> [p \in MCPkg |-> {MCSelfCap[p]} \union
                                (CASE p = o1 -> {Versioned(v, 1, {"EQ"})}
                                   [] p \in {o2, c, d} -> {Versioned(v, 2, {"EQ"})}
                                   [] OTHER -> {})],
      reqs |-> [p \in MCPkg |-> IF p = a THEN ra ELSE {}],
      obsl |-> [p \in MCPkg |-> IF p \in {b, d} THEN {Unversioned(o)} ELSE {}],
      cnfl |-> cnfl, avail |-> av, inst |-> {o1, u1}] :
        ra \in {{}, {Unversioned(v)}}, cnfl \in Quarrels,
        av \in {{a, b, c, d, o2, u2}, {a, c, d}, {a, b, c}}}

Plain == [caps |-> [p \in MCPkg |-> {MCSelfCap[p]}], reqs |-> NoConflicts,
          obsl |-> NoConflicts, cnfl |-> NoConflicts, avail |-> {}, inst |-> {}]

(* b seems to obsolete o1, with whom a conflicts, and does not remove it;  *)
(* d seems to succeed u1, who needs the o1 that o2 replaces.               *)
SeemingDatabases ==
    {[Plain EXCEPT !.caps[o1] = @ \union {Versioned(v, 1, {"EQ"}), Versioned(o, 2, {"EQ"})},
                   !.obsl[b] = {Versioned(o, 2, {"EQ"})},
                   !.cnfl = [p \in MCPkg |-> IF p \in {a, o2} THEN {Versioned(v, 2, {"LT"})} ELSE {}],
                   !.avail = {a, b, o2}, !.inst = {o1}],
     [Plain EXCEPT !.caps[d] = @ \union {Unversioned(u)}, !.reqs[u1] = {Versioned(o, 1, {"EQ"})},
                   !.avail = {a, d, o2}, !.inst = {o1, u1}]}

MCDatabases == BacktrackDatabases \union UpgradeDatabases \union ConflictDatabases
               \union SeemingDatabases

MCNameRank == [n \in MCName |-> IF n \in {o, u} THEN 1 ELSE IF n = b THEN 2 ELSE 0]

Default == [upgrade |-> TRUE, follow |-> TRUE, greedy |-> FALSE, obsoletes |-> TRUE,
            particle |-> FALSE, ask |-> FALSE, conflicts |-> TRUE, nodeps |-> FALSE, test |-> FALSE]

Greedy == [Default EXCEPT !.greedy = TRUE, !.particle = TRUE]
Asked == [Default EXCEPT !.ask = TRUE, !.nodeps = TRUE]
NotFollowed == [Default EXCEPT !.follow = FALSE, !.particle = TRUE, !.obsoletes = FALSE]
InstallTest == [Default EXCEPT !.upgrade = FALSE, !.test = TRUE]
MCRequests == {{a}, {a, b}, {a, c}, {o2}, {o2, u2}, {a, o2}}
MCOptions == {Default, Greedy, Asked, NotFollowed, InstallTest}
=============================================================================
