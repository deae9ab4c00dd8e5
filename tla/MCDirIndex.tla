----------------------------- MODULE MCDirIndex -----------------------------
(***************************************************************************)
(* Small sources for DirIndex: a and its rebuild a2, which has its files   *)
(* elsewhere, b, and two keys of GPG that are alike.                       *)
(***************************************************************************)
EXTENDS DirIndex

CONSTANTS a, a2, b, g, h, usr, share, p1, p2

MCPkg == {a, a2, b, g, h}
MCDir == {usr, share}
MCKey == [p \in MCPkg |-> IF p = h THEN g ELSE p]
In(d) == [in |-> d, itself |-> NoDir]
Below(d, e) == [in |-> d, itself |-> e]
MCFiles ==
    [p \in MCPkg |-> CASE p = a -> {In(usr), Below(usr, share)}
                       [] p = a2 -> {In(share)}
                       [] p = b -> {Below(usr, usr), In(share)}
                       [] OTHER -> {}]
MCSources == {[pkgs |-> s, kept |-> ToSet(s) \ (IF a2 \in ToSet(s) THEN {a} ELSE {})] :
                s \in {<<a, b>>, <<g, b, a, a2, h>>, << >>}}
=============================================================================
