------------------------------ MODULE MCOrder ------------------------------
(***************************************************************************)
(* Small repositories for Order: three packages that require each other    *)
(* and a capability some of them provide, with every flag.                 *)
(***************************************************************************)
EXTENDS Order

CONSTANTS a, b, c,      \* packages, and their names
          v, w          \* capabilities

MCPkg == {a, b, c}
MCKey == {a, b, c, v, w}
ByName == <<a, b, c>>

OneOf(keys, flags) == {<< >>} \union {<<[key |-> k, flags |-> f]>> : k \in keys, f \in flags}

(* At most one requirement on v and one on w or another package.           *)
ReqsOf(p, flags) == {s \o t : s \in OneOf({v}, flags), t \in OneOf(MCKey \ {p, v}, flags)}

(* cases: what is to be ordered, and who provides v.                       *)
RepositoriesOf(cases, flags) ==
    {[reqs |-> [p \in MCPkg |-> CASE p = a -> ra [] p = b -> rb [] p = c -> rc],
      sat |-> [k \in MCKey |-> CASE k = v -> x[2] [] k = w -> ByName [] OTHER -> <<k>>],
      pool |-> ToSet(x[1]), inpkgs |-> x[1]] :
        ra \in ReqsOf(a, flags), rb \in ReqsOf(b, flags), rc \in ReqsOf(c, flags),
        x \in cases}

MCRepositories ==
    RepositoriesOf({<<ByName, <<a>> >>, <<ByName, <<a, b>> >>, << <<a, b>>, <<a, b>> >>},
                   {{}, {"pre", "preun"}})
=============================================================================
