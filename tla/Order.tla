------------------------------- MODULE Order -------------------------------
(***************************************************************************)
(* The order in which packages are installed or removed: the depth-first   *)
(* walks of pkgset-order.c over the lists of required packages that        *)
(* pkgset-dep.c makes on demand.  The first walk follows all requirements, *)
(* the second, over the result of the first, those of the pre- and postun  *)
(* scripts only.  Removal takes the reverse (reorder_packages).            *)
(*                                                                         *)
(* A requirement is opaque: a key, the text that the answers are cached    *)
(* under, and what it is needed for.  repo.sat[k] are the packages that    *)
(* satisfy it, in the order of isort_pkgs; requirements on rpmlib are left *)
(* out.  The stack is the C stack of visit_install_order.  vs->stack is    *)
(* the same but for a package on top that requires nothing.                *)
(***************************************************************************)
EXTENDS Naturals, SequencesExt

CONSTANTS Pkg, Key, Repositories,
          OrderTypes,   \* PKGORDER_INSTALL, PKGORDER_UNINSTALL
          NotAsked      \* no answer is cached

ASSUME NotAskedAssumption == NotAsked \notin Seq(Pkg)
ASSUME OrderTypesAssumption == OrderTypes \subseteq {"install", "uninstall"}

Flag == {"pre", "preun"}                \* CAPREQ_PREREQ, CAPREQ_PREREQ_UN
Req == [key : Key, flags : SUBSET Flag]

(* pool is what is to be ordered, inpkgs the same by priority and name.    *)
Repository == {repo \in [reqs : [Pkg -> Seq(Req)], sat : [Key -> Seq(Pkg)],
                         pool : SUBSET Pkg, inpkgs : Seq(Pkg)] :
                  repo.pool = ToSet(repo.inpkgs)}

ASSUME RepositoriesAssumption == Repositories \subseteq Repository

(* struct reqpkg: the packages that satisfy a requirement; more than one   *)
(* with REQPKG_MULTI.  flags are those of the first, rest of the others.   *)
ReqPkg == [pkgs : Seq(Pkg) \ {<< >>}, flags : SUBSET Flag, rest : SUBSET Flag]
Edge == [pkg : Pkg, flags : SUBSET Flag]
Frame == [pkg : Pkg,
          reqs : Seq(Req),              \* process_reqs has still to look at
          list : SUBSET ReqPkg,         \* reqpkgs
          listed : BOOLEAN,             \* the list is complete
          edges : SUBSET Edge]          \* still to visit

VARIABLES repo, type,
          pass,         \* which walk
          todo,         \* packages the walk has still to start from
          color, prereqed,
          stack, ordered, nloops,
          cache,        \* ps->_req_cache
          lists         \* ps->_reqpkgs_cache; an empty list is not cached

vars == <<repo, type, pass, todo, color, prereqed, stack, ordered, nloops, cache, lists>>
caches == <<cache, lists>>

TypeOK ==
    /\ type \in OrderTypes
    /\ pass \in {"requires", "prereqs", "done"}
    /\ todo \in Seq(Pkg) /\ ordered \in Seq(Pkg) /\ nloops \in Nat
    /\ color \in [Pkg -> {"none", "white", "gray", "black"}] /\ prereqed \subseteq Pkg
    /\ stack \in Seq(Frame)
    /\ cache \in [Key -> Seq(Pkg) \union {NotAsked}]
    /\ lists \in [Pkg -> SUBSET ReqPkg]

-----------------------------------------------------------------------------
Top == stack[Len(stack)]
Below == SubSeq(stack, 1, Len(stack) - 1)
Replace(frame) == Append(Below, frame)

(* Each package of a list, with what it is needed for.                     *)
Edges(list) == UNION {{[pkg |-> rp.pkgs[i], flags |-> IF i = 1 THEN rp.flags ELSE rp.rest] :
                          i \in DOMAIN rp.pkgs} : rp \in list}

Called(p) == [pkg |-> p,
              reqs |-> IF lists[p] = {} THEN repo.reqs[p] ELSE << >>,
              list |-> lists[p], listed |-> FALSE, edges |-> {}]

(* A bug: the first walk leaves everything BLACK.                          *)
CleanedNot(pkgs) == color

(* mapfn_clean_pkg_color                                                   *)
Cleaned(pkgs) == [p \in Pkg |-> IF p \in ToSet(pkgs) THEN "white" ELSE color[p]]

Init ==
    /\ repo \in Repositories /\ type \in OrderTypes
    /\ pass = "requires" /\ todo = repo.inpkgs
    /\ color = [p \in Pkg |-> IF p \in repo.pool THEN "white" ELSE "none"]
    /\ prereqed = {}
    /\ stack = << >> /\ ordered = << >> /\ nloops = 0
    /\ cache = [k \in Key |-> NotAsked] /\ lists = [p \in Pkg |-> {}]

(* The loop of do_order.                                                   *)
VisitPackage ==
    /\ pass # "done" /\ stack = << >> /\ todo # << >>
    /\ color[Head(todo)] = "white"
    /\ color' = [color EXCEPT ![Head(todo)] = "gray"]
    /\ stack' = << Called(Head(todo)) >>
    /\ todo' = Tail(todo)
    /\ UNCHANGED <<repo, type, pass, prereqed, ordered, nloops, caches>>

SkipVisited ==
    /\ pass # "done" /\ stack = << >> /\ todo # << >>
    /\ color[Head(todo)] # "white"
    /\ todo' = Tail(todo)
    /\ UNCHANGED <<repo, type, pass, color, prereqed, stack, ordered, nloops, caches>>

-----------------------------------------------------------------------------
(* pkgset-dep.c: the list of required packages.                            *)

(* pkgset_find_match_packages: empty when p satisfies its requirement.     *)
FindMatches(p, k) == IF p \in ToSet(repo.sat[k]) THEN << >> ELSE repo.sat[k]

(* add_reqpkg, process_req: what the list can become.  The binary search   *)
(* finds any of the entries that start with the same package.              *)
Merged(list, r, matches) ==
    LET same == {rp \in list : rp.pkgs[1] = matches[1]}
        single == [pkgs |-> matches, flags |-> r.flags, rest |-> {}]
        multi == [pkgs |-> matches, flags |-> r.flags, rest |-> r.flags]
        known == {rp \in same : Len(rp.pkgs) > 1 /\ IsPrefix(rp.pkgs, matches)}
    IN  IF matches = << >> THEN {list}
        ELSE IF Len(matches) > 1
        THEN {list : rp \in known} \union
             (IF same = {} \/ same # known THEN {list \union {multi}} ELSE {})
        ELSE IF same = {} THEN {list \union {single}}
        ELSE {(list \ {rp}) \union {[rp EXCEPT !.flags = @ \union r.flags]} : rp \in same}

(* process_reqs: who asks first for a text answers for everybody.          *)
ProcessReq ==
    /\ stack # << >> /\ Top.reqs # << >>
    /\ LET r == Head(Top.reqs)
           matches == IF cache[r.key] = NotAsked THEN FindMatches(Top.pkg, r.key)
                      ELSE cache[r.key]
       IN  /\ cache' = [cache EXCEPT ![r.key] = matches]
           /\ \E list \in Merged(Top.list, r, matches) :
                 stack' = Replace([Top EXCEPT !.reqs = Tail(@), !.list = list])
    /\ UNCHANGED <<repo, type, pass, todo, color, prereqed, ordered, nloops, lists>>

(* pkgset_get_required_packages returns.                                   *)
Listed ==
    /\ stack # << >> /\ Top.reqs = << >> /\ ~ Top.listed
    /\ lists' = [lists EXCEPT ![Top.pkg] = Top.list]
    /\ stack' = Replace([Top EXCEPT !.listed = TRUE, !.edges = Edges(Top.list)])
    /\ UNCHANGED <<repo, type, pass, todo, color, prereqed, ordered, nloops, cache>>

-----------------------------------------------------------------------------
(* visit_install_order.                                                    *)

(* rp->flags & reqpkg_flag                                                 *)
PreFlag == IF type = "install" THEN "pre" ELSE "preun"
Flagged(e) == pass = "prereqs" /\ PreFlag \in e.flags

Visiting(e) == stack # << >> /\ Top.listed /\ e \in Top.edges
Visited(e) == [Top EXCEPT !.edges = @ \ {e}]

(* It is not to be ordered, or it already is.                              *)
SkipRequired(e) ==
    /\ Visiting(e) /\ color[e.pkg] \in {"none", "black"}
    /\ stack' = Replace(Visited(e))
    /\ UNCHANGED <<repo, type, pass, todo, color, prereqed, ordered, nloops, caches>>

VisitRequired(e) ==
    /\ Visiting(e) /\ color[e.pkg] = "white" /\ (pass = "requires" \/ Flagged(e))
    /\ prereqed' = IF Flagged(e) THEN prereqed \union {e.pkg} ELSE prereqed \ {e.pkg}
    /\ color' = [color EXCEPT ![e.pkg] = "gray"]
    /\ stack' = Append(Replace(Visited(e)), Called(e.pkg))
    /\ UNCHANGED <<repo, type, pass, todo, ordered, nloops, caches>>

LeaveRequired(e) ==
    /\ Visiting(e) /\ color[e.pkg] = "white" /\ pass = "prereqs" /\ ~ Flagged(e)
    /\ prereqed' = prereqed \ {e.pkg}
    /\ stack' = Replace(Visited(e))
    /\ UNCHANGED <<repo, type, pass, todo, color, ordered, nloops, caches>>

(* A bug: the package that closes the cycle must be a prerequisite, too.   *)
PrereqsFrom(p) ==
    \A i \in DOMAIN stack : (\E j \in 1..i : stack[j].pkg = p) => stack[i].pkg \in prereqed

(* Every package from here up to the top was reached as a prerequisite.    *)
PrereqsAbove(p) ==
    \A i \in DOMAIN stack : (\E j \in 1..(i - 1) : stack[j].pkg = p) => stack[i].pkg \in prereqed

(* A bug: a package that is its own prerequisite counts.                   *)
IsLoopOrSelf(e) == Flagged(e) /\ PrereqsAbove(e.pkg)

IsLoop(e) == Flagged(e) /\ e.pkg # Top.pkg /\ PrereqsAbove(e.pkg)

CloseCycle(e) ==
    /\ Visiting(e) /\ color[e.pkg] = "gray"
    /\ nloops' = IF IsLoop(e) THEN nloops + 1 ELSE nloops
    /\ stack' = Replace(Visited(e))
    /\ UNCHANGED <<repo, type, pass, todo, color, prereqed, ordered, caches>>

PackageOrdered ==
    /\ stack # << >> /\ Top.listed /\ Top.edges = {}
    /\ color' = [color EXCEPT ![Top.pkg] = "black"]
    /\ prereqed' = prereqed \ {Top.pkg}
    /\ ordered' = Append(ordered, Top.pkg)
    /\ stack' = Below
    /\ UNCHANGED <<repo, type, pass, todo, nloops, caches>>

-----------------------------------------------------------------------------
(* do_packages_order: the second walk starts from the order of the first.  *)
Preordered ==
    /\ pass = "requires" /\ stack = << >> /\ todo = << >>
    /\ pass' = "prereqs"
    /\ todo' = ordered /\ ordered' = << >> /\ nloops' = 0
    /\ color' = Cleaned(ordered) /\ prereqed' = prereqed \ ToSet(ordered)
    /\ UNCHANGED <<repo, type, stack, caches>>

Ordered ==
    /\ pass = "prereqs" /\ stack = << >> /\ todo = << >>
    /\ pass' = "done"
    /\ ordered' = IF type = "uninstall" THEN Reverse(ordered) ELSE ordered
    /\ UNCHANGED <<repo, type, todo, color, prereqed, stack, nloops, caches>>

Finished == pass = "done" /\ UNCHANGED vars

Next ==
    \/ VisitPackage \/ SkipVisited
    \/ ProcessReq \/ Listed
    \/ \E e \in Edge : \/ SkipRequired(e) \/ VisitRequired(e) \/ LeaveRequired(e)
                       \/ CloseCycle(e)
    \/ PackageOrdered
    \/ Preordered \/ Ordered \/ Finished

Spec == Init /\ [][Next]_vars

-----------------------------------------------------------------------------
(* "n_assert(n_array_size(ordered_pkgs) == n_array_size(pkgs))" after each *)
(* walk: however the requirements run in circles, every package comes out  *)
(* once.                                                                   *)
EveryPackageOnce ==
    stack = << >> /\ todo = << >> => IsInjective(ordered) /\ ToSet(ordered) = repo.pool

Precedes(p, q) == \E i, j \in DOMAIN ordered : i < j /\ ordered[i] = p /\ ordered[j] = q

(* q comes first, or goes last.                                            *)
Before(q, p) == IF type = "uninstall" THEN Precedes(p, q) ELSE Precedes(q, p)

PrereqEdge(p, q) == \E e \in Edges(lists[p]) : e.pkg = q /\ PreFlag \in e.flags

(* Unless a loop is reported, each prerequisite that was found in the pool *)
(* is in place when it is needed, wherever the walks cut the circles of    *)
(* other requirements.                                                     *)
PrereqsFirst ==
    pass = "done" /\ nloops = 0 =>
        \A p, q \in repo.pool : p # q /\ PrereqEdge(p, q) => Before(q, p)

(* A reported loop is one: pkgmark_verify_package_order fails for it.      *)
(* Packages of which each has another one of them as a prerequisite hold a *)
(* loop, as they are finitely many.                                        *)
LoopsAreReal ==
    nloops > 0 =>
        \E loop \in SUBSET repo.pool :
            loop # {} /\ \A p \in loop : \E q \in loop \ {p} : PrereqEdge(p, q)

(* add_reqpkg and process_req merge the entries of a list, and the cached  *)
(* answers are other packages': no prerequisite comes out of it that no    *)
(* requirement of the package asks for.                                    *)
NoInventedPrereqs ==
    \A p \in Pkg : \A e \in Edges(lists[p]) : \A f \in e.flags :
        \E r \in ToSet(repo.reqs[p]) : f \in r.flags /\ e.pkg \in ToSet(repo.sat[r.key])

=============================================================================
