------------------------------- MODULE PkgSet -------------------------------
(***************************************************************************)
(* The set of available packages: loading it from the sources              *)
(* (pkgset-load.c, lib_pkgset.c), the packages the arguments mean          *)
(* (arg_packages.c), marking them with what they require (pkgmark.c,       *)
(* pkgset-dep.c, pkgset-req.c), and the two commands that work on nothing  *)
(* but the marks: --verify (poldek_ts.c, op_verify.c, fileindex.c) and     *)
(* --install-dist (install-dist.c).                                        *)
(*                                                                         *)
(* Of a package set, besides what PkgIndex names: from[p] is the source of *)
(* p, ignored are packages that are configured away, reqs[p] what p        *)
(* requires but for rpmlib(), cnfls[p] what it conflicts with or           *)
(* obsoletes, pm the requirements rpm itself satisfies and alike the paths *)
(* with the same contents in all packages.  A directory nobody owns is     *)
(* satisfied by nobody: the index of directories is loaded with --autodir  *)
(* only.                                                                   *)
(***************************************************************************)
EXTENDS PkgIndex

CONSTANTS Source,
          Sets,         \* what the sources may hold
          Commands,     \* the sequences of commands that may be given
          NotAsked,     \* no answer is cached
          Unmet         \* an answer: nothing satisfies the requirement

Check == {"deps", "conflicts", "file-conflicts", "file-orphans", "file-missing-deps"}
Option == {"uniqn", "nodeps", "force", "test", "caplookup"}

(* struct reqpkg: packages that satisfy a requirement, the first and, with *)
(* REQPKG_MULTI, the others.                                               *)
ReqPkg == [pkgs : Seq(Pkg) \ {<< >>}]
Frame == [pkg : Pkg, rest : Seq(ReqPkg)]

(* An argument: a name, or a pattern, which matches what glob says.        *)
Mask == [name : Name, glob : SUBSET Pkg]
CommandLine == [type : {"verify", "install-dist"}, masks : SUBSET Mask,
                checks : SUBSET Check, options : SUBSET Option]
Conflict == [req : CapReq, bastard : BOOLEAN]
(* is_required: whether pkg requires one of those who own the directory.   *)
Question == [pkg : Pkg, dir : Path, owners : Seq(Pkg)]

VARIABLES set,          \* what the sources hold
          commands,     \* what is still to be run; the first is running
          at,
          pkgs,         \* ps->pkgs
          idx, files,   \* what ps->cap_idx and ps->file_idx hold
          indexed,      \* once they are not NULL
          cache,        \* ps->_req_cache
          lists,        \* ps->_reqpkgs_cache: an empty list is not kept
          cnfls,        \* pkg->cnfls
          hand, dep,    \* PKGMARK_MARK, PKGMARK_DEP
          unreq,        \* pms->unreqh
          stack,        \* of visit_mark_reqs, or of is_path_to
          todo,         \* what a loop has still to look at
          asking,       \* what is_required is asked
          paths,        \* is_path_to_cache
          seen,         \* PKGMARK_BLACK
          report,       \* what is printed, of each kind
          installed, failed

index == <<pkgs, idx, files, indexed>>
answers == <<cache, lists>>
marks == <<hand, dep, unreq>>
search == <<stack, asking, paths, seen>>
outcome == <<installed, failed>>
vars == <<set, commands, at, index, answers, cnfls, marks, todo, search, report, outcome>>

Command == Head(commands)
Requirements == UNION {ToSet(set.reqs[p]) : p \in Pkg}
Has(option) == option \in Command.options
Marked == hand \union dep
InOrder(ps) == SelectSeq(pkgs, LAMBDA p : p \in ps)
Nothing == [deps |-> {}, conflicts |-> {}, shared |-> {}, cnfl |-> {}, orphans |-> {},
            missing |-> {}]

TypeOK ==
    /\ commands \in Seq(CommandLine)
    /\ at \in {"load", "resolve", "mark", "marked", "conflicts", "file-conflicts",
               "file-orphans", "file-missing-deps", "path", "install", "done", "crash"}
    /\ pkgs \in Seq(Pkg) /\ IsInjective(pkgs)
    /\ \A n \in Name : Lookup(idx, n) \subseteq ToSet(pkgs)
    /\ \A path \in Path : ToSet(files[path]) \subseteq ToSet(pkgs)
    /\ indexed \in BOOLEAN
    /\ cache \in [Requirements -> Seq(Pkg) \union {NotAsked, Unmet}]
    /\ lists \in [Pkg -> Seq(ReqPkg)]
    /\ cnfls \in [Pkg -> SUBSET Conflict]
    /\ hand \subseteq ToSet(pkgs) /\ dep \subseteq ToSet(pkgs) \ hand
    /\ \A p \in Pkg : unreq[p] # {} => p \in Marked /\ unreq[p] \subseteq ToSet(set.reqs[p])
    /\ stack \in Seq(Frame)
    /\ asking \in Question \union {NotAsked}
    /\ paths \subseteq Pkg \X Pkg \X BOOLEAN
    /\ seen \subseteq ToSet(pkgs)
    /\ installed \subseteq Marked
    /\ failed \in BOOLEAN

Init ==
    /\ set \in Sets
    /\ commands \in Commands
    /\ at = "load"
    /\ pkgs = << >>
    /\ idx = NothingIndexed /\ files = NoFiles /\ indexed = FALSE
    /\ cache = [r \in Requirements |-> NotAsked]
    /\ lists = [p \in Pkg |-> << >>]
    /\ cnfls = set.cnfls
    /\ hand = {} /\ dep = {}
    /\ unreq = [p \in Pkg |-> {}]
    /\ stack = << >> /\ todo = << >> /\ asking = NotAsked
    /\ paths = {} /\ seen = {}
    /\ report = Nothing
    /\ installed = {} /\ failed = FALSE

-----------------------------------------------------------------------------
(* pkgset_load, poldek__load_sources_internal: of the sources that can be  *)
(* loaded, by threads or not, what is not ignored, sorted and made unique. *)
(* One that cannot be loaded is reported and left out.                     *)
Loaded(bad) == {p \in Pkg : set.from[p] \notin bad /\ p \notin set.ignored}
Load ==
    /\ at = "load"
    /\ \E bad \in SUBSET Source :
         \E ps \in {Uniq(set, Has("uniqn"), Sorted(set, Loaded(bad)))} :
            pkgs' = ps /\ idx' = AllCaps(set, ps, TRUE) /\ files' = AllFiles(set, ps)
    /\ at' = "resolve"
    /\ UNCHANGED <<set, commands, indexed, answers, cnfls, marks, todo, search, report, outcome>>

(* pkgset__index_caps: once, when it is first needed.                      *)
IndexIf(needed) == indexed' = (indexed \/ needed) /\ UNCHANGED <<pkgs, idx, files>>

-----------------------------------------------------------------------------
(* arg_packages_resolve.                                                   *)
Matches(mask) == {p \in ToSet(pkgs) : set.name[p] = mask.name \/ p \in mask.glob}
Everything(mask) == ToSet(pkgs) \subseteq mask.glob

(* resolve_bycap, with --caplookup.                                        *)
Providers(n) == {p \in ToSet(pkgs) : n \in Names(set.caps[p]) \union set.files[p]}
ByCap(mask) == Has("caplookup") /\ Matches(mask) = {} /\ Providers(mask.name) # {}

(* resolve_masks, resolve_pkgs: one that means nothing refuses them all.   *)
Resolvable == \A mask \in Command.masks : Matches(mask) # {} \/ ByCap(mask)
Resolved ==
    IF Command.masks = {} \/ \E mask \in Command.masks : Everything(mask) THEN ToSet(pkgs)
    ELSE IF Resolvable THEN UNION {Matches(mask) : mask \in Command.masks} ELSE {}

(* resolve_resolved_caps: pkgmark_pkg_drags is called with no marks, and   *)
(* the virtuals of package lists are looked up although there are none,    *)
(* when only packages that are not meant provide what is asked for.        *)
Crashes == /\ Resolvable /\ ~ \E mask \in Command.masks : Everything(mask)
           /\ \E mask \in Command.masks :
                ByCap(mask) /\ Providers(mask.name) \intersect Resolved = {}
LooksUpCaps == /\ Has("caplookup") /\ ~ \E mask \in Command.masks : Everything(mask)
               /\ \E mask \in Command.masks : Matches(mask) = {}

(* ts_mark_arg_packages, as far as the hand marks of depmark_packages.     *)
Resolve ==
    /\ at = "resolve"
    /\ IndexIf(LooksUpCaps)
    /\ IF Crashes \/ Resolved = {}
       THEN /\ at' = IF Crashes THEN "crash" ELSE "done"
            /\ failed' = TRUE
            /\ UNCHANGED <<hand, todo>>
       ELSE /\ at' = "mark"
            /\ hand' = Resolved
            /\ todo' = InOrder(Resolved)
            /\ UNCHANGED failed
    /\ UNCHANGED <<set, commands, answers, cnfls, dep, unreq, search, report, installed>>

-----------------------------------------------------------------------------
(* psreq_lookup: who has the name or the path, whatever the version.       *)
Suspects(r) == IF Lookup(idx, r.name) # {} THEN Lookup(idx, r.name)
               ELSE Owners(files, r.name)

(* A bug: the version is not looked at.                                    *)
AnswerByName(p, r) ==
    IF Suspects(r) = {} THEN IF r \in set.pm THEN << >> ELSE Unmet
    ELSE IF p \in Suspects(r) THEN << >> ELSE InOrder(Suspects(r))

(* psreq_match_pkgs, pkgset_find_match_packages: nobody when the package   *)
(* satisfies the requirement itself, or rpm does.                          *)
AnswerOf(p, ok) == IF ok = {} THEN Unmet ELSE IF p \in ok THEN << >> ELSE InOrder(ok)
Answer(p, r) ==
    IF Suspects(r) = {} THEN IF r \in set.pm THEN << >> ELSE Unmet
    ELSE AnswerOf(p, {q \in Suspects(r) : r.rel = {} \/ Satisfies(set, q, r)})

(* add_reqpkg, process_req: a package is not added next to an entry that   *)
(* begins with it, nor packages next to an entry that begins as they do.   *)
Listed(list, pp) ==
    \E i \in DOMAIN list :
        IF Len(pp) = 1 THEN Head(list[i].pkgs) = Head(pp)
        ELSE Len(list[i].pkgs) > 1 /\ IsPrefix(list[i].pkgs, pp)
(* reqpkg_cmp: by pkg_id, where the older version comes first.             *)
IdPrecedes(p, q) == \/ NameRank[set.name[p]] < NameRank[set.name[q]]
                    \/ set.name[p] = set.name[q] /\ set.evr[p] < set.evr[q]
                    \/ SameNevr(set, p, q) /\ set.arch[p] < set.arch[q]
Place(list, pp) == SelectInSeq(list, LAMBDA x : IdPrecedes(Head(pp), Head(x.pkgs)))
AddRequired(list, pp) ==
    IF pp = << >> \/ Listed(list, pp) THEN list
    ELSE IF Place(list, pp) = 0 THEN Append(list, [pkgs |-> pp])
    ELSE InsertAt(list, Place(list, pp), [pkgs |-> pp])

(* A bug: what is unmet is kept as what the package satisfies itself.      *)
KeepMet(s, r, a) ==
    [cache |-> [s.cache EXCEPT ![r] = IF a = Unmet THEN << >> ELSE a],
     list |-> IF a = Unmet THEN s.list ELSE AddRequired(s.list, a),
     unmet |-> IF a = Unmet THEN s.unmet \union {r} ELSE s.unmet]

(* process_reqs: the answer to a requirement is kept under its text,       *)
(* whoever asked first.                                                    *)
Keep(s, r, a) == [cache |-> [s.cache EXCEPT ![r] = a],
                  list |-> IF a = Unmet THEN s.list ELSE AddRequired(s.list, a),
                  unmet |-> IF a = Unmet THEN s.unmet \union {r} ELSE s.unmet]
ProcessReqs(known, p) ==
    FoldLeft(LAMBDA s, r : Keep(s, r, IF s.cache[r] = NotAsked THEN Answer(p, r) ELSE s.cache[r]),
             [cache |-> known, list |-> << >>, unmet |-> {}], set.reqs[p])

(* pkgset_get_required_packages: known are the answers and the lists.      *)
KeepList(known, p, s) ==
    [known |-> [cache |-> s.cache, lists |-> [known.lists EXCEPT ![p] = s.list]], list |-> s.list]
Required(known, p) == IF known.lists[p] # << >> THEN [known |-> known, list |-> known.lists[p]]
                      ELSE KeepList(known, p, ProcessReqs(known.cache, p))

Free(x) == ToSet(x.pkgs) \intersect Marked = {}

(* pkgmark_pkg_drags, one and two requirements deep.                       *)
Drags1(s) == [known |-> s.known, n |-> Len(SelectSeq(s.list, Free))]
Drags(s) ==
    LET Add(t, d) == [known |-> d.known, n |-> t.n + d.n + 1]
    IN  FoldLeft(LAMBDA t, x : Add(t, Drags1(Required(t.known, Head(x.pkgs)))),
                 [known |-> s.known, n |-> 0], SelectSeq(s.list, Free))

(* visit_mark_reqs: which of the packages that satisfy a requirement       *)
(* drags in the least.                                                     *)
Less(t, p, d) == [known |-> d.known, n |-> IF t.n = -1 \/ d.n < t.n THEN d.n ELSE t.n,
                  pkg |-> IF t.n = -1 \/ d.n < t.n THEN p ELSE t.pkg]
Chosen(known, pp) ==
    IF Len(pp) = 1 THEN [known |-> known, n |-> 0, pkg |-> Head(pp)]
    ELSE FoldLeft(LAMBDA t, p : Less(t, p, Drags(Required(t.known, p))),
                  [known |-> known, n |-> -1, pkg |-> Head(pp)], pp)

Known == [cache |-> cache, lists |-> lists]
Remember(known) == cache' = known.cache /\ lists' = known.lists

-----------------------------------------------------------------------------
(* depmark_packages: every package that is asked for is visited.           *)
Top == Last(stack)
Below == Front(stack)
SkippingAll == Append(Below, [Top EXCEPT !.rest = << >>])    \* a bug
Skipping == Append(Below, [Top EXCEPT !.rest = Tail(Top.rest)])

Mark(p) == dep' = IF p \in hand THEN dep ELSE dep \union {p}

(* visit_mark_reqs(p): p is marked unless it is, and what it requires is   *)
(* looked at next.                                                         *)
Enter(p, known, frames) ==
    /\ Mark(p)
    /\ \E s \in {ProcessReqs(known.cache, p)} :
         /\ unreq' = [unreq EXCEPT ![p] = @ \union s.unmet]
         /\ Remember([cache |-> s.cache, lists |-> known.lists])
         /\ stack' = Append(frames, [pkg |-> p, rest |-> s.list])

VisitNext ==
    /\ at = "mark" /\ stack = << >> /\ todo # << >>
    /\ IndexIf(set.reqs[Head(todo)] # << >>)
    /\ Enter(Head(todo), Known, << >>)
    /\ todo' = Tail(todo)
    /\ UNCHANGED <<set, commands, at, cnfls, hand, asking, paths, seen, report, outcome>>

(* One of them is marked: the requirement is met.                          *)
SkipRequired ==
    /\ at = "mark" /\ stack # << >> /\ Top.rest # << >>
    /\ ~ Free(Head(Top.rest))
    /\ stack' = Skipping
    /\ UNCHANGED <<set, commands, at, index, answers, cnfls, marks, todo, asking, paths, seen,
                   report, outcome>>

VisitRequired ==
    /\ at = "mark" /\ stack # << >> /\ Top.rest # << >>
    /\ Free(Head(Top.rest))
    /\ UNCHANGED index
    /\ \E c \in {Chosen(Known, Head(Top.rest).pkgs)} : Enter(c.pkg, c.known, Skipping)
    /\ UNCHANGED <<set, commands, at, cnfls, hand, todo, asking, paths, seen, report, outcome>>

LeaveVisited ==
    /\ at = "mark" /\ stack # << >> /\ Top.rest = << >>
    /\ stack' = Below
    /\ UNCHANGED <<set, commands, at, index, answers, cnfls, marks, todo, asking, paths, seen,
                   report, outcome>>

(* The end of ts_mark_arg_packages: --verify goes on whatever it says, and *)
(* --install-dist only when all is met or nobody cares.                    *)
UnmetReqs == {<<p, r>> \in Marked \X UNION {ToSet(set.reqs[q]) : q \in Marked} : r \in unreq[p]}
AllMarked ==
    /\ at = "mark" /\ stack = << >> /\ todo = << >>
    /\ LET bad == /\ Command.type = "install-dist" /\ UnmetReqs # {}
                  /\ Command.options \intersect {"nodeps", "force"} = {}
       IN  /\ failed' = (failed \/ bad \/ ("deps" \in Command.checks /\ UnmetReqs # {}))
           /\ at' = IF bad THEN "done" ELSE "marked"
           /\ report' = [report EXCEPT !.deps = IF bad \/ "deps" \in Command.checks
                                                THEN UnmetReqs ELSE {}]
    /\ UNCHANGED <<set, commands, index, answers, cnfls, marks, todo, search, installed>>

-----------------------------------------------------------------------------
(* pkgset_get_conflicted_packages: who provides what p conflicts with, but *)
(* for itself and itself built for another architecture.  A bastard        *)
(* conflict holds with packages of the name of p only.                     *)
Conflicting(p) ==
    {q \in ToSet(pkgs) \ {p} :
        /\ \E c \in cnfls[p] : /\ q \in Lookup(idx, c.req.name)
                              /\ c.bastard => set.name[q] = set.name[p]
                              /\ \/ c.req.rel = {}
                                 \/ Satisfies(set, q, c.req)
        /\ SameNevr(set, p, q) => set.arch[p] = set.arch[q]}

Dirs == {Front(path) : path \in Path}

(* pkgmark_verify_package_conflicts: the first report of --verify, and the *)
(* last word on --install-dist.                                            *)
VerifyConflicts ==
    /\ at = "marked"
    /\ IF "conflicts" \in Command.checks \/ Command.type = "install-dist"
       THEN /\ IndexIf(\E p \in Marked : cnfls[p] # {})
            /\ \E found \in {{<<p, q>> \in Marked \X Marked : q \in Conflicting(p)}} :
               LET bad == Command.type = "install-dist" /\ found # {} /\ ~ Has("force")
               IN  /\ report' = [report EXCEPT !.conflicts = found]
                   /\ failed' = (failed \/ bad \/ (found # {} /\ Command.type = "verify"))
                   /\ at' = IF Command.type = "verify" THEN "file-conflicts"
                            ELSE IF bad \/ Has("test") THEN "done" ELSE "install"
       ELSE /\ at' = "file-conflicts"
            /\ UNCHANGED <<index, report, failed>>
    /\ todo' = IF Command.type = "verify" THEN Dirs ELSE Marked
    /\ UNCHANGED <<set, commands, answers, cnfls, marks, search, installed>>

-----------------------------------------------------------------------------
(* find_dups: the entries of a directory, in the order of their names; the *)
(* last is not compared with the others.                                   *)
Entries(dir) ==
    FlattenSeq([i \in DOMAIN Paths |->
                   IF Front(Paths[i]) # dir THEN << >>
                   ELSE [j \in DOMAIN files[Paths[i]] |-> <<Paths[i], files[Paths[i]][j]>>]])
Compared(dir) == Front(Entries(dir))

(* A bug: only neighbours are compared.                                    *)
PairsNext(ents) ==
    SelectSeq([i \in DOMAIN ents |-> <<i, i + 1>>],
              LAMBDA x : x[2] \in DOMAIN ents /\ ents[x[1]][1] = ents[x[2]][1])

(* verify_dups: pairs of entries for one path.                             *)
Pairs(ents) ==
    LET After(i) == SelectSeq([j \in DOMAIN ents |-> <<i, j>>],
                              LAMBDA x : x[1] < x[2] /\ ents[x[1]][1] = ents[x[2]][1])
    IN  FlattenSeq([i \in DOMAIN ents |-> After(i)])

(* pkg_has_pkgcnfl, pkg_add_pkgcnfl                                        *)
NamedIn(cs, q) == \E c \in cs : c.req.name = set.name[q]
Exactly(q) == [name |-> set.name[q], evr |-> [NoEvr EXCEPT !.v = set.evr[q]], rel |-> {"EQ"}]
Bastard(q) == [req |-> Exactly(q), bastard |-> TRUE]

(* process_dup: packages that conflict are not compared; those that share  *)
(* a file, or conflict over one, are reported, and in the second case they *)
(* conflict from now on, unless architectures are installed side by side.  *)
ProcessDup(s, path, p, q) ==
    IF NamedIn(s.cnfls[p], q) \/ NamedIn(s.cnfls[q], p) THEN s
    ELSE IF path \in set.alike THEN [s EXCEPT !.shared = s.shared \union {<<path, p, q>>}]
    ELSE IF MultiLib THEN s
    ELSE [s EXCEPT !.cnfl = s.cnfl \union {<<path, p, q>>},
                   !.cnfls[p] = @ \union {Bastard(q)},
                   !.cnfls[q] = @ \union {Bastard(p)}]

Asked(check) == at = check /\ check \in Command.checks

(* A check of files with no index: nobody had a requirement or a conflict, *)
(* and the pointer is NULL.                                                *)
NoIndex == at' = "crash" /\ UNCHANGED <<cnfls, report, todo>>

(* file_index_find_conflicts, file_index_report_conflicts: the directories *)
(* come in the order of a hash table; a pair is reported when its first    *)
(* package is among the marked.                                            *)
Dups(ents) ==
    FoldLeft(LAMBDA s, x : ProcessDup(s, ents[x[1]][1], ents[x[1]][2], ents[x[2]][2]),
             [shared |-> {}, cnfl |-> {}, cnfls |-> cnfls], Pairs(ents))
FindDups(dir) ==
    \E s \in {Dups(Compared(dir))} :
        /\ cnfls' = s.cnfls
        /\ report' = [report EXCEPT !.shared = @ \union {x \in s.shared : x[2] \in Marked},
                                    !.cnfl = @ \union {x \in s.cnfl : x[2] \in Marked}]

VerifyFileConflicts ==
    /\ Asked("file-conflicts") /\ todo # {}
    /\ IF ~ indexed THEN NoIndex
       ELSE \E dir \in todo : FindDups(dir) /\ todo' = todo \ {dir} /\ UNCHANGED at
    /\ UNCHANGED <<set, commands, index, answers, marks, search, outcome>>

FileConflictsVerified ==
    /\ at = "file-conflicts"
    /\ "file-conflicts" \in Command.checks => todo = {}
    /\ at' = "file-orphans"
    /\ UNCHANGED <<set, commands, index, answers, cnfls, marks, todo, search, report, outcome>>

-----------------------------------------------------------------------------
(* get_pkg_dirs                                                            *)
DirsOf(p) == UNION {{SubSeq(path, 1, k) : k \in 1..(Len(path) - 1)} : path \in set.files[p]}
MarkedDirs == UNION {{<<p, dir>> : dir \in DirsOf(p)} : p \in Marked}

(* file_index_report_orphans, and on to what is missing.                   *)
VerifyFileOrphans ==
    /\ at = "file-orphans"
    /\ IF "file-orphans" \in Command.checks /\ ~ indexed THEN NoIndex
       ELSE /\ at' = "file-missing-deps"
            /\ todo' = IF "file-missing-deps" \in Command.checks THEN MarkedDirs ELSE {}
            /\ report' = [report EXCEPT !.orphans =
                             IF "file-orphans" \notin Command.checks THEN {}
                             ELSE {x \in MarkedDirs : Owners(files, x[2]) = {}}]
            /\ UNCHANGED cnfls
    /\ paths' = {}
    /\ UNCHANGED <<set, commands, index, answers, marks, stack, asking, seen, outcome>>

(* file_index_report_semiorphans: of a package the directories in order.   *)
Earlier(x, y) == x[1] = y[1] /\ SelectInSeq(Paths, LAMBDA z : z = x[2])
                                  < SelectInSeq(Paths, LAMBDA z : z = y[2])

(* is_required: whether somebody who owns the directory is required.       *)
Answered(x, yes) ==
    /\ at' = "file-missing-deps"
    /\ asking' = NotAsked
    /\ todo' = todo \ {x}
    /\ report' = IF yes THEN report ELSE [report EXCEPT !.missing = @ \union {x}]

AskRequired ==
    /\ at = "file-missing-deps" /\ todo # {}
    /\ IF ~ indexed THEN NoIndex /\ UNCHANGED <<answers, asking>>
       ELSE \E x \in todo :
              \E s \in {Required(Known, x[1])} :
              LET own == Owners(files, x[2])
              IN  /\ ~ \E y \in todo : Earlier(y, x)
                  /\ IF own = {} \/ x[1] \in own
                     THEN Answered(x, TRUE) /\ UNCHANGED answers
                     ELSE /\ Remember(s.known)
                          /\ IF s.list = << >> THEN Answered(x, FALSE)
                             ELSE /\ at' = "path"
                                  /\ asking' = [pkg |-> x[1], dir |-> x[2], owners |-> files[x[2]]]
                                  /\ UNCHANGED <<todo, report>>
    /\ UNCHANGED <<set, commands, index, cnfls, marks, stack, paths, seen, outcome>>

(* The next of those who own the directory; what is known of it is         *)
(* believed, and ends the search even when it is no.                       *)
LookForPath ==
    /\ at = "path" /\ stack = << >>
    /\ LET p == asking.pkg  o == Head(asking.owners)
       IN  IF asking.owners = << >> THEN Answered(<<p, asking.dir>>, FALSE) /\ UNCHANGED <<stack, seen>>
           ELSE IF {<<p, o, TRUE>>, <<p, o, FALSE>>} \intersect paths # {}
           THEN Answered(<<p, asking.dir>>, <<p, o, TRUE>> \in paths) /\ UNCHANGED <<stack, seen>>
           ELSE /\ stack' = <<[pkg |-> p, rest |-> lists[p]]>>
                /\ seen' = {p}
                /\ UNCHANGED <<at, asking, todo, report>>
    /\ UNCHANGED <<set, commands, index, answers, cnfls, marks, paths, outcome>>

KnownPathOrNot(q, o) == \E yes \in BOOLEAN : <<q, o, yes>> \in paths     \* a bug
KnownPath(q, o) == <<q, o, TRUE>> \in paths

(* is_path_to: the first of the packages that satisfy a requirement.       *)
FollowPath ==
    /\ at = "path" /\ stack # << >>
    /\ LET p == asking.pkg  o == Head(asking.owners)
       IN  IF Top.rest = << >>
           THEN /\ stack' = Below
                /\ paths' = IF Below = << >> THEN paths \union {<<p, o, FALSE>>} ELSE paths
                /\ asking' = IF Below = << >> THEN [asking EXCEPT !.owners = Tail(@)] ELSE asking
                /\ UNCHANGED <<at, todo, report, answers, seen>>
           ELSE \E q \in {Head(Head(Top.rest).pkgs)} : \E s \in {Required(Known, q)} :
                    IF q = o \/ KnownPath(q, o)
                    THEN /\ paths' = paths \union {<<p, o, TRUE>>}
                         /\ stack' = << >>
                         /\ Answered(<<p, asking.dir>>, TRUE)
                         /\ UNCHANGED <<answers, seen>>
                    ELSE /\ Remember(s.known)
                         /\ seen' = seen \union {q}
                         /\ stack' = IF s.list = << >> \/ q \in seen THEN Skipping
                                     ELSE Append(Skipping, [pkg |-> q, rest |-> s.list])
                         /\ UNCHANGED <<at, asking, paths, todo, report>>
    /\ UNCHANGED <<set, commands, index, cnfls, marks, outcome>>

Verified ==
    /\ at = "file-missing-deps" /\ todo = {}
    /\ at' = "done"
    /\ UNCHANGED <<set, commands, index, answers, cnfls, marks, todo, search, report, outcome>>

-----------------------------------------------------------------------------
(* do_install_dist: one after the other, in the order of module Order,     *)
(* without dependencies; one that fails does not stop the others.          *)
InstallNext ==
    /\ at = "install"
    /\ \E p \in todo, ok \in BOOLEAN :
         /\ installed' = IF ok THEN installed \union {p} ELSE installed
         /\ failed' = (failed \/ ~ ok)
         /\ todo' = todo \ {p}
    /\ UNCHANGED <<set, commands, at, index, answers, cnfls, marks, search, report>>

(* An interrupt, or a database that cannot be opened before the first.     *)
StopInstalling ==
    /\ at = "install" /\ todo # {}
    /\ at' = "done" /\ failed' = TRUE
    /\ UNCHANGED <<set, commands, index, answers, cnfls, marks, todo, search, report, installed>>

AllInstalled ==
    /\ at = "install" /\ todo = {}
    /\ at' = "done"
    /\ UNCHANGED <<set, commands, index, answers, cnfls, marks, todo, search, report, outcome>>

-----------------------------------------------------------------------------
(* The next command of a shell: the set and its caches stay, the marks are *)
(* those of a new transaction.                                             *)
NextCommand ==
    /\ at = "done" /\ Len(commands) > 1
    /\ commands' = Tail(commands)
    /\ at' = "resolve"
    /\ hand' = {} /\ dep' = {} /\ unreq' = [p \in Pkg |-> {}]
    /\ report' = Nothing /\ installed' = {} /\ failed' = FALSE
    /\ seen' = {} /\ todo' = << >>
    /\ UNCHANGED <<set, index, answers, cnfls, stack, asking, paths>>

Ended == at = "crash" \/ (at = "done" /\ Len(commands) = 1)
Finished == Ended /\ UNCHANGED vars

Step ==
    \/ Load \/ Resolve
    \/ VisitNext \/ SkipRequired \/ VisitRequired \/ LeaveVisited \/ AllMarked
    \/ VerifyConflicts \/ VerifyFileConflicts \/ FileConflictsVerified \/ VerifyFileOrphans
    \/ AskRequired \/ LookForPath \/ FollowPath \/ Verified
    \/ InstallNext \/ StopInstalling \/ AllInstalled
    \/ NextCommand

Next == Step \/ Finished

Spec == Init /\ [][Next]_vars

-----------------------------------------------------------------------------
SatisfiedBy(q, r) == Satisfies(set, q, r) \/ (r.rel = {} /\ r.name \in set.files[q])
Requires(p, q) == \E r \in ToSet(set.reqs[p]) : SatisfiedBy(q, r)
Visited == IF at = "mark" THEN Marked \ ToSet(todo) ELSE Marked

(* What is noted as unmet nobody in the set can satisfy, and the rest      *)
(* somebody can, or rpm, although the answers are those other packages got *)
(* first, in this command or in an earlier one (pkgset-dep.c:206-229).     *)
UnmetIsKnown ==
    \A p \in Visited : \A r \in ToSet(set.reqs[p]) :
        IF r \in unreq[p] THEN ~ \E q \in ToSet(pkgs) : SatisfiedBy(q, r)
        ELSE r \in set.pm \/ \E q \in ToSet(pkgs) : SatisfiedBy(q, r)

(* Whatever is marked along the way something marked requires: the choice  *)
(* among equivalents (pkgmark.c:332-360), and the trial runs it takes,     *)
(* mark nothing else.                                                      *)
MarkedAreRequired == \A q \in dep : \E p \in Marked \ {q} : Requires(p, q)

(* The answer "nobody" that a package got which satisfies the requirement  *)
(* itself, and a list where the only one who satisfies a requirement comes *)
(* first among equivalents for another.                                    *)
AnsweredForOther(p, r) == cache[r] = << >> /\ \E q \in ToSet(pkgs) \ {p} : SatisfiedBy(q, r)
Shadowed(p, r) == /\ cache[r] \notin {NotAsked, Unmet} /\ Len(cache[r]) = 1
                  /\ \E other \in ToSet(set.reqs[p]) :
                       /\ cache[other] \notin {NotAsked, Unmet} /\ Len(cache[other]) > 1
                       /\ Head(cache[other]) = Head(cache[r])

(* When marking is over, what a marked package requires is met by marked   *)
(* packages, is noted as unmet, or is one of the two known ways in which   *)
(* a requirement is lost (pkgset-dep.c:107, 206-229): install-dist, which  *)
(* installs without dependencies, loses nothing else.                      *)
MarkedIsClosed ==
    at \notin {"load", "resolve", "mark"} =>
        \A p \in Marked : \A r \in ToSet(set.reqs[p]) :
            \/ r \in unreq[p] \union set.pm
            \/ \E q \in Marked : SatisfiedBy(q, r)
            \/ AnsweredForOther(p, r) \/ Shadowed(p, r)

(* What is marked with its dependencies is what these ask for, no more and *)
(* no less but for the two known ways (pkgmark.c:216-346).                 *)
MarksAreExact == MarkedAreRequired /\ MarkedIsClosed

(* Two packages that own a path, one of them being looked at, are reported *)
(* or conflict, unless one of them is the last in its directory            *)
(* (fileindex.c:425-455).                                                  *)
DuplicatesAreFound ==
    /\ at \in {"file-orphans", "file-missing-deps"} /\ "file-conflicts" \in Command.checks
    /\ ~ MultiLib
    => \A path \in Path : \A p, q \in ToSet(files[path]) :
         \/ p = q \/ {p, q} \intersect Marked # {p, q}
         \/ \E x \in report.shared \union report.cnfl : x[1] = path /\ {x[2], x[3]} = {p, q}
         \/ NamedIn(cnfls[p], q) \/ NamedIn(cnfls[q], p)
         \/ Last(Entries(Front(path))) \in {<<path, p>>, <<path, q>>}

(* A package has its directories from those it requires, directly or not:  *)
(* what is_path_to says, and is_required remembers for other directories,  *)
(* is so (fileindex.c:680-770).                                            *)
Reach(p) == LET More(R) == R \union {q \in ToSet(pkgs) : \E x \in R : Requires(x, q)}
            IN  FoldLeft(LAMBDA R, i : More(R), {p}, pkgs)
PathsAreReal == \A x \in paths : x[3] => x[2] \in Reach(x[1])

(* What the index of files is asked is answered: who else owns a file, and *)
(* whose directories a package has through those it requires.              *)
FilesAnswered == DuplicatesAreFound /\ PathsAreReal
=============================================================================
