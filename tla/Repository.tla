----------------------------- MODULE Repository -----------------------------
(***************************************************************************)
(* A directory of packages that serves as the database of installed ones   *)
(* (pm/pset/pset.c): transactions that move files into it and out of it    *)
(* and save its index (pkgdir.c), a package set searched by indexes made   *)
(* when they are first needed (pkgset.c), and mkidx, which makes the index *)
(* from the files (source_mkidx.c, dir/dir.c).  The packages come from the *)
(* directory of another source.                                            *)
(*                                                                         *)
(* A package stands for its file name, which has name, version and         *)
(* architecture in it; what the file holds is one of several builds.  The  *)
(* builds of a package in Alike have one time and one size.                *)
(***************************************************************************)
EXTENDS PkgIndex

CONSTANTS Session,      \* poldek processes
          Set,          \* names, versions, capabilities and files of packages
          Requires,     \* [Pkg -> SUBSET Name], what they require
          MaxBuild,
          Alike,
          Places,       \* what may be in the two directories at first
          Mkidx,        \* what mkidx is asked for
          MaxRuns,      \* bound: transactions
          MaxGroups,    \* bound: groups of packages in transactions
          Outside,      \* files others may put there
          MaxChanges    \* bound: files replaced from outside

ASSUME AlikeAssumption == Alike \subseteq Pkg /\ MaxBuild \in Nat \ {0}

(* 0: there is no file; MaxBuild + 1: one that cannot be read.             *)
Unreadable == MaxBuild + 1
Place == [Pkg -> 0..Unreadable]
Sound == [Pkg -> 0..MaxBuild]

ASSUME PlacesAssumption == \A place \in Places : place.files \in Sound /\ place.repo \in Sound
ASSUME SetAssumption ==
    /\ IsFiniteSet(Pkg) /\ Set.name \in [Pkg -> Name] /\ Set.evr \in [Pkg -> Nat]
    /\ Set.arch \in [Pkg -> Nat] /\ Set.pri \in [Pkg -> Int]
    /\ \A p \in Pkg : /\ Names(Set.caps[p]) \subseteq Name /\ IsFiniteSet(Set.caps[p])
                      /\ Set.files[p] \subseteq Path /\ IsFiniteSet(Set.files[p])
                      /\ Requires[p] \subseteq Name /\ IsFiniteSet(Requires[p])
ASSUME OutsideAssumption == Outside \subseteq Pkg \X (0..Unreadable)

Readable(place) == [p \in Pkg |-> IF place[p] = Unreadable THEN 0 ELSE place[p]]
NotBuilt == [n \in Name |-> <<"not built">>]
Command == [named : BOOLEAN, type : {"dir", "pndir"}, original : {"none", "dir", "pndir"},
            typed : BOOLEAN, remote : BOOLEAN]

VARIABLES files,        \* the directory of the database
          repo,         \* that of the other source
          index,        \* of the database
          task,         \* what a session does
          scan,         \* and mkidx
          torn,         \* packages whose entry is known to be doubtful
          runs, groups, changes
vars == <<files, repo, index, task, scan, torn, runs, groups, changes>>

Held(place) == {p \in Pkg : place[p] # 0}
Away == [at |-> "away", type |-> "index", justdb |-> FALSE, dir |-> [p \in Pkg |-> 0], ps |-> {},
         caps |-> NotBuilt, paths |-> NoFiles, reqs |-> NotBuilt,
         ours |-> {}, removed |-> << >>, added |-> << >>, touched |-> {}, since |-> {}]
TypeOK ==
    /\ files \in Place /\ repo \in Place
    /\ index.at \in {"broken", "whole"} /\ index.pkgs \in Place
    /\ \A s \in Session :
         LET t == task[s]
         IN  /\ t.at \in {"away", "open", "commit"}
             /\ t.type \in {"index", "dir"} /\ t.dir \in Place
             /\ t.ps \subseteq Pkg /\ t.ours \subseteq t.ps \union Held(t.dir)
             /\ \A n \in Name : t.reqs # NotBuilt => Lookup(t.reqs, n) \subseteq Pkg
             /\ t.removed \in Seq({"db", "repo"} \X Pkg) /\ t.added \in Seq(Pkg)
             /\ t.touched \union t.since \subseteq Pkg
    /\ scan.at \in {"away", "read", "save"}
    /\ scan.prev \in Place /\ scan.found \in Place /\ scan.todo \subseteq Pkg
    /\ torn \subseteq Pkg

Init ==
    /\ \E place \in Places : files = place.files /\ repo = place.repo
    /\ index = [at |-> "whole", pkgs |-> files]
    /\ task = [s \in Session |-> Away]
    /\ scan = [at |-> "away", prev |-> [p \in Pkg |-> 0], found |-> [p \in Pkg |-> 0], todo |-> {}, since |-> {}]
    /\ torn = {} /\ runs = 0 /\ groups = 0 /\ changes = 0

-----------------------------------------------------------------------------
(* What others have changed so far without having saved it.                *)
Touching(s) == UNION {task[o].touched : o \in Session \ {s}}
Become(s, t) == task' = [task EXCEPT ![s] = t]

(* setup_source, pm_pset_opendb: the index, or what is in the directory    *)
(* when there is none or it cannot be opened; if one was opened and cannot *)
(* be loaded it is an error.                                               *)
Open(s) ==
    /\ task[s].at = "away" /\ runs < MaxRuns
    /\ runs' = runs + 1
    /\ \E justdb \in BOOLEAN, t \in {[Away EXCEPT !.at = "open", !.since = Touching(s)]} :
         \/ /\ index.at = "whole"
            /\ Become(s, [t EXCEPT !.justdb = justdb, !.dir = index.pkgs, !.ps = Held(index.pkgs)])
         \/ index.at = "broken" /\ UNCHANGED task
         \/ /\ index.at # "whole"
            /\ Become(s, [t EXCEPT !.justdb = justdb, !.type = "dir", !.dir = Readable(files),
                                  !.ps = Held(Readable(files))])
    /\ UNCHANGED <<files, repo, index, scan, torn, groups, changes>>

(* pkgset_search, find_capreq: all packages of the set are indexed when    *)
(* one is first looked for by what it provides, or by what it requires.    *)
SearchCaps(s) ==
    /\ task[s].at = "open" /\ task[s].caps = NotBuilt
    /\ \E ps \in {Sorted(Set, task[s].ps)} :
         Become(s, [task[s] EXCEPT !.caps = AllCaps(Set, ps, TRUE), !.paths = AllFiles(Set, ps)])
    /\ UNCHANGED <<files, repo, index, scan, torn, runs, groups, changes>>

Crs == [p \in Pkg |-> {Unversioned(n) : n \in Requires[p]}]
SearchReqs(s) ==
    /\ task[s].at = "open" /\ task[s].reqs = NotBuilt
    /\ \E ps \in {Sorted(Set, task[s].ps)} :
         Become(s, [task[s] EXCEPT !.reqs = AllReqs(Crs, ps)])
    /\ UNCHANGED <<files, repo, index, scan, torn, runs, groups, changes>>

-----------------------------------------------------------------------------
(* pkgset_add_package: refused when the set has a package of the same name *)
(* and version.  This module is of poldek without multilib, its default:   *)
(* with it architectures are compared too (pkgcmp.c:190), here they never  *)
(* are.                                                                    *)
AddToSet(t, p) ==
    IF \E q \in t.ps : SameNevr(Set, p, q) THEN t
    ELSE [t EXCEPT !.ps = @ \union {p},
                   !.caps = IF @ = NotBuilt THEN @ ELSE IndexCaps(Set, @, p, TRUE),
                   !.paths = IF t.caps = NotBuilt THEN @ ELSE IndexFiles(Set, @, p),
                   !.reqs = IF @ = NotBuilt THEN @ ELSE IndexReqs(@, p, Crs[p])]

Forget(idx, qs, crs) == FoldSet(LAMBDA q, i : Unindex(Set, i, q, crs[q]), idx, qs)

(* A bug: the index of requirements is forgotten.                          *)
RemoveFoundCaps(t, qs) ==
    [t EXCEPT !.ps = @ \ qs,
              !.caps = IF @ = NotBuilt THEN @ ELSE Forget(@, qs, Set.caps),
              !.paths = IF t.caps = NotBuilt THEN @ ELSE FoldSet(LAMBDA q, i : UnindexFiles(Set, i, q), @, qs)]

(* pkgset_remove_package: what a binary search by name and version finds,  *)
(* from the indexes there are.                                             *)
RemoveFound(t, qs) ==
    [t EXCEPT !.ps = @ \ qs,
              !.caps = IF @ = NotBuilt THEN @ ELSE Forget(@, qs, Set.caps),
              !.paths = IF t.caps = NotBuilt THEN @ ELSE FoldSet(LAMBDA q, i : UnindexFiles(Set, i, q), @, qs),
              !.reqs = IF @ = NotBuilt THEN @ ELSE Forget(@, qs, Crs)]

(* pm_pset_packages_uninstall, of one package: the set is searched by name *)
(* and version, so what is found may be of another architecture; pkg_path  *)
(* of a package this transaction installed is where it comes from.         *)
Found(t, p) ==
    LET alike == {q \in t.ps : SameNevr(Set, p, q)}
    IN  IF alike = {} THEN {{}} ELSE {{q} : q \in alike}

(* Bugs: the package stays in the directory's list; it is always taken for *)
(* one of another source.                                                  *)
RemovedFromSet(t, p, qs) ==
    [RemoveFound(t, qs) EXCEPT
        !.ours = @ \ {p},
        !.removed = Append(@, <<IF p \in t.ours THEN "repo" ELSE "db", p>>)]
RemovedFromSource(t, p, qs) ==
    [RemoveFound(t, qs) EXCEPT !.dir[p] = 0, !.ours = @ \ {p},
                              !.removed = Append(@, <<"repo", p>>)]

Removed(t, p, qs) ==
    [RemoveFound(t, qs) EXCEPT
        !.dir[p] = 0,
        !.ours = @ \ {p},
        !.removed = Append(@, <<IF p \in t.ours THEN "repo" ELSE "db", p>>)]

(* pm_pset_packages_install, of one package.  One that is installed again  *)
(* by force, with the old one not removed, keeps its entry.                *)
Added(t, p) ==
    [AddToSet(t, p) EXCEPT
        !.dir[p] = IF @ = 0 THEN repo[p] ELSE @,
        !.ours = IF t.dir[p] = 0 THEN @ \union {p} ELSE @,
        !.since = IF t.dir[p] = 0 THEN @ ELSE @ \union {p},
        !.added = Append(@, p)]

(* do_install, do_poldek_ts_uninstall of a group that removes un, at most  *)
(* a package, and brings in none or one.                                   *)
Without(s, un) ==
    IF un = {} THEN {task[s]}
    ELSE UNION {{Removed(task[s], p, qs) : qs \in Found(task[s], p)} : p \in un}
Groups(s) == {un \in SUBSET Held(task[s].dir) : Cardinality(un) < 2}
Grouped(s, t) == groups < MaxGroups /\ groups' = groups + 1 /\ Become(s, t)

Uninstall(s) ==
    /\ task[s].at = "open" /\ task[s].added = << >>
    /\ \E un \in Groups(s) \ {{}} : \E t \in Without(s, un) : Grouped(s, t)
    /\ UNCHANGED <<files, repo, index, scan, torn, runs, changes>>

Installing(s) ==
    task[s].at = "open" /\ (task[s].removed = << >> \/ task[s].added # << >>)

(* One of several instances is replaced.                                   *)
Instances(t, p) == {q \in Held(t.dir) : Set.name[q] = Set.name[p]}
IsMultiUpgrade(s, un, p) ==
    /\ un \subseteq Instances(task[s], p) /\ Cardinality(Instances(task[s], p)) > 1
    /\ \E u \in un : ~ SameNevr(Set, u, p)

Install(s) ==
    /\ Installing(s)
    /\ \E un \in Groups(s), p \in Held(repo) :
         /\ ~ IsMultiUpgrade(s, un, p)
         /\ \E t \in Without(s, un) : Grouped(s, Added(t, p))
    /\ UNCHANGED <<files, repo, index, scan, torn, runs, changes>>

(* What was removed by the first half is to be removed once more, and is   *)
(* not found: n_assert(0).                                                 *)
InstallAsserts(s) ==
    /\ Installing(s)
    /\ \E un \in Groups(s), p \in Held(repo) : IsMultiUpgrade(s, un, p)
    /\ Become(s, Away)
    /\ UNCHANGED <<files, repo, index, scan, torn, runs, groups, changes>>

(* A link or a group that fails, or an interrupt: nothing is committed and *)
(* pm_pset_freedb removes the links.                                       *)
GroupFails(s) ==
    /\ task[s].at = "open"
    /\ Become(s, Away)
    /\ UNCHANGED <<files, repo, index, scan, torn, runs, groups, changes>>

-----------------------------------------------------------------------------
(* pm_pset_tx_commit; the set is not searched any more.                    *)
Commit(s) ==
    /\ task[s].at = "open"
    /\ LET t == task[s]
       IN  Become(s, IF t.removed = << >> /\ t.added = << >> THEN Away
                     ELSE [t EXCEPT !.at = "commit", !.ps = {}, !.ours = {},
                                    !.caps = NotBuilt, !.paths = NoFiles, !.reqs = NotBuilt])
    /\ UNCHANGED <<files, repo, index, scan, torn, runs, groups, changes>>

(* With --justdb nothing happens to the files, only to the index.          *)
Doubt(s) == torn' = torn \union task[s].touched
Stops(s) == Become(s, Away) /\ Doubt(s) /\ UNCHANGED <<files, repo, scan>>

(* Whoever is at work does not know that p is touched.                     *)
Touch(s, t, p) ==
    /\ task' = [o \in Session |->
                  IF o = s THEN t ELSE IF task[o].at = "away" THEN task[o]
                  ELSE [task[o] EXCEPT !.since = @ \union {p}]]
    /\ scan' = [scan EXCEPT !.since = @ \union {p}]
Changed(s, t, p) == Touch(s, [t EXCEPT !.touched = @ \union {p}], p) /\ UNCHANGED torn

(* The first file that is not there stops it.                              *)
Unlink(s) ==
    /\ task[s].at = "commit" /\ task[s].removed # << >>
    /\ LET t == task[s]
           where == Head(t.removed)[1]
           p == Head(t.removed)[2]
           rest == [t EXCEPT !.removed = Tail(@)]
       IN  IF t.justdb THEN Changed(s, rest, p) /\ UNCHANGED <<files, repo>>
           ELSE IF where = "db" /\ files[p] # 0
           THEN Changed(s, rest, p) /\ files' = [files EXCEPT ![p] = 0] /\ UNCHANGED repo
           ELSE IF where = "repo" /\ repo[p] # 0
           THEN Become(s, rest) /\ repo' = [repo EXCEPT ![p] = 0] /\ UNCHANGED <<files, scan, torn>>
           ELSE Stops(s)
    /\ UNCHANGED <<index, runs, groups, changes>>

Committing(s) == task[s].at = "commit" /\ task[s].removed = << >>

(* cp is interrupted, or the disk is full.                                 *)
HalfCopied(s, t, p) ==
    /\ Touch(s, t, p)
    /\ files' = [files EXCEPT ![p] = Unreadable]
    /\ torn' = torn \union task[s].touched \union {p}

(* A link leads to the file of the source, which is copied if it is there  *)
(* and if it can be.                                                       *)
Copy(s) ==
    /\ Committing(s) /\ task[s].added # << >>
    /\ LET t == task[s]
           p == Head(t.added)
           rest == [t EXCEPT !.added = Tail(@)]
       IN  \/ t.justdb /\ Changed(s, rest, p) /\ UNCHANGED <<files, repo>>
           \/ /\ ~ t.justdb /\ repo[p] # 0
              /\ Changed(s, rest, p) /\ files' = [files EXCEPT ![p] = repo[p]] /\ UNCHANGED repo
           \/ ~ t.justdb /\ Stops(s)
           \/ ~ t.justdb /\ repo[p] # 0 /\ HalfCopied(s, Away, p) /\ UNCHANGED repo
    /\ UNCHANGED <<index, runs, groups, changes>>

(* pkgdir_save: of a repository that was scanned there is no index to be   *)
(* saved.  What others touched meanwhile is lost, and it may fail.         *)
Save(s) ==
    /\ Committing(s) /\ task[s].added = << >>
    /\ Become(s, Away)
    /\ LET t == task[s]
       IN  \/ /\ t.type = "index"
              /\ index' = [at |-> "whole", pkgs |-> t.dir]
              /\ torn' = (torn \ (t.touched \ t.since)) \union t.since
                         \union (IF t.justdb THEN t.touched ELSE {})
              /\ scan' = scan
           \/ /\ t.type = "dir" /\ Doubt(s) /\ UNCHANGED <<index, scan>>
           \/ /\ t.type = "index" /\ Doubt(s)
              /\ \E at \in {index.at, "broken"} : index' = [index EXCEPT !.at = at]
              /\ UNCHANGED scan
    /\ UNCHANGED <<files, repo, runs, groups, changes>>

(* A process dies; half of a file or of the index may have been written.   *)
Die(s) ==
    /\ task[s].at \in {"open", "commit"}
    /\ LET t == task[s]
       IN  \/ Become(s, Away) /\ Doubt(s) /\ UNCHANGED <<files, index, scan>>
           \/ /\ Committing(s) /\ t.added # << >> /\ ~ t.justdb
              /\ HalfCopied(s, Away, Head(t.added))
              /\ UNCHANGED index
           \/ /\ Committing(s) /\ t.added = << >> /\ t.type = "index"
              /\ Become(s, Away) /\ Doubt(s)
              /\ index' = [index EXCEPT !.at = "broken"]
              /\ UNCHANGED <<files, scan>>
    /\ UNCHANGED <<repo, runs, groups, changes>>

-----------------------------------------------------------------------------
(* determine_stype, source_make_idx: what is read, and what is made of it. *)
SourceType(c) == IF c.original # "none" THEN c.original
                 ELSE IF c.typed /\ ~ c.named THEN c.type ELSE "dir"
TargetType(c) == IF ~ c.named /\ (c.type = "dir" \/ SourceType(c) # "pndir") THEN "pndir"
                 ELSE c.type
Refused(c) == TargetType(c) = "dir" \/ c.remote \/ SourceType(c) = TargetType(c)

(* load_pkgdir: with the previous index if it can be loaded.               *)
MkidxStarts ==
    /\ scan.at = "away" /\ runs < MaxRuns
    /\ runs' = runs + 1
    /\ \E c \in Mkidx : SourceType(c) = "dir" /\ ~ Refused(c)
    /\ scan' = [at |-> "read", prev |-> IF index.at = "whole" THEN index.pkgs ELSE [p \in Pkg |-> 0],
                found |-> [p \in Pkg |-> 0], todo |-> Pkg,
                since |-> UNION {task[s].touched : s \in Session}]
    /\ UNCHANGED <<files, repo, index, task, torn, groups, changes>>

(* load_dir: what seems untouched is taken from the previous index.        *)
Untouched(p) == scan.prev[p] # 0 /\ p \in Alike
MkidxReads ==
    /\ scan.at = "read" /\ scan.todo # {}
    /\ \E p \in scan.todo :
         scan' = [scan EXCEPT !.todo = @ \ {p},
                              !.found[p] = IF files[p] # 0 /\ files[p] # Unreadable /\ Untouched(p)
                                           THEN scan.prev[p] ELSE Readable(files)[p]]
    /\ UNCHANGED <<files, repo, index, task, torn, runs, groups, changes>>

(* create_idx, pkgdir_save_as.  Sessions at work do not know of it.        *)
MkidxWrites ==
    /\ scan.at = "read" /\ scan.todo = {}
    /\ scan' = [scan EXCEPT !.at = "away", !.since = {}]
    /\ index' = [at |-> "whole", pkgs |-> scan.found]
    /\ torn' = scan.since \union (torn \intersect Alike)
    /\ task' = [s \in Session |-> IF task[s].at = "away" THEN task[s]
                                  ELSE [task[s] EXCEPT !.since = @ \union torn]]
    /\ UNCHANGED <<files, repo, runs, groups, changes>>

MkidxDies ==
    /\ scan.at = "read"
    /\ scan' = [scan EXCEPT !.at = "away", !.since = {}]
    /\ \E at \in {index.at} \union (IF scan.todo = {} THEN {"broken"} ELSE {}) :
         index' = [index EXCEPT !.at = at]
    /\ UNCHANGED <<files, repo, task, torn, runs, groups, changes>>

-----------------------------------------------------------------------------
(* Somebody puts another file into the directory, or takes one away.       *)
OutsideChange ==
    /\ changes < MaxChanges
    /\ changes' = changes + 1
    /\ \E x \in Outside : \E p \in {x[1]}, b \in {x[2]} :
         /\ files[p] # b
         /\ files' = [files EXCEPT ![p] = b]
         /\ torn' = torn \union {p}
         /\ scan' = [scan EXCEPT !.since = @ \union {p}]
         /\ task' = [s \in Session |-> IF task[s].at = "away" THEN task[s]
                                       ELSE [task[s] EXCEPT !.since = @ \union {p}]]
    /\ UNCHANGED <<repo, index, runs, groups>>

Finished == /\ scan.at = "away" /\ \A s \in Session : task[s].at = "away"
            /\ UNCHANGED vars

Next ==
    \/ \E s \in Session :
         \/ Open(s) \/ SearchCaps(s) \/ SearchReqs(s)
         \/ Uninstall(s) \/ Install(s) \/ InstallAsserts(s) \/ GroupFails(s)
         \/ Commit(s) \/ Unlink(s) \/ Copy(s) \/ Save(s)
         \/ Die(s)
    \/ MkidxStarts \/ MkidxReads \/ MkidxWrites \/ MkidxDies
    \/ OutsideChange
    \/ Finished

Spec == Init /\ [][Next]_vars

-----------------------------------------------------------------------------
(* An index that can be read says which packages, and which builds, are in *)
(* the directory, except for the known: a commit that stopped or died,     *)
(* that only changed the index, that overlapped with another or with       *)
(* mkidx (there is no lock from loading to saving, pset.c:167-221), a      *)
(* change from outside, and what mkidx cannot tell from what it knew       *)
(* (dir.c:97-104).                                                         *)
DamageIsKnown ==
    index.at = "whole" =>
        \A p \in Pkg \ (torn \union UNION {task[s].touched : s \in Session}) :
            index.pkgs[p] = Readable(files)[p]

(* What a session has found in its indexes, made at any time and kept up   *)
(* to date since, is what is in the database it works on, unless it met    *)
(* two architectures of one name and version (pkgset.c:231-292, which      *)
(* compares names and versions only).                                      *)
Met(t) == t.ps \union Held(t.dir) \union ToSet(t.added) \union {x[2] : x \in ToSet(t.removed)}
SearchIsScan ==
    \A s \in Session :
        LET t == task[s]
            Who(n, of) == {p \in Held(t.dir) : n \in of[p]}
        IN  t.at = "open" /\ (\A p, q \in Met(t) : SameNevr(Set, p, q) => p = q) =>
                /\ t.ps = Held(t.dir)
                /\ t.caps # NotBuilt =>
                      /\ \A c \in UNION {Set.caps[p] : p \in Pkg} :
                            Lookup(t.caps, c.name) = {p \in t.ps : c.name \in Names(Set.caps[p])}
                      /\ \A f \in Path : Owners(t.paths, f) = Who(f, Set.files)
                /\ t.reqs # NotBuilt => \A n \in Name \ Skipped : Lookup(t.reqs, n) = Who(n, Requires)

(* A transaction takes files from another source, but leaves them there,   *)
(* except for a package it installs and replaces before it is committed:   *)
(* its path is that in the source (pset.c:629-646).                        *)
SourcesIntact ==
    [][\A p \in Pkg : \/ repo'[p] = repo[p]
                      \/ \E s \in Session : task[s].at = "commit" /\ p \in ToSet(task[s].added)]_vars
=============================================================================
