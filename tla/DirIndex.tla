------------------------------ MODULE DirIndex ------------------------------
(***************************************************************************)
(* The directory index of a source (pkgdir/pkgdir_dirindex.c): a file that *)
(* poldek processes keep beside the cached index of packages, from which   *)
(* they learn which package owns and which requires a directory.  It is    *)
(* made when it is missing, brought up to date from the one there is, and  *)
(* thrown away when its digest is wrong; what it holds must be what the    *)
(* loaded packages say, whichever processes wrote it, raced or died.       *)
(*                                                                         *)
(* A file of a package is the directory it is in and, if it is a directory *)
(* itself, its own path.  Key[p] is name, version, release, architecture   *)
(* and build time.                                                         *)
(***************************************************************************)
EXTENDS SequencesExt, FiniteSetsExt, Functions

CONSTANTS Proc,         \* poldek processes
          Package, Dir,
          NoDir,        \* what a plain file is
          Nobody,
          Key,          \* [Package -> keys]
          Files,        \* [Package -> SUBSET [in : Dir, itself : Dir or NoDir]]
          Sources,      \* lists of packages that may be published
          Creating,     \* may those who load make the index?
          MaxTime,      \* bound: publications
          MaxRuns,      \* bound: loads and updates
          MaxLosses     \* bound: file lists that cannot be read

ASSUME NamesAssumption == NoDir \notin Dir /\ Nobody \notin Proc
ASSUME FilesAssumption == \A p \in Package : Files[p] \subseteq [in : Dir, itself : Dir \union {NoDir}]

(* A rebuilt package has another build time; several keys of GPG may be    *)
(* installed alike, and have no files.                                     *)
ASSUME KeysAssumption == \A p, q \in Package : Key[p] = Key[q] => Files[p] = Files[q] /\ (p # q => Files[p] = {})

ASSUME SourcesAssumption == \A s \in Sources : s.pkgs \in Seq(Package) /\ s.kept \subseteq ToSet(s.pkgs)
ASSUME BoundsAssumption == MaxTime \in Nat \ {0} /\ Creating \subseteq BOOLEAN

Keys == {Key[p] : p \in Package}

VARIABLES source,       \* what is published and when
          file,         \* the index file
          lock,         \* of its directory
          task,         \* what a process does
          runs, losses
indexVars == <<source, file, lock, task, runs, losses>>

-----------------------------------------------------------------------------
(* pkgfl_owned_and_required_dirs.                                          *)
Owned(p) == {f.itself : f \in Files[p]} \ {NoDir}
Required(p) == {f.in : f \in Files[p]} \ Owned(p)

(* What an index holds: the key of each number, the directories of each    *)
(* key, the numbers of each directory, and, which only history knows,      *)
(* whose file list could not be read.                                      *)
Nothing == [no |-> << >>, required |-> [k \in Keys |-> {}], owned |-> [k \in Keys |-> {}],
            at |-> [d \in Dir |-> {}], unread |-> {}]

KeysOf(index) == ToSet(index.no)

(* A bug: the requirements of a package the previous index has are lost.   *)
StoredOwned(prev, lost, p) ==
    CASE Key[p] \in KeysOf(prev) -> [required |-> {}, owned |-> prev.owned[Key[p]]]
      [] Key[p] \notin KeysOf(prev) /\ Key[p] \in lost -> [required |-> {}, owned |-> {}]
      [] OTHER -> [required |-> Required(p), owned |-> Owned(p)]

(* store_package, store_from_previous: the previous index is believed      *)
(* about the packages it has; the others' file lists are read.             *)
Stored(prev, lost, p) ==
    CASE Key[p] \in KeysOf(prev) -> [required |-> prev.required[Key[p]], owned |-> prev.owned[Key[p]]]
      [] Key[p] \notin KeysOf(prev) /\ Key[p] \in lost -> [required |-> {}, owned |-> {}]
      [] OTHER -> [required |-> Required(p), owned |-> Owned(p)]

Made(pkgs, prev, lost) ==
    LET stored == [i \in DOMAIN pkgs |-> Stored(prev, lost, pkgs[i])]
        those(k) == {i \in DOMAIN pkgs : Key[pkgs[i]] = k}
    IN  [no |-> [i \in DOMAIN pkgs |-> Key[pkgs[i]]],
         required |-> [k \in Keys |-> UNION {stored[i].required : i \in those(k)}],
         owned |-> [k \in Keys |-> UNION {stored[i].owned : i \in those(k)}],
         at |-> [d \in Dir |-> {i \in DOMAIN pkgs : d \in stored[i].owned}],
         unread |-> (lost \union prev.unread) \intersect {Key[pkgs[i]] : i \in DOMAIN pkgs}]

(* load_keymap, of equal keys the last; load_dirindex, of packages with    *)
(* one key any.                                                            *)
NumberOf(index, k) == Max({i \in DOMAIN index.no : index.no[i] = k})
IdMap(index, pkgs) ==
    [i \in {NumberOf(index, Key[p]) : p \in pkgs} |-> CHOOSE p \in pkgs : NumberOf(index, Key[p]) = i]
Missing(index, pkgs) == {p \in pkgs : Key[p] \notin KeysOf(index)}

-----------------------------------------------------------------------------
Absent == [at |-> "absent", by |-> Nobody, mtime |-> 0, index |-> Nothing]
Away == [at |-> "away", then |-> "none", update |-> FALSE, create |-> FALSE, found |-> FALSE,
         pkgs |-> << >>, kept |-> {}, index |-> Nothing, idmap |-> << >>, opened |-> FALSE, since |-> 0,
         reqs |-> [p \in Package |-> {}], alone |-> TRUE]

IndexTypeOK ==
    /\ source.at \in 1..MaxTime /\ source.kept \subseteq Package
    /\ file.at \in {"absent", "partial", "whole"} /\ file.by \in Proc \union {Nobody}
    /\ file.by # Nobody => file.at = "partial" /\ lock = file.by
    /\ lock \in Proc \union {Nobody}
    /\ \A p \in Proc :
         /\ task[p].at \in {"away", "opening", "loading", "waiting", "writing", "open"}
         /\ task[p].then \in {"none", "update", "reload", "again"}
         /\ task[p].at = "writing" <=> lock = p
         /\ task[p].kept \subseteq ToSet(task[p].pkgs)
         /\ Range(task[p].idmap) \subseteq task[p].kept

IndexInit ==
    /\ \E s \in Sources : source = [at |-> 1, pkgs |-> s.pkgs, kept |-> s.kept]
    /\ file = Absent /\ lock = Nobody /\ task = [p \in Proc |-> Away]
    /\ runs = 0 /\ losses = 0

(* A new list of packages is published; the source has the time of it.     *)
Publish ==
    /\ source.at < MaxTime
    /\ \E s \in Sources : source' = [at |-> source.at + 1, pkgs |-> s.pkgs, kept |-> s.kept]
    /\ UNCHANGED <<file, lock, task, runs, losses>>

-----------------------------------------------------------------------------
Become(p, t) == task' = [task EXCEPT ![p] = t]
Others(p) == {o \in Proc \ {p} : task[o].at \notin {"away", "open"}}

(* A process that begins while others are at work is not alone, and they   *)
(* no longer are.                                                          *)
BeginTask(p, t) ==
    task' = [o \in Proc |->
                IF o = p THEN [t EXCEPT !.alone = Others(p) = {}]
                ELSE [task[o] EXCEPT !.alone = @ /\ o \notin Others(p)]]
LoadedTask == [Away EXCEPT !.pkgs = source.pkgs, !.kept = source.kept]

(* pkgdir_load, do_open_dirindex: an empty source has no index.            *)
Load(p) ==
    /\ task[p].at = "away" /\ runs < MaxRuns /\ runs' = runs + 1
    /\ \E create \in Creating :
         BeginTask(p, [LoadedTask EXCEPT !.at = IF source.kept = {} THEN "open" ELSE "opening",
                                     !.create = create])
    /\ UNCHANGED <<source, file, lock, losses>>

(* pkgdir__dirindex_update, after the source was updated: not when the     *)
(* index is as late as the source is.                                      *)
Update(p) ==
    /\ task[p].at = "away" /\ runs < MaxRuns /\ runs' = runs + 1
    /\ file.mtime < source.at /\ source.kept # {}
    /\ BeginTask(p, [LoadedTask EXCEPT !.at = "opening", !.update = TRUE, !.create = TRUE,
                                     !.since = source.at])
    /\ UNCHANGED <<source, file, lock, losses>>

(* open_dirindex: is there a file?                                         *)
OpenDirIndex(p) ==
    /\ task[p].at = "opening"
    /\ LET t == [task[p] EXCEPT !.found = file.at # "absent"]
       IN  \/ file.at # "absent" /\ Become(p, [t EXCEPT !.at = "loading", !.then = "update"])
           \/ file.at = "absent" /\ t.create /\ Become(p, [t EXCEPT !.at = "waiting", !.then = "update"])
           \/ file.at = "absent" /\ ~t.create /\ Become(p, [t EXCEPT !.at = "open"])
    /\ UNCHANGED <<source, file, lock, runs, losses>>

-----------------------------------------------------------------------------
(* A bug: what was found broken is not made anew.                          *)
GaveUpAtOnce(t) == [t EXCEPT !.at = IF t.update THEN "away" ELSE "open", !.index = Nothing]

(* open_dirindex, when load_dirindex returned nothing: a file that was     *)
(* found is made anew, once.                                               *)
GaveUp(t) ==
    IF t.then # "again" /\ t.found /\ t.create
    THEN [t EXCEPT !.at = "waiting", !.then = "again", !.index = Nothing]
    ELSE [t EXCEPT !.at = IF t.update THEN "away" ELSE "open", !.index = Nothing]

(* load_dirindex, update_pkgdir_packages.                                  *)
OpenedTask(t) ==
    [t EXCEPT !.at = "open", !.opened = TRUE, !.index = file.index,
              !.idmap = IdMap(file.index, t.kept),
              !.reqs = [p \in Package |-> IF p \in t.kept THEN file.index.required[Key[p]] ELSE {}]]

Settle(p, t) == Become(p, IF t.at = "away" THEN Away ELSE t)

(* open_index_database, load_dirindex: a file that is missing or broken    *)
(* is unlinked, whoever is writing it; so is one that lacks a package when *)
(* it was made for this.                                                   *)
BrokenFound(p) ==
    /\ task[p].at = "loading" /\ file.at # "whole"
    /\ file' = Absent
    /\ Settle(p, GaveUp(task[p]))
    /\ UNCHANGED <<source, lock, runs, losses>>

StillOutdated(p) ==
    /\ task[p].at = "loading" /\ file.at = "whole"
    /\ Missing(file.index, task[p].kept) # {} /\ task[p].then # "update"
    /\ file' = Absent
    /\ Settle(p, GaveUp(task[p]))
    /\ UNCHANGED <<source, lock, runs, losses>>

Outdated(p) ==
    /\ task[p].at = "loading" /\ file.at = "whole"
    /\ Missing(file.index, task[p].kept) # {} /\ task[p].then = "update"
    /\ Become(p, [task[p] EXCEPT !.at = "waiting", !.then = "reload", !.index = file.index])
    /\ UNCHANGED <<source, file, lock, runs, losses>>

(* pkgdir__dirindex_update closes what it opened and gives the file the    *)
(* time the source had when the update began.                              *)
UpToDate(p) ==
    /\ task[p].at = "loading" /\ file.at = "whole"
    /\ Missing(file.index, task[p].kept) = {}
    /\ IF task[p].update
       THEN Become(p, Away) /\ file' = [file EXCEPT !.mtime = task[p].since]
       ELSE Become(p, OpenedTask(task[p])) /\ UNCHANGED file
    /\ UNCHANGED <<source, lock, runs, losses>>

-----------------------------------------------------------------------------
(* dirindex_create, vf_lock_mkdir.                                         *)
CreateBegins(p) ==
    /\ task[p].at = "waiting" /\ lock = Nobody
    /\ lock' = p
    /\ file' = [at |-> "partial", by |-> p, mtime |-> source.at, index |-> Nothing]
    /\ Become(p, [task[p] EXCEPT !.at = "writing"])
    /\ UNCHANGED <<source, runs, losses>>

(* Interrupted while it waits for the lock, or the file cannot be made.    *)
CreateFails(p) ==
    /\ task[p].at = "waiting"
    /\ LET t == [task[p] EXCEPT !.alone = FALSE]
       IN  IF t.then = "update" THEN Become(p, [t EXCEPT !.at = "loading"]) ELSE Settle(p, GaveUp(t))
    /\ UNCHANGED <<source, file, lock, runs, losses>>

(* A bug: the lock is kept.                                                *)
KeepLock(p) == lock' = p

(* vf_lock_release.                                                        *)
ReleaseLock(p) == lock' = IF lock = p THEN Nobody ELSE lock

(* What is written reaches the path only if it was not unlinked meanwhile. *)
CreateEnds(p) ==
    /\ task[p].at = "writing"
    /\ \E lost \in SUBSET ({Key[q] : q \in ToSet(task[p].pkgs)} \ KeysOf(task[p].index)) :
         /\ losses + Cardinality(lost) <= MaxLosses /\ losses' = losses + Cardinality(lost)
         /\ file' = IF file.by = p
                    THEN [at |-> "whole", by |-> Nobody, mtime |-> source.at,
                          index |-> Made(task[p].pkgs, task[p].index, lost)]
                    ELSE file
    /\ ReleaseLock(p)
    /\ Become(p, [task[p] EXCEPT !.at = "loading", !.index = Nothing])
    /\ UNCHANGED <<source, runs>>

-----------------------------------------------------------------------------
(* pkgdir_free.                                                            *)
Close(p) ==
    /\ task[p].at = "open" /\ Become(p, Away)
    /\ UNCHANGED <<source, file, lock, runs, losses>>

(* A process dies; the file it was writing stays.                          *)
DieAtWork(p) ==
    /\ task[p].at \notin {"away", "open"} /\ Become(p, Away)
    /\ lock' = IF lock = p THEN Nobody ELSE lock
    /\ file' = IF file.by = p THEN [file EXCEPT !.by = Nobody] ELSE file
    /\ UNCHANGED <<source, runs, losses>>

(* source_clean, which takes the lock: the cached files are removed.       *)
Clean ==
    /\ lock = Nobody /\ file.at # "absent"
    /\ file' = Absent
    /\ task' = [o \in Proc |-> [task[o] EXCEPT !.alone = @ /\ task[o].at \in {"away", "open"}]]
    /\ UNCHANGED <<source, lock, runs, losses>>

Finished == runs = MaxRuns /\ (\A p \in Proc : task[p].at = "away") /\ UNCHANGED indexVars

IndexStep(p) ==
    \/ OpenDirIndex(p) \/ BrokenFound(p) \/ StillOutdated(p) \/ Outdated(p) \/ UpToDate(p)
    \/ CreateBegins(p) \/ CreateEnds(p)
IndexNext ==
    \/ \E p \in Proc : Load(p) \/ Update(p) \/ IndexStep(p) \/ CreateFails(p) \/ Close(p) \/ DieAtWork(p)
    \/ Publish \/ Clean \/ Finished

(* A process that is running goes on; nobody is bound to start, to die or  *)
(* to be interrupted.                                                      *)
IndexSpec == IndexInit /\ [][IndexNext]_indexVars /\ \A p \in Proc : WF_indexVars(IndexStep(p))

-----------------------------------------------------------------------------
(* pkgdir_dirindex_get, and pkgdir_dirindex_pkg_has_path, whose result is  *)
(* not initialised (pkgdir_dirindex.c:996): when only others own the       *)
(* directory it is whatever the compiler makes of it.                      *)
Get(t, d) == {t.idmap[i] : i \in t.index.at[d] \intersect DOMAIN t.idmap}
HasPath(t, q, d) ==
    CASE t.index.at[d] = {} -> {FALSE}
      [] q \in Get(t, d) -> {TRUE}
      [] OTHER -> BOOLEAN

(* The doubtful are those whose file list could not be read when they were *)
(* first stored (pkgdir_dirindex.c:215): no later index reads them again.  *)
Doubtful(t) == {q \in t.kept : Key[q] \in t.index.unread}

(* Whoever asks an open index for a directory gets the loaded packages     *)
(* that own it and no others; whoever asks if it belongs to a package is   *)
(* told so if it does; and every loaded package requires the directories   *)
(* it has files in and does not own, but for the doubtful: whichever       *)
(* processes made the file, from whichever earlier one, and whatever was   *)
(* published meanwhile.                                                    *)
AnswersAreRight ==
    \A p \in Proc : LET t == task[p] IN t.opened =>
        /\ \A d \in Dir : LET owners == {q \in t.kept : d \in Owned(q)}
                          IN  /\ Get(t, d) \subseteq owners /\ owners \ Doubtful(t) \subseteq Get(t, d)
                              /\ \A q \in owners \ Doubtful(t) : HasPath(t, q, d) = {TRUE}
        /\ \A q \in t.kept : t.reqs[q] = Required(q) \/ (q \in Doubtful(t) /\ t.reqs[q] = {})

(* A load that may make the index ends with one unless another process     *)
(* was at it or it was interrupted: what a dead process left is recognised *)
(* and replaced (pkgdir_dirindex.c:799).                                   *)
OpensFindIndex ==
    \A p \in Proc : LET t == task[p] IN
        t.at = "open" /\ t.create /\ t.alone /\ t.kept # {} => t.opened

(* Loading and updating come to an end, also when they wait for each       *)
(* other's lock and unlink each other's files.                             *)
OpensEnd == \A p \in Proc : []<>(task[p].at \in {"away", "open"})
=============================================================================
