------------------------------ MODULE DirLock ------------------------------
(***************************************************************************)
(* The directory locks of vflock.c, taken by processes that fetch files    *)
(* into a directory of the cache (vf_fetch), creating it, and by processes *)
(* that empty the cache (do_cachedir_clean).                               *)
(*                                                                         *)
(* A lock is an fcntl lock on a file in the directory it protects.  Such a *)
(* lock belongs to the process and to the file, not to the name: closing   *)
(* any descriptor of the file drops it, and vf_lock_release removes the    *)
(* name after it has closed the descriptor.  A file (an inode) is reused   *)
(* as soon as no name and no descriptor refers to it.                      *)
(***************************************************************************)
EXTENDS Naturals

CONSTANTS Proc,         \* processes
          File,         \* inodes for lock files
          MaxCalls,     \* calls that processes make
          MaxCrashes,   \* processes that die in a call
          NoFile, NoProc

ASSUME NoneAssumption == NoFile \notin File /\ NoProc \notin Proc
ASSUME BoundsAssumption == MaxCalls \in Nat /\ MaxCrashes \in Nat

Dir == {"cache", "repo"}        \* repo is a subdirectory of cache

VARIABLES exists,       \* the directory repo is there
          data,         \*   ... with a file that was fetched
          entry,        \* the lock file in each directory
          owner,        \* who has the fcntl lock on a file
          task,         \* what a process is doing, "none" between two calls
          at,           \* how far it is
          want,         \* the directory vf_lockdir is locking
          file,         \* the file it has opened there
          held,         \* the struct vflock of the active calls
          left,         \* files that a process keeps open with no struct vflock
          redirected,   \* vf_fetch has called itself
          calls, crashes

vars == <<exists, data, entry, owner, task, at, want, file, held, left, redirected, calls,
          crashes>>
disk == <<exists, data, entry>>
counters == <<calls, crashes>>

Task == {"none", "fetch", "clean"}
At == {"idle", "stat", "open", "fcntl", "wait", "mkdir", "list", "work", "close", "unlink",
       "rmdir"}

(* The locks a process may have: on cache, on repo, and on repo once more  *)
(* in a redirected fetch.                                                  *)
Slot == {"parent", "outer", "inner"}
DirOf(s) == IF s = "parent" THEN "cache" ELSE "repo"

TypeOK ==
    /\ exists \in BOOLEAN /\ data \in BOOLEAN
    /\ entry \in [Dir -> File \union {NoFile}]
    /\ owner \in [File -> Proc \union {NoProc}]
    /\ task \in [Proc -> Task] /\ at \in [Proc -> At] /\ want \in [Proc -> Dir]
    /\ file \in [Proc -> File \union {NoFile}]
    /\ held \in [Proc -> [Slot -> File \union {NoFile}]]
    /\ left \in [Proc -> SUBSET File] /\ redirected \in [Proc -> BOOLEAN]
    /\ calls \in 0..MaxCalls /\ crashes \in 0..MaxCrashes

-----------------------------------------------------------------------------
Holds(p, s) == held[p][s] # NoFile
Nothing == [s \in Slot |-> NoFile]

RepoSlot(p) == IF redirected[p] THEN "inner" ELSE "outer"

(* What vf_lockdir is going to return.                                     *)
LockSlot(p) == IF want[p] = "cache" THEN "parent" ELSE RepoSlot(p)

(* The next lock to release: vf_lock_mkdir gives the parent back while it  *)
(* keeps the new directory, do_cachedir_clean leaves the directory first.  *)
Releasing(p) == IF task[p] = "fetch" /\ Holds(p, "parent") THEN "parent"
                ELSE IF Holds(p, "inner") THEN "inner"
                ELSE IF Holds(p, "outer") THEN "outer" ELSE "parent"

(* No name and no descriptor refers to f.                                  *)
Free(f) == /\ \A d \in Dir : entry[d] # f
           /\ \A p \in Proc : file[p] # f /\ f \notin left[p] /\ \A s \in Slot : held[p][s] # f

Go(p, where) == at' = [at EXCEPT ![p] = where]
Drop(f, p) == owner' = [owner EXCEPT ![f] = IF @ = p THEN NoProc ELSE @]

Init ==
    /\ exists \in BOOLEAN /\ data = FALSE
    /\ entry = [d \in Dir |-> NoFile]
    /\ owner = [f \in File |-> NoProc]
    /\ task = [p \in Proc |-> "none"] /\ at = [p \in Proc |-> "idle"]
    /\ want = [p \in Proc |-> "cache"] /\ file = [p \in Proc |-> NoFile]
    /\ held = [p \in Proc |-> Nothing] /\ left = [p \in Proc |-> {}]
    /\ redirected = [p \in Proc |-> FALSE]
    /\ calls = 0 /\ crashes = 0

Begin(p, t, where) ==
    /\ task[p] = "none" /\ calls < MaxCalls
    /\ task' = [task EXCEPT ![p] = t]
    /\ calls' = calls + 1
    /\ redirected' = [redirected EXCEPT ![p] = FALSE]
    /\ Go(p, where)

(* vf_fetch(url, repo), vf_lock_mkdir(repo).                               *)
Fetch(p) ==
    /\ Begin(p, "fetch", "stat")
    /\ UNCHANGED <<disk, owner, want, file, held, left, crashes>>

(* do_cachedir_clean(cache).                                               *)
Clean(p) ==
    /\ Begin(p, "clean", "open")
    /\ want' = [want EXCEPT ![p] = "cache"]
    /\ UNCHANGED <<disk, owner, file, held, left, crashes>>

(* vf_lock_mkdir: a directory that is there is locked, one that is not is  *)
(* created under the lock of its parent.                                   *)
Stat(p) ==
    /\ at[p] = "stat"
    /\ want' = [want EXCEPT ![p] = IF exists THEN "repo" ELSE "cache"]
    /\ Go(p, "open")
    /\ UNCHANGED <<disk, owner, task, file, held, left, redirected, counters>>

(* The turns of the loop in vf_lock_obtain.  open(O_CREAT):                *)
OpenFile(p) ==
    /\ at[p] = "open" /\ (want[p] = "repo" => exists)
    /\ \E f \in File :
        /\ IF entry[want[p]] = NoFile THEN Free(f) ELSE f = entry[want[p]]
        /\ entry' = [entry EXCEPT ![want[p]] = f]
        /\ file' = [file EXCEPT ![p] = f]
    /\ Go(p, "fcntl")
    /\ UNCHANGED <<exists, data, owner, task, want, held, left, redirected, counters>>

(* Where the caller of vf_lockdir goes on.                                 *)
Locked(p) == IF task[p] = "clean" THEN (IF want[p] = "cache" THEN "list" ELSE "work")
             ELSE IF want[p] = "cache" THEN "mkdir"
             ELSE IF Holds(p, "parent") THEN "close" ELSE "work"

(* A bug: the result is not looked at. *)
SetLockAnyway(p) ==
    /\ at[p] = "fcntl"
    /\ owner' = [owner EXCEPT ![file[p]] = IF @ = NoProc THEN p ELSE @]
    /\ held' = [held EXCEPT ![p][LockSlot(p)] = file[p]]
    /\ file' = [file EXCEPT ![p] = NoFile]
    /\ Go(p, Locked(p))
    /\ UNCHANGED <<disk, task, want, left, redirected, counters>>

(* fcntl(F_SETLK) succeeds also on a file the process has locked before.   *)
SetLock(p) ==
    /\ at[p] = "fcntl" /\ owner[file[p]] \in {NoProc, p}
    /\ owner' = [owner EXCEPT ![file[p]] = p]
    /\ held' = [held EXCEPT ![p][LockSlot(p)] = file[p]]
    /\ file' = [file EXCEPT ![p] = NoFile]
    /\ Go(p, Locked(p))
    /\ UNCHANGED <<disk, task, want, left, redirected, counters>>

LockBusy(p) ==
    /\ at[p] = "fcntl" /\ owner[file[p]] \notin {NoProc, p}
    /\ file' = [file EXCEPT ![p] = NoFile]
    /\ Go(p, "wait")
    /\ UNCHANGED <<disk, owner, task, want, held, left, redirected, counters>>

(* The sleep is over.                                                      *)
Wake(p) ==
    /\ at[p] = "wait"
    /\ Go(p, "open")
    /\ UNCHANGED <<disk, owner, task, want, file, held, left, redirected, counters>>

(* A bug: what failed is tried again.                                      *)
FailRetries(p) ==
    /\ file' = [file EXCEPT ![p] = NoFile]
    /\ Go(p, "wait")
    /\ UNCHANGED <<disk, task, want, held, left, redirected, counters>>

(* vf_lockdir failed: the caller gives back what it has locked before.     *)
Fail(p) ==
    /\ file' = [file EXCEPT ![p] = NoFile]
    /\ IF held[p] = Nothing
       THEN Go(p, "idle") /\ task' = [task EXCEPT ![p] = "none"]
       ELSE Go(p, "close") /\ UNCHANGED task
    /\ UNCHANGED <<disk, want, held, left, redirected, counters>>

(* There is no such directory any more, another error, or ^C.              *)
OpenFails(p) == at[p] = "open" /\ Fail(p) /\ UNCHANGED owner

(* ENOLCK.  The close() that follows drops an older lock on the file, too. *)
LockFails(p) == at[p] = "fcntl" /\ Fail(p) /\ Drop(file[p], p)

(* A bug: the parent stays locked when mkdir() fails.                      *)
MkdirReturns(p) ==
    /\ at[p] = "mkdir"
    /\ exists' = TRUE
    /\ IF exists
       THEN Go(p, "idle") /\ task' = [task EXCEPT ![p] = "none"] /\ UNCHANGED want
       ELSE Go(p, "open") /\ want' = [want EXCEPT ![p] = "repo"] /\ UNCHANGED task
    /\ UNCHANGED <<data, entry, owner, file, held, left, redirected, counters>>

(* mkdir() fails when somebody else has made the directory meanwhile.      *)
Mkdir(p) ==
    /\ at[p] = "mkdir"
    /\ exists' = TRUE
    /\ IF exists THEN Go(p, "close") /\ UNCHANGED want
       ELSE Go(p, "open") /\ want' = [want EXCEPT ![p] = "repo"]
    /\ UNCHANGED <<data, entry, owner, task, file, held, left, redirected, counters>>

(* do_cachedir_clean on the entries of cache: repo is locked in turn.      *)
List(p) ==
    /\ at[p] = "list"
    /\ IF exists THEN Go(p, "open") /\ want' = [want EXCEPT ![p] = "repo"]
       ELSE Go(p, "close") /\ UNCHANGED want
    /\ UNCHANGED <<disk, owner, task, file, held, left, redirected, counters>>

(* opendir() fails: do_cachedir_clean returns without vf_lock_release      *)
(* (vfile.c:88-91), and whoever called it for repo does not mind.  The     *)
(* file stays open and locked, and its name in the directory.              *)
OpendirFails(p) ==
    /\ task[p] = "clean" /\ at[p] \in {"list", "work"}
    /\ LET s == IF at[p] = "list" THEN "parent" ELSE "outer"
       IN  /\ left' = [left EXCEPT ![p] = @ \union {held[p][s]}]
           /\ held' = [held EXCEPT ![p][s] = NoFile]
    /\ IF at[p] = "list"
       THEN Go(p, "idle") /\ task' = [task EXCEPT ![p] = "none"]
       ELSE Go(p, "close") /\ UNCHANGED task
    /\ UNCHANGED <<disk, owner, want, file, redirected, counters>>

(* The file is fetched, or the files of repo but its lock are removed.     *)
Work(p) ==
    /\ at[p] = "work"
    /\ data' = IF task[p] = "fetch" THEN exists ELSE FALSE
    /\ Go(p, "close")
    /\ UNCHANGED <<exists, entry, owner, task, want, file, held, left, redirected, counters>>

(* The server redirects: vf_fetch calls itself, repo is locked twice.  The *)
(* code follows any number of redirects in turn; the bound here is one.    *)
Redirect(p) ==
    /\ at[p] = "work" /\ task[p] = "fetch" /\ ~ redirected[p]
    /\ redirected' = [redirected EXCEPT ![p] = TRUE]
    /\ Go(p, "stat")
    /\ UNCHANGED <<disk, owner, task, want, file, held, left, counters>>

(* vf_lock_release: close(), with which all locks of the process on the    *)
(* file are gone ...                                                       *)
Close(p) ==
    /\ at[p] = "close"
    /\ Drop(held[p][Releasing(p)], p)
    /\ Go(p, "unlink")
    /\ UNCHANGED <<disk, task, want, file, held, left, redirected, counters>>

(* Where the caller of vf_lock_release goes on: with the new directory it  *)
(* has locked, with the lock of the fetch that was redirected, ...         *)
Released(p) ==
    LET s == Releasing(p)
    IN  IF task[p] = "clean" THEN (IF s = "outer" THEN "rmdir" ELSE "idle")
        ELSE IF s = "parent" /\ Holds(p, RepoSlot(p)) THEN "work"
        ELSE IF s # "outer" /\ Holds(p, "outer") THEN "close" ELSE "idle"

(* ... then the name, whatever file it stands for by now.                  *)
Unlink(p) ==
    /\ at[p] = "unlink"
    /\ entry' = [entry EXCEPT ![DirOf(Releasing(p))] = NoFile]
    /\ held' = [held EXCEPT ![p][Releasing(p)] = NoFile]
    /\ Go(p, Released(p))
    /\ task' = [task EXCEPT ![p] = IF Released(p) = "idle" THEN "none" ELSE @]
    /\ UNCHANGED <<exists, data, owner, want, file, left, redirected, counters>>

(* rmdir() of a directory that is not empty does nothing.                  *)
Rmdir(p) ==
    /\ at[p] = "rmdir"
    /\ exists' = (exists /\ (data \/ entry["repo"] # NoFile))
    /\ Go(p, "close")
    /\ UNCHANGED <<data, entry, owner, task, want, file, held, left, redirected, counters>>

(* The process ends.  The kernel closes its files, the names stay.         *)
Ends(p) ==
    /\ owner' = [f \in File |-> IF owner[f] = p THEN NoProc ELSE owner[f]]
    /\ left' = [left EXCEPT ![p] = {}]

(* It dies in a call ...                                                   *)
Crash(p) ==
    /\ task[p] # "none" /\ crashes < MaxCrashes
    /\ crashes' = crashes + 1
    /\ Ends(p)
    /\ held' = [held EXCEPT ![p] = Nothing]
    /\ file' = [file EXCEPT ![p] = NoFile]
    /\ task' = [task EXCEPT ![p] = "none"]
    /\ Go(p, "idle")
    /\ UNCHANGED <<disk, want, redirected, calls>>

(* ... or is done, one day: a shell lives as long as its user wants.       *)
Exit(p) ==
    /\ task[p] = "none" /\ left[p] # {}
    /\ Ends(p)
    /\ UNCHANGED <<disk, task, at, want, file, held, redirected, counters>>

Advance(p) ==
    \/ Stat(p) \/ OpenFile(p) \/ SetLock(p) \/ LockBusy(p) \/ Wake(p)
    \/ OpenFails(p) \/ LockFails(p)
    \/ Mkdir(p) \/ List(p) \/ OpendirFails(p) \/ Work(p) \/ Redirect(p)
    \/ Close(p) \/ Unlink(p) \/ Rmdir(p)

Done == /\ calls = MaxCalls /\ \A p \in Proc : task[p] = "none"
        /\ UNCHANGED vars

Next == \/ \E p \in Proc : Fetch(p) \/ Clean(p) \/ Advance(p) \/ Crash(p) \/ Exit(p)
        \/ Done

(* A process that is in a call goes on: no step of a call but the sleep    *)
(* waits, and that ends.                                                   *)
Spec == Init /\ [][Next]_vars /\ \A p \in Proc : WF_vars(Advance(p))

-----------------------------------------------------------------------------
(* "dirctory locking" (vfile.h), as far as it goes: two may work in repo   *)
(* at one time, but a process works under a file that nobody else has      *)
(* locked, so of the two one has lost its name: a process that released    *)
(* the lock took it away (vf_lock_release).                                *)
WorksAlone ==
    \A p, q \in Proc : at[p] = "work" /\ at[q] = "work" /\ p # q =>
        \E w \in {p, q} : held[w][RepoSlot(w)] # entry["repo"]

(* Whatever else fails on the way through vf_lock_mkdir, vf_fetch and      *)
(* do_cachedir_clean, and if the process dies: a file stays locked only by *)
(* a call that is going to release it, or after a failed opendir().        *)
OnlyOpendirLeaks ==
    \A f \in File : owner[f] # NoProc =>
        \/ task[owner[f]] # "none" /\ \E s \in Slot : held[owner[f]][s] = f
        \/ f \in left[owner[f]]

(* A process other than p has left the directory d locked, and no call of  *)
(* its is going to unlock it.                                              *)
LeftLocked(d, p) ==
    \E q \in Proc \ {p} : /\ entry[d] \in left[q] /\ owner[entry[d]] = q
                          /\ \A s \in Slot : held[q][s] # entry[d]

(* p waits for such a directory, or for the parent of one, which is locked *)
(* by a process that waits for it.                                         *)
Waiting(p, d) == at[p] \in {"open", "fcntl", "wait"} /\ want[p] = d
Stuck(p) ==
    \/ \E d \in Dir : Waiting(p, d) /\ LeftLocked(d, p)
    \/ /\ Waiting(p, "cache")
       /\ \E q \in Proc : Holds(q, "parent") /\ Waiting(q, "repo") /\ LeftLocked("repo", q)

(* The directories are locked parent first and the file of a process that  *)
(* died blocks nobody: each call of vf_lock_obtain and its callers ends,   *)
(* unless it waits for a lock that a living process has left.              *)
CallsEnd == \A p \in Proc : task[p] # "none" ~> task[p] = "none" \/ Stuck(p)
=============================================================================
