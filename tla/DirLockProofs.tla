--------------------------- MODULE DirLockProofs ---------------------------
(***************************************************************************)
(* What the directory locks guarantee for any number of processes, lock    *)
(* files, calls and deaths.                                                *)
(***************************************************************************)
EXTENDS DirLock, TLAPS

(* How far a call is, against the locks it has.  redirected says that the  *)
(* outer lock is there.                                                    *)
Shape(p) ==
    LET parent == Holds(p, "parent")  outer == Holds(p, "outer")  inner == Holds(p, "inner")
    IN  \/ task[p] = "none" /\ at[p] = "idle" /\ held[p] = Nothing
        \/ /\ task[p] = "fetch"
           /\ \/ at[p] = "stat" /\ ~ parent /\ ~ inner /\ outer = redirected[p]
              \/ /\ at[p] \in {"open", "fcntl", "wait"}
                 /\ ~ inner /\ outer = redirected[p] /\ (want[p] = "cache" => ~ parent)
              \/ at[p] = "mkdir" /\ parent /\ ~ inner /\ outer = redirected[p]
              \/ at[p] = "work" /\ ~ parent /\ outer /\ inner = redirected[p]
              \/ /\ at[p] \in {"close", "unlink"}
                 /\ parent \/ outer
                 /\ inner => redirected[p] /\ outer
                 /\ redirected[p] => outer
        \/ /\ task[p] = "clean" /\ ~ redirected[p] /\ ~ inner
           /\ \/ /\ at[p] \in {"open", "fcntl", "wait"}
                 /\ ~ outer /\ parent = (want[p] = "repo")
              \/ at[p] \in {"list", "rmdir"} /\ parent /\ ~ outer
              \/ at[p] = "work" /\ parent /\ outer
              \/ at[p] \in {"close", "unlink"} /\ parent

(* It has opened a file only to lock it.                                   *)
FileInv == \A p \in Proc : at[p] = "fcntl" <=> file[p] # NoFile

ShapeInv == \A p \in Proc : Shape(p)

(* f is a lock file of the directory d.                                    *)
UsedIn(f, d) == \/ entry[d] = f
                \/ \E p \in Proc : \/ file[p] = f /\ want[p] = d
                                   \/ \E s \in Slot : held[p][s] = f /\ DirOf(s) = d

OneDir == \A f \in File : ~ (UsedIn(f, "cache") /\ UsedIn(f, "repo"))

(* The lock that a working process relies on is its own, from the time     *)
(* vf_lock_mkdir gives the parent back.                                    *)
Owns(p) ==
    /\ at[p] = "work" => owner[held[p][RepoSlot(p)]] = p
    /\ at[p] \in {"close", "unlink"} /\ Releasing(p) = "parent" /\ Holds(p, RepoSlot(p))
           => owner[held[p][RepoSlot(p)]] = p
    /\ at[p] = "unlink" => owner[held[p][Releasing(p)]] # p

OwnInv == \A p \in Proc : Owns(p)

Inv == TypeOK /\ ShapeInv /\ FileInv /\ OneDir /\ OwnInv /\ OnlyOpendirLeaks

-----------------------------------------------------------------------------
(* The types hold before any call.                                         *)
LEMMA TypeInit == Init => TypeOK
<1> SUFFICES ASSUME Init PROVE TypeOK
  OBVIOUS
<1> USE BoundsAssumption DEF Init
<1>1. exists \in BOOLEAN /\ data \in BOOLEAN /\ entry \in [Dir -> File \union {NoFile}]
  OBVIOUS
<1>2. owner \in [File -> Proc \union {NoProc}]
  OBVIOUS
<1>3. task \in [Proc -> Task] /\ at \in [Proc -> At] /\ want \in [Proc -> Dir]
  BY DEF Task, At, Dir
<1>4. /\ file \in [Proc -> File \union {NoFile}]
      /\ held \in [Proc -> [Slot -> File \union {NoFile}]]
      /\ left \in [Proc -> SUBSET File] /\ redirected \in [Proc -> BOOLEAN]
  BY DEF Nothing
<1>5. calls \in 0..MaxCalls /\ crashes \in 0..MaxCrashes
  OBVIOUS
<1> QED
  BY <1>1, <1>2, <1>3, <1>4, <1>5 DEF TypeOK

(* Every step keeps the types: do_cachedir_clean has locked the directory  *)
(* that it cannot open.                                                    *)
LEMMA TypeStep == TypeOK /\ ShapeInv /\ [Next]_vars => TypeOK'
<1> SUFFICES ASSUME TypeOK, ShapeInv, [Next]_vars PROVE TypeOK'
  OBVIOUS
<1> USE BoundsAssumption DEF TypeOK, disk, counters, Go, Drop
<1>1. ASSUME NEW p \in Proc, Fetch(p) \/ Clean(p)
      PROVE  TypeOK'
  <2>1. /\ calls + 1 \in 0..MaxCalls /\ calls' = calls + 1
        /\ redirected' = [redirected EXCEPT ![p] = FALSE]
    BY <1>1 DEF Fetch, Clean, Begin
  <2>2. calls' \in 0..MaxCalls /\ redirected' \in [Proc -> BOOLEAN]
    BY <2>1
  <2>3. task' \in [Proc -> Task] /\ at' \in [Proc -> At] /\ want' \in [Proc -> Dir]
    BY <1>1 DEF Fetch, Clean, Begin, Dir, Task, At
  <2>4. UNCHANGED <<exists, data, entry, owner, file, held, left, crashes>>
    BY <1>1 DEF Fetch, Clean
  <2> QED
    BY <2>2, <2>3, <2>4
<1>2. ASSUME NEW p \in Proc, Stat(p) \/ LockBusy(p) \/ Wake(p) \/ Mkdir(p) \/ List(p)
      PROVE  TypeOK'
  BY <1>2 DEF Stat, LockBusy, Wake, Mkdir, List, Dir, At
<1>3. ASSUME NEW p \in Proc, OpenFile(p)
      PROVE  TypeOK'
  BY <1>3 DEF OpenFile, At
<1>4. ASSUME NEW p \in Proc, SetLock(p)
      PROVE  TypeOK'
  <2>1. LockSlot(p) \in Slot /\ Locked(p) \in At
    BY DEF LockSlot, RepoSlot, Slot, Locked, At
  <2>2. /\ at' = [at EXCEPT ![p] = Locked(p)]
        /\ held' = [held EXCEPT ![p] = [held[p] EXCEPT ![LockSlot(p)] = file[p]]]
        /\ file' = [file EXCEPT ![p] = NoFile]
        /\ owner' = [owner EXCEPT ![file[p]] = p]
        /\ UNCHANGED <<disk, task, want, left, redirected, counters>>
    BY <1>4 DEF SetLock
  <2>3. held' \in [Proc -> [Slot -> File \union {NoFile}]]
    BY <2>1, <2>2
  <2> QED
    BY <2>1, <2>2, <2>3
<1>5. ASSUME NEW p \in Proc, OpenFails(p) \/ LockFails(p)
      PROVE  TypeOK'
  <2>1. /\ file' = [file EXCEPT ![p] = NoFile]
        /\ UNCHANGED <<disk, want, held, left, redirected, counters>>
    BY <1>5 DEF OpenFails, LockFails, Fail
  <2>2. task' \in [Proc -> Task] /\ at' \in [Proc -> At]
    BY <1>5 DEF OpenFails, LockFails, Fail, At, Task
  <2>3. owner' \in [File -> Proc \union {NoProc}]
    BY <1>5 DEF OpenFails, LockFails
  <2> QED
    BY <2>1, <2>2, <2>3
<1>6. ASSUME NEW p \in Proc, Work(p) \/ Redirect(p) \/ Close(p) \/ Rmdir(p)
      PROVE  TypeOK'
  BY <1>6 DEF Work, Redirect, Close, Rmdir, At
<1>7. ASSUME NEW p \in Proc, Unlink(p)
      PROVE  TypeOK'
  <2>1. Releasing(p) \in Slot /\ Released(p) \in At /\ DirOf(Releasing(p)) \in Dir
    BY DEF Releasing, Released, Slot, At, DirOf, Dir
  <2>2. /\ at' = [at EXCEPT ![p] = Released(p)]
        /\ held' = [held EXCEPT ![p] = [held[p] EXCEPT ![Releasing(p)] = NoFile]]
        /\ entry' = [entry EXCEPT ![DirOf(Releasing(p))] = NoFile]
        /\ task' = [task EXCEPT ![p] = IF Released(p) = "idle" THEN "none" ELSE task[p]]
        /\ UNCHANGED <<exists, data, owner, want, file, left, redirected, counters>>
    BY <1>7 DEF Unlink
  <2>3. held' \in [Proc -> [Slot -> File \union {NoFile}]]
    BY <2>1, <2>2
  <2> QED
    BY <2>1, <2>2, <2>3 DEF Task
<1>8. ASSUME NEW p \in Proc, OpendirFails(p)
      PROVE  TypeOK'
  <2> DEFINE s == IF at[p] = "list" THEN "parent" ELSE "outer"
  <2>1. s \in Slot /\ held[p][s] \in File
    <3>1. Shape(p) /\ task[p] = "clean" /\ at[p] \in {"list", "work"}
      BY <1>8 DEF OpendirFails, ShapeInv
    <3>2. Holds(p, s) /\ s \in Slot
      BY <3>1 DEF Shape, Slot
    <3> QED
      BY <3>2 DEF Holds
  <2>2. /\ left' = [left EXCEPT ![p] = left[p] \union {held[p][s]}]
        /\ held' = [held EXCEPT ![p] = [held[p] EXCEPT ![s] = NoFile]]
        /\ UNCHANGED <<disk, owner, want, file, redirected, counters>>
    BY <1>8 DEF OpendirFails
  <2>3. left' \in [Proc -> SUBSET File] /\ held' \in [Proc -> [Slot -> File \union {NoFile}]]
    BY <2>1, <2>2
  <2>4. task' \in [Proc -> Task] /\ at' \in [Proc -> At]
    BY <1>8 DEF OpendirFails, Task, At
  <2> QED
    BY <2>2, <2>3, <2>4
<1>9. ASSUME NEW p \in Proc, Crash(p) \/ Exit(p)
      PROVE  TypeOK'
  <2>1. owner' \in [File -> Proc \union {NoProc}] /\ left' \in [Proc -> SUBSET File]
    BY <1>9 DEF Crash, Exit, Ends
  <2>2. CASE Crash(p)
    BY <2>1, <2>2 DEF Crash, Nothing, At, Task
  <2>3. CASE Exit(p)
    BY <2>1, <2>3 DEF Exit
  <2> QED
    BY <1>9, <2>2, <2>3
<1>10. CASE UNCHANGED vars
  BY <1>10 DEF vars
<1> QED
  BY <1>1, <1>2, <1>3, <1>4, <1>5, <1>6, <1>7, <1>8, <1>9, <1>10 DEF Next, Advance, Done

-----------------------------------------------------------------------------
Private(q) == <<task[q], at[q], want[q], file[q], held[q], left[q], redirected[q]>>

Act(p) == Fetch(p) \/ Clean(p) \/ Advance(p) \/ Crash(p) \/ Exit(p)

(* A step of p is a step of nobody else.                                   *)
LEMMA OthersStay ==
    ASSUME TypeOK, NEW p \in Proc, Act(p), NEW q \in Proc, q # p
    PROVE  Private(q)' = Private(q)
<1> USE DEF TypeOK, disk, counters, Go, Private
<1>1. CASE Fetch(p) \/ Clean(p)
  BY <1>1 DEF Fetch, Clean, Begin
<1>2. CASE Stat(p) \/ OpenFile(p) \/ LockBusy(p) \/ Wake(p)
  BY <1>2 DEF Stat, OpenFile, LockBusy, Wake
<1>3. CASE SetLock(p)
  BY <1>3 DEF SetLock
<1>4. CASE OpenFails(p) \/ LockFails(p)
  BY <1>4 DEF OpenFails, LockFails, Fail
<1>5. CASE Mkdir(p) \/ List(p) \/ Work(p) \/ Redirect(p)
  BY <1>5 DEF Mkdir, List, Work, Redirect
<1>6. CASE Close(p) \/ Unlink(p) \/ Rmdir(p)
  BY <1>6 DEF Close, Unlink, Rmdir
<1>7. CASE OpendirFails(p)
  BY <1>7 DEF OpendirFails
<1>8. CASE Crash(p) \/ Exit(p)
  BY <1>8 DEF Crash, Exit, Ends
<1> QED
  BY <1>1, <1>2, <1>3, <1>4, <1>5, <1>6, <1>7, <1>8 DEF Act, Advance

(* The slot vf_lockdir fills is empty and belongs to the directory.        *)
LEMMA LockSlotFacts ==
    ASSUME TypeOK, NEW p \in Proc, Shape(p), at[p] \in {"open", "fcntl", "wait"}
    PROVE  /\ LockSlot(p) \in Slot /\ DirOf(LockSlot(p)) = want[p]
           /\ ~ Holds(p, LockSlot(p))
           /\ task[p] # "none"
  BY DEF TypeOK, Shape, LockSlot, RepoSlot, Slot, DirOf, Dir

(* The lock that is being released is one the process has.                 *)
LEMMA ReleasingFacts ==
    ASSUME TypeOK, NEW p \in Proc, Shape(p), at[p] \in {"close", "unlink"}
    PROVE  /\ Releasing(p) \in Slot /\ Holds(p, Releasing(p))
           /\ held[p][Releasing(p)] \in File
           /\ task[p] # "none"
  BY DEF TypeOK, Shape, Releasing, Slot, Holds

(* A step of p keeps what p has locked in step with where it is in         *)
(* vf_lock_mkdir, vf_fetch or do_cachedir_clean.                           *)
LEMMA ShapeStep ==
    ASSUME TypeOK, FileInv, NEW p \in Proc, Shape(p), Act(p)
    PROVE  Shape(p)'
<1> USE NoneAssumption DEF TypeOK, disk, counters, Go, Holds, Nothing, Slot
<1>1. CASE Fetch(p)
  <2>1. task'[p] = "fetch" /\ at'[p] = "stat" /\ redirected'[p] = FALSE /\ held'[p] = held[p]
    BY <1>1 DEF Fetch, Begin
  <2>2. held[p] = Nothing
    BY <1>1 DEF Fetch, Begin, Shape
  <2> QED
    BY <2>1, <2>2 DEF Shape
<1>2. CASE Clean(p)
  <2>1. /\ task'[p] = "clean" /\ at'[p] = "open" /\ ~ redirected'[p] /\ held'[p] = held[p]
        /\ want'[p] = "cache"
    BY <1>2 DEF Clean, Begin, Dir
  <2>2. held[p] = Nothing
    BY <1>2 DEF Clean, Begin, Shape
  <2> QED
    BY <2>1, <2>2 DEF Shape
<1>3. CASE Stat(p) \/ OpenFile(p) \/ LockBusy(p) \/ Wake(p)
  BY <1>3 DEF Stat, OpenFile, LockBusy, Wake, Shape, Dir
<1>4. CASE SetLock(p)
  <2>1. LockSlot(p) \in Slot /\ file[p] \in File /\ file[p] # NoFile
    BY <1>4, LockSlotFacts DEF SetLock, FileInv
  <2>2. /\ task'[p] = task[p] /\ at'[p] = Locked(p) /\ want'[p] = want[p]
        /\ redirected'[p] = redirected[p]
        /\ \A s \in Slot : held'[p][s] = IF s = LockSlot(p) THEN file[p] ELSE held[p][s]
    BY <1>4, <2>1 DEF SetLock
  <2>3. at[p] = "fcntl"
    BY <1>4 DEF SetLock
  <2>4. CASE want[p] = "cache"
    BY <2>1, <2>2, <2>3, <2>4 DEF Shape, LockSlot, Locked
  <2>5. CASE want[p] = "repo"
    BY <2>1, <2>2, <2>3, <2>5 DEF Shape, LockSlot, RepoSlot, Locked
  <2> QED
    BY <2>4, <2>5 DEF Dir
<1>5. CASE OpenFails(p) \/ LockFails(p)
  <2>1. CASE held[p] = Nothing
    BY <1>5, <2>1 DEF OpenFails, LockFails, Fail, Shape
  <2>2. CASE held[p] # Nothing
    <3>1. \E s \in Slot : held[p][s] # NoFile
      BY <2>2
    <3> QED
      BY <1>5, <2>2, <3>1 DEF OpenFails, LockFails, Fail, Shape, Dir
  <2> QED
    BY <2>1, <2>2
<1>6. CASE Mkdir(p) \/ List(p)
  BY <1>6 DEF Mkdir, List, Shape, Dir
<1>7. CASE Work(p) \/ Redirect(p) \/ Rmdir(p)
  BY <1>7 DEF Work, Redirect, Rmdir, Shape
<1>8. CASE Close(p)
  BY <1>8 DEF Close, Shape
<1>9. CASE Unlink(p)
  <2>1. Releasing(p) \in Slot
    BY <1>9, ReleasingFacts DEF Unlink
  <2>2. /\ at[p] = "unlink" /\ at'[p] = Released(p)
        /\ task'[p] = IF Released(p) = "idle" THEN "none" ELSE task[p]
        /\ redirected'[p] = redirected[p]
        /\ \A s \in Slot : held'[p][s] = IF s = Releasing(p) THEN NoFile ELSE held[p][s]
    BY <1>9, <2>1 DEF Unlink
  <2>3. held'[p] \in [Slot -> File \union {NoFile}]
    BY <1>9, <2>1 DEF Unlink
  <2>4. CASE task[p] = "clean"
    BY <2>2, <2>3, <2>4 DEF Shape, Releasing, Released
  <2>5. CASE task[p] = "fetch"
    <3>1. held'[p] = Nothing \/ \E s \in Slot : held'[p][s] # NoFile
      BY <2>3
    <3> QED
      BY <2>2, <2>3, <2>5, <3>1 DEF Shape, Releasing, Released, RepoSlot
  <2> QED
    BY <2>2, <2>4, <2>5 DEF Shape
<1>10. CASE OpendirFails(p)
  <2>1. CASE at[p] = "list"
    <3>1. /\ task'[p] = "none" /\ at'[p] = "idle"
          /\ held' = [held EXCEPT ![p] = [held[p] EXCEPT !["parent"] = NoFile]]
      BY <1>10, <2>1 DEF OpendirFails
    <3>2. ~ Holds(p, "outer") /\ ~ Holds(p, "inner")
      BY <1>10, <2>1 DEF OpendirFails, Shape
    <3>3. held'[p] = Nothing
      BY <3>1, <3>2
    <3> QED
      BY <3>1, <3>3 DEF Shape
  <2>2. CASE at[p] = "work"
    <3>1. /\ task[p] = "clean" /\ task' = task /\ at'[p] = "close" /\ redirected' = redirected
          /\ held' = [held EXCEPT ![p] = [held[p] EXCEPT !["outer"] = NoFile]]
      BY <1>10, <2>2 DEF OpendirFails
    <3>2. Holds(p, "parent") /\ ~ Holds(p, "inner") /\ ~ redirected[p]
      BY <2>2, <3>1 DEF Shape
    <3> QED
      BY <3>1, <3>2 DEF Shape
  <2> QED
    BY <1>10, <2>1, <2>2 DEF OpendirFails
<1>11. CASE Crash(p)
  BY <1>11 DEF Crash, Shape
<1>12. CASE Exit(p)
  BY <1>12 DEF Exit, Shape
<1> QED
  BY <1>1, <1>2, <1>3, <1>4, <1>5, <1>6, <1>7, <1>8, <1>9, <1>10, <1>11, <1>12 DEF Act, Advance

(* A file is open and not yet locked exactly between open() and fcntl().   *)
LEMMA FileStep ==
    ASSUME TypeOK, FileInv, NEW p \in Proc, Shape(p), Act(p)
    PROVE  (at[p] = "fcntl" <=> file[p] # NoFile)'
<1> USE NoneAssumption DEF TypeOK, FileInv, disk, counters, Go
<1>1. CASE Fetch(p) \/ Clean(p)
  BY <1>1 DEF Fetch, Clean, Begin, Shape
<1>2. CASE Stat(p) \/ OpenFile(p) \/ LockBusy(p) \/ Wake(p)
  BY <1>2 DEF Stat, OpenFile, LockBusy, Wake
<1>3. CASE SetLock(p)
  BY <1>3 DEF SetLock, Locked
<1>4. CASE OpenFails(p) \/ LockFails(p)
  BY <1>4 DEF OpenFails, LockFails, Fail
<1>5. CASE Mkdir(p) \/ List(p) \/ Work(p) \/ Redirect(p) \/ Close(p) \/ Rmdir(p)
  BY <1>5 DEF Mkdir, List, Work, Redirect, Close, Rmdir
<1>6. CASE Unlink(p)
  BY <1>6 DEF Unlink, Released
<1>7. CASE OpendirFails(p)
  BY <1>7 DEF OpendirFails
<1>8. CASE Crash(p) \/ Exit(p)
  BY <1>8 DEF Crash, Exit
<1> QED
  BY <1>1, <1>2, <1>3, <1>4, <1>5, <1>6, <1>7, <1>8 DEF Act, Advance

(* Only open() makes a file the lock file of a directory, and it takes one *)
(* that is the directory's already or nobody's.                            *)
LEMMA UsedStep ==
    ASSUME TypeOK, FileInv, NEW p \in Proc, Shape(p), Act(p),
           NEW f \in File, NEW d \in Dir, UsedIn(f, d)'
    PROVE  UsedIn(f, d) \/ (OpenFile(p) /\ d = want[p] /\ f = file'[p])
<1> SUFFICES ASSUME ~ (OpenFile(p) /\ d = want[p] /\ f = file'[p])
             PROVE  UsedIn(f, d)
  OBVIOUS
<1>1. CASE entry'[d] = f
  <2>1. CASE OpenFile(p)
    BY <1>1, <2>1 DEF OpenFile, UsedIn, TypeOK
  <2>2. CASE Unlink(p)
    BY <1>1, <2>2, NoneAssumption DEF Unlink, UsedIn, TypeOK
  <2>3. CASE entry' = entry
    BY <1>1, <2>3 DEF UsedIn
  <2>4. OpenFile(p) \/ Unlink(p) \/ entry' = entry
    BY DEF Act, Advance, Fetch, Clean, Stat, SetLock, LockBusy, Wake, OpenFails, LockFails,
           Fail, Mkdir, List, OpendirFails, Work, Redirect, Close, Rmdir, Crash, Exit, disk
  <2> QED
    BY <2>1, <2>2, <2>3, <2>4
<1>2. ASSUME NEW q \in Proc, file'[q] = f, want'[q] = d
      PROVE  UsedIn(f, d)
  <2>1. CASE q # p
    <3>1. file[q] = f /\ want[q] = d
      BY <1>2, <2>1, OthersStay DEF Private
    <3> QED
      BY <3>1 DEF UsedIn
  <2>2. CASE q = p
    <3>1. CASE OpenFile(p)
      BY <1>2, <2>2, <3>1 DEF OpenFile
    <3>2. CASE ~ OpenFile(p)
      <4>1. file'[p] # NoFile
        BY <1>2, <2>2, NoneAssumption
      <4>2. file'[p] = file[p] /\ at[p] = "fcntl"
        BY <3>2, <4>1
           DEF TypeOK, FileInv, Act, Advance, Fetch, Clean, Begin, Stat, SetLock, LockBusy,
               Wake, OpenFails, LockFails, Fail, Mkdir, List, OpendirFails, Work, Redirect,
               Close, Unlink, Rmdir, Crash, Exit
      <4>3. task[p] # "none"
        BY <4>2 DEF Shape
      <4>4. want'[p] = want[p]
        BY <3>2, <4>2, <4>3
           DEF Act, Advance, Fetch, Clean, Begin, Stat, SetLock, LockBusy, Wake, OpenFails,
               LockFails, Fail, Mkdir, List, OpendirFails, Work, Redirect, Close, Unlink,
               Rmdir, Crash, Exit, counters
      <4> QED
        BY <1>2, <2>2, <4>2, <4>4 DEF UsedIn
    <3> QED
      BY <3>1, <3>2
  <2> QED
    BY <2>1, <2>2
<1>3. ASSUME NEW q \in Proc, NEW s \in Slot, held'[q][s] = f, DirOf(s) = d
      PROVE  UsedIn(f, d)
  <2>1. CASE held[q][s] = f
    BY <1>3, <2>1 DEF UsedIn
  <2>2. CASE held[q][s] # f
    <3>1. q = p
      BY <1>3, <2>2, OthersStay DEF Private
    <3>2. f # NoFile
      BY NoneAssumption
    <3>3. SetLock(p) \/ Unlink(p) \/ OpendirFails(p) \/ Crash(p) \/ held' = held
      BY DEF Act, Advance, Fetch, Clean, Stat, OpenFile, LockBusy, Wake, OpenFails, LockFails,
             Fail, Mkdir, List, Work, Redirect, Close, Rmdir, Exit
    <3>4. CASE SetLock(p)
      <4>1. s = LockSlot(p) /\ file[p] = f
        BY <1>3, <2>2, <3>1, <3>4, LockSlotFacts DEF SetLock, TypeOK
      <4>2. DirOf(s) = want[p]
        BY <3>4, <4>1, LockSlotFacts DEF SetLock
      <4> QED
        BY <1>3, <4>1, <4>2 DEF UsedIn
    <3>5. CASE Unlink(p)
      BY <1>3, <2>2, <3>1, <3>2, <3>5, ReleasingFacts DEF Unlink, TypeOK
    <3>6. CASE Crash(p)
      BY <1>3, <2>2, <3>1, <3>2, <3>6 DEF Crash, Nothing, TypeOK
    <3>7. CASE OpendirFails(p)
      BY <1>3, <2>2, <3>1, <3>2, <3>7 DEF OpendirFails, Slot, TypeOK
    <3> QED
      BY <1>3, <2>2, <3>3, <3>4, <3>5, <3>6, <3>7
  <2> QED
    BY <2>1, <2>2
<1> QED
  BY <1>1, <1>2, <1>3 DEF UsedIn, DirOf

(* No file is the lock file of two directories.                            *)
LEMMA OneDirStep ==
    ASSUME TypeOK, FileInv, OneDir, NEW p \in Proc, Shape(p), Act(p)
    PROVE  OneDir'
<1> SUFFICES ASSUME NEW f \in File, UsedIn(f, "cache")', UsedIn(f, "repo")'
             PROVE  FALSE
  BY DEF OneDir
<1>1. \A d \in Dir : UsedIn(f, d) \/ (OpenFile(p) /\ d = want[p] /\ f = file'[p])
  <2> TAKE d \in Dir
  <2>1. UsedIn(f, d)'
    BY DEF Dir
  <2> QED
    BY <2>1, UsedStep
<1>2. ~ (UsedIn(f, "cache") /\ UsedIn(f, "repo"))
  BY DEF OneDir
<1>3. OpenFile(p) /\ f = file'[p]
  BY <1>1, <1>2 DEF Dir
<1>4. Free(f) \/ UsedIn(f, want[p])
  BY <1>3 DEF OpenFile, UsedIn, TypeOK
<1>5. ~ Free(f)
  BY <1>1, <1>2 DEF Free, UsedIn, Dir
<1>6. UsedIn(f, "cache") /\ UsedIn(f, "repo")
  BY <1>1, <1>4, <1>5 DEF Dir
<1> QED
  BY <1>2, <1>6

(* A process takes and drops no lock but its own.                          *)
LEMMA OwnerStep ==
    ASSUME TypeOK, FileInv, NEW p \in Proc, Act(p), NEW q \in Proc, q # p, NEW f \in File
    PROVE  owner'[f] = q <=> owner[f] = q
<1> USE NoneAssumption DEF TypeOK, FileInv
<1>1. CASE SetLock(p)
  BY <1>1 DEF SetLock
<1>2. CASE LockFails(p)
  BY <1>2 DEF LockFails, Drop
<1>3. CASE Close(p) \/ Crash(p) \/ Exit(p)
  BY <1>3 DEF Close, Crash, Exit, Ends, Drop
<1>4. CASE owner' = owner
  BY <1>4
<1> QED
  BY <1>1, <1>2, <1>3, <1>4
     DEF Act, Advance, Fetch, Clean, Stat, OpenFile, LockBusy, Wake, OpenFails, Mkdir, List,
         OpendirFails, Work, Redirect, Unlink, Rmdir

(* A step of p takes no lock from q.                                       *)
LEMMA OthersOwn ==
    ASSUME TypeOK, FileInv, NEW p \in Proc, Act(p), NEW q \in Proc, q # p, Shape(q), Owns(q)
    PROVE  Owns(q)'
<1>1. Private(q)' = Private(q)
  BY OthersStay
<1>2. /\ at'[q] = at[q] /\ held'[q] = held[q]
      /\ Releasing(q)' = Releasing(q) /\ RepoSlot(q)' = RepoSlot(q)
      /\ \A s \in Slot : Holds(q, s)' = Holds(q, s)
  BY <1>1 DEF Private, Releasing, RepoSlot, Holds
<1>3. RepoSlot(q) \in Slot
  BY DEF RepoSlot, Slot
<1>4. \A s \in Slot : Holds(q, s) =>
          (owner'[held[q][s]] = q <=> owner[held[q][s]] = q)
  BY OwnerStep DEF TypeOK, Holds
<1>5. at[q] = "work" => Holds(q, RepoSlot(q))
  BY DEF Shape, RepoSlot, TypeOK
<1>6. at[q] = "unlink" => Releasing(q) \in Slot /\ Holds(q, Releasing(q))
  BY ReleasingFacts
<1> QED
  BY <1>2, <1>3, <1>4, <1>5, <1>6 DEF Owns

(* The parent's file is not the directory's: giving it back leaves the     *)
(* lock on the new directory alone.                                        *)
LEMMA OwnStep ==
    ASSUME TypeOK, FileInv, OneDir, NEW p \in Proc, Shape(p), Owns(p), Act(p)
    PROVE  Owns(p)'
<1> USE NoneAssumption DEF Go
<1>1. CASE at'[p] \notin {"work", "close", "unlink"}
  BY <1>1 DEF Owns
<1>2. CASE SetLock(p)
  <2>1. /\ at[p] = "fcntl" /\ at'[p] = Locked(p) /\ file[p] \in File
        /\ owner'[file[p]] = p /\ redirected' = redirected /\ task' = task
        /\ held'[p][LockSlot(p)] = file[p]
    BY <1>2, LockSlotFacts DEF SetLock, TypeOK, FileInv
  <2>2. CASE want[p] = "cache"
    <3>1. at'[p] \notin {"work", "close", "unlink"}
      BY <2>1, <2>2 DEF Locked
    <3> QED
      BY <3>1 DEF Owns
  <2>3. CASE want[p] = "repo"
    <3>1. LockSlot(p) = RepoSlot(p) /\ RepoSlot(p)' = RepoSlot(p)
      BY <2>1, <2>3 DEF LockSlot, RepoSlot
    <3>2. at'[p] # "unlink"
      BY <2>1 DEF Locked
    <3> QED
      BY <2>1, <3>1, <3>2 DEF Owns
  <2> QED
    BY <2>2, <2>3 DEF TypeOK, Dir
<1>3. CASE OpenFails(p) \/ LockFails(p)
  <2>1. at'[p] # "work" /\ at'[p] # "unlink"
    BY <1>3 DEF OpenFails, LockFails, Fail, TypeOK
  <2>2. held' = held /\ redirected' = redirected
    BY <1>3 DEF OpenFails, LockFails, Fail
  <2>3. at[p] \in {"open", "fcntl", "wait"}
    BY <1>3 DEF OpenFails, LockFails
  <2>4. ~ Holds(p, RepoSlot(p)) \/ (task[p] = "fetch" /\ want[p] = "cache")
    BY <2>3 DEF Shape, RepoSlot, TypeOK, Dir
  <2> QED
    BY <2>1, <2>2, <2>3, <2>4 DEF Owns, Holds, RepoSlot, Releasing, Shape, TypeOK
<1>4. CASE Mkdir(p)
  BY <1>4 DEF Mkdir, Owns, Shape, Releasing, RepoSlot, Holds, TypeOK
<1>5. CASE List(p) \/ Rmdir(p)
  BY <1>5 DEF List, Rmdir, Owns, Shape, Releasing, RepoSlot, Holds, TypeOK
<1>6. CASE Work(p)
  BY <1>6 DEF Work, Owns, Shape, Releasing, RepoSlot, Holds, TypeOK
<1>7. CASE Close(p)
  <2>1. /\ at[p] = "close" /\ at'[p] = "unlink"
        /\ held' = held /\ redirected' = redirected /\ task' = task
        /\ Releasing(p)' = Releasing(p) /\ RepoSlot(p)' = RepoSlot(p)
    BY <1>7 DEF Close, TypeOK, Releasing, RepoSlot, Holds
  <2>2. Releasing(p) \in Slot /\ held[p][Releasing(p)] \in File /\ RepoSlot(p) \in Slot
    BY <2>1, ReleasingFacts DEF RepoSlot, Slot
  <2>3. /\ owner'[held[p][Releasing(p)]] # p
        /\ \A f \in File : f # held[p][Releasing(p)] => owner'[f] = owner[f]
    BY <1>7, <2>2 DEF Close, Drop, TypeOK
  <2>4. ASSUME Releasing(p) = "parent", Holds(p, RepoSlot(p))
        PROVE  owner'[held[p][RepoSlot(p)]] = p
    <3>1. held[p][RepoSlot(p)] \in File
      BY <2>2, <2>4 DEF Holds, TypeOK
    <3>2. held[p][RepoSlot(p)] # held[p]["parent"]
      BY <2>2, <2>4, <3>1 DEF OneDir, UsedIn, DirOf, RepoSlot
    <3>3. owner[held[p][RepoSlot(p)]] = p
      BY <2>1, <2>4 DEF Owns
    <3> QED
      BY <2>3, <2>4, <3>1, <3>2, <3>3
  <2> QED
    BY <2>1, <2>3, <2>4 DEF Owns, Holds
<1>8. CASE Unlink(p)
  <2>1. /\ at[p] = "unlink" /\ at'[p] = Released(p) /\ owner' = owner
        /\ redirected' = redirected /\ RepoSlot(p)' = RepoSlot(p)
    BY <1>8 DEF Unlink, TypeOK, RepoSlot
  <2>2. Releasing(p) \in Slot
    BY <2>1, ReleasingFacts
  <2>3. \A s \in Slot : held'[p][s] = IF s = Releasing(p) THEN NoFile ELSE held[p][s]
    BY <1>8, <2>2 DEF Unlink, TypeOK
  <2>4. CASE Released(p) = "work"
    <3>1. Releasing(p) = "parent" /\ Holds(p, RepoSlot(p))
      BY <2>4 DEF Released
    <3> QED
      BY <2>1, <2>3, <2>4, <3>1 DEF Owns, RepoSlot, Slot
  <2>5. CASE Released(p) = "close"
    <3>1. Holds(p, "outer") /\ task[p] # "clean" /\ Releasing(p) # "outer"
      BY <2>5 DEF Released
    <3>2. task'[p] = task[p] /\ task[p] = "fetch"
      BY <1>8, <2>1, <2>5, <3>1 DEF Unlink, Shape, TypeOK
    <3>4. Releasing(p)' = "parent" => Holds(p, "parent") /\ Releasing(p) # "parent"
      BY <2>2, <2>3, <3>1, <3>2 DEF Releasing, Holds, Slot
    <3>5. Releasing(p)' # "parent"
      BY <3>2, <3>4 DEF Releasing
    <3> QED
      BY <2>1, <2>5, <3>5 DEF Owns
  <2> QED
    BY <1>1, <2>1, <2>4, <2>5 DEF Released
<1>9. CASE at'[p] \in {"work", "close", "unlink"} /\ (OpenFile(p) \/ Redirect(p) \/ Crash(p)
                \/ Fetch(p) \/ Clean(p) \/ Stat(p) \/ LockBusy(p) \/ Wake(p) \/ Exit(p))
  BY <1>9 DEF OpenFile, Redirect, Crash, Fetch, Clean, Begin, Stat, LockBusy, Wake, Exit,
              Shape, TypeOK
<1>10. CASE OpendirFails(p) /\ at'[p] \in {"work", "close", "unlink"}
  <2>1. /\ at[p] = "work" /\ task[p] = "clean" /\ at'[p] = "close" /\ redirected' = redirected
        /\ held' = [held EXCEPT ![p] = [held[p] EXCEPT !["outer"] = NoFile]]
    BY <1>10 DEF OpendirFails, TypeOK
  <2>2. RepoSlot(p)' = "outer"
    BY <2>1 DEF Shape, RepoSlot
  <2>3. held'[p]["outer"] = NoFile
    BY <2>1 DEF TypeOK, Slot
  <2> QED
    BY <2>1, <2>2, <2>3 DEF Owns, Holds
<1> QED
  BY <1>1, <1>2, <1>3, <1>4, <1>5, <1>6, <1>7, <1>8, <1>9, <1>10 DEF Act, Advance

(* A step of p leaves no lock behind that nobody is going to release, but  *)
(* for a failed opendir().                                                 *)
LEMMA LeakStep ==
    ASSUME TypeOK, TypeOK', FileInv, OnlyOpendirLeaks, NEW p \in Proc, Shape(p), Owns(p),
           Shape(p)', Act(p)
    PROVE  OnlyOpendirLeaks'
<1> DEFINE Known(f, q) == \/ task[q] # "none" /\ \E s \in Slot : held[q][s] = f
                          \/ f \in left[q]
<1> SUFFICES ASSUME NEW f \in File, NEW q \in Proc, owner'[f] = q
             PROVE  \/ task'[q] # "none" /\ \E s \in Slot : held'[q][s] = f
                    \/ f \in left'[q]
  <2>1. \A f \in File : owner'[f] # NoProc => owner'[f] \in Proc
    BY DEF TypeOK
  <2> QED
    BY <2>1 DEF OnlyOpendirLeaks
<1> USE NoneAssumption
<1>1. owner[f] = q => Known(f, q)
  BY DEF OnlyOpendirLeaks
<1>2. CASE q # p
  <2>1. owner[f] = q
    BY <1>2, OwnerStep
  <2>2. task'[q] = task[q] /\ held'[q] = held[q] /\ left'[q] = left[q]
    BY <1>2, OthersStay DEF Private
  <2> QED
    BY <1>1, <2>1, <2>2
<1>3. CASE q = p
  <2>1. (\E s \in Slot : held'[p][s] = f) => task'[p] # "none"
    BY DEF Shape, Nothing
  <2>2. ~ Crash(p) /\ ~ Exit(p)
    <3>1. owner'[f] = p
      BY <1>3
    <3>2. Ends(p) => owner'[f] # p
      BY DEF Ends, TypeOK
    <3> QED
      BY <3>1, <3>2 DEF Crash, Exit
  <2>3. CASE SetLock(p)
    <3>1. LockSlot(p) \in Slot /\ ~ Holds(p, LockSlot(p))
      BY <2>3, LockSlotFacts DEF SetLock
    <3>2. /\ \A s \in Slot : held'[p][s] = IF s = LockSlot(p) THEN file[p] ELSE held[p][s]
          /\ left' = left
      BY <2>3, <3>1 DEF SetLock, TypeOK
    <3>3. f = file[p] \/ owner[f] = p
      BY <1>3, <2>3 DEF SetLock, TypeOK
    <3>4. (\E s \in Slot : held'[p][s] = f) \/ f \in left[p]
      BY <1>1, <1>3, <3>1, <3>2, <3>3 DEF Holds
    <3> QED
      BY <1>3, <2>1, <3>2, <3>4
  <2>4. CASE ~ SetLock(p)
    <3>1. owner[f] = p
      <4>1. LockFails(p) \/ Close(p) \/ owner' = owner
        BY <2>2, <2>4
           DEF Act, Advance, Fetch, Clean, Stat, OpenFile, LockBusy, Wake, OpenFails, Mkdir,
               List, OpendirFails, Work, Redirect, Unlink, Rmdir
      <4>2. CASE LockFails(p)
        BY <1>3, <4>2 DEF LockFails, Drop, TypeOK
      <4>3. CASE Close(p)
        BY <1>3, <4>3 DEF Close, Drop, TypeOK
      <4> QED
        BY <1>3, <4>1, <4>2, <4>3
    <3>2. f \in left[p] \/ \E s \in Slot : held[p][s] = f
      BY <1>1, <1>3, <3>1
    <3>3. CASE f \in left[p]
      <4>1. OpendirFails(p) \/ left' = left
        BY <2>2, <2>4
           DEF Act, Advance, Fetch, Clean, Stat, OpenFile, LockBusy, Wake, OpenFails,
               LockFails, Fail, Mkdir, List, Work, Redirect, Close, Unlink, Rmdir
      <4>2. CASE OpendirFails(p)
        BY <1>3, <3>3, <4>2 DEF OpendirFails, TypeOK
      <4>3. CASE left' = left
        BY <1>3, <3>3, <4>3
      <4> QED
        BY <4>1, <4>2, <4>3
    <3>4. ASSUME NEW s \in Slot, held[p][s] = f
          PROVE  f \in left'[p] \/ \E t \in Slot : held'[p][t] = f
      <4>1. CASE Unlink(p)
        <5>1. Releasing(p) \in Slot /\ s # Releasing(p)
          BY <3>1, <3>4, <4>1, ReleasingFacts DEF Unlink, Owns
        <5>2. held'[p][s] = f
          BY <3>4, <4>1, <5>1 DEF Unlink, TypeOK
        <5> QED
          BY <5>2
      <4>2. CASE OpendirFails(p)
        BY <3>4, <4>2 DEF OpendirFails, Slot, TypeOK
      <4>3. CASE held' = held
        BY <3>4, <4>3
      <4> QED
        BY <2>2, <2>4, <4>1, <4>2, <4>3
           DEF Act, Advance, Fetch, Clean, Stat, OpenFile, LockBusy, Wake, OpenFails,
               LockFails, Fail, Mkdir, List, Work, Redirect, Close, Rmdir
    <3> QED
      BY <1>3, <2>1, <3>2, <3>3, <3>4
  <2> QED
    BY <2>3, <2>4
<1> QED
  BY <1>2, <1>3

-----------------------------------------------------------------------------
(* The inductive invariant holds initially.                                *)
LEMMA InvInit == Init => Inv
<1> SUFFICES ASSUME Init PROVE Inv
  OBVIOUS
<1> USE NoneAssumption DEF Init
<1>1. TypeOK
  BY TypeInit
<1>2. ShapeInv
  BY DEF ShapeInv, Shape
<1>3. FileInv /\ OwnInv
  BY DEF FileInv, OwnInv, Owns
<1>4. OneDir
  BY DEF OneDir, UsedIn, Nothing, Dir
<1>5. OnlyOpendirLeaks
  BY DEF OnlyOpendirLeaks
<1> QED
  BY <1>1, <1>2, <1>3, <1>4, <1>5 DEF Inv

(* Every step keeps the inductive invariant.                               *)
LEMMA InvStep == Inv /\ [Next]_vars => Inv'
<1> SUFFICES ASSUME Inv, [Next]_vars PROVE Inv'
  OBVIOUS
<1> USE DEF Inv
<1>1. TypeOK'
  BY TypeStep
<1>2. ASSUME NEW p \in Proc, Act(p)
      PROVE  Inv'
  <2>1. Shape(p) /\ Owns(p)
    BY DEF ShapeInv, OwnInv
  <2>2. \A q \in Proc \ {p} : Private(q)' = Private(q)
    BY <1>2, OthersStay
  <2>3. Shape(p)'
    BY <1>2, <2>1, ShapeStep
  <2>4. ShapeInv'
    <3> SUFFICES ASSUME NEW q \in Proc, q # p PROVE Shape(q)'
      BY <2>3 DEF ShapeInv
    <3>1. Shape(q) /\ Private(q)' = Private(q)
      BY <2>2 DEF ShapeInv
    <3> QED
      BY <3>1 DEF Shape, Private, Holds
  <2>5. FileInv'
    <3>1. (at[p] = "fcntl" <=> file[p] # NoFile)'
      BY <1>2, <2>1, FileStep
    <3>2. \A q \in Proc \ {p} : (at[q] = "fcntl" <=> file[q] # NoFile)'
      BY <2>2 DEF FileInv, Private
    <3> QED
      BY <3>1, <3>2 DEF FileInv
  <2>6. OneDir'
    BY <1>2, <2>1, OneDirStep
  <2>7. OwnInv'
    <3>1. Owns(p)'
      BY <1>2, <2>1, OwnStep
    <3>2. ASSUME NEW q \in Proc, q # p PROVE Owns(q)'
      <4>1. Shape(q) /\ Owns(q)
        BY DEF ShapeInv, OwnInv
      <4> QED
        BY <1>2, <3>2, <4>1, OthersOwn
    <3> QED
      BY <3>1, <3>2 DEF OwnInv
  <2>8. OnlyOpendirLeaks'
    BY <1>1, <1>2, <2>1, <2>3, LeakStep
  <2> QED
    BY <1>1, <2>4, <2>5, <2>6, <2>7, <2>8
<1>3. CASE UNCHANGED vars
  <2>1. ShapeInv' /\ FileInv'
    BY <1>3 DEF vars, ShapeInv, Shape, FileInv, Holds
  <2>2. OneDir' /\ OnlyOpendirLeaks'
    BY <1>3 DEF vars, OneDir, UsedIn, OnlyOpendirLeaks
  <2>3. OwnInv'
    BY <1>3 DEF vars, OwnInv, Owns, RepoSlot, Releasing, Holds
  <2> QED
    BY <1>1, <2>1, <2>2, <2>3
<1> QED
  BY <1>2, <1>3 DEF Next, Act, Done

(* Every call keeps the types, whatever fails in it.                       *)
THEOREM TypesCorrect == Spec => []TypeOK
<1>1. Inv => TypeOK
  BY DEF Inv
<1> QED
  BY <1>1, InvInit, InvStep, PTL DEF Spec

(* A lock is released on every path through vf_lock_mkdir, vf_fetch and    *)
(* do_cachedir_clean but one, by the call or, if the process dies, by the  *)
(* kernel: only a failed opendir() (vfile.c:88-91) leaves it behind, for   *)
(* the life of the process.                                                *)
THEOREM OnlyLeftLocksLeak == Spec => []OnlyOpendirLeaks
<1>1. Inv => OnlyOpendirLeaks
  BY DEF Inv
<1> QED
  BY <1>1, InvInit, InvStep, PTL DEF Spec

(* Two processes never work in the directory under one lock file: if two   *)
(* do, vf_lock_release has taken the name of a file that was locked.       *)
THEOREM WorkersAreAlone == Spec => []WorksAlone
<1>1. Inv => WorksAlone
  <2> SUFFICES ASSUME Inv, NEW p \in Proc, NEW q \in Proc, at[p] = "work", at[q] = "work",
                      p # q, \A w \in {p, q} : held[w][RepoSlot(w)] = entry["repo"]
               PROVE  FALSE
    BY DEF WorksAlone
  <2>1. owner[held[p][RepoSlot(p)]] = p /\ owner[held[q][RepoSlot(q)]] = q
    BY DEF Inv, OwnInv, Owns
  <2> QED
    BY <2>1
<1> QED
  BY <1>1, InvInit, InvStep, PTL DEF Spec
=============================================================================
