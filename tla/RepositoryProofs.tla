-------------------------- MODULE RepositoryProofs --------------------------
(***************************************************************************)
(* What Repository guarantees for every number of sessions, packages and   *)
(* transactions, whatever the packages hold and require.                   *)
(***************************************************************************)
EXTENDS Repository, FiniteSetTheorems, SequenceTheorems, TLAPS

-----------------------------------------------------------------------------
(* Types.  The indexes of a session have none that could be said here.     *)
Fields == {"at", "type", "justdb", "dir", "ps", "caps", "paths", "reqs", "ours",
           "removed", "added", "touched", "since"}

TaskType(t) ==
    /\ DOMAIN t = Fields
    /\ t.at \in {"away", "open", "commit"} /\ t.type \in {"index", "dir"}
    /\ t.justdb \in BOOLEAN /\ t.dir \in Place
    /\ t.removed \in Seq({"db", "repo"} \X Pkg) /\ t.added \in Seq(Pkg)
    /\ t.touched \subseteq Pkg /\ t.since \subseteq Pkg

TypeInv ==
    /\ files \in Place /\ repo \in Sound
    /\ index \in [at : {"broken", "whole"}, pkgs : Place]
    /\ DOMAIN task = Session /\ \A s \in Session : TaskType(task[s])
    /\ scan \in [at : {"away", "read", "save"}, prev : Place, found : Place,
                 todo : SUBSET Pkg, since : SUBSET Pkg]
    /\ torn \subseteq Pkg

-----------------------------------------------------------------------------
(* What a transaction takes from the other source it installs, too.        *)
OwnInv(t) ==
    /\ t.at # "commit" => t.touched = {}
    /\ t.at # "away" =>
         \A p \in Pkg : <<"repo", p>> \in ToSet(t.removed) => p \in ToSet(t.added)
    /\ t.at = "open" =>
         /\ t.ours \subseteq ToSet(t.added)
         /\ \A p \in ToSet(t.added) \ t.since : p \in t.ours \/ <<"repo", p>> \in ToSet(t.removed)

(* What is left to be done to the file of a package, where nobody else has *)
(* touched it, makes of the directory what the list in memory says, unless *)
(* the commit will stop.                                                   *)
Pending(t, p) == \E where \in {"db", "repo"} : <<where, p>> \in ToSet(t.removed)

Agrees(t, p, fs, rs, doubted) ==
    /\ p \in ToSet(t.added) /\ ~ t.justdb =>
         t.dir[p] = rs[p] \/ rs[p] = 0 \/ <<"repo", p>> \in ToSet(t.removed)
    /\ p \notin ToSet(t.added) /\ Pending(t, p) /\ ~ t.justdb => t.dir[p] = 0
    /\ p \notin ToSet(t.added) /\ ~ Pending(t, p) =>
         \/ t.dir[p] = Readable(fs)[p]
         \/ p \in t.touched /\ t.justdb
         \/ p \notin t.touched /\ p \in doubted

PlanInv(t, fs, rs, doubted) ==
    t.at # "away" /\ t.type = "index" =>
        \A p \in Pkg \ t.since : Agrees(t, p, fs, rs, doubted)

(* Sessions at work know what the others have touched, and so does mkidx.  *)
Told(t, u) == t.at # "away" /\ u.at # "away" => u.touched \subseteq t.since

ScanInv(sc, fs, doubted) ==
    sc.at = "read" =>
        \A p \in Pkg \ sc.since :
            \/ p \in doubted /\ p \in Alike
            \/ p \in sc.todo /\ (p \notin Alike \/ sc.prev[p] \in {0, Readable(fs)[p]})
            \/ p \notin sc.todo /\ sc.found[p] = Readable(fs)[p]

Each(s) == /\ OwnInv(task[s]) /\ PlanInv(task[s], files, repo, torn)
           /\ scan.at = "read" => task[s].touched \subseteq scan.since

IInv == /\ TypeInv
        /\ \A s \in Session : Each(s)
        /\ \A s, o \in Session : s # o => Told(task[s], task[o])
        /\ ScanInv(scan, files, torn)
        /\ DamageIsKnown

-----------------------------------------------------------------------------
(* Sequences and the sets of what is in them.                              *)
LEMMA Sequences_ ==
    ASSUME NEW S, NEW q \in Seq(S)
    PROVE  /\ \A x \in S : Append(q, x) \in Seq(S) /\ Append(q, x) # << >>
                           /\ ToSet(Append(q, x)) = ToSet(q) \union {x}
           /\ q # << >> => /\ Head(q) \in S /\ Tail(q) \in Seq(S)
                           /\ ToSet(q) = {Head(q)} \union ToSet(Tail(q))
<1>1. ASSUME NEW x \in S
      PROVE  /\ Append(q, x) \in Seq(S) /\ Append(q, x) # << >>
             /\ ToSet(Append(q, x)) = ToSet(q) \union {x}
  <2>1. /\ Append(q, x) \in Seq(S) /\ Len(Append(q, x)) = Len(q) + 1 /\ Len(q) \in Nat
        /\ \A i \in 1..Len(q) : Append(q, x)[i] = q[i]
        /\ Append(q, x)[Len(q) + 1] = x
        /\ DOMAIN q = 1..Len(q) /\ DOMAIN Append(q, x) = 1..(Len(q) + 1)
    BY AppendProperties, LenProperties
  <2>2. /\ \A i \in 1..(Len(q) + 1) : i \in 1..Len(q) \/ i = Len(q) + 1
        /\ \A i \in 1..Len(q) : i \in 1..(Len(q) + 1)
        /\ Len(q) + 1 \in 1..(Len(q) + 1) /\ Len(q) + 1 # 0
    BY <2>1
  <2>3. ToSet(Append(q, x)) = ToSet(q) \union {x}
    BY <2>1, <2>2, SMT DEF ToSet
  <2>4. Append(q, x) # << >>
    BY <2>1, <2>2, EmptySeq
  <2> QED
    BY <2>1, <2>3, <2>4
<1>2. ASSUME q # << >>
      PROVE  /\ Head(q) \in S /\ Tail(q) \in Seq(S)
             /\ ToSet(q) = {Head(q)} \union ToSet(Tail(q))
  <2>1. /\ Head(q) \in S /\ Head(q) = q[1] /\ Tail(q) \in Seq(S)
        /\ Len(Tail(q)) = Len(q) - 1 /\ Len(q) \in Nat \ {0}
        /\ \A i \in 1..Len(Tail(q)) : Tail(q)[i] = q[i + 1]
        /\ DOMAIN q = 1..Len(q) /\ DOMAIN Tail(q) = 1..(Len(q) - 1)
    BY <1>2, HeadTailProperties, LenProperties, EmptySeq
  <2>2. /\ \A i \in 1..Len(q) : i = 1 \/ (i - 1 \in 1..(Len(q) - 1) /\ (i - 1) + 1 = i)
        /\ \A i \in 1..(Len(q) - 1) : i + 1 \in 1..Len(q)
        /\ 1 \in 1..Len(q)
    BY <2>1
  <2>3. \A i \in 1..Len(q) : i = 1 \/ \E j \in 1..(Len(q) - 1) : Tail(q)[j] = q[i]
    BY <2>1, <2>2
  <2>4. \A j \in 1..(Len(q) - 1) : \E i \in 1..Len(q) : Tail(q)[j] = q[i]
    BY <2>1, <2>2
  <2>5. /\ \A x : x \in ToSet(q) <=> \E i \in 1..Len(q) : x = q[i]
        /\ \A x : x \in ToSet(Tail(q)) <=> \E i \in 1..(Len(q) - 1) : x = Tail(q)[i]
    BY <2>1 DEF ToSet
  <2>6. \A x : x \in ToSet(q) <=> x = q[1] \/ x \in ToSet(Tail(q))
    BY <2>2, <2>3, <2>4, <2>5
  <2> QED
    BY <2>1, <2>6
<1> QED
  BY <1>1, <1>2

LEMMA EmptySequence == ToSet(<< >>) = {} /\ \A S : << >> \in Seq(S)
  BY SMT DEF ToSet

(* What can be read in the directory.                                      *)
LEMMA Readables ==
    ASSUME NEW f \in Place
    PROVE  /\ Readable(f) \in Sound
           /\ Sound \subseteq Place /\ Unreadable \in 0..Unreadable /\ 0 \in 0..MaxBuild /\ 0 \in 0..Unreadable
           /\ f \in Sound => Readable(f) = f
<1>1. /\ MaxBuild \in Nat \ {0} /\ Unreadable = MaxBuild + 1
      /\ \A b \in 0..Unreadable : b = Unreadable \/ b \in 0..MaxBuild
      /\ \A b \in 0..MaxBuild : b # Unreadable /\ b \in 0..Unreadable
      /\ Unreadable \in 0..Unreadable /\ 0 \in 0..MaxBuild /\ 0 \in 0..Unreadable
  BY AlikeAssumption DEF Unreadable
<1>2. Readable(f) \in Sound
  BY <1>1 DEF Place, Sound, Readable
<1>3. ASSUME f \in Sound PROVE Readable(f) = f
  BY <1>1, <1>3 DEF Place, Sound, Readable
<1>4. Sound \subseteq Place
  BY <1>1 DEF Place, Sound
<1> QED
  BY <1>1, <1>2, <1>3, <1>4

-----------------------------------------------------------------------------
(* Whatever the indexes are, a package that goes and one that comes in     *)
(* change the list in memory and what is left to be done.                  *)
SameSet(t, u) == u.at = t.at /\ u.type = t.type /\ u.justdb = t.justdb /\ u.touched = t.touched

LEMMA Removing ==
    ASSUME NEW t, TaskType(t), NEW p \in Pkg, NEW qs
    PROVE  LET u == Removed(t, p, qs)
               x == <<IF p \in t.ours THEN "repo" ELSE "db", p>>
           IN  /\ TaskType(u) /\ SameSet(t, u)
               /\ u.dir[p] = 0 /\ \A q \in Pkg \ {p} : u.dir[q] = t.dir[q]
               /\ u.ours = t.ours \ {p} /\ u.added = t.added /\ u.since = t.since
               /\ u.removed = Append(t.removed, x)
               /\ ToSet(u.removed) = ToSet(t.removed) \union {x}
<1> DEFINE u == Removed(t, p, qs)
           f == RemoveFound(t, qs)
           x == <<IF p \in t.ours THEN "repo" ELSE "db", p>>
<1>1. /\ DOMAIN f = Fields /\ f.at = t.at /\ f.type = t.type /\ f.justdb = t.justdb
      /\ f.touched = t.touched /\ f.since = t.since /\ f.dir = t.dir
      /\ f.ours = t.ours /\ f.added = t.added /\ f.removed = t.removed
  BY DEF RemoveFound, TaskType, Fields
<1>2. u = [f EXCEPT !.dir[p] = 0, !.ours = @ \ {p}, !.removed = Append(@, x)]
  BY DEF Removed
<1> HIDE DEF f
<1>3. /\ DOMAIN u = Fields /\ u.at = f.at /\ u.type = f.type /\ u.justdb = f.justdb
      /\ u.touched = f.touched /\ u.since = f.since /\ u.dir = [f.dir EXCEPT ![p] = 0]
      /\ u.ours = f.ours \ {p} /\ u.added = f.added /\ u.removed = Append(f.removed, x)
  BY <1>1, <1>2 DEF Fields
<1>4. u.dir \in Place /\ u.dir[p] = 0 /\ \A q \in Pkg \ {p} : u.dir[q] = t.dir[q]
  <2>1. 0 \in 0..Unreadable
    BY AlikeAssumption DEF Unreadable
  <2> QED
    BY <1>1, <1>3, <2>1 DEF TaskType, Place
<1>5. x \in {"db", "repo"} \X Pkg
  OBVIOUS
<1> HIDE DEF u, x
<1>6. Append(t.removed, x) \in Seq({"db", "repo"} \X Pkg)
      /\ ToSet(Append(t.removed, x)) = ToSet(t.removed) \union {x}
  BY <1>5, Sequences_ DEF TaskType
<1>7. TaskType(u)
  BY <1>1, <1>3, <1>4, <1>6 DEF TaskType
<1>8. SameSet(t, u) /\ u.ours = t.ours \ {p} /\ u.added = t.added /\ u.since = t.since
      /\ u.removed = Append(t.removed, x)
  BY <1>1, <1>3 DEF SameSet
<1> QED
  BY <1>4, <1>6, <1>7, <1>8 DEF u, x

LEMMA Adding ==
    ASSUME TypeInv, NEW t, TaskType(t), NEW p \in Pkg
    PROVE  LET u == Added(t, p)
           IN  /\ TaskType(u) /\ SameSet(t, u) /\ u.removed = t.removed
               /\ t.dir[p] = 0 => u.dir[p] = repo[p] /\ u.ours = t.ours \union {p}
                                  /\ u.since = t.since
               /\ t.dir[p] # 0 => u.dir[p] = t.dir[p] /\ u.ours = t.ours
                                  /\ u.since = t.since \union {p}
               /\ \A q \in Pkg \ {p} : u.dir[q] = t.dir[q]
               /\ u.added # << >> /\ ToSet(u.added) = ToSet(t.added) \union {p}
<1> DEFINE u == Added(t, p)
           f == AddToSet(t, p)
<1>1. /\ DOMAIN f = Fields /\ f.at = t.at /\ f.type = t.type /\ f.justdb = t.justdb
      /\ f.touched = t.touched /\ f.since = t.since /\ f.dir = t.dir
      /\ f.ours = t.ours /\ f.added = t.added /\ f.removed = t.removed
  <2>1. CASE \E q \in t.ps : SameNevr(Set, p, q)
    BY <2>1 DEF AddToSet, TaskType
  <2>2. CASE ~ \E q \in t.ps : SameNevr(Set, p, q)
    BY <2>2 DEF AddToSet, TaskType, Fields
  <2> QED
    BY <2>1, <2>2
<1>2. u = [f EXCEPT !.dir[p] = IF @ = 0 THEN repo[p] ELSE @,
                    !.ours = IF t.dir[p] = 0 THEN @ \union {p} ELSE @,
                    !.since = IF t.dir[p] = 0 THEN @ ELSE @ \union {p},
                    !.added = Append(@, p)]
  BY DEF Added
<1> HIDE DEF f
<1>3. /\ DOMAIN u = Fields /\ u.at = f.at /\ u.type = f.type /\ u.justdb = f.justdb
      /\ u.touched = f.touched /\ u.removed = f.removed /\ u.added = Append(f.added, p)
      /\ u.dir = [f.dir EXCEPT ![p] = IF f.dir[p] = 0 THEN repo[p] ELSE f.dir[p]]
      /\ u.ours = IF t.dir[p] = 0 THEN f.ours \union {p} ELSE f.ours
      /\ u.since = IF t.dir[p] = 0 THEN f.since ELSE f.since \union {p}
  BY <1>1, <1>2 DEF Fields
<1>4. /\ u.dir \in Place /\ u.dir[p] = IF t.dir[p] = 0 THEN repo[p] ELSE t.dir[p]
      /\ \A q \in Pkg \ {p} : u.dir[q] = t.dir[q]
  <2>1. repo[p] \in 0..Unreadable
    BY AlikeAssumption DEF Unreadable, TypeInv, Sound
  <2> QED
    BY <1>1, <1>3, <2>1 DEF TaskType, Place
<1> HIDE DEF u
<1>5. /\ Append(t.added, p) \in Seq(Pkg) /\ Append(t.added, p) # << >>
      /\ ToSet(Append(t.added, p)) = ToSet(t.added) \union {p}
  BY Sequences_ DEF TaskType
<1>6. TaskType(u)
  BY <1>1, <1>3, <1>4, <1>5 DEF TaskType
<1> QED
  BY <1>1, <1>3, <1>4, <1>5, <1>6 DEF u, SameSet

-----------------------------------------------------------------------------
(* Sessions that are told of files and nothing else.                       *)
LEMMA Telling ==
    ASSUME NEW t, TaskType(t), NEW P \in SUBSET Pkg
    PROVE  LET u == [t EXCEPT !.since = @ \union P]
           IN  /\ TaskType(u) /\ SameSet(t, u) /\ u.since = t.since \union P
               /\ u.dir = t.dir /\ u.ours = t.ours /\ u.removed = t.removed /\ u.added = t.added
               /\ OwnInv(t) => OwnInv(u)
               /\ \A q, fs, rs, d : Agrees(u, q, fs, rs, d) <=> Agrees(t, q, fs, rs, d)
<1> DEFINE u == [t EXCEPT !.since = @ \union P]
<1>1. /\ DOMAIN u = Fields /\ u.at = t.at /\ u.type = t.type /\ u.justdb = t.justdb
      /\ u.touched = t.touched /\ u.since = t.since \union P
      /\ u.dir = t.dir /\ u.ours = t.ours /\ u.removed = t.removed /\ u.added = t.added
  BY DEF TaskType, Fields
<1> HIDE DEF u
<1>2. TaskType(u)
  BY <1>1 DEF TaskType
<1>3. OwnInv(t) => OwnInv(u)
  BY <1>1 DEF OwnInv
<1>4. ASSUME NEW q, NEW fs, NEW rs, NEW d
      PROVE  Agrees(u, q, fs, rs, d) <=> Agrees(t, q, fs, rs, d)
  BY <1>1 DEF Agrees, Pending
<1> QED
  BY <1>1, <1>2, <1>3, <1>4 DEF u, SameSet

(* Elsewhere nothing has changed, or a source has lost the file.           *)
LEMMA StillAgrees ==
    ASSUME NEW t, NEW q \in Pkg, NEW fs, NEW gs, NEW rs, NEW ss, NEW d, NEW e,
           Agrees(t, q, fs, rs, d), gs[q] = fs[q], ss[q] \in {0, rs[q]}, q \in d => q \in e
    PROVE  Agrees(t, q, gs, ss, e)
<1>1. Readable(gs)[q] = Readable(fs)[q]
  BY DEF Readable
<1> QED
  BY <1>1 DEF Agrees

(* A step of a session that touches no file of the directory.              *)
LEMMA OneChanges ==
    ASSUME IInv, NEW s \in Session, NEW t, TaskType(t), Become(s, t),
           UNCHANGED <<files, index, scan, torn>>,
           repo' \in Sound, \A p \in Pkg : repo'[p] \in {0, repo[p]},
           t.touched = task[s].touched, OwnInv(t), PlanInv(t, files, repo', torn),
           \A o \in Session \ {s} : Told(t, task[o]) /\ Told(task[o], t)
    PROVE  IInv'
<1>1. /\ DOMAIN task' = Session /\ task'[s] = t
      /\ \A o \in Session \ {s} : task'[o] = task[o]
  BY DEF Become, IInv, TypeInv
<1>2. TypeInv'
  BY <1>1 DEF IInv, TypeInv
<1>3. ASSUME NEW o \in Session
      PROVE  Each(o)'
  <2>1. CASE o = s
    BY <1>1, <2>1 DEF IInv, Each
  <2>2. CASE o # s
    <3>1. PlanInv(task[o], files, repo', torn)
      BY StillAgrees DEF IInv, Each, PlanInv
    <3> QED
      BY <1>1, <2>2, <3>1 DEF IInv, Each
  <2> QED
    BY <2>1, <2>2
<1>4. \A x, o \in Session : x # o => Told(task'[x], task'[o])
  BY <1>1 DEF IInv
<1>5. ScanInv(scan, files, torn)'
  BY DEF IInv
<1>6. DamageIsKnown'
  <2>1. \A o \in Session : task'[o].touched = task[o].touched
    BY <1>1
  <2>2. UNION {task'[o].touched : o \in Session} = UNION {task[o].touched : o \in Session}
    BY <2>1
  <2> QED
    BY <2>2 DEF IInv, DamageIsKnown, Readable
<1> QED
  BY <1>2, <1>3, <1>4, <1>5, <1>6 DEF IInv

(* A session that leaves, with or without the index written.               *)
LEMMA OneLeaves ==
    ASSUME IInv, NEW s \in Session, Become(s, Away), UNCHANGED <<files, repo, scan>>,
           index' \in [at : {"broken", "whole"}, pkgs : Place], torn' \subseteq Pkg,
           \A p \in torn \ torn' : p \in task[s].touched,
           index'.at = "whole" =>
             \A p \in Pkg \ torn' : (\A o \in Session \ {s} : p \notin task[o].touched) =>
                index'.pkgs[p] = Readable(files)[p],
           task[s].at # "away"
    PROVE  IInv'
<1>1. /\ DOMAIN task' = Session /\ task'[s] = Away
      /\ \A o \in Session \ {s} : task'[o] = task[o]
  BY DEF Become, IInv, TypeInv
<1>2. TaskType(Away) /\ Away.at = "away" /\ Away.touched = {}
  <2>1. 0 \in 0..Unreadable
    BY AlikeAssumption DEF Unreadable
  <2>2. [p \in Pkg |-> 0] \in Place
    BY <2>1 DEF Place
  <2> QED
    BY <2>2 DEF TaskType, Away, Fields
<1>3. TypeInv'
  BY <1>1, <1>2 DEF IInv, TypeInv
<1>4. ASSUME NEW o \in Session
      PROVE  Each(o)'
  <2>1. CASE o = s
    BY <1>1, <1>2, <2>1 DEF IInv, Each, OwnInv, PlanInv
  <2>2. CASE o # s
    <3>1. Told(task[o], task[s])
      BY <2>2 DEF IInv
    <3>2. PlanInv(task[o], files, repo, torn')
      <4> SUFFICES ASSUME task[o].at # "away", task[o].type = "index",
                          NEW p \in Pkg \ task[o].since
                   PROVE  Agrees(task[o], p, files, repo, torn')
        BY DEF PlanInv
      <4>1. p \in torn => p \in torn'
        BY <3>1 DEF Told
      <4>2. Agrees(task[o], p, files, repo, torn)
        BY DEF IInv, Each, PlanInv
      <4> QED
        BY <4>1, <4>2, StillAgrees
    <3> QED
      BY <1>1, <2>2, <3>2 DEF IInv, Each
  <2> QED
    BY <2>1, <2>2
<1>5. \A x, o \in Session : x # o => Told(task'[x], task'[o])
  BY <1>1, <1>2 DEF IInv, Told
<1>6. ScanInv(scan, files, torn)'
  <2> SUFFICES ASSUME scan.at = "read", NEW p \in Pkg \ scan.since
               PROVE  p \in torn => p \in torn'
    BY DEF IInv, ScanInv
  <2> QED
    BY DEF IInv, Each
<1>7. DamageIsKnown'
  <2> SUFFICES ASSUME index'.at = "whole",
                      NEW p \in Pkg \ (torn' \union UNION {task'[o].touched : o \in Session})
               PROVE  index'.pkgs[p] = Readable(files')[p]
    BY DEF DamageIsKnown
  <2>1. \A o \in Session \ {s} : p \notin task[o].touched
    BY <1>1
  <2> QED
    BY <2>1 DEF Readable
<1> QED
  BY <1>3, <1>4, <1>5, <1>6, <1>7 DEF IInv

(* A file or the entry of one is changed, by one of the sessions in X, or  *)
(* by none of them; all others that are at work are told.                  *)
LEMMA OneTouches ==
    ASSUME IInv, NEW X \in SUBSET Session, NEW p \in Pkg,
           DOMAIN task' = Session,
           \A o \in Session \ X : task'[o] = IF task[o].at = "away" THEN task[o]
                                             ELSE [task[o] EXCEPT !.since = @ \union {p}],
           \A s, o \in X : s = o,
           \A s \in X : /\ TaskType(task'[s]) /\ OwnInv(task'[s]) /\ task[s].at # "away"
                        /\ PlanInv(task'[s], files', repo, torn')
                        /\ task'[s].at # "away" => task'[s].since = task[s].since
                        /\ task'[s].touched \subseteq task[s].touched \union {p}
                        /\ task[s].touched \union {p} \subseteq task'[s].touched \union torn',
           X = {} => p \in torn',
           scan' = [scan EXCEPT !.since = @ \union {p}], UNCHANGED <<repo, index>>,
           files' \in Place, \A q \in Pkg \ {p} : files'[q] = files[q],
           torn \subseteq torn', torn' \subseteq Pkg
    PROVE  IInv'
<1>1. /\ \A o \in Session : TaskType(task[o]) /\ Each(o)
      /\ scan'.at = scan.at /\ scan'.prev = scan.prev /\ scan'.found = scan.found
      /\ scan'.todo = scan.todo /\ scan'.since = scan.since \union {p}
      /\ scan' \in [at : {"away", "read", "save"}, prev : Place, found : Place,
                    todo : SUBSET Pkg, since : SUBSET Pkg]
  BY DEF IInv, TypeInv
<1>2. ASSUME NEW o \in Session \ X
      PROVE  /\ TaskType(task'[o]) /\ OwnInv(task'[o]) /\ SameSet(task[o], task'[o])
             /\ task[o].at # "away" => task'[o].since = task[o].since \union {p}
             /\ PlanInv(task'[o], files', repo, torn')
  <2>1. CASE task[o].at = "away"
    BY <1>1, <2>1 DEF Each, SameSet, PlanInv
  <2>2. CASE task[o].at # "away"
    <3> DEFINE u == [task[o] EXCEPT !.since = @ \union {p}]
    <3>1. task'[o] = u
      BY <2>2
    <3>2. /\ TaskType(u) /\ OwnInv(u) /\ SameSet(task[o], u) /\ u.since = task[o].since \union {p}
          /\ \A q, fs, rs, d : Agrees(u, q, fs, rs, d) <=> Agrees(task[o], q, fs, rs, d)
      <4>1. {p} \in SUBSET Pkg
        OBVIOUS
      <4>2. TaskType(task[o]) /\ OwnInv(task[o])
        BY <1>1 DEF Each
      <4> QED
        BY <4>1, <4>2, Telling, Zenon
    <3>3. PlanInv(u, files', repo, torn')
      <4> SUFFICES ASSUME u.type = "index", NEW q \in Pkg \ u.since
                   PROVE  Agrees(u, q, files', repo, torn')
        BY DEF PlanInv
      <4>1. task[o].type = "index" /\ q \in Pkg \ task[o].since /\ q # p
        BY <3>2 DEF SameSet
      <4>2. Agrees(task[o], q, files, repo, torn)
        BY <1>1, <2>2, <4>1 DEF Each, PlanInv
      <4>3. Agrees(task[o], q, files', repo, torn')
        BY <4>1, <4>2, StillAgrees
      <4> QED
        BY <3>2, <4>3
    <3> QED
      BY <2>2, <3>1, <3>2, <3>3
  <2> QED
    BY <2>1, <2>2
<1>3. ASSUME NEW o \in Session
      PROVE  /\ TaskType(task'[o]) /\ OwnInv(task'[o]) /\ PlanInv(task'[o], files', repo, torn')
             /\ task'[o].touched \subseteq task[o].touched \union {p}
             /\ task[o].touched \subseteq task'[o].touched \union torn'
             /\ task'[o].at # "away" => task[o].at # "away" /\ task[o].since \subseteq task'[o].since
             /\ o \notin X /\ task'[o].at # "away" => p \in task'[o].since
             /\ o \notin X => task'[o].touched = task[o].touched
  <2>1. CASE o \in X
    BY <2>1
  <2>2. CASE o \notin X
    BY <1>2, <2>2 DEF SameSet
  <2> QED
    BY <2>1, <2>2
<1>4. TypeInv'
  BY <1>1, <1>3 DEF IInv, TypeInv
<1>5. ASSUME NEW o \in Session
      PROVE  Each(o)'
  BY <1>1, <1>3 DEF Each
<1>6. ASSUME NEW x \in Session, NEW o \in Session, x # o
      PROVE  Told(task'[x], task'[o])
  <2> SUFFICES ASSUME task'[x].at # "away", task'[o].at # "away"
               PROVE  task'[o].touched \subseteq task'[x].since
    BY DEF Told
  <2>1. task[o].touched \subseteq task[x].since
    BY <1>3, <1>6 DEF IInv, Told
  <2>2. CASE x \in X
    <3>1. o \notin X
      BY <1>6, <2>2
    <3> QED
      BY <1>3, <2>1, <3>1
  <2>3. CASE x \notin X
    BY <1>3, <2>1, <2>3
  <2> QED
    BY <2>2, <2>3
<1>7. ScanInv(scan, files, torn)'
  <2> SUFFICES ASSUME scan.at = "read", NEW q \in Pkg \ scan'.since
               PROVE  /\ q \in Pkg \ scan.since
                      /\ q \in torn => q \in torn'
                      /\ Readable(files')[q] = Readable(files)[q]
    BY <1>1 DEF IInv, ScanInv
  <2>1. files'[q] = files[q]
    BY <1>1
  <2> QED
    BY <1>1, <2>1 DEF Readable
<1>8. DamageIsKnown'
  <2> SUFFICES ASSUME index.at = "whole", NEW q \in Pkg \ torn',
                      \A o \in Session : q \notin task'[o].touched
               PROVE  index.pkgs[q] = Readable(files')[q]
    BY DEF DamageIsKnown
  <2>1. \A o \in Session : q \notin task[o].touched
    BY <1>3
  <2>2. q # p
    OBVIOUS
  <2>3. index.pkgs[q] = Readable(files)[q]
    BY <2>1 DEF IInv, DamageIsKnown
  <2> QED
    BY <2>2, <2>3 DEF Readable
<1> QED
  BY <1>4, <1>5, <1>6, <1>7, <1>8 DEF IInv

-----------------------------------------------------------------------------
(* A transaction up to its commit.                                         *)
LEMMA AwayIs ==
    /\ TaskType(Away) /\ Away.at = "away" /\ Away.touched = {} /\ OwnInv(Away)
    /\ \A fs, rs, d : PlanInv(Away, fs, rs, d)
    /\ \A t : Told(Away, t) /\ Told(t, Away)
<1>1. 0 \in 0..Unreadable
  BY AlikeAssumption DEF Unreadable
<1>2. [p \in Pkg |-> 0] \in Place
  BY <1>1 DEF Place
<1>3. TaskType(Away) /\ Away.at = "away" /\ Away.touched = {}
  BY <1>2 DEF TaskType, Away, Fields
<1> QED
  BY <1>3 DEF OwnInv, PlanInv, Told

LEMMA OpenSteps ==
    ASSUME IInv, NEW s \in Session, Open(s)
    PROVE  IInv'
<1>1. /\ task[s].at = "away" /\ task[s].touched = {} /\ Touching(s) \subseteq Pkg
      /\ files \in Place /\ repo \in Sound /\ index.pkgs \in Place
      /\ \A o \in Session \ {s} : task[o].touched \subseteq Touching(s)
  BY DEF Open, IInv, TypeInv, Each, OwnInv, Touching, TaskType
<1>2. ASSUME NEW t, DOMAIN t = Fields, t.at = "open", t.justdb \in BOOLEAN, t.dir \in Place,
             \/ t.type = "dir"
             \/ t.type = "index" /\ index.at = "whole" /\ t.dir = index.pkgs,
             t.ours = {}, t.removed = << >>, t.added = << >>, t.touched = {},
             t.since = Touching(s), Become(s, t),
             UNCHANGED <<files, repo, index, scan, torn>>
      PROVE  IInv'
  <2>2. /\ << >> \in Seq({"db", "repo"} \X Pkg) /\ << >> \in Seq(Pkg)
        /\ ToSet(t.removed) = {} /\ ToSet(t.added) = {}
    BY <1>2, EmptySequence
  <2>3. TaskType(t)
    BY <1>1, <1>2, <2>2 DEF TaskType
  <2>4. OwnInv(t)
    BY <1>2, <2>2 DEF OwnInv
  <2>5. PlanInv(t, files, repo, torn)
    <3> SUFFICES ASSUME index.at = "whole", t.dir = index.pkgs, NEW p \in Pkg \ Touching(s)
                 PROVE  Agrees(t, p, files, repo, torn)
      BY <1>2 DEF PlanInv
    <3>1. \A o \in Session : p \notin task[o].touched
      BY <1>1
    <3>2. p \in torn \/ index.pkgs[p] = Readable(files)[p]
      BY <3>1 DEF IInv, DamageIsKnown
    <3> QED
      BY <1>2, <2>2, <3>2 DEF Agrees, Pending
  <2>6. \A o \in Session \ {s} : Told(t, task[o]) /\ Told(task[o], t)
    BY <1>1, <1>2 DEF Told
  <2> QED
    BY <1>1, <1>2, <2>3, <2>4, <2>5, <2>6, OneChanges
<1>3. UNCHANGED <<files, repo, index, scan, torn>>
  BY DEF Open
<1>4. CASE UNCHANGED task
  BY <1>3, <1>4 DEF IInv, TypeInv, Each, DamageIsKnown
<1> DEFINE t0 == [Away EXCEPT !.at = "open", !.since = Touching(s)]
<1>5. CASE /\ index.at = "whole"
           /\ \E justdb \in BOOLEAN :
                Become(s, [t0 EXCEPT !.justdb = justdb, !.dir = index.pkgs,
                                     !.ps = Held(index.pkgs)])
  <2>1. PICK justdb \in BOOLEAN :
           Become(s, [t0 EXCEPT !.justdb = justdb, !.dir = index.pkgs, !.ps = Held(index.pkgs)])
    BY <1>5
  <2> DEFINE t == [t0 EXCEPT !.justdb = justdb, !.dir = index.pkgs, !.ps = Held(index.pkgs)]
  <2>2. /\ DOMAIN t = Fields /\ t.at = "open" /\ t.type = "index" /\ t.justdb = justdb
        /\ t.dir = index.pkgs /\ t.ours = {} /\ t.removed = << >> /\ t.added = << >>
        /\ t.touched = {} /\ t.since = Touching(s)
    BY DEF Away, Fields
  <2> HIDE DEF t, t0
  <2>3. Become(s, t)
    BY <2>1 DEF t
  <2> QED
    BY <1>1, <1>2, <1>3, <1>5, <2>2, <2>3
<1>6. CASE \E justdb \in BOOLEAN :
                Become(s, [t0 EXCEPT !.justdb = justdb, !.type = "dir", !.dir = Readable(files),
                                     !.ps = Held(Readable(files))])
  <2>1. PICK justdb \in BOOLEAN :
           Become(s, [t0 EXCEPT !.justdb = justdb, !.type = "dir", !.dir = Readable(files),
                                !.ps = Held(Readable(files))])
    BY <1>6
  <2> DEFINE t == [t0 EXCEPT !.justdb = justdb, !.type = "dir", !.dir = Readable(files),
                             !.ps = Held(Readable(files))]
  <2>2. /\ DOMAIN t = Fields /\ t.at = "open" /\ t.type = "dir" /\ t.justdb = justdb
        /\ t.dir = Readable(files) /\ t.ours = {} /\ t.removed = << >> /\ t.added = << >>
        /\ t.touched = {} /\ t.since = Touching(s)
    BY DEF Away, Fields
  <2> HIDE DEF t, t0
  <2>3. Become(s, t)
    BY <2>1 DEF t
  <2>4. Readable(files) \in Place
    BY <1>1, Readables
  <2> QED
    BY <1>2, <1>3, <2>2, <2>3, <2>4
<1> QED
  BY <1>4, <1>5, <1>6 DEF Open

LEMMA SearchSteps ==
    ASSUME IInv, NEW s \in Session, SearchCaps(s) \/ SearchReqs(s)
    PROVE  IInv'
<1>1. TaskType(task[s]) /\ Each(s) /\ task[s].at = "open"
  BY DEF IInv, TypeInv, SearchCaps, SearchReqs
<1>2. ASSUME NEW t, DOMAIN t = Fields, SameSet(task[s], t), t.dir = task[s].dir,
             t.ours = task[s].ours, t.removed = task[s].removed, t.added = task[s].added,
             t.since = task[s].since, Become(s, t)
      PROVE  IInv'
  <2>1. TaskType(t) /\ OwnInv(t) /\ PlanInv(t, files, repo, torn)
    BY <1>1, <1>2 DEF TaskType, OwnInv, PlanInv, Agrees, Pending, SameSet, Each
  <2>2. \A o \in Session \ {s} : Told(t, task[o]) /\ Told(task[o], t)
    BY <1>2 DEF IInv, Told, SameSet
  <2>3. UNCHANGED <<files, repo, index, scan, torn>> /\ repo \in Sound
    BY DEF SearchCaps, SearchReqs, IInv, TypeInv
  <2> QED
    BY <1>2, <2>1, <2>2, <2>3, OneChanges DEF SameSet
<1>3. CASE SearchCaps(s)
  <2>1. PICK caps, paths : Become(s, [task[s] EXCEPT !.caps = caps, !.paths = paths])
    BY <1>3 DEF SearchCaps
  <2> DEFINE t == [task[s] EXCEPT !.caps = caps, !.paths = paths]
  <2>2. /\ DOMAIN t = Fields /\ SameSet(task[s], t) /\ t.dir = task[s].dir
        /\ t.ours = task[s].ours /\ t.removed = task[s].removed /\ t.added = task[s].added
        /\ t.since = task[s].since
    BY <1>1 DEF TaskType, Fields, SameSet
  <2> QED
    BY <1>2, <2>1, <2>2
<1>4. CASE SearchReqs(s)
  <2>1. PICK reqs : Become(s, [task[s] EXCEPT !.reqs = reqs])
    BY <1>4 DEF SearchReqs
  <2> DEFINE t == [task[s] EXCEPT !.reqs = reqs]
  <2>2. /\ DOMAIN t = Fields /\ SameSet(task[s], t) /\ t.dir = task[s].dir
        /\ t.ours = task[s].ours /\ t.removed = task[s].removed /\ t.added = task[s].added
        /\ t.since = task[s].since
    BY <1>1 DEF TaskType, Fields, SameSet
  <2> QED
    BY <1>2, <2>1, <2>2
<1> QED
  BY <1>3, <1>4

(* A package to be removed, and one to be installed.                       *)
Begun(t) == /\ TaskType(t) /\ t.at = "open" /\ t.touched = {}
            /\ OwnInv(t) /\ PlanInv(t, files, repo, torn)

LEMMA RemovingKeeps ==
    ASSUME NEW t, Begun(t), NEW p \in Pkg, NEW qs
    PROVE  Begun(Removed(t, p, qs)) /\ Removed(t, p, qs).since = t.since
<1> DEFINE u == Removed(t, p, qs)
           where == IF p \in t.ours THEN "repo" ELSE "db"
<1>1. /\ TaskType(u) /\ SameSet(t, u)
      /\ u.dir[p] = 0 /\ \A q \in Pkg \ {p} : u.dir[q] = t.dir[q]
      /\ u.ours = t.ours \ {p} /\ u.added = t.added /\ u.since = t.since
      /\ ToSet(u.removed) = ToSet(t.removed) \union {<<where, p>>}
  BY Removing DEF Begun
<1>2. /\ where \in {"db", "repo"} /\ (where = "repo" <=> p \in t.ours)
  OBVIOUS
<1> HIDE DEF u, where
<1>3. /\ t.ours \subseteq ToSet(t.added) /\ t.at = "open" /\ t.touched = {}
      /\ \A q \in Pkg : <<"repo", q>> \in ToSet(t.removed) => q \in ToSet(t.added)
      /\ \A q \in ToSet(t.added) \ t.since : q \in t.ours \/ <<"repo", q>> \in ToSet(t.removed)
  BY DEF Begun, OwnInv
<1>4. OwnInv(u)
  BY <1>1, <1>2, <1>3 DEF OwnInv, SameSet
<1>5. PlanInv(u, files, repo, torn)
  <2> SUFFICES ASSUME t.type = "index", NEW q \in Pkg \ t.since
               PROVE  Agrees(u, q, files, repo, torn)
    BY <1>1 DEF PlanInv, SameSet
  <2>1. Agrees(t, q, files, repo, torn)
    BY <1>3 DEF Begun, PlanInv
  <2>2. CASE q = p
    <3>1. Pending(u, p)
      BY <1>1, <1>2 DEF Pending
    <3>2. p \in ToSet(u.added) => <<"repo", p>> \in ToSet(u.removed)
      BY <1>1, <1>2, <1>3, <2>2
    <3> QED
      BY <1>1, <2>2, <3>1, <3>2 DEF Agrees
  <2>3. CASE q # p
    <3>1. /\ u.dir[q] = t.dir[q]
          /\ Pending(u, q) <=> Pending(t, q)
          /\ <<"repo", q>> \in ToSet(u.removed) <=> <<"repo", q>> \in ToSet(t.removed)
      BY <1>1, <2>3 DEF Pending
    <3> QED
      BY <1>1, <2>1, <3>1 DEF Agrees, SameSet
  <2> QED
    BY <2>2, <2>3
<1> QED
  BY <1>1, <1>3, <1>4, <1>5 DEF Begun, SameSet, u

LEMMA AddingKeeps ==
    ASSUME TypeInv, NEW t, Begun(t), NEW p \in Pkg
    PROVE  Begun(Added(t, p)) /\ t.since \subseteq Added(t, p).since
<1> DEFINE u == Added(t, p)
<1>1. /\ TaskType(u) /\ SameSet(t, u) /\ u.removed = t.removed
      /\ t.dir[p] = 0 => u.dir[p] = repo[p] /\ u.ours = t.ours \union {p}
                         /\ u.since = t.since
      /\ t.dir[p] # 0 => u.dir[p] = t.dir[p] /\ u.ours = t.ours
                         /\ u.since = t.since \union {p}
      /\ \A q \in Pkg \ {p} : u.dir[q] = t.dir[q]
      /\ ToSet(u.added) = ToSet(t.added) \union {p}
  <2>1. TaskType(t)
    BY DEF Begun
  <2> QED
    BY <2>1, Adding
<1> HIDE DEF u
<1>2. /\ t.ours \subseteq ToSet(t.added) /\ t.at = "open" /\ t.touched = {}
      /\ \A q \in Pkg : <<"repo", q>> \in ToSet(t.removed) => q \in ToSet(t.added)
      /\ \A q \in ToSet(t.added) \ t.since : q \in t.ours \/ <<"repo", q>> \in ToSet(t.removed)
  BY DEF Begun, OwnInv
<1>3. OwnInv(u)
  BY <1>1, <1>2 DEF OwnInv, SameSet
<1>4. PlanInv(u, files, repo, torn)
  <2> SUFFICES ASSUME t.type = "index", NEW q \in Pkg \ u.since
               PROVE  Agrees(u, q, files, repo, torn)
    BY <1>1 DEF PlanInv, SameSet
  <2>1. q \in Pkg \ t.since
    BY <1>1
  <2>2. Agrees(t, q, files, repo, torn)
    BY <1>2, <2>1 DEF Begun, PlanInv
  <2>3. CASE q = p
    BY <1>1, <2>3 DEF Agrees
  <2>4. CASE q # p
    <3>1. /\ u.dir[q] = t.dir[q]
          /\ Pending(u, q) <=> Pending(t, q)
          /\ q \in ToSet(u.added) <=> q \in ToSet(t.added)
      BY <1>1, <2>4 DEF Pending
    <3> QED
      BY <1>1, <2>2, <3>1 DEF Agrees, SameSet
  <2> QED
    BY <2>3, <2>4
<1> QED
  BY <1>1, <1>2, <1>3, <1>4 DEF Begun, SameSet, u

LEMMA GroupSteps ==
    ASSUME IInv, NEW s \in Session, Uninstall(s) \/ Install(s)
    PROVE  IInv'
<1>1. task[s].at = "open" /\ Begun(task[s])
  BY DEF Uninstall, Install, Installing, IInv, TypeInv, Each, OwnInv, Begun
<1>2. ASSUME NEW un \in Groups(s), NEW t \in Without(s, un)
      PROVE  Begun(t) /\ t.since = task[s].since
  <2>1. CASE un = {}
    BY <1>1, <1>2, <2>1 DEF Without
  <2>2. CASE un # {}
    <3>1. PICK p \in un : \E qs : t = Removed(task[s], p, qs)
      BY <1>2, <2>2 DEF Without
    <3>2. p \in Pkg
      BY DEF Groups, Held
    <3> QED
      BY <1>1, <3>1, <3>2, RemovingKeeps
  <2> QED
    BY <2>1, <2>2
<1>3. ASSUME NEW t, Begun(t), task[s].since \subseteq t.since, Become(s, t)
      PROVE  IInv'
  <2>1. \A o \in Session \ {s} : Told(t, task[o]) /\ Told(task[o], t)
    BY <1>1, <1>3 DEF IInv, Told, Begun
  <2>2. UNCHANGED <<files, repo, index, scan, torn>> /\ repo \in Sound
    BY DEF Uninstall, Install, IInv, TypeInv
  <2> QED
    BY <1>1, <1>3, <2>1, <2>2, OneChanges DEF Begun
<1>4. CASE Uninstall(s)
  <2>1. PICK un \in Groups(s) : \E t \in Without(s, un) : Become(s, t)
    BY <1>4 DEF Uninstall, Grouped
  <2> QED
    BY <1>2, <1>3, <2>1
<1>5. CASE Install(s)
  <2>1. PICK un \in Groups(s), p \in Held(repo) :
           \E t \in Without(s, un) : Become(s, Added(t, p))
    BY <1>5 DEF Install, Grouped
  <2>2. p \in Pkg /\ TypeInv
    BY DEF Held, IInv
  <2>5. PICK t \in Without(s, un) : Become(s, Added(t, p))
    BY <2>1
  <2>3. Begun(t) /\ t.since = task[s].since
    BY <1>2
  <2>4. Begun(Added(t, p)) /\ t.since \subseteq Added(t, p).since
    BY <2>2, <2>3, AddingKeeps
  <2> QED
    BY <1>3, <2>5, <2>3, <2>4
<1> QED
  BY <1>4, <1>5

(* It fails, or goes on to the commit.                                     *)
LEMMA EndingSteps ==
    ASSUME IInv, NEW s \in Session, InstallAsserts(s) \/ GroupFails(s) \/ Commit(s)
    PROVE  IInv'
<1>1. /\ task[s].at = "open" /\ TaskType(task[s]) /\ task[s].touched = {}
      /\ OwnInv(task[s]) /\ PlanInv(task[s], files, repo, torn) /\ repo \in Sound
      /\ UNCHANGED <<files, repo, index, scan, torn>>
  BY DEF InstallAsserts, GroupFails, Commit, Installing, IInv, TypeInv, Each, OwnInv
<1>2. CASE Become(s, Away)
  BY <1>1, <1>2, AwayIs, OneChanges
<1> DEFINE t == [task[s] EXCEPT !.at = "commit", !.ps = {}, !.ours = {},
                                !.caps = NotBuilt, !.paths = NoFiles, !.reqs = NotBuilt]
<1>3. CASE Become(s, t)
  <2>1. /\ DOMAIN t = Fields /\ t.at = "commit" /\ t.type = task[s].type
        /\ t.justdb = task[s].justdb /\ t.dir = task[s].dir /\ t.ours = {}
        /\ t.removed = task[s].removed /\ t.added = task[s].added
        /\ t.touched = task[s].touched /\ t.since = task[s].since
    BY <1>1 DEF TaskType, Fields
  <2> HIDE DEF t
  <2>2. TaskType(t)
    BY <1>1, <2>1 DEF TaskType
  <2>3. OwnInv(t)
    BY <1>1, <2>1 DEF OwnInv
  <2>4. PlanInv(t, files, repo, torn)
    BY <1>1, <2>1 DEF PlanInv, Agrees, Pending
  <2>5. \A o \in Session \ {s} : Told(t, task[o]) /\ Told(task[o], t)
    BY <1>1, <2>1 DEF IInv, Told
  <2> QED
    BY <1>1, <1>3, <2>1, <2>2, <2>3, <2>4, <2>5, OneChanges
<1> QED
  BY <1>2, <1>3 DEF InstallAsserts, GroupFails, Commit

-----------------------------------------------------------------------------
(* The commit.  When it stops nothing is lost but what is known to be.     *)
LEMMA DoubtSteps ==
    ASSUME IInv, NEW s \in Session, Become(s, Away), Doubt(s), UNCHANGED <<files, repo, scan>>,
           index' = index \/ index' = [index EXCEPT !.at = "broken"], task[s].at # "away"
    PROVE  IInv'
<1>1. torn' = torn \union task[s].touched /\ task[s].touched \subseteq Pkg
  BY DEF Doubt, IInv, TypeInv, TaskType
<1>2. torn' \subseteq Pkg /\ index' \in [at : {"broken", "whole"}, pkgs : Place]
  BY <1>1 DEF IInv, TypeInv
<1>3. index'.at = "whole" => index.at = "whole" /\ index'.pkgs = index.pkgs
  BY DEF IInv, TypeInv
<1>4. ASSUME index'.at = "whole", NEW p \in Pkg \ torn',
             \A o \in Session \ {s} : p \notin task[o].touched
      PROVE  index'.pkgs[p] = Readable(files)[p]
  <2>1. \A o \in Session : p \notin task[o].touched
    BY <1>1, <1>4
  <2> QED
    BY <1>1, <1>3, <1>4, <2>1 DEF IInv, DamageIsKnown
<1> QED
  BY <1>1, <1>2, <1>4, OneLeaves

(* The session s changes p and is then at u.                               *)
LEMMA TouchSteps ==
    ASSUME IInv, NEW s \in Session, NEW u, NEW p \in Pkg, Touch(s, u, p),
           task[s].at # "away", TaskType(u), OwnInv(u), PlanInv(u, files', repo, torn'),
           u.at # "away" => u.since = task[s].since,
           u.touched \subseteq task[s].touched \union {p},
           task[s].touched \union {p} \subseteq u.touched \union torn',
           UNCHANGED <<repo, index>>, files' \in Place,
           \A q \in Pkg \ {p} : files'[q] = files[q], torn \subseteq torn', torn' \subseteq Pkg
    PROVE  IInv'
<1>1. /\ DOMAIN task' = Session /\ task'[s] = u
      /\ \A o \in Session \ {s} : task'[o] = IF task[o].at = "away" THEN task[o]
                                             ELSE [task[o] EXCEPT !.since = @ \union {p}]
      /\ scan' = [scan EXCEPT !.since = @ \union {p}]
  BY DEF Touch
<1> DEFINE X == {s}
<1>2. /\ X \in SUBSET Session /\ X # {} /\ \A x, o \in X : x = o
      /\ \A o \in Session \ X : task'[o] = IF task[o].at = "away" THEN task[o]
                                           ELSE [task[o] EXCEPT !.since = @ \union {p}]
      /\ \A x \in X : /\ TaskType(task'[x]) /\ OwnInv(task'[x]) /\ task[x].at # "away"
                      /\ PlanInv(task'[x], files', repo, torn')
                      /\ task'[x].at # "away" => task'[x].since = task[x].since
                      /\ task'[x].touched \subseteq task[x].touched \union {p}
                      /\ task[x].touched \union {p} \subseteq task'[x].touched \union torn'
  BY <1>1
<1> HIDE DEF X
<1> QED
  BY <1>1, <1>2, OneTouches

(* Half of a file is written.                                              *)
LEMMA HalfSteps ==
    ASSUME IInv, NEW s \in Session, NEW p \in Pkg, HalfCopied(s, Away, p),
           task[s].at # "away", UNCHANGED <<repo, index>>
    PROVE  IInv'
<1>1. /\ files \in Place /\ Unreadable \in 0..Unreadable
      /\ task[s].touched \subseteq Pkg /\ torn \subseteq Pkg
  BY AlikeAssumption DEF IInv, TypeInv, TaskType, Unreadable
<1>2. files' \in Place /\ \A q \in Pkg \ {p} : files'[q] = files[q]
  BY <1>1 DEF HalfCopied, Place
<1>3. torn' = torn \union task[s].touched \union {p} /\ Touch(s, Away, p)
  BY DEF HalfCopied
<1> QED
  BY <1>1, <1>2, <1>3, AwayIs, TouchSteps

(* What is left of the commit when a package has been dealt with.          *)
LeftOf(t, r, removed, added, touched) ==
    /\ TaskType(r) /\ r.at = t.at /\ r.type = t.type /\ r.justdb = t.justdb
    /\ r.dir = t.dir /\ r.ours = t.ours /\ r.since = t.since
    /\ r.removed = removed /\ r.added = added /\ r.touched = touched

LEMMA RestIs ==
    ASSUME NEW t, TaskType(t), NEW p \in Pkg
    PROVE  /\ t.removed # << >> =>
                LET r == [t EXCEPT !.removed = Tail(@)]
                IN  /\ LeftOf(t, r, Tail(t.removed), t.added, t.touched)
                    /\ LeftOf(t, [r EXCEPT !.touched = @ \union {p}],
                              Tail(t.removed), t.added, t.touched \union {p})
           /\ t.added # << >> =>
                LET r == [t EXCEPT !.added = Tail(@)]
                IN  LeftOf(t, [r EXCEPT !.touched = @ \union {p}],
                           t.removed, Tail(t.added), t.touched \union {p})
<1>1. ASSUME NEW r, DOMAIN r = Fields, r.at = t.at, r.type = t.type, r.justdb = t.justdb,
             r.dir = t.dir, r.ours = t.ours, r.since = t.since, r.touched = t.touched,
             r.removed \in Seq({"db", "repo"} \X Pkg), r.added \in Seq(Pkg)
      PROVE  /\ LeftOf(t, r, r.removed, r.added, t.touched)
             /\ LeftOf(t, [r EXCEPT !.touched = @ \union {p}],
                       r.removed, r.added, t.touched \union {p})
  <2> DEFINE u == [r EXCEPT !.touched = @ \union {p}]
  <2>1. /\ DOMAIN u = Fields /\ u.at = r.at /\ u.type = r.type /\ u.justdb = r.justdb
        /\ u.dir = r.dir /\ u.ours = r.ours /\ u.since = r.since
        /\ u.removed = r.removed /\ u.added = r.added /\ u.touched = r.touched \union {p}
    BY <1>1 DEF Fields
  <2> HIDE DEF u
  <2>2. TaskType(r) /\ TaskType(u)
    BY <1>1, <2>1 DEF TaskType
  <2> QED
    BY <1>1, <2>1, <2>2 DEF LeftOf, u
<1>2. ASSUME t.removed # << >>
      PROVE  LET r == [t EXCEPT !.removed = Tail(@)]
             IN  /\ LeftOf(t, r, Tail(t.removed), t.added, t.touched)
                 /\ LeftOf(t, [r EXCEPT !.touched = @ \union {p}],
                           Tail(t.removed), t.added, t.touched \union {p})
  <2> DEFINE r == [t EXCEPT !.removed = Tail(@)]
  <2>1. Tail(t.removed) \in Seq({"db", "repo"} \X Pkg)
    BY <1>2, Sequences_ DEF TaskType
  <2>2. /\ DOMAIN r = Fields /\ r.at = t.at /\ r.type = t.type /\ r.justdb = t.justdb
        /\ r.dir = t.dir /\ r.ours = t.ours /\ r.since = t.since /\ r.touched = t.touched
        /\ r.removed = Tail(t.removed) /\ r.added = t.added /\ r.added \in Seq(Pkg)
    BY DEF TaskType, Fields
  <2> HIDE DEF r
  <2>3. /\ LeftOf(t, r, r.removed, r.added, t.touched)
        /\ LeftOf(t, [r EXCEPT !.touched = @ \union {p}],
                  r.removed, r.added, t.touched \union {p})
    BY <1>1, <2>1, <2>2
  <2> QED
    BY <2>2, <2>3 DEF r
<1>3. ASSUME t.added # << >>
      PROVE  LET r == [t EXCEPT !.added = Tail(@)]
             IN  LeftOf(t, [r EXCEPT !.touched = @ \union {p}],
                        t.removed, Tail(t.added), t.touched \union {p})
  <2> DEFINE r == [t EXCEPT !.added = Tail(@)]
  <2>1. Tail(t.added) \in Seq(Pkg)
    BY <1>3, Sequences_ DEF TaskType
  <2>2. /\ DOMAIN r = Fields /\ r.at = t.at /\ r.type = t.type /\ r.justdb = t.justdb
        /\ r.dir = t.dir /\ r.ours = t.ours /\ r.since = t.since /\ r.touched = t.touched
        /\ r.added = Tail(t.added) /\ r.removed = t.removed
        /\ r.removed \in Seq({"db", "repo"} \X Pkg)
    BY DEF TaskType, Fields
  <2> HIDE DEF r
  <2>3. LeftOf(t, [r EXCEPT !.touched = @ \union {p}],
               r.removed, r.added, t.touched \union {p})
    BY <1>1, <2>1, <2>2
  <2> QED
    BY <2>2, <2>3 DEF r
<1> QED
  BY <1>2, <1>3, Zenon

LEMMA UnlinkSteps ==
    ASSUME IInv, NEW s \in Session, Unlink(s)
    PROVE  IInv'
<1> DEFINE t == task[s]
           where == Head(t.removed)[1]
           p == Head(t.removed)[2]
           rest == [t EXCEPT !.removed = Tail(@)]
           u == [rest EXCEPT !.touched = @ \union {p}]
<1>1. /\ TaskType(t) /\ t.at = "commit" /\ OwnInv(t) /\ PlanInv(t, files, repo, torn)
      /\ t.removed # << >> /\ t.removed \in Seq({"db", "repo"} \X Pkg)
      /\ files \in Place /\ repo \in Sound /\ torn \subseteq Pkg /\ t.touched \subseteq Pkg
  BY DEF Unlink, IInv, TypeInv, Each, TaskType
<1>2. /\ Head(t.removed) \in {"db", "repo"} \X Pkg
      /\ ToSet(t.removed) = {Head(t.removed)} \union ToSet(Tail(t.removed))
  BY <1>1, Sequences_
<1>3. /\ where \in {"db", "repo"} /\ p \in Pkg
      /\ ToSet(t.removed) = {<<where, p>>} \union ToSet(Tail(t.removed))
  BY <1>2
<1>4. /\ LeftOf(t, rest, Tail(t.removed), t.added, t.touched)
      /\ LeftOf(t, u, Tail(t.removed), t.added, t.touched \union {p})
  BY <1>1, <1>3, RestIs
<1>5. UNCHANGED index
  BY DEF Unlink
<1>6. \/ t.justdb /\ Changed(s, rest, p) /\ UNCHANGED <<files, repo>>
      \/ /\ ~ t.justdb /\ where = "db" /\ Changed(s, rest, p)
         /\ files' = [files EXCEPT ![p] = 0] /\ UNCHANGED repo
      \/ /\ ~ t.justdb /\ where = "repo" /\ repo[p] # 0 /\ Become(s, rest)
         /\ repo' = [repo EXCEPT ![p] = 0] /\ UNCHANGED <<files, scan, torn>>
      \/ Stops(s)
  BY DEF Unlink
<1>7. Changed(s, rest, p) <=> Touch(s, u, p) /\ UNCHANGED torn
  BY DEF Changed
<1> HIDE DEF t, where, p, rest, u
<1>8. ASSUME NEW r \in {rest, u}
      PROVE  OwnInv(r)
  BY <1>1, <1>3, <1>4 DEF OwnInv, LeftOf
<1>9. ASSUME NEW r \in {rest, u}, NEW q \in Pkg \ {p}
      PROVE  \A fs, rs, d : Agrees(t, q, fs, rs, d) => Agrees(r, q, fs, rs, d)
  <2>1. /\ \A w : <<w, q>> \in ToSet(t.removed) <=> <<w, q>> \in ToSet(r.removed)
        /\ q \in r.touched <=> q \in t.touched
        /\ r.added = t.added /\ r.dir = t.dir /\ r.justdb = t.justdb
    BY <1>3, <1>4 DEF LeftOf
  <2>2. Pending(t, q) <=> Pending(r, q)
    BY <2>1 DEF Pending
  <2> QED
    BY <2>1, <2>2 DEF Agrees
<1>10. ASSUME t.justdb, Touch(s, u, p), UNCHANGED <<files, repo, torn>>
       PROVE  IInv'
  <2>1. PlanInv(u, files, repo, torn)
    <3> SUFFICES ASSUME t.type = "index", NEW q \in Pkg \ t.since
                 PROVE  Agrees(u, q, files, repo, torn)
      BY <1>4 DEF PlanInv, LeftOf
    <3>1. Agrees(t, q, files, repo, torn)
      BY <1>1 DEF PlanInv
    <3>2. CASE q = p
      BY <1>4, <1>10, <3>2 DEF Agrees, LeftOf
    <3> QED
      BY <1>9, <3>1, <3>2
  <2> QED
    BY <1>1, <1>3, <1>4, <1>5, <1>8, <1>10, <2>1, TouchSteps DEF LeftOf, t
<1>11. ASSUME ~ t.justdb, where = "db", Touch(s, u, p), files' = [files EXCEPT ![p] = 0],
              UNCHANGED <<repo, torn>>
       PROVE  IInv'
  <2>1. /\ files' \in Place /\ files'[p] = 0 /\ \A q \in Pkg \ {p} : files'[q] = files[q]
    BY <1>1, <1>3, <1>11, Readables DEF Place
  <2>2. PlanInv(u, files', repo, torn)
    <3> SUFFICES ASSUME t.type = "index", NEW q \in Pkg \ t.since
                 PROVE  Agrees(u, q, files', repo, torn)
      BY <1>4 DEF PlanInv, LeftOf
    <3>1. Agrees(t, q, files, repo, torn)
      BY <1>1 DEF PlanInv
    <3>2. CASE q = p
      <4>1. /\ Pending(t, p)
            /\ <<"repo", p>> \in ToSet(t.removed) <=> <<"repo", p>> \in ToSet(u.removed)
        BY <1>3, <1>4, <1>11 DEF Pending, LeftOf
      <4>2. Readable(files')[p] = 0
        BY <1>3, <2>1 DEF Readable
      <4> QED
        BY <1>4, <1>11, <3>1, <3>2, <4>1, <4>2 DEF Agrees, LeftOf
    <3>3. CASE q # p
      BY <1>9, <2>1, <3>1, <3>3, StillAgrees
    <3> QED
      BY <3>2, <3>3
  <2> QED
    BY <1>1, <1>3, <1>4, <1>5, <1>8, <1>11, <2>1, <2>2, TouchSteps DEF LeftOf, t
<1>12. ASSUME ~ t.justdb, where = "repo", Become(s, rest), repo' = [repo EXCEPT ![p] = 0],
              UNCHANGED <<files, scan, torn>>
       PROVE  IInv'
  <2>1. /\ repo' \in Sound /\ repo'[p] = 0 /\ \A q \in Pkg \ {p} : repo'[q] = repo[q]
    BY <1>1, <1>3, <1>12, Readables DEF Sound
  <2>2. PlanInv(rest, files, repo', torn)
    <3> SUFFICES ASSUME t.type = "index", NEW q \in Pkg \ t.since
                 PROVE  Agrees(rest, q, files, repo', torn)
      BY <1>4 DEF PlanInv, LeftOf
    <3>1. Agrees(t, q, files, repo, torn)
      BY <1>1 DEF PlanInv
    <3>2. CASE q = p
      <4>1. p \in ToSet(t.added)
        BY <1>1, <1>3, <1>12 DEF OwnInv
      <4> QED
        BY <1>4, <2>1, <3>2, <4>1 DEF Agrees, LeftOf
    <3>3. CASE q # p
      BY <1>9, <2>1, <3>1, <3>3, StillAgrees
    <3> QED
      BY <3>2, <3>3
  <2>3. \A o \in Session \ {s} : Told(rest, task[o]) /\ Told(task[o], rest)
    BY <1>1, <1>4 DEF IInv, Told, LeftOf, t
  <2> QED
    BY <1>1, <1>4, <1>5, <1>8, <1>12, <2>1, <2>2, <2>3, OneChanges DEF LeftOf, t
<1>13. ASSUME Stops(s)
       PROVE  IInv'
  BY <1>1, <1>5, <1>13, DoubtSteps DEF Stops, t
<1> QED
  BY <1>6, <1>7, <1>10, <1>11, <1>12, <1>13

LEMMA CopySteps ==
    ASSUME IInv, NEW s \in Session, Copy(s)
    PROVE  IInv'
<1> DEFINE t == task[s]
           p == Head(t.added)
           rest == [t EXCEPT !.added = Tail(@)]
           u == [rest EXCEPT !.touched = @ \union {p}]
<1>1. /\ TaskType(t) /\ t.at = "commit" /\ OwnInv(t) /\ PlanInv(t, files, repo, torn)
      /\ t.removed = << >> /\ t.added # << >> /\ t.added \in Seq(Pkg)
      /\ files \in Place /\ repo \in Sound /\ torn \subseteq Pkg /\ t.touched \subseteq Pkg
  BY DEF Copy, Committing, IInv, TypeInv, Each, TaskType
<1>2. /\ p \in Pkg /\ ToSet(t.added) = {p} \union ToSet(Tail(t.added)) /\ ToSet(t.removed) = {}
  BY <1>1, Sequences_, EmptySequence
<1>3. LeftOf(t, u, t.removed, Tail(t.added), t.touched \union {p})
  BY <1>1, <1>2, RestIs
<1>4. UNCHANGED index
  BY DEF Copy
<1>5. \/ t.justdb /\ Changed(s, rest, p) /\ UNCHANGED <<files, repo>>
      \/ /\ ~ t.justdb /\ repo[p] # 0 /\ Changed(s, rest, p)
         /\ files' = [files EXCEPT ![p] = repo[p]] /\ UNCHANGED repo
      \/ Stops(s)
      \/ HalfCopied(s, Away, p) /\ UNCHANGED repo
  BY DEF Copy
<1>6. Changed(s, rest, p) <=> Touch(s, u, p) /\ UNCHANGED torn
  BY DEF Changed
<1> HIDE DEF t, p, rest, u
<1>7. OwnInv(u) /\ ToSet(u.removed) = {} /\ ~ Pending(u, p) /\ ~ Pending(t, p)
  BY <1>1, <1>2, <1>3 DEF OwnInv, LeftOf, Pending
<1>8. ASSUME NEW q \in Pkg \ {p}
      PROVE  \A fs, rs, d : Agrees(t, q, fs, rs, d) => Agrees(u, q, fs, rs, d)
  <2>1. /\ q \in ToSet(t.added) <=> q \in ToSet(u.added)
        /\ q \in u.touched <=> q \in t.touched
        /\ u.removed = t.removed /\ u.dir = t.dir /\ u.justdb = t.justdb
    BY <1>2, <1>3 DEF LeftOf
  <2> QED
    BY <2>1 DEF Agrees, Pending
<1>9. ASSUME t.justdb, Touch(s, u, p), UNCHANGED <<files, repo, torn>>
      PROVE  IInv'
  <2>1. PlanInv(u, files, repo, torn)
    <3> SUFFICES ASSUME t.type = "index", NEW q \in Pkg \ t.since
                 PROVE  Agrees(u, q, files, repo, torn)
      BY <1>3 DEF PlanInv, LeftOf
    <3>1. Agrees(t, q, files, repo, torn)
      BY <1>1 DEF PlanInv
    <3>2. CASE q = p
      BY <1>3, <1>9, <3>2 DEF Agrees, LeftOf
    <3> QED
      BY <1>8, <3>1, <3>2
  <2> QED
    BY <1>1, <1>2, <1>3, <1>4, <1>7, <1>9, <2>1, TouchSteps DEF LeftOf, t
<1>10. ASSUME ~ t.justdb, repo[p] # 0, Touch(s, u, p), files' = [files EXCEPT ![p] = repo[p]],
              UNCHANGED <<repo, torn>>
       PROVE  IInv'
  <2>1. repo[p] \in 0..MaxBuild /\ repo[p] \in 0..Unreadable /\ repo[p] # Unreadable
    BY <1>1, <1>2, AlikeAssumption DEF Sound, Unreadable
  <2>2. /\ files' \in Place /\ files'[p] = repo[p] /\ \A q \in Pkg \ {p} : files'[q] = files[q]
    BY <1>1, <1>2, <1>10, <2>1 DEF Place
  <2>3. PlanInv(u, files', repo, torn)
    <3> SUFFICES ASSUME t.type = "index", NEW q \in Pkg \ t.since
                 PROVE  Agrees(u, q, files', repo, torn)
      BY <1>3 DEF PlanInv, LeftOf
    <3>1. Agrees(t, q, files, repo, torn)
      BY <1>1 DEF PlanInv
    <3>2. CASE q = p
      <4>1. t.dir[p] = repo[p]
        BY <1>2, <1>10, <3>1, <3>2 DEF Agrees
      <4>2. Readable(files')[p] = repo[p]
        BY <1>2, <2>1, <2>2 DEF Readable
      <4> QED
        BY <1>3, <1>7, <3>2, <4>1, <4>2 DEF Agrees, LeftOf
    <3>3. CASE q # p
      BY <1>8, <2>2, <3>1, <3>3, StillAgrees
    <3> QED
      BY <3>2, <3>3
  <2> QED
    BY <1>1, <1>2, <1>3, <1>4, <1>7, <1>10, <2>2, <2>3, TouchSteps DEF LeftOf, t
<1>11. ASSUME Stops(s)
       PROVE  IInv'
  BY <1>1, <1>4, <1>11, DoubtSteps DEF Stops, t
<1>12. ASSUME HalfCopied(s, Away, p), UNCHANGED repo
       PROVE  IInv'
  BY <1>1, <1>2, <1>4, <1>12, HalfSteps DEF t
<1> QED
  BY <1>5, <1>6, <1>9, <1>10, <1>11, <1>12

LEMMA SaveSteps ==
    ASSUME IInv, NEW s \in Session, Save(s)
    PROVE  IInv'
<1> DEFINE t == task[s]
<1>1. /\ TaskType(t) /\ t.at = "commit" /\ PlanInv(t, files, repo, torn)
      /\ t.removed = << >> /\ t.added = << >> /\ torn \subseteq Pkg
      /\ ToSet(t.removed) = {} /\ ToSet(t.added) = {}
      /\ Become(s, Away) /\ UNCHANGED <<files, repo>>
  BY EmptySequence DEF Save, Committing, IInv, TypeInv, Each
<1>2. CASE /\ t.type = "index"
           /\ index' = [at |-> "whole", pkgs |-> t.dir]
           /\ torn' = (torn \ (t.touched \ t.since)) \union t.since
                      \union (IF t.justdb THEN t.touched ELSE {})
           /\ scan' = scan
  <2> HIDE DEF t
  <2>1. /\ t.touched \subseteq Pkg /\ t.since \subseteq Pkg /\ t.dir \in Place
        /\ torn' \subseteq Pkg /\ \A p \in torn \ torn' : p \in t.touched
        /\ index' \in [at : {"broken", "whole"}, pkgs : Place] /\ index'.pkgs = t.dir
    BY <1>1, <1>2 DEF TaskType
  <2>2. ASSUME NEW p \in Pkg \ torn'
        PROVE  t.dir[p] = Readable(files)[p]
    <3>1. p \notin t.since /\ (p \in t.touched => ~ t.justdb) /\ (p \in torn => p \in t.touched)
      BY <1>2
    <3>2. Agrees(t, p, files, repo, torn) /\ ~ Pending(t, p)
      BY <1>1, <1>2, <3>1 DEF PlanInv, Pending
    <3> QED
      BY <1>1, <3>1, <3>2 DEF Agrees
  <2> QED
    BY <1>1, <1>2, <2>1, <2>2, OneLeaves DEF t
<1>3. CASE t.type = "dir" /\ Doubt(s) /\ UNCHANGED <<index, scan>>
  BY <1>1, <1>3, DoubtSteps
<1>4. CASE /\ Doubt(s) /\ UNCHANGED scan
           /\ \E at \in {index.at, "broken"} : index' = [index EXCEPT !.at = at]
  <2>1. index' = index \/ index' = [index EXCEPT !.at = "broken"]
    BY <1>4 DEF IInv, TypeInv
  <2> QED
    BY <1>1, <1>4, <2>1, DoubtSteps
<1> QED
  BY <1>2, <1>3, <1>4 DEF Save

LEMMA DieSteps ==
    ASSUME IInv, NEW s \in Session, Die(s)
    PROVE  IInv'
<1>1. TaskType(task[s]) /\ task[s].at # "away" /\ UNCHANGED repo
  BY DEF Die, IInv, TypeInv
<1>2. CASE Become(s, Away) /\ Doubt(s) /\ UNCHANGED <<files, index, scan>>
  BY <1>1, <1>2, DoubtSteps
<1>3. CASE /\ task[s].added # << >> /\ HalfCopied(s, Away, Head(task[s].added))
           /\ UNCHANGED index
  <2>1. Head(task[s].added) \in Pkg
    BY <1>1, <1>3, Sequences_ DEF TaskType
  <2> QED
    BY <1>1, <1>3, <2>1, HalfSteps
<1>4. CASE /\ Become(s, Away) /\ Doubt(s) /\ index' = [index EXCEPT !.at = "broken"]
           /\ UNCHANGED <<files, scan>>
  BY <1>1, <1>4, DoubtSteps
<1> QED
  BY <1>2, <1>3, <1>4 DEF Die

-----------------------------------------------------------------------------
(* mkidx, and other programs.                                              *)
LEMMA ScanSteps ==
    ASSUME IInv, MkidxStarts \/ MkidxReads \/ MkidxDies
    PROVE  IInv'
<1>1. /\ TypeInv /\ UNCHANGED <<files, repo, task, torn>> /\ ScanInv(scan, files, torn)
      /\ files \in Place /\ index.pkgs \in Place
      /\ \A s \in Session : Each(s) /\ task[s].touched \subseteq Pkg
  BY DEF MkidxStarts, MkidxReads, MkidxDies, IInv, TypeInv, TaskType
<1>2. ASSUME NEW sc \in [at : {"away", "read", "save"}, prev : Place, found : Place,
                         todo : SUBSET Pkg, since : SUBSET Pkg],
             scan' = sc, index' \in [at : {"broken", "whole"}, pkgs : Place],
             index'.at = "whole" => index.at = "whole" /\ index'.pkgs = index.pkgs,
             \A s \in Session : sc.at = "read" => task[s].touched \subseteq sc.since,
             ScanInv(sc, files, torn)
      PROVE  IInv'
  <2>1. TypeInv'
    BY <1>1, <1>2 DEF TypeInv
  <2>2. \A s \in Session : Each(s)'
    BY <1>1, <1>2 DEF Each
  <2>3. \A s, o \in Session : s # o => Told(task'[s], task'[o])
    BY <1>1 DEF IInv
  <2>4. ScanInv(scan, files, torn)'
    BY <1>1, <1>2
  <2>5. DamageIsKnown'
    BY <1>1, <1>2 DEF IInv, DamageIsKnown, Readable
  <2> QED
    BY <2>1, <2>2, <2>3, <2>4, <2>5 DEF IInv
<1>3. 0 \in 0..Unreadable /\ [p \in Pkg |-> 0] \in Place /\ Readable(files) \in Place
  <2>1. 0 \in 0..Unreadable
    BY <1>1, Readables
  <2> QED
    BY <1>1, <2>1, Readables DEF Place
<1>4. CASE MkidxStarts
  <2> DEFINE zero == [p \in Pkg |-> 0]
             prev == IF index.at = "whole" THEN index.pkgs ELSE zero
             since == UNION {task[s].touched : s \in Session}
             sc == [at |-> "read", prev |-> prev, found |-> zero, todo |-> Pkg, since |-> since]
  <2>1. scan' = sc /\ UNCHANGED index
    BY <1>4 DEF MkidxStarts
  <2>2. prev \in Place /\ zero \in Place /\ since \subseteq Pkg
    BY <1>1, <1>3
  <2>3. ASSUME NEW p \in Pkg \ since
        PROVE  p \in torn \/ prev[p] \in {0, Readable(files)[p]}
    <3>1. \A s \in Session : p \notin task[s].touched
      BY <2>3
    <3> QED
      BY <3>1 DEF IInv, DamageIsKnown
  <2>4. \A s \in Session : task[s].touched \subseteq since
    OBVIOUS
  <2> HIDE DEF prev, since, zero
  <2>5. /\ sc \in [at : {"away", "read", "save"}, prev : Place, found : Place,
                   todo : SUBSET Pkg, since : SUBSET Pkg]
        /\ sc.since = since /\ sc.prev = prev /\ sc.todo = Pkg /\ sc.at = "read"
    BY <2>2
  <2> HIDE DEF sc
  <2>6. ScanInv(sc, files, torn)
    BY <2>3, <2>5 DEF ScanInv
  <2> QED
    BY <1>1, <1>2, <2>1, <2>4, <2>5, <2>6 DEF TypeInv
<1>5. CASE MkidxReads
  <2>1. PICK p \in scan.todo :
           scan' = [scan EXCEPT !.todo = @ \ {p},
                                !.found[p] = IF files[p] # 0 /\ files[p] # Unreadable /\ Untouched(p)
                                             THEN scan.prev[p] ELSE Readable(files)[p]]
    BY <1>5 DEF MkidxReads
  <2> DEFINE build == IF files[p] # 0 /\ files[p] # Unreadable /\ Untouched(p)
                      THEN scan.prev[p] ELSE Readable(files)[p]
             sc == [scan EXCEPT !.todo = @ \ {p}, !.found[p] = build]
  <2>2. scan' = sc /\ scan.at = "read" /\ UNCHANGED index /\ p \in Pkg /\ p \in scan.todo
    BY <1>1, <1>5, <2>1 DEF MkidxReads, TypeInv
  <2>3. build \in 0..Unreadable /\ (build = Readable(files)[p] \/ (p \in Alike /\ scan.prev[p] # 0
                                                                     /\ build = scan.prev[p]))
    BY <1>1, <1>3, <2>2 DEF TypeInv, Place, Untouched
  <2> HIDE DEF build
  <2>4. /\ sc.at = "read" /\ sc.prev = scan.prev /\ sc.since = scan.since
        /\ sc.todo = scan.todo \ {p} /\ sc.found = [scan.found EXCEPT ![p] = build]
        /\ sc \in [at : {"away", "read", "save"}, prev : Place, found : Place,
                   todo : SUBSET Pkg, since : SUBSET Pkg]
    BY <1>1, <2>2, <2>3 DEF TypeInv, Place
  <2>5. /\ sc.found[p] = build /\ \A q \in Pkg \ {p} : sc.found[q] = scan.found[q]
    BY <1>1, <2>2, <2>4 DEF TypeInv, Place
  <2> HIDE DEF sc
  <2>6. ScanInv(sc, files, torn)
    <3> SUFFICES ASSUME NEW q \in Pkg \ scan.since
                 PROVE  \/ q \in torn /\ q \in Alike
                        \/ q \in sc.todo /\ (q \notin Alike \/ sc.prev[q] \in {0, Readable(files)[q]})
                        \/ q \notin sc.todo /\ sc.found[q] = Readable(files)[q]
      BY <2>4 DEF ScanInv
    <3>1. \/ q \in torn /\ q \in Alike
          \/ q \in scan.todo /\ (q \notin Alike \/ scan.prev[q] \in {0, Readable(files)[q]})
          \/ q \notin scan.todo /\ scan.found[q] = Readable(files)[q]
      BY <1>1, <2>2 DEF ScanInv
    <3>2. CASE q = p
      BY <2>2, <2>3, <2>4, <2>5, <3>1, <3>2
    <3>3. CASE q # p
      BY <2>4, <2>5, <3>1, <3>3
    <3> QED
      BY <3>2, <3>3
  <2> QED
    BY <1>1, <1>2, <2>2, <2>4, <2>6 DEF TypeInv, Each
<1>6. CASE MkidxDies
  <2> DEFINE sc == [scan EXCEPT !.at = "away", !.since = {}]
  <2>1. scan' = sc /\ \E at \in {index.at, "broken"} : index' = [index EXCEPT !.at = at]
    BY <1>6 DEF MkidxDies
  <2>2. /\ sc \in [at : {"away", "read", "save"}, prev : Place, found : Place,
                   todo : SUBSET Pkg, since : SUBSET Pkg]
        /\ sc.at = "away"
    BY <1>1 DEF TypeInv
  <2>3. /\ index' \in [at : {"broken", "whole"}, pkgs : Place]
        /\ index'.at = "whole" => index.at = "whole" /\ index'.pkgs = index.pkgs
    BY <1>1, <2>1 DEF TypeInv
  <2> QED
    BY <1>2, <2>1, <2>2, <2>3 DEF ScanInv
<1> QED
  BY <1>4, <1>5, <1>6

(* The index that mkidx writes is as good as what it has read.             *)
LEMMA WriteSteps ==
    ASSUME IInv, MkidxWrites
    PROVE  IInv'
<1>1. /\ TypeInv /\ UNCHANGED <<files, repo>> /\ scan.at = "read" /\ scan.todo = {}
      /\ scan' = [scan EXCEPT !.at = "away", !.since = {}]
      /\ index' = [at |-> "whole", pkgs |-> scan.found]
      /\ torn' = scan.since \union (torn \intersect Alike)
      /\ \A s \in Session : TaskType(task[s]) /\ Each(s)
  BY DEF MkidxWrites, IInv, TypeInv
<1>2. /\ DOMAIN task' = Session
      /\ \A s \in Session : task'[s] = IF task[s].at = "away" THEN task[s]
                                       ELSE [task[s] EXCEPT !.since = @ \union torn]
  BY DEF MkidxWrites
<1>3. /\ scan'.at = "away" /\ torn \in SUBSET Pkg /\ torn' \subseteq Pkg
      /\ scan' \in [at : {"away", "read", "save"}, prev : Place, found : Place,
                    todo : SUBSET Pkg, since : SUBSET Pkg]
      /\ index' \in [at : {"broken", "whole"}, pkgs : Place]
  BY <1>1 DEF TypeInv
<1>4. ASSUME NEW s \in Session
      PROVE  /\ TaskType(task'[s]) /\ OwnInv(task'[s]) /\ SameSet(task[s], task'[s])
             /\ task[s].since \subseteq task'[s].since
             /\ PlanInv(task'[s], files, repo, torn')
  <2>1. CASE task[s].at = "away"
    BY <1>1, <1>2, <2>1 DEF Each, SameSet, PlanInv
  <2>2. CASE task[s].at # "away"
    <3> DEFINE u == [task[s] EXCEPT !.since = @ \union torn]
    <3>1. task'[s] = u
      BY <1>2, <2>2
    <3>2. /\ TaskType(u) /\ OwnInv(u) /\ SameSet(task[s], u) /\ u.since = task[s].since \union torn
          /\ \A q, fs, rs, d : Agrees(u, q, fs, rs, d) <=> Agrees(task[s], q, fs, rs, d)
      <4>1. TaskType(task[s]) /\ OwnInv(task[s])
        BY <1>1 DEF Each
      <4>2. torn \in SUBSET Pkg
        BY <1>3
      <4> QED
        BY <4>1, <4>2, Telling, Zenon
    <3>3. PlanInv(u, files, repo, torn')
      <4> SUFFICES ASSUME u.type = "index", NEW q \in Pkg \ u.since
                   PROVE  Agrees(u, q, files, repo, torn')
        BY DEF PlanInv
      <4>1. task[s].type = "index" /\ q \in Pkg \ task[s].since /\ q \notin torn
        BY <3>2 DEF SameSet
      <4>2. Agrees(task[s], q, files, repo, torn)
        BY <1>1, <2>2, <4>1 DEF Each, PlanInv
      <4>3. repo[q] \in {0, repo[q]}
        OBVIOUS
      <4>4. Agrees(task[s], q, files, repo, torn')
        BY <4>1, <4>2, <4>3, StillAgrees
      <4> QED
        BY <3>2, <4>4
    <3> QED
      BY <2>2, <3>1, <3>2, <3>3
  <2> QED
    BY <2>1, <2>2
<1>5. TypeInv'
  BY <1>1, <1>2, <1>3, <1>4 DEF TypeInv
<1>6. \A s \in Session : Each(s)'
  BY <1>1, <1>3, <1>4 DEF Each
<1>7. ASSUME NEW s \in Session, NEW o \in Session, s # o
      PROVE  Told(task'[s], task'[o])
  BY <1>4, <1>7 DEF IInv, Told, SameSet
<1>8. ScanInv(scan, files, torn)'
  BY <1>3 DEF ScanInv
<1>9. DamageIsKnown'
  <2> SUFFICES ASSUME NEW p \in Pkg \ torn'
               PROVE  scan.found[p] = Readable(files)[p]
    BY <1>1 DEF DamageIsKnown, Readable
  <2> QED
    BY <1>1 DEF IInv, ScanInv
<1> QED
  BY <1>5, <1>6, <1>7, <1>8, <1>9 DEF IInv

LEMMA OutsideSteps ==
    ASSUME IInv, OutsideChange
    PROVE  IInv'
<1>1. PICK x \in Outside :
        /\ files' = [files EXCEPT ![x[1]] = x[2]] /\ torn' = torn \union {x[1]}
        /\ scan' = [scan EXCEPT !.since = @ \union {x[1]}]
        /\ task' = [s \in Session |-> IF task[s].at = "away" THEN task[s]
                                      ELSE [task[s] EXCEPT !.since = @ \union {x[1]}]]
  BY DEF OutsideChange
<1> DEFINE p == x[1]
           X == {}
<1>2. p \in Pkg /\ x[2] \in 0..Unreadable
  BY OutsideAssumption
<1>3. /\ files' \in Place /\ \A q \in Pkg \ {p} : files'[q] = files[q]
      /\ torn \subseteq torn' /\ torn' \subseteq Pkg /\ UNCHANGED <<repo, index>>
  BY <1>1, <1>2 DEF IInv, TypeInv, Place, OutsideChange
<1>4. /\ DOMAIN task' = Session
      /\ \A s \in Session \ X : task'[s] = IF task[s].at = "away" THEN task[s]
                                           ELSE [task[s] EXCEPT !.since = @ \union {p}]
      /\ p \in torn' /\ scan' = [scan EXCEPT !.since = @ \union {p}]
  BY <1>1
<1> HIDE DEF p
<1>5. X \in SUBSET Session /\ (\A s \in X : FALSE)
  OBVIOUS
<1> HIDE DEF X
<1> QED
  BY <1>2, <1>3, <1>4, <1>5, OneTouches

-----------------------------------------------------------------------------
LEMMA RInit == Init => IInv
<1> SUFFICES ASSUME Init PROVE IInv
  OBVIOUS
<1>1. /\ files \in Sound /\ repo \in Sound /\ index = [at |-> "whole", pkgs |-> files]
      /\ task = [s \in Session |-> Away] /\ torn = {}
      /\ scan = [at |-> "away", prev |-> [p \in Pkg |-> 0], found |-> [p \in Pkg |-> 0],
                 todo |-> {}, since |-> {}]
  BY PlacesAssumption DEF Init
<1>2. files \in Place /\ Readable(files) = files /\ [p \in Pkg |-> 0] \in Place
  <2>1. [p \in Pkg |-> 0] \in Sound
    BY AlikeAssumption DEF Sound
  <2>2. Sound \subseteq Place
    BY AlikeAssumption DEF Sound, Place, Unreadable
  <2> QED
    BY <1>1, <2>1, <2>2, Readables
<1>3. TypeInv
  BY <1>1, <1>2, AwayIs DEF TypeInv
<1>4. \A s \in Session : Each(s)
  BY <1>1, AwayIs DEF Each
<1>5. \A s, o \in Session : s # o => Told(task[s], task[o])
  BY <1>1, AwayIs
<1>6. ScanInv(scan, files, torn)
  BY <1>1 DEF ScanInv
<1>7. DamageIsKnown
  BY <1>1, <1>2 DEF DamageIsKnown
<1> QED
  BY <1>3, <1>4, <1>5, <1>6, <1>7 DEF IInv

LEMMA RStep == IInv /\ [Next]_vars => IInv'
<1> SUFFICES ASSUME IInv, [Next]_vars PROVE IInv'
  OBVIOUS
<1>1. CASE UNCHANGED vars
  <2>1. UNCHANGED <<files, repo, index, task, scan, torn>>
    BY <1>1 DEF vars
  <2> QED
    BY <2>1 DEF IInv, TypeInv, Each, DamageIsKnown, Readable
<1>2. ASSUME NEW s \in Session,
             \/ Open(s) \/ SearchCaps(s) \/ SearchReqs(s)
             \/ Uninstall(s) \/ Install(s) \/ InstallAsserts(s) \/ GroupFails(s)
             \/ Commit(s) \/ Unlink(s) \/ Copy(s) \/ Save(s)
             \/ Die(s)
      PROVE  IInv'
  BY <1>2, OpenSteps, SearchSteps, GroupSteps, EndingSteps, UnlinkSteps, CopySteps, SaveSteps,
     DieSteps
<1> QED
  BY <1>1, <1>2, ScanSteps, WriteSteps, OutsideSteps DEF Next, Finished

(* The invariant of the specification.                                     *)
LEMMA Invariance == Spec => []IInv
  BY RInit, RStep, PTL DEF Spec

(* However many transactions, scans and other programs work on a directory *)
(* at once, and wherever one stops or dies: an index that can be read and  *)
(* the files differ only in packages of which it is known (pset.c, dir.c). *)
THEOREM DamagesAreKnown == Spec => []DamageIsKnown
<1>1. IInv => DamageIsKnown
  BY DEF IInv
<1> QED
  BY <1>1, Invariance, PTL

(* What a transaction takes from another source stays there, but for what  *)
(* it both installs and removes before it is committed (pset.c:629-646).   *)
THEOREM SourcesStayIntact == Spec => SourcesIntact
<1>1. IInv /\ [Next]_vars =>
        [\A p \in Pkg : \/ repo'[p] = repo[p]
                        \/ \E s \in Session : task[s].at = "commit" /\ p \in ToSet(task[s].added)]_vars
  <2> SUFFICES ASSUME IInv, [Next]_vars, NEW p \in Pkg, repo'[p] # repo[p]
               PROVE  \E s \in Session : task[s].at = "commit" /\ p \in ToSet(task[s].added)
    OBVIOUS
  <2>1. PICK s \in Session : Unlink(s)
    BY DEF Next, vars, Open, SearchCaps, SearchReqs, Uninstall, Install, InstallAsserts,
                GroupFails, Commit, Copy, Stops, HalfCopied, Save, Die, MkidxStarts, MkidxReads,
                MkidxWrites, MkidxDies, OutsideChange, Finished
  <2> DEFINE t == task[s]
             q == Head(t.removed)[2]
  <2>2. /\ TaskType(t) /\ OwnInv(t) /\ t.at = "commit" /\ t.removed # << >> /\ repo \in Sound
    BY <2>1 DEF Unlink, IInv, TypeInv, Each
  <2>3. /\ Head(t.removed) \in {"db", "repo"} \X Pkg /\ Head(t.removed) \in ToSet(t.removed)
    BY <2>2, Sequences_ DEF TaskType
  <2>4. Head(t.removed)[1] = "repo" /\ repo' = [repo EXCEPT ![q] = 0]
    BY <2>1 DEF Unlink, Stops
  <2>5. q \in Pkg /\ <<"repo", q>> \in ToSet(t.removed)
    BY <2>3, <2>4
  <2>6. p = q
    BY <2>2, <2>4, <2>5 DEF Sound
  <2> QED
    BY <2>2, <2>5, <2>6 DEF OwnInv
<1> QED
  BY <1>1, Invariance, PTL DEF Spec, SourcesIntact

-----------------------------------------------------------------------------
(* Folds.  What a fold leaves is what a recursion over the subsets of a    *)
(* finite set makes, and that there is one follows from the well-order of  *)
(* the numbers.                                                            *)

(* Induction over the subsets of a finite set.                             *)
LEMMA SubsetInduction ==
    ASSUME NEW S, IsFiniteSet(S), NEW T, {} \in T,
           \A s \in SUBSET S : s # {} /\ (\A x \in s : s \ {x} \in T) => s \in T
    PROVE  \A s \in SUBSET S : s \in T
<1> SUFFICES ASSUME NEW z \in SUBSET S, z \notin T PROVE FALSE
  OBVIOUS
<1> DEFINE N == {n \in Nat : \E s \in SUBSET S : s \notin T /\ n = Cardinality(s)}
<1>1. \A s \in SUBSET S : IsFiniteSet(s) /\ Cardinality(s) \in Nat
  BY FS_Subset, FS_CardinalityType
<1>2. N \subseteq Nat /\ N # {}
  BY <1>1
<1>3. PICK n \in N : \A m \in N : <<m, n>> \notin OpToRel(<, Nat)
  <2> HIDE DEF N
  <2> QED
    BY <1>2, WFMin, NatLessThanWellFounded
<1>4. \A m \in N : ~(m < n)
  BY <1>3 DEF OpToRel
<1>5. PICK s \in SUBSET S : s \notin T /\ n = Cardinality(s)
  OBVIOUS
<1>6. PICK x \in s : s \ {x} \notin T
  BY <1>5
<1>7. s \ {x} \in SUBSET S /\ Cardinality(s \ {x}) = n - 1 /\ Cardinality(s \ {x}) \in Nat
  BY <1>1, <1>5, FS_RemoveElement
<1>8. n - 1 \in N
  BY <1>6, <1>7
<1> QED
  BY <1>4, <1>8

(* Induction over numbers.                                                 *)
LEMMA NumberInduction ==
    ASSUME NEW T, 0 \in T, \A n \in Nat : n \in T => n + 1 \in T
    PROVE  \A n \in Nat : n \in T
<1> SUFFICES ASSUME NEW z \in Nat, z \notin T PROVE FALSE
  OBVIOUS
<1> DEFINE N == {n \in Nat : n \notin T}
<1>1. N \subseteq Nat /\ N # {}
  OBVIOUS
<1>2. PICK n \in N : \A m \in N : <<m, n>> \notin OpToRel(<, Nat)
  <2> HIDE DEF N
  <2> QED
    BY <1>1, WFMin, NatLessThanWellFounded
<1>3. \A m \in N : ~(m < n)
  BY <1>2 DEF OpToRel
<1>4. n - 1 \in Nat /\ (n - 1) + 1 = n
  OBVIOUS
<1> QED
  BY <1>3, <1>4

(* A function may be defined by recursion over the subsets of a finite     *)
(* set, ch saying which element comes last.  What is true of the empty set *)
(* and is kept with each element is true of all of them.                   *)
Chooses(ch, S) == \A s \in SUBSET S : s # {} => ch[s] \in s
FoldsBy(f, S, base, g, ch) ==
    \A s \in SUBSET S : f[s] = IF s = {} THEN base ELSE g[ch[s], f[s \ {ch[s]}]]

LEMMA SubsetRecursion ==
    ASSUME NEW S, IsFiniteSet(S), NEW A, NEW base \in A, NEW g \in [S \X A -> A],
           NEW ch, Chooses(ch, S)
    PROVE  \E f \in [SUBSET S -> A] : FoldsBy(f, S, base, g, ch)
<1> DEFINE Eq(f, s) == f[s] = IF s = {} THEN base ELSE g[ch[s], f[s \ {ch[s]}]]
           T == {n \in Nat : \E f \in [SUBSET S -> A] :
                    \A s \in SUBSET S : Cardinality(s) <= n => Eq(f, s)}
<1>1. \A s \in SUBSET S : IsFiniteSet(s) /\ Cardinality(s) \in Nat /\ (Cardinality(s) = 0 <=> s = {})
  BY FS_Subset, FS_CardinalityType, FS_EmptySet
<1>2. 0 \in T
  <2> DEFINE h == [s \in SUBSET S |-> base]
  <2>1. h \in [SUBSET S -> A]
    OBVIOUS
  <2>2. ASSUME NEW s \in SUBSET S, Cardinality(s) <= 0 PROVE Eq(h, s)
    <3>1. s = {}
      BY <1>1, <2>2
    <3> QED
      BY <3>1
  <2> HIDE DEF h
  <2> QED
    BY <2>1, <2>2
<1>3. ASSUME NEW n \in Nat, n \in T PROVE n + 1 \in T
  <2>1. PICK f \in [SUBSET S -> A] : \A s \in SUBSET S : Cardinality(s) <= n => Eq(f, s)
    BY <1>3
  <2> DEFINE h == [s \in SUBSET S |-> IF s = {} THEN base ELSE g[ch[s], f[s \ {ch[s]}]]]
  <2>2. \A s \in SUBSET S : s # {} => ch[s] \in S /\ s \ {ch[s]} \in SUBSET S
    BY DEF Chooses
  <2>3. h \in [SUBSET S -> A]
    BY <2>2
  <2>4. ASSUME NEW s \in SUBSET S, Cardinality(s) <= n + 1 PROVE Eq(h, s)
    <3>1. CASE s = {}
      BY <3>1
    <3>2. CASE s # {}
      <4>1. s \ {ch[s]} \in SUBSET S /\ Cardinality(s \ {ch[s]}) <= n
        <5>1. Cardinality(s \ {ch[s]}) = Cardinality(s) - 1
          BY <3>2, <1>1, FS_RemoveElement DEF Chooses
        <5> QED
          BY <5>1, <2>2, <2>4, <3>2, <1>1
      <4>2. h[s \ {ch[s]}] = f[s \ {ch[s]}]
        BY <2>1, <4>1
      <4> QED
        BY <4>2, <3>2
    <3> QED
      BY <3>1, <3>2
  <2>5. \E e \in [SUBSET S -> A] : \A s \in SUBSET S : Cardinality(s) <= n + 1 => Eq(e, s)
    <3> HIDE DEF h, Eq
    <3> QED
      BY <2>3, <2>4
  <2>6. n + 1 \in Nat
    OBVIOUS
  <2> HIDE DEF Eq
  <2> QED
    BY <2>5, <2>6
<1>4. \A n \in Nat : n \in T
  <2> HIDE DEF T
  <2> QED
    BY <1>2, <1>3, NumberInduction
<1>5. Cardinality(S) \in T
  BY <1>1, <1>4
<1>6. PICK f \in [SUBSET S -> A] : \A s \in SUBSET S : Cardinality(s) <= Cardinality(S) => Eq(f, s)
  BY <1>5
<1>7. \A s \in SUBSET S : Cardinality(s) <= Cardinality(S)
  BY FS_Subset
<1> QED
  BY <1>6, <1>7 DEF FoldsBy

(* A fold over a set, h, whose body with what it has made so far does what *)
(* g does, and what is kept by each element.                               *)
FoldOf(S, A, base, g, ch, h) ==
    /\ IsFiniteSet(S) /\ base \in A /\ g \in [S \X A -> A] /\ Chooses(ch, S) /\ h[{}] = base
    /\ \A s \in SUBSET S : s # {} /\ h[s \ {ch[s]}] \in A => h[s] = g[ch[s], h[s \ {ch[s]}]]
Kept(S, A, base, g, ch, R) ==
    /\ <<{}, base>> \in R
    /\ \A s \in SUBSET S, a \in A : s # {} /\ <<s \ {ch[s]}, a>> \in R => <<s, g[ch[s], a]>> \in R

LEMMA FoldIsRight ==
    ASSUME NEW S, NEW A, NEW base, NEW g, NEW ch, NEW h, NEW R,
           FoldOf(S, A, base, g, ch, h), Kept(S, A, base, g, ch, R)
    PROVE  <<S, h[S]>> \in R
<1> DEFINE T == {s \in SUBSET S : h[s] \in A /\ <<s, h[s]>> \in R}
<1> USE DEF FoldOf, Kept
<1>1. {} \in T
  OBVIOUS
<1>2. ASSUME NEW s \in SUBSET S, s # {}, \A x \in s : s \ {x} \in T
      PROVE  s \in T
  <2>1. ch[s] \in s /\ ch[s] \in S /\ s \ {ch[s]} \in T
    BY <1>2 DEF Chooses
  <2>2. h[s] = g[ch[s], h[s \ {ch[s]}]] /\ h[s] \in A
    BY <1>2, <2>1
  <2> QED
    BY <1>2, <2>1, <2>2
<1>3. \A s \in SUBSET S : s \in T
  <2> HIDE DEF T
  <2> QED
    BY <1>1, <1>2, SubsetInduction
<1> QED
  BY <1>3

LEMMA MaxExists ==
    ASSUME NEW n \in Nat, NEW S \in SUBSET (1..n), S # {}
    PROVE  Max(S) \in S
<1> DEFINE T == {x \in Nat : \E i \in S : x = n - i}
<1>1. T \subseteq Nat /\ T # {}
  <2>1. PICK i \in S : TRUE
    OBVIOUS
  <2>2. n - i \in Nat
    OBVIOUS
  <2> QED
    BY <2>2
<1>2. PICK x \in T : \A y \in T : <<y, x>> \notin OpToRel(<, Nat)
  <2> HIDE DEF T
  <2> QED
    BY <1>1, WFMin, NatLessThanWellFounded
<1>3. \A y \in T : ~(y < x)
  BY <1>2 DEF OpToRel
<1>4. PICK i \in S : x = n - i
  OBVIOUS
<1>5. \A j \in S : i >= j
  <2> SUFFICES ASSUME NEW j \in S PROVE i >= j
    OBVIOUS
  <2>1. n - j \in T
    OBVIOUS
  <2> QED
    BY <2>1, <1>3, <1>4
<1> QED
  BY <1>5 DEF Max

-----------------------------------------------------------------------------
(* The entries of an index, and what one step of an update does to them.   *)

(* Every package of P is in q, once, and nothing else.                     *)
OneEach(q, P) == /\ q \in Seq(Pkg) /\ ToSet(q) = P
                 /\ \A i, j \in DOMAIN q : q[i] = q[j] => i = j

(* An index in which each name n has the packages W[n] as entries.         *)
Entries(idx, N, W) == idx \in [N -> Seq(Pkg)] /\ \A n \in N : OneEach(idx[n], W[n])
With(W, N, M, p) == [n \in N |-> IF n \in M THEN W[n] \union {p} ELSE W[n]]
Less(W, N, M, p) == [n \in N |-> IF n \in M THEN W[n] \ {p} ELSE W[n]]

LEMMA AppendOne ==
    ASSUME NEW q, NEW P, OneEach(q, P), NEW p \in Pkg, p \notin P
    PROVE  OneEach(Append(q, p), P \union {p})
<1>1. /\ Append(q, p) \in Seq(Pkg) /\ Len(q) \in Nat
      /\ \A i \in 1..Len(q) : Append(q, p)[i] = q[i]
      /\ Append(q, p)[Len(q) + 1] = p
      /\ DOMAIN q = 1..Len(q) /\ DOMAIN Append(q, p) = 1..(Len(q) + 1)
  BY AppendProperties, LenProperties DEF OneEach
<1>2. /\ \A i \in 1..(Len(q) + 1) : i \in 1..Len(q) \/ i = Len(q) + 1
      /\ \A i \in 1..Len(q) : i \in 1..(Len(q) + 1)
      /\ Len(q) + 1 \in 1..(Len(q) + 1)
  BY <1>1
<1>3. ToSet(Append(q, p)) = P \union {p}
  <2>1. /\ \A x : x \in P <=> \E i \in 1..Len(q) : x = q[i]
        /\ \A x : x \in ToSet(Append(q, p)) <=> \E i \in 1..(Len(q) + 1) : x = Append(q, p)[i]
    BY <1>1 DEF ToSet, OneEach
  <2>2. \A x : x \in ToSet(Append(q, p)) <=> x \in P \/ x = p
    BY <1>1, <1>2, <2>1
  <2> QED
    BY <2>2
<1>4. \A i \in 1..Len(q) : q[i] # p
  BY <1>1 DEF OneEach, ToSet
<1>5. \A i, j \in DOMAIN Append(q, p) : Append(q, p)[i] = Append(q, p)[j] => i = j
  BY <1>1, <1>2, <1>4 DEF OneEach
<1> QED
  BY <1>1, <1>3, <1>5 DEF OneEach

LEMMA EmptyOne == OneEach(<< >>, {})
  BY SMT DEF OneEach, ToSet

(* What capreq_idx_remove leaves of the entries of a name.                 *)
LEMMA DropOne ==
    ASSUME NEW q, NEW P, OneEach(q, P), P \subseteq Pkg, NEW p \in Pkg,
           \A x \in P : SameNevr(Set, p, x) <=> x = p
    PROVE  LET Drop(s, x) == IF ~ s.moved /\ SameNevr(Set, p, x) THEN [s EXCEPT !.moved = TRUE]
                             ELSE [kept |-> Append(s.kept, x), moved |-> FALSE]
           IN  OneEach(FoldLeft(Drop, [kept |-> << >>, moved |-> FALSE], q).kept, P \ {p})
<1> DEFINE Drop(s, x) == IF ~ s.moved /\ SameNevr(Set, p, x) THEN [s EXCEPT !.moved = TRUE]
                         ELSE [kept |-> Append(s.kept, x), moved |-> FALSE]
           S == DOMAIN q
           A == [kept : Seq(Pkg), moved : BOOLEAN]
           base == [kept |-> << >>, moved |-> FALSE]
           ch == [s \in SUBSET S |-> Max(s)]
           g == [z \in S \X A |-> Drop(z[2], q[z[1]])]
           Body(f) == [s \in SUBSET S |-> IF s = {} THEN base ELSE Drop(f[s \ {Max(s)}], q[Max(s)])]
           h == CHOOSE f : f = Body(f)
           R == {z \in (SUBSET S) \X A :
                    /\ OneEach(z[2].kept, {q[i] : i \in z[1]} \ {p})
                    /\ z[2].moved => p \in {q[i] : i \in z[1]}}
<1>1. FoldLeft(Drop, base, q) = h[S]
  BY DEF FoldLeft, MapThenFoldSet
<1>2. IsFiniteSet(S) /\ S = 1..Len(q) /\ Len(q) \in Nat /\ \A i \in S : q[i] \in Pkg
  BY FS_Interval, LenProperties, ElementOfSeq DEF OneEach
<1>3. base \in A
  BY EmptyOne DEF OneEach
<1>4. g \in [S \X A -> A]
  BY <1>2, AppendProperties
<1>5. Chooses(ch, S)
  BY <1>2, MaxExists DEF Chooses
<1>6. PICK f \in [SUBSET S -> A] : FoldsBy(f, S, base, g, ch)
  <2> HIDE DEF S, A, base, g, ch
  <2> QED
    BY <1>2, <1>3, <1>4, <1>5, SubsetRecursion
<1>7. f = Body(f)
  BY <1>5, <1>6 DEF FoldsBy, Chooses
<1>8. h = Body(h)
  <2> HIDE DEF Body
  <2> QED
    BY <1>7
<1>9. h[{}] = base
  BY <1>8
<1>10. \A s \in SUBSET S : s # {} /\ h[s \ {ch[s]}] \in A => h[s] = g[ch[s], h[s \ {ch[s]}]]
  <2> SUFFICES ASSUME NEW s \in SUBSET S, s # {}, h[s \ {ch[s]}] \in A
               PROVE  h[s] = g[ch[s], h[s \ {ch[s]}]]
    OBVIOUS
  <2>1. ch[s] = Max(s) /\ ch[s] \in S
    BY <1>5 DEF Chooses
  <2>2. h[s] = Drop(h[s \ {Max(s)}], q[Max(s)])
    <3> HIDE DEF Drop, h
    <3> QED
      BY <1>8
  <2>3. g[ch[s], h[s \ {ch[s]}]] = Drop(h[s \ {ch[s]}], q[ch[s]])
    <3> HIDE DEF Drop, h, ch, A
    <3> QED
      BY <2>1
  <2> HIDE DEF Drop, h, ch, g
  <2> QED
    BY <2>1, <2>2, <2>3
<1>11. <<{}, base>> \in R
  <2>1. {q[i] : i \in {}} \ {p} = {}
    OBVIOUS
  <2> QED
    BY EmptyOne, <1>3, <2>1
<1>12. ASSUME NEW s \in SUBSET S, NEW a \in A, s # {}, <<s \ {ch[s]}, a>> \in R
       PROVE  <<s, g[ch[s], a]>> \in R
  <2> DEFINE i == ch[s]
             Q(r) == {q[j] : j \in r}
  <2>1. i \in s /\ i \in S
    BY <1>5, <1>12 DEF Chooses
  <2>2. /\ OneEach(a.kept, Q(s \ {i}) \ {p})
        /\ a.moved => p \in Q(s \ {i})
    BY <1>12
  <2>3. g[i, a] = Drop(a, q[i]) /\ g[i, a] \in A
    <3>1. g[i, a] = Drop(a, q[i])
      <4> HIDE DEF Drop, ch, A, S
      <4> QED
        BY <2>1
    <3> HIDE DEF g, A, S, ch
    <3> QED
      BY <3>1, <1>4, <2>1
  <2>4. /\ q[i] \in Pkg /\ q[i] \in P /\ Q(s) = Q(s \ {i}) \union {q[i]} /\ q[i] \notin Q(s \ {i})
    <3> HIDE DEF i
    <3> QED
      BY <1>2, <2>1 DEF OneEach, ToSet
  <2>5. CASE q[i] = p
    <3>1. ~ a.moved /\ SameNevr(Set, p, q[i]) /\ Q(s) \ {p} = Q(s \ {i}) \ {p} /\ p \in Q(s)
      <4> HIDE DEF Q, i
      <4> QED
        BY <2>2, <2>4, <2>5
    <3>2. Drop(a, q[i]).kept = a.kept
      BY <3>1
    <3> HIDE DEF g, Drop
    <3> QED
      BY <2>2, <2>3, <3>1, <3>2
  <2>6. CASE q[i] # p
    <3>1. ~ SameNevr(Set, p, q[i]) /\ Q(s) \ {p} = (Q(s \ {i}) \ {p}) \union {q[i]}
      <4> HIDE DEF Q, i
      <4> QED
        BY <2>4, <2>6
    <3>2. Drop(a, q[i]).kept = Append(a.kept, q[i]) /\ ~ Drop(a, q[i]).moved
      BY <3>1
    <3>3. OneEach(Append(a.kept, q[i]), Q(s) \ {p})
      <4> DEFINE B == Q(s \ {i}) \ {p}
                 x == q[i]
                 k == a.kept
      <4>1. OneEach(k, B) /\ x \in Pkg /\ x \notin B /\ Q(s) \ {p} = B \union {x}
        BY <2>2, <2>4, <3>1
      <4> HIDE DEF B, x, k
      <4>2. OneEach(Append(k, x), B \union {x})
        BY <4>1, AppendOne
      <4> QED
        BY <4>1, <4>2 DEF x, k
    <3> HIDE DEF g, Drop
    <3> QED
      BY <2>3, <3>2, <3>3
  <2> QED
    BY <2>5, <2>6
<1>13. <<S, h[S]>> \in R
  <2> HIDE DEF S, A, base, g, ch, h, R
  <2>1. FoldOf(S, A, base, g, ch, h)
    BY <1>2, <1>3, <1>4, <1>5, <1>9, <1>10 DEF FoldOf
  <2>2. Kept(S, A, base, g, ch, R)
    BY <1>11, <1>12 DEF Kept
  <2> QED
    BY <2>1, <2>2, FoldIsRight
<1>14. {q[i] : i \in S} = P
  BY DEF OneEach, ToSet
<1> QED
  BY <1>1, <1>13, <1>14

LEMMA WithTwice ==
    ASSUME NEW W, NEW N, NEW M, NEW L, NEW p
    PROVE  With(With(W, N, M, p), N, L, p) = With(W, N, M \union L, p)
<1> DEFINE V == With(W, N, M, p)
<1>1. \A n \in N : V[n] = IF n \in M THEN W[n] \union {p} ELSE W[n]
  BY DEF With
<1>2. ASSUME NEW n \in N
      PROVE  (IF n \in L THEN V[n] \union {p} ELSE V[n])
                  = (IF n \in M \union L THEN W[n] \union {p} ELSE W[n])
  <2> HIDE DEF V
  <2>1. CASE n \in L
    BY <1>1, <2>1
  <2>2. CASE n \notin L
    BY <1>1, <2>2
  <2> QED
    BY <2>1, <2>2
<1>3. With(V, N, L, p) = With(W, N, M \union L, p)
  <2> HIDE DEF V
  <2> QED
    BY <1>2 DEF With
<1> QED
  BY <1>3

LEMMA LessTwice ==
    ASSUME NEW W, NEW N, NEW M, NEW L, NEW p
    PROVE  Less(Less(W, N, M, p), N, L, p) = Less(W, N, M \union L, p)
<1> DEFINE V == Less(W, N, M, p)
<1>1. \A n \in N : V[n] = IF n \in M THEN W[n] \ {p} ELSE W[n]
  BY DEF Less
<1>2. ASSUME NEW n \in N
      PROVE  (IF n \in L THEN V[n] \ {p} ELSE V[n])
                  = (IF n \in M \union L THEN W[n] \ {p} ELSE W[n])
  <2> HIDE DEF V
  <2>1. CASE n \in L
    BY <1>1, <2>1
  <2>2. CASE n \notin L
    BY <1>1, <2>2
  <2> QED
    BY <2>1, <2>2
<1>3. Less(V, N, L, p) = Less(W, N, M \union L, p)
  <2> HIDE DEF V
  <2> QED
    BY <1>2 DEF Less
<1> QED
  BY <1>3

(* An index of which the entries of one name are replaced.                 *)
LEMMA EntriesReplaced ==
    ASSUME NEW idx, NEW N, NEW W, Entries(idx, N, W), NEW n \in N, NEW q, NEW V,
           OneEach(q, V[n]), \A m \in N \ {n} : V[m] = W[m]
    PROVE  Entries([idx EXCEPT ![n] = q], N, V)
<1> DEFINE i == [idx EXCEPT ![n] = q]
<1>1. i \in [N -> Seq(Pkg)] /\ i[n] = q /\ \A m \in N \ {n} : i[m] = idx[m]
  BY DEF Entries, OneEach
<1> HIDE DEF i
<1>2. Entries(i, N, V)
  BY <1>1 DEF Entries
<1> QED
  BY <1>2 DEF i

LEMMA EntryAdded ==
    ASSUME NEW idx, NEW N, NEW W, Entries(idx, N, W), NEW n \in N, NEW p \in Pkg, p \notin W[n]
    PROVE  Entries([idx EXCEPT ![n] = Append(idx[n], p)], N, With(W, N, {n}, p))
<1> DEFINE V == With(W, N, {n}, p)
<1>1. V[n] = W[n] \union {p} /\ \A m \in N \ {n} : V[m] = W[m]
  BY DEF With
<1>2. OneEach(Append(idx[n], p), W[n] \union {p})
  <2>1. OneEach(idx[n], W[n])
    BY DEF Entries
  <2> QED
    BY <2>1, AppendOne
<1> HIDE DEF V
<1>3. Entries([idx EXCEPT ![n] = Append(idx[n], p)], N, V)
  BY <1>1, <1>2, EntriesReplaced
<1> QED
  BY <1>3 DEF V

LEMMA CapAdded ==
    ASSUME NEW idx, NEW W, Entries(idx, Name, W), NEW n \in Name, NEW p \in Pkg
    PROVE  Entries(AddCap(idx, n, p, TRUE), Name, With(W, Name, {n}, p))
<1>1. ToSet(idx[n]) = W[n]
  BY DEF Entries, OneEach
<1>2. CASE p \in W[n]
  <2>1. AddCap(idx, n, p, TRUE) = idx
    BY <1>1, <1>2 DEF AddCap
  <2>2. \A m \in Name : With(W, Name, {n}, p)[m] = W[m]
    BY <1>2 DEF With
  <2> QED
    BY <2>1, <2>2 DEF Entries
<1>3. CASE p \notin W[n]
  <2>1. AddCap(idx, n, p, TRUE) = [idx EXCEPT ![n] = Append(idx[n], p)]
    BY <1>1, <1>3 DEF AddCap
  <2>2. Entries([idx EXCEPT ![n] = Append(idx[n], p)], Name, With(W, Name, {n}, p))
    BY <1>3, EntryAdded
  <2> QED
    BY <2>1, <2>2
<1> QED
  BY <1>2, <1>3

LEMMA ReqAdded ==
    ASSUME NEW idx, NEW W, Entries(idx, Name, W), NEW n \in Name, NEW p \in Pkg, p \notin W[n]
    PROVE  Entries(AddReq(idx, n, p), Name, With(W, Name, {n} \ Skipped, p))
<1>1. CASE n \in Skipped
  <2>1. \A m \in Name : With(W, Name, {n} \ Skipped, p)[m] = W[m]
    BY <1>1 DEF With
  <2> QED
    BY <1>1, <2>1 DEF AddReq, Entries
<1>2. CASE n \notin Skipped
  <2>1. {n} \ Skipped = {n}
    BY <1>2
  <2> QED
    BY <1>2, <2>1, EntryAdded DEF AddReq
<1> QED
  BY <1>1, <1>2

(* Of the packages of an index none but p has its name and version.        *)
Alone(W, N, p) == \A n \in N : \A x \in W[n] : SameNevr(Set, p, x) => x = p

LEMMA EntryRemoved ==
    ASSUME NEW idx, NEW W, Entries(idx, Name, W), NEW n \in Name, NEW p \in Pkg, Alone(W, Name, p)
    PROVE  Entries(RemoveEntry(Set, idx, n, p), Name, Less(W, Name, {n}, p))
<1> DEFINE Drop(s, x) == IF ~ s.moved /\ SameNevr(Set, p, x) THEN [s EXCEPT !.moved = TRUE]
                         ELSE [kept |-> Append(s.kept, x), moved |-> FALSE]
           q == FoldLeft(Drop, [kept |-> << >>, moved |-> FALSE], idx[n]).kept
           V == Less(W, Name, {n}, p)
<1>1. OneEach(idx[n], W[n])
  BY DEF Entries
<1>2. W[n] \subseteq Pkg
  BY <1>1, ElementOfSeq, LenProperties DEF OneEach, ToSet
<1>3. \A x \in W[n] : SameNevr(Set, p, x) <=> x = p
  BY DEF Alone, SameNevr
<1>4. OneEach(q, W[n] \ {p})
  BY <1>1, <1>2, <1>3, DropOne
<1>5. V[n] = W[n] \ {p} /\ \A m \in Name \ {n} : V[m] = W[m]
  BY DEF Less
<1>6. RemoveEntry(Set, idx, n, p) = [idx EXCEPT ![n] = q]
  BY DEF RemoveEntry
<1> HIDE DEF q, V
<1>7. Entries([idx EXCEPT ![n] = q], Name, V)
  BY <1>4, <1>5, EntriesReplaced
<1> QED
  BY <1>6, <1>7 DEF V

LEMMA RemovedAt ==
    ASSUME NEW q, NEW P, OneEach(q, P), NEW i \in DOMAIN q
    PROVE  OneEach(RemoveAt(q, i), P \ {q[i]})
<1> DEFINE n == Len(q)
           u == SubSeq(q, 1, i - 1)
           w == SubSeq(q, i + 1, n)
           r == RemoveAt(q, i)
<1>1. /\ q \in Seq(Pkg) /\ n \in Nat /\ DOMAIN q = 1..n /\ i \in 1..n
      /\ \A j \in 1..n : q[j] \in Pkg
  BY ElementOfSeq, LenProperties DEF OneEach
<1>2. /\ u \in Seq(Pkg) /\ Len(u) = i - 1 /\ \A j \in 1..(i - 1) : u[j] = q[j]
  BY <1>1, SubSeqProperties
<1>3. /\ w \in Seq(Pkg) /\ Len(w) = n - i /\ \A j \in 1..(n - i) : w[j] = q[j + i]
  <2>1. /\ i + 1 \in Int /\ n \in Int /\ \A j \in (i + 1)..n : q[j] \in Pkg
        /\ n - (i + 1) + 1 = n - i /\ (IF i + 1 <= n THEN n - (i + 1) + 1 ELSE 0) = n - i
        /\ \A j \in 1..(n - i) : (i + 1) + j - 1 = j + i
    BY <1>1
  <2> HIDE DEF n
  <2> QED
    BY <2>1, SubSeqProperties
<1>4. /\ r \in Seq(Pkg) /\ Len(r) = n - 1
      /\ \A j \in 1..(n - 1) : r[j] = IF j < i THEN q[j] ELSE q[j + 1]
  <2>1. r = u \o w
    BY DEF RemoveAt
  <2> HIDE DEF u, w, r, n
  <2>2. /\ r \in Seq(Pkg) /\ Len(r) = Len(u) + Len(w)
        /\ \A j \in 1..(Len(u) + Len(w)) : r[j] = IF j <= Len(u) THEN u[j] ELSE w[j - Len(u)]
    BY <1>2, <1>3, <2>1, ConcatProperties
  <2>3. (i - 1) + (n - i) = n - 1
    BY <1>1
  <2>4. ASSUME NEW j \in 1..(n - 1) PROVE r[j] = IF j < i THEN q[j] ELSE q[j + 1]
    <3>1. r[j] = IF j <= i - 1 THEN u[j] ELSE w[j - (i - 1)]
      BY <1>2, <1>3, <2>2, <2>3
    <3>2. CASE j < i
      BY <1>1, <1>2, <3>1, <3>2
    <3>3. CASE ~(j < i)
      <4>1. j - (i - 1) \in 1..(n - i) /\ (j - (i - 1)) + i = j + 1 /\ ~(j <= i - 1)
        BY <1>1, <3>3
      <4> QED
        BY <1>3, <3>1, <3>3, <4>1
    <3> QED
      BY <3>2, <3>3
  <2> QED
    BY <1>2, <1>3, <2>2, <2>3, <2>4
<1> HIDE DEF r, u, w, n
<1>5. DOMAIN r = 1..(n - 1)
  BY <1>4, LenProperties
<1>6. /\ \A x : x \in P <=> \E j \in 1..n : x = q[j]
      /\ \A x : x \in ToSet(r) <=> \E j \in 1..(n - 1) : x = r[j]
      /\ \A j, k \in 1..n : q[j] = q[k] => j = k
  BY <1>1, <1>5 DEF ToSet, OneEach
<1> DEFINE At(j) == IF j < i THEN j ELSE j + 1
<1>7. \A j \in 1..(n - 1) : At(j) \in 1..n /\ At(j) # i /\ r[j] = q[At(j)]
  BY <1>1, <1>4
<1>8. \A j, k \in 1..(n - 1) : At(j) = At(k) => j = k
  BY <1>1
<1>9. \A j \in 1..n : j # i => \E k \in 1..(n - 1) : At(k) = j
  <2> SUFFICES ASSUME NEW j \in 1..n, j # i PROVE \E k \in 1..(n - 1) : At(k) = j
    OBVIOUS
  <2>1. CASE j < i
    BY <1>1, <2>1
  <2>2. CASE ~(j < i)
    <3>1. j - 1 \in 1..(n - 1) /\ At(j - 1) = j
      BY <1>1, <2>2
    <3> QED
      BY <3>1
  <2> QED
    BY <2>1, <2>2
<1> HIDE DEF At
<1>10. \A x : x \in ToSet(r) <=> x \in P /\ x # q[i]
  BY <1>1, <1>6, <1>7, <1>9
<1>11. \A j, k \in DOMAIN r : r[j] = r[k] => j = k
  BY <1>5, <1>6, <1>7, <1>8
<1>12. ToSet(r) = P \ {q[i]}
  BY <1>10
<1> QED
  BY <1>4, <1>11, <1>12 DEF OneEach, r

LEMMA FileRemoved ==
    ASSUME NEW idx, NEW W, Entries(idx, Path, W), NEW f \in Path, NEW p \in Pkg, Alone(W, Path, p)
    PROVE  Entries(RemoveFile(Set, idx, f, p), Path, Less(W, Path, {f}, p))
<1> DEFINE q == idx[f]
           I == {j \in 1..Len(q) : SameNevr(Set, p, q[j])}
           i == SelectInSeq(q, LAMBDA x : SameNevr(Set, p, x))
           V == Less(W, Path, {f}, p)
<1>1. OneEach(q, W[f]) /\ Len(q) \in Nat /\ DOMAIN q = 1..Len(q)
  BY LenProperties DEF Entries, OneEach
<1>2. i = IF I # {} THEN Min(I) ELSE 0
  BY DEF SelectInSeq
<1>3. \A j \in 1..Len(q) : SameNevr(Set, p, q[j]) <=> q[j] = p
  <2>1. \A j \in 1..Len(q) : q[j] \in W[f]
    BY <1>1 DEF OneEach, ToSet
  <2> QED
    BY <2>1 DEF Alone, SameNevr
<1>4. V[f] = W[f] \ {p} /\ \A m \in Path \ {f} : V[m] = W[m]
  BY DEF Less
<1>5. CASE I = {}
  <2>1. i = 0 /\ RemoveFile(Set, idx, f, p) = idx
    BY <1>2, <1>5 DEF RemoveFile
  <2>2. p \notin W[f]
    BY <1>1, <1>3, <1>5 DEF OneEach, ToSet
  <2>3. V[f] = W[f]
    BY <1>4, <2>2
  <2> HIDE DEF V
  <2>4. Entries(idx, Path, V)
    BY <1>4, <2>3 DEF Entries
  <2> QED
    BY <2>1, <2>4 DEF V
<1>6. CASE I # {}
  <2>1. PICK j \in 1..Len(q) : j \in I
    BY <1>6
  <2>2. I = {j}
    BY <1>1, <1>3, <2>1 DEF OneEach
  <2>3. Min({j}) = j
    BY DEF Min
  <2>4. i = j /\ q[j] = p /\ i # 0
    <3>1. j # 0 /\ q[j] = p
      BY <1>1, <1>3, <2>1
    <3> HIDE DEF q, i, I
    <3> QED
      BY <1>2, <1>6, <2>2, <2>3, <3>1
  <2>5. RemoveFile(Set, idx, f, p) = [idx EXCEPT ![f] = RemoveAt(q, j)]
    BY <2>4 DEF RemoveFile
  <2>6. OneEach(RemoveAt(q, j), V[f])
    <3> HIDE DEF q, V
    <3> QED
      BY <1>1, <1>4, <2>1, <2>4, RemovedAt
  <2> HIDE DEF q, V
  <2>7. Entries([idx EXCEPT ![f] = RemoveAt(q, j)], Path, V)
    BY <1>4, <2>6, EntriesReplaced
  <2> QED
    BY <2>5, <2>7 DEF V
<1> QED
  BY <1>5, <1>6

LEMMA FileAdded ==
    ASSUME NEW idx, NEW W, Entries(idx, Path, W), NEW f \in Path, NEW p \in Pkg, p \notin W[f]
    PROVE  Entries(AddFile(idx, f, p), Path, With(W, Path, {f}, p))
  BY EntryAdded DEF AddFile

-----------------------------------------------------------------------------
(* What PkgIndex does to an index for a package, and for a set of them.    *)

(* A package whose capabilities are entered in an index that does not have *)
(* it is there under each name it provides, once.                          *)
LEMMA CapsIndexed ==
    ASSUME NEW p \in Pkg, NEW S, IsFiniteSet(S), \A x \in S : x.name \in Name,
           NEW idx \in [Name -> Seq(Pkg)], NEW W
    PROVE  /\ FoldSet(LAMBDA x, i : AddCap(i, x.name, p, TRUE), idx, S) \in [Name -> Seq(Pkg)]
           /\ Entries(idx, Name, W) =>
                Entries(FoldSet(LAMBDA x, i : AddCap(i, x.name, p, TRUE), idx, S), Name, With(W, Name, Names(S), p))
<1> DEFINE Pre == Entries(idx, Name, W)
           A == [Name -> Seq(Pkg)]
           Mark(s) == Names(s)
           Do(i, x) == AddCap(i, x.name, p, TRUE)
           ch == [s \in SUBSET S |-> CHOOSE x \in s : TRUE]
           g == [z \in S \X A |-> Do(z[2], z[1])]
           Body(f) == [s \in SUBSET S |->
                         IF s = {} THEN idx ELSE Do(f[s \ {CHOOSE x \in s : TRUE}], CHOOSE x \in s : TRUE)]
           h == CHOOSE f : f = Body(f)
           R == {z \in (SUBSET S) \X A : Pre => Entries(z[2], Name, With(W, Name, Mark(z[1]), p))}
<1>1. FoldSet(LAMBDA x, i : AddCap(i, x.name, p, TRUE), idx, S) = h[S]
  BY DEF FoldSet, MapThenFoldSet
<1>2. idx \in A
  BY DEF Entries
<1>3. \A a \in A, x \in S : Do(a, x) \in A
  <2> SUFFICES ASSUME NEW a \in A, NEW x \in S PROVE Do(a, x) \in A
    OBVIOUS
  <2>1. \A n \in Name : a[n] \in Seq(Pkg) /\ Append(a[n], p) \in Seq(Pkg)
    BY AppendProperties
  <2> QED
    BY <2>1 DEF AddCap
<1> HIDE DEF Do
<1>4. g \in [S \X A -> A] /\ \A x \in S, a \in A : g[x, a] = Do(a, x)
  <2> HIDE DEF A
  <2> QED
    BY <1>3
<1>5. Chooses(ch, S) /\ \A s \in SUBSET S : ch[s] = CHOOSE x \in s : TRUE
  BY DEF Chooses
<1>6. PICK f \in [SUBSET S -> A] : FoldsBy(f, S, idx, g, ch)
  <2> HIDE DEF A, g, ch
  <2> QED
    BY <1>2, <1>4, <1>5, SubsetRecursion
<1>7. f = Body(f)
  <2> HIDE DEF A, g, ch
  <2>1. ASSUME NEW s \in SUBSET S, s # {}
        PROVE  f[s] = Do(f[s \ {CHOOSE x \in s : TRUE}], CHOOSE x \in s : TRUE)
    <3>1. PICK x \in S : x = ch[s]
      BY <1>5, <2>1 DEF Chooses
    <3>2. f[s \ {x}] \in A
      OBVIOUS
    <3>3. f[s] = g[x, f[s \ {x}]]
      BY <1>6, <2>1, <3>1 DEF FoldsBy
    <3>4. f[s] = Do(f[s \ {x}], x)
      BY <1>4, <3>2, <3>3
    <3> QED
      BY <1>5, <3>1, <3>4
  <2>2. f[{}] = idx
    BY <1>6 DEF FoldsBy
  <2> QED
    BY <2>1, <2>2
<1>8. h = Body(h)
  <2> HIDE DEF Body
  <2> QED
    BY <1>7
<1>9. FoldOf(S, A, idx, g, ch, h)
  <2> HIDE DEF A, g, ch, h
  <2>1. h[{}] = idx /\ \A s \in SUBSET S : s # {} => h[s] = Do(h[s \ {ch[s]}], ch[s])
    BY <1>5, <1>8
  <2>2. ASSUME NEW s \in SUBSET S, s # {}, h[s \ {ch[s]}] \in A
        PROVE  h[s] = g[ch[s], h[s \ {ch[s]}]]
    <3>1. PICK x \in S : x = ch[s]
      BY <1>5, <2>2 DEF Chooses
    <3> QED
      BY <1>4, <2>1, <2>2, <3>1
  <2> QED
    BY <1>2, <1>4, <1>5, <2>1, <2>2 DEF FoldOf
<1>10. Kept(S, A, idx, g, ch, R)
  <2>1. <<{}, idx>> \in R
    <3>1. Mark({}) = {}
      BY DEF Names
    <3>2. \A n \in Name : With(W, Name, {}, p)[n] = W[n]
      BY DEF With
    <3>3. Pre => Entries(idx, Name, With(W, Name, {}, p))
      BY <3>2 DEF Entries
    <3> HIDE DEF Mark, A, Pre
    <3> QED
      BY <1>2, <3>1, <3>3
  <2>2. ASSUME NEW s \in SUBSET S, NEW a \in A, s # {}, <<s \ {ch[s]}, a>> \in R
        PROVE  <<s, g[ch[s], a]>> \in R
    <3>1. PICK x \in s : x = ch[s]
      BY <1>5, <2>2 DEF Chooses
    <3>2. Mark(s) = Mark(s \ {x}) \union {x.name}
      BY DEF Names
    <3> DEFINE V == With(W, Name, Mark(s \ {x}), p)
    <3>3. Pre => Entries(a, Name, V)
      BY <2>2, <3>1
    <3>4. Pre => x.name \in Name
      OBVIOUS
    <3>5. Pre => Entries(Do(a, x), Name, With(V, Name, {x.name}, p))
      <4> HIDE DEF V, Pre
      <4> QED
        BY <3>3, <3>4, CapAdded DEF Do
    <3>6. With(V, Name, {x.name}, p) = With(W, Name, Mark(s), p)
      <4> DEFINE m == Mark(s \ {x})
      <4> HIDE DEF Mark
      <4>1. With(With(W, Name, m, p), Name, {x.name}, p) = With(W, Name, m \union {x.name}, p)
        <5> HIDE DEF m
        <5> QED
          BY WithTwice
      <4> QED
        BY <3>2, <4>1
    <3>7. Do(a, x) \in A /\ g[x, a] = Do(a, x)
      <4> HIDE DEF A, g
      <4> QED
        BY <1>3, <1>4
    <3> HIDE DEF A, g, Mark, V, Pre
    <3> QED
      BY <3>1, <3>5, <3>6, <3>7
  <2> HIDE DEF A, g, ch, R
  <2> QED
    BY <2>1, <2>2 DEF Kept
<1>11. <<S, h[S]>> \in R
  <2> HIDE DEF A, g, ch, h, R
  <2> QED
    BY <1>9, <1>10, FoldIsRight
<1> HIDE DEF h
<1> QED
  BY <1>1, <1>11

(* So is one whose requirements are entered.                               *)
LEMMA ReqsIndexed ==
    ASSUME NEW p \in Pkg, NEW S, IsFiniteSet(S), \A x \in S : x.name \in Name,
           \A x, y \in S : x.name = y.name => x = y,
           NEW idx \in [Name -> Seq(Pkg)], NEW W
    PROVE  /\ FoldSet(LAMBDA x, i : AddReq(i, x.name, p), idx, S) \in [Name -> Seq(Pkg)]
           /\ Entries(idx, Name, W) /\ (\A n \in Name : p \notin W[n]) =>
                Entries(FoldSet(LAMBDA x, i : AddReq(i, x.name, p), idx, S), Name, With(W, Name, Names(S) \ Skipped, p))
<1> DEFINE Pre == Entries(idx, Name, W) /\ \A n \in Name : p \notin W[n]
           A == [Name -> Seq(Pkg)]
           Mark(s) == Names(s) \ Skipped
           Do(i, x) == AddReq(i, x.name, p)
           ch == [s \in SUBSET S |-> CHOOSE x \in s : TRUE]
           g == [z \in S \X A |-> Do(z[2], z[1])]
           Body(f) == [s \in SUBSET S |->
                         IF s = {} THEN idx ELSE Do(f[s \ {CHOOSE x \in s : TRUE}], CHOOSE x \in s : TRUE)]
           h == CHOOSE f : f = Body(f)
           R == {z \in (SUBSET S) \X A : Pre => Entries(z[2], Name, With(W, Name, Mark(z[1]), p))}
<1>1. FoldSet(LAMBDA x, i : AddReq(i, x.name, p), idx, S) = h[S]
  BY DEF FoldSet, MapThenFoldSet
<1>2. idx \in A
  BY DEF Entries
<1>3. \A a \in A, x \in S : Do(a, x) \in A
  <2> SUFFICES ASSUME NEW a \in A, NEW x \in S PROVE Do(a, x) \in A
    OBVIOUS
  <2>1. \A n \in Name : a[n] \in Seq(Pkg) /\ Append(a[n], p) \in Seq(Pkg)
    BY AppendProperties
  <2> QED
    BY <2>1 DEF AddReq
<1> HIDE DEF Do
<1>4. g \in [S \X A -> A] /\ \A x \in S, a \in A : g[x, a] = Do(a, x)
  <2> HIDE DEF A
  <2> QED
    BY <1>3
<1>5. Chooses(ch, S) /\ \A s \in SUBSET S : ch[s] = CHOOSE x \in s : TRUE
  BY DEF Chooses
<1>6. PICK f \in [SUBSET S -> A] : FoldsBy(f, S, idx, g, ch)
  <2> HIDE DEF A, g, ch
  <2> QED
    BY <1>2, <1>4, <1>5, SubsetRecursion
<1>7. f = Body(f)
  <2> HIDE DEF A, g, ch
  <2>1. ASSUME NEW s \in SUBSET S, s # {}
        PROVE  f[s] = Do(f[s \ {CHOOSE x \in s : TRUE}], CHOOSE x \in s : TRUE)
    <3>1. PICK x \in S : x = ch[s]
      BY <1>5, <2>1 DEF Chooses
    <3>2. f[s \ {x}] \in A
      OBVIOUS
    <3>3. f[s] = g[x, f[s \ {x}]]
      BY <1>6, <2>1, <3>1 DEF FoldsBy
    <3>4. f[s] = Do(f[s \ {x}], x)
      BY <1>4, <3>2, <3>3
    <3> QED
      BY <1>5, <3>1, <3>4
  <2>2. f[{}] = idx
    BY <1>6 DEF FoldsBy
  <2> QED
    BY <2>1, <2>2
<1>8. h = Body(h)
  <2> HIDE DEF Body
  <2> QED
    BY <1>7
<1>9. FoldOf(S, A, idx, g, ch, h)
  <2> HIDE DEF A, g, ch, h
  <2>1. h[{}] = idx /\ \A s \in SUBSET S : s # {} => h[s] = Do(h[s \ {ch[s]}], ch[s])
    BY <1>5, <1>8
  <2>2. ASSUME NEW s \in SUBSET S, s # {}, h[s \ {ch[s]}] \in A
        PROVE  h[s] = g[ch[s], h[s \ {ch[s]}]]
    <3>1. PICK x \in S : x = ch[s]
      BY <1>5, <2>2 DEF Chooses
    <3> QED
      BY <1>4, <2>1, <2>2, <3>1
  <2> QED
    BY <1>2, <1>4, <1>5, <2>1, <2>2 DEF FoldOf
<1>10. Kept(S, A, idx, g, ch, R)
  <2>1. <<{}, idx>> \in R
    <3>1. Mark({}) = {}
      BY DEF Names
    <3>2. \A n \in Name : With(W, Name, {}, p)[n] = W[n]
      BY DEF With
    <3>3. Pre => Entries(idx, Name, With(W, Name, {}, p))
      BY <3>2 DEF Entries
    <3> HIDE DEF Mark, A, Pre
    <3> QED
      BY <1>2, <3>1, <3>3
  <2>2. ASSUME NEW s \in SUBSET S, NEW a \in A, s # {}, <<s \ {ch[s]}, a>> \in R
        PROVE  <<s, g[ch[s], a]>> \in R
    <3>1. PICK x \in s : x = ch[s]
      BY <1>5, <2>2 DEF Chooses
    <3>2. Mark(s) = Mark(s \ {x}) \union ({x.name} \ Skipped)
      BY DEF Names
    <3> DEFINE V == With(W, Name, Mark(s \ {x}), p)
    <3>3. Pre => Entries(a, Name, V)
      BY <2>2, <3>1
    <3>4. Pre => x.name \in Name /\ p \notin V[x.name]
      <4>1. x.name \notin Mark(s \ {x})
        BY DEF Names
      <4> HIDE DEF Mark
      <4> QED
        BY <4>1 DEF With
    <3>5. Pre => Entries(Do(a, x), Name, With(V, Name, ({x.name} \ Skipped), p))
      <4> HIDE DEF V, Pre
      <4> QED
        BY <3>3, <3>4, ReqAdded DEF Do
    <3>6. With(V, Name, ({x.name} \ Skipped), p) = With(W, Name, Mark(s), p)
      <4> DEFINE m == Mark(s \ {x})
      <4> HIDE DEF Mark
      <4>1. With(With(W, Name, m, p), Name, ({x.name} \ Skipped), p) = With(W, Name, m \union ({x.name} \ Skipped), p)
        <5> HIDE DEF m
        <5> QED
          BY WithTwice
      <4> QED
        BY <3>2, <4>1
    <3>7. Do(a, x) \in A /\ g[x, a] = Do(a, x)
      <4> HIDE DEF A, g
      <4> QED
        BY <1>3, <1>4
    <3> HIDE DEF A, g, Mark, V, Pre
    <3> QED
      BY <3>1, <3>5, <3>6, <3>7
  <2> HIDE DEF A, g, ch, R
  <2> QED
    BY <2>1, <2>2 DEF Kept
<1>11. <<S, h[S]>> \in R
  <2> HIDE DEF A, g, ch, h, R
  <2> QED
    BY <1>9, <1>10, FoldIsRight
<1> HIDE DEF h
<1> QED
  BY <1>1, <1>11

(* And one whose files are.                                                *)
LEMMA FilesIndexed ==
    ASSUME NEW p \in Pkg, NEW S, IsFiniteSet(S), S \subseteq Path,
           NEW idx \in [Path -> Seq(Pkg)], NEW W
    PROVE  /\ FoldSet(LAMBDA x, i : AddFile(i, x, p), idx, S) \in [Path -> Seq(Pkg)]
           /\ Entries(idx, Path, W) /\ (\A f \in Path : p \notin W[f]) =>
                Entries(FoldSet(LAMBDA x, i : AddFile(i, x, p), idx, S), Path, With(W, Path, S, p))
<1> DEFINE Pre == Entries(idx, Path, W) /\ \A f \in Path : p \notin W[f]
           A == [Path -> Seq(Pkg)]
           Mark(s) == s
           Do(i, x) == AddFile(i, x, p)
           ch == [s \in SUBSET S |-> CHOOSE x \in s : TRUE]
           g == [z \in S \X A |-> Do(z[2], z[1])]
           Body(f) == [s \in SUBSET S |->
                         IF s = {} THEN idx ELSE Do(f[s \ {CHOOSE x \in s : TRUE}], CHOOSE x \in s : TRUE)]
           h == CHOOSE f : f = Body(f)
           R == {z \in (SUBSET S) \X A : Pre => Entries(z[2], Path, With(W, Path, Mark(z[1]), p))}
<1>1. FoldSet(LAMBDA x, i : AddFile(i, x, p), idx, S) = h[S]
  BY DEF FoldSet, MapThenFoldSet
<1>2. idx \in A
  BY DEF Entries
<1>3. \A a \in A, x \in S : Do(a, x) \in A
  <2> SUFFICES ASSUME NEW a \in A, NEW x \in S PROVE Do(a, x) \in A
    OBVIOUS
  <2>1. \A n \in Path : a[n] \in Seq(Pkg) /\ Append(a[n], p) \in Seq(Pkg)
    BY AppendProperties
  <2> QED
    BY <2>1 DEF AddFile
<1> HIDE DEF Do
<1>4. g \in [S \X A -> A] /\ \A x \in S, a \in A : g[x, a] = Do(a, x)
  <2> HIDE DEF A
  <2> QED
    BY <1>3
<1>5. Chooses(ch, S) /\ \A s \in SUBSET S : ch[s] = CHOOSE x \in s : TRUE
  BY DEF Chooses
<1>6. PICK f \in [SUBSET S -> A] : FoldsBy(f, S, idx, g, ch)
  <2> HIDE DEF A, g, ch
  <2> QED
    BY <1>2, <1>4, <1>5, SubsetRecursion
<1>7. f = Body(f)
  <2> HIDE DEF A, g, ch
  <2>1. ASSUME NEW s \in SUBSET S, s # {}
        PROVE  f[s] = Do(f[s \ {CHOOSE x \in s : TRUE}], CHOOSE x \in s : TRUE)
    <3>1. PICK x \in S : x = ch[s]
      BY <1>5, <2>1 DEF Chooses
    <3>2. f[s \ {x}] \in A
      OBVIOUS
    <3>3. f[s] = g[x, f[s \ {x}]]
      BY <1>6, <2>1, <3>1 DEF FoldsBy
    <3>4. f[s] = Do(f[s \ {x}], x)
      BY <1>4, <3>2, <3>3
    <3> QED
      BY <1>5, <3>1, <3>4
  <2>2. f[{}] = idx
    BY <1>6 DEF FoldsBy
  <2> QED
    BY <2>1, <2>2
<1>8. h = Body(h)
  <2> HIDE DEF Body
  <2> QED
    BY <1>7
<1>9. FoldOf(S, A, idx, g, ch, h)
  <2> HIDE DEF A, g, ch, h
  <2>1. h[{}] = idx /\ \A s \in SUBSET S : s # {} => h[s] = Do(h[s \ {ch[s]}], ch[s])
    BY <1>5, <1>8
  <2>2. ASSUME NEW s \in SUBSET S, s # {}, h[s \ {ch[s]}] \in A
        PROVE  h[s] = g[ch[s], h[s \ {ch[s]}]]
    <3>1. PICK x \in S : x = ch[s]
      BY <1>5, <2>2 DEF Chooses
    <3> QED
      BY <1>4, <2>1, <2>2, <3>1
  <2> QED
    BY <1>2, <1>4, <1>5, <2>1, <2>2 DEF FoldOf
<1>10. Kept(S, A, idx, g, ch, R)
  <2>1. <<{}, idx>> \in R
    <3>1. Mark({}) = {}
      BY DEF Names
    <3>2. \A n \in Path : With(W, Path, {}, p)[n] = W[n]
      BY DEF With
    <3>3. Pre => Entries(idx, Path, With(W, Path, {}, p))
      BY <3>2 DEF Entries
    <3> HIDE DEF Mark, A, Pre
    <3> QED
      BY <1>2, <3>1, <3>3
  <2>2. ASSUME NEW s \in SUBSET S, NEW a \in A, s # {}, <<s \ {ch[s]}, a>> \in R
        PROVE  <<s, g[ch[s], a]>> \in R
    <3>1. PICK x \in s : x = ch[s]
      BY <1>5, <2>2 DEF Chooses
    <3>2. Mark(s) = Mark(s \ {x}) \union {x}
      OBVIOUS
    <3> DEFINE V == With(W, Path, Mark(s \ {x}), p)
    <3>3. Pre => Entries(a, Path, V)
      BY <2>2, <3>1
    <3>4. Pre => x \in Path /\ p \notin V[x]
      BY DEF With
    <3>5. Pre => Entries(Do(a, x), Path, With(V, Path, {x}, p))
      <4> HIDE DEF V, Pre
      <4> QED
        BY <3>3, <3>4, FileAdded DEF Do
    <3>6. With(V, Path, {x}, p) = With(W, Path, Mark(s), p)
      <4> DEFINE m == Mark(s \ {x})
      <4> HIDE DEF Mark
      <4>1. With(With(W, Path, m, p), Path, {x}, p) = With(W, Path, m \union {x}, p)
        <5> HIDE DEF m
        <5> QED
          BY WithTwice
      <4> QED
        BY <3>2, <4>1
    <3>7. Do(a, x) \in A /\ g[x, a] = Do(a, x)
      <4> HIDE DEF A, g
      <4> QED
        BY <1>3, <1>4
    <3> HIDE DEF A, g, Mark, V, Pre
    <3> QED
      BY <3>1, <3>5, <3>6, <3>7
  <2> HIDE DEF A, g, ch, R
  <2> QED
    BY <2>1, <2>2 DEF Kept
<1>11. <<S, h[S]>> \in R
  <2> HIDE DEF A, g, ch, h, R
  <2> QED
    BY <1>9, <1>10, FoldIsRight
<1> HIDE DEF h
<1> QED
  BY <1>1, <1>11

(* Of a package that goes no entry is left, and what others have stays.    *)
LEMMA EntriesUnindexed ==
    ASSUME NEW p \in Pkg, NEW S, IsFiniteSet(S), \A x \in S : x.name \in Name,
           NEW idx, NEW W, Entries(idx, Name, W), Alone(W, Name, p)
    PROVE  Entries(FoldSet(LAMBDA x, i : RemoveEntry(Set, i, x.name, p), idx, S), Name, Less(W, Name, Names(S), p))
<1> DEFINE Pre == TRUE
           A == {i \in [Name -> Seq(Pkg)] : \E V : Entries(i, Name, V) /\ Alone(V, Name, p)}
           Mark(s) == Names(s)
           Do(i, x) == RemoveEntry(Set, i, x.name, p)
           ch == [s \in SUBSET S |-> CHOOSE x \in s : TRUE]
           g == [z \in S \X A |-> Do(z[2], z[1])]
           Body(f) == [s \in SUBSET S |->
                         IF s = {} THEN idx ELSE Do(f[s \ {CHOOSE x \in s : TRUE}], CHOOSE x \in s : TRUE)]
           h == CHOOSE f : f = Body(f)
           R == {z \in (SUBSET S) \X A : Pre => Entries(z[2], Name, Less(W, Name, Mark(z[1]), p))}
<1>1. FoldSet(LAMBDA x, i : RemoveEntry(Set, i, x.name, p), idx, S) = h[S]
  BY DEF FoldSet, MapThenFoldSet
<1>2. idx \in A
  BY DEF Entries
<1>3. \A a \in A, x \in S : Do(a, x) \in A
  <2> SUFFICES ASSUME NEW a \in A, NEW x \in S PROVE Do(a, x) \in A
    OBVIOUS
  <2>1. PICK V : Entries(a, Name, V) /\ Alone(V, Name, p)
    OBVIOUS
  <2> DEFINE U == Less(V, Name, {x.name}, p)
  <2>2. Entries(Do(a, x), Name, U)
    BY <2>1, EntryRemoved
  <2>3. Alone(U, Name, p)
    BY <2>1 DEF Alone, Less
  <2> HIDE DEF U, Do
  <2> QED
    BY <2>2, <2>3 DEF Entries
<1> HIDE DEF Do
<1>4. g \in [S \X A -> A] /\ \A x \in S, a \in A : g[x, a] = Do(a, x)
  <2> HIDE DEF A
  <2> QED
    BY <1>3
<1>5. Chooses(ch, S) /\ \A s \in SUBSET S : ch[s] = CHOOSE x \in s : TRUE
  BY DEF Chooses
<1>6. PICK f \in [SUBSET S -> A] : FoldsBy(f, S, idx, g, ch)
  <2> HIDE DEF A, g, ch
  <2> QED
    BY <1>2, <1>4, <1>5, SubsetRecursion
<1>7. f = Body(f)
  <2> HIDE DEF A, g, ch
  <2>1. ASSUME NEW s \in SUBSET S, s # {}
        PROVE  f[s] = Do(f[s \ {CHOOSE x \in s : TRUE}], CHOOSE x \in s : TRUE)
    <3>1. PICK x \in S : x = ch[s]
      BY <1>5, <2>1 DEF Chooses
    <3>2. f[s \ {x}] \in A
      OBVIOUS
    <3>3. f[s] = g[x, f[s \ {x}]]
      BY <1>6, <2>1, <3>1 DEF FoldsBy
    <3>4. f[s] = Do(f[s \ {x}], x)
      BY <1>4, <3>2, <3>3
    <3> QED
      BY <1>5, <3>1, <3>4
  <2>2. f[{}] = idx
    BY <1>6 DEF FoldsBy
  <2> QED
    BY <2>1, <2>2
<1>8. h = Body(h)
  <2> HIDE DEF Body
  <2> QED
    BY <1>7
<1>9. FoldOf(S, A, idx, g, ch, h)
  <2> HIDE DEF A, g, ch, h
  <2>1. h[{}] = idx /\ \A s \in SUBSET S : s # {} => h[s] = Do(h[s \ {ch[s]}], ch[s])
    BY <1>5, <1>8
  <2>2. ASSUME NEW s \in SUBSET S, s # {}, h[s \ {ch[s]}] \in A
        PROVE  h[s] = g[ch[s], h[s \ {ch[s]}]]
    <3>1. PICK x \in S : x = ch[s]
      BY <1>5, <2>2 DEF Chooses
    <3> QED
      BY <1>4, <2>1, <2>2, <3>1
  <2> QED
    BY <1>2, <1>4, <1>5, <2>1, <2>2 DEF FoldOf
<1>10. Kept(S, A, idx, g, ch, R)
  <2>1. <<{}, idx>> \in R
    <3>1. Mark({}) = {}
      BY DEF Names
    <3>2. \A n \in Name : Less(W, Name, {}, p)[n] = W[n]
      BY DEF Less
    <3>3. Pre => Entries(idx, Name, Less(W, Name, {}, p))
      BY <3>2 DEF Entries
    <3> HIDE DEF Mark, A, Pre
    <3> QED
      BY <1>2, <3>1, <3>3
  <2>2. ASSUME NEW s \in SUBSET S, NEW a \in A, s # {}, <<s \ {ch[s]}, a>> \in R
        PROVE  <<s, g[ch[s], a]>> \in R
    <3>1. PICK x \in s : x = ch[s]
      BY <1>5, <2>2 DEF Chooses
    <3>2. Mark(s) = Mark(s \ {x}) \union {x.name}
      BY DEF Names
    <3> DEFINE V == Less(W, Name, Mark(s \ {x}), p)
    <3>3. Pre => Entries(a, Name, V)
      BY <2>2, <3>1
    <3>4. Pre => x.name \in Name /\ Alone(V, Name, p)
      BY DEF Alone, Less
    <3>5. Pre => Entries(Do(a, x), Name, Less(V, Name, {x.name}, p))
      <4> HIDE DEF V, Pre
      <4> QED
        BY <3>3, <3>4, EntryRemoved DEF Do
    <3>6. Less(V, Name, {x.name}, p) = Less(W, Name, Mark(s), p)
      <4> DEFINE m == Mark(s \ {x})
      <4> HIDE DEF Mark
      <4>1. Less(Less(W, Name, m, p), Name, {x.name}, p) = Less(W, Name, m \union {x.name}, p)
        <5> HIDE DEF m
        <5> QED
          BY LessTwice
      <4> QED
        BY <3>2, <4>1
    <3>7. Do(a, x) \in A /\ g[x, a] = Do(a, x)
      <4> HIDE DEF A, g
      <4> QED
        BY <1>3, <1>4
    <3> HIDE DEF A, g, Mark, V, Pre
    <3> QED
      BY <3>1, <3>5, <3>6, <3>7
  <2> HIDE DEF A, g, ch, R
  <2> QED
    BY <2>1, <2>2 DEF Kept
<1>11. <<S, h[S]>> \in R
  <2> HIDE DEF A, g, ch, h, R
  <2> QED
    BY <1>9, <1>10, FoldIsRight
<1> HIDE DEF h
<1> QED
  BY <1>1, <1>11

(* Nor is any of its files left in the index of files.                     *)
LEMMA FilesUnindexed ==
    ASSUME NEW p \in Pkg, NEW S, IsFiniteSet(S), S \subseteq Path,
           NEW idx, NEW W, Entries(idx, Path, W), Alone(W, Path, p)
    PROVE  Entries(FoldSet(LAMBDA x, i : RemoveFile(Set, i, x, p), idx, S), Path, Less(W, Path, S, p))
<1> DEFINE Pre == TRUE
           A == {i \in [Path -> Seq(Pkg)] : \E V : Entries(i, Path, V) /\ Alone(V, Path, p)}
           Mark(s) == s
           Do(i, x) == RemoveFile(Set, i, x, p)
           ch == [s \in SUBSET S |-> CHOOSE x \in s : TRUE]
           g == [z \in S \X A |-> Do(z[2], z[1])]
           Body(f) == [s \in SUBSET S |->
                         IF s = {} THEN idx ELSE Do(f[s \ {CHOOSE x \in s : TRUE}], CHOOSE x \in s : TRUE)]
           h == CHOOSE f : f = Body(f)
           R == {z \in (SUBSET S) \X A : Pre => Entries(z[2], Path, Less(W, Path, Mark(z[1]), p))}
<1>1. FoldSet(LAMBDA x, i : RemoveFile(Set, i, x, p), idx, S) = h[S]
  BY DEF FoldSet, MapThenFoldSet
<1>2. idx \in A
  BY DEF Entries
<1>3. \A a \in A, x \in S : Do(a, x) \in A
  <2> SUFFICES ASSUME NEW a \in A, NEW x \in S PROVE Do(a, x) \in A
    OBVIOUS
  <2>1. PICK V : Entries(a, Path, V) /\ Alone(V, Path, p)
    OBVIOUS
  <2> DEFINE U == Less(V, Path, {x}, p)
  <2>2. Entries(Do(a, x), Path, U)
    BY <2>1, FileRemoved
  <2>3. Alone(U, Path, p)
    BY <2>1 DEF Alone, Less
  <2> HIDE DEF U, Do
  <2> QED
    BY <2>2, <2>3 DEF Entries
<1> HIDE DEF Do
<1>4. g \in [S \X A -> A] /\ \A x \in S, a \in A : g[x, a] = Do(a, x)
  <2> HIDE DEF A
  <2> QED
    BY <1>3
<1>5. Chooses(ch, S) /\ \A s \in SUBSET S : ch[s] = CHOOSE x \in s : TRUE
  BY DEF Chooses
<1>6. PICK f \in [SUBSET S -> A] : FoldsBy(f, S, idx, g, ch)
  <2> HIDE DEF A, g, ch
  <2> QED
    BY <1>2, <1>4, <1>5, SubsetRecursion
<1>7. f = Body(f)
  <2> HIDE DEF A, g, ch
  <2>1. ASSUME NEW s \in SUBSET S, s # {}
        PROVE  f[s] = Do(f[s \ {CHOOSE x \in s : TRUE}], CHOOSE x \in s : TRUE)
    <3>1. PICK x \in S : x = ch[s]
      BY <1>5, <2>1 DEF Chooses
    <3>2. f[s \ {x}] \in A
      OBVIOUS
    <3>3. f[s] = g[x, f[s \ {x}]]
      BY <1>6, <2>1, <3>1 DEF FoldsBy
    <3>4. f[s] = Do(f[s \ {x}], x)
      BY <1>4, <3>2, <3>3
    <3> QED
      BY <1>5, <3>1, <3>4
  <2>2. f[{}] = idx
    BY <1>6 DEF FoldsBy
  <2> QED
    BY <2>1, <2>2
<1>8. h = Body(h)
  <2> HIDE DEF Body
  <2> QED
    BY <1>7
<1>9. FoldOf(S, A, idx, g, ch, h)
  <2> HIDE DEF A, g, ch, h
  <2>1. h[{}] = idx /\ \A s \in SUBSET S : s # {} => h[s] = Do(h[s \ {ch[s]}], ch[s])
    BY <1>5, <1>8
  <2>2. ASSUME NEW s \in SUBSET S, s # {}, h[s \ {ch[s]}] \in A
        PROVE  h[s] = g[ch[s], h[s \ {ch[s]}]]
    <3>1. PICK x \in S : x = ch[s]
      BY <1>5, <2>2 DEF Chooses
    <3> QED
      BY <1>4, <2>1, <2>2, <3>1
  <2> QED
    BY <1>2, <1>4, <1>5, <2>1, <2>2 DEF FoldOf
<1>10. Kept(S, A, idx, g, ch, R)
  <2>1. <<{}, idx>> \in R
    <3>1. Mark({}) = {}
      BY DEF Names
    <3>2. \A n \in Path : Less(W, Path, {}, p)[n] = W[n]
      BY DEF Less
    <3>3. Pre => Entries(idx, Path, Less(W, Path, {}, p))
      BY <3>2 DEF Entries
    <3> HIDE DEF Mark, A, Pre
    <3> QED
      BY <1>2, <3>1, <3>3
  <2>2. ASSUME NEW s \in SUBSET S, NEW a \in A, s # {}, <<s \ {ch[s]}, a>> \in R
        PROVE  <<s, g[ch[s], a]>> \in R
    <3>1. PICK x \in s : x = ch[s]
      BY <1>5, <2>2 DEF Chooses
    <3>2. Mark(s) = Mark(s \ {x}) \union {x}
      OBVIOUS
    <3> DEFINE V == Less(W, Path, Mark(s \ {x}), p)
    <3>3. Pre => Entries(a, Path, V)
      BY <2>2, <3>1
    <3>4. Pre => x \in Path /\ Alone(V, Path, p)
      BY DEF Alone, Less
    <3>5. Pre => Entries(Do(a, x), Path, Less(V, Path, {x}, p))
      <4> HIDE DEF V, Pre
      <4> QED
        BY <3>3, <3>4, FileRemoved DEF Do
    <3>6. Less(V, Path, {x}, p) = Less(W, Path, Mark(s), p)
      <4> DEFINE m == Mark(s \ {x})
      <4> HIDE DEF Mark
      <4>1. Less(Less(W, Path, m, p), Path, {x}, p) = Less(W, Path, m \union {x}, p)
        <5> HIDE DEF m
        <5> QED
          BY LessTwice
      <4> QED
        BY <3>2, <4>1
    <3>7. Do(a, x) \in A /\ g[x, a] = Do(a, x)
      <4> HIDE DEF A, g
      <4> QED
        BY <1>3, <1>4
    <3> HIDE DEF A, g, Mark, V, Pre
    <3> QED
      BY <3>1, <3>5, <3>6, <3>7
  <2> HIDE DEF A, g, ch, R
  <2> QED
    BY <2>1, <2>2 DEF Kept
<1>11. <<S, h[S]>> \in R
  <2> HIDE DEF A, g, ch, h, R
  <2> QED
    BY <1>9, <1>10, FoldIsRight
<1> HIDE DEF h
<1> QED
  BY <1>1, <1>11

(* Who provides a name, has a file, requires a name, among P.              *)
CapsOf(P) == [n \in Name |-> {p \in P : n \in Names(Set.caps[p])}]
FilesOf(P) == [f \in Path |-> {p \in P : f \in Set.files[p]}]
ReqsOf(P) == [n \in Name |-> {p \in P : n \in Requires[p] \ Skipped}]

LEMMA CrsIs ==
    ASSUME NEW p \in Pkg
    PROVE  /\ IsFiniteSet(Crs[p]) /\ Names(Crs[p]) = Requires[p]
           /\ \A x \in Crs[p] : x.name \in Name
           /\ \A x, y \in Crs[p] : x.name = y.name => x = y
<1>1. Crs[p] = {Unversioned(n) : n \in Requires[p]}
  BY DEF Crs
<1>2. \A n : Unversioned(n).name = n
  BY DEF Unversioned
<1>3. Requires[p] \subseteq Name /\ IsFiniteSet(Requires[p])
  BY SetAssumption
<1> DEFINE f == [n \in Requires[p] |-> Unversioned(n)]
<1>4. f \in Surjection(Requires[p], Crs[p])
  BY <1>1 DEF Surjection
<1>5. IsFiniteSet(Crs[p])
  <2> HIDE DEF f
  <2> QED
    BY <1>3, <1>4, FS_Surjection
<1>6. Names(Crs[p]) = Requires[p]
  BY <1>1, <1>2 DEF Names
<1>7. \A x, y \in Crs[p] : x.name = y.name => x = y
  BY <1>1, <1>2
<1>8. \A x \in Crs[p] : x.name \in Name
  BY <1>1, <1>2, <1>3
<1> QED
  BY <1>5, <1>6, <1>7, <1>8

LEMMA CapsAre ==
    ASSUME NEW p \in Pkg
    PROVE  IsFiniteSet(Set.caps[p]) /\ \A x \in Set.caps[p] : x.name \in Name
  BY SetAssumption DEF Names

LEMMA PackageIndexed ==
    ASSUME NEW p \in Pkg, NEW P, NEW idx \in [Name -> Seq(Pkg)], NEW fs \in [Path -> Seq(Pkg)]
    PROVE  /\ IndexCaps(Set, idx, p, TRUE) \in [Name -> Seq(Pkg)]
           /\ IndexReqs(idx, p, Crs[p]) \in [Name -> Seq(Pkg)]
           /\ IndexFiles(Set, fs, p) \in [Path -> Seq(Pkg)]
           /\ Entries(idx, Name, CapsOf(P)) =>
                Entries(IndexCaps(Set, idx, p, TRUE), Name, CapsOf(P \union {p}))
           /\ Entries(idx, Name, ReqsOf(P)) /\ p \notin P =>
                Entries(IndexReqs(idx, p, Crs[p]), Name, ReqsOf(P \union {p}))
           /\ Entries(fs, Path, FilesOf(P)) /\ p \notin P =>
                Entries(IndexFiles(Set, fs, p), Path, FilesOf(P \union {p}))
<1>1. /\ With(CapsOf(P), Name, Names(Set.caps[p]), p) = CapsOf(P \union {p})
      /\ With(FilesOf(P), Path, Set.files[p], p) = FilesOf(P \union {p})
      /\ With(ReqsOf(P), Name, Requires[p] \ Skipped, p) = ReqsOf(P \union {p})
  BY DEF With, CapsOf, FilesOf, ReqsOf
<1>2. p \notin P => (\A n \in Name : p \notin ReqsOf(P)[n]) /\ (\A f \in Path : p \notin FilesOf(P)[f])
  BY DEF ReqsOf, FilesOf
<1>3. /\ IndexCaps(Set, idx, p, TRUE) \in [Name -> Seq(Pkg)]
      /\ Entries(idx, Name, CapsOf(P)) =>
            Entries(IndexCaps(Set, idx, p, TRUE), Name, With(CapsOf(P), Name, Names(Set.caps[p]), p))
  BY CapsAre, CapsIndexed DEF IndexCaps
<1>4. /\ IndexReqs(idx, p, Crs[p]) \in [Name -> Seq(Pkg)]
      /\ Entries(idx, Name, ReqsOf(P)) /\ (\A n \in Name : p \notin ReqsOf(P)[n]) =>
            Entries(IndexReqs(idx, p, Crs[p]), Name, With(ReqsOf(P), Name, Names(Crs[p]) \ Skipped, p))
  BY CrsIs, ReqsIndexed DEF IndexReqs
<1>5. /\ IndexFiles(Set, fs, p) \in [Path -> Seq(Pkg)]
      /\ Entries(fs, Path, FilesOf(P)) /\ (\A f \in Path : p \notin FilesOf(P)[f]) =>
            Entries(IndexFiles(Set, fs, p), Path, With(FilesOf(P), Path, Set.files[p], p))
  BY SetAssumption, FilesIndexed DEF IndexFiles
<1> QED
  BY <1>1, <1>2, <1>3, <1>4, <1>5, CrsIs

LEMMA PackageUnindexed ==
    ASSUME NEW p \in Pkg, NEW P, \A q \in P : SameNevr(Set, p, q) => q = p, NEW idx
    PROVE  /\ Entries(idx, Name, CapsOf(P)) =>
                Entries(Unindex(Set, idx, p, Set.caps[p]), Name, CapsOf(P \ {p}))
           /\ Entries(idx, Name, ReqsOf(P)) =>
                Entries(Unindex(Set, idx, p, Crs[p]), Name, ReqsOf(P \ {p}))
           /\ Entries(idx, Path, FilesOf(P)) =>
                Entries(UnindexFiles(Set, idx, p), Path, FilesOf(P \ {p}))
<1>1. /\ Less(CapsOf(P), Name, Names(Set.caps[p]), p) = CapsOf(P \ {p})
      /\ Less(FilesOf(P), Path, Set.files[p], p) = FilesOf(P \ {p})
      /\ Less(ReqsOf(P), Name, Requires[p], p) = ReqsOf(P \ {p})
  BY DEF Less, CapsOf, FilesOf, ReqsOf
<1>2. Alone(CapsOf(P), Name, p) /\ Alone(ReqsOf(P), Name, p) /\ Alone(FilesOf(P), Path, p)
  BY DEF CapsOf, ReqsOf, FilesOf, Alone
<1>3. Entries(idx, Name, CapsOf(P)) =>
         Entries(Unindex(Set, idx, p, Set.caps[p]), Name, Less(CapsOf(P), Name, Names(Set.caps[p]), p))
  BY <1>2, CapsAre, EntriesUnindexed DEF Unindex
<1>4. Entries(idx, Name, ReqsOf(P)) =>
         Entries(Unindex(Set, idx, p, Crs[p]), Name, Less(ReqsOf(P), Name, Names(Crs[p]), p))
  BY <1>2, CrsIs, EntriesUnindexed DEF Unindex
<1>5. Entries(idx, Path, FilesOf(P)) =>
         Entries(UnindexFiles(Set, idx, p), Path, Less(FilesOf(P), Path, Set.files[p], p))
  BY <1>2, SetAssumption, FilesUnindexed DEF UnindexFiles
<1> QED
  BY <1>1, <1>3, <1>4, <1>5, CrsIs

(* A fold over a set of one.                                               *)
LEMMA OneForgotten ==
    ASSUME NEW p, NEW idx, NEW crs
    PROVE  /\ Forget(idx, {p}, crs) = Unindex(Set, idx, p, crs[p])
           /\ FoldSet(LAMBDA q, i : UnindexFiles(Set, i, q), idx, {p}) = UnindexFiles(Set, idx, p)
<1>1. /\ \A s \in SUBSET {p} : s # {} => s = {p} /\ s \ {p} = {}
      /\ (CHOOSE x \in {p} : TRUE) = p /\ {p} \in SUBSET {p} /\ {} \in SUBSET {p} /\ {p} # {}
      /\ {p} \ {p} = {}
  OBVIOUS
<1> DEFINE ByCaps(i, q) == Unindex(Set, i, q, crs[q])
           ByFiles(i, q) == UnindexFiles(Set, i, q)
<1>2. Forget(idx, {p}, crs) = ByCaps(idx, p)
  <2> DEFINE Do(i, q) == ByCaps(i, q)
             Body(f) == [s \in SUBSET {p} |->
                           IF s = {} THEN idx ELSE Do(f[s \ {CHOOSE x \in s : TRUE}], CHOOSE x \in s : TRUE)]
             h == CHOOSE f : f = Body(f)
             e == [s \in SUBSET {p} |-> IF s = {} THEN idx ELSE Do(idx, p)]
  <2>1. Forget(idx, {p}, crs) = h[{p}]
    BY DEF FoldSet, MapThenFoldSet, Forget
  <2> HIDE DEF Do
  <2>2. e = Body(e)
    <3>1. \A s \in SUBSET {p} : s # {} =>
             e[s] = Do(e[s \ {CHOOSE x \in s : TRUE}], CHOOSE x \in s : TRUE)
      BY <1>1
    <3> QED
      BY <3>1
  <2>3. h = Body(h)
    <3> HIDE DEF Body
    <3> QED
      BY <2>2
  <2>4. h[{}] = idx /\ h[{p}] = Do(h[{}], p)
    <3> HIDE DEF h
    <3> QED
      BY <1>1, <2>3
  <2> HIDE DEF h
  <2> QED
    BY <2>1, <2>4 DEF Do
<1>3. FoldSet(LAMBDA q, i : UnindexFiles(Set, i, q), idx, {p}) = ByFiles(idx, p)
  <2> DEFINE Do(i, q) == ByFiles(i, q)
             Body(f) == [s \in SUBSET {p} |->
                           IF s = {} THEN idx ELSE Do(f[s \ {CHOOSE x \in s : TRUE}], CHOOSE x \in s : TRUE)]
             h == CHOOSE f : f = Body(f)
             e == [s \in SUBSET {p} |-> IF s = {} THEN idx ELSE Do(idx, p)]
  <2>1. FoldSet(LAMBDA q, i : UnindexFiles(Set, i, q), idx, {p}) = h[{p}]
    BY DEF FoldSet, MapThenFoldSet, Forget
  <2> HIDE DEF Do
  <2>2. e = Body(e)
    <3>1. \A s \in SUBSET {p} : s # {} =>
             e[s] = Do(e[s \ {CHOOSE x \in s : TRUE}], CHOOSE x \in s : TRUE)
      BY <1>1
    <3> QED
      BY <3>1
  <2>3. h = Body(h)
    <3> HIDE DEF Body
    <3> QED
      BY <2>2
  <2>4. h[{}] = idx /\ h[{p}] = Do(h[{}], p)
    <3> HIDE DEF h
    <3> QED
      BY <1>1, <2>3
  <2> HIDE DEF h
  <2> QED
    BY <2>1, <2>4 DEF Do
<1> QED
  BY <1>2, <1>3

LEMMA EmptyFiles == NoFiles \in [Path -> Seq(Pkg)] /\ NothingIndexed \in [Name -> Seq(Pkg)]
  BY EmptyOne DEF NoFiles, NothingIndexed, OneEach

LEMMA AllCapsIndexed ==
    ASSUME NEW ps \in Seq(Pkg), \A i, j \in DOMAIN ps : ps[i] = ps[j] => i = j
    PROVE  Entries(AllCaps(Set, ps, TRUE), Name, CapsOf(ToSet(ps)))
<1> DEFINE S == DOMAIN ps
           A == [Name -> Seq(Pkg)]
           Do(i, p) == IndexCaps(Set, i, p, TRUE)
           base == NothingIndexed
           ch == [s \in SUBSET S |-> Max(s)]
           g == [z \in S \X A |-> Do(z[2], ps[z[1]])]
           Body(f) == [s \in SUBSET S |-> IF s = {} THEN base ELSE Do(f[s \ {Max(s)}], ps[Max(s)])]
           h == CHOOSE f : f = Body(f)
           In(s) == {ps[i] : i \in s}
           R == {z \in (SUBSET S) \X A : Entries(z[2], Name, CapsOf(In(z[1])))}
<1>1. AllCaps(Set, ps, TRUE) = h[S]
  BY DEF AllCaps, FoldLeft, MapThenFoldSet
<1>2. IsFiniteSet(S) /\ S = 1..Len(ps) /\ Len(ps) \in Nat /\ \A i \in S : ps[i] \in Pkg
  BY FS_Interval, LenProperties, ElementOfSeq
<1>3. base \in A /\ Entries(base, Name, CapsOf({}))
  <2>1. \A n \in Name : CapsOf({})[n] = {} /\ base[n] = << >>
    BY DEF CapsOf, NothingIndexed
  <2>2. base \in A
    BY EmptyOne DEF NothingIndexed, OneEach
  <2> QED
    BY <2>1, <2>2, EmptyOne DEF Entries
<1>4. \A a \in A, p \in Pkg : Do(a, p) \in A
  BY PackageIndexed, EmptyFiles
<1> HIDE DEF Do, base
<1>5. g \in [S \X A -> A] /\ \A i \in S, a \in A : g[i, a] = Do(a, ps[i])
  <2> HIDE DEF A, S
  <2> QED
    BY <1>2, <1>4
<1>6. Chooses(ch, S) /\ \A s \in SUBSET S : ch[s] = Max(s)
  BY <1>2, MaxExists DEF Chooses
<1>7. PICK f \in [SUBSET S -> A] : FoldsBy(f, S, base, g, ch)
  <2> HIDE DEF S, A, g, ch
  <2> QED
    BY <1>2, <1>3, <1>5, <1>6, SubsetRecursion
<1>8. f = Body(f)
  <2> HIDE DEF S, A, g, ch
  <2>1. ASSUME NEW s \in SUBSET S, s # {}
        PROVE  f[s] = Do(f[s \ {Max(s)}], ps[Max(s)])
    <3>1. PICK i \in S : i = ch[s]
      BY <1>6, <2>1 DEF Chooses
    <3>2. f[s \ {i}] \in A
      OBVIOUS
    <3>3. f[s] = g[i, f[s \ {i}]]
      BY <1>7, <2>1, <3>1 DEF FoldsBy
    <3>4. f[s] = Do(f[s \ {i}], ps[i])
      BY <1>5, <3>2, <3>3
    <3> QED
      BY <1>6, <3>1, <3>4
  <2>2. f[{}] = base
    BY <1>7 DEF FoldsBy
  <2> QED
    BY <2>1, <2>2
<1>9. h = Body(h)
  <2> HIDE DEF Body
  <2> QED
    BY <1>8
<1>10. FoldOf(S, A, base, g, ch, h)
  <2> HIDE DEF S, A, g, ch, h
  <2>1. h[{}] = base /\ \A s \in SUBSET S : s # {} => h[s] = Do(h[s \ {ch[s]}], ps[ch[s]])
    BY <1>6, <1>9
  <2>2. ASSUME NEW s \in SUBSET S, s # {}, h[s \ {ch[s]}] \in A
        PROVE  h[s] = g[ch[s], h[s \ {ch[s]}]]
    <3>1. PICK i \in S : i = ch[s]
      BY <1>6, <2>2 DEF Chooses
    <3> QED
      BY <1>5, <2>1, <2>2, <3>1
  <2> QED
    BY <1>2, <1>3, <1>5, <1>6, <2>1, <2>2 DEF FoldOf
<1>11. Kept(S, A, base, g, ch, R)
  <2>1. <<{}, base>> \in R
    <3>1. In({}) = {}
      OBVIOUS
    <3> HIDE DEF In, A
    <3> QED
      BY <1>3, <3>1
  <2>2. ASSUME NEW s \in SUBSET S, NEW a \in A, s # {}, <<s \ {ch[s]}, a>> \in R
        PROVE  <<s, g[ch[s], a]>> \in R
    <3>1. PICK i \in s : i = ch[s]
      BY <1>6, <2>2 DEF Chooses
    <3> DEFINE B == In(s \ {i})
               p == ps[i]
    <3>2. p \in Pkg /\ p \notin B /\ In(s) = B \union {p}
      BY <1>2
    <3>3. Entries(a, Name, CapsOf(B))
      BY <2>2, <3>1
    <3>4. Do(a, p) \in A /\ g[i, a] = Do(a, p)
      <4> HIDE DEF A, g, S
      <4> QED
        BY <1>2, <1>4, <1>5
    <3>5. Entries(Do(a, p), Name, CapsOf(B \union {p}))
      <4> HIDE DEF B, p
      <4> QED
        BY <3>2, <3>3, PackageIndexed, EmptyFiles DEF Do
    <3> HIDE DEF A, g, In, B, p, S
    <3> QED
      BY <3>1, <3>2, <3>4, <3>5
  <2> HIDE DEF S, A, g, ch, R
  <2> QED
    BY <2>1, <2>2 DEF Kept
<1>12. <<S, h[S]>> \in R
  <2> HIDE DEF S, A, g, ch, h, R
  <2> QED
    BY <1>10, <1>11, FoldIsRight
<1>13. In(S) = ToSet(ps)
  BY DEF ToSet
<1> HIDE DEF h, In
<1> QED
  BY <1>1, <1>12, <1>13

LEMMA AllReqsIndexed ==
    ASSUME NEW ps \in Seq(Pkg), \A i, j \in DOMAIN ps : ps[i] = ps[j] => i = j
    PROVE  Entries(AllReqs(Crs, ps), Name, ReqsOf(ToSet(ps)))
<1> DEFINE S == DOMAIN ps
           A == [Name -> Seq(Pkg)]
           Do(i, p) == IndexReqs(i, p, Crs[p])
           base == NothingIndexed
           ch == [s \in SUBSET S |-> Max(s)]
           g == [z \in S \X A |-> Do(z[2], ps[z[1]])]
           Body(f) == [s \in SUBSET S |-> IF s = {} THEN base ELSE Do(f[s \ {Max(s)}], ps[Max(s)])]
           h == CHOOSE f : f = Body(f)
           In(s) == {ps[i] : i \in s}
           R == {z \in (SUBSET S) \X A : Entries(z[2], Name, ReqsOf(In(z[1])))}
<1>1. AllReqs(Crs, ps) = h[S]
  BY DEF AllReqs, FoldLeft, MapThenFoldSet
<1>2. IsFiniteSet(S) /\ S = 1..Len(ps) /\ Len(ps) \in Nat /\ \A i \in S : ps[i] \in Pkg
  BY FS_Interval, LenProperties, ElementOfSeq
<1>3. base \in A /\ Entries(base, Name, ReqsOf({}))
  <2>1. \A n \in Name : ReqsOf({})[n] = {} /\ base[n] = << >>
    BY DEF ReqsOf, NothingIndexed
  <2>2. base \in A
    BY EmptyOne DEF NothingIndexed, OneEach
  <2> QED
    BY <2>1, <2>2, EmptyOne DEF Entries
<1>4. \A a \in A, p \in Pkg : Do(a, p) \in A
  BY PackageIndexed, EmptyFiles
<1> HIDE DEF Do, base
<1>5. g \in [S \X A -> A] /\ \A i \in S, a \in A : g[i, a] = Do(a, ps[i])
  <2> HIDE DEF A, S
  <2> QED
    BY <1>2, <1>4
<1>6. Chooses(ch, S) /\ \A s \in SUBSET S : ch[s] = Max(s)
  BY <1>2, MaxExists DEF Chooses
<1>7. PICK f \in [SUBSET S -> A] : FoldsBy(f, S, base, g, ch)
  <2> HIDE DEF S, A, g, ch
  <2> QED
    BY <1>2, <1>3, <1>5, <1>6, SubsetRecursion
<1>8. f = Body(f)
  <2> HIDE DEF S, A, g, ch
  <2>1. ASSUME NEW s \in SUBSET S, s # {}
        PROVE  f[s] = Do(f[s \ {Max(s)}], ps[Max(s)])
    <3>1. PICK i \in S : i = ch[s]
      BY <1>6, <2>1 DEF Chooses
    <3>2. f[s \ {i}] \in A
      OBVIOUS
    <3>3. f[s] = g[i, f[s \ {i}]]
      BY <1>7, <2>1, <3>1 DEF FoldsBy
    <3>4. f[s] = Do(f[s \ {i}], ps[i])
      BY <1>5, <3>2, <3>3
    <3> QED
      BY <1>6, <3>1, <3>4
  <2>2. f[{}] = base
    BY <1>7 DEF FoldsBy
  <2> QED
    BY <2>1, <2>2
<1>9. h = Body(h)
  <2> HIDE DEF Body
  <2> QED
    BY <1>8
<1>10. FoldOf(S, A, base, g, ch, h)
  <2> HIDE DEF S, A, g, ch, h
  <2>1. h[{}] = base /\ \A s \in SUBSET S : s # {} => h[s] = Do(h[s \ {ch[s]}], ps[ch[s]])
    BY <1>6, <1>9
  <2>2. ASSUME NEW s \in SUBSET S, s # {}, h[s \ {ch[s]}] \in A
        PROVE  h[s] = g[ch[s], h[s \ {ch[s]}]]
    <3>1. PICK i \in S : i = ch[s]
      BY <1>6, <2>2 DEF Chooses
    <3> QED
      BY <1>5, <2>1, <2>2, <3>1
  <2> QED
    BY <1>2, <1>3, <1>5, <1>6, <2>1, <2>2 DEF FoldOf
<1>11. Kept(S, A, base, g, ch, R)
  <2>1. <<{}, base>> \in R
    <3>1. In({}) = {}
      OBVIOUS
    <3> HIDE DEF In, A
    <3> QED
      BY <1>3, <3>1
  <2>2. ASSUME NEW s \in SUBSET S, NEW a \in A, s # {}, <<s \ {ch[s]}, a>> \in R
        PROVE  <<s, g[ch[s], a]>> \in R
    <3>1. PICK i \in s : i = ch[s]
      BY <1>6, <2>2 DEF Chooses
    <3> DEFINE B == In(s \ {i})
               p == ps[i]
    <3>2. p \in Pkg /\ p \notin B /\ In(s) = B \union {p}
      BY <1>2
    <3>3. Entries(a, Name, ReqsOf(B))
      BY <2>2, <3>1
    <3>4. Do(a, p) \in A /\ g[i, a] = Do(a, p)
      <4> HIDE DEF A, g, S
      <4> QED
        BY <1>2, <1>4, <1>5
    <3>5. Entries(Do(a, p), Name, ReqsOf(B \union {p}))
      <4> HIDE DEF B, p
      <4> QED
        BY <3>2, <3>3, PackageIndexed, EmptyFiles DEF Do
    <3> HIDE DEF A, g, In, B, p, S
    <3> QED
      BY <3>1, <3>2, <3>4, <3>5
  <2> HIDE DEF S, A, g, ch, R
  <2> QED
    BY <2>1, <2>2 DEF Kept
<1>12. <<S, h[S]>> \in R
  <2> HIDE DEF S, A, g, ch, h, R
  <2> QED
    BY <1>10, <1>11, FoldIsRight
<1>13. In(S) = ToSet(ps)
  BY DEF ToSet
<1> HIDE DEF h, In
<1> QED
  BY <1>1, <1>12, <1>13

LEMMA AllFilesIndexed ==
    ASSUME NEW ps \in Seq(Pkg), \A i, j \in DOMAIN ps : ps[i] = ps[j] => i = j
    PROVE  Entries(AllFiles(Set, ps), Path, FilesOf(ToSet(ps)))
<1> DEFINE S == DOMAIN ps
           A == [Path -> Seq(Pkg)]
           Do(i, p) == IndexFiles(Set, i, p)
           base == NoFiles
           ch == [s \in SUBSET S |-> Max(s)]
           g == [z \in S \X A |-> Do(z[2], ps[z[1]])]
           Body(f) == [s \in SUBSET S |-> IF s = {} THEN base ELSE Do(f[s \ {Max(s)}], ps[Max(s)])]
           h == CHOOSE f : f = Body(f)
           In(s) == {ps[i] : i \in s}
           R == {z \in (SUBSET S) \X A : Entries(z[2], Path, FilesOf(In(z[1])))}
<1>1. AllFiles(Set, ps) = h[S]
  BY DEF AllFiles, FoldLeft, MapThenFoldSet
<1>2. IsFiniteSet(S) /\ S = 1..Len(ps) /\ Len(ps) \in Nat /\ \A i \in S : ps[i] \in Pkg
  BY FS_Interval, LenProperties, ElementOfSeq
<1>3. base \in A /\ Entries(base, Path, FilesOf({}))
  <2>1. \A n \in Path : FilesOf({})[n] = {} /\ base[n] = << >>
    BY DEF FilesOf, NoFiles
  <2>2. base \in A
    BY EmptyOne DEF NoFiles, OneEach
  <2> QED
    BY <2>1, <2>2, EmptyOne DEF Entries
<1>4. \A a \in A, p \in Pkg : Do(a, p) \in A
  BY PackageIndexed, EmptyFiles
<1> HIDE DEF Do, base
<1>5. g \in [S \X A -> A] /\ \A i \in S, a \in A : g[i, a] = Do(a, ps[i])
  <2> HIDE DEF A, S
  <2> QED
    BY <1>2, <1>4
<1>6. Chooses(ch, S) /\ \A s \in SUBSET S : ch[s] = Max(s)
  BY <1>2, MaxExists DEF Chooses
<1>7. PICK f \in [SUBSET S -> A] : FoldsBy(f, S, base, g, ch)
  <2> HIDE DEF S, A, g, ch
  <2> QED
    BY <1>2, <1>3, <1>5, <1>6, SubsetRecursion
<1>8. f = Body(f)
  <2> HIDE DEF S, A, g, ch
  <2>1. ASSUME NEW s \in SUBSET S, s # {}
        PROVE  f[s] = Do(f[s \ {Max(s)}], ps[Max(s)])
    <3>1. PICK i \in S : i = ch[s]
      BY <1>6, <2>1 DEF Chooses
    <3>2. f[s \ {i}] \in A
      OBVIOUS
    <3>3. f[s] = g[i, f[s \ {i}]]
      BY <1>7, <2>1, <3>1 DEF FoldsBy
    <3>4. f[s] = Do(f[s \ {i}], ps[i])
      BY <1>5, <3>2, <3>3
    <3> QED
      BY <1>6, <3>1, <3>4
  <2>2. f[{}] = base
    BY <1>7 DEF FoldsBy
  <2> QED
    BY <2>1, <2>2
<1>9. h = Body(h)
  <2> HIDE DEF Body
  <2> QED
    BY <1>8
<1>10. FoldOf(S, A, base, g, ch, h)
  <2> HIDE DEF S, A, g, ch, h
  <2>1. h[{}] = base /\ \A s \in SUBSET S : s # {} => h[s] = Do(h[s \ {ch[s]}], ps[ch[s]])
    BY <1>6, <1>9
  <2>2. ASSUME NEW s \in SUBSET S, s # {}, h[s \ {ch[s]}] \in A
        PROVE  h[s] = g[ch[s], h[s \ {ch[s]}]]
    <3>1. PICK i \in S : i = ch[s]
      BY <1>6, <2>2 DEF Chooses
    <3> QED
      BY <1>5, <2>1, <2>2, <3>1
  <2> QED
    BY <1>2, <1>3, <1>5, <1>6, <2>1, <2>2 DEF FoldOf
<1>11. Kept(S, A, base, g, ch, R)
  <2>1. <<{}, base>> \in R
    <3>1. In({}) = {}
      OBVIOUS
    <3> HIDE DEF In, A
    <3> QED
      BY <1>3, <3>1
  <2>2. ASSUME NEW s \in SUBSET S, NEW a \in A, s # {}, <<s \ {ch[s]}, a>> \in R
        PROVE  <<s, g[ch[s], a]>> \in R
    <3>1. PICK i \in s : i = ch[s]
      BY <1>6, <2>2 DEF Chooses
    <3> DEFINE B == In(s \ {i})
               p == ps[i]
    <3>2. p \in Pkg /\ p \notin B /\ In(s) = B \union {p}
      BY <1>2
    <3>3. Entries(a, Path, FilesOf(B))
      BY <2>2, <3>1
    <3>4. Do(a, p) \in A /\ g[i, a] = Do(a, p)
      <4> HIDE DEF A, g, S
      <4> QED
        BY <1>2, <1>4, <1>5
    <3>5. Entries(Do(a, p), Path, FilesOf(B \union {p}))
      <4> HIDE DEF B, p
      <4> QED
        BY <3>2, <3>3, PackageIndexed, EmptyFiles DEF Do
    <3> HIDE DEF A, g, In, B, p, S
    <3> QED
      BY <3>1, <3>2, <3>4, <3>5
  <2> HIDE DEF S, A, g, ch, R
  <2> QED
    BY <2>1, <2>2 DEF Kept
<1>12. <<S, h[S]>> \in R
  <2> HIDE DEF S, A, g, ch, h, R
  <2> QED
    BY <1>10, <1>11, FoldIsRight
<1>13. In(S) = ToSet(ps)
  BY DEF ToSet
<1> HIDE DEF h, In
<1> QED
  BY <1>1, <1>12, <1>13

-----------------------------------------------------------------------------
(* The order of a set of packages no two of which are the same version.    *)

Apart(P) == \A p, q \in P : SameNevr(Set, p, q) => p = q

(* Where no two have the same name and version the order is linear.        *)
LEMMA PrecedesIs ==
    ASSUME NEW P \in SUBSET Pkg, Apart(P), NEW p \in P, NEW q \in P, NEW r \in P
    PROVE  /\ ~ Precedes(Set, p, p)
           /\ p # q => Precedes(Set, p, q) \/ Precedes(Set, q, p)
           /\ Precedes(Set, p, q) /\ Precedes(Set, q, r) => Precedes(Set, p, r)
<1> DEFINE k(x) == NameRank[Set.name[x]]
           e(x) == Set.evr[x]
<1>1. \A x \in P : k(x) \in Nat /\ e(x) \in Nat /\ Set.name[x] \in Name
  BY SetAssumption, NameRankAssumption
<1>2. \A x, y \in P : Set.name[x] = Set.name[y] <=> k(x) = k(y)
  BY <1>1, NameRankAssumption
<1>3. \A x, y \in P : SameNevr(Set, x, y) <=> k(x) = k(y) /\ e(x) = e(y)
  BY <1>2 DEF SameNevr
<1>4. \A x, y \in P : k(x) = k(y) /\ e(x) = e(y) => x = y
  BY <1>3 DEF Apart
<1>5. \A x, y \in P : x # y =>
         (Precedes(Set, x, y) <=> k(x) < k(y) \/ (k(x) = k(y) /\ e(x) > e(y)))
  BY <1>2, <1>3, <1>4 DEF Precedes
<1>6. \A x \in P : ~ Precedes(Set, x, x)
  <2> SUFFICES ASSUME NEW x \in P PROVE ~ Precedes(Set, x, x)
    OBVIOUS
  <2>1. k(x) \in Nat /\ e(x) \in Nat /\ Set.arch[x] \in Nat /\ Set.pri[x] \in Int
    BY <1>1, SetAssumption
  <2> QED
    BY <2>1 DEF Precedes
<1> HIDE DEF k, e
<1> QED
  BY <1>1, <1>4, <1>5, <1>6

LEMMA SortedIs ==
    ASSUME NEW P \in SUBSET Pkg, Apart(P)
    PROVE  OneEach(Sorted(Set, P), P)
<1> DEFINE n == Cardinality(P)
           B(p) == {q \in P : Precedes(Set, q, p)}
           e == [p \in P |-> Cardinality(B(p)) + 1]
           s == Sorted(Set, P)
<1>1. IsFiniteSet(P) /\ n \in Nat
  BY SetAssumption, FS_Subset, FS_CardinalityType
<1>2. \A p \in P : IsFiniteSet(B(p)) /\ Cardinality(B(p)) \in Nat /\ B(p) \subseteq P /\ p \notin B(p)
  <2> SUFFICES ASSUME NEW p \in P
               PROVE  IsFiniteSet(B(p)) /\ Cardinality(B(p)) \in Nat /\ B(p) \subseteq P /\ p \notin B(p)
    OBVIOUS
  <2>1. B(p) \in SUBSET P /\ p \notin B(p)
    BY PrecedesIs
  <2> HIDE DEF B
  <2> QED
    BY <1>1, <2>1, FS_Subset, FS_CardinalityType
<1>3. ASSUME NEW p \in P, NEW Q \in SUBSET P, B(p) \union {p} \subseteq Q
      PROVE  Cardinality(B(p)) < Cardinality(Q)
  <2> HIDE DEF B
  <2>1. IsFiniteSet(B(p) \union {p}) /\ Cardinality(B(p) \union {p}) = Cardinality(B(p)) + 1
    BY <1>2, FS_AddElement
  <2>2. IsFiniteSet(Q) /\ Cardinality(Q) \in Nat
    BY <1>1, FS_Subset, FS_CardinalityType
  <2>3. Cardinality(B(p) \union {p}) <= Cardinality(Q)
    BY <1>3, <2>2, FS_Subset
  <2> QED
    BY <1>2, <2>1, <2>2, <2>3
<1>4. \A p, q \in P : Precedes(Set, p, q) => Cardinality(B(p)) < Cardinality(B(q))
  <2> SUFFICES ASSUME NEW p \in P, NEW q \in P, Precedes(Set, p, q)
               PROVE  Cardinality(B(p)) < Cardinality(B(q))
    OBVIOUS
  <2>1. B(p) \union {p} \subseteq B(q)
    BY PrecedesIs
  <2> HIDE DEF B
  <2> QED
    BY <1>2, <1>3, <2>1
<1>5. \A p, q \in P : Cardinality(B(p)) = Cardinality(B(q)) => p = q
  <2> HIDE DEF B
  <2>1. \A p, q \in P : p # q => Precedes(Set, p, q) \/ Precedes(Set, q, p)
    BY PrecedesIs
  <2> QED
    BY <1>2, <1>4, <2>1
<1>6. \A p \in P : Cardinality(B(p)) < n
  BY <1>2, <1>3
<1>7. e \in Injection(P, 1..n)
  <2>1. \A p \in P : e[p] \in 1..n
    <3> HIDE DEF B, n
    <3> QED
      BY <1>1, <1>2, <1>6
  <2>2. \A p, q \in P : e[p] = e[q] => p = q
    <3> HIDE DEF B, n
    <3> QED
      BY <1>2, <1>5
  <2> HIDE DEF B, n
  <2> QED
    BY <2>1, <2>2 DEF Injection, IsInjective
<1>8. e \in Surjection(P, 1..n)
  <2>1. IsFiniteSet(1..n) /\ Cardinality(1..n) = n
    <3> HIDE DEF n
    <3>1. /\ IsFiniteSet(1..n)
          /\ Cardinality(1..n) = IF 1 > n THEN 0 ELSE n - 1 + 1
      BY <1>1, FS_Interval
    <3> QED
      BY <1>1, <3>1
  <2> HIDE DEF e
  <2> QED
    BY <1>7, <2>1, FS_Injection
<1>9. \A i \in 1..n : \E p \in P : Cardinality(B(p)) = i - 1
  <2> SUFFICES ASSUME NEW i \in 1..n PROVE \E p \in P : Cardinality(B(p)) = i - 1
    OBVIOUS
  <2>1. PICK p \in P : e[p] = i
    <3> HIDE DEF e, n
    <3> QED
      BY <1>8 DEF Surjection
  <2> HIDE DEF B, n
  <2> QED
    BY <1>1, <1>2, <2>1
<1>10. /\ s = [i \in 1..n |-> CHOOSE p \in P : Cardinality(B(p)) = i - 1]
  BY DEF Sorted
<1> HIDE DEF s
<1>11. \A i \in 1..n : s[i] \in P /\ Cardinality(B(s[i])) = i - 1
  <2> HIDE DEF B, n
  <2> QED
    BY <1>9, <1>10
<1>12. DOMAIN s = 1..n /\ s \in Seq(Pkg)
  <2>1. s \in [1..n -> Pkg]
    <3> HIDE DEF n, B
    <3> QED
      BY <1>10, <1>11
  <2> HIDE DEF n
  <2> QED
    BY <1>1, <2>1, SeqDef
<1>13. \A i, j \in 1..n : s[i] = s[j] => i = j
  <2> HIDE DEF B, n
  <2> SUFFICES ASSUME NEW i \in 1..n, NEW j \in 1..n, s[i] = s[j] PROVE i = j
    OBVIOUS
  <2>1. i - 1 = j - 1 /\ i \in Int /\ j \in Int
    BY <1>1, <1>11
  <2> QED
    BY <2>1
<1>14. \A p \in P : \E i \in 1..n : s[i] = p
  <2> SUFFICES ASSUME NEW p \in P PROVE \E i \in 1..n : s[i] = p
    OBVIOUS
  <2> DEFINE i == Cardinality(B(p)) + 1
  <2> HIDE DEF B, n
  <2>1. i \in 1..n /\ i - 1 = Cardinality(B(p))
    BY <1>1, <1>2, <1>6
  <2> HIDE DEF i
  <2>2. s[i] = p
    BY <1>5, <1>11, <2>1
  <2> QED
    BY <2>1, <2>2
<1>15. ToSet(s) = P
  <2> HIDE DEF n, B
  <2> QED
    BY <1>11, <1>12, <1>14 DEF ToSet
<1> QED
  BY <1>12, <1>13, <1>15 DEF OneEach, s

-----------------------------------------------------------------------------
(* What a session finds when it searches is what a scan would find.        *)

(* All that a session at work on its set has met so far.                   *)
Known(t) == Held(t.dir) \union ToSet(t.added) \union {x[2] : x \in ToSet(t.removed)}

Searched(t) ==
    /\ t.ps = Held(t.dir)
    /\ t.caps # NotBuilt => /\ Entries(t.caps, Name, CapsOf(t.ps))
                            /\ Entries(t.paths, Path, FilesOf(t.ps))
    /\ t.reqs # NotBuilt => Entries(t.reqs, Name, ReqsOf(t.ps))

SetInv(t) == t.at = "open" => t.ps \subseteq Known(t) /\ (Apart(Known(t)) => Searched(t))
SearchInv == \A s \in Session : SetInv(task[s])

-----------------------------------------------------------------------------
(* A session that is not at work on its set, or whose set stays.           *)
Unseen(t, u) ==
    \/ u.at # "open"
    \/ /\ u.at = t.at /\ u.dir = t.dir /\ u.added = t.added /\ u.removed = t.removed
       /\ u.ps = t.ps /\ u.caps = t.caps /\ u.paths = t.paths /\ u.reqs = t.reqs

LEMMA UnseenKeeps ==
    ASSUME NEW t, NEW u, SetInv(t), Unseen(t, u)
    PROVE  SetInv(u)
  BY DEF SetInv, Unseen, Known, Searched

LEMMA ToldUnseen ==
    ASSUME NEW t, TaskType(t), NEW P
    PROVE  Unseen(t, [t EXCEPT !.since = @ \union P])
  BY DEF TaskType, Unseen, Fields

LEMMA OneSearches ==
    ASSUME IInv, SearchInv, NEW s \in Session, NEW u, SetInv(u),
           Become(s, u) \/ \E p \in Pkg : Touch(s, u, p)
    PROVE  SearchInv'
<1>1. \A o \in Session : SetInv(task[o]) /\ TaskType(task[o])
  BY DEF SearchInv, IInv, TypeInv
<1>2. task' = [o \in Session |-> task'[o]] /\ task'[s] = u
  BY DEF Become, Touch, IInv, TypeInv
<1>3. ASSUME NEW o \in Session \ {s}
      PROVE  Unseen(task[o], task'[o])
  <2>1. CASE Become(s, u)
    BY <2>1 DEF Become, Unseen, IInv, TypeInv
  <2>2. CASE \E p \in Pkg : Touch(s, u, p)
    <3>1. PICK p \in Pkg : task'[o] = IF task[o].at = "away" THEN task[o]
                                      ELSE [task[o] EXCEPT !.since = @ \union {p}]
      BY <2>2 DEF Touch
    <3>2. Unseen(task[o], [task[o] EXCEPT !.since = @ \union {p}])
      BY <1>1, ToldUnseen
    <3>3. Unseen(task[o], task[o])
      BY DEF Unseen
    <3> QED
      BY <3>1, <3>2, <3>3
  <2> QED
    BY <2>1, <2>2
<1>4. \A o \in Session : SetInv(task'[o])
  BY <1>1, <1>2, <1>3, UnseenKeeps
<1> QED
  BY <1>4 DEF SearchInv, SetInv, Known, Searched

(* All may be told of something.                                           *)
LEMMA AllTold ==
    ASSUME IInv, SearchInv, NEW P,
           task' = [o \in Session |-> IF task[o].at = "away" THEN task[o]
                                      ELSE [task[o] EXCEPT !.since = @ \union P]]
    PROVE  SearchInv'
<1>1. \A o \in Session : SetInv(task[o]) /\ TaskType(task[o])
  BY DEF SearchInv, IInv, TypeInv
<1>2. ASSUME NEW o \in Session
      PROVE  SetInv(task'[o])
  <2>1. Unseen(task[o], [task[o] EXCEPT !.since = @ \union P])
    BY <1>1, ToldUnseen
  <2>2. Unseen(task[o], task[o])
    BY DEF Unseen
  <2>3. task'[o] = IF task[o].at = "away" THEN task[o]
                   ELSE [task[o] EXCEPT !.since = @ \union P]
    OBVIOUS
  <2>4. Unseen(task[o], task'[o])
    BY <2>1, <2>2, <2>3
  <2> QED
    BY <1>1, <2>4, UnseenKeeps
<1> QED
  BY <1>2 DEF SearchInv, SetInv, Known, Searched

-----------------------------------------------------------------------------
(* A package that goes.                                                    *)
LEMMA RemovingSearched ==
    ASSUME NEW t, TaskType(t), SetInv(t), t.at = "open", NEW p \in Held(t.dir), NEW qs \in Found(t, p)
    PROVE  SetInv(Removed(t, p, qs))
<1> DEFINE u == Removed(t, p, qs)
           f == RemoveFound(t, qs)
<1>1. p \in Pkg /\ t.dir \in Place
  BY DEF Held, TaskType
<1>2. /\ TaskType(u) /\ u.at = "open" /\ u.dir[p] = 0 /\ u.added = t.added
      /\ \A q \in Pkg \ {p} : u.dir[q] = t.dir[q]
      /\ \E x : x[2] = p /\ ToSet(u.removed) = ToSet(t.removed) \union {x}
  <2> DEFINE x == <<IF p \in t.ours THEN "repo" ELSE "db", p>>
  <2>1. x[2] = p
    OBVIOUS
  <2>2. /\ TaskType(u) /\ SameSet(t, u) /\ u.dir[p] = 0 /\ u.added = t.added
        /\ \A q \in Pkg \ {p} : u.dir[q] = t.dir[q]
        /\ ToSet(u.removed) = ToSet(t.removed) \union {x}
    <3> HIDE DEF u
    <3> QED
      BY <1>1, Removing DEF u
  <2> HIDE DEF u, x
  <2> QED
    BY <2>1, <2>2 DEF SameSet
<1>3. /\ u.ps = t.ps \ qs
      /\ u.caps = IF t.caps = NotBuilt THEN t.caps ELSE Forget(t.caps, qs, Set.caps)
      /\ u.paths = IF t.caps = NotBuilt THEN t.paths
                   ELSE FoldSet(LAMBDA q, i : UnindexFiles(Set, i, q), t.paths, qs)
      /\ u.reqs = IF t.reqs = NotBuilt THEN t.reqs ELSE Forget(t.reqs, qs, Crs)
  <2>1. /\ f.ps = t.ps \ qs /\ DOMAIN f = Fields
        /\ f.caps = IF t.caps = NotBuilt THEN t.caps ELSE Forget(t.caps, qs, Set.caps)
        /\ f.paths = IF t.caps = NotBuilt THEN t.paths
                     ELSE FoldSet(LAMBDA q, i : UnindexFiles(Set, i, q), t.paths, qs)
        /\ f.reqs = IF t.reqs = NotBuilt THEN t.reqs ELSE Forget(t.reqs, qs, Crs)
    BY DEF RemoveFound, TaskType, Fields
  <2>2. u.ps = f.ps /\ u.caps = f.caps /\ u.paths = f.paths /\ u.reqs = f.reqs
    <3> HIDE DEF f
    <3> QED
      BY <2>1 DEF Removed, Fields, f
  <2> QED
    BY <2>1, <2>2
<1> HIDE DEF u, f
<1>4. Held(u.dir) = Held(t.dir) \ {p}
  BY <1>1, <1>2 DEF Held
<1>5. Known(u) = Known(t)
  BY <1>2, <1>4 DEF Known
<1>6. u.ps \subseteq Known(u)
  BY <1>3, <1>5 DEF SetInv
<1>7. ASSUME Apart(Known(u)) PROVE Searched(u)
  <2>1. Searched(t) /\ t.ps = Held(t.dir) /\ t.ps \subseteq Known(t)
    BY <1>5, <1>7 DEF SetInv, Searched
  <2>2. \A q \in t.ps : SameNevr(Set, p, q) <=> q = p
    BY <1>5, <1>7, <2>1 DEF Apart, SameNevr
  <2>3. qs = {p}
    BY <2>1, <2>2 DEF Found
  <2>4. u.ps = Held(u.dir) /\ u.ps = t.ps \ {p}
    BY <1>3, <1>4, <2>1, <2>3
  <2>5. ASSUME u.caps # NotBuilt
        PROVE  Entries(u.caps, Name, CapsOf(u.ps)) /\ Entries(u.paths, Path, FilesOf(u.ps))
    <3>1. t.caps # NotBuilt
      BY <1>3, <2>5
    <3>2. /\ u.caps = Unindex(Set, t.caps, p, Set.caps[p])
          /\ u.paths = UnindexFiles(Set, t.paths, p)
      BY <1>3, <2>3, <3>1, OneForgotten
    <3>3. Entries(t.caps, Name, CapsOf(t.ps)) /\ Entries(t.paths, Path, FilesOf(t.ps))
      BY <2>1, <3>1 DEF Searched
    <3> QED
      BY <1>1, <2>2, <2>4, <3>2, <3>3, PackageUnindexed
  <2>6. ASSUME u.reqs # NotBuilt
        PROVE  Entries(u.reqs, Name, ReqsOf(u.ps))
    <3>1. t.reqs # NotBuilt
      BY <1>3, <2>6
    <3>2. u.reqs = Unindex(Set, t.reqs, p, Crs[p])
      BY <1>3, <2>3, <3>1, OneForgotten
    <3>3. Entries(t.reqs, Name, ReqsOf(t.ps))
      BY <2>1, <3>1 DEF Searched
    <3> QED
      BY <1>1, <2>2, <2>4, <3>2, <3>3, PackageUnindexed
  <2> QED
    BY <2>4, <2>5, <2>6 DEF Searched
<1>8. SetInv(u)
  BY <1>6, <1>7 DEF SetInv
<1> QED
  BY <1>8 DEF u

(* And one that comes in.                                                  *)
LEMMA AddingSearched ==
    ASSUME TypeInv, NEW t, TaskType(t), SetInv(t), t.at = "open", NEW p \in Held(repo)
    PROVE  SetInv(Added(t, p))
<1> DEFINE u == Added(t, p)
           f == AddToSet(t, p)
           Is == \E q \in t.ps : SameNevr(Set, p, q)
<1>1. p \in Pkg /\ t.dir \in Place /\ repo[p] # 0
  BY DEF Held, TaskType
<1>2. /\ TaskType(u) /\ u.at = "open" /\ u.removed = t.removed
      /\ t.dir[p] = 0 => u.dir[p] = repo[p]
      /\ t.dir[p] # 0 => u.dir[p] = t.dir[p]
      /\ \A q \in Pkg \ {p} : u.dir[q] = t.dir[q]
      /\ ToSet(u.added) = ToSet(t.added) \union {p}
  <2>1. /\ TaskType(u) /\ SameSet(t, u) /\ u.removed = t.removed
        /\ t.dir[p] = 0 => u.dir[p] = repo[p] /\ u.ours = t.ours \union {p}
                           /\ u.since = t.since
        /\ t.dir[p] # 0 => u.dir[p] = t.dir[p] /\ u.ours = t.ours
                           /\ u.since = t.since \union {p}
        /\ \A q \in Pkg \ {p} : u.dir[q] = t.dir[q]
        /\ u.added # << >> /\ ToSet(u.added) = ToSet(t.added) \union {p}
    <3>1. p \in Pkg
      BY <1>1
    <3> QED
      BY <3>1, Adding, Zenon
  <2> HIDE DEF u
  <2> QED
    BY <2>1 DEF SameSet
<1>3. /\ Is => u.ps = t.ps /\ u.caps = t.caps /\ u.paths = t.paths /\ u.reqs = t.reqs
      /\ ~ Is => /\ u.ps = t.ps \union {p}
                 /\ u.caps = IF t.caps = NotBuilt THEN t.caps ELSE IndexCaps(Set, t.caps, p, TRUE)
                 /\ u.paths = IF t.caps = NotBuilt THEN t.paths ELSE IndexFiles(Set, t.paths, p)
                 /\ u.reqs = IF t.reqs = NotBuilt THEN t.reqs ELSE IndexReqs(t.reqs, p, Crs[p])
  <2>1. /\ Is => f = t
        /\ ~ Is => /\ f.ps = t.ps \union {p} /\ DOMAIN f = Fields
                   /\ f.caps = IF t.caps = NotBuilt THEN t.caps ELSE IndexCaps(Set, t.caps, p, TRUE)
                   /\ f.paths = IF t.caps = NotBuilt THEN t.paths ELSE IndexFiles(Set, t.paths, p)
                   /\ f.reqs = IF t.reqs = NotBuilt THEN t.reqs ELSE IndexReqs(t.reqs, p, Crs[p])
    BY DEF AddToSet, TaskType, Fields
  <2>2. DOMAIN f = Fields
    BY <2>1 DEF TaskType
  <2>3. u.ps = f.ps /\ u.caps = f.caps /\ u.paths = f.paths /\ u.reqs = f.reqs
    <3> HIDE DEF f
    <3> QED
      BY <2>2 DEF Added, Fields, f
  <2> HIDE DEF Is, f, u
  <2> QED
    BY <2>1, <2>3
<1> HIDE DEF u, f
<1>4. Held(u.dir) = Held(t.dir) \union {p}
  BY <1>1, <1>2 DEF Held
<1>5. Known(u) = Known(t) \union {p}
  BY <1>2, <1>4 DEF Known
<1>6. u.ps \subseteq Known(u)
  BY <1>3, <1>5 DEF SetInv
<1>7. ASSUME Apart(Known(u)) PROVE Searched(u)
  <2>1. Searched(t) /\ t.ps = Held(t.dir) /\ t.ps \subseteq Known(t)
    BY <1>5, <1>7 DEF SetInv, Searched, Apart
  <2>2. Is <=> p \in t.ps
    BY <1>5, <1>7, <2>1 DEF Apart, SameNevr
  <2>3. CASE Is
    <3>1. u.ps = Held(u.dir)
      BY <1>3, <1>4, <2>1, <2>2, <2>3
    <3> QED
      BY <1>3, <2>1, <2>3, <3>1 DEF Searched
  <2>4. CASE ~ Is
    <3>1. u.ps = Held(u.dir) /\ u.ps = t.ps \union {p} /\ p \notin t.ps
      BY <1>3, <1>4, <2>1, <2>2, <2>4
    <3>2. ASSUME u.caps # NotBuilt
          PROVE  Entries(u.caps, Name, CapsOf(u.ps)) /\ Entries(u.paths, Path, FilesOf(u.ps))
      <4>1. t.caps # NotBuilt
        BY <1>3, <2>4, <3>2
      <4>2. Entries(t.caps, Name, CapsOf(t.ps)) /\ Entries(t.paths, Path, FilesOf(t.ps))
        BY <2>1, <4>1 DEF Searched
      <4>3. t.caps \in [Name -> Seq(Pkg)] /\ t.paths \in [Path -> Seq(Pkg)]
        BY <4>2 DEF Entries
      <4>4. u.caps = IndexCaps(Set, t.caps, p, TRUE) /\ u.paths = IndexFiles(Set, t.paths, p)
        BY <1>3, <2>4, <4>1
      <4>5. /\ Entries(IndexCaps(Set, t.caps, p, TRUE), Name, CapsOf(t.ps \union {p}))
            /\ Entries(IndexFiles(Set, t.paths, p), Path, FilesOf(t.ps \union {p}))
        <5> DEFINE P == t.ps
        <5> HIDE DEF Is, P
        <5> QED
          BY <1>1, <3>1, <4>2, <4>3, PackageIndexed DEF P
      <4> QED
        BY <3>1, <4>4, <4>5
    <3>3. ASSUME u.reqs # NotBuilt
          PROVE  Entries(u.reqs, Name, ReqsOf(u.ps))
      <4>1. t.reqs # NotBuilt
        BY <1>3, <2>4, <3>3
      <4>2. Entries(t.reqs, Name, ReqsOf(t.ps))
        BY <2>1, <4>1 DEF Searched
      <4>3. t.reqs \in [Name -> Seq(Pkg)] /\ NoFiles \in [Path -> Seq(Pkg)]
        BY <4>2, EmptyFiles DEF Entries
      <4>4. u.reqs = IndexReqs(t.reqs, p, Crs[p])
        BY <1>3, <2>4, <4>1
      <4>5. Entries(IndexReqs(t.reqs, p, Crs[p]), Name, ReqsOf(t.ps \union {p}))
        <5> HIDE DEF Is
        <5> QED
          BY <1>1, <3>1, <4>2, <4>3, PackageIndexed
      <4> QED
        BY <3>1, <4>4, <4>5
    <3> QED
      BY <3>1, <3>2, <3>3 DEF Searched
  <2> QED
    BY <2>3, <2>4
<1>8. SetInv(u)
  BY <1>6, <1>7 DEF SetInv
<1> QED
  BY <1>8 DEF u

LEMMA NotAtWork ==
    ASSUME NEW t, t.at # "open"
    PROVE  SetInv(t)
  BY DEF SetInv

(* An index made of the packages of the set.                               *)
LEMMA OpenSearches ==
    ASSUME IInv, SearchInv, NEW s \in Session, Open(s)
    PROVE  SearchInv'
<1>1. CASE UNCHANGED task
  BY <1>1 DEF SearchInv, SetInv, Known, Searched
<1>2. ASSUME NEW u, u.at = "open", u.ps = Held(u.dir), u.caps = NotBuilt, u.reqs = NotBuilt,
             Become(s, u)
      PROVE  SearchInv'
  <2>1. SetInv(u)
    BY <1>2 DEF SetInv, Known, Searched
  <2> QED
    BY <1>2, <2>1, OneSearches
<1> DEFINE t0 == [Away EXCEPT !.at = "open", !.since = Touching(s)]
<1>3. CASE \E justdb \in BOOLEAN :
             Become(s, [t0 EXCEPT !.justdb = justdb, !.dir = index.pkgs, !.ps = Held(index.pkgs)])
  <2>1. PICK justdb \in BOOLEAN :
           Become(s, [t0 EXCEPT !.justdb = justdb, !.dir = index.pkgs, !.ps = Held(index.pkgs)])
    BY <1>3
  <2> DEFINE u == [t0 EXCEPT !.justdb = justdb, !.dir = index.pkgs, !.ps = Held(index.pkgs)]
  <2>2. u.at = "open" /\ u.ps = Held(u.dir) /\ u.caps = NotBuilt /\ u.reqs = NotBuilt
    BY DEF Away
  <2> QED
    BY <1>2, <2>1, <2>2
<1>4. CASE \E justdb \in BOOLEAN :
             Become(s, [t0 EXCEPT !.justdb = justdb, !.type = "dir", !.dir = Readable(files),
                                  !.ps = Held(Readable(files))])
  <2>1. PICK justdb \in BOOLEAN :
           Become(s, [t0 EXCEPT !.justdb = justdb, !.type = "dir", !.dir = Readable(files),
                                !.ps = Held(Readable(files))])
    BY <1>4
  <2> DEFINE u == [t0 EXCEPT !.justdb = justdb, !.type = "dir", !.dir = Readable(files),
                             !.ps = Held(Readable(files))]
  <2>2. u.at = "open" /\ u.ps = Held(u.dir) /\ u.caps = NotBuilt /\ u.reqs = NotBuilt
    BY DEF Away
  <2> QED
    BY <1>2, <2>1, <2>2
<1> QED
  BY <1>1, <1>3, <1>4 DEF Open

LEMMA SearchesBuilt ==
    ASSUME IInv, SearchInv, NEW s \in Session, SearchCaps(s) \/ SearchReqs(s)
    PROVE  SearchInv'
<1> DEFINE t == task[s]
           ps == Sorted(Set, t.ps)
<1>1. TaskType(t) /\ SetInv(t) /\ t.at = "open" /\ Held(t.dir) \subseteq Pkg
  BY DEF IInv, TypeInv, SearchInv, SearchCaps, SearchReqs, Held
<1>2. ASSUME Apart(Known(t))
      PROVE  /\ Searched(t) /\ ps \in Seq(Pkg) /\ ToSet(ps) = t.ps
             /\ \A i, j \in DOMAIN ps : ps[i] = ps[j] => i = j
  <2>1. Searched(t) /\ t.ps \in SUBSET Pkg /\ Apart(t.ps)
    BY <1>1, <1>2 DEF SetInv, Searched, Apart
  <2>2. OneEach(ps, t.ps)
    BY <2>1, SortedIs
  <2> QED
    BY <2>1, <2>2 DEF OneEach
<1>3. CASE SearchCaps(s)
  <2> DEFINE u == [t EXCEPT !.caps = AllCaps(Set, ps, TRUE), !.paths = AllFiles(Set, ps)]
  <2>1. Become(s, u)
    BY <1>3 DEF SearchCaps
  <2>2. /\ u.at = t.at /\ u.dir = t.dir /\ u.added = t.added /\ u.removed = t.removed
        /\ u.ps = t.ps /\ u.reqs = t.reqs
        /\ u.caps = AllCaps(Set, ps, TRUE) /\ u.paths = AllFiles(Set, ps)
    BY <1>1 DEF TaskType, Fields
  <2> HIDE DEF u, t, ps
  <2>3. Known(u) = Known(t)
    BY <2>2 DEF Known
  <2>4. ASSUME Apart(Known(t))
        PROVE  Searched(u)
    <3>1. /\ Entries(AllCaps(Set, ps, TRUE), Name, CapsOf(t.ps))
          /\ Entries(AllFiles(Set, ps), Path, FilesOf(t.ps))
      BY <1>2, <2>4, AllCapsIndexed, AllFilesIndexed
    <3> QED
      BY <1>2, <2>2, <2>4, <3>1 DEF Searched
  <2>5. SetInv(u)
    BY <1>1, <2>2, <2>3, <2>4 DEF SetInv
  <2> QED
    BY <2>1, <2>5, OneSearches
<1>4. CASE SearchReqs(s)
  <2> DEFINE u == [t EXCEPT !.reqs = AllReqs(Crs, ps)]
  <2>1. Become(s, u)
    BY <1>4 DEF SearchReqs
  <2>2. /\ u.at = t.at /\ u.dir = t.dir /\ u.added = t.added /\ u.removed = t.removed
        /\ u.ps = t.ps /\ u.caps = t.caps /\ u.paths = t.paths /\ u.reqs = AllReqs(Crs, ps)
    BY <1>1 DEF TaskType, Fields
  <2> HIDE DEF u, t, ps
  <2>3. Known(u) = Known(t)
    BY <2>2 DEF Known
  <2>4. ASSUME Apart(Known(t))
        PROVE  Searched(u)
    <3>1. Entries(AllReqs(Crs, ps), Name, ReqsOf(t.ps))
      BY <1>2, <2>4, AllReqsIndexed
    <3> QED
      BY <1>2, <2>2, <2>4, <3>1 DEF Searched
  <2>5. SetInv(u)
    BY <1>1, <2>2, <2>3, <2>4 DEF SetInv
  <2> QED
    BY <2>1, <2>5, OneSearches
<1> QED
  BY <1>3, <1>4

(* Groups that are removed and installed.                                  *)
LEMMA GroupSearches ==
    ASSUME IInv, SearchInv, NEW s \in Session, Uninstall(s) \/ Install(s)
    PROVE  SearchInv'
<1>1. TaskType(task[s]) /\ SetInv(task[s]) /\ task[s].at = "open" /\ TypeInv
  BY DEF Uninstall, Install, Installing, IInv, TypeInv, SearchInv
<1>2. ASSUME NEW un \in Groups(s), NEW t \in Without(s, un)
      PROVE  SetInv(t) /\ TaskType(t) /\ t.at = "open"
  <2>1. CASE un = {}
    BY <1>1, <1>2, <2>1 DEF Without
  <2>2. CASE un # {}
    <3>1. PICK p \in un : \E qs \in Found(task[s], p) : t = Removed(task[s], p, qs)
      BY <1>2, <2>2 DEF Without
    <3>2. PICK qs \in Found(task[s], p) : t = Removed(task[s], p, qs)
      BY <3>1
    <3>3. p \in Held(task[s].dir) /\ p \in Pkg
      BY DEF Groups, Held
    <3>4. SetInv(t)
      BY <1>1, <3>2, <3>3, RemovingSearched
    <3>5. TaskType(t) /\ SameSet(task[s], t)
      BY <1>1, <3>2, <3>3, Removing
    <3> QED
      BY <1>1, <3>4, <3>5 DEF SameSet
  <2> QED
    BY <2>1, <2>2
<1>3. CASE Uninstall(s)
  <2>1. PICK un \in Groups(s) : \E t \in Without(s, un) : Become(s, t)
    BY <1>3 DEF Uninstall, Grouped
  <2> QED
    BY <1>2, <2>1, OneSearches
<1>4. CASE Install(s)
  <2>1. PICK un \in Groups(s), p \in Held(repo) : \E t \in Without(s, un) : Become(s, Added(t, p))
    BY <1>4 DEF Install, Grouped
  <2>2. PICK t \in Without(s, un) : Become(s, Added(t, p))
    BY <2>1
  <2>3. SetInv(Added(t, p))
    BY <1>1, <1>2, AddingSearched
  <2> QED
    BY <2>2, <2>3, OneSearches
<1> QED
  BY <1>3, <1>4

(* Whoever is through with its set.                                        *)
LEMMA EndSearches ==
    ASSUME IInv, SearchInv, NEW s \in Session,
           \/ InstallAsserts(s) \/ GroupFails(s) \/ Commit(s) \/ Unlink(s) \/ Copy(s)
           \/ Save(s) \/ Die(s)
    PROVE  SearchInv'
<1>1. Away.at # "open" /\ SetInv(Away) /\ TaskType(task[s])
  BY AwayIs, NotAtWork DEF IInv, TypeInv
<1>2. CASE Become(s, Away)
  BY <1>1, <1>2, OneSearches
<1>3. ASSUME NEW p \in Pkg, Touch(s, Away, p)
      PROVE  SearchInv'
  BY <1>1, <1>3, OneSearches
<1>4. ASSUME NEW u, u.at = "commit", Become(s, u) \/ \E p \in Pkg : Touch(s, u, p)
      PROVE  SearchInv'
  <2>1. SetInv(u)
    BY <1>4, NotAtWork
  <2> QED
    BY <1>4, <2>1, OneSearches
<1>5. CASE InstallAsserts(s) \/ GroupFails(s) \/ Save(s)
  BY <1>2, <1>5 DEF InstallAsserts, GroupFails, Save
<1>6. CASE Commit(s)
  <2> DEFINE u == [task[s] EXCEPT !.at = "commit", !.ps = {}, !.ours = {},
                                  !.caps = NotBuilt, !.paths = NoFiles, !.reqs = NotBuilt]
  <2>1. Become(s, Away) \/ Become(s, u)
    BY <1>6 DEF Commit
  <2>2. u.at = "commit"
    BY <1>1 DEF TaskType, Fields
  <2> HIDE DEF u
  <2> QED
    BY <1>2, <1>4, <2>1, <2>2
<1>7. CASE Unlink(s)
  <2> DEFINE t == task[s]
             r == [t EXCEPT !.removed = Tail(@)]
             p == Head(t.removed)[2]
             u == [r EXCEPT !.touched = @ \union {p}]
  <2>1. t.at = "commit" /\ t.removed # << >>
    BY <1>7 DEF Unlink
  <2>2. p \in Pkg
    <3>1. Head(t.removed) \in {"db", "repo"} \X Pkg
      BY <1>1, <2>1, Sequences_ DEF TaskType
    <3> QED
      BY <3>1
  <2>3. Touch(s, u, p) \/ Become(s, r) \/ Become(s, Away)
    BY <1>7 DEF Unlink, Changed, Stops
  <2>4. r.at = "commit" /\ u.at = "commit"
    BY <1>1, <2>1 DEF TaskType, Fields
  <2> HIDE DEF t, r, p, u
  <2> QED
    BY <1>2, <1>4, <2>2, <2>3, <2>4
<1>8. CASE Copy(s)
  <2> DEFINE t == task[s]
             r == [t EXCEPT !.added = Tail(@)]
             p == Head(t.added)
             u == [r EXCEPT !.touched = @ \union {p}]
  <2>1. t.at = "commit" /\ t.added # << >>
    BY <1>8 DEF Copy, Committing
  <2>2. p \in Pkg
    BY <1>1, <2>1, Sequences_ DEF TaskType
  <2>3. Touch(s, u, p) \/ Become(s, Away) \/ Touch(s, Away, p)
    BY <1>8 DEF Copy, Changed, Stops, HalfCopied
  <2>4. u.at = "commit"
    BY <1>1, <2>1 DEF TaskType, Fields
  <2> HIDE DEF t, r, p, u
  <2> QED
    BY <1>2, <1>3, <1>4, <2>2, <2>3, <2>4
<1>9. CASE Die(s)
  <2> DEFINE p == Head(task[s].added)
  <2>1. Become(s, Away) \/ (task[s].added # << >> /\ Touch(s, Away, p))
    BY <1>9 DEF Die, HalfCopied
  <2>2. task[s].added # << >> => p \in Pkg
    BY <1>1, Sequences_ DEF TaskType
  <2> HIDE DEF p
  <2> QED
    BY <1>2, <1>3, <2>1, <2>2
<1> QED
  BY <1>5, <1>6, <1>7, <1>8, <1>9

LEMMA OtherSearches ==
    ASSUME IInv, SearchInv,
           MkidxStarts \/ MkidxReads \/ MkidxWrites \/ MkidxDies \/ OutsideChange
    PROVE  SearchInv'
<1>1. CASE UNCHANGED task
  BY <1>1 DEF SearchInv, SetInv, Known, Searched
<1>2. CASE MkidxWrites
  <2>1. PICK P : P = torn
    OBVIOUS
  <2>2. task' = [o \in Session |-> IF task[o].at = "away" THEN task[o]
                                   ELSE [task[o] EXCEPT !.since = @ \union P]]
    BY <1>2, <2>1 DEF MkidxWrites
  <2> QED
    BY <2>2, AllTold
<1>3. CASE OutsideChange
  <2>1. PICK p : task' = [o \in Session |-> IF task[o].at = "away" THEN task[o]
                                           ELSE [task[o] EXCEPT !.since = @ \union {p}]]
    BY <1>3 DEF OutsideChange
  <2> QED
    BY <2>1, AllTold
<1> QED
  BY <1>1, <1>2, <1>3 DEF MkidxStarts, MkidxReads, MkidxDies

LEMMA SearchStep == IInv /\ SearchInv /\ [Next]_vars => SearchInv'
<1> SUFFICES ASSUME IInv, SearchInv, [Next]_vars PROVE SearchInv'
  OBVIOUS
<1>1. CASE UNCHANGED vars
  BY <1>1 DEF vars, SearchInv, SetInv, Known, Searched
<1>2. CASE Next
  BY <1>1, <1>2, OpenSearches, SearchesBuilt, GroupSearches, EndSearches, OtherSearches
     DEF Next, Finished
<1> QED
  BY <1>1, <1>2

(* Whatever a transaction has removed and installed since its indexes were *)
(* made, and in whatever order it made them: what is looked up in them is  *)
(* what is in the database it works on, unless it met two packages of one  *)
(* name and version (pkgset.c:231-292, capreqidx.c, fileindex.c).          *)
THEOREM SearchesAreScans == Spec => []SearchIsScan
<1>1. Init => SearchInv
  BY AwayIs, NotAtWork DEF Init, SearchInv
<1>2. SearchInv => SearchIsScan
  <2> SUFFICES ASSUME SearchInv, NEW s \in Session, task[s].at = "open",
                      \A p, q \in Met(task[s]) : SameNevr(Set, p, q) => p = q
               PROVE  LET t == task[s]
                          Who(n, of) == {p \in Held(t.dir) : n \in of[p]}
                      IN  /\ t.ps = Held(t.dir)
                          /\ t.caps # NotBuilt =>
                               /\ \A c \in UNION {Set.caps[p] : p \in Pkg} :
                                     Lookup(t.caps, c.name) = {p \in t.ps : c.name \in Names(Set.caps[p])}
                               /\ \A f \in Path : Owners(t.paths, f) = Who(f, Set.files)
                          /\ t.reqs # NotBuilt =>
                               \A n \in Name \ Skipped : Lookup(t.reqs, n) = Who(n, Requires)
    BY DEF SearchIsScan
  <2> DEFINE t == task[s]
  <2>1. Searched(t)
    <3>1. Known(t) \subseteq Met(t)
      BY DEF Known, Met
    <3>2. Apart(Known(t))
      BY <3>1 DEF Apart
    <3> QED
      BY <3>2 DEF SearchInv, SetInv
  <2> HIDE DEF t
  <2>2. t.ps = Held(t.dir)
    BY <2>1 DEF Searched
  <2>3. ASSUME t.caps # NotBuilt, NEW p \in Pkg, NEW c \in Set.caps[p]
        PROVE  Lookup(t.caps, c.name) = {q \in t.ps : c.name \in Names(Set.caps[q])}
    <3>1. c.name \in Name
      BY CapsAre
    <3> QED
      BY <2>1, <2>3, <3>1 DEF Searched, Entries, OneEach, CapsOf, Lookup
  <2>4. ASSUME t.caps # NotBuilt, NEW f \in Path
        PROVE  Owners(t.paths, f) = {q \in Held(t.dir) : f \in Set.files[q]}
    BY <2>1, <2>2, <2>4 DEF Searched, Entries, OneEach, FilesOf, Owners
  <2>5. ASSUME t.reqs # NotBuilt, NEW n \in Name \ Skipped
        PROVE  Lookup(t.reqs, n) = {q \in Held(t.dir) : n \in Requires[q]}
    BY <2>1, <2>2, <2>5 DEF Searched, Entries, OneEach, ReqsOf, Lookup
  <2> QED
    BY <2>2, <2>3, <2>4, <2>5 DEF t
<1> QED
  BY <1>1, <1>2, SearchStep, Invariance, PTL DEF Spec
=============================================================================
