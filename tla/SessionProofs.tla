--------------------------- MODULE SessionProofs ----------------------------
(***************************************************************************)
(* What Session guarantees for every number of sessions and packages,      *)
(* whatever is interrupted, fails, dies or is changed from outside.        *)
(***************************************************************************)
EXTENDS Session, FiniteSetTheorems, TLAPS

-----------------------------------------------------------------------------
(* What a session with the task t and the view v has in hand, the cache    *)
(* being c, the time n and what has been installed e: a view to save, a    *)
(* file it wrote or that was written instead, a time of the database; and  *)
(* it reports packages as installed that were.                             *)
TaskInv(t, v, c, n, e) ==
    /\ t.at \in {"close", "mtime", "utime"} => c # NoFile
    /\ t.at \in {"create", "close", "mtime"} => v # NoView
    /\ t.at = "read" => t.time \in 1..n
    /\ t.installed \subseteq e
    /\ t.at = "erase" => t.in \subseteq e
    /\ t.cmd = "uninstall" => t.in = {} /\ t.at \notin {"mark", "plan", "erase"}

ViewInv(v, n, e) == v # NoView => v.ts <= n /\ v.pkgs \subseteq e
CacheInv == cache # NoFile => cache.ts <= now /\ cache.pkgs \subseteq ever

IInv == /\ TypeOK
        /\ db \subseteq ever
        /\ CacheInv
        /\ \A s \in Session : /\ ViewInv(view[s], now, ever)
                             /\ TaskInv(task[s], view[s], cache, now, ever)

(* The task of a session that does nothing.                                *)
LEMMA IdleTask ==
    ASSUME NEW a \in At
    PROVE  LET t == [Idle EXCEPT !.at = a]
           IN  /\ t \in Task /\ t.at = a /\ t.installed = {} /\ t.in = {} /\ t.cmd = "quit"
               /\ Idle \in Task /\ Idle.at = "gone" /\ Idle.installed = {} /\ Idle.in = {}
<1>1. Idle \in Task
  BY DEF Idle, Task, At, Command
<1>2. [Idle EXCEPT !.at = a] \in Task
  BY <1>1 DEF Task
<1> QED
  BY <1>1, <1>2 DEF Idle

(* The state the first session begins with.                                *)
LEMMA SInit == Init => IInv
<1> SUFFICES ASSUME Init PROVE IInv
  OBVIOUS
<1>1. db \subseteq Pkg /\ ever = db
  BY FilledAssumption DEF Init
<1>2. Idle \in Task /\ Idle.at = "gone" /\ Idle.installed = {} /\ Idle.in = {}
  BY IdleTask DEF At
<1>3. TypeOK
  BY <1>1, <1>2, BoundsAssumption DEF Init, TypeOK
<1>4. \A s \in Session : /\ ViewInv(view[s], now, ever)
                        /\ TaskInv(task[s], view[s], cache, now, ever)
  BY <1>2 DEF Init, ViewInv, TaskInv
<1> QED
  BY <1>1, <1>3, <1>4 DEF IInv, CacheInv, Init

-----------------------------------------------------------------------------
(* A step of one session; the others keep what they have in hand while the *)
(* time goes on and more packages have been installed.                     *)
LEMMA OneSteps ==
    ASSUME IInv, TypeOK', NEW s \in Session,
           now <= now', ever \subseteq ever', db' \subseteq ever', CacheInv',
           cache # NoFile => cache' # NoFile,
           \A q \in Session \ {s} : task'[q] = task[q] /\ view'[q] = view[q],
           ViewInv(view'[s], now', ever'), TaskInv(task'[s], view'[s], cache', now', ever')
    PROVE  IInv'
<1> SUFFICES ASSUME NEW q \in Session
             PROVE  /\ ViewInv(view'[q], now', ever')
                    /\ TaskInv(task'[q], view'[q], cache', now', ever')
  BY DEF IInv
<1>1. CASE q = s
  BY <1>1
<1>2. CASE q # s
  <2>1. /\ task'[q] = task[q] /\ view'[q] = view[q]
        /\ ViewInv(view[q], now, ever) /\ TaskInv(task[q], view[q], cache, now, ever)
        /\ now \in Nat /\ now' \in Nat
    BY <1>2 DEF IInv, TypeOK
  <2>2. ViewInv(view[q], now', ever')
    <3>1. view[q] # NoView => view[q].ts \in Nat
      BY DEF IInv, TypeOK, View
    <3> QED
      BY <2>1, <3>1 DEF ViewInv
  <2>3. task[q].time \in 1..now => task[q].time \in 1..now'
    BY <2>1
  <2>4. TaskInv(task[q], view[q], cache', now', ever')
    BY <2>1, <2>3 DEF TaskInv
  <2> QED
    BY <2>1, <2>2, <2>4
<1> QED
  BY <1>1, <1>2

(* The time goes on, and nothing else happens to the sessions.             *)
LEMMA NoneSteps ==
    ASSUME IInv, TypeOK', now <= now', ever \subseteq ever', db' \subseteq ever',
           UNCHANGED <<cache, task, view>>
    PROVE  IInv'
<1>1. CacheInv'
  <2>1. cache # NoFile => cache.ts \in Nat
    BY DEF IInv, TypeOK, File
  <2> QED
    BY <2>1 DEF CacheInv, IInv, TypeOK
<1>2. ASSUME NEW q \in Session
      PROVE  ViewInv(view'[q], now', ever') /\ TaskInv(task'[q], view'[q], cache', now', ever')
  <2>1. /\ task'[q] = task[q] /\ view'[q] = view[q] /\ cache' = cache
        /\ ViewInv(view[q], now, ever) /\ TaskInv(task[q], view[q], cache, now, ever)
        /\ now \in Nat /\ now' \in Nat
    BY DEF IInv, TypeOK
  <2>2. ViewInv(view[q], now', ever')
    <3>1. view[q] # NoView => view[q].ts \in Nat
      BY DEF IInv, TypeOK, View
    <3> QED
      BY <2>1, <3>1 DEF ViewInv
  <2>3. task[q].time \in 1..now => task[q].time \in 1..now'
    BY <2>1
  <2>4. TaskInv(task[q], view[q], cache', now', ever')
    BY <2>1, <2>3 DEF TaskInv
  <2> QED
    BY <2>1, <2>2, <2>4
<1> QED
  BY <1>1, <1>2 DEF IInv

(* A step that changes nothing but what a session is doing.                *)
LEMMA OnlyTask ==
    ASSUME IInv, NEW s \in Session, NEW t \in Task,
           task' = [task EXCEPT ![s] = t], TaskInv(t, view[s], cache, now, ever),
           UNCHANGED <<now, db, dbtime, cache, view, touched, ever, doubts>>,
           typed' \in 0..MaxCommands
    PROVE  IInv'
<1>1. /\ task' \in [Session -> Task] /\ task'[s] = t
      /\ \A q \in Session \ {s} : task'[q] = task[q] /\ view'[q] = view[q]
  BY DEF IInv, TypeOK
<1>2. TypeOK'
  BY <1>1 DEF IInv, TypeOK
<1>3. /\ ViewInv(view'[s], now', ever') /\ TaskInv(task'[s], view'[s], cache', now', ever')
      /\ CacheInv' /\ db' \subseteq ever' /\ now <= now'
  BY <1>1 DEF IInv, CacheInv, TypeOK
<1> QED
  BY <1>1, <1>2, <1>3, OneSteps

(* A step that takes the session elsewhere and changes nothing else.       *)
LEMMA OnlyGoes ==
    ASSUME IInv, NEW s \in Session, NEW a \in At, Goto(s, a),
           a \notin {"close", "mtime", "utime", "read", "erase", "mark"},
           a = "create" => view[s] # NoView, a = "plan" => task[s].cmd # "uninstall",
           UNCHANGED <<now, db, dbtime, cache, view, touched, typed, ever, doubts>>
    PROVE  IInv'
<1> DEFINE t == [task[s] EXCEPT !.at = a]
<1>1. task[s] \in Task /\ TaskInv(task[s], view[s], cache, now, ever)
  BY DEF IInv, TypeOK
<1>2. t \in Task /\ task' = [task EXCEPT ![s] = t]
  BY <1>1 DEF Task, Goto
<1>3. TaskInv(t, view[s], cache, now, ever)
  BY <1>1 DEF TaskInv, Task
<1> QED
  BY <1>2, <1>3, OnlyTask DEF IInv, TypeOK

(* A step after which the session is back at the prompt.                   *)
LEMMA OnlyPrompts ==
    ASSUME IInv, NEW s \in Session, Prompt(s),
           UNCHANGED <<now, db, dbtime, cache, view, touched, typed, ever, doubts>>
    PROVE  IInv'
<1> DEFINE t == [Idle EXCEPT !.at = "prompt"]
<1>1. t \in Task /\ t.at = "prompt" /\ t.installed = {} /\ t.cmd = "quit"
  BY IdleTask DEF At
<1>2. TaskInv(t, view[s], cache, now, ever)
  BY <1>1 DEF TaskInv
<1> QED
  BY <1>1, <1>2, OnlyTask DEF IInv, TypeOK, Prompt

-----------------------------------------------------------------------------
(* What users type, and the signal.                                        *)
LEMMA TypesKeep ==
    ASSUME IInv, NEW s \in Session, Types_(s) \/ Interrupt(s)
    PROVE  IInv'
<1>0. task[s] \in Task /\ TaskInv(task[s], view[s], cache, now, ever)
  BY DEF IInv, TypeOK
<1>1. ASSUME NEW c, NEW a \in {"load", "mark"}, NEW ps \in SUBSET Pkg, NEW one \in BOOLEAN,
             Types(s, c, a, ps, one), c = "uninstall" => a = "load"
      PROVE  IInv'
  <2> DEFINE t == [Idle EXCEPT !.at = a, !.cmd = c, !.left = ps, !.particle = one]
  <2>1. c \in Command /\ a \in At
    BY <1>1, UsesAssumption DEF Types, At
  <2>2. /\ t \in Task /\ t.at = a /\ t.installed = {} /\ t.in = {}
    BY <2>1, IdleTask DEF Task, Idle
  <2>3. TaskInv(t, view[s], cache, now, ever)
    BY <1>1, <2>2 DEF TaskInv, Idle
  <2>4. typed' \in 0..MaxCommands
    BY <1>1, BoundsAssumption DEF Types, IInv, TypeOK
  <2> QED
    BY <1>1, <2>2, <2>3, <2>4, OnlyTask DEF Types
<1>2. CASE Start(s)
  BY <1>2, OnlyPrompts DEF Start
<1>3. CASE Ls(s)
  BY <1>1, <1>3 DEF Ls
<1>4. CASE Reload(s)
  BY <1>1, <1>4 DEF Reload
<1>5. CASE Uninstall(s)
  <2>1. PICK p \in Pkg : Types(s, "uninstall", "load", {p}, FALSE)
    BY <1>5 DEF Uninstall
  <2> QED
    BY <1>1, <2>1
<1>6. CASE Install(s)
  <2>1. PICK c \in {"install", "upgrade"}, p \in Pkg, q \in Pkg, one \in BOOLEAN :
             Types(s, c, "mark", {p, q}, one)
    BY <1>6 DEF Install
  <2> QED
    BY <1>1, <2>1
<1>7. CASE Quit(s)
  <2> DEFINE t == [Idle EXCEPT !.at = "save"]
  <2>1. t \in Task /\ t.at = "save" /\ t.installed = {} /\ t.cmd = "quit"
    BY IdleTask DEF At
  <2>2. TaskInv(t, view[s], cache, now, ever)
    BY <2>1 DEF TaskInv
  <2> QED
    BY <1>7, <2>1, <2>2, OnlyTask DEF Quit, IInv, TypeOK
<1>8. CASE Interrupt(s)
  <2> DEFINE t == [task[s] EXCEPT !.interrupted = TRUE]
  <2>1. t \in Task /\ task' = [task EXCEPT ![s] = t]
    BY <1>0, <1>8 DEF Task, Interrupt
  <2>2. TaskInv(t, view[s], cache, now, ever)
    BY <1>0 DEF TaskInv, Task
  <2> QED
    BY <1>8, <2>1, <2>2, OnlyTask DEF Interrupt, IInv, TypeOK
<1> QED
  BY <1>2, <1>3, <1>4, <1>5, <1>6, <1>7, <1>8 DEF Types_

-----------------------------------------------------------------------------
(* A load that ends: the view it leaves is the one there was, that of the  *)
(* cache, or what the database holds.                                      *)
LEMMA LoadedKeeps ==
    ASSUME IInv, NEW s \in Session, NEW v \in View \union {NoView}, NEW stamp \in 0..now,
           NEW d \in SUBSET Doubt, ViewInv(v, now, ever), Loaded(s, v, stamp, d),
           task[s].at \in {"cache", "stamp", "read"}
    PROVE  IInv'
<1>0. /\ task[s] \in Task /\ TaskInv(task[s], view[s], cache, now, ever)
      /\ task \in [Session -> Task] /\ view \in [Session -> View \union {NoView}]
      /\ now \in Nat \ {0} /\ touched \in [Session -> 0..now]
      /\ doubts \in [Session -> SUBSET Doubt]
  BY DEF IInv, TypeOK
<1>1. /\ view' \in [Session -> View \union {NoView}] /\ view'[s] = v
      /\ \A q \in Session \ {s} : view'[q] = view[q]
  BY <1>0 DEF Loaded
<1>2. touched' \in [Session -> 0..now]
  BY <1>0 DEF Loaded
<1>3. Touching(d) \in SUBSET Doubt
  BY DEF Touching, Doubt
<1>4. doubts' \in [Session -> SUBSET Doubt]
  BY <1>0, <1>3 DEF Loaded
<1>5. /\ task' \in [Session -> Task]
      /\ TaskInv(task'[s], v, cache, now, ever)
      /\ \A q \in Session \ {s} : task'[q] = task[q]
  <2>1. CASE task[s].cmd = "uninstall"
    <3> DEFINE t == [task[s] EXCEPT !.at = "resolve"]
    <3>1. t \in Task /\ task' = [task EXCEPT ![s] = t]
      BY <1>0, <2>1 DEF Task, At, Loaded, Goto
    <3>2. TaskInv(t, v, cache, now, ever)
      BY <1>0 DEF TaskInv, Task
    <3> QED
      BY <1>0, <3>1, <3>2
  <2>2. CASE task[s].cmd # "uninstall"
    <3> DEFINE t == [Idle EXCEPT !.at = "prompt"]
    <3>1. t \in Task /\ t.at = "prompt" /\ t.installed = {} /\ t.cmd = "quit"
      BY IdleTask DEF At
    <3>2. TaskInv(t, v, cache, now, ever)
      BY <3>1 DEF TaskInv
    <3>3. task' = [task EXCEPT ![s] = t]
      BY <2>2 DEF Loaded, Prompt
    <3> QED
      BY <1>0, <3>1, <3>2, <3>3
  <2> QED
    BY <2>1, <2>2
<1>6. UNCHANGED <<now, db, dbtime, cache, typed, ever>>
  BY DEF Loaded
<1>7. TypeOK'
  BY <1>1, <1>2, <1>4, <1>5, <1>6 DEF IInv, TypeOK
<1>8. CacheInv' /\ db' \subseteq ever' /\ now <= now'
  BY <1>0, <1>6 DEF IInv, CacheInv
<1> QED
  BY <1>1, <1>5, <1>6, <1>7, <1>8, OneSteps

(* The loading of the installed packages.                                  *)
LEMMA LoadingKeeps ==
    ASSUME IInv, NEW s \in Session, Loading(s)
    PROVE  IInv'
<1>0. /\ task[s] \in Task /\ TaskInv(task[s], view[s], cache, now, ever)
      /\ view[s] \in View \union {NoView} /\ ViewInv(view[s], now, ever) /\ CacheInv
      /\ now \in Nat \ {0} /\ dbtime \in 1..now /\ touched[s] \in 0..now
      /\ doubts[s] \in SUBSET Doubt /\ db \subseteq Pkg /\ db \subseteq ever
      /\ cache \in File \union {NoFile}
  BY DEF IInv, TypeOK
<1>1. CASE Load(s)
  <2>1. Prompt(s) \/ Goto(s, "resolve") \/ Goto(s, "cache") \/ Goto(s, "stamp")
    BY <1>1 DEF Load
  <2> QED
    BY <1>1, <2>1, OnlyPrompts, OnlyGoes DEF Load, At
<1>2. CASE BrokenCache(s)
  BY <1>2, OnlyGoes DEF BrokenCache, At
<1>3. CASE Stamp(s)
  <2> DEFINE t == [task[s] EXCEPT !.at = "read", !.time = dbtime]
  <2>1. t \in Task /\ task' = [task EXCEPT ![s] = t]
    <3>1. dbtime \in Nat
      BY <1>0
    <3>2. t \in Task
      BY <1>0, <3>1 DEF Task, At
    <3> QED
      BY <1>3, <3>2 DEF Stamp
  <2>2. TaskInv(t, view[s], cache, now, ever)
    BY <1>0 DEF TaskInv, Task
  <2> QED
    BY <1>3, <2>1, <2>2, OnlyTask DEF Stamp, IInv, TypeOK
<1>4. CASE OpenCache(s)
  <2> DEFINE v == [type |-> "rpmdbcache", ts |-> cache.ts, pkgs |-> cache.pkgs]
  <2>1. cache \in File /\ cache.pkgs \subseteq ever /\ cache.ts \in 0..now
    BY <1>0, <1>4 DEF OpenCache, Readable, CacheInv, File
  <2>2. v \in View /\ ViewInv(v, now, ever)
    BY <2>1 DEF File, View, ViewInv
  <2>3. doubts[s] \union cache.doubts \in SUBSET Doubt
    BY <1>0, <2>1 DEF File
  <2> QED
    BY <1>4, <2>1, <2>2, <2>3, LoadedKeeps DEF OpenCache, At_
<1>5. CASE OpenFails(s)
  BY <1>0, <1>5, LoadedKeeps DEF OpenFails, At_
<1>6. CASE ReadDb(s)
  <2> DEFINE v(ps) == [type |-> "rpmdb", ts |-> task[s].time, pkgs |-> ps]
  <2>1. task[s].time \in 1..now
    BY <1>0, <1>6 DEF TaskInv, ReadDb, At_
  <2>2. \A ps \in SUBSET db : v(ps) \in View /\ ViewInv(v(ps), now, ever)
    BY <1>0, <2>1 DEF View, ViewInv
  <2>3. task[s].time \in 0..now /\ {"interrupted"} \in SUBSET Doubt /\ {} \in SUBSET Doubt
    BY <1>0, <2>1 DEF Doubt
  <2>4. \/ Loaded(s, v({}), task[s].time, {"interrupted"})
        \/ Loaded(s, v(db), task[s].time, {})
    BY <1>6 DEF ReadDb
  <2> QED
    BY <1>6, <2>2, <2>3, <2>4, LoadedKeeps DEF ReadDb, At_
<1> QED
  BY <1>1, <1>2, <1>3, <1>4, <1>5, <1>6 DEF Loading

-----------------------------------------------------------------------------
(* What is to be installed and removed, and the answers of the user.       *)
LEMMA DecidingKeeps ==
    ASSUME IInv, NEW s \in Session,
           \/ Resolve(s) \/ Mark(s) \/ Plan(s) \/ NothingLeft(s) \/ Confirmed(s)
           \/ Declined(s) \/ VerifyInstall(s) \/ VerifyErase(s)
    PROVE  IInv'
<1>0. /\ task[s] \in Task /\ TaskInv(task[s], view[s], cache, now, ever)
      /\ db \subseteq Pkg /\ db \subseteq ever /\ typed \in 0..MaxCommands
  BY DEF IInv, TypeOK
<1>1. CASE Resolve(s)
  <2> DEFINE t(ps) == [task[s] EXCEPT !.at = "confirm", !.left = {}, !.un = task[s].left \union ps]
  <2>1. \A ps \in SUBSET Pkg : t(ps) \in Task /\ TaskInv(t(ps), view[s], cache, now, ever)
    BY <1>0 DEF Task, At, TaskInv
  <2>2. \/ Prompt(s)
        \/ \E ps \in SUBSET Pkg : task' = [task EXCEPT ![s] = t(ps)]
    BY <1>0, <1>1 DEF Resolve
  <2> QED
    BY <1>0, <1>1, <2>1, <2>2, OnlyPrompts, OnlyTask DEF Resolve
<1>2. CASE Mark(s)
  <2> DEFINE left == {p \in task[s].left : Installable(task[s].cmd, p)}
             t == [task[s] EXCEPT !.at = "plan", !.left = left]
  <2>1. left \in SUBSET Pkg
    BY <1>0 DEF Task
  <2>2. t \in Task /\ TaskInv(t, view[s], cache, now, ever)
    BY <1>0, <1>2, <2>1 DEF Task, At, TaskInv, Mark, At_
  <2>3. task' = [task EXCEPT ![s] = t]
    BY <1>2 DEF Mark
  <2> QED
    BY <1>0, <1>2, <2>2, <2>3, OnlyTask DEF Mark
<1>3. CASE Plan(s)
  <2>1. PICK in \in IF task[s].particle THEN {{p} : p \in task[s].left} ELSE {task[s].left} :
             \E old \in [in -> SUBSET db] :
                LET un == UNION {old[p] : p \in in}
                IN  task' = [task EXCEPT ![s] =
                               [@ EXCEPT !.at = "confirm", !.left = task[s].left \ in,
                                         !.in = in, !.un = un,
                                         !.keep = Kept(task[s].cmd, in) \ un]]
    BY <1>3 DEF Plan
  <2>2. in \in SUBSET task[s].left
    BY <2>1
  <2>3. PICK old \in [in -> SUBSET db] :
           LET un == UNION {old[p] : p \in in}
           IN  task' = [task EXCEPT ![s] =
                          [@ EXCEPT !.at = "confirm", !.left = task[s].left \ in,
                                    !.in = in, !.un = un,
                                    !.keep = Kept(task[s].cmd, in) \ un]]
    BY <2>1
  <2> DEFINE un == UNION {old[p] : p \in in}
             keep == Kept(task[s].cmd, in) \ un
             t == [task[s] EXCEPT !.at = "confirm", !.left = @ \ in, !.in = in, !.un = un,
                                  !.keep = keep]
  <2>4. in \in SUBSET Pkg /\ task[s].left \ in \in SUBSET Pkg
    BY <1>0, <2>2 DEF Task
  <2>5. un \in SUBSET Pkg
    BY <1>0
  <2>6. keep \in SUBSET Pkg
    BY <1>0 DEF Kept, Older, Instances, Of
  <2>7. task' = [task EXCEPT ![s] = t]
    BY <2>3
  <2> HIDE DEF un, keep
  <2>8. t \in Task
    BY <1>0, <2>4, <2>5, <2>6 DEF Task, At
  <2>9. TaskInv(t, view[s], cache, now, ever)
    BY <1>0, <1>3 DEF TaskInv, Task, Plan, At_
  <2> QED
    BY <1>0, <1>3, <2>7, <2>8, <2>9, OnlyTask DEF Plan
<1>4. CASE NothingLeft(s)
  BY <1>4, OnlyGoes DEF NothingLeft, At
<1>5. CASE Confirmed(s)
  BY <1>5, OnlyGoes DEF Confirmed, At
<1>6. CASE Declined(s)
  <2>1. CASE task[s].cmd = "uninstall"
    BY <1>6, <2>1, OnlyGoes DEF Declined, At
  <2>2. CASE task[s].cmd # "uninstall"
    BY <1>6, <2>2, OnlyGoes DEF Declined, At
  <2> QED
    BY <2>1, <2>2
<1>7. CASE VerifyInstall(s)
  <2> DEFINE in == {p \in task[s].in : IsInstalled(p)}
             un == {p \in task[s].un : ~IsInstalled(p)}
             t == [task[s] EXCEPT !.at = "plan", !.installed = @ \union in, !.removed = @ \union un]
  <2>1. in \in SUBSET Pkg /\ un \in SUBSET Pkg /\ in \subseteq ever
    BY <1>0 DEF Task, IsInstalled
  <2>2. task' = [task EXCEPT ![s] = t]
    BY <1>7 DEF VerifyInstall
  <2> HIDE DEF in, un
  <2>3. t \in Task
    BY <1>0, <2>1 DEF Task, At
  <2>4. TaskInv(t, view[s], cache, now, ever)
    BY <1>0, <1>7, <2>1 DEF TaskInv, Task, VerifyInstall
  <2> QED
    BY <1>0, <1>7, <2>2, <2>3, <2>4, OnlyTask DEF VerifyInstall
<1>8. CASE VerifyErase(s)
  <2> DEFINE t == [task[s] EXCEPT !.at = "apply", !.removed = @ \union (task[s].un \ db)]
  <2>1. t \in Task /\ TaskInv(t, view[s], cache, now, ever)
    BY <1>0 DEF Task, At, TaskInv
  <2>2. task' = [task EXCEPT ![s] = t]
    BY <1>8 DEF VerifyErase
  <2> QED
    BY <1>0, <1>8, <2>1, <2>2, OnlyTask DEF VerifyErase
<1> QED
  BY <1>1, <1>2, <1>3, <1>4, <1>5, <1>6, <1>7, <1>8

-----------------------------------------------------------------------------
(* A change of the database, by whom ever: the clock goes on.              *)
LEMMA ChangesTypes ==
    ASSUME IInv, NEW w, NEW new \in SUBSET Pkg, NEW d \in SUBSET Doubt, Changes(w, new, d)
    PROVE  /\ now' \in Nat \ {0} /\ now <= now' /\ dbtime' \in 1..now'
           /\ db' = new /\ ever' = ever \union new /\ ever' \subseteq Pkg
           /\ touched \in [Session -> 0..now']
           /\ doubts' \in [Session -> SUBSET Doubt]
<1>0. /\ now \in Nat \ {0} /\ dbtime \in 1..now /\ ever \subseteq Pkg
      /\ touched \in [Session -> 0..now] /\ doubts \in [Session -> SUBSET Doubt]
  BY DEF IInv, TypeOK
<1>1. now' \in Nat \ {0} /\ now <= now' /\ dbtime' \in 1..now'
  BY <1>0 DEF Changes
<1>2. touched \in [Session -> 0..now']
  BY <1>0, <1>1
<1>3. ASSUME NEW q \in Session
      PROVE  ChangedBehind(doubts[q], q) \in SUBSET Doubt
  BY <1>0 DEF ChangedBehind, Doubt
<1>4. doubts' \in [Session -> SUBSET Doubt]
  BY <1>0, <1>3 DEF Changes
<1> QED
  BY <1>0, <1>1, <1>2, <1>4 DEF Changes

(* The programs that run beside the sessions, and the clock.               *)
LEMMA WorldKeeps ==
    ASSUME IInv, OutsideChange \/ Tick
    PROVE  IInv'
<1>0. /\ now \in Nat \ {0} /\ dbtime \in 1..now /\ db \subseteq Pkg /\ db \subseteq ever
      /\ touched \in [Session -> 0..now]
  BY DEF IInv, TypeOK
<1>1. CASE OutsideChange
  <2>1. PICK new \in SUBSET Pkg : Changes(NoSession, new, {})
    <3>1. PICK p \in Pkg :
             Changes(NoSession, IF p \in db THEN db \ {p} ELSE db \union {p}, {})
      BY <1>1 DEF OutsideChange
    <3>2. (IF p \in db THEN db \ {p} ELSE db \union {p}) \in SUBSET Pkg
      BY <1>0
    <3> QED
      BY <3>1, <3>2
  <2>2. /\ now' \in Nat \ {0} /\ now <= now' /\ dbtime' \in 1..now'
        /\ db' = new /\ ever' = ever \union new /\ ever' \subseteq Pkg
        /\ touched \in [Session -> 0..now']
        /\ doubts' \in [Session -> SUBSET Doubt]
    BY <2>1, ChangesTypes
  <2>3. TypeOK'
    BY <1>1, <2>2 DEF IInv, TypeOK, OutsideChange
  <2> QED
    BY <1>1, <2>2, <2>3, NoneSteps DEF OutsideChange
<1>2. CASE Tick
  <2>1. touched \in [Session -> 0..now + 1] /\ dbtime \in 1..(now + 1)
    BY <1>0
  <2>2. TypeOK'
    BY <1>0, <1>2, <2>1 DEF IInv, TypeOK, Tick
  <2> QED
    BY <1>0, <1>2, <2>2, NoneSteps DEF Tick
<1> QED
  BY <1>1, <1>2

(* rpm runs for a session, and the session goes on to the task t.          *)
LEMMA RpmSteps ==
    ASSUME IInv, NEW s \in Session, NEW new \in SUBSET Pkg, NEW d \in SUBSET Doubt,
           Changes(s, new, d), NEW t \in Task, task' = [task EXCEPT ![s] = t],
           TaskInv(t, view[s], cache, now', ever'), UNCHANGED <<cache, view, touched, typed>>
    PROVE  IInv'
<1>1. /\ now' \in Nat \ {0} /\ now <= now' /\ dbtime' \in 1..now'
      /\ db' = new /\ ever' = ever \union new /\ ever' \subseteq Pkg
      /\ touched \in [Session -> 0..now']
      /\ doubts' \in [Session -> SUBSET Doubt]
  BY ChangesTypes
<1>2. /\ task' \in [Session -> Task] /\ task'[s] = t
      /\ \A q \in Session \ {s} : task'[q] = task[q] /\ view'[q] = view[q]
  BY DEF IInv, TypeOK
<1>3. TypeOK'
  BY <1>1, <1>2 DEF IInv, TypeOK
<1>4. CacheInv'
  <2>1. cache # NoFile => cache.ts \in Nat
    BY DEF IInv, TypeOK, File
  <2> QED
    BY <1>1, <2>1 DEF CacheInv, IInv, TypeOK
<1>5. ViewInv(view[s], now', ever')
  <2>1. view[s] # NoView => view[s].ts \in Nat
    BY DEF IInv, TypeOK, View
  <2> QED
    BY <1>1, <2>1 DEF ViewInv, IInv, TypeOK
<1> QED
  BY <1>1, <1>2, <1>3, <1>4, <1>5, OneSteps

(* What rpm does, and what poldek notes of it.                             *)
LEMMA RpmKeeps ==
    ASSUME IInv, NEW s \in Session,
           \/ RpmInstalls(s) \/ RpmFails(s) \/ OldErased(s) \/ OldNotErased(s)
           \/ RpmErases(s) \/ EraseFails(s)
    PROVE  IInv'
<1>0. /\ task[s] \in Task /\ TaskInv(task[s], view[s], cache, now, ever)
      /\ db \subseteq Pkg /\ db \subseteq ever /\ typed \in 0..MaxCommands
      /\ task[s].in \in SUBSET Pkg /\ task[s].un \in SUBSET Pkg
      /\ {} \in SUBSET Doubt /\ {"instances"} \in SUBSET Doubt
  BY DEF IInv, TypeOK, Task, Doubt
<1> DEFINE noted(a) == [Noted(task[s]) EXCEPT !.at = a]
           goes(a) == [task[s] EXCEPT !.at = a]
<1>1. \A a \in At : noted(a) \in Task /\ goes(a) \in Task
  BY <1>0 DEF Noted, Task
<1>2. ASSUME NEW n, NEW e, ever \subseteq e
      PROVE  /\ task[s].in \subseteq e /\ task[s].cmd # "uninstall"
                 => TaskInv(noted("plan"), view[s], cache, n, e)
             /\ task[s].in \subseteq e /\ task[s].cmd # "uninstall"
                 => TaskInv(goes("erase"), view[s], cache, n, e)
             /\ task[s].cmd = "uninstall" => TaskInv(noted("apply"), view[s], cache, n, e)
             /\ TaskInv(goes("verify"), view[s], cache, n, e)
  BY <1>0, <1>2 DEF TaskInv, Noted, Task
<1> HIDE DEF noted, goes
<1>3. CASE RpmInstalls(s)
  <2> DEFINE d == IF Upgrades(task[s]) /\ ManyOf(task[s].in, db) THEN {"instances"} ELSE {}
  <2>1. After(task[s]) \in SUBSET Pkg /\ task[s].in \subseteq After(task[s])
    BY <1>0 DEF After
  <2>2. d \in SUBSET Doubt /\ Changes(s, After(task[s]), d)
    BY <1>0, <1>3 DEF RpmInstalls
  <2>3. ever \subseteq ever' /\ task[s].in \subseteq ever'
    BY <2>1, <2>2 DEF Changes
  <2>4. \E t \in {noted("plan"), goes("erase")} :
           t \in Task /\ task' = [task EXCEPT ![s] = t] /\ TaskInv(t, view[s], cache, now', ever')
    BY <1>0, <1>1, <1>2, <1>3, <2>3 DEF RpmInstalls, At, noted, goes
  <2> HIDE DEF d
  <2> QED
    BY <1>3, <2>1, <2>2, <2>4, RpmSteps DEF RpmInstalls
<1>4. CASE RpmFails(s)
  <2>1. PICK new \in SUBSET Pkg, d \in SUBSET Doubt : Changes(s, new, d)
    <3>1. PICK in \in SUBSET task[s].in, un \in SUBSET (task[s].un \intersect db) :
             Changes(s, (db \union in) \ un,
                     IF ManyOf(task[s].in \union task[s].un, (db \union in) \ un)
                     THEN {"instances"} ELSE {})
      BY <1>4 DEF RpmFails
    <3>2. (db \union in) \ un \in SUBSET Pkg
      BY <1>0
    <3> QED
      BY <1>0, <3>1, <3>2
  <2>2. ever \subseteq ever'
    BY <2>1 DEF Changes
  <2>3. /\ goes("verify") \in Task /\ task' = [task EXCEPT ![s] = goes("verify")]
        /\ TaskInv(goes("verify"), view[s], cache, now', ever')
    BY <1>1, <1>2, <1>4, <2>2 DEF RpmFails, Goto, goes, At
  <2> QED
    BY <1>4, <2>1, <2>3, RpmSteps DEF RpmFails
<1>5. CASE OldErased(s) \/ OldNotErased(s)
  <2>1. PICK new \in SUBSET Pkg, d \in SUBSET Doubt : Changes(s, new, d)
    <3>1. db \ task[s].un \in SUBSET Pkg
      BY <1>0
    <3> QED
      BY <1>0, <1>5, <3>1 DEF OldErased, OldNotErased
  <2>2. ever \subseteq ever' /\ task[s].in \subseteq ever' /\ task[s].cmd # "uninstall"
    BY <1>0, <1>5, <2>1 DEF Changes, TaskInv, OldErased, OldNotErased, At_
  <2>3. /\ noted("plan") \in Task /\ task' = [task EXCEPT ![s] = noted("plan")]
        /\ TaskInv(noted("plan"), view[s], cache, now', ever')
    BY <1>1, <1>2, <1>5, <2>2 DEF OldErased, OldNotErased, noted, At
  <2> QED
    BY <1>5, <2>1, <2>3, RpmSteps DEF OldErased, OldNotErased
<1>6. CASE RpmErases(s)
  <2>1. db \ task[s].un \in SUBSET Pkg
    BY <1>0
  <2>2. Changes(s, db \ task[s].un, {}) /\ task[s].cmd = "uninstall"
    BY <1>6 DEF RpmErases
  <2>3. ever \subseteq ever'
    BY <2>2 DEF Changes
  <2>4. /\ noted("apply") \in Task /\ task' = [task EXCEPT ![s] = noted("apply")]
        /\ TaskInv(noted("apply"), view[s], cache, now', ever')
    BY <1>1, <1>2, <1>6, <2>2, <2>3 DEF RpmErases, noted, At
  <2> QED
    BY <1>0, <1>6, <2>1, <2>2, <2>4, RpmSteps DEF RpmErases
<1>7. CASE EraseFails(s)
  <2>1. PICK new \in SUBSET Pkg : Changes(s, new, {})
    <3>1. PICK gone \in SUBSET (task[s].un \intersect db) : Changes(s, db \ gone, {})
      BY <1>7 DEF EraseFails
    <3>2. db \ gone \in SUBSET Pkg
      BY <1>0
    <3> QED
      BY <3>1, <3>2
  <2>2. ever \subseteq ever'
    BY <2>1 DEF Changes
  <2>3. /\ goes("verify") \in Task /\ task' = [task EXCEPT ![s] = goes("verify")]
        /\ TaskInv(goes("verify"), view[s], cache, now', ever')
    BY <1>1, <1>2, <1>7, <2>2 DEF EraseFails, Goto, goes, At
  <2> QED
    BY <1>0, <1>7, <2>1, <2>3, RpmSteps DEF EraseFails
<1> QED
  BY <1>3, <1>4, <1>5, <1>6, <1>7

-----------------------------------------------------------------------------
(* The view after a transaction: packages that were installed are added.   *)
LEMMA ApplyKeeps ==
    ASSUME IInv, NEW s \in Session, Apply(s)
    PROVE  IInv'
<1>0. /\ task[s] \in Task /\ TaskInv(task[s], view[s], cache, now, ever)
      /\ view \in [Session -> View \union {NoView}] /\ ViewInv(view[s], now, ever)
      /\ now \in Nat \ {0} /\ touched \in [Session -> 0..now]
      /\ doubts \in [Session -> SUBSET Doubt]
      /\ task \in [Session -> Task]
  BY DEF IInv, TypeOK
<1>1. UNCHANGED <<now, db, dbtime, cache, typed, ever>>
  BY DEF Apply
<1>2. /\ task' \in [Session -> Task] /\ \A v : TaskInv(task'[s], v, cache, now, ever)
      /\ \A q \in Session \ {s} : task'[q] = task[q]
  <2> DEFINE t == [Idle EXCEPT !.at = "prompt"]
  <2>1. t \in Task /\ t.at = "prompt" /\ t.installed = {} /\ t.cmd = "quit"
    BY IdleTask DEF At
  <2>2. \A v : TaskInv(t, v, cache, now, ever)
    BY <2>1 DEF TaskInv
  <2>3. task' = [task EXCEPT ![s] = t]
    BY DEF Apply, Prompt
  <2> QED
    BY <1>0, <2>1, <2>2, <2>3
<1>3. /\ view' \in [Session -> View \union {NoView}] /\ ViewInv(view'[s], now, ever)
      /\ \A q \in Session \ {s} : view'[q] = view[q]
      /\ touched' \in [Session -> 0..now] /\ doubts' \in [Session -> SUBSET Doubt]
  <2>1. CASE UNCHANGED <<view, touched, doubts>>
    BY <1>0, <2>1
  <2>2. CASE ~UNCHANGED <<view, touched, doubts>>
    <3> DEFINE v == [view[s] EXCEPT !.pkgs = (@ \ task[s].removed) \union task[s].installed]
    <3>1. /\ view[s] # NoView /\ view' = [view EXCEPT ![s] = v]
          /\ touched' = [touched EXCEPT ![s] = now]
          /\ doubts' = [doubts EXCEPT ![s] = Touching(doubts[s])]
      BY <2>2 DEF Apply
    <3>2. v \in View
      BY <1>0, <3>1 DEF View, Task
    <3>3. ViewInv(v, now, ever)
      BY <1>0, <3>1 DEF ViewInv, TaskInv, View
    <3>4. Touching(doubts[s]) \in SUBSET Doubt
      BY <1>0 DEF Touching, Doubt
    <3>5. touched' \in [Session -> 0..now]
      BY <1>0, <3>1
    <3> HIDE DEF v
    <3> QED
      BY <1>0, <3>1, <3>2, <3>3, <3>4, <3>5
  <2> QED
    BY <2>1, <2>2
<1>4. TypeOK'
  BY <1>1, <1>2, <1>3 DEF IInv, TypeOK
<1>5. CacheInv' /\ db' \subseteq ever' /\ now <= now'
  BY <1>0, <1>1 DEF IInv, CacheInv
<1> QED
  BY <1>1, <1>2, <1>3, <1>4, <1>5, OneSteps

-----------------------------------------------------------------------------
(* A session ends, and leaves the cache as c.                              *)
LEMMA GoneKeeps ==
    ASSUME IInv, NEW s \in Session, Gone(s), UNCHANGED <<now, db, dbtime, typed, ever>>,
           cache' = cache \/ (cache # NoFile /\ cache' \in File /\ CacheInv')
    PROVE  IInv'
<1>0. /\ task \in [Session -> Task] /\ view \in [Session -> View \union {NoView}]
      /\ touched \in [Session -> 0..now] /\ doubts \in [Session -> SUBSET Doubt]
      /\ now \in Nat \ {0} /\ cache \in File \union {NoFile}
  BY DEF IInv, TypeOK
<1>1. Idle \in Task /\ Idle.at = "gone" /\ Idle.installed = {} /\ Idle.in = {}
  BY IdleTask DEF At
<1>2. /\ task' \in [Session -> Task] /\ task'[s] = Idle
      /\ view' \in [Session -> View \union {NoView}] /\ view'[s] = NoView
      /\ touched' \in [Session -> 0..now] /\ doubts' \in [Session -> SUBSET Doubt]
      /\ \A q \in Session \ {s} : task'[q] = task[q] /\ view'[q] = view[q]
  BY <1>0, <1>1 DEF Gone
<1>3. CacheInv' /\ cache' \in File \union {NoFile} /\ (cache # NoFile => cache' # NoFile)
  BY <1>0, NoneAssumption DEF IInv, CacheInv
<1>4. TypeOK'
  BY <1>2, <1>3 DEF IInv, TypeOK
<1>5. ViewInv(view'[s], now', ever') /\ TaskInv(task'[s], view'[s], cache', now', ever')
  BY <1>1, <1>2 DEF ViewInv, TaskInv
<1> QED
  BY <1>0, <1>2, <1>3, <1>4, <1>5, OneSteps DEF IInv

(* The cache is written by a session that goes on to the task t.           *)
LEMMA CacheWritten ==
    ASSUME IInv, NEW s \in Session, NEW t \in Task, task' = [task EXCEPT ![s] = t],
           cache' \in File, CacheInv', TaskInv(t, view[s], cache', now, ever),
           UNCHANGED <<now, db, dbtime, view, touched, typed, ever, doubts>>
    PROVE  IInv'
<1>1. /\ task' \in [Session -> Task] /\ task'[s] = t
      /\ \A q \in Session \ {s} : task'[q] = task[q] /\ view'[q] = view[q]
  BY DEF IInv, TypeOK
<1>2. TypeOK' /\ cache' # NoFile
  BY <1>1, NoneAssumption DEF IInv, TypeOK
<1>3. /\ ViewInv(view'[s], now', ever') /\ TaskInv(task'[s], view'[s], cache', now', ever')
      /\ db' \subseteq ever' /\ now <= now'
  BY <1>1 DEF IInv, TypeOK
<1> QED
  BY <1>1, <1>2, <1>3, OneSteps

(* The end of a session.                                                   *)
LEMMA SavingKeeps ==
    ASSUME IInv, NEW s \in Session, Saving(s) \/ Die(s)
    PROVE  IInv'
<1>0. /\ task[s] \in Task /\ TaskInv(task[s], view[s], cache, now, ever)
      /\ view[s] \in View \union {NoView} /\ ViewInv(view[s], now, ever)
      /\ cache \in File \union {NoFile} /\ CacheInv /\ now \in Nat \ {0}
      /\ doubts[s] \in SUBSET Doubt /\ typed \in 0..MaxCommands
  BY DEF IInv, TypeOK
<1>1. CASE NotSaved(s)
  BY <1>1, GoneKeeps DEF NotSaved
<1>2. CASE Die(s)
  BY <1>2, GoneKeeps DEF Die
<1>3. CASE Save(s)
  BY <1>3, OnlyGoes DEF Save, At
<1> DEFINE goes(a) == [task[s] EXCEPT !.at = a]
<1>4. \A a \in At : goes(a) \in Task
  BY <1>0 DEF Task
<1>5. CASE Create(s)
  <2>1. view[s] \in View /\ view[s] # NoView /\ view[s].ts <= now
    BY <1>0, <1>5 DEF TaskInv, Create, At_, ViewInv
  <2>2. cache' \in File
    BY <1>0, <1>5, <2>1 DEF Create, File, View
  <2>3. CacheInv'
    BY <1>5, <2>1 DEF Create, CacheInv
  <2>4. TaskInv(goes("close"), view[s], cache', now, ever)
    BY <1>0, <2>1, <2>2, NoneAssumption DEF TaskInv, Task
  <2>5. goes("close") \in Task /\ task' = [task EXCEPT ![s] = goes("close")]
    BY <1>4, <1>5 DEF At, Create, Goto
  <2> HIDE DEF goes
  <2> QED
    BY <1>5, <2>2, <2>3, <2>4, <2>5, CacheWritten DEF Create
<1>6. CASE Close(s)
  <2>1. /\ view[s] \in View /\ view[s] # NoView /\ view[s].pkgs \subseteq ever
        /\ cache \in File /\ cache.ts <= now /\ cache.pkgs \subseteq ever
    BY <1>0, <1>6 DEF TaskInv, Close, At_, ViewInv, CacheInv
  <2>2. view[s].pkgs \in SUBSET Pkg /\ doubts[s] \ {"changed"} \in SUBSET Doubt /\ now \in Nat
    BY <1>0, <2>1 DEF View
  <2>3. cache' \in File /\ cache'.ts <= now /\ cache'.pkgs \subseteq ever
    BY <1>6, <2>1, <2>2 DEF Close, File
  <2>4. CacheInv'
    BY <1>6, <2>3 DEF Close, CacheInv
  <2>5. TaskInv(goes("mtime"), view[s], cache', now, ever)
    BY <1>0, <2>1, <2>3, NoneAssumption DEF TaskInv, Task
  <2>6. goes("mtime") \in Task /\ task' = [task EXCEPT ![s] = goes("mtime")]
    BY <1>4, <1>6 DEF At, Close, Goto
  <2> HIDE DEF goes
  <2> QED
    BY <1>6, <2>3, <2>4, <2>5, <2>6, CacheWritten DEF Close
<1>7. CASE Mtime(s)
  <2> DEFINE time == IF view[s].type = "rpmdb" THEN view[s].ts ELSE cache.mtime
             t == [task[s] EXCEPT !.at = "utime", !.time = time]
  <2>1. view[s] \in View /\ cache \in File
    BY <1>0, <1>7 DEF TaskInv, Mtime, At_
  <2>2. time \in Nat
    BY <2>1 DEF View, File
  <2>3. task' = [task EXCEPT ![s] = t]
    BY <1>7 DEF Mtime
  <2> HIDE DEF time
  <2>4. t \in Task
    BY <1>0, <2>2 DEF Task, At
  <2>5. TaskInv(t, view[s], cache, now, ever)
    BY <1>0, <1>7 DEF TaskInv, Task, Mtime, At_
  <2> QED
    BY <1>0, <1>7, <2>3, <2>4, <2>5, OnlyTask DEF Mtime
<1>8. CASE Utime(s)
  <2>1. cache \in File /\ cache # NoFile /\ task[s].time \in Nat
    BY <1>0, <1>8 DEF TaskInv, Utime, At_, Task
  <2>2. cache' \in File /\ cache'.ts = cache.ts /\ cache'.pkgs = cache.pkgs
    BY <1>8, <2>1 DEF Utime, File
  <2>3. CacheInv'
    BY <1>0, <1>8, <2>1, <2>2 DEF Utime, CacheInv
  <2> QED
    BY <1>8, <2>1, <2>2, <2>3, GoneKeeps DEF Utime
<1> QED
  BY <1>1, <1>2, <1>3, <1>5, <1>6, <1>7, <1>8 DEF Saving

-----------------------------------------------------------------------------
(* Nothing changes.                                                        *)
LEMMA StutterKeeps == ASSUME IInv, UNCHANGED vars PROVE IInv'
<1>1. TypeOK'
  BY DEF IInv, TypeOK, vars
<1> QED
  BY <1>1, NoneSteps DEF IInv, TypeOK, vars

(* Every step keeps the invariant.                                         *)
LEMMA NextKeeps == IInv /\ [Next]_vars => IInv'
<1> SUFFICES ASSUME IInv, [Next]_vars PROVE IInv'
  OBVIOUS
<1>1. ASSUME NEW s \in Session, Step(s)
      PROVE  IInv'
  BY <1>1, LoadingKeeps, DecidingKeeps, RpmKeeps, ApplyKeeps, SavingKeeps
     DEF Step, Installing, Uninstalling
<1>2. ASSUME NEW s \in Session, Types_(s) \/ Interrupt(s) \/ Die(s)
      PROVE  IInv'
  BY <1>2, TypesKeep, SavingKeeps
<1> QED
  BY <1>1, <1>2, WorldKeeps, StutterKeeps DEF Next, Finished

(* The invariant of the specification.                                     *)
LEMMA Invariance == Spec => []IInv
BY SInit, NextKeeps, PTL DEF Spec

(* All variables keep their types; a view always has a time stamp, so that *)
(* the assertion of pkgdir_load ("ts must be set by backend") cannot fail, *)
(* and nothing is ever taken to have happened later than now.              *)
THEOREM TypesCorrect == Spec => []TypeOK
<1>1. IInv => TypeOK
  BY DEF IInv
<1> QED
  BY <1>1, Invariance, PTL

(* However many sessions write the cache at once, are interrupted or die,  *)
(* and whatever rpm reports: no view and no cache lists a package that has *)
(* never been installed (update_iinf, poclidek_apply_iinf, dbcache_create).*)
THEOREM NothingIsInvented == Spec => []NothingInvented
<1>1. IInv => NothingInvented
  BY DEF IInv, NothingInvented, ViewInv, CacheInv
<1> QED
  BY <1>1, Invariance, PTL

-----------------------------------------------------------------------------
(* Why views and the cache are current.  What a session has noted of its   *)
(* transaction, and what it has yet to note while rpm has half done its    *)
(* work, makes up for the difference between its view and the database.    *)
Applied(v, t) == (v.pkgs \ t.removed) \union t.installed

Agrees(v, t, d) ==
    /\ t.at \notin {"verify", "erase"} => d = Applied(v, t)
    /\ t.at = "erase" => d = Applied(v, t) \union t.in
    /\ t.at = "verify" /\ t.cmd = "uninstall" =>
         \E gone \in SUBSET t.un : d = Applied(v, t) \ gone
    /\ t.at = "verify" /\ t.cmd # "uninstall" =>
         /\ ~ManyOf(t.in \union t.un, d)
         /\ \E in \in SUBSET t.in, un \in SUBSET t.un : d = (Applied(v, t) \union in) \ un

(* What is planned: names apart from what is done and what is left, and    *)
(* nothing removed but what is older than its replacement.                 *)
Apart(ps, qs) == \A p \in ps, q \in qs : p.name # q.name
OneOfAName(ps) == \A p, q \in ps : p.name = q.name => p = q
IsOlder(q, p) == q.name = p.name /\ q.ver < p.ver

NamesInv(t) ==
    /\ t.at \in {"mark", "plan", "confirm", "rpm", "verify", "erase"} /\ t.cmd # "uninstall" =>
         /\ t.cmd \in {"install", "upgrade"}
         /\ OneOfAName(t.left) /\ Apart(t.installed, t.left)
    /\ t.at \in {"confirm", "rpm", "verify", "erase"} /\ t.cmd # "uninstall" =>
         /\ t.in # {} /\ OneOfAName(t.in)
         /\ Apart(t.in, t.left) /\ Apart(t.installed, t.in)
         /\ t.cmd = "install" => t.un = {} /\ t.keep = {}
         /\ \A q \in t.un : \E p \in t.in : IsOlder(q, p)

PlanInv(t) ==
    /\ t.at \notin {"plan", "confirm", "rpm", "verify", "erase", "apply"} =>
         t.installed = {} /\ t.removed = {}
    /\ t.cmd = "uninstall" => t.installed = {}
    /\ t.at = "resolve" => t.cmd = "uninstall"
    /\ NamesInv(t)

(* A view nobody has a reason to doubt, or one whose time stamp tells that *)
(* the change has not come after it.                                       *)
Trusted(v, to, D, dt) == v # NoView /\ (D = {} \/ (D \subseteq {"changed"} /\ dt <= to))

Own(v, t, d, to, D, dt) ==
    /\ PlanInv(t)
    /\ Trusted(v, to, D, dt) => Agrees(v, t, d)
    /\ t.at \in {"create", "close"} /\ D \subseteq {"changed"} => v.pkgs = d
    /\ t.at \in {"confirm", "rpm"} /\ t.cmd = "upgrade" /\ D = {} /\ v # NoView =>
         \A p \in t.in : (\E q \in d : IsOlder(q, p)) => \E q \in t.un \intersect d : IsOlder(q, p)

(* A file that will be accepted, and what it holds is not what is          *)
(* installed: then it looks old, and no session will make it look young.   *)
Clean(c) == c # NoFile /\ c.writer = NoSession /\ c.doubts = {}
Wrong(c, d) == Clean(c) /\ c.pkgs # d

Beside(c, d, dt, n, v, t, D) ==
    /\ t.at = "utime" => t.time <= n
    /\ Wrong(c, d) => /\ t.at \in {"close", "mtime"} => v.ts < dt
                      /\ t.at = "utime" => t.time < dt
    /\ t.at = "cache" /\ "changed" \notin D => ~Wrong(c, d)

FileInv(c, d, dt, n) ==
    /\ c # NoFile => "changed" \notin c.doubts /\ c.mtime <= n
    /\ Wrong(c, d) => c.ts < dt /\ c.mtime < dt

Each(s) == /\ Own(view[s], task[s], db, touched[s], doubts[s], dbtime)
           /\ Beside(cache, db, dbtime, now, view[s], task[s], doubts[s])

Current == /\ FileInv(cache, db, dbtime, now)
           /\ \A s \in Session : Each(s)

-----------------------------------------------------------------------------
LEMMA CInit == Init => Current
<1> SUFFICES ASSUME Init PROVE Current
  OBVIOUS
<1>1. FileInv(cache, db, dbtime, now)
  BY DEF Init, FileInv, Wrong, Clean
<1>2. ASSUME NEW s \in Session PROVE Each(s)
  <2>1. task[s] = Idle /\ view[s] = NoView /\ doubts[s] = {}
    BY DEF Init
  <2>2. PlanInv(Idle) /\ Idle.at = "gone"
    BY DEF PlanInv, NamesInv, Idle
  <2> QED
    BY <2>1, <2>2 DEF Each, Own, Beside, Trusted
<1> QED
  BY <1>1, <1>2 DEF Current

(* A step of one session that leaves the database alone, and the cache no  *)
(* worse than it was.                                                      *)
LEMMA OneActs ==
    ASSUME IInv, Current, NEW s \in Session, UNCHANGED <<db, dbtime>>,
           now' \in Nat, now <= now',
           \A q \in Session \ {s} : /\ task'[q] = task[q] /\ view'[q] = view[q]
                                    /\ touched'[q] = touched[q] /\ doubts'[q] = doubts[q],
           FileInv(cache', db, dbtime, now'), Wrong(cache', db) => Wrong(cache, db),
           Own(view'[s], task'[s], db, touched'[s], doubts'[s], dbtime),
           Beside(cache', db, dbtime, now', view'[s], task'[s], doubts'[s])
    PROVE  Current'
<1>1. ASSUME NEW q \in Session PROVE Each(q)'
  <2>1. CASE q = s
    BY <2>1 DEF Each
  <2>2. CASE q # s
    <3>1. /\ Own(view[q], task[q], db, touched[q], doubts[q], dbtime)
          /\ Beside(cache, db, dbtime, now, view[q], task[q], doubts[q])
          /\ task[q].time \in Nat /\ now \in Nat
      BY DEF Current, Each, IInv, TypeOK, Task
    <3>2. Beside(cache', db, dbtime, now', view[q], task[q], doubts[q])
      BY <3>1 DEF Beside
    <3> QED
      BY <2>2, <3>1, <3>2 DEF Each
  <2> QED
    BY <2>1, <2>2
<1> QED
  BY <1>1 DEF Current

(* One that changes nothing but what it is doing.                          *)
LEMMA OnlyDoes ==
    ASSUME IInv, Current, NEW s \in Session, NEW t, task' = [task EXCEPT ![s] = t],
           UNCHANGED <<now, db, dbtime, cache, view, touched, doubts>>,
           Own(view[s], t, db, touched[s], doubts[s], dbtime),
           Beside(cache, db, dbtime, now, view[s], t, doubts[s])
    PROVE  Current'
<1>1. task'[s] = t /\ \A q \in Session \ {s} : task'[q] = task[q]
  BY DEF IInv, TypeOK
<1>2. FileInv(cache, db, dbtime, now) /\ now \in Nat
  BY DEF Current, IInv, TypeOK
<1> QED
  BY <1>1, <1>2, OneActs

(* A change of the database makes every other view doubtful.               *)
LEMMA OthersDoubt ==
    ASSUME IInv, Current, NEW w, NEW new \in SUBSET Pkg, NEW D, Changes(w, new, D),
           NEW q \in Session, q # w, UNCHANGED cache,
           task'[q] = task[q], view'[q] = view[q], touched'[q] = touched[q]
    PROVE  Each(q)'
<1>1. CASE new = db
  BY <1>1 DEF Changes, Each, Current
<1>2. CASE new # db
  <2>1. /\ Own(view[q], task[q], db, touched[q], doubts[q], dbtime)
        /\ Beside(cache, db, dbtime, now, view[q], task[q], doubts[q])
        /\ task[q] \in Task /\ now \in Nat /\ touched[q] \in 0..now
        /\ ViewInv(view[q], now, ever) /\ view[q] \in View \union {NoView}
        /\ TaskInv(task[q], view[q], cache, now, ever)
    BY DEF Current, Each, IInv, TypeOK
  <2>2. /\ db' = new /\ now' = now + 1 /\ dbtime' = now + 1
        /\ doubts'[q] = ChangedBehind(doubts[q], q)
    BY <1>2 DEF Changes
  <2>3. Own(view[q], task[q], new, touched[q], doubts'[q], now + 1)
    <3>1. view[q] # NoView => ~Trusted(view[q], touched[q], doubts'[q], now + 1)
      BY <2>1, <2>2 DEF Trusted, ChangedBehind
    <3>2. task[q].at \in {"create", "close"} => "late" \in doubts'[q]
      BY <2>2 DEF ChangedBehind, At_
    <3>3. view[q] # NoView => doubts'[q] # {}
      BY <2>2 DEF ChangedBehind
    <3> QED
      BY <2>1, <3>1, <3>2, <3>3 DEF Own, Trusted
  <2>4. Beside(cache, new, now + 1, now + 1, view[q], task[q], doubts'[q])
    <3>1. task[q].at = "cache" => "changed" \in doubts'[q]
      BY <2>2 DEF ChangedBehind, At_
    <3>2. task[q].time \in Nat /\ (view[q] # NoView => view[q].ts \in Nat)
      BY <2>1 DEF Task, View
    <3>3. task[q].at \in {"close", "mtime"} => view[q].ts < now + 1
      BY <2>1, <3>2 DEF TaskInv, ViewInv
    <3>4. task[q].at = "utime" => task[q].time < now + 1
      BY <2>1, <3>2 DEF Beside
    <3> QED
      BY <2>1, <3>1, <3>2, <3>3, <3>4 DEF Beside
  <2> QED
    BY <2>2, <2>3, <2>4 DEF Each
<1> QED
  BY <1>1, <1>2

(* And the file looks older than the database.                             *)
LEMMA FileAges ==
    ASSUME IInv, Current, NEW w, NEW new \in SUBSET Pkg, NEW D, Changes(w, new, D),
           UNCHANGED cache
    PROVE  FileInv(cache, db, dbtime, now)'
<1>1. /\ FileInv(cache, db, dbtime, now) /\ CacheInv /\ now \in Nat
      /\ cache \in File \union {NoFile}
  BY DEF Current, IInv, TypeOK
<1>2. cache # NoFile => cache.mtime \in Nat /\ cache.ts \in Nat
  BY <1>1 DEF File
<1>3. CASE new = db
  BY <1>1, <1>3 DEF Changes
<1>4. CASE new # db
  BY <1>1, <1>2, <1>4 DEF Changes, FileInv, CacheInv, Wrong, Clean
<1> QED
  BY <1>3, <1>4

(* rpm runs for a session, which goes on to the task t.                    *)
LEMMA RpmActs ==
    ASSUME IInv, Current, NEW s \in Session, NEW new \in SUBSET Pkg,
           NEW D \in {{}, {"instances"}}, Changes(s, new, D), NEW t,
           task' = [task EXCEPT ![s] = t], UNCHANGED <<cache, view, touched>>,
           PlanInv(t), t.at \in {"plan", "erase", "verify", "apply"},
           (/\ Trusted(view[s], touched[s], doubts[s], dbtime)
            /\ D = {}
            /\ new = db \/ doubts[s] = {}) => Agrees(view[s], t, new)
    PROVE  Current'
<1>1. task'[s] = t /\ \A q \in Session \ {s} : task'[q] = task[q]
  BY DEF IInv, TypeOK
<1>2. \A q \in Session \ {s} : Each(q)'
  BY <1>1, OthersDoubt
<1>3. /\ now \in Nat /\ touched[s] \in 0..now /\ db' = new
      /\ doubts'[s] = doubts[s] \union D
      /\ new # db => dbtime' = now + 1
      /\ new = db => dbtime' = dbtime
  BY DEF IInv, TypeOK, Changes
<1>4. Trusted(view[s], touched[s], doubts'[s], dbtime') => Agrees(view[s], t, new)
  BY <1>3 DEF Trusted
<1>5. Own(view[s], t, new, touched[s], doubts'[s], dbtime')
  BY <1>4 DEF Own
<1>6. Beside(cache, new, dbtime', now', view[s], t, doubts'[s])
  BY DEF Beside
<1>7. Each(s)'
  BY <1>1, <1>3, <1>5, <1>6 DEF Each
<1> QED
  BY <1>2, <1>7, FileAges DEF Current

(* The programs that run beside the sessions, and the clock.               *)
LEMMA WorldActs ==
    ASSUME IInv, Current, OutsideChange \/ Tick
    PROVE  Current'
<1>1. CASE OutsideChange
  <2>1. PICK p \in Pkg : Changes(NoSession, IF p \in db THEN db \ {p} ELSE db \union {p}, {})
    BY <1>1 DEF OutsideChange
  <2>2. (IF p \in db THEN db \ {p} ELSE db \union {p}) \in SUBSET Pkg
    BY DEF IInv, TypeOK
  <2>3. NoSession \notin Session
    BY NoneAssumption
  <2> QED
    BY <1>1, <2>1, <2>2, <2>3, OthersDoubt, FileAges DEF OutsideChange, Current
<1>2. CASE Tick
  <2>1. /\ now \in Nat /\ now' = now + 1
        /\ UNCHANGED <<db, dbtime, cache, view, touched, task, doubts>>
    BY <1>2 DEF Tick, IInv, TypeOK
  <2>2. FileInv(cache, db, dbtime, now')
    <3>1. cache # NoFile => cache.mtime \in Nat
      BY DEF IInv, TypeOK, File
    <3> QED
      BY <2>1, <3>1 DEF Current, FileInv
  <2>3. ASSUME NEW s \in Session PROVE Each(s)'
    <3>1. task[s].time \in Nat
      BY DEF IInv, TypeOK, Task
    <3> QED
      BY <2>1, <3>1 DEF Current, Each, Beside
  <2> QED
    BY <2>1, <2>2, <2>3 DEF Current
<1> QED
  BY <1>1, <1>2

-----------------------------------------------------------------------------
(* A session at the prompt has nothing to note.                            *)
LEMMA PromptTask ==
    ASSUME NEW v, NEW d, NEW to, NEW D, NEW dt, NEW a \in {"prompt", "save", "resolve", "load"},
           NEW t, t.at = a, t.installed = {}, t.removed = {},
           a = "resolve" => t.cmd = "uninstall", Trusted(v, to, D, dt) => v.pkgs = d
    PROVE  Own(v, t, d, to, D, dt) /\ \A c, n : Beside(c, d, dt, n, v, t, D)
BY DEF Own, Beside, PlanInv, NamesInv, Agrees, Applied

(* What users type, and the signal.                                        *)
LEMMA TypesActs ==
    ASSUME IInv, Current, NEW s \in Session, Types_(s) \/ Interrupt(s)
    PROVE  Current'
<1>0. task[s] \in Task /\ Each(s)
  BY DEF IInv, TypeOK, Current
<1>1. At_(s, "prompt") \/ At_(s, "gone")
        => task[s].installed = {} /\ task[s].removed = {}
           /\ (Trusted(view[s], touched[s], doubts[s], dbtime) => view[s].pkgs = db)
  BY <1>0 DEF At_, Each, Own, PlanInv, Agrees, Applied
<1>2. ASSUME At_(s, "prompt") \/ At_(s, "gone"),
             UNCHANGED <<now, db, dbtime, cache, view, touched, doubts>>
      PROVE  \A t : /\ t.at \in {"prompt", "save", "load"}
                    /\ t.installed = {} /\ t.removed = {}
                    /\ task' = [task EXCEPT ![s] = t]
                    => Current'
  BY <1>1, <1>2, PromptTask, OnlyDoes
<1>3. Idle.installed = {} /\ Idle.removed = {}
  BY DEF Idle
<1>4. CASE Start(s)
  <2> DEFINE t == [Idle EXCEPT !.at = "prompt"]
  <2>1. t.at \in {"prompt", "save", "load"} /\ t.installed = {} /\ t.removed = {}
    BY DEF Idle
  <2>2. /\ task' = [task EXCEPT ![s] = t] /\ (At_(s, "prompt") \/ At_(s, "gone"))
        /\ UNCHANGED <<now, db, dbtime, cache, view, touched, doubts>>
    BY <1>4 DEF Start, Prompt
  <2> HIDE DEF t
  <2> QED
    BY <1>2, <2>1, <2>2
<1>5. ASSUME NEW c, NEW ps, NEW one, Types(s, c, "load", ps, one)
      PROVE  Current'
  <2> DEFINE t == [Idle EXCEPT !.at = "load", !.cmd = c, !.left = ps, !.particle = one]
  <2>1. t.at \in {"prompt", "save", "load"} /\ t.installed = {} /\ t.removed = {}
    BY DEF Idle
  <2>2. /\ task' = [task EXCEPT ![s] = t] /\ (At_(s, "prompt") \/ At_(s, "gone"))
        /\ UNCHANGED <<now, db, dbtime, cache, view, touched, doubts>>
    BY <1>5 DEF Types
  <2> HIDE DEF t
  <2> QED
    BY <1>2, <2>1, <2>2
<1>6. CASE Ls(s) \/ Reload(s) \/ Uninstall(s)
  BY <1>5, <1>6 DEF Ls, Reload, Uninstall
<1>7. CASE Install(s)
  <2>1. PICK c \in {"install", "upgrade"}, p \in Pkg, q \in Pkg, one \in BOOLEAN :
             /\ IF p = q THEN ~one ELSE p.name # q.name
             /\ Types(s, c, "mark", {p, q}, one)
    BY <1>7 DEF Install
  <2> DEFINE t == [Idle EXCEPT !.at = "mark", !.cmd = c, !.left = {p, q}, !.particle = one]
  <2>2. /\ t.at = "mark" /\ t.installed = {} /\ t.removed = {} /\ t.left = {p, q}
        /\ t.cmd = c
    BY DEF Idle
  <2>3. task' = [task EXCEPT ![s] = t] /\ At_(s, "prompt")
        /\ UNCHANGED <<now, db, dbtime, cache, view, touched, doubts>>
    BY <2>1 DEF Types
  <2> HIDE DEF t
  <2>4. PlanInv(t)
    BY <2>1, <2>2 DEF PlanInv, NamesInv, OneOfAName, Apart
  <2>5. Own(view[s], t, db, touched[s], doubts[s], dbtime)
    BY <1>1, <2>2, <2>3, <2>4 DEF Own, Agrees, Applied
  <2>6. Beside(cache, db, dbtime, now, view[s], t, doubts[s])
    BY <2>2 DEF Beside
  <2> QED
    BY <2>3, <2>5, <2>6, OnlyDoes
<1>8. CASE Quit(s)
  <2> DEFINE t == [Idle EXCEPT !.at = "save"]
  <2>1. t.at \in {"prompt", "save", "load"} /\ t.installed = {} /\ t.removed = {}
    BY DEF Idle
  <2>2. /\ task' = [task EXCEPT ![s] = t] /\ (At_(s, "prompt") \/ At_(s, "gone"))
        /\ UNCHANGED <<now, db, dbtime, cache, view, touched, doubts>>
    BY <1>8 DEF Quit
  <2> HIDE DEF t
  <2> QED
    BY <1>2, <2>1, <2>2
<1>9. CASE Interrupt(s)
  <2> DEFINE t == [task[s] EXCEPT !.interrupted = TRUE]
  <2>1. task' = [task EXCEPT ![s] = t]
    BY <1>0, <1>9 DEF Task, Interrupt
  <2>2. /\ t.at = task[s].at /\ t.cmd = task[s].cmd /\ t.left = task[s].left
        /\ t.in = task[s].in /\ t.un = task[s].un /\ t.keep = task[s].keep
        /\ t.installed = task[s].installed /\ t.removed = task[s].removed
        /\ t.time = task[s].time
    BY <1>0 DEF Task
  <2> HIDE DEF t
  <2>3. NamesInv(t) /\ PlanInv(t)
    BY <1>0, <2>2 DEF Each, Own, PlanInv, NamesInv
  <2>4. Agrees(view[s], task[s], db) => Agrees(view[s], t, db)
    BY <2>2 DEF Agrees, Applied
  <2>5. Own(view[s], t, db, touched[s], doubts[s], dbtime)
    BY <1>0, <2>2, <2>3, <2>4 DEF Each, Own
  <2>6. Beside(cache, db, dbtime, now, view[s], t, doubts[s])
    BY <1>0, <2>2 DEF Each, Beside
  <2> QED
    BY <1>9, <2>1, <2>5, <2>6, OnlyDoes DEF Interrupt
<1> QED
  BY <1>4, <1>6, <1>7, <1>8, <1>9 DEF Types_
-----------------------------------------------------------------------------
(* A load that ends.                                                       *)
LEMMA LoadedActs ==
    ASSUME IInv, Current, NEW s \in Session, NEW v, NEW stamp, NEW D, Loaded(s, v, stamp, D),
           task[s].at \in {"cache", "stamp", "read"},
           Trusted(v, stamp, D, dbtime) => v.pkgs = db,
           v # NoView /\ D = {} => v.pkgs = db
    PROVE  Current'
<1>0. /\ task[s] \in Task /\ Each(s) /\ now \in Nat
      /\ task \in [Session -> Task] /\ s \in DOMAIN view /\ s \in DOMAIN touched
      /\ s \in DOMAIN doubts
  BY DEF IInv, TypeOK, Current
<1>1. /\ view'[s] = v
      /\ touched'[s] = (IF task[s].cmd = "reload" THEN now ELSE stamp)
      /\ doubts'[s] = (IF task[s].cmd = "reload" THEN Touching(D) ELSE D)
      /\ \A q \in Session \ {s} : /\ view'[q] = view[q] /\ touched'[q] = touched[q]
                                 /\ doubts'[q] = doubts[q]
      /\ UNCHANGED <<now, db, dbtime, cache>>
  BY <1>0 DEF Loaded
<1>2. Trusted(v, touched'[s], doubts'[s], dbtime) => v.pkgs = db
  BY <1>1 DEF Trusted, Touching
<1>3. task[s].installed = {} /\ task[s].removed = {}
  BY <1>0 DEF Each, Own, PlanInv
<1>4. /\ task'[s].at \in {"prompt", "resolve"}
      /\ task'[s].installed = {} /\ task'[s].removed = {}
      /\ task'[s].at = "resolve" => task'[s].cmd = "uninstall"
      /\ \A q \in Session \ {s} : task'[q] = task[q]
  <2>1. CASE task[s].cmd = "uninstall"
    <3>1. task' = [task EXCEPT ![s].at = "resolve"]
      BY <2>1 DEF Loaded, Goto
    <3>2. task'[s] = [task[s] EXCEPT !.at = "resolve"]
      BY <1>0, <3>1
    <3>3. /\ task'[s].at = "resolve" /\ task'[s].installed = {} /\ task'[s].removed = {}
          /\ task'[s].cmd = "uninstall"
      BY <1>0, <1>3, <2>1, <3>2 DEF Task
    <3> QED
      BY <1>0, <3>1, <3>3
  <2>2. CASE task[s].cmd # "uninstall"
    <3>1. task' = [task EXCEPT ![s] = [Idle EXCEPT !.at = "prompt"]]
      BY <2>2 DEF Loaded, Prompt
    <3>2. task'[s] = [Idle EXCEPT !.at = "prompt"]
      BY <1>0, <3>1
    <3>3. task'[s].at = "prompt" /\ task'[s].installed = {} /\ task'[s].removed = {}
      BY <3>2 DEF Idle
    <3> QED
      BY <1>0, <3>1, <3>3
  <2> QED
    BY <2>1, <2>2
<1>5. /\ Own(v, task'[s], db, touched'[s], doubts'[s], dbtime)
      /\ Beside(cache, db, dbtime, now, v, task'[s], doubts'[s])
  BY <1>2, <1>4, PromptTask
<1>6. FileInv(cache, db, dbtime, now)
  BY DEF Current
<1> QED
  BY <1>0, <1>1, <1>4, <1>5, <1>6, OneActs

(* A step that takes the session to where nothing is noted.                *)
LEMMA GoesOn ==
    ASSUME IInv, Current, NEW s \in Session, NEW a \in {"resolve", "cache", "stamp", "read"},
           NEW t, task' = [task EXCEPT ![s] = t], t.at = a,
           t.installed = task[s].installed, t.removed = task[s].removed,
           task[s].at \in {"load", "cache", "stamp"}, a = "cache" => ~Wrong(cache, db),
           a = "resolve" => t.cmd = "uninstall",
           UNCHANGED <<now, db, dbtime, cache, view, touched, doubts>>
    PROVE  Current'
<1>1. Each(s)
  BY DEF Current
<1>2. /\ t.installed = {} /\ t.removed = {}
      /\ Trusted(view[s], touched[s], doubts[s], dbtime) => view[s].pkgs = db
  BY <1>1 DEF Each, Own, PlanInv, Agrees, Applied
<1>3. Own(view[s], t, db, touched[s], doubts[s], dbtime)
  BY <1>2 DEF Own, PlanInv, NamesInv, Agrees, Applied
<1>4. Beside(cache, db, dbtime, now, view[s], t, doubts[s])
  BY DEF Beside
<1> QED
  BY <1>3, <1>4, OnlyDoes

(* A step after which the session is at the prompt, its view as it was.    *)
LEMMA Prompts ==
    ASSUME IInv, Current, NEW s \in Session, Prompt(s),
           Trusted(view[s], touched[s], doubts[s], dbtime) => view[s].pkgs = db,
           UNCHANGED <<now, db, dbtime, cache, view, touched, doubts>>
    PROVE  Current'
<1>1. \E t : /\ t.at = "prompt" /\ t.installed = {} /\ t.removed = {}
             /\ task' = [task EXCEPT ![s] = t]
  <2> DEFINE t == [Idle EXCEPT !.at = "prompt"]
  <2>1. t.at = "prompt" /\ t.installed = {} /\ t.removed = {} /\ task' = [task EXCEPT ![s] = t]
    BY DEF Idle, Prompt
  <2> HIDE DEF t
  <2> QED
    BY <2>1
<1> QED
  BY <1>1, PromptTask, OnlyDoes

(* The loading of the installed packages.                                  *)
LEMMA LoadingActs ==
    ASSUME IInv, Current, NEW s \in Session, Loading(s)
    PROVE  Current'
<1>0. /\ task[s] \in Task /\ Each(s) /\ FileInv(cache, db, dbtime, now) /\ CacheInv
      /\ now \in Nat /\ dbtime \in 1..now /\ cache \in File \union {NoFile}
  BY DEF IInv, TypeOK, Current
<1>1. task[s].at \in {"load", "cache", "stamp", "read"}
        => (Trusted(view[s], touched[s], doubts[s], dbtime) => view[s].pkgs = db)
  BY <1>0 DEF Each, Own, PlanInv, Agrees, Applied
<1> DEFINE goes(a) == [task[s] EXCEPT !.at = a]
<1>2. \A a : /\ goes(a).at = a /\ goes(a).installed = task[s].installed
             /\ goes(a).removed = task[s].removed /\ goes(a).cmd = task[s].cmd
  BY <1>0 DEF Task
<1>3. \A a : Goto(s, a) => task' = [task EXCEPT ![s] = goes(a)]
  BY DEF Goto
<1> HIDE DEF goes
<1>4. CASE Load(s)
  <2>1. UpToDate => ~Wrong(cache, db)
    <3>1. UpToDate => cache.mtime \in Nat /\ cache.mtime >= dbtime
      BY <1>0 DEF UpToDate, File
    <3> QED
      BY <1>0, <3>1 DEF FileInv
  <2>2. \/ Prompt(s) \/ Goto(s, "stamp")
        \/ Goto(s, "resolve") /\ task[s].cmd = "uninstall"
        \/ Goto(s, "cache") /\ UpToDate
    BY <1>4 DEF Load
  <2>3. /\ UNCHANGED <<now, db, dbtime, cache, view, touched, doubts>>
        /\ task[s].at = "load"
    BY <1>4 DEF Load, At_
  <2>4. CASE Prompt(s)
    BY <1>1, <2>3, <2>4, Prompts
  <2>5. CASE Goto(s, "stamp") \/ (Goto(s, "resolve") /\ task[s].cmd = "uninstall")
    BY <1>2, <1>3, <2>3, <2>5, GoesOn
  <2>6. CASE Goto(s, "cache") /\ UpToDate
    BY <1>2, <1>3, <2>1, <2>3, <2>6, GoesOn
  <2> QED
    BY <2>2, <2>4, <2>5, <2>6
<1>5. CASE BrokenCache(s)
  BY <1>2, <1>3, <1>5, GoesOn DEF BrokenCache, At_
<1>6. CASE Stamp(s)
  <2> DEFINE t == [task[s] EXCEPT !.at = "read", !.time = dbtime]
  <2>1. /\ t.at = "read" /\ t.installed = task[s].installed /\ t.removed = task[s].removed
        /\ task' = [task EXCEPT ![s] = t]
    BY <1>0, <1>6 DEF Task, Stamp
  <2> HIDE DEF t
  <2> QED
    BY <1>6, <2>1, GoesOn DEF Stamp, At_
<1>7. CASE OpenCache(s)
  <2> DEFINE v == [type |-> "rpmdbcache", ts |-> cache.ts, pkgs |-> cache.pkgs]
             D == doubts[s] \union cache.doubts
  <2>1. /\ Loaded(s, v, cache.ts, D) /\ task[s].at = "cache"
        /\ cache # NoFile /\ cache.writer = NoSession
    BY <1>7 DEF OpenCache, At_, Readable
  <2>2. v.pkgs = cache.pkgs /\ "changed" \notin cache.doubts /\ cache.ts \in Nat
    BY <1>0, <2>1 DEF FileInv, File
  <2>3. D = {} => v.pkgs = db
    BY <1>0, <2>1, <2>2 DEF Each, Beside, Wrong, Clean
  <2>4. D \subseteq {"changed"} /\ dbtime <= cache.ts => v.pkgs = db
    BY <1>0, <2>1, <2>2 DEF FileInv, Wrong, Clean
  <2> HIDE DEF v, D
  <2>5. Trusted(v, cache.ts, D, dbtime) => v.pkgs = db
    BY <2>3, <2>4 DEF Trusted
  <2> QED
    BY <2>1, <2>3, <2>5, LoadedActs
<1>8. CASE OpenFails(s)
  BY <1>1, <1>8, LoadedActs DEF OpenFails, At_, Trusted
<1>9. CASE ReadDb(s)
  <2> DEFINE v(ps) == [type |-> "rpmdb", ts |-> task[s].time, pkgs |-> ps]
  <2>1. CASE task[s].interrupted
    <3>1. Loaded(s, v({}), task[s].time, {"interrupted"}) /\ task[s].at = "read"
      BY <1>9, <2>1 DEF ReadDb, At_
    <3> HIDE DEF v
    <3> QED
      BY <3>1, LoadedActs DEF Trusted
  <2>2. CASE ~task[s].interrupted
    <3>1. Loaded(s, v(db), task[s].time, {}) /\ task[s].at = "read" /\ v(db).pkgs = db
      BY <1>9, <2>2 DEF ReadDb, At_
    <3> HIDE DEF v
    <3> QED
      BY <3>1, LoadedActs DEF Trusted
  <2> QED
    BY <2>1, <2>2
<1> QED
  BY <1>4, <1>5, <1>6, <1>7, <1>8, <1>9 DEF Loading

-----------------------------------------------------------------------------
(* What is noted of a transaction, for a view that was v.                  *)
LEMMA ManyOfOne ==
    ASSUME NEW ps, NEW d \in SUBSET Pkg, ~ManyOf(ps, d), NEW p \in ps,
           NEW q \in d, NEW r \in d, q.name = p.name, r.name = p.name
    PROVE  q = r
<1>1. IsFiniteSet(d)
  BY PackageAssumption, FS_Subset
<1> DEFINE S == Of(d, p)
<1>2. S \subseteq d /\ q \in S /\ r \in S
  BY DEF Of
<1>3. IsFiniteSet(S) /\ Cardinality(S) \in Nat /\ ~(Cardinality(S) > 1)
  BY <1>1, <1>2, FS_Subset, FS_CardinalityType DEF ManyOf
<1>4. Cardinality(S) # 0
  BY <1>2, <1>3, FS_EmptySet
<1>5. PICK x : S = {x}
  BY <1>3, <1>4, FS_Singleton
<1> QED
  BY <1>2, <1>5

(* Once it has failed, what is installed of what was planned is all there  *)
(* is of its name.                                                         *)
LEMMA InstalledIsThere ==
    ASSUME db \in SUBSET Pkg, NEW ps, ~ManyOf(ps, db), NEW p \in ps
    PROVE  IsInstalled(p) <=> p \in db
<1> SUFFICES ASSUME p \in db, NEW q \in db, q.name = p.name
             PROVE  q.ver <= p.ver
  BY DEF IsInstalled, Newest, Instances, Of
<1>1. q = p
  BY ManyOfOne
<1> QED
  BY <1>1, PackageAssumption

LEMMA NotedAfterFailure ==
    ASSUME NEW A, NEW pkgs, NEW installed, NEW removed, NEW in, NEW un, NEW d,
           A = (pkgs \ removed) \union installed,
           NEW i \in SUBSET in, NEW u \in SUBSET un, d = (A \union i) \ u,
           installed \intersect un = {}
    PROVE  d = (pkgs \ (removed \union (un \ d))) \union (installed \union (in \intersect d))
OBVIOUS

(* An upgrade of packages of which there is one instance each removes what *)
(* is planned.                                                             *)
LEMMA SameAreRemoved ==
    ASSUME NEW d \in SUBSET Pkg, NEW in, NEW un, ~ManyOf(in, d),
           \A q \in un : \E p \in in : IsOlder(q, p),
           \A p \in in : \A q \in d : q.name = p.name => q.ver < p.ver,
           \A p \in in : (\E q \in d : IsOlder(q, p)) => \E q \in un \intersect d : IsOlder(q, p)
    PROVE  Same(in, d) = un \intersect d
<1>1. ASSUME NEW q \in d, NEW p \in in, p.name = q.name
      PROVE  q \in un
  <2>1. PICK r \in un \intersect d : IsOlder(r, p)
    BY <1>1 DEF IsOlder
  <2> QED
    BY <1>1, <2>1, ManyOfOne DEF IsOlder
<1> QED
  BY <1>1 DEF Same, IsOlder

-----------------------------------------------------------------------------
(* What is to be installed and removed, and the answers of the user.       *)
LEMMA DecidingActs ==
    ASSUME IInv, Current, NEW s \in Session,
           \/ Resolve(s) \/ Mark(s) \/ Plan(s) \/ NothingLeft(s) \/ Confirmed(s)
           \/ Declined(s)
    PROVE  Current'
<1>0. /\ task[s] \in Task /\ TaskInv(task[s], view[s], cache, now, ever) /\ Each(s)
      /\ Own(view[s], task[s], db, touched[s], doubts[s], dbtime) /\ PlanInv(task[s])
      /\ NamesInv(task[s])
  BY DEF IInv, TypeOK, Current, Each, Own, PlanInv
<1>1. UNCHANGED <<now, db, dbtime, cache, view, touched, doubts>>
  BY DEF Resolve, Mark, Plan, NothingLeft, Confirmed, Declined
<1>2. \A t : /\ t.at \in {"confirm", "rpm", "plan", "apply"} /\ PlanInv(t)
             /\ task' = [task EXCEPT ![s] = t]
             /\ t.installed = task[s].installed /\ t.removed = task[s].removed
             /\ task[s].at \notin {"verify", "erase"}
             /\ t.at \in {"confirm", "rpm"} /\ t.cmd = "upgrade" /\ doubts[s] = {}
                /\ view[s] # NoView
                => \A p \in t.in : (\E q \in db : IsOlder(q, p))
                                      => \E q \in t.un \intersect db : IsOlder(q, p)
             => Current'
  <2> TAKE t
  <2> HAVE /\ t.at \in {"confirm", "rpm", "plan", "apply"} /\ PlanInv(t)
           /\ task' = [task EXCEPT ![s] = t]
           /\ t.installed = task[s].installed /\ t.removed = task[s].removed
           /\ task[s].at \notin {"verify", "erase"}
           /\ t.at \in {"confirm", "rpm"} /\ t.cmd = "upgrade" /\ doubts[s] = {}
              /\ view[s] # NoView
              => \A p \in t.in : (\E q \in db : IsOlder(q, p))
                                    => \E q \in t.un \intersect db : IsOlder(q, p)
  <2>1. Agrees(view[s], task[s], db) => Agrees(view[s], t, db)
    BY DEF Agrees, Applied
  <2>2. Own(view[s], t, db, touched[s], doubts[s], dbtime)
    BY <1>0, <2>1 DEF Own
  <2>3. Beside(cache, db, dbtime, now, view[s], t, doubts[s])
    BY DEF Beside
  <2> QED
    BY <1>1, <2>2, <2>3, OnlyDoes
<1> DEFINE goes(a) == [task[s] EXCEPT !.at = a]
<1>3. \A a : /\ goes(a).at = a /\ goes(a).installed = task[s].installed
             /\ goes(a).removed = task[s].removed /\ goes(a).cmd = task[s].cmd
             /\ goes(a).left = task[s].left /\ goes(a).in = task[s].in
             /\ goes(a).un = task[s].un /\ goes(a).keep = task[s].keep
             /\ (Goto(s, a) => task' = [task EXCEPT ![s] = goes(a)])
  BY <1>0 DEF Task, Goto
<1> HIDE DEF goes
<1>4. CASE Resolve(s)
  <2>0. /\ task[s].at = "resolve" /\ task[s].cmd = "uninstall"
        /\ task[s].installed = {} /\ task[s].removed = {}
    BY <1>0, <1>4 DEF Resolve, At_, PlanInv
  <2>1. CASE Prompt(s)
    BY <1>0, <1>1, <2>0, <2>1, Prompts DEF Own, Agrees, Applied
  <2>2. CASE ~Prompt(s)
    <3>1. PICK ps : task' = [task EXCEPT ![s] = [@ EXCEPT !.at = "confirm", !.left = {},
                                                          !.un = task[s].left \union ps]]
      BY <1>4, <2>2 DEF Resolve
    <3> DEFINE t == [task[s] EXCEPT !.at = "confirm", !.left = {}, !.un = task[s].left \union ps]
    <3>2. /\ t.at = "confirm" /\ t.cmd = "uninstall" /\ t.installed = {} /\ t.removed = {}
          /\ task' = [task EXCEPT ![s] = t]
      BY <1>0, <2>0, <3>1 DEF Task
    <3> HIDE DEF t
    <3>3. PlanInv(t)
      BY <3>2 DEF PlanInv, NamesInv
    <3> QED
      BY <1>2, <2>0, <3>2, <3>3
  <2> QED
    BY <2>1, <2>2
<1>5. CASE Mark(s)
  <2> DEFINE left == {p \in task[s].left : Installable(task[s].cmd, p)}
             t == [task[s] EXCEPT !.at = "plan", !.left = left]
  <2>1. left \subseteq task[s].left
    OBVIOUS
  <2>2. /\ task' = [task EXCEPT ![s] = t]
        /\ t.at = "plan" /\ t.cmd = task[s].cmd /\ t.left = left
        /\ t.installed = task[s].installed /\ t.removed = task[s].removed
    BY <1>0, <1>5 DEF Mark, Task
  <2> HIDE DEF t, left
  <2>3. task[s].at = "mark" /\ task[s].cmd # "uninstall"
    BY <1>0, <1>5 DEF Mark, At_, TaskInv
  <2>4. PlanInv(t)
    BY <1>0, <2>1, <2>2, <2>3 DEF PlanInv, NamesInv, OneOfAName, Apart
  <2> QED
    BY <1>2, <2>2, <2>3, <2>4
<1>6. CASE Plan(s)
  <2>1. PICK in \in IF task[s].particle THEN {{p} : p \in task[s].left} ELSE {task[s].left} :
             \E old \in [in -> SUBSET db] :
                /\ \A p \in in : old[p] \in Replaced(task[s].cmd, p)
                /\ LET un == UNION {old[p] : p \in in}
                   IN  task' = [task EXCEPT ![s] =
                                  [@ EXCEPT !.at = "confirm", !.left = task[s].left \ in,
                                            !.in = in, !.un = un,
                                            !.keep = Kept(task[s].cmd, in) \ un]]
    BY <1>6 DEF Plan
  <2>2. PICK old \in [in -> SUBSET db] :
           /\ \A p \in in : old[p] \in Replaced(task[s].cmd, p)
           /\ LET un == UNION {old[p] : p \in in}
              IN  task' = [task EXCEPT ![s] =
                             [@ EXCEPT !.at = "confirm", !.left = task[s].left \ in,
                                       !.in = in, !.un = un,
                                       !.keep = Kept(task[s].cmd, in) \ un]]
    BY <2>1
  <2> DEFINE un == UNION {old[p] : p \in in}
             keep == Kept(task[s].cmd, in) \ un
             t == [task[s] EXCEPT !.at = "confirm", !.left = @ \ in, !.in = in, !.un = un,
                                  !.keep = keep]
  <2>3. /\ in \subseteq task[s].left /\ in # {} /\ task[s].at = "plan"
        /\ task[s].cmd # "uninstall"
    <3>1. task[s].left # {} /\ task[s].at = "plan"
      BY <1>6 DEF Plan, At_
    <3> QED
      BY <1>0, <2>1, <3>1 DEF TaskInv
  <2>4. \A q \in un : \E p \in in : IsOlder(q, p)
    <3>1. ASSUME NEW p \in in, NEW q \in old[p] PROVE IsOlder(q, p)
      BY <2>2 DEF Replaced, Older, Instances, Of, IsOlder
    <3> QED
      BY <3>1
  <2>5. task[s].cmd = "install" => un = {} /\ keep = {}
    BY <2>2 DEF Replaced, Kept
  <2>6. task[s].cmd = "upgrade" =>
          \A p \in in : (\E q \in db : IsOlder(q, p)) => \E q \in un \intersect db : IsOlder(q, p)
    <3> SUFFICES ASSUME task[s].cmd = "upgrade", NEW p \in in, NEW q \in db, IsOlder(q, p)
                 PROVE  \E r \in un \intersect db : IsOlder(r, p)
      OBVIOUS
    <3>1. Older(p) # {}
      BY DEF Older, Instances, Of, IsOlder
    <3>2. PICK r \in Older(p) : old[p] = {r}
      BY <2>2, <3>1 DEF Replaced
    <3>3. r \in un /\ r \in db /\ IsOlder(r, p)
      BY <3>2 DEF Older, Instances, Of, IsOlder
    <3> QED
      BY <3>3
  <2>7. /\ task' = [task EXCEPT ![s] = t]
        /\ t.at = "confirm" /\ t.cmd = task[s].cmd /\ t.left = task[s].left \ in
        /\ t.in = in /\ t.un = un /\ t.keep = keep
        /\ t.installed = task[s].installed /\ t.removed = task[s].removed
    BY <1>0, <2>2 DEF Task
  <2> HIDE DEF t, un, keep
  <2>8. NamesInv(t)
    BY <1>0, <2>3, <2>4, <2>5, <2>7 DEF NamesInv, OneOfAName, Apart
  <2>9. PlanInv(t)
    BY <2>3, <2>7, <2>8 DEF PlanInv
  <2> QED
    BY <1>2, <2>3, <2>6, <2>7, <2>9
<1>7. CASE NothingLeft(s)
  <2>1. task[s].at = "plan" /\ Goto(s, "apply")
    BY <1>7 DEF NothingLeft, At_
  <2>2. PlanInv(goes("apply"))
    BY <1>0, <1>3 DEF PlanInv, NamesInv
  <2> QED
    BY <1>2, <1>3, <2>1, <2>2
<1>8. CASE Confirmed(s)
  <2>1. task[s].at = "confirm" /\ Goto(s, "rpm")
    BY <1>8 DEF Confirmed, At_
  <2>2. PlanInv(goes("rpm"))
    BY <1>0, <1>3, <2>1 DEF PlanInv, NamesInv
  <2> QED
    BY <1>0, <1>2, <1>3, <2>1, <2>2 DEF Own
<1>9. CASE Declined(s)
  <2>1. /\ task[s].at = "confirm"
        /\ \/ task[s].cmd = "uninstall" /\ Goto(s, "apply")
           \/ task[s].cmd # "uninstall" /\ Goto(s, "plan")
    BY <1>9 DEF Declined, At_
  <2>2. /\ PlanInv(goes("apply"))
        /\ task[s].cmd # "uninstall" => PlanInv(goes("plan"))
    BY <1>0, <1>3, <2>1 DEF PlanInv, NamesInv
  <2> QED
    BY <1>2, <1>3, <2>1, <2>2
<1> QED
  BY <1>4, <1>5, <1>6, <1>7, <1>8, <1>9

-----------------------------------------------------------------------------
(* What rpm does, and what poldek notes of it.                             *)
LEMMA RpmRuns ==
    ASSUME IInv, Current, NEW s \in Session,
           \/ RpmInstalls(s) \/ RpmFails(s) \/ OldErased(s) \/ OldNotErased(s)
           \/ RpmErases(s) \/ EraseFails(s)
    PROVE  Current'
<1> DEFINE tk == task[s]
           v == view[s]
           goes(a) == [tk EXCEPT !.at = a]
           noted(a) == [Noted(tk) EXCEPT !.at = a]
           sure == Trusted(v, touched[s], doubts[s], dbtime)
<1>0. /\ tk \in Task /\ TaskInv(tk, v, cache, now, ever)
      /\ Own(v, tk, db, touched[s], doubts[s], dbtime) /\ PlanInv(tk) /\ NamesInv(tk)
      /\ db \in SUBSET Pkg /\ tk.in \in SUBSET Pkg /\ tk.un \in SUBSET Pkg
  BY DEF IInv, TypeOK, Current, Each, Own, PlanInv, Task
<1>1. \A a : /\ goes(a).at = a /\ goes(a).installed = tk.installed
             /\ goes(a).removed = tk.removed /\ goes(a).cmd = tk.cmd
             /\ goes(a).left = tk.left /\ goes(a).in = tk.in
             /\ goes(a).un = tk.un /\ goes(a).keep = tk.keep
             /\ (Goto(s, a) => task' = [task EXCEPT ![s] = goes(a)])
             /\ noted(a).at = a /\ noted(a).cmd = tk.cmd /\ noted(a).left = tk.left
             /\ noted(a).installed = tk.installed \union tk.in
             /\ noted(a).removed = tk.removed \union tk.un
  BY <1>0 DEF Task, Goto, Noted
<1>2. sure => Agrees(v, tk, db)
  BY <1>0 DEF Own
<1>3. ASSUME tk.at \in {"rpm", "erase"}
      PROVE  /\ tk.cmd # "uninstall" => PlanInv(noted("plan")) /\ PlanInv(goes("erase"))
             /\ PlanInv(goes("verify"))
             /\ tk.cmd = "uninstall" => PlanInv(noted("apply"))
             /\ tk.cmd # "uninstall" =>
                  /\ tk.cmd \in {"install", "upgrade"} /\ tk.in # {} /\ OneOfAName(tk.in)
                  /\ Apart(tk.installed, tk.in)
                  /\ tk.cmd = "install" => tk.un = {} /\ tk.keep = {}
                  /\ \A q \in tk.un : \E p \in tk.in : IsOlder(q, p)
             /\ tk.cmd = "uninstall" => tk.installed = {} /\ tk.in = {}
  <2> HIDE DEF goes, noted, tk, v, sure
  <2>1. tk.cmd # "uninstall" => NamesInv(noted("plan")) /\ NamesInv(goes("erase"))
    BY <1>0, <1>1, <1>3 DEF NamesInv, OneOfAName, Apart
  <2>2. NamesInv(goes("verify")) /\ NamesInv(noted("apply"))
    BY <1>0, <1>1, <1>3 DEF NamesInv
  <2>3. tk.cmd = "uninstall" => tk.installed = {} /\ tk.in = {}
    BY <1>0 DEF PlanInv, TaskInv
  <2> QED
    BY <1>0, <1>1, <1>3, <2>1, <2>2, <2>3 DEF PlanInv, NamesInv
<1>a. \A new \in SUBSET Pkg, D \in {{}, {"instances"}} : \A t :
         /\ Changes(s, new, D) /\ task' = [task EXCEPT ![s] = t]
         /\ UNCHANGED <<cache, view, touched>>
         /\ PlanInv(t) /\ t.at \in {"plan", "erase", "verify", "apply"}
         /\ sure /\ D = {} /\ (new = db \/ doubts[s] = {}) => Agrees(v, t, new)
         => Current'
  <2> TAKE new \in SUBSET Pkg, D \in {{}, {"instances"}}
  <2> TAKE t
  <2> HAVE /\ Changes(s, new, D) /\ task' = [task EXCEPT ![s] = t]
           /\ UNCHANGED <<cache, view, touched>>
           /\ PlanInv(t) /\ t.at \in {"plan", "erase", "verify", "apply"}
           /\ sure /\ D = {} /\ (new = db \/ doubts[s] = {}) => Agrees(v, t, new)
  <2> QED
    BY RpmActs
<1> HIDE DEF goes, noted, sure
<1>4. CASE RpmInstalls(s)
  <2> DEFINE D == IF Upgrades(tk) /\ ManyOf(tk.in, db) THEN {"instances"} ELSE {}
             new == After(tk)
  <2>1. /\ tk.at = "rpm" /\ tk.cmd # "uninstall" /\ Accepts(tk) /\ Changes(s, new, D)
        /\ task' = [task EXCEPT ![s] = IF OneOfSeveral(tk) THEN goes("erase") ELSE noted("plan")]
        /\ UNCHANGED <<cache, view, touched>>
    BY <1>4 DEF RpmInstalls, At_, goes, noted
  <2>2. new \in SUBSET Pkg /\ D \in {{}, {"instances"}} /\ D \in SUBSET Doubt
    BY <1>0 DEF After, Doubt
  <2>3. sure => db = Applied(v, tk)
    BY <1>2, <2>1 DEF Agrees
  <2>4. CASE OneOfSeveral(tk)
    <3>1. new = db \union tk.in
      BY <2>4 DEF After, Upgrades
    <3>2. sure => Agrees(v, goes("erase"), new)
      BY <1>1, <2>3, <3>1 DEF Agrees, Applied
    <3> HIDE DEF new, D, tk, v
    <3> QED
      BY <1>1, <1>3, <1>a, <2>1, <2>2, <2>4, <3>2
  <2>5. CASE ~OneOfSeveral(tk)
    <3>1. ASSUME sure, D = {}, new = db \/ doubts[s] = {}
          PROVE  Agrees(v, noted("plan"), new)
      <4>1. CASE tk.cmd = "install"
        <5>1. new = db \union tk.in /\ tk.un = {}
          BY <1>3, <2>1, <4>1 DEF After, Upgrades
        <5> QED
          BY <1>1, <2>3, <3>1, <5>1 DEF Agrees, Applied
      <4>2. CASE tk.cmd = "upgrade"
        <5>1. /\ Upgrades(tk) /\ new = (db \ Same(tk.in, db)) \union tk.in
              /\ ~ManyOf(tk.in, db)
          BY <2>5, <3>1, <4>2 DEF Upgrades, After
        <5>2. \A p \in tk.in : \A q \in db : q.name = p.name => q.ver < p.ver
          BY <2>1, <5>1 DEF Accepts, Instances, Of
        <5>3. new # db
          <6>1. PICK p \in tk.in : TRUE
            BY <1>3, <2>1
          <6>2. p \in new /\ ~(p.ver < p.ver)
            BY <1>0, <5>1, <6>1, PackageAssumption
          <6> QED
            BY <5>2, <6>2
        <5>4. doubts[s] = {} /\ v # NoView
          BY <3>1, <5>3 DEF sure, Trusted
        <5>5. \A p \in tk.in : (\E q \in db : IsOlder(q, p))
                                  => \E q \in tk.un \intersect db : IsOlder(q, p)
          BY <1>0, <2>1, <4>2, <5>4 DEF Own
        <5>6. new = (v.pkgs \ (tk.removed \union tk.un)) \union (tk.installed \union tk.in)
          <6>1. db = (v.pkgs \ tk.removed) \union tk.installed
            BY <2>3, <3>1 DEF Applied
          <6>2. Apart(tk.installed, tk.in) /\ \A q \in tk.un : \E p \in tk.in : IsOlder(q, p)
            BY <1>3, <2>1
          <6> HIDE DEF new, tk, v
          <6>3. Same(tk.in, db) = tk.un \intersect db
            BY <1>0, <5>1, <5>2, <5>5, <6>2, SameAreRemoved
          <6>4. tk.un \intersect tk.installed = {}
            BY <6>2 DEF Apart, IsOlder
          <6> QED
            BY <5>1, <6>1, <6>3, <6>4
        <5> QED
          BY <1>1, <5>6 DEF Agrees, Applied
      <4> QED
        BY <1>3, <2>1, <4>1, <4>2
    <3> HIDE DEF new, D, tk, v
    <3> QED
      BY <1>1, <1>3, <1>a, <2>1, <2>2, <2>5, <3>1
  <2> QED
    BY <2>4, <2>5
<1>5. CASE RpmFails(s)
  <2>1. PICK in \in SUBSET tk.in, un \in SUBSET (tk.un \intersect db) :
           Changes(s, (db \union in) \ un,
                   IF ManyOf(tk.in \union tk.un, (db \union in) \ un) THEN {"instances"} ELSE {})
    BY <1>5 DEF RpmFails
  <2> DEFINE new == (db \union in) \ un
             D == IF ManyOf(tk.in \union tk.un, new) THEN {"instances"} ELSE {}
  <2>2. /\ tk.at = "rpm" /\ tk.cmd # "uninstall" /\ Goto(s, "verify") /\ Changes(s, new, D)
        /\ UNCHANGED <<cache, view, touched>>
    BY <1>5, <2>1 DEF RpmFails, At_
  <2>3. new \in SUBSET Pkg /\ D \in {{}, {"instances"}} /\ D \in SUBSET Doubt
    BY <1>0 DEF Doubt
  <2>4. ASSUME sure, D = {} PROVE Agrees(v, goes("verify"), new)
    <3>1. db = Applied(v, tk)
      BY <1>2, <2>2, <2>4 DEF Agrees
    <3>2. ~ManyOf(tk.in \union tk.un, new)
      BY <2>4
    <3> DEFINE t == goes("verify")
    <3>3. Applied(v, t) = Applied(v, tk)
      BY <1>1 DEF Applied
    <3>4. \E i \in SUBSET tk.in, u \in SUBSET tk.un : new = (Applied(v, tk) \union i) \ u
      BY <3>1
    <3>5. /\ ~ManyOf(t.in \union t.un, new)
          /\ \E i \in SUBSET t.in, u \in SUBSET t.un : new = (Applied(v, t) \union i) \ u
          /\ t.at = "verify" /\ t.cmd # "uninstall"
      <4>1. t.at = "verify" /\ t.cmd # "uninstall" /\ t.in = tk.in /\ t.un = tk.un
        BY <1>1, <2>2
      <4> HIDE DEF t, new
      <4> QED
        BY <3>2, <3>3, <3>4, <4>1
    <3> HIDE DEF new, D, tk, v, t
    <3>6. Agrees(v, t, new)
      BY <3>5 DEF Agrees
    <3> QED
      BY <3>6 DEF t
  <2> HIDE DEF new, D, tk, v
  <2> QED
    BY <1>1, <1>3, <1>a, <2>2, <2>3, <2>4
<1>6. CASE OldErased(s)
  <2>1. /\ tk.at = "erase" /\ tk.cmd # "uninstall" /\ Changes(s, db \ tk.un, {})
        /\ task' = [task EXCEPT ![s] = noted("plan")] /\ UNCHANGED <<cache, view, touched>>
    BY <1>0, <1>6 DEF OldErased, At_, noted, TaskInv
  <2>2. tk.un \intersect tk.in = {} /\ tk.un \intersect tk.installed = {}
    <3>1. \A q \in tk.un : \E p \in tk.in : IsOlder(q, p)
      BY <1>3, <2>1
    <3>2. ASSUME NEW q \in tk.un PROVE q \notin tk.in /\ q \notin tk.installed
      <4>1. PICK p \in tk.in : q.name = p.name /\ q.ver < p.ver
        BY <3>1 DEF IsOlder
      <4>2. q.ver \in Nat /\ p.ver \in Nat
        BY <1>0, <4>1, PackageAssumption
      <4>3. q \notin tk.in
        BY <1>3, <2>1, <4>1, <4>2 DEF OneOfAName
      <4>4. q \notin tk.installed
        BY <1>3, <2>1, <4>1 DEF Apart
      <4> QED
        BY <4>3, <4>4
    <3> QED
      BY <3>2
  <2>3. ASSUME sure PROVE Agrees(v, noted("plan"), db \ tk.un)
    <3>1. db = Applied(v, tk) \union tk.in
      BY <1>2, <2>1, <2>3 DEF Agrees
    <3> QED
      BY <1>1, <2>2, <3>1 DEF Agrees, Applied
  <2>4. db \ tk.un \in SUBSET Pkg
    BY <1>0
  <2> HIDE DEF tk, v
  <2> QED
    BY <1>1, <1>3, <1>a, <2>1, <2>3, <2>4
<1>7. CASE OldNotErased(s)
  <2>1. /\ tk.at = "erase" /\ tk.cmd # "uninstall" /\ Changes(s, db, {"instances"})
        /\ task' = [task EXCEPT ![s] = noted("plan")] /\ UNCHANGED <<cache, view, touched>>
    BY <1>0, <1>7 DEF OldNotErased, At_, noted, TaskInv
  <2> HIDE DEF tk, v
  <2> QED
    BY <1>0, <1>1, <1>3, <1>a, <2>1
<1>8. CASE RpmErases(s)
  <2>1. /\ tk.at = "rpm" /\ tk.cmd = "uninstall" /\ Changes(s, db \ tk.un, {})
        /\ task' = [task EXCEPT ![s] = noted("apply")] /\ UNCHANGED <<cache, view, touched>>
    BY <1>8 DEF RpmErases, At_, noted
  <2>2. ASSUME sure PROVE Agrees(v, noted("apply"), db \ tk.un)
    <3>1. db = Applied(v, tk) /\ tk.in = {} /\ tk.installed = {}
      BY <1>2, <1>3, <2>1, <2>2 DEF Agrees
    <3> QED
      BY <1>1, <3>1 DEF Agrees, Applied
  <2>3. db \ tk.un \in SUBSET Pkg
    BY <1>0
  <2> HIDE DEF tk, v
  <2> QED
    BY <1>1, <1>3, <1>a, <2>1, <2>2, <2>3
<1>9. CASE EraseFails(s)
  <2>1. PICK gone \in SUBSET (tk.un \intersect db) : Changes(s, db \ gone, {})
    BY <1>9 DEF EraseFails
  <2>2. /\ tk.at = "rpm" /\ tk.cmd = "uninstall" /\ Goto(s, "verify")
        /\ UNCHANGED <<cache, view, touched>>
    BY <1>9 DEF EraseFails, At_
  <2>3. ASSUME sure PROVE Agrees(v, goes("verify"), db \ gone)
    <3>1. db = Applied(v, tk)
      BY <1>2, <2>2, <2>3 DEF Agrees
    <3> HIDE DEF tk, v
    <3> QED
      BY <1>1, <2>2, <3>1 DEF Agrees, Applied
  <2>4. db \ gone \in SUBSET Pkg
    BY <1>0
  <2> HIDE DEF tk, v
  <2> QED
    BY <1>1, <1>3, <1>a, <2>1, <2>2, <2>3, <2>4
<1> QED
  BY <1>4, <1>5, <1>6, <1>7, <1>8, <1>9

(* What poldek notes after a failure is what it finds installed.           *)
LEMMA VerifyActs ==
    ASSUME IInv, Current, NEW s \in Session, VerifyInstall(s) \/ VerifyErase(s)
    PROVE  Current'
<1> DEFINE tk == task[s]
           v == view[s]
           sure == Trusted(v, touched[s], doubts[s], dbtime)
<1>0. /\ tk \in Task /\ TaskInv(tk, v, cache, now, ever) /\ tk.at = "verify"
      /\ Own(v, tk, db, touched[s], doubts[s], dbtime) /\ PlanInv(tk) /\ NamesInv(tk)
      /\ db \in SUBSET Pkg /\ (sure => Agrees(v, tk, db))
      /\ UNCHANGED <<now, db, dbtime, cache, view, touched, doubts>>
  BY DEF IInv, TypeOK, Current, Each, Own, PlanInv, VerifyInstall, VerifyErase, At_
<1>1. \A t : /\ t.at \in {"plan", "apply"} /\ PlanInv(t)
             /\ task' = [task EXCEPT ![s] = t]
             /\ sure => db = Applied(v, t)
             => Current'
  <2> TAKE t
  <2> HAVE /\ t.at \in {"plan", "apply"} /\ PlanInv(t)
           /\ task' = [task EXCEPT ![s] = t]
           /\ sure => db = Applied(v, t)
  <2>1. Own(v, t, db, touched[s], doubts[s], dbtime)
    BY DEF Own, Agrees
  <2>2. Beside(cache, db, dbtime, now, v, t, doubts[s])
    BY DEF Beside
  <2> QED
    BY <1>0, <2>1, <2>2, OnlyDoes
<1> HIDE DEF sure
<1>2. CASE VerifyInstall(s)
  <2> DEFINE in == {p \in tk.in : IsInstalled(p)}
             un == {p \in tk.un : ~IsInstalled(p)}
             t == [tk EXCEPT !.at = "plan", !.installed = @ \union in, !.removed = @ \union un]
  <2>1. /\ task' = [task EXCEPT ![s] = t]
        /\ t.at = "plan" /\ t.cmd = tk.cmd /\ t.left = tk.left
        /\ t.installed = tk.installed \union in /\ t.removed = tk.removed \union un
    BY <1>0, <1>2 DEF VerifyInstall, Task
  <2>2. /\ tk.cmd # "uninstall" /\ Apart(tk.installed, tk.left) /\ Apart(tk.in, tk.left)
        /\ Apart(tk.installed, tk.in) /\ \A q \in tk.un : \E p \in tk.in : IsOlder(q, p)
        /\ OneOfAName(tk.left) /\ tk.cmd \in {"install", "upgrade"}
    BY <1>0, <1>2 DEF VerifyInstall, NamesInv
  <2>3. in \subseteq tk.in
    OBVIOUS
  <2>4. PlanInv(t)
    <3> HIDE DEF t, in, un, tk
    <3> QED
      BY <2>1, <2>2, <2>3 DEF PlanInv, NamesInv, Apart
  <2>5. ASSUME sure PROVE db = Applied(v, t)
    <3>1. /\ ~ManyOf(tk.in \union tk.un, db)
          /\ \E i \in SUBSET tk.in, u \in SUBSET tk.un : db = (Applied(v, tk) \union i) \ u
      BY <1>0, <2>2, <2>5 DEF Agrees
    <3>2. \A p \in tk.in \union tk.un : IsInstalled(p) <=> p \in db
      BY <1>0, <3>1, InstalledIsThere
    <3>3. in = tk.in \intersect db /\ un = tk.un \ db
      BY <3>2
    <3>4. tk.installed \intersect tk.un = {}
      BY <2>2 DEF Apart, IsOlder
    <3>5. db = (v.pkgs \ (tk.removed \union (tk.un \ db)))
                  \union (tk.installed \union (tk.in \intersect db))
      BY <3>1, <3>4, NotedAfterFailure DEF Applied
    <3> HIDE DEF t, in, un
    <3> QED
      BY <2>1, <3>3, <3>5 DEF Applied
  <2> HIDE DEF t, in, un
  <2> QED
    BY <1>1, <2>1, <2>4, <2>5
<1>3. CASE VerifyErase(s)
  <2> DEFINE t == [tk EXCEPT !.at = "apply", !.removed = @ \union (tk.un \ db)]
  <2>1. /\ task' = [task EXCEPT ![s] = t] /\ tk.cmd = "uninstall"
        /\ t.at = "apply" /\ t.cmd = tk.cmd
        /\ t.installed = tk.installed /\ t.removed = tk.removed \union (tk.un \ db)
    BY <1>0, <1>3 DEF VerifyErase, Task
  <2>2. tk.installed = {}
    BY <1>0, <2>1 DEF PlanInv
  <2> HIDE DEF t
  <2>3. PlanInv(t)
    BY <2>1, <2>2 DEF PlanInv, NamesInv
  <2>4. ASSUME sure PROVE db = Applied(v, t)
    <3>1. PICK gone \in SUBSET tk.un : db = Applied(v, tk) \ gone
      BY <1>0, <2>1, <2>4 DEF Agrees
    <3> QED
      BY <2>1, <2>2, <3>1 DEF Applied
  <2> QED
    BY <1>1, <2>1, <2>3, <2>4
<1> QED
  BY <1>2, <1>3

-----------------------------------------------------------------------------
(* The view after a transaction.                                           *)
LEMMA ApplyActs ==
    ASSUME IInv, Current, NEW s \in Session, Apply(s)
    PROVE  Current'
<1>0. /\ task[s] \in Task /\ Own(view[s], task[s], db, touched[s], doubts[s], dbtime)
      /\ task[s].at = "apply" /\ now \in Nat /\ FileInv(cache, db, dbtime, now)
      /\ UNCHANGED <<now, db, dbtime, cache>>
      /\ view[s] \in View \union {NoView} /\ view \in [Session -> View \union {NoView}]
      /\ touched \in [Session -> 0..now] /\ doubts \in [Session -> SUBSET Doubt]
      /\ Trusted(view[s], touched[s], doubts[s], dbtime) => db = Applied(view[s], task[s])
  BY DEF IInv, TypeOK, Current, Each, Own, Agrees, Apply, At_
<1>1. CASE view[s] = NoView \/ task[s].installed \union task[s].removed = {}
  <2>1. UNCHANGED <<view, touched, doubts>> /\ Prompt(s)
    BY <1>1 DEF Apply
  <2>2. Trusted(view[s], touched[s], doubts[s], dbtime) => view[s].pkgs = db
    BY <1>0, <1>1 DEF Trusted, Applied
  <2> QED
    BY <1>0, <2>1, <2>2, Prompts
<1>2. CASE ~(view[s] = NoView \/ task[s].installed \union task[s].removed = {})
  <2>1. /\ view' = [view EXCEPT ![s].pkgs = (@ \ task[s].removed) \union task[s].installed]
        /\ touched' = [touched EXCEPT ![s] = now]
        /\ doubts' = [doubts EXCEPT ![s] = Touching(@)]
        /\ Prompt(s)
    BY <1>2 DEF Apply
  <2>2. /\ view'[s].pkgs = Applied(view[s], task[s])
        /\ touched'[s] = now /\ doubts'[s] = Touching(doubts[s])
        /\ \A q \in Session \ {s} : /\ view'[q] = view[q] /\ touched'[q] = touched[q]
                                   /\ doubts'[q] = doubts[q]
    BY <1>0, <1>2, <2>1 DEF Applied, View
  <2>3. Trusted(view'[s], touched'[s], doubts'[s], dbtime) => view'[s].pkgs = db
    BY <1>0, <1>2, <2>2 DEF Trusted, Touching
  <2>4. \E t : /\ t.at = "prompt" /\ t.installed = {} /\ t.removed = {}
               /\ task' = [task EXCEPT ![s] = t]
    <3> DEFINE t == [Idle EXCEPT !.at = "prompt"]
    <3>1. /\ t.at = "prompt" /\ t.installed = {} /\ t.removed = {}
          /\ task' = [task EXCEPT ![s] = t]
      BY <2>1 DEF Idle, Prompt
    <3> HIDE DEF t
    <3> QED
      BY <3>1
  <2>5. /\ task'[s].at = "prompt" /\ task'[s].installed = {} /\ task'[s].removed = {}
        /\ \A q \in Session \ {s} : task'[q] = task[q]
    BY <2>4 DEF IInv, TypeOK
  <2>6. /\ Own(view'[s], task'[s], db, touched'[s], doubts'[s], dbtime)
        /\ Beside(cache, db, dbtime, now, view'[s], task'[s], doubts'[s])
    BY <2>3, <2>5, PromptTask
  <2> QED
    BY <1>0, <2>2, <2>5, <2>6, OneActs
<1> QED
  BY <1>1, <1>2

-----------------------------------------------------------------------------
(* A session ends, the cache being no worse than it was.                   *)
LEMMA GoneActs ==
    ASSUME IInv, Current, NEW s \in Session, Gone(s), UNCHANGED <<now, db, dbtime>>,
           FileInv(cache', db, dbtime, now), Wrong(cache', db) => Wrong(cache, db)
    PROVE  Current'
<1>1. /\ task \in [Session -> Task] /\ view \in [Session -> View \union {NoView}]
      /\ touched \in [Session -> 0..now] /\ doubts \in [Session -> SUBSET Doubt]
      /\ now \in Nat
  BY DEF IInv, TypeOK
<1>2. /\ task'[s] = Idle /\ view'[s] = NoView /\ touched'[s] = 0 /\ doubts'[s] = {}
      /\ \A q \in Session \ {s} : /\ task'[q] = task[q] /\ view'[q] = view[q]
                                 /\ touched'[q] = touched[q] /\ doubts'[q] = doubts[q]
  BY <1>1 DEF Gone
<1>3. PlanInv(Idle) /\ Idle.at = "gone"
  BY DEF PlanInv, NamesInv, Idle
<1>4. /\ Own(view'[s], task'[s], db, touched'[s], doubts'[s], dbtime)
      /\ Beside(cache', db, dbtime, now', view'[s], task'[s], doubts'[s])
  BY <1>2, <1>3 DEF Own, Beside, Trusted
<1> QED
  BY <1>1, <1>2, <1>4, OneActs

(* The end of a session.                                                   *)
LEMMA SavingActs ==
    ASSUME IInv, Current, NEW s \in Session, Saving(s) \/ Die(s)
    PROVE  Current'
<1> DEFINE tk == task[s]
           v == view[s]
           goes(a) == [tk EXCEPT !.at = a]
<1>0. /\ tk \in Task /\ TaskInv(tk, v, cache, now, ever) /\ now \in Nat
      /\ Own(v, tk, db, touched[s], doubts[s], dbtime) /\ PlanInv(tk)
      /\ Beside(cache, db, dbtime, now, v, tk, doubts[s])
      /\ FileInv(cache, db, dbtime, now) /\ cache \in File \union {NoFile}
      /\ v \in View \union {NoView} /\ ViewInv(v, now, ever)
      /\ touched[s] \in Nat /\ dbtime \in Nat /\ CacheInv
  BY DEF IInv, TypeOK, Current, Each, Own
<1>1. \A a : /\ goes(a).at = a /\ goes(a).installed = tk.installed
             /\ goes(a).removed = tk.removed
             /\ (Goto(s, a) => task' = [task EXCEPT ![s] = goes(a)])
  BY <1>0 DEF Task, Goto
<1> HIDE DEF goes
<1>2. \A a \in {"create", "close", "mtime"} : \A t :
         /\ t.at = a /\ t.installed = tk.installed /\ t.removed = tk.removed
         /\ tk.at \in {"save", "create", "close"}
         /\ task' = [task EXCEPT ![s] = t]
         /\ UNCHANGED <<now, db, dbtime, view, touched, doubts>>
         /\ a \in {"create", "close"} /\ doubts[s] \subseteq {"changed"} => v.pkgs = db
         /\ FileInv(cache', db, dbtime, now) /\ (Wrong(cache', db) => Wrong(cache, db))
         /\ (a \in {"close", "mtime"} /\ Wrong(cache', db) => v.ts < dbtime)
         => Current'
  <2> TAKE a \in {"create", "close", "mtime"}
  <2> TAKE t
  <2> HAVE /\ t.at = a /\ t.installed = tk.installed /\ t.removed = tk.removed
           /\ tk.at \in {"save", "create", "close"}
           /\ task' = [task EXCEPT ![s] = t]
           /\ UNCHANGED <<now, db, dbtime, view, touched, doubts>>
           /\ a \in {"create", "close"} /\ doubts[s] \subseteq {"changed"} => v.pkgs = db
           /\ FileInv(cache', db, dbtime, now) /\ (Wrong(cache', db) => Wrong(cache, db))
           /\ (a \in {"close", "mtime"} /\ Wrong(cache', db) => v.ts < dbtime)
  <2>1. t.installed = {} /\ t.removed = {}
    BY <1>0 DEF PlanInv
  <2>2. Own(v, t, db, touched[s], doubts[s], dbtime)
    <3>1. Trusted(v, touched[s], doubts[s], dbtime) => db = Applied(v, t)
      BY <1>0 DEF Own, Agrees, Applied
    <3> QED
      BY <2>1, <3>1 DEF Own, PlanInv, NamesInv, Agrees
  <2>3. Beside(cache', db, dbtime, now, v, t, doubts[s])
    BY DEF Beside
  <2>4. task'[s] = t /\ \A q \in Session \ {s} : task'[q] = task[q]
    BY DEF IInv, TypeOK
  <2> QED
    BY <1>0, <2>2, <2>3, <2>4, OneActs
<1>3. CASE NotSaved(s) \/ Die(s)
  BY <1>0, <1>3, GoneActs DEF NotSaved, Die
<1>4. CASE Save(s)
  <2>1. /\ tk.at = "save" /\ v # NoView /\ dbtime <= touched[s] /\ Goto(s, "create")
        /\ UNCHANGED <<now, db, dbtime, cache, view, touched, doubts>>
    BY <1>0, <1>4 DEF Save, At_, ChangedOutside
  <2>2. doubts[s] \subseteq {"changed"} => v.pkgs = db
    BY <1>0, <2>1 DEF Own, Trusted, Agrees, Applied, PlanInv
  <2> HIDE DEF tk, v
  <2> QED
    BY <1>0, <1>1, <1>2, <2>1, <2>2
<1>5. CASE Create(s)
  <2>1. /\ tk.at = "create" /\ Goto(s, "close")
        /\ UNCHANGED <<now, db, dbtime, view, touched, doubts>>
        /\ cache' = [mtime |-> now, ts |-> v.ts, pkgs |-> {}, writer |-> s, doubts |-> {}]
    BY <1>5 DEF Create, At_
  <2>2. ~Clean(cache')
    BY <2>1, NoneAssumption DEF Clean
  <2>3. FileInv(cache', db, dbtime, now)
    BY <1>0, <2>1, <2>2 DEF FileInv, Wrong
  <2>4. doubts[s] \subseteq {"changed"} => v.pkgs = db
    BY <1>0, <2>1 DEF Own
  <2> HIDE DEF tk, v
  <2> QED
    BY <1>1, <1>2, <2>1, <2>2, <2>3, <2>4 DEF Wrong
<1>6. CASE Close(s)
  <2>1. /\ tk.at = "close" /\ Goto(s, "mtime")
        /\ UNCHANGED <<now, db, dbtime, view, touched, doubts>>
    BY <1>6 DEF Close, At_
  <2>2. /\ FileInv(cache', db, dbtime, now) /\ (Wrong(cache', db) => Wrong(cache, db))
    <3>1. CASE cache.writer # s
      BY <1>0, <1>6, <3>1 DEF Close
    <3>2. CASE cache.writer = s
      <4>1. cache \in File
        BY <1>0, <2>1 DEF TaskInv
      <4>2. /\ cache'.pkgs = v.pkgs /\ cache'.mtime = now
            /\ cache'.doubts = doubts[s] \ {"changed"}
        BY <1>6, <3>2, <4>1 DEF Close, File
      <4>3. ~Wrong(cache', db)
        BY <1>0, <2>1, <4>2 DEF Own, Wrong, Clean
      <4> QED
        BY <1>0, <4>2, <4>3 DEF FileInv
    <3> QED
      BY <3>1, <3>2
  <2>3. Wrong(cache', db) => v.ts < dbtime
    BY <1>0, <2>1, <2>2 DEF Beside
  <2> HIDE DEF tk, v
  <2> QED
    BY <1>1, <1>2, <2>1, <2>2, <2>3
<1>7. CASE Mtime(s)
  <2> DEFINE time == IF v.type = "rpmdb" THEN v.ts ELSE cache.mtime
             t == [tk EXCEPT !.at = "utime", !.time = time]
  <2>1. /\ tk.at = "mtime" /\ cache # NoFile /\ v # NoView
        /\ UNCHANGED <<now, db, dbtime, cache, view, touched, doubts>>
    BY <1>0, <1>7 DEF Mtime, At_, TaskInv
  <2>2. time <= now /\ (Wrong(cache, db) => time < dbtime)
    BY <1>0, <2>1 DEF FileInv, Beside, ViewInv
  <2>3. /\ task' = [task EXCEPT ![s] = t]
        /\ t.at = "utime" /\ t.time = time
        /\ t.installed = tk.installed /\ t.removed = tk.removed
    BY <1>0, <1>7 DEF Mtime, Task
  <2> HIDE DEF t, time
  <2>4. Trusted(v, touched[s], doubts[s], dbtime) => db = Applied(v, t)
    BY <1>0, <2>1, <2>3 DEF Own, Agrees, Applied
  <2>5. Own(v, t, db, touched[s], doubts[s], dbtime)
    BY <1>0, <2>1, <2>3, <2>4 DEF Own, PlanInv, NamesInv, Agrees
  <2>6. Beside(cache, db, dbtime, now, v, t, doubts[s])
    BY <2>2, <2>3 DEF Beside
  <2> QED
    BY <2>1, <2>3, <2>5, <2>6, OnlyDoes
<1>8. CASE Utime(s)
  <2>1. /\ tk.at = "utime" /\ cache \in File /\ Gone(s) /\ UNCHANGED <<now, db, dbtime>>
    BY <1>0, <1>8 DEF Utime, At_, TaskInv
  <2>2. /\ cache'.mtime = tk.time /\ cache'.pkgs = cache.pkgs /\ cache'.ts = cache.ts
        /\ cache'.writer = cache.writer /\ cache'.doubts = cache.doubts /\ cache # NoFile
    BY <1>0, <1>8, <2>1, NoneAssumption DEF Utime, File
  <2>3. Wrong(cache', db) => Wrong(cache, db)
    BY <2>2 DEF Wrong, Clean
  <2>4. FileInv(cache', db, dbtime, now)
    BY <1>0, <2>1, <2>2, <2>3 DEF FileInv, Beside
  <2> QED
    BY <2>1, <2>3, <2>4, GoneActs
<1> QED
  BY <1>3, <1>4, <1>5, <1>6, <1>7, <1>8 DEF Saving

-----------------------------------------------------------------------------
LEMMA StutterActs == ASSUME Current, UNCHANGED vars PROVE Current'
BY DEF Current, Each, vars

(* Every step keeps it.                                                    *)
LEMMA NextActs == IInv /\ Current /\ [Next]_vars => Current'
<1> SUFFICES ASSUME IInv, Current, [Next]_vars PROVE Current'
  OBVIOUS
<1>1. ASSUME NEW s \in Session, Step(s)
      PROVE  Current'
  BY <1>1, LoadingActs, DecidingActs, RpmRuns, VerifyActs, ApplyActs, SavingActs
     DEF Step, Installing, Uninstalling
<1>2. ASSUME NEW s \in Session, Types_(s) \/ Interrupt(s) \/ Die(s)
      PROVE  Current'
  BY <1>2, TypesActs, SavingActs
<1> QED
  BY <1>1, <1>2, WorldActs, StutterActs DEF Next, Finished

LEMMA CurrentAlways == Spec => [](IInv /\ Current)
<1>1. IInv /\ Current /\ [Next]_vars => (IInv /\ Current)'
  BY NextKeeps, NextActs
<1> QED
  BY SInit, CInit, <1>1, PTL DEF Spec

(* At the prompt a view nobody has given a reason to doubt holds what is   *)
(* installed, for every number of sessions and packages, and whatever of a *)
(* transaction failed or was done by halves (update_iinf,                  *)
(* poclidek_apply_iinf, load_installed).                                   *)
THEOREM ViewsAreCurrent == Spec => []ViewIsCurrent
<1>1. IInv /\ Current => ViewIsCurrent
  <2> SUFFICES ASSUME Current, NEW s \in Session, task[s].at = "prompt", view[s] # NoView,
                      doubts[s] = {}
               PROVE  view[s].pkgs = db
    BY DEF ViewIsCurrent, At_
  <2> QED
    BY DEF Current, Each, Own, Trusted, Agrees, Applied, PlanInv
<1> QED
  BY <1>1, CurrentAlways, PTL

(* A cache that is accepted holds what is installed, however many sessions *)
(* write it at once, with whatever times, or die over it, unless its       *)
(* writer's view was doubtful (load_rpmdbcache, poclidek_save_installed-   *)
(* cache, dbcache_create).                                                 *)
THEOREM CachesAreCurrent == Spec => []CacheIsCurrent
<1>1. IInv /\ Current => CacheIsCurrent
  <2> SUFFICES ASSUME IInv, Current, UpToDate, Readable, cache.doubts = {}
               PROVE  cache.pkgs = db
    BY DEF CacheIsCurrent
  <2>1. cache \in File /\ dbtime \in Nat /\ cache.mtime >= dbtime
    BY DEF IInv, TypeOK, UpToDate
  <2>2. cache.mtime \in Nat /\ Clean(cache)
    BY <2>1 DEF File, Clean, Readable
  <2> QED
    BY <2>1, <2>2 DEF Current, FileInv, Wrong
<1> QED
  BY <1>1, CurrentAlways, PTL
=============================================================================
