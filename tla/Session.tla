------------------------------ MODULE Session -------------------------------
(***************************************************************************)
(* Sessions of the shell (cli/shell.c, cli/cli.c): each keeps a view of    *)
(* the installed packages, loaded from rpm's database or from a cache file *)
(* that all sessions share (cli/dbcache.c), brings it up to date after its *)
(* own transactions (poclidek_apply_iinf) and saves it when it ends.       *)
(*                                                                         *)
(* The /installed directory of the shell is filled, refilled and changed   *)
(* together with the view and is not kept apart from it.  What the solvers *)
(* find out about requirements is left to Install and Uninstall: here a    *)
(* transaction is the packages it installs and those it removes.           *)
(*                                                                         *)
(* Times are seconds; rpm is taken to need one: no two changes of the      *)
(* database have the same mtime.                                           *)
(***************************************************************************)
EXTENDS Naturals, FiniteSets

CONSTANTS Session,
          Pkg,                  \* names and versions: [name |-> , ver |-> ]
          Uses,                 \* the commands given to a session
          Filled,               \* what the database may hold at first
          Outside,              \* may other programs change the database?
          Interruptible, Mortal,    \* who may be interrupted, who may die
          MaxTime, MaxCommands, \* bounds of the clock and of what users type
          NoSession, NoFile, NoView

Command == {"ls", "reload", "install", "upgrade", "uninstall", "quit"}

ASSUME PackageAssumption == IsFiniteSet(Pkg) /\ \A p \in Pkg : p.ver \in Nat
ASSUME FilledAssumption == Filled \subseteq SUBSET Pkg
ASSUME BoundsAssumption == MaxTime \in Nat /\ MaxCommands \in Nat /\ Outside \in BOOLEAN
ASSUME SessionAssumption == Interruptible \subseteq Session /\ Mortal \subseteq Session
ASSUME UsesAssumption == Uses \in [Session -> SUBSET Command]

VARIABLES now,          \* the clock
          db, dbtime,   \* rpm's database and the mtime of its Packages
          cache,        \* packages.rpmdbcache: the file all sessions share
          view,         \* cctx->dbpkgdir of a session
          touched,      \* cctx->ts_dbpkgdir
          task,         \* the command a session executes
          typed,        \* how many commands have been typed
          ever,         \* history: what has been installed at some time
          doubts        \* history: why the view of a session may be wrong

vars == <<now, db, dbtime, cache, view, touched, task, typed, ever, doubts>>

Versions == {p.ver : p \in Pkg}
Doubt == {"changed", "touched", "late", "interrupted", "instances"}

View == [type: {"rpmdb", "rpmdbcache"}, ts: Nat \ {0}, pkgs: SUBSET Pkg]
File == [mtime: Nat, ts: Nat \ {0}, pkgs: SUBSET Pkg, writer: Session \union {NoSession},
         doubts: SUBSET Doubt]

ASSUME NoneAssumption == NoSession \notin Session /\ NoView \notin View /\ NoFile \notin File

At == {"gone", "prompt", "load", "cache", "stamp", "read", "resolve", "mark", "plan", "confirm",
       "rpm", "erase", "verify", "apply", "save", "create", "close", "mtime", "utime"}

Task == [at: At, cmd: Command,
         left: SUBSET Pkg,      \* what is still to be done: named packages
         particle: BOOLEAN,     \* particle install: one package at a time
         in: SUBSET Pkg, un: SUBSET Pkg, keep: SUBSET Pkg,  \* inset, unset, kept instances
         installed: SUBSET Pkg, removed: SUBSET Pkg,        \* ts->pkgs_installed, _removed
         interrupted: BOOLEAN, time: Nat]

(* The types of all variables; a view has a time stamp (n_assert in        *)
(* pkgdir_load, "ts must be set by backend").                              *)
TypeOK ==
    /\ now \in Nat \ {0} /\ dbtime \in 1..now
    /\ db \subseteq Pkg /\ ever \subseteq Pkg
    /\ cache \in File \union {NoFile}
    /\ view \in [Session -> View \union {NoView}]
    /\ touched \in [Session -> 0..now]
    /\ task \in [Session -> Task]
    /\ typed \in 0..MaxCommands
    /\ doubts \in [Session -> SUBSET Doubt]

Idle == [at |-> "gone", cmd |-> "quit", left |-> {}, particle |-> FALSE, in |-> {},
         un |-> {}, keep |-> {}, installed |-> {}, removed |-> {},
         interrupted |-> FALSE, time |-> 0]

At_(s, a) == task[s].at = a
Goto(s, a) == task' = [task EXCEPT ![s].at = a]
Prompt(s) == task' = [task EXCEPT ![s] = [Idle EXCEPT !.at = "prompt"]]
Gone(s) == /\ task' = [task EXCEPT ![s] = Idle]
           /\ view' = [view EXCEPT ![s] = NoView]
           /\ touched' = [touched EXCEPT ![s] = 0]
           /\ doubts' = [doubts EXCEPT ![s] = {}]

Of(ps, p) == {q \in ps : q.name = p.name}
Instances(p) == Of(db, p)
Older(p) == {q \in Instances(p) : q.ver < p.ver}

(* Whose view a change of the database by somebody else makes doubtful.    *)
(* "late" is between the last look at its mtime and the end of the writing *)
(* of the cache, "touched" is given when the session advances its time     *)
(* stamp over the change.                                                  *)
ChangedBehind(d, s) ==
    IF At_(s, "create") \/ At_(s, "close") THEN d \union {"changed", "late"}
    ELSE IF view[s] # NoView \/ At_(s, "cache") THEN d \union {"changed"}
    ELSE d
Touching(d) == IF "changed" \in d THEN d \union {"touched"} ELSE d

(* rpm, run by s or by others, changes the database.                       *)
Changes(s, new, d) ==
    /\ db' = new
    /\ ever' = ever \union new
    /\ IF new = db THEN UNCHANGED <<now, dbtime>>
                   ELSE now' = now + 1 /\ dbtime' = now + 1
    /\ doubts' = [q \in Session |->
                    IF q = s THEN doubts[q] \union d
                    ELSE IF new = db THEN doubts[q] ELSE ChangedBehind(doubts[q], q)]

-----------------------------------------------------------------------------
(* The world around the sessions.                                          *)

OutsideChange ==
    /\ Outside /\ now < MaxTime
    /\ \E p \in Pkg :
         LET new == IF p \in db THEN db \ {p} ELSE db \union {p}
         IN  Changes(NoSession, new, {})
    /\ UNCHANGED <<cache, view, touched, task, typed>>

Tick ==
    /\ now < MaxTime /\ now' = now + 1
    /\ UNCHANGED <<db, dbtime, cache, view, touched, task, typed, ever, doubts>>

(* The handler is there in the shell only; the flag is cleared before the  *)
(* next prompt.                                                            *)
Interrupt(s) ==
    /\ s \in Interruptible /\ ~task[s].interrupted
    /\ task[s].at \notin {"gone", "prompt"} /\ task[s].cmd # "quit"
    /\ task' = [task EXCEPT ![s].interrupted = TRUE]
    /\ UNCHANGED <<now, db, dbtime, cache, view, touched, typed, ever, doubts>>

Die(s) ==
    /\ s \in Mortal /\ ~At_(s, "gone")
    /\ Gone(s)
    /\ UNCHANGED <<now, db, dbtime, cache, typed, ever>>

-----------------------------------------------------------------------------
(* A command is typed.                                                     *)

Start(s) ==
    /\ At_(s, "gone") /\ typed < MaxCommands
    /\ Prompt(s)
    /\ UNCHANGED <<now, db, dbtime, cache, view, touched, typed, ever, doubts>>

Types(s, c, at, ps, one) ==
    /\ At_(s, "prompt") /\ c \in Uses[s] /\ typed < MaxCommands /\ typed' = typed + 1
    /\ task' = [task EXCEPT ![s] = [Idle EXCEPT !.at = at, !.cmd = c, !.left = ps,
                                                !.particle = one]]
    /\ UNCHANGED <<now, db, dbtime, cache, view, touched, ever, doubts>>

Ls(s) == Types(s, "ls", "load", {}, FALSE)
Reload(s) == Types(s, "reload", "load", {}, FALSE)
Uninstall(s) == \E p \in Pkg : Types(s, "uninstall", "load", {p}, FALSE)

(* unmark_name_duplicates leaves one package of a name; one package is one *)
(* particle anyway.                                                        *)
Install(s) ==
    \E c \in {"install", "upgrade"}, p, q \in Pkg, one \in BOOLEAN :
        /\ IF p = q THEN ~one ELSE p.name # q.name
        /\ Types(s, c, "mark", {p, q}, one)

(* poclidek_destroy saves the cache when there is a view.                  *)
Quit(s) ==
    /\ At_(s, "prompt")
    /\ task' = [task EXCEPT ![s] = [Idle EXCEPT !.at = "save"]]
    /\ UNCHANGED <<now, db, dbtime, cache, view, touched, typed, ever, doubts>>

-----------------------------------------------------------------------------
(* Loading of the installed packages.                                      *)

UpToDate == cache # NoFile /\ cache.mtime >= dbtime
Readable == cache # NoFile /\ cache.writer = NoSession

(* poclidek__load_installed and load_installed_pkgdir: the cache is looked *)
(* at unless this is a reload.                                             *)
Load(s) ==
    /\ At_(s, "load")
    /\ CASE view[s] # NoView /\ task[s].cmd = "ls" -> Prompt(s)
         [] view[s] # NoView /\ task[s].cmd = "uninstall" -> Goto(s, "resolve")
         [] view[s] = NoView /\ task[s].cmd # "reload" /\ UpToDate -> Goto(s, "cache")
         [] OTHER -> Goto(s, "stamp")
    /\ UNCHANGED <<now, db, dbtime, cache, view, touched, typed, ever, doubts>>

(* After it: reload sets the time stamp whatever became of the load.       *)
Loaded(s, v, stamp, d) ==
    /\ view' = [view EXCEPT ![s] = v]
    /\ touched' = [touched EXCEPT ![s] = IF task[s].cmd = "reload" THEN now ELSE stamp]
    /\ doubts' = [doubts EXCEPT ![s] = IF task[s].cmd = "reload" THEN Touching(d) ELSE d]
    /\ IF task[s].cmd = "uninstall" THEN Goto(s, "resolve") ELSE Prompt(s)
    /\ UNCHANGED <<now, db, dbtime, cache, typed, ever>>

(* The file may be another one by now than that whose mtime was read.      *)
OpenCache(s) ==
    /\ At_(s, "cache") /\ Readable
    /\ Loaded(s, [type |-> "rpmdbcache", ts |-> cache.ts, pkgs |-> cache.pkgs], cache.ts,
              doubts[s] \union cache.doubts)

BrokenCache(s) ==
    /\ At_(s, "cache") /\ ~Readable
    /\ Goto(s, "stamp")
    /\ UNCHANGED <<now, db, dbtime, cache, view, touched, typed, ever, doubts>>

(* rpmdb's do_load reads the mtime first and the packages then.            *)
Stamp(s) ==
    /\ At_(s, "stamp")
    /\ task' = [task EXCEPT ![s] = [@ EXCEPT !.at = "read", !.time = dbtime]]
    /\ UNCHANGED <<now, db, dbtime, cache, view, touched, typed, ever, doubts>>

OpenFails(s) ==
    /\ At_(s, "stamp")
    /\ Loaded(s, view[s], touched[s], doubts[s])

(* load_db_packages stops at the first package when it is interrupted and  *)
(* throws away what it has; pkgdir_load takes no packages for success.     *)
ReadDb(s) ==
    /\ At_(s, "read")
    /\ IF task[s].interrupted
       THEN Loaded(s, [type |-> "rpmdb", ts |-> task[s].time, pkgs |-> {}], task[s].time,
                   {"interrupted"})
       ELSE Loaded(s, [type |-> "rpmdb", ts |-> task[s].time, pkgs |-> db], task[s].time, {})

-----------------------------------------------------------------------------
(* Transactions: what is to be installed and removed.                      *)

(* poclidek_resolve_packages in the view, then resolve_packages in the     *)
(* database, by the package's id; the walk may add what depends on it.     *)
Resolve(s) ==
    /\ At_(s, "resolve")
    /\ LET found == view[s] # NoView /\ task[s].left \subseteq view[s].pkgs \intersect db
       IN  \/ /\ found
              /\ \E more \in {{}} \union {{p} : p \in db} :
                    task' = [task EXCEPT ![s] = [@ EXCEPT !.at = "confirm", !.left = {},
                                                          !.un = task[s].left \union more]]
           \/ ~found /\ Prompt(s)
    /\ UNCHANGED <<now, db, dbtime, cache, view, touched, typed, ever, doubts>>

(* i3_is_pkg_installable without --force, --reinstall and --downgrade,     *)
(* with multiple instances allowed.                                        *)
Installable(c, p) ==
    LET n == Instances(p)
    IN  \/ n = {}
        \/ c = "upgrade" /\ Cardinality(n) > 1 /\ \E q \in n : \A r \in n :
                             r.ver <= q.ver /\ q.ver # p.ver
        \/ c = "upgrade" /\ \A q \in n : q.ver < p.ver
        \/ c = "install" /\ \E q \in n : \A r \in n : r.ver <= q.ver /\ q.ver # p.ver

(* i3_pre_ts_install: what cannot be installed is left out.                *)
Mark(s) ==
    /\ At_(s, "mark")
    /\ LET left == {p \in task[s].left : Installable(task[s].cmd, p)}
       IN  task' = [task EXCEPT ![s] = [@ EXCEPT !.at = "plan", !.left = left]]
    /\ UNCHANGED <<now, db, dbtime, cache, view, touched, typed, ever, doubts>>

(* i3_process_pkg_obsoletes: an upgrade removes the older instance; of     *)
(* several, handle_multiinsts picks the one with the nearest version.      *)
Replaced(c, p) ==
    CASE c = "install" \/ Older(p) = {} -> {{}}
      [] OTHER -> {{q} : q \in Older(p)}

Several(p) == Cardinality(Older(p)) > 1

Kept(c, ps) == IF c = "upgrade" THEN UNION {Older(p) : p \in {q \in ps : Several(q)}} ELSE {}

(* The next particle, or everything at once.                               *)
Plan(s) ==
    /\ At_(s, "plan") /\ task[s].left # {} /\ ~task[s].interrupted
    /\ \E in \in IF task[s].particle THEN {{p} : p \in task[s].left} ELSE {task[s].left} :
       \E old \in [in -> SUBSET db] :
          /\ \A p \in in : old[p] \in Replaced(task[s].cmd, p)
          /\ LET un == UNION {old[p] : p \in in}
             IN  task' = [task EXCEPT ![s] =
                             [@ EXCEPT !.at = "confirm", !.left = task[s].left \ in,
                                       !.in = in, !.un = un,
                                       !.keep = Kept(task[s].cmd, in) \ un]]
    /\ UNCHANGED <<now, db, dbtime, cache, view, touched, typed, ever, doubts>>

(* Nothing is left, or an interrupt ends the loop of                       *)
(* i3_do_poldek_ts_install.                                                *)
NothingLeft(s) ==
    /\ At_(s, "plan") /\ (task[s].left = {} \/ task[s].interrupted)
    /\ Goto(s, "apply")
    /\ UNCHANGED <<now, db, dbtime, cache, view, touched, typed, ever, doubts>>

Confirmed(s) ==
    /\ At_(s, "confirm")
    /\ Goto(s, "rpm")
    /\ UNCHANGED <<now, db, dbtime, cache, view, touched, typed, ever, doubts>>

(* The user declines, or a package cannot be fetched.                      *)
Declined(s) ==
    /\ At_(s, "confirm")
    /\ Goto(s, IF task[s].cmd = "uninstall" THEN "apply" ELSE "plan")
    /\ UNCHANGED <<now, db, dbtime, cache, view, touched, typed, ever, doubts>>

-----------------------------------------------------------------------------
(* rpm, and what poldek notes of its work.                                 *)

(* update_iinf without a look at the database.                             *)
Noted(t) == [t EXCEPT !.installed = @ \union t.in, !.removed = @ \union t.un]

(* do_install: one package and several older instances of it: rpm         *)
(* --install, then rpm --erase of one of them.                             *)
OneOfSeveral(t) == Cardinality(t.in) = 1 /\ t.keep # {}

(* What rpm --upgrade and rpm --install leave when they succeed.           *)
Same(ps, qs) == {q \in qs : \E p \in ps : p.name = q.name}
Upgrades(t) == t.cmd = "upgrade" /\ ~OneOfSeveral(t)
Accepts(t) == IF Upgrades(t) THEN \A p \in t.in : \A q \in Instances(p) : q.ver < p.ver
              ELSE t.in \intersect db = {}
After(t) == IF Upgrades(t) THEN (db \ Same(t.in, db)) \union t.in ELSE db \union t.in

ManyOf(ps, qs) == \E p \in ps : Cardinality(Of(qs, p)) > 1

RpmInstalls(s) ==
    /\ At_(s, "rpm") /\ task[s].cmd # "uninstall" /\ Accepts(task[s])
    /\ Changes(s, After(task[s]),
               IF Upgrades(task[s]) /\ ManyOf(task[s].in, db) THEN {"instances"} ELSE {})
    /\ task' = [task EXCEPT ![s] =
                   IF OneOfSeveral(task[s]) THEN [task[s] EXCEPT !.at = "erase"]
                   ELSE [Noted(task[s]) EXCEPT !.at = "plan"]]
    /\ UNCHANGED <<cache, view, touched, typed>>

(* rpm fails; it may have done a part of its work.                         *)
RpmFails(s) ==
    /\ At_(s, "rpm") /\ task[s].cmd # "uninstall"
    /\ \E in \in SUBSET task[s].in, un \in SUBSET (task[s].un \intersect db) :
          /\ in # {} => Accepts(task[s])
          /\ un \subseteq Same(in, un)
          /\ LET new == (db \union in) \ un
             IN  Changes(s, new, IF ManyOf(task[s].in \union task[s].un, new)
                                 THEN {"instances"} ELSE {})
    /\ Goto(s, "verify")
    /\ UNCHANGED <<cache, view, touched, typed>>

(* The result of pm_pmuninstall is not looked at.                          *)
OldErased(s) ==
    /\ At_(s, "erase") /\ task[s].un \subseteq db
    /\ Changes(s, db \ task[s].un, {})
    /\ task' = [task EXCEPT ![s] = [Noted(task[s]) EXCEPT !.at = "plan"]]
    /\ UNCHANGED <<cache, view, touched, typed>>

OldNotErased(s) ==
    /\ At_(s, "erase")
    /\ Changes(s, db, {"instances"})
    /\ task' = [task EXCEPT ![s] = [Noted(task[s]) EXCEPT !.at = "plan"]]
    /\ UNCHANGED <<cache, view, touched, typed>>

(* Mutant: after a failure what was planned is taken for done. *)
VerifyInstallNothing(s) ==
    /\ At_(s, "verify") /\ task[s].cmd # "uninstall"
    /\ task' = [task EXCEPT ![s] = [Noted(task[s]) EXCEPT !.at = "plan"]]
    /\ UNCHANGED <<now, db, dbtime, cache, view, touched, typed, ever, doubts>>

(* update_iinf after a failure: i3_is_pkg_installed compares with the      *)
(* newest instance there is.                                               *)
Newest(p) == \A q \in Instances(p) : q.ver <= p.ver
IsInstalled(p) == p \in db /\ Newest(p)

VerifyInstall(s) ==
    /\ At_(s, "verify") /\ task[s].cmd # "uninstall"
    /\ task' = [task EXCEPT ![s] =
           [@ EXCEPT !.at = "plan",
                     !.installed = task[s].installed \union {p \in task[s].in : IsInstalled(p)},
                     !.removed = task[s].removed \union {p \in task[s].un : ~IsInstalled(p)}]]
    /\ UNCHANGED <<now, db, dbtime, cache, view, touched, typed, ever, doubts>>

RpmErases(s) ==
    /\ At_(s, "rpm") /\ task[s].cmd = "uninstall" /\ task[s].un \subseteq db
    /\ Changes(s, db \ task[s].un, {})
    /\ task' = [task EXCEPT ![s] = [Noted(task[s]) EXCEPT !.at = "apply"]]
    /\ UNCHANGED <<cache, view, touched, typed>>

(* Mutant: the same after an uninstallation. *)
VerifyEraseNothing(s) ==
    /\ At_(s, "verify") /\ task[s].cmd = "uninstall"
    /\ task' = [task EXCEPT ![s] = [Noted(task[s]) EXCEPT !.at = "apply"]]
    /\ UNCHANGED <<now, db, dbtime, cache, view, touched, typed, ever, doubts>>

EraseFails(s) ==
    /\ At_(s, "rpm") /\ task[s].cmd = "uninstall"
    /\ \E gone \in SUBSET (task[s].un \intersect db) :
          /\ gone # {} => task[s].un \subseteq db
          /\ Changes(s, db \ gone, {})
    /\ Goto(s, "verify")
    /\ UNCHANGED <<cache, view, touched, typed>>

VerifyErase(s) ==
    /\ At_(s, "verify") /\ task[s].cmd = "uninstall"
    /\ task' = [task EXCEPT ![s] = [@ EXCEPT !.at = "apply",
                                            !.removed = task[s].removed \union (task[s].un \ db)]]
    /\ UNCHANGED <<now, db, dbtime, cache, view, touched, typed, ever, doubts>>

(* poclidek_apply_iinf, when there is a view.                              *)
Apply(s) ==
    /\ At_(s, "apply")
    /\ LET t == task[s]
       IN  IF view[s] = NoView \/ t.installed \union t.removed = {}
           THEN UNCHANGED <<view, touched, doubts>>
           ELSE /\ view' = [view EXCEPT ![s].pkgs = (@ \ t.removed) \union t.installed]
                /\ touched' = [touched EXCEPT ![s] = now]
                /\ doubts' = [doubts EXCEPT ![s] = Touching(@)]
    /\ Prompt(s)
    /\ UNCHANGED <<now, db, dbtime, cache, typed, ever>>

(* Mutant: the database is not looked at again. *)
ChangedOutsideNever(s) == FALSE

-----------------------------------------------------------------------------
(* The end of a session: poclidek_save_installedcache.                     *)

ChangedOutside(s) == dbtime > touched[s]
AlreadySaved(s) == cache # NoFile /\ cache.mtime >= touched[s]

NotSaved(s) ==
    /\ At_(s, "save") /\ (view[s] = NoView \/ ChangedOutside(s) \/ AlreadySaved(s))
    /\ Gone(s)
    /\ UNCHANGED <<now, db, dbtime, cache, typed, ever>>

Save(s) ==
    /\ At_(s, "save") /\ view[s] # NoView /\ ~ChangedOutside(s) /\ ~AlreadySaved(s)
    /\ Goto(s, "create")
    /\ UNCHANGED <<now, db, dbtime, cache, view, touched, typed, ever, doubts>>

(* pndir_m_create unlinks the file and writes a new one, without a lock;   *)
(* until it is closed it is not readable.                                  *)
Create(s) ==
    /\ At_(s, "create")
    /\ cache' = [mtime |-> now, ts |-> view[s].ts, pkgs |-> {}, writer |-> s, doubts |-> {}]
    /\ Goto(s, "close")
    /\ UNCHANGED <<now, db, dbtime, view, touched, typed, ever, doubts>>

(* If somebody has unlinked it in the meantime nobody will see it.         *)
Close(s) ==
    /\ At_(s, "close")
    /\ cache' = IF cache.writer # s THEN cache
                ELSE [cache EXCEPT !.mtime = now, !.pkgs = view[s].pkgs,
                                   !.writer = NoSession, !.doubts = doubts[s] \ {"changed"}]
    /\ Goto(s, "mtime")
    /\ UNCHANGED <<now, db, dbtime, view, touched, typed, ever, doubts>>

(* dbcache_create gives it the mtime of the pkgdir's index: that is the    *)
(* path just written, or, for rpm's directory, the database's mtime when   *)
(* it was read.                                                            *)
Mtime(s) ==
    /\ At_(s, "mtime")
    /\ LET time == IF view[s].type = "rpmdb" THEN view[s].ts ELSE cache.mtime
       IN  task' = [task EXCEPT ![s] = [@ EXCEPT !.at = "utime", !.time = time]]
    /\ UNCHANGED <<now, db, dbtime, cache, view, touched, typed, ever, doubts>>

Utime(s) ==
    /\ At_(s, "utime")
    /\ cache' = [cache EXCEPT !.mtime = task[s].time]
    /\ Gone(s)
    /\ UNCHANGED <<now, db, dbtime, typed, ever>>

-----------------------------------------------------------------------------
(* The first session finds no cache, and a database somebody has filled.   *)
Init ==
    /\ now = 1 /\ dbtime = 1
    /\ db \in Filled /\ ever = db
    /\ cache = NoFile
    /\ view = [s \in Session |-> NoView]
    /\ touched = [s \in Session |-> 0]
    /\ task = [s \in Session |-> Idle]
    /\ typed = 0
    /\ doubts = [s \in Session |-> {}]

Loading(s) == Load(s) \/ OpenCache(s) \/ BrokenCache(s) \/ Stamp(s) \/ OpenFails(s) \/ ReadDb(s)
Installing(s) ==
    \/ Mark(s) \/ Plan(s) \/ NothingLeft(s) \/ RpmInstalls(s) \/ RpmFails(s)
    \/ OldErased(s) \/ OldNotErased(s) \/ VerifyInstall(s)
Uninstalling(s) == Resolve(s) \/ RpmErases(s) \/ EraseFails(s) \/ VerifyErase(s)
Saving(s) == NotSaved(s) \/ Save(s) \/ Create(s) \/ Close(s) \/ Mtime(s) \/ Utime(s)

(* What goes on by itself once a command is typed: the user answers what   *)
(* is asked, and rpm ends.                                                 *)
Step(s) == Loading(s) \/ Confirmed(s) \/ Declined(s) \/ Installing(s) \/ Uninstalling(s)
           \/ Apply(s) \/ Saving(s)
Types_(s) == Start(s) \/ Ls(s) \/ Reload(s) \/ Uninstall(s) \/ Install(s) \/ Quit(s)

Finished == /\ \A s \in Session : At_(s, "gone")
            /\ UNCHANGED vars

Next == OutsideChange \/ Tick \/ Finished
        \/ \E s \in Session : Types_(s) \/ Step(s) \/ Interrupt(s) \/ Die(s)

Fairness == \A s \in Session : WF_vars(Step(s))
Spec == Init /\ [][Next]_vars /\ Fairness

-----------------------------------------------------------------------------
(* At the prompt the view holds what is installed, unless somebody else    *)
(* changed the database after it was loaded, the load was interrupted or a *)
(* transaction met several instances of a package, whatever failed or was  *)
(* done by halves: poclidek_apply_iinf, update_iinf, load_installed.       *)
ViewIsCurrent ==
    \A s \in Session : At_(s, "prompt") /\ view[s] # NoView /\ doubts[s] = {}
                       => view[s].pkgs = db

(* A cache that load_rpmdbcache accepts holds what is installed, however   *)
(* many sessions wrote it at once or died over it, unless the session that *)
(* wrote it had set its time stamp over a change made by somebody else (by *)
(* a transaction of its own or a reload that failed), the change came      *)
(* after it had looked, or its view was wrong for the reasons above.       *)
CacheIsCurrent == UpToDate /\ Readable /\ cache.doubts = {} => cache.pkgs = db

(* No view and no cache lists a package that has never been installed,     *)
(* whatever rpm reported.                                                  *)
NothingInvented ==
    /\ \A s \in Session : view[s] # NoView => view[s].pkgs \subseteq ever
    /\ cache # NoFile => cache.pkgs \subseteq ever

=============================================================================
