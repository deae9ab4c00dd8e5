------------------------------ MODULE Install ------------------------------
(***************************************************************************)
(* The dependency solver of install3/ and the transaction around it,       *)
(* i3_do_poldek_ts_install: mark what the user asked for, follow the       *)
(* requirements of what is installed and of what an upgrade orphans,       *)
(* backtrack where a choice turned out wrong, run the package manager.     *)
(*                                                                         *)
(* Pkg are the installed and the available packages; db.avail the latter.  *)
(* One that is both is one element, as in the sets the code keys by        *)
(* pkg_id().  i3_process_package and what it calls are recursive: the      *)
(* variable stack is the C stack, a record for each do_process_package.    *)
(*                                                                         *)
(* Not here: suggestions, boolean requirements, multilib, downgrade,       *)
(* reinstall, force, --mercy, several instances of an installed package.   *)
(***************************************************************************)
EXTENDS PkgDB, FiniteSets, Sequences

CONSTANTS Databases, SelfCap, Options, NoPkg,
          NameRank,     \* how strcmp orders the names of packages
          Requests      \* what the user may ask for: sets of packages

(* obsl[p] are the Obsoletes of p, cnfl[p] its Conflicts: both are in       *)
(* pkg->cnfls.  There and in reqs[p] is one for a name, and none that the  *)
(* iterators skip; nothing has an epoch.                                   *)
InstallDatabase ==
    {db \in [caps : [Pkg -> SUBSET Cap], reqs : [Pkg -> SUBSET Req],
             obsl : [Pkg -> SUBSET Req], cnfl : [Pkg -> SUBSET Req],
             avail : SUBSET Pkg, inst : SUBSET Pkg] :
        \A p \in Pkg : /\ SelfCap[p] \in db.caps[p]
                       /\ \A r, q \in db.reqs[p] : r.name = q.name => r = q
                       /\ \A r, q \in db.obsl[p] \union db.cnfl[p] : r.name = q.name => r = q
                       /\ db.obsl[p] \cap db.cnfl[p] = {}
                       /\ \A x \in db.caps[p] \union db.reqs[p] \union db.obsl[p] \union db.cnfl[p] :
                            x.evr.e = 0}

ASSUME DatabasesAssumption == Databases \subseteq InstallDatabase
ASSUME SelfCapAssumption == /\ SelfCap \in [Pkg -> Cap] /\ \A p \in Pkg : SelfCap[p].rel # {}
                            /\ NoPkg \notin Pkg
ASSUME NameRankAssumption == NameRank \in [Name -> Nat]

Option == [upgrade : BOOLEAN, follow : BOOLEAN, greedy : BOOLEAN, obsoletes : BOOLEAN,
           particle : BOOLEAN, ask : BOOLEAN, conflicts : BOOLEAN, nodeps : BOOLEAN, test : BOOLEAN]
ASSUME OptionsAssumption == Options \subseteq Option
ASSUME RequestsAssumption == Requests \subseteq SUBSET Pkg

VARIABLES db, opts,
          phase,        \* where i3_do_poldek_ts_install is
          inst,         \* installed packages
          args,         \* what the loop over the arguments has still to visit
          pms,          \* ts->pms: asked for, not yet in inset
          queue,        \* what install_packages has still to process
          inset,        \* packages to install
          hand,         \*   ... marked by hand, the flag stays when one leaves inset
          unset,        \* packages to remove
          gray, black,  \* ictx->processed
          errors,       \* ictx->errors, a package and what it misses or conflicts with
          abort, stack,
          interrupted,  \* sigint_reached()
          ok            \* nerr == 0

ictx == <<inset, hand, unset, gray, black, errors, abort>>
vars == <<db, opts, phase, inst, args, pms, queue, ictx, stack, interrupted, ok>>

Phase == {"resolve", "mark", "process", "install", "done", "crashed"}

Call == [pkg : Pkg, crossroad : BOOLEAN, indir : BOOLEAN,
         at : {"obsoletes", "orphans", "reqs", "caps", "cnfls"},
         orphan : Pkg \union {NoPkg},       \* the orphan at hand
         missed : SUBSET (Pkg \X Req),      \* what orphans miss or which conflicts were found,
         todo : SUBSET Req,                 \* requirements or what conflicts are looked for by,
                                            \*   not yet processed
         failed : BOOLEAN, backtrack : BOOLEAN,
         marked : SUBSET Pkg,               \* it and what it marked, directly or not
         obsoleted : SUBSET Pkg]            \* what they obsolete

TypeOK ==
    /\ opts \in Options /\ phase \in Phase
    /\ inst \subseteq Pkg /\ args \subseteq db.avail /\ pms \subseteq db.avail
    /\ queue \subseteq Pkg
    /\ inset \subseteq db.avail /\ hand \subseteq db.avail /\ unset \subseteq inst
    /\ gray \subseteq Pkg /\ black \subseteq Pkg /\ errors \subseteq Pkg \X (Req \union Pkg)
    /\ stack \in Seq(Call)
    /\ abort \in BOOLEAN /\ interrupted \in BOOLEAN /\ ok \in BOOLEAN

-----------------------------------------------------------------------------
NameOf(p) == SelfCap[p].name
Rel2(p, rel) == [SelfCap[p] EXCEPT !.rel = rel]

(* Packages of one name: p has the higher EVR.                             *)
Newer(p, q) == CapMatchReq(SelfCap[p], Rel2(q, {"GT"}))

(* i3_is_pkg_installable: what is installed is older or, without upgrade,  *)
(* another version.                                                        *)
Installable(p) ==
    LET same == {q \in inst : NameOf(q) = NameOf(p)}
    IN  \/ \A q \in same : Newer(p, q)
        \/ ~ opts.upgrade /\ \E q \in same : Newer(q, p)

Stopped == abort \/ interrupted

Gone == unset \union (Pkg \ inst)

(* A bug: what the set replaces still counts.                              *)
MetByOldDb(r) == MatchReq(db, r, {"CAPEPOCH"}, Pkg \ inst)

MetByDb(r) == MatchReq(db, r, {"CAPEPOCH"}, Gone)   \* i3_pkgdb_match_req
Provided(S, r) == \E p \in S : Satisfies(db, p, r)  \* iset_provides

(* Whom p does not bear: its Obsoletes count as Conflicts.  (A bug: only   *)
(* the names of packages are compared.)                                    *)
Cnfls(p) == db.cnfl[p] \union db.obsl[p]
ConflictedByName(p) ==
    {q \in db.avail \ {p} : \E x \in Cnfls(p) : CapMatchReq(SelfCap[q], x)}
ConflictedBy(p) == {q \in db.avail \ {p} : \E x \in Cnfls(p) : Satisfies(db, q, x)}

(* pkgset_find_match_packages                                              *)
Providers(r) == {p \in db.avail : Satisfies(db, p, r)}

(* i3_find_req: the candidates, none of them condemned, ...                *)
Candidates(r) == (Providers(r) \ (unset \ inset)) \ black

(* ... one of which is in the set already, or the one it returns.          *)
MetByInset(r) == Candidates(r) \cap inset # {}

(* do_select_best_pkg: a candidate with a requirement that nobody meets,   *)
(* or with a conflict in the set, is left out, unless all are like that;   *)
(* it may take one of several versions at once.  Scores for names,         *)
(* versions and architectures rank the rest: any may be the best.          *)
Satisfiable(p, marker) ==
    \/ \A r \in db.reqs[p] : Provided(inset, r) \/ MetByDb(r) \/ Providers(r) # {}
    \/ /\ Cardinality(db.reqs[marker]) > 2
       /\ \A r \in db.reqs[marker] : Satisfies(db, p, r)
Left(marker, r) ==
    LET C == Candidates(r)
        some(S) == IF S = {} THEN C ELSE S
        good == some({p \in C : Satisfiable(p, marker)})
                  \cap some({p \in C : ConflictedBy(p) \cap inset = {}})
    IN  {some(good)} \union
        (IF \A p, q \in C : NameOf(p) = NameOf(q) THEN {{p} : p \in C} ELSE {})

(* The best of those that are left; with the user's consent another one    *)
(* (i3_choose_equiv).  None if another version of it is marked.            *)
OtherVersionMarked(p) == \E q \in inset \ {p} : NameOf(q) = NameOf(p)
Best(marker, r) == IF Candidates(r) = {} THEN {NoPkg}
                   ELSE {IF OtherVersionMarked(p) THEN NoPkg ELSE p : p \in UNION Left(marker, r)}
Pickable(left, best) == IF opts.ask THEN left ELSE {best}

(* pkg_requires_cap: a versioned capability is not missed by a requirement *)
(* without version.                                                        *)
RequiresCap(r, cap) == /\ r.name = cap.name
                       /\ cap.rel # {} => r.rel # {} /\ CapMatchReq(cap, r)

-----------------------------------------------------------------------------
(* The C stack.                                                            *)

Top == stack[Len(stack)]
Below == SubSeq(stack, 1, Len(stack) - 1)
Replace(call) == stack' = Append(Below, call)
Missing == IF stack = << >> THEN {} ELSE Top.missed
Todo == IF stack = << >> THEN {} ELSE Top.todo
Running(at) == phase = "process" /\ stack # << >> /\ Top.at = at

Frame(p, indir) ==
    [pkg |-> p, crossroad |-> FALSE, indir |-> indir, at |-> "obsoletes",
     orphan |-> NoPkg, missed |-> {}, todo |-> {}, failed |-> FALSE, backtrack |-> FALSE,
     marked |-> {p}, obsoleted |-> {}]

Backtrackable(call) == call.crossroad \/ call.indir

(* What call does with the result of an i3_process_package: only the loop  *)
(* over requirements looks at it.                                          *)
Returned(call, rc) ==
    IF call.at # "reqs" \/ rc = 1 THEN call
    ELSE [call EXCEPT !.failed = TRUE, !.backtrack = @ \/ rc = -1,
                      !.todo = IF rc = -1 /\ Backtrackable(call) THEN {} ELSE @]

(* i3_process_package(p), called by call.                                  *)
ProcessPackage(call, p, indir) ==
    \/ /\ Stopped
       /\ Replace(Returned(call, 0))
       /\ UNCHANGED <<ictx, pms>>
    \/ /\ ~ Stopped /\ p \in gray
       /\ Replace(call)
       /\ UNCHANGED <<ictx, pms>>
    \/ /\ ~ Stopped /\ p \notin gray /\ p \notin inset /\ ~ Installable(p)
       /\ gray' = gray \union {p} /\ abort' = TRUE
       /\ Replace(Returned(call, 0))
       /\ UNCHANGED <<inset, hand, unset, black, errors, pms>>
    \/ /\ ~ Stopped /\ p \notin gray /\ (p \in inset \/ Installable(p))
       /\ gray' = gray \union {p}
       /\ inset' = inset \union {p}
       /\ hand' = IF p \in pms THEN hand \union {p} ELSE hand
       /\ pms' = pms \ {p}
       /\ stack' = Append(Append(Below, call), Frame(p, indir))
       /\ UNCHANGED <<unset, black, errors, abort>>

(* A bug: what is marked by hand is rolled back with its marker.           *)
ReturnAll(rc) ==
    IF Len(stack) = 1 THEN stack' = << >>
    ELSE LET caller == Below[Len(Below)]
         IN  stack' = [Below EXCEPT ![Len(Below)] =
                Returned([caller EXCEPT !.marked = @ \union Top.marked,
                                        !.obsoleted = @ \union Top.obsoleted], rc)]

(* do_process_package(top) returns rc to its caller, which remembers what  *)
(* to roll back with it: nothing that is marked by hand.                   *)
Return(rc) ==
    IF Len(stack) = 1 THEN stack' = << >>
    ELSE LET caller == Below[Len(Below)]
             known == IF Top.pkg \in hand THEN caller
                      ELSE [caller EXCEPT !.marked = @ \union Top.marked,
                                          !.obsoleted = @ \union Top.obsoleted]
         IN  stack' = [Below EXCEPT ![Len(Below)] = Returned(known, rc)]

-----------------------------------------------------------------------------
Init ==
    /\ db \in Databases /\ opts \in Options
    /\ phase = "resolve" /\ inst = db.inst
    /\ args = {} /\ pms = {} /\ queue = {}
    /\ inset = {} /\ hand = {} /\ unset = {} /\ gray = {} /\ black = {} /\ errors = {}
    /\ abort = FALSE /\ stack = << >> /\ interrupted = FALSE /\ ok = TRUE

(* i3_pre_ts_install: one package of a name, and only what is installable. *)
Resolve(wanted) ==
    /\ phase = "resolve" /\ wanted \subseteq db.avail
    /\ \A p, q \in wanted : NameOf(p) = NameOf(q) => p = q
    /\ args' = {p \in wanted : Installable(p)}
    /\ pms' = args'
    /\ phase' = IF args' = {} THEN "done" ELSE "mark"
    /\ UNCHANGED <<db, opts, inst, queue, ictx, stack, interrupted, ok>>

(* A particle is an argument and those whose names begin alike (names have *)
(* no letters here: any group may); otherwise all arguments are one group. *)
Particle == opts.particle /\ ~ opts.test

MarkGroup(group) ==
    /\ phase = "mark" /\ ~ interrupted /\ group \subseteq pms
    /\ IF Particle
       THEN \E p \in args \cap group : args' = args \ {p}
       ELSE group = args /\ args # {} /\ args' = {}
    /\ inset' = {p \in group : Installable(p)}
    /\ hand' = inset' /\ queue' = inset'
    /\ pms' = pms \ inset'
    /\ abort' = (inset' # group)
    /\ phase' = "process"
    /\ UNCHANGED <<db, opts, inst, unset, gray, black, errors, stack, interrupted, ok>>

(* It went into an earlier group.                                          *)
SkipArgument(p) ==
    /\ phase = "mark" /\ p \in args \ pms
    /\ args' = args \ {p}
    /\ UNCHANGED <<db, opts, phase, inst, pms, queue, ictx, stack, interrupted, ok>>

MarkDone ==
    /\ phase = "mark" /\ (args = {} \/ interrupted)
    /\ phase' = "done"
    /\ UNCHANGED <<db, opts, inst, args, pms, queue, ictx, stack, interrupted, ok>>

(* i3_install_package                                                      *)
InstallPackage(p) ==
    /\ phase = "process" /\ stack = << >> /\ p \in queue
    /\ queue' = IF interrupted THEN {} ELSE queue \ {p}
    /\ IF Stopped \/ p \in gray THEN UNCHANGED <<gray, stack>>
       ELSE gray' = gray \union {p} /\ stack' = <<Frame(p, FALSE)>>
    /\ UNCHANGED <<db, opts, phase, inst, args, pms, inset, hand, unset, black, errors, abort,
                   interrupted, ok>>

(* pkgdb_q_obsoletedby_pkg                                                 *)
Replaces(p, q) == \/ CapMatchReq(SelfCap[q], Rel2(p, {"EQ", "LT"}))
                  \/ opts.obsoletes /\ \E o \in db.obsl[p] : CapMatchReq(SelfCap[q], o)
ObsoletedBy(p) == {q \in inst \ unset : Replaces(p, q)}

(* A bug: any version of a name stands for the one that is removed.        *)
UnsatisfiedNames(p, old) ==
    {c \in UNION {db.caps[q] : q \in old} :
        /\ \A x \in db.caps[p] : x.name # c.name
        /\ (Providers(c) \cap inset) \ black = {}}

(* The capabilities of what p obsoletes that nobody is going to provide.   *)
UnsatisfiedCaps(p, old) ==
    {c \in UNION {db.caps[q] : q \in old} :
        /\ ~ Satisfies(db, p, c)
        /\ (Providers(c) \cap inset) \ black = {}}

(* get_orphaned and orphan_new                                             *)
MissedReqs(caps, gone) ==
    UNION {{<<o, r>> : r \in {q \in db.reqs[o] : RequiresCap(q, c)}} :
               o \in UNION {WhatRequires(db, c, gone) : c \in caps}, c \in caps}

(* A bug: only packages marked by hand replace anything.                   *)
ProcessObsoletesByHand ==
    /\ Running("obsoletes")
    /\ LET p == Top.pkg
           old == IF opts.upgrade /\ p \in hand THEN ObsoletedBy(p) ELSE {}
       IN  /\ unset' = unset \union old
           /\ Replace([Top EXCEPT !.at = "orphans", !.obsoleted = old,
                         !.missed = MissedReqs(UnsatisfiedCaps(p, old), Gone \union old)])
    /\ UNCHANGED <<db, opts, phase, inst, args, pms, queue, inset, hand, gray, black, errors,
                   abort, interrupted, ok>>

ProcessObsoletes ==
    /\ Running("obsoletes")
    /\ LET p == Top.pkg
           old == IF opts.upgrade /\ ~ interrupted THEN ObsoletedBy(p) ELSE {}
       IN  /\ unset' = unset \union old
           /\ Replace([Top EXCEPT !.at = "orphans", !.obsoleted = old,
                         !.missed = MissedReqs(UnsatisfiedCaps(p, old), Gone \union old)])
    /\ UNCHANGED <<db, opts, phase, inst, args, pms, queue, inset, hand, gray, black, errors,
                   abort, interrupted, ok>>

-----------------------------------------------------------------------------
(* i3_process_orphan, one requirement after the other.                     *)
Orphan(o, r) ==
    /\ Running("orphans") /\ ~ Stopped /\ <<o, r>> \in Top.missed
    /\ Top.orphan = o \/ \A m \in Top.missed : m[1] # Top.orphan

OrphanLeft(o, r) == [Top EXCEPT !.orphan = o, !.missed = @ \ {<<o, r>>}]

(* Upgraded meanwhile, or the requirement is not missed.                   *)
SkipOrphan(o, r) ==
    /\ Orphan(o, r)
    /\ IF o \in unset THEN Replace([Top EXCEPT !.missed = {m \in @ : m[1] # o}])
       ELSE /\ ~ Provided(unset, r) \/ MetByInset(r) \/ MetByDb(r)
            /\ Replace(OrphanLeft(o, r))
    /\ UNCHANGED <<db, opts, phase, inst, args, pms, queue, ictx, interrupted, ok>>

Missed(o, r) ==
    /\ Orphan(o, r) /\ o \notin unset
    /\ Provided(unset, r) /\ ~ MetByInset(r) /\ ~ MetByDb(r)

(* find_successor: a newer version, or who provides or obsoletes its name; *)
(* i3_select_best_pkg may return the index of a BLACK one.                 *)
Successors(o) ==
    LET newer == {p \in db.avail : Newer(p, o)}
        others == {p \in db.avail : NameOf(p) # NameOf(o)}
        providing == {p \in others : \E c \in db.caps[p] : c.name = NameOf(o)}
        obsoleting == {p \in others : \E c \in db.obsl[p] : c.name = NameOf(o)}
    IN  IF newer # {} THEN newer
        ELSE IF ~ opts.obsoletes THEN {}
        ELSE IF providing \ black # {} THEN providing
        ELSE IF obsoleting \ black # {} THEN obsoleting ELSE {}

(* try_to_upgrade_orphan                                                   *)
Upgrades(s, r) == s \in inset \union pms \/ ~ \E q \in db.reqs[s] : RequiresCap(q, r)
NotUpgraded(o, r) == Successors(o) = {} \/ \E s \in Successors(o) : ~ Upgrades(s, r)

UpgradeOrphan(o, r, s) ==
    /\ Missed(o, r) /\ (NoPkg \in Best(o, r) \/ opts.greedy)
    /\ s \in Successors(o) /\ Upgrades(s, r)
    /\ ProcessPackage(OrphanLeft(o, r), s, FALSE)
    /\ UNCHANGED <<db, opts, phase, inst, args, queue, interrupted, ok>>

ReplacedByUnset(p) == \E q \in unset : NameOf(q) = NameOf(p)

MarkForOrphan(o, r, p) ==
    /\ Missed(o, r) /\ opts.follow
    /\ opts.greedy => NotUpgraded(o, r)
    /\ \E left \in Left(o, r), best \in Best(o, r) \ {NoPkg} :
        best \in left /\ ~ ReplacedByUnset(best) /\ p \in Pickable(left, best)
    /\ ProcessPackage(OrphanLeft(o, r), p, FALSE)
    /\ UNCHANGED <<db, opts, phase, inst, args, queue, interrupted, ok>>

(* An error, and the end of it all if the provider is being replaced.      *)
OrphanUnmet(o, r, p) ==
    /\ Missed(o, r) /\ p \in Best(o, r)
    /\ (p = NoPkg \/ opts.greedy) => NotUpgraded(o, r)
    /\ p # NoPkg => ReplacedByUnset(p) \/ ~ opts.follow
    /\ errors' = errors \union {<<o, r>>}
    /\ abort' = (abort \/ (p # NoPkg /\ ReplacedByUnset(p)))
    /\ Replace(OrphanLeft(o, r))
    /\ UNCHANGED <<db, opts, phase, inst, args, pms, queue, inset, hand, unset, gray, black,
                   interrupted, ok>>

(* The user is asked which of the candidates to take, and quits.           *)
QuitForOrphan(o, r) ==
    /\ Missed(o, r) /\ opts.ask /\ opts.follow
    /\ \E left \in Left(o, r), best \in Best(o, r) \ {NoPkg} :
        best \in left /\ left # {best} /\ ~ ReplacedByUnset(best)
    /\ opts.greedy => NotUpgraded(o, r)
    /\ abort' = TRUE
    /\ Replace(OrphanLeft(o, r))
    /\ UNCHANGED <<db, opts, phase, inst, args, pms, queue, inset, hand, unset, gray, black,
                   errors, interrupted, ok>>

(* i3_process_pkg_requirements begins, unless it is not to.                *)
Requirements(call) ==
    [call EXCEPT !.at = "reqs", !.missed = {}, !.orphan = NoPkg, !.backtrack = FALSE,
                 !.todo = IF Stopped THEN {} ELSE db.reqs[call.pkg],
                 !.failed = Stopped /\ db.reqs[call.pkg] # {}]

OrphansProcessed ==
    /\ Running("orphans") /\ (Stopped \/ Top.missed = {})
    /\ Replace(Requirements(Top))
    /\ UNCHANGED <<db, opts, phase, inst, args, pms, queue, ictx, interrupted, ok>>

-----------------------------------------------------------------------------
(* process_req                                                             *)
Requires(r) == Running("reqs") /\ r \in Top.todo
ReqLeft(r) == [Top EXCEPT !.todo = @ \ {r}]

ReqMet(r) == MetByDb(r) \/ Top.pkg \in Providers(r) \/ MetByInset(r)

SkipReq(r) ==
    /\ Requires(r) /\ ReqMet(r)
    /\ Replace(ReqLeft(r))
    /\ UNCHANGED <<db, opts, phase, inst, args, pms, queue, ictx, interrupted, ok>>

(* Of several candidates those that cannot be satisfied may be dropped: a  *)
(* choice makes the package a crossroad, and what it marks backtrackable.  *)
MarkForReq(r, p) ==
    /\ Requires(r) /\ ~ ReqMet(r) /\ opts.follow
    /\ \E left \in Left(Top.pkg, r), best \in Best(Top.pkg, r) \ {NoPkg} :
        LET call == [ReqLeft(r) EXCEPT !.crossroad = (left # {best})]
        IN  /\ best \in left /\ p \in Pickable(left, best)
            /\ ProcessPackage(call, p, Backtrackable(call))
    /\ UNCHANGED <<db, opts, phase, inst, args, queue, interrupted, ok>>

ReqUnmet(r) ==
    /\ Requires(r) /\ ~ ReqMet(r)
    /\ NoPkg \in Best(Top.pkg, r) \/ ~ opts.follow
    /\ errors' = errors \union {<<Top.pkg, r>>}
    /\ Replace([ReqLeft(r) EXCEPT !.failed = TRUE])
    /\ UNCHANGED <<db, opts, phase, inst, args, pms, queue, inset, hand, unset, gray, black,
                   abort, interrupted, ok>>

QuitForReq(r) ==
    /\ Requires(r) /\ ~ ReqMet(r) /\ opts.ask /\ opts.follow
    /\ \E left \in Left(Top.pkg, r), best \in Best(Top.pkg, r) \ {NoPkg} :
        best \in left /\ left # {best}
    /\ abort' = TRUE
    /\ Replace([ReqLeft(r) EXCEPT !.failed = TRUE])
    /\ UNCHANGED <<db, opts, phase, inst, args, pms, queue, inset, hand, unset, gray, black,
                   errors, interrupted, ok>>

(* A candidate failed: it is BLACK now, the others may do.                 *)
Retry ==
    /\ Running("reqs") /\ Top.todo = {} /\ Top.backtrack /\ Top.crossroad
    /\ Replace(Requirements(Top))
    /\ UNCHANGED <<db, opts, phase, inst, args, pms, queue, ictx, interrupted, ok>>

Processed == Running("reqs") /\ Top.todo = {} /\ ~ (Top.backtrack /\ Top.crossroad)

(* i3_process_pkg_conflicts begins with the conflicts in the set.          *)
BeginConflicts ==
    /\ Processed /\ ~ (Top.failed /\ Backtrackable(Top))
    /\ black' = IF Top.failed THEN black \union {Top.pkg} ELSE black
    /\ errors' = IF opts.conflicts
                 THEN errors \union ({Top.pkg} \X (ConflictedBy(Top.pkg) \cap inset)) ELSE errors
    /\ UNCHANGED <<db, opts, phase, inst, args, pms, queue, inset, hand, unset, gray,
                   abort, interrupted, ok>>

(* No look-up finds a conflict with an installed package.                  *)
AtPeace(p) == \/ ~ opts.conflicts
              \/ db.cnfl[p] = {} /\ \A q \in inst : db.cnfl[q] = {}

ReqsProcessed ==
    /\ BeginConflicts /\ ~ AtPeace(Top.pkg)
    /\ Replace([Top EXCEPT !.at = "caps", !.todo = db.caps[Top.pkg]])

(* Bugs of a rollback: what the packages replaced stays in unset, they are *)
(* taken for processed, or the one that failed may be chosen again.        *)
RollbackWith(unset1, gray1, black1) ==
    /\ Processed /\ Top.failed /\ Backtrackable(Top) /\ Top.pkg \notin hand
    /\ inset' = inset \ Top.marked
    /\ unset' = unset1 /\ gray' = gray1 /\ black' = black1
    /\ errors' = {e \in errors : e[1] \notin Top.marked \union Top.obsoleted}
    /\ Return(-1)
    /\ UNCHANGED <<db, opts, phase, inst, args, pms, queue, hand, abort, interrupted, ok>>
RollbackKeepsUnset == RollbackWith(unset, gray \ Top.marked, black \union {Top.pkg})
RollbackKeepsGray == RollbackWith(unset \ Top.obsoleted, gray, black \union {Top.pkg})
RollbackForgives == RollbackWith(unset \ Top.obsoleted, gray \ Top.marked, black)

(* rollback_package: it, what it marked, and their errors.                 *)
Rollback ==
    /\ Processed /\ Top.failed /\ Backtrackable(Top) /\ Top.pkg \notin hand
    /\ black' = black \union {Top.pkg}
    /\ inset' = inset \ Top.marked
    /\ unset' = unset \ Top.obsoleted
    /\ gray' = gray \ Top.marked
    /\ errors' = {e \in errors : e[1] \notin Top.marked \union Top.obsoleted}
    /\ Return(-1)
    /\ UNCHANGED <<db, opts, phase, inst, args, pms, queue, hand, abort, interrupted, ok>>

(* A package that is marked by hand is not rolled back; but then           *)
(* i3_process_package asserts that it was.                                 *)
NoRollback ==
    /\ Processed /\ Top.failed /\ Backtrackable(Top) /\ Top.pkg \in hand
    /\ black' = black \union {Top.pkg}
    /\ phase' = IF Len(stack) > 1 THEN "crashed" ELSE phase
    /\ stack' = << >>
    /\ UNCHANGED <<db, opts, inst, args, pms, queue, inset, hand, unset, gray, errors,
                   abort, interrupted, ok>>

-----------------------------------------------------------------------------
(* Conflicts with installed packages: a look-up for each capability of the *)
(* package, and then for each of its conflicts.                            *)
LookUp(at, c) == Running(at) /\ Top.missed = {} /\ c \in Top.todo
Found(c, conflicts) == Replace([Top EXCEPT !.todo = @ \ {c}, !.missed = conflicts])

(* find_db_conflicts_dbcnfl_with_cap: who has a conflict of that name is   *)
(* looked at with all its conflicts.                                       *)
LookUpCap(c) ==
    /\ LookUp("caps", c)
    /\ LET named == {q \in inst \ unset : \E x \in db.cnfl[q] : x.name = c.name}
       IN  Found(c, UNION {{<<q, x>> : x \in {y \in Cnfls(q) : CapMatchReq(c, y)}} : q \in named})
    /\ UNCHANGED <<db, opts, phase, inst, args, pms, queue, ictx, interrupted, ok>>

CapsLookedUp ==
    /\ Running("caps") /\ Top.missed = {} /\ Top.todo = {}
    /\ Replace([Top EXCEPT !.at = "cnfls", !.todo = db.cnfl[Top.pkg]])
    /\ UNCHANGED <<db, opts, phase, inst, args, pms, queue, ictx, interrupted, ok>>

(* find_db_conflicts_cnfl_with_db                                          *)
LookUpCnfl(x) ==
    /\ LookUp("cnfls", x)
    /\ Found(x, {q \in inst \ unset : Satisfies(db, q, x)} \X {x})
    /\ UNCHANGED <<db, opts, phase, inst, args, pms, queue, ictx, interrupted, ok>>

(* resolve_conflict of Top.pkg and the installed q over x: a newer q that  *)
(* does not have it, or who provides the opposite of x and obsoletes q, or *)
(* anybody who obsoletes q (and whose name is after q's).                  *)
Conflict(q, x) == (Running("caps") \/ Running("cnfls")) /\ <<q, x>> \in Top.missed
ConflictLeft(q, x) == [Top EXCEPT !.missed = @ \ {<<q, x>>}]

Opposite(x) == [x EXCEPT !.rel = {"LT", "EQ", "GT"} \ @]     \* capreq_revrel
Resolvable(x) == opts.follow /\ x.rel # {}

CapsObsolete(p, q) == \E x \in db.obsl[p] : x.name = NameOf(q) /\ Satisfies(db, q, x)
Obsoletes(p, q) == IF NameOf(p) = NameOf(q) THEN Newer(p, q) ELSE CapsObsolete(p, q)

Direct(q, x) ==
    LET newer == {p \in db.avail : Newer(p, q) /\ x \notin Cnfls(p)}
    IN  {p \in newer : ~ \E r \in newer : Newer(r, p)}
Indirect(q, x) == {p \in db.avail : /\ CapsObsolete(p, q) /\ x \notin Cnfls(p)
                                    /\ \/ NameRank[NameOf(p)] > NameRank[NameOf(q)]
                                       \/ Newer(p, q)}

ByOpposite(q, x) == /\ Conflict(q, x) /\ Resolvable(x) /\ Direct(q, x) = {}
                    /\ ~ Satisfies(db, Top.pkg, Opposite(x)) /\ ~ MetByInset(Opposite(x))

Replacement(q, x, p) ==
    /\ Conflict(q, x) /\ Resolvable(x)
    /\ \/ p \in Direct(q, x)
       \/ ByOpposite(q, x) /\ NoPkg \in Best(Top.pkg, Opposite(x)) /\ p \in Indirect(q, x)

(* Who replaces q is in the set, or the opposite is met.                   *)
ConflictResolved(q, x) ==
    /\ Conflict(q, x) /\ Resolvable(x)
    /\ \/ \E p \in inset : Replacement(q, x, p)
       \/ Direct(q, x) = {} /\ ~ ByOpposite(q, x)
    /\ Replace(ConflictLeft(q, x))
    /\ UNCHANGED <<db, opts, phase, inst, args, pms, queue, ictx, interrupted, ok>>

Picked(q, x, p) ==
    /\ ByOpposite(q, x)
    /\ \E left \in Left(Top.pkg, Opposite(x)), best \in Best(Top.pkg, Opposite(x)) \ {NoPkg} :
        best \in left /\ p \in Pickable(left, best)

MarkForConflict(q, x, p) ==
    /\ (p \notin inset /\ Replacement(q, x, p)) \/ (Picked(q, x, p) /\ Obsoletes(p, q))
    /\ ProcessPackage(ConflictLeft(q, x), p, FALSE)
    /\ UNCHANGED <<db, opts, phase, inst, args, queue, interrupted, ok>>

Unresolved(q, x) ==
    /\ errors' = errors \union {<<Top.pkg, q>>}
    /\ Replace(ConflictLeft(q, x))
    /\ UNCHANGED <<db, opts, phase, inst, args, pms, queue, inset, hand, unset, gray, black,
                   interrupted, ok>>

ConflictUnresolved(q, x) ==
    /\ Conflict(q, x)
    /\ \/ ~ Resolvable(x)
       \/ \E p \in db.avail : Picked(q, x, p) /\ ~ Obsoletes(p, q)
       \/ /\ ByOpposite(q, x) /\ NoPkg \in Best(Top.pkg, Opposite(x))
          /\ Indirect(q, x) = {}
    /\ Unresolved(q, x) /\ UNCHANGED abort

QuitForConflict(q, x) ==
    /\ ByOpposite(q, x) /\ opts.ask
    /\ \E left \in Left(Top.pkg, Opposite(x)), best \in Best(Top.pkg, Opposite(x)) \ {NoPkg} :
        best \in left /\ left # {best}
    /\ abort' = TRUE
    /\ Unresolved(q, x)

(* Nobody offers a package of q's name: find_direct_replacement gives      *)
(* n_array_free, which is trurlib's, the NULL it found.                    *)
NothingToFree(q, x) ==
    /\ Conflict(q, x) /\ Resolvable(x) /\ \A p \in db.avail : NameOf(p) # NameOf(q)
    /\ phase' = "crashed" /\ stack' = << >>
    /\ UNCHANGED <<db, opts, inst, args, pms, queue, ictx, interrupted, ok>>

ConflictsProcessed ==
    /\ Running("cnfls") /\ Top.missed = {} /\ Top.todo = {}
    /\ UNCHANGED <<db, opts, phase, inst, args, pms, queue, ictx, interrupted, ok>>

PackageDone ==
    /\ ConflictsProcessed \/ (BeginConflicts /\ AtPeace(Top.pkg))
    /\ Return(1)

-----------------------------------------------------------------------------
(* The user's ^C.                                                          *)
Interrupt ==
    /\ phase = "process" /\ ~ interrupted
    /\ interrupted' = TRUE
    /\ UNCHANGED <<db, opts, phase, inst, args, pms, queue, ictx, stack, ok>>

Reset ==
    /\ inset' = {} /\ hand' = {} /\ unset' = {} /\ gray' = {} /\ black' = {} /\ errors' = {}
    /\ abort' = FALSE /\ queue' = {}

(* install_packages, when all is processed: an interrupt, an abort or an   *)
(* error ends it, if no --nodeps forgives it; so does poldek's own --test. *)
Resolved ==
    /\ phase = "process" /\ stack = << >> /\ queue = {}

Fatal(e) == e[2] \in Pkg \/ ~ opts.nodeps

GroupFails ==
    /\ Resolved /\ (Stopped \/ (\E e \in errors : Fatal(e)) \/ opts.test)
    /\ ok' = (ok /\ ~ Stopped /\ errors = {})
    /\ Reset /\ phase' = "mark"
    /\ UNCHANGED <<db, opts, inst, args, pms, stack, interrupted>>

RunInstall ==
    /\ Resolved /\ ~ Stopped /\ (\A e \in errors : ~ Fatal(e)) /\ ~ opts.test
    /\ phase' = "install"
    /\ UNCHANGED <<db, opts, inst, args, pms, queue, ictx, stack, interrupted, ok>>

(* poldek__ts_confirm, packages_fetch, rpm: the user declines, a file      *)
(* cannot be fetched, or rpm refuses.                                      *)
NotInstalled ==
    /\ phase = "install"
    /\ ok' \in {ok, FALSE}
    /\ Reset /\ phase' = "mark"
    /\ UNCHANGED <<db, opts, inst, args, pms, stack, interrupted>>

Installed ==
    /\ phase = "install"
    /\ inst' = (inst \ unset) \union inset
    /\ Reset /\ phase' = "mark"
    /\ UNCHANGED <<db, opts, args, pms, stack, interrupted, ok>>

Finished == phase \in {"done", "crashed"} /\ UNCHANGED vars

Step ==
    \/ \E wanted \in Requests : Resolve(wanted)
    \/ \E group \in SUBSET pms : MarkGroup(group)
    \/ \E p \in Pkg : SkipArgument(p)
    \/ MarkDone
    \/ \E p \in Pkg : InstallPackage(p)
    \/ ProcessObsoletes
    \/ \E m \in Missing : SkipOrphan(m[1], m[2])
    \/ \E m \in Missing, p \in Pkg : UpgradeOrphan(m[1], m[2], p)
    \/ \E m \in Missing, p \in Pkg : MarkForOrphan(m[1], m[2], p)
    \/ \E m \in Missing, p \in Pkg \union {NoPkg} : OrphanUnmet(m[1], m[2], p)
    \/ \E m \in Missing : QuitForOrphan(m[1], m[2])
    \/ OrphansProcessed
    \/ \E r \in Todo : SkipReq(r)
    \/ \E r \in Todo, p \in Pkg : MarkForReq(r, p)
    \/ \E r \in Todo : ReqUnmet(r)
    \/ \E r \in Todo : QuitForReq(r)
    \/ Retry
    \/ ReqsProcessed
    \/ \E c \in Todo : LookUpCap(c)
    \/ CapsLookedUp
    \/ \E x \in Todo : LookUpCnfl(x)
    \/ \E m \in Missing : ConflictResolved(m[1], m[2])
    \/ \E m \in Missing, p \in Pkg : MarkForConflict(m[1], m[2], p)
    \/ \E m \in Missing : ConflictUnresolved(m[1], m[2])
    \/ \E m \in Missing : QuitForConflict(m[1], m[2])
    \/ \E m \in Missing : NothingToFree(m[1], m[2])
    \/ PackageDone
    \/ Rollback
    \/ NoRollback
    \/ GroupFails
    \/ RunInstall
    \/ NotInstalled
    \/ Installed

Next == Step \/ Interrupt \/ Finished

Spec == Init /\ [][Next]_vars /\ WF_vars(Step)

-----------------------------------------------------------------------------
(* Who does not remove an installed package q though the solver takes it   *)
(* for somebody who does.                                                  *)

(* An Obsoletes resolves a conflict if it matches any capability of the    *)
(* name of the obsoleted package (pkg_caps_obsoletes_pkg_caps), but        *)
(* removes a package by its own version only.                              *)
SeemsToObsolete(s, q) == CapsObsolete(s, q) /\ ~ Replaces(s, q)

(* find_successor, where there is no newer version, takes whoever provides *)
(* or obsoletes the name of an orphan for its upgrade (requirements.c:317- *)
(* 353), but only a matching Obsoletes removes it.                         *)
SeemsToSucceed(s, q) ==
    /\ opts.obsoletes /\ NameOf(s) # NameOf(q) /\ \A p \in db.avail : ~ Newer(p, q)
    /\ \E c \in db.caps[s] \union db.obsl[s] : c.name = NameOf(q)
    /\ ~ Replaces(s, q)

(* An installed provider of r, who was not p's to replace, goes by this    *)
(* same transaction.  What another package of the set replaces is looked   *)
(* for among the requirements of installed packages only (get_orphaned,    *)
(* obsoletes.c:74-107), not of those that are to be installed.             *)
TakenByAnother(p, r) == \E q \in unset : Satisfies(db, q, r) /\ ~ Replaces(p, q)

-----------------------------------------------------------------------------
(* Between the marking of a group and the end of its transaction.          *)
Transacting == phase \in {"process", "install"}
After == (inst \ unset) \union inset

(* What the user asked for is never given up: rollback_package stops at a  *)
(* package marked by hand, wherever in the tree of choices it was reached. *)
HandMarkedStay == Transacting => hand \subseteq inset

(* Nothing is removed for nothing: i3_process_pkg_obsoletes marks packages *)
(* for removal and rollback_package has to take back what the packages it  *)
(* unmarks replaced, directly or through what they marked.                 *)
RemovalsAreReplaced == Transacting => \A q \in unset : \E p \in inset : Replaces(p, q)

(* The hand-marked packages and the others are processed apart: all are    *)
(* one group and no orphan's upgrade brings one in early.                  *)
AskedApart == ~ Particle /\ \A q \in inst : db.reqs[q] = {}

(* The package manager is never left with an old version or an obsoleted   *)
(* package beside what replaces it, even when a rollback restored it and   *)
(* the replacement came back by another way ("this package may be used     *)
(* again and we have to process it", process.c:81-83).                     *)
ReplacedAreRemoved ==
    phase = "install" /\ opts.upgrade /\ (black = {} \/ AskedApart)
        => \A p \in inset : ObsoletedBy(p) = {}

(* What goes is what is replaced, no less and no more, whatever has been   *)
(* given up, taken back and chosen again meanwhile (install3/obsoletes.c,  *)
(* process.c:60-138).                                                      *)
ObsoletesAreExact == RemovalsAreReplaced /\ ReplacedAreRemoved

(* What is going to be installed finds its requirements in what there will *)
(* be after the transaction, or the user is told (i3_error): process_req   *)
(* and the backtracking lose no requirement of a package that did not      *)
(* fail, nor does it lean on what the package itself replaces.  What the   *)
(* code does lose is a requirement that an installed package met when it   *)
(* was processed and that another package of the set takes away.           *)
UnmetIsKnown ==
    phase = "install" /\ (black = {} \/ AskedApart) =>
        \A p \in inset \ black : \A r \in db.reqs[p] :
            Provided(After, r) \/ <<p, r>> \in errors \/ TakenByAnother(p, r)

(* p conflicts with q, and resolve_conflict does not take it for resolved  *)
(* because the opposite of the conflict is going to be installed.          *)
Clash(p, q) == \E x \in db.cnfl[p] : /\ Satisfies(db, q, x)
                                     /\ x.rel = {} \/ ~ Provided(inset, Opposite(x))

(* What is going to be installed does not conflict with what stays, nor    *)
(* with what the user asked for together with it: the conflict was         *)
(* resolved by a replacement that removes the other one, or is an error,   *)
(* and no other step has lost either (install3/conflicts.c).  A package    *)
(* marked after one that conflicts with it is not looked at, a replacement *)
(* removes nothing without --upgrade and obsoletes, and one that only      *)
(* seems to obsolete the other leaves it where it is.                      *)
NoConflictsInstalled ==
    phase = "install" /\ opts.conflicts /\ opts.upgrade /\ opts.obsoletes /\ black = {} =>
        /\ \A p \in inset, q \in inst \ unset :
              Clash(p, q) \/ Clash(q, p) => \E s \in inset : SeemsToObsolete(s, q)
        /\ ~ Particle => \A p \in inset : \A q \in hand \ {p} : ~ Clash(p, q)

(* Nothing reaches the package manager that poldek should have refused:    *)
(* neither an unmet requirement nor a conflict gets lost while packages    *)
(* are chosen, given up and upgraded (i3_error, i3_forget_error).          *)
NothingIsHidden == UnmetIsKnown /\ NoConflictsInstalled

(* An upgrade takes no requirement away from an installed package that     *)
(* stays, unless the user is told: get_orphaned finds what it orphans and  *)
(* process_orphan_req mends it.  pkg_requires_cap misses the requirements  *)
(* without a version, so it is about the others; and who is installed      *)
(* because it seems to succeed the orphan, mends nothing.                  *)
OrphansKeptWhole ==
    phase = "install" /\ black = {} =>
        \A o \in inst \ unset : \A r \in db.reqs[o] :
            r.rel # {} /\ Provided(inst, r) =>
                \/ Provided(After, r) \/ <<o, r>> \in errors
                \/ \E s \in inset : SeemsToSucceed(s, o)

(* The backtracking ends: each retry of do_process_package leaves one more *)
(* package BLACK, so i3_process_pkg_requirements runs out of choices.      *)
Terminates == <>(phase \in {"done", "crashed"})
=============================================================================
