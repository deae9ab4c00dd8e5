----------------------------- MODULE Uninstall -----------------------------
(***************************************************************************)
(* do_poldek_ts_uninstall (uninstall.c): resolve the arguments to          *)
(* installed packages, mark them, follow what their removal breaks and,    *)
(* with "greedy", what it leaves unneeded, then run the package manager.   *)
(*                                                                         *)
(* process_package, process_pkg_reqs and process_pkg_rev_orphans call each *)
(* other; the C stack is the variable stack, one record per active call.   *)
(* process_pkg_reqs changes nothing after the package it works on is       *)
(* marked, so it is one step that ends in a call.                          *)
(***************************************************************************)
EXTENDS PkgDB, Sequences

CONSTANTS Databases,    \* database contents a run may meet
          Id,           \* what pkg_id() returns, the key of every mark
          PkgId,        \* [Pkg -> Id]
          SelfCap,      \* [Pkg -> Cap], each package's name and version
          Options       \* option combinations of a transaction

ASSUME DatabasesAssumption == Databases \subseteq Database
ASSUME PkgIdAssumption == PkgId \in [Pkg -> Id] /\ SelfCap \in [Pkg -> Cap]

(* greedy is uninstall_greedy_deep, 0 when POLDEK_OP_GREEDY is off.        *)
Option == [follow : BOOLEAN, greedy : Nat, autodirdep : BOOLEAN,
           test : BOOLEAN, rpmtest : BOOLEAN, track : BOOLEAN]

(* --test --test sets both; cmd_uninstall tracks only what is no test.     *)
ASSUME OptionsAssumption ==
    Options \subseteq {o \in Option : (o.rpmtest => o.test) /\ (o.track => ~ o.test)}

VARIABLES db,           \* the records of the database, read only
          opts,
          phase,        \* where do_poldek_ts_uninstall is
          unpkgs,       \* uctx->unpkgs, what is going to be removed
          hand,         \* marked ids in ts->pms: asked for by the user
          dep,          \*   ... and reached by dependencies
          gray,         \* ids in uctx->pms with PKGMARK_GRAY
          revorph,      \*   ... and with DBPKG_REV_ORPHANED
          tmp,          \* arguments do_process has still to process
          stack,        \* active calls, the innermost last
          interrupted,  \* sigint_reached()
          inst,         \* packages in the system's database
          removed,      \* ts->pkgs_removed
          ok            \* the result, nerr == 0

vars == <<db, opts, phase, unpkgs, hand, dep, gray, revorph, tmp, stack,
          interrupted, inst, removed, ok>>
marks == <<hand, dep, gray, revorph>>

Phase == {"resolve", "process", "run", "verify", "done"}

PackageCall == [fn : {"process_package"}, pkg : Pkg,
                at : {"rev_orphans", "get_orphaned", "reqs"}, orphans : SUBSET Pkg]
RevOrphansCall == [fn : {"rev_orphans"}, pkg : Pkg, deep : Nat,
                   reqs : SUBSET Name,      \* requirements left to look at
                   dbpkgs : SUBSET Pkg,     \* found so far, kept across them
                   todo : SUBSET Pkg]       \* of these, left to visit now

TypeOK ==
    /\ opts \in Options /\ phase \in Phase
    /\ unpkgs \subseteq Pkg /\ tmp \subseteq unpkgs
    /\ hand \subseteq Id /\ dep \subseteq Id /\ gray \subseteq Id /\ revorph \subseteq Id
    /\ stack \in Seq(PackageCall \union RevOrphansCall)
    /\ \A i \in DOMAIN stack : stack[i].pkg \in unpkgs
    /\ interrupted \in BOOLEAN
    /\ inst \subseteq Pkg /\ removed \subseteq unpkgs /\ ok \in BOOLEAN

-----------------------------------------------------------------------------
(* The C stack.                                                            *)

Top == stack[Len(stack)]
Below == SubSeq(stack, 1, Len(stack) - 1)
Return == stack' = Below
Replace(call) == stack' = Append(Below, call)
ReplaceAndCall(call, callee) == stack' = Append(Append(Below, call), callee)

Running(fn) == phase = "process" /\ stack # << >> /\ Top.fn = fn

PackageFrame(p, at, orphans) ==
    [fn |-> "process_package", pkg |-> p, at |-> at, orphans |-> orphans]
RevOrphansFrame(p, deep, reqs, dbpkgs, todo) ==
    [fn |-> "rev_orphans", pkg |-> p, deep |-> deep, reqs |-> reqs,
     dbpkgs |-> dbpkgs, todo |-> todo]

Marked(p) == PkgId[p] \in hand \union dep        \* pkg_is_marked(ts->pms, p)

(* The capabilities get_orphanedby_pkg and pkg_leave_orphans ask about:    *)
(* the bare name, what the package provides, its files.                    *)
OwnCaps(p) == db.caps[p] \union {Unversioned(SelfCap[p].name)}

(* The requirements process_pkg_reqs iterates over: not rpmlib(), not      *)
(* those of pre/postun scriptlets only, and with PKG_ITER_REQDIR also the  *)
(* directories of the package's files.                                     *)
IteratedReqs(p) ==
    (db.reqs[p] \ db.skipped[p]) \union
    (IF opts.autodirdep THEN {Unversioned(d) : d \in db.dirs[p]} ELSE {})

ReqNames(p) == {r.name : r \in db.reqs[p]}

-----------------------------------------------------------------------------
Init ==
    /\ db \in Databases /\ opts \in Options
    /\ phase = "resolve"
    /\ unpkgs = {} /\ hand = {} /\ dep = {} /\ gray = {} /\ revorph = {}
    /\ tmp = {} /\ stack = << >>
    /\ interrupted = FALSE
    /\ inst = Pkg /\ removed = {} /\ ok = TRUE

(* A mask that matches nothing is an error; no masks at all is not.        *)
ResolveNothing ==
    /\ phase = "resolve"
    /\ phase' = "done"
    /\ ok' \in BOOLEAN
    /\ UNCHANGED <<db, opts, unpkgs, marks, tmp, stack, interrupted, inst, removed>>

(* resolve_packages found the packages `found`; do_process marks them.     *)
Resolve(found) ==
    /\ phase = "resolve" /\ found # {}
    /\ unpkgs' = found
    /\ hand' = {PkgId[p] : p \in found}
    /\ tmp' = IF opts.follow THEN found ELSE {}
    /\ phase' = "process"
    /\ UNCHANGED <<db, opts, dep, gray, revorph, stack, interrupted, inst, removed, ok>>

(* A bug: what is marked is not processed in turn.                         *)
ProcessPackageLater(caller, p) ==
    /\ gray' = gray \union {PkgId[p]}
    /\ stack' = IF caller # << >> THEN caller
                ELSE <<PackageFrame(p, "rev_orphans", {})>>

(* process_package(p), called with `caller` as the rest of the stack: a    *)
(* gray package was there already.                                         *)
ProcessPackage(caller, p) ==
    /\ gray' = gray \union {PkgId[p]}
    /\ stack' = IF PkgId[p] \in gray THEN caller
                ELSE Append(caller, PackageFrame(p, "rev_orphans", {}))

NextArgument(p) ==
    /\ phase = "process" /\ stack = << >> /\ p \in tmp
    /\ tmp' = tmp \ {p}
    /\ ProcessPackage(<< >>, p)
    /\ UNCHANGED <<db, opts, phase, unpkgs, hand, dep, revorph, interrupted, inst, removed, ok>>

ProcessRevOrphans ==
    /\ Running("process_package") /\ Top.at = "rev_orphans"
    /\ LET next == PackageFrame(Top.pkg, "get_orphaned", {})
       IN  IF opts.greedy > 0
           THEN ReplaceAndCall(next, RevOrphansFrame(Top.pkg, 1, ReqNames(Top.pkg), {}, {}))
           ELSE Replace(next)
    /\ UNCHANGED <<db, opts, phase, unpkgs, marks, tmp, interrupted, inst, removed, ok>>

(* A bug: only who requires the package's name is asked for.               *)
OrphanedByName(p) == WhatRequires(db, Unversioned(SelfCap[p].name), unpkgs)

(* get_orphanedby_pkg; an interrupted query finds nothing.                 *)
OrphanedBy(p) == UNION {WhatRequires(db, c, unpkgs) : c \in OwnCaps(p)}

GetOrphaned ==
    /\ Running("process_package") /\ Top.at = "get_orphaned"
    /\ IF interrupted THEN Return
       ELSE Replace(PackageFrame(Top.pkg, "reqs", {q \in OrphanedBy(Top.pkg) : ~ Marked(q)}))
    /\ UNCHANGED <<db, opts, phase, unpkgs, marks, tmp, interrupted, inst, removed, ok>>

(* A bug: the database is asked strictly, as pkg_satisfies_req is.         *)
MetByDbStrictly(r) == MatchReq(db, r, {}, unpkgs)

(* uctx->strict, which is 1, goes for the flags of pkgdb_match_req: that   *)
(* is POLDEK_MA_PROMOTE_VERSION.                                           *)
MetByDb(r) == MatchReq(db, r, {"VERSION"}, unpkgs)

(* q has a requirement that packages to be removed satisfy and nothing     *)
(* else is taken for.  One that none of them satisfies was not satisfied   *)
(* before: it is ignored.                                                  *)
LosesReq(q) ==
    \E r \in IteratedReqs(q) : /\ ~ Satisfies(db, q, r)
                               /\ ~ MetByDb(r)
                               /\ \E u \in unpkgs : Satisfies(db, u, r)

Spared(q) == interrupted \/ Marked(q) \/ ~ LosesReq(q)

OrphanLeft(q) == PackageFrame(Top.pkg, "reqs", Top.orphans \ {q})

SpareOrphan(q) ==
    /\ Running("process_package") /\ Top.at = "reqs" /\ q \in Top.orphans
    /\ Spared(q)
    /\ Replace(OrphanLeft(q))
    /\ UNCHANGED <<db, opts, phase, unpkgs, marks, tmp, interrupted, inst, removed, ok>>

MarkOrphan(q) ==
    /\ Running("process_package") /\ Top.at = "reqs" /\ q \in Top.orphans
    /\ ~ Spared(q)
    /\ dep' = dep \union {PkgId[q]}
    /\ unpkgs' = unpkgs \union {q}
    /\ ProcessPackage(Append(Below, OrphanLeft(q)), q)
    /\ UNCHANGED <<db, opts, phase, hand, revorph, tmp, interrupted, inst, removed, ok>>

PackageProcessed ==
    /\ Running("process_package") /\ Top.at = "reqs" /\ Top.orphans = {}
    /\ Return
    /\ UNCHANGED <<db, opts, phase, unpkgs, marks, tmp, interrupted, inst, removed, ok>>

(* A bug: the requirement is not taken off the list.                       *)
SameRequirement(n) ==
    /\ Running("rev_orphans") /\ Top.todo = {} /\ n \in Top.reqs
    /\ LET found == Top.dbpkgs \union Search(db, n, unpkgs)
       IN  Replace(RevOrphansFrame(Top.pkg, Top.deep, Top.reqs, found, found))
    /\ UNCHANGED <<db, opts, phase, unpkgs, marks, tmp, interrupted, inst, removed, ok>>

(* process_pkg_rev_orphans: the providers found for earlier requirements   *)
(* stay in dbpkgs and are visited again for each later one.                *)
NextRequirement(n) ==
    /\ Running("rev_orphans") /\ Top.todo = {} /\ n \in Top.reqs
    /\ LET found == Top.dbpkgs \union Search(db, n, unpkgs)
       IN  Replace(RevOrphansFrame(Top.pkg, Top.deep, Top.reqs \ {n}, found, found))
    /\ UNCHANGED <<db, opts, phase, unpkgs, marks, tmp, interrupted, inst, removed, ok>>

(* A bug: only who requires the provider's name keeps it.                  *)
LeavesOrphansByName(p) == IsRequired(db, Unversioned(SelfCap[p].name), unpkgs \union {p})

(* pkg_leave_orphans: packages that require themselves are let through.    *)
LeavesOrphans(p) == \E c \in OwnCaps(p) : IsRequired(db, c, unpkgs \union {p})

KeepProvider(c) ==
    /\ Running("rev_orphans") /\ c \in Top.todo
    /\ PkgId[c] \in revorph \/ LeavesOrphans(c)
    /\ Replace([Top EXCEPT !.todo = @ \ {c}])
    /\ UNCHANGED <<db, opts, phase, unpkgs, marks, tmp, interrupted, inst, removed, ok>>

RemoveProvider(c) ==
    /\ Running("rev_orphans") /\ c \in Top.todo
    /\ PkgId[c] \notin revorph /\ ~ LeavesOrphans(c)
    /\ revorph' = revorph \union {PkgId[c]}
    /\ dep' = dep \union {PkgId[c]}
    /\ unpkgs' = unpkgs \union {c}
    /\ LET next == [Top EXCEPT !.todo = @ \ {c}]
       IN  IF opts.greedy > Top.deep
           THEN ReplaceAndCall(next, RevOrphansFrame(c, Top.deep + 1, ReqNames(c), {}, {}))
           ELSE Replace(next)
    /\ UNCHANGED <<db, opts, phase, hand, gray, tmp, interrupted, inst, removed, ok>>

RevOrphansProcessed ==
    /\ Running("rev_orphans") /\ Top.todo = {} /\ Top.reqs = {}
    /\ Return
    /\ UNCHANGED <<db, opts, phase, unpkgs, marks, tmp, interrupted, inst, removed, ok>>

(* The user's ^C.  Nothing resets it before the command ends.              *)
Interrupt ==
    /\ phase = "process" /\ ~ interrupted
    /\ interrupted' = TRUE
    /\ UNCHANGED <<db, opts, phase, unpkgs, marks, tmp, stack, inst, removed, ok>>

(* do_process is over; --test ends here unless rpm is to test too.         *)
Processed ==
    /\ phase = "process" /\ stack = << >> /\ tmp = {}
    /\ phase' = IF opts.test /\ ~ opts.rpmtest THEN "done" ELSE "run"
    /\ UNCHANGED <<db, opts, unpkgs, marks, tmp, stack, interrupted, inst, removed, ok>>

(* poldek__ts_confirm; rpm --test asks nothing.                            *)
Decline ==
    /\ phase = "run" /\ ~ opts.rpmtest
    /\ phase' = "done"
    /\ UNCHANGED <<db, opts, unpkgs, marks, tmp, stack, interrupted, inst, removed, ok>>

(* pm_pmuninstall succeeds: update_iinf trusts it.                         *)
Uninstalled ==
    /\ phase = "run"
    /\ inst' = IF opts.rpmtest THEN inst ELSE inst \ unpkgs
    /\ removed' = IF opts.track THEN unpkgs ELSE removed
    /\ phase' = "done"
    /\ UNCHANGED <<db, opts, unpkgs, marks, tmp, stack, interrupted, ok>>

(* rpm fails, some packages may be gone.                                   *)
UninstallFails(gone) ==
    /\ phase = "run" /\ gone \subseteq unpkgs
    /\ opts.rpmtest => gone = {}
    /\ inst' = inst \ gone
    /\ ok' = FALSE
    /\ phase' = IF opts.track THEN "verify" ELSE "done"
    /\ UNCHANGED <<db, opts, unpkgs, marks, tmp, stack, interrupted, removed>>

(* pkgdb_is_pkg_installed: some record has the name and the EVR.           *)
IsPkgInstalled(p) == \E i \in inst : SelfCap[i] = SelfCap[p]

(* A bug: the failure is not looked into.                                  *)
VerifyNothing ==
    /\ phase = "verify"
    /\ removed' = unpkgs
    /\ phase' = "done"
    /\ UNCHANGED <<db, opts, unpkgs, marks, tmp, stack, interrupted, inst, ok>>

(* update_iinf after a failure.                                            *)
Verify ==
    /\ phase = "verify"
    /\ removed' = {p \in unpkgs : ~ IsPkgInstalled(p)}
    /\ phase' = "done"
    /\ UNCHANGED <<db, opts, unpkgs, marks, tmp, stack, interrupted, inst, ok>>

Finished == phase = "done" /\ UNCHANGED vars

Step ==
    \/ ResolveNothing
    \/ \E found \in SUBSET Pkg : Resolve(found)
    \/ \E p \in Pkg : NextArgument(p)
    \/ ProcessRevOrphans
    \/ GetOrphaned
    \/ \E q \in Pkg : SpareOrphan(q)
    \/ \E q \in Pkg : MarkOrphan(q)
    \/ PackageProcessed
    \/ \E n \in Name : NextRequirement(n)
    \/ \E c \in Pkg : KeepProvider(c)
    \/ \E c \in Pkg : RemoveProvider(c)
    \/ RevOrphansProcessed
    \/ Processed
    \/ Decline
    \/ Uninstalled
    \/ \E gone \in SUBSET Pkg : UninstallFails(gone)
    \/ Verify

Next == Step \/ Interrupt \/ Finished

(* The program is one thread that runs until it returns; the user need not *)
(* interrupt it.                                                           *)
Spec == Init /\ [][Next]_vars /\ WF_vars(Step)

-----------------------------------------------------------------------------
(* The plan is settled: the dependencies were followed to their end.       *)
Settled == phase \in {"run", "verify", "done"} /\ unpkgs # {} /\ ~ interrupted

(* A requirement of a package that stays, satisfied before the removal and *)
(* by nothing that is left, not even by a package that provides its name   *)
(* without a version or a release.                                         *)
Broken(q, r) == /\ ~ MatchReq(db, r, {"VERSION"}, unpkgs)
                /\ \E u \in unpkgs : Satisfies(db, u, r)

(* With --follow nothing that stays loses a requirement: "Packages are     *)
(* removed with its reverse dependencies" (doc/NEWS.xml).  It takes the    *)
(* whole recursion of process_package to get there.  It fails in one way:  *)
(* a versioned requirement is met by an unversioned provider for a while,  *)
(* and when that one is removed in turn, a package that provides the name  *)
(* itself, in another version, is not asked again.                         *)
ReverseDepsFollowed ==
    Settled /\ opts.follow =>
        \A q \in Pkg \ unpkgs : \A r \in db.reqs[q] \ db.skipped[q] :
            Broken(q, r) => SelfMatched(db, q, r, unpkgs)

(* pkgs_removed, which the shell takes off its list of installed packages, *)
(* never names one that is still installed: "don't remove pkg from install *)
(* list if removal fails", "... if --test is used" (doc/NEWS.xml).         *)
RemovedIsGone == removed \cap inst = {}

(* --test and --test --test leave the system as it is.                     *)
TestRemovesNothing == opts.test \/ opts.rpmtest => inst = Pkg

(* Nothing is removed without a reason: each package was asked for, lost a *)
(* requirement, or is a provider that --greedy found unneeded.             *)
Justified(p) ==
    \/ PkgId[p] \in hand
    \/ \E r \in IteratedReqs(p) : Broken(p, r)
    \/ /\ opts.greedy > 0
       /\ \A q \in Pkg \ unpkgs : \A c \in db.caps[p] : ~ RequiresName(db, q, c.name)

RemovalsJustified == \A p \in unpkgs : Justified(p)

(* However the dependencies run in circles, processing ends.               *)
Terminates == <>(phase = "done")

(* The plan of RemovalPlan: sealed when the dependencies are processed,    *)
(* void when the user interrupted or asked for no following.               *)
PlanState == IF phase = "resolve" THEN "open"
             ELSE IF interrupted \/ ~ opts.follow THEN "void"
             ELSE IF phase = "process" THEN "planning"
             ELSE IF unpkgs = {} THEN "void" ELSE "sealed"

Plan == INSTANCE RemovalPlan WITH plan <- unpkgs, state <- PlanState

RefinesPlan == Plan!Spec
=============================================================================
