------------------------------- MODULE PkgDB -------------------------------
(***************************************************************************)
(* The installed-package database as the solvers see it: capability        *)
(* matching (pkg.c) and the queries of pm/pkgdb.c.                         *)
(*                                                                         *)
(* A database is a record: caps[p] are the capabilities of package p, its  *)
(* own name with its version among them (load_pkg calls pkg_add_selfcap)   *)
(* and the paths of its files; reqs[p] are its requirements and skipped[p] *)
(* those of them pkg_req_iter leaves out (needed by the pre/postun scripts *)
(* only) or the solver ignores (rpmlib); dirs[p] are the directories that  *)
(* hold its files.  A name is opaque.  An epoch, a version or a release is *)
(* a number, and 0 says that it is absent.  poldek_conf_PROMOTE_EPOCH is   *)
(* off, as it is by default.                                               *)
(***************************************************************************)
EXTENDS Integers

CONSTANTS Pkg,          \* installed packages, one per database record
          Name,         \* capability names, paths and directories
          MaxEvr        \* largest epoch, version and release number

ASSUME EvrBound == MaxEvr \in Nat

Evr == [e : 0..MaxEvr, v : 0..MaxEvr, r : 0..MaxEvr]
Rel == SUBSET {"LT", "EQ", "GT"}         \* cr_relflags; {}: not versioned
CapReq == [name : Name, evr : Evr, rel : Rel]

(* A provided capability names at most one version: a versioned one has    *)
(* the relation EQ.                                                        *)
Cap == {c \in CapReq : c.rel \in {{}, {"EQ"}}
                         /\ (c.rel = {} <=> c.evr.v = 0)
                         /\ (c.evr.v = 0 => c.evr.e = 0 /\ c.evr.r = 0)}

(* capreq_new() refuses an epoch or a release with no version, and a       *)
(* relation with no version is not produced by any reader of packages.     *)
Req == {q \in CapReq : (q.rel = {} <=> q.evr.v = 0)
                         /\ (q.evr.v = 0 => q.evr.e = 0 /\ q.evr.r = 0)}

Database == [caps : [Pkg -> SUBSET Cap], reqs : [Pkg -> SUBSET Req],
             skipped : [Pkg -> SUBSET Req], dirs : [Pkg -> SUBSET Name]]

NoEvr == [e |-> 0, v |-> 0, r |-> 0]
Unversioned(n) == [name |-> n, evr |-> NoEvr, rel |-> {}]   \* capreq_new_name_a

(* The relation flags of req admit the outcome of comparing a with b.      *)
RelMatch(a, b, rel) == \/ a < b /\ "LT" \in rel
                       \/ a = b /\ "EQ" \in rel
                       \/ a > b /\ "GT" \in rel

(* What may be held for equal though a capability lacks it: the flags      *)
(* POLDEK_MA_PROMOTE_VERSION and _CAPEPOCH.                                *)
MatchFlag == {"VERSION", "CAPEPOCH"}

(* cap_xmatch_req: the first field that differs decides; a field that the  *)
(* requirement has and the capability lacks fails it, if no flag promotes  *)
(* the capability.                                                         *)
CapXMatchReq(cap, req, flags) ==
    LET x == cap.evr  y == req.evr
        sameEpoch == x.e = y.e \/ (x.e = 0 /\ "CAPEPOCH" \in flags)
    IN  /\ cap.name = req.name
        /\ \/ req.rel = {}
           \/ ~ sameEpoch /\ RelMatch(x.e, y.e, req.rel)
           \/ /\ sameEpoch
              /\ \/ "VERSION" \in flags /\ (x.v = 0 \/ (x.v = y.v /\ y.r # 0 /\ x.r = 0))
                 \/ x.v # 0 /\ x.v # y.v /\ RelMatch(x.v, y.v, req.rel)
                 \/ x.v # 0 /\ x.v = y.v /\ y.r = 0 /\ "EQ" \in req.rel
                 \/ x.v # 0 /\ x.v = y.v /\ y.r # 0 /\ x.r # 0 /\ RelMatch(x.r, y.r, req.rel)

CapMatchReq(cap, req) == CapXMatchReq(cap, req, {})

(* pkg_satisfies_req(pkg, req, 1): strict, no flag.                        *)
Satisfies(db, p, req) == \E c \in db.caps[p] : CapMatchReq(c, req)

(* pkgdb_match_req: some record that is not excluded has a capability that *)
(* matches req under the caller's flags.                                   *)
MatchReq(db, req, flags, exclude) ==
    \E p \in Pkg \ exclude : \E c \in db.caps[p] : CapXMatchReq(c, req, flags)

(* pkgdb_search by PMTAG_NAME and by PMTAG_CAP: the version is not read.   *)
Search(db, n, exclude) == {p \in Pkg \ exclude : \E c \in db.caps[p] : c.name = n}

RequiresName(db, q, n) == \E r \in db.reqs[q] : r.name = n

(* pkgdb_q_what_requires for a capability without the directory flag: who  *)
(* requires its name, but for packages that satisfy the capability         *)
(* themselves ("self matched").                                            *)
WhatRequires(db, cap, exclude) ==
    {q \in Pkg \ exclude : RequiresName(db, q, cap.name) /\ ~ Satisfies(db, q, cap)}

(* q requires r, a package of gone provides something that is taken for r, *)
(* and q "self matched" it: who provides a name without a version, or a    *)
(* version without a release, is never found to be required by a package   *)
(* that provides the name, or the version, itself.                         *)
SelfMatched(db, q, r, gone) ==
    \E p \in gone : \E c \in db.caps[p] :
        CapXMatchReq(c, r, {"VERSION"}) /\ Satisfies(db, q, c)

(* pkgdb_q_is_required: by a requirement or, PMTAG_DIRNAME, by a file that *)
(* lives in the directory cap names.                                       *)
IsRequired(db, cap, exclude) ==
    \E q \in Pkg \ exclude : RequiresName(db, q, cap.name) \/ cap.name \in db.dirs[q]
=============================================================================
