---------------------------- MODULE RemovalPlan ----------------------------
(***************************************************************************)
(* What the uninstaller promises about the set of packages it removes.     *)
(* The plan starts as what the user named and only grows: by packages that *)
(* lose a requirement with it and by packages that nothing outside it      *)
(* needs.  A sealed plan, the one the user is asked to confirm, takes away *)
(* no requirement of a package that stays, if that does not provide        *)
(* something like it itself.  An interrupt voids the promise.              *)
(***************************************************************************)
EXTENDS PkgDB

CONSTANT Databases

VARIABLES db,
          plan,         \* packages to be removed
          state         \* "open", "planning", "sealed", "void"

vars == <<db, plan, state>>

Needs(q) == db.reqs[q] \ db.skipped[q]

(* The plan takes away a package that satisfies r and leaves none that may *)
(* do, a provider without the version or the release of r among them.      *)
Lost(r) == ~ MatchReq(db, r, {"VERSION"}, plan) /\ \E u \in plan : Satisfies(db, u, r)

(* A package may be removed with the directories its files live in, too.   *)
MayLose(q) == Needs(q) \union {Unversioned(d) : d \in db.dirs[q]}
Loses(q) == \E r \in MayLose(q) : Lost(r)

(* No other package that stays requires a name that p provides.            *)
Unneeded(p) == \A c \in db.caps[p] : ~ IsRequired(db, c, plan \union {p})

(* Requirements must be followed, but for one that is lost together with   *)
(* a provider of something that q provides itself.                         *)
Closed == \A q \in Pkg \ plan : \A r \in Needs(q) : Lost(r) => SelfMatched(db, q, r, plan)

Init == db \in Databases /\ plan = {} /\ state = "open"

Request(found) ==
    /\ state = "open"
    /\ plan' = found /\ state' \in {"planning", "void"}
    /\ UNCHANGED db

Extend(p) ==
    /\ state \in {"planning", "void"} /\ p \notin plan
    /\ Loses(p) \/ Unneeded(p)
    /\ plan' = plan \union {p}
    /\ UNCHANGED <<db, state>>

Seal == state = "planning" /\ Closed /\ state' = "sealed" /\ UNCHANGED <<db, plan>>

Void == state' = "void" /\ state \in {"open", "planning"} /\ UNCHANGED <<db, plan>>

Next == \/ \E found \in SUBSET Pkg : Request(found)
        \/ \E p \in Pkg : Extend(p)
        \/ Seal
        \/ Void

Spec == Init /\ [][Next]_vars
=============================================================================
