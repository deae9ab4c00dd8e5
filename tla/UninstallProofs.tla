-------------------------- MODULE UninstallProofs --------------------------
(***************************************************************************)
(* What Uninstall guarantees for every database, every choice of arguments *)
(* and every option.                                                       *)
(***************************************************************************)
EXTENDS Uninstall, SequenceTheorems, TLAPS

(* Package ids tell packages apart: pkg_id() leaves the architecture out   *)
(* when multilib is off.                                                   *)
DistinctIds == \A p, q \in Pkg : PkgId[p] = PkgId[q] => p = q

(* What a package requires is provided as precisely as it is required: no  *)
(* capability is taken for a requirement though its version or its release *)
(* is absent.                                                              *)
PreciseCaps ==
    \A D \in Databases : \A p, q \in Pkg : \A c \in D.caps[p] : \A r \in D.reqs[q] :
        CapXMatchReq(c, r, {"VERSION"}) => CapMatchReq(c, r) /\ (c.rel = {} => r.rel = {})

-----------------------------------------------------------------------------
(* A capability that matches strictly matches with versions promoted, too: *)
(* what pkg_satisfies_req takes for satisfied, pkgdb_match_req does.       *)
LEMMA StrictIsPromoted ==
    ASSUME NEW c, NEW r, CapMatchReq(c, r)
    PROVE  CapXMatchReq(c, r, {"VERSION"})
  BY DEF CapMatchReq, CapXMatchReq

(* "Self matched" is sound.  A package that satisfies the capability c,    *)
(* read as a requirement, satisfies every requirement that c satisfies:    *)
(* pkgdb_q_what_requires may leave it out.                                 *)
LEMMA SelfMatch ==
    ASSUME NEW c \in Cap, NEW d \in Cap, NEW r \in Req,
           CapMatchReq(c, r), CapMatchReq(d, c), c.rel = {} => r.rel = {}
    PROVE  CapMatchReq(d, r)
<1>1. CASE r.rel = {}
  BY <1>1 DEF CapMatchReq, CapXMatchReq
<1>2. CASE r.rel # {}
  <2>1. c.rel = {"EQ"}
    BY <1>2 DEF Cap
  <2>2. /\ c.evr.e \in Int /\ c.evr.v \in Int /\ c.evr.r \in Int
        /\ d.evr.e \in Int /\ d.evr.v \in Int /\ d.evr.r \in Int
        /\ r.evr.e \in Int /\ r.evr.v \in Int /\ r.evr.r \in Int
    BY EvrBound DEF Cap, Req, CapReq, Evr
  <2>3. d.evr.e = c.evr.e /\ d.evr.v = c.evr.v /\ (c.evr.r # 0 => d.evr.r = c.evr.r)
    BY <2>1, <2>2 DEF CapMatchReq, CapXMatchReq, RelMatch
  <2> QED
    BY <1>2, <2>1, <2>2, <2>3 DEF CapMatchReq, CapXMatchReq, RelMatch
<1> QED
  BY <1>1, <1>2

-----------------------------------------------------------------------------
(* The stack without its top is a stack of the same calls.                 *)
LEMMA BelowTop ==
    ASSUME NEW S, NEW s \in Seq(S), s # << >>
    PROVE  /\ Len(s) \in Nat \ {0}
           /\ s[Len(s)] \in S
           /\ SubSeq(s, 1, Len(s) - 1) \in Seq(S)
           /\ Len(SubSeq(s, 1, Len(s) - 1)) = Len(s) - 1
           /\ \A i \in 1..(Len(s) - 1) : SubSeq(s, 1, Len(s) - 1)[i] = s[i]
<1>1. Len(s) \in Nat \ {0} /\ \A i \in 1..Len(s) : s[i] \in S
  BY EmptySeq, LenProperties, ElementOfSeq
<1>2. s[Len(s)] \in S
  BY <1>1
<1>3. ASSUME NEW n \in 0..Len(s)
      PROVE  /\ SubSeq(s, 1, n) \in Seq(S) /\ Len(SubSeq(s, 1, n)) = n
             /\ \A i \in 1..n : SubSeq(s, 1, n)[i] = s[i]
  OBVIOUS
<1>4. Len(s) - 1 \in 0..Len(s)
  BY <1>1
<1> QED
  BY <1>1, <1>2, <1>3, <1>4, Zenon

-----------------------------------------------------------------------------
(* The active calls, whatever their order.                                 *)
Calls == PackageCall \union RevOrphansCall
Frames(s) == {s[i] : i \in DOMAIN s}

(* A call on top of a stack.                                               *)
LEMMA Push ==
    ASSUME NEW s \in Seq(Calls), NEW x \in Calls
    PROVE  /\ Append(s, x) \in Seq(Calls)
           /\ Frames(Append(s, x)) = Frames(s) \union {x}
<1>1. /\ DOMAIN Append(s, x) = DOMAIN s \union {Len(s) + 1}
      /\ \A i \in DOMAIN s : Append(s, x)[i] = s[i]
      /\ Append(s, x)[Len(s) + 1] = x
  OBVIOUS
<1> QED
  BY <1>1 DEF Frames

(* The stack is its top on what is below.                                  *)
LEMMA Pop ==
    ASSUME stack \in Seq(Calls), stack # << >>
    PROVE  /\ Below \in Seq(Calls) /\ Top \in Calls
           /\ Frames(stack) = Frames(Below) \union {Top}
<1>1. /\ Len(stack) \in Nat \ {0}
      /\ Below \in Seq(Calls) /\ Top \in Calls
      /\ Len(Below) = Len(stack) - 1
      /\ \A i \in 1..(Len(stack) - 1) : Below[i] = stack[i]
  BY BelowTop DEF Below, Top
<1>2. DOMAIN Below = 1..(Len(stack) - 1) /\ DOMAIN stack = 1..Len(stack)
  BY <1>1
<1>3. DOMAIN stack = DOMAIN Below \union {Len(stack)}
  BY <1>1, <1>2
<1>4. \A i \in DOMAIN Below : Below[i] = stack[i]
  BY <1>1, <1>2
<1> QED
  BY <1>1, <1>3, <1>4 DEF Frames, Top

(* No call is active when the C stack is empty.                            *)
LEMMA NoFrames == Frames(<< >>) = {}
  BY DEF Frames

-----------------------------------------------------------------------------
(* Types.                                                                  *)
StackOK(s, U) == s \in Seq(Calls) /\ \A f \in Frames(s) : f.pkg \in U

(* The two ways to say that every call works on a package that is going to *)
(* be removed: by the calls and by their places on the stack.              *)
LEMMA StackOKByIndex ==
    \A s, U : StackOK(s, U) <=> s \in Seq(Calls) /\ \A i \in DOMAIN s : s[i].pkg \in U
  BY DEF StackOK, Frames

(* What process_package and process_pkg_rev_orphans push is a call.        *)
LEMMA FrameTypes ==
    ASSUME NEW p \in Pkg
    PROVE  /\ \A at \in {"rev_orphans", "get_orphaned", "reqs"} : \A o \in SUBSET Pkg :
                PackageFrame(p, at, o) \in Calls /\ PackageFrame(p, at, o).pkg = p
           /\ \A deep \in Nat : \A n \in SUBSET Name : \A D, t \in SUBSET Pkg :
                /\ RevOrphansFrame(p, deep, n, D, t) \in Calls
                /\ RevOrphansFrame(p, deep, n, D, t).pkg = p
  BY DEF PackageFrame, RevOrphansFrame, Calls, PackageCall, RevOrphansCall

(* The types of what the queries of pm/pkgdb.c return.                     *)
LEMMA DbTypes ==
    ASSUME db \in Databases, NEW p \in Pkg
    PROVE  /\ db.caps[p] \subseteq Cap /\ db.reqs[p] \subseteq Req
           /\ db.skipped[p] \subseteq Req /\ db.dirs[p] \subseteq Name
           /\ ReqNames(p) \subseteq Name
           /\ OrphanedBy(p) \subseteq Pkg
<1>1. db \in Database
  BY DatabasesAssumption
<1>2. /\ db.caps[p] \subseteq Cap /\ db.reqs[p] \subseteq Req
      /\ db.skipped[p] \subseteq Req /\ db.dirs[p] \subseteq Name
  BY <1>1 DEF Database
<1>3. ReqNames(p) \subseteq Name
  BY <1>2 DEF ReqNames, Req, CapReq
<1>4. OrphanedBy(p) \subseteq Pkg
  BY DEF OrphanedBy, WhatRequires
<1> QED
  BY <1>2, <1>3, <1>4

TypeInv == TypeOK /\ db \in Databases

(* What a step does to the stack.  The calls below the top stay, the top   *)
(* is replaced, and there may be a new call above it.                      *)
LEMMA StackSteps ==
    ASSUME NEW U, StackOK(stack, unpkgs), stack # << >>, unpkgs \subseteq U,
           NEW x \in Calls, x.pkg \in U, NEW y \in Calls, y.pkg \in U
    PROVE  /\ StackOK(Below, U)
           /\ StackOK(Append(Below, x), U)
           /\ Frames(Append(Below, x)) = Frames(Below) \union {x}
           /\ StackOK(Append(Append(Below, x), y), U)
           /\ Frames(Append(Append(Below, x), y)) = Frames(Below) \union {x, y}
<1>1. Below \in Seq(Calls) /\ \A f \in Frames(Below) : f.pkg \in U
  BY Pop DEF StackOK
<1>2. /\ Append(Below, x) \in Seq(Calls)
      /\ Frames(Append(Below, x)) = Frames(Below) \union {x}
  BY <1>1, Push
<1>3. /\ Append(Append(Below, x), y) \in Seq(Calls)
      /\ Frames(Append(Append(Below, x), y)) = Frames(Below) \union {x, y}
  <2>1. Frames(Append(Append(Below, x), y)) = Frames(Append(Below, x)) \union {y}
    BY <1>2, Push
  <2> QED
    BY <1>2, <2>1, Push
<1> QED
  BY <1>1, <1>2, <1>3 DEF StackOK

(* The types hold before do_poldek_ts_uninstall resolves its arguments.    *)
LEMMA TypeInit == Init => TypeInv
<1> SUFFICES ASSUME Init PROVE TypeInv
  OBVIOUS
<1>1. << >> \in Seq(PackageCall \union RevOrphansCall) /\ DOMAIN << >> = {}
  OBVIOUS
<1>2. TypeOK
  <2>1. stack = << >>
    BY DEF Init
  <2>2. \A i \in DOMAIN stack : stack[i].pkg \in unpkgs
    BY <1>1, <2>1
  <2> QED
    BY <1>1, <2>1, <2>2 DEF Init, TypeOK, Phase
<1> QED
  BY <1>2 DEF Init, TypeInv

(* Outside of do_process nothing is being processed, and what was removed  *)
(* is recorded in the end.                                                 *)
Idle == /\ phase # "process" => stack = << >> /\ tmp = {}
        /\ phase = "resolve" => /\ unpkgs = {} /\ hand = {} /\ dep = {} /\ gray = {}
                                /\ ~ interrupted
        /\ phase # "done" => removed = {}

(* Idle holds after every step: do_process returns only with an empty      *)
(* stack, and nothing counts as removed before rpm has run.                *)
LEMMA IdleStep == TypeInv /\ Idle /\ [Next]_vars => Idle'
<1> SUFFICES ASSUME TypeInv, Idle, [Next]_vars
             PROVE  Idle'
  OBVIOUS
<1> USE DEF Idle, Running, marks
<1>1. ASSUME phase = "process", phase' = "process", removed' = removed
      PROVE  Idle'
  BY <1>1
<1>2. CASE ResolveNothing
  BY <1>2 DEF ResolveNothing
<1>3. ASSUME NEW found \in SUBSET Pkg, Resolve(found)
      PROVE  Idle'
  BY <1>3 DEF Resolve
<1>4. ASSUME NEW p \in Pkg, NextArgument(p)
      PROVE  Idle'
  BY <1>1, <1>4 DEF NextArgument
<1>5. CASE ProcessRevOrphans \/ GetOrphaned \/ PackageProcessed \/ RevOrphansProcessed
  BY <1>1, <1>5 DEF ProcessRevOrphans, GetOrphaned, PackageProcessed, RevOrphansProcessed
<1>6. ASSUME NEW q \in Pkg, SpareOrphan(q) \/ MarkOrphan(q) \/ KeepProvider(q) \/ RemoveProvider(q)
      PROVE  Idle'
  BY <1>1, <1>6 DEF SpareOrphan, MarkOrphan, KeepProvider, RemoveProvider
<1>7. ASSUME NEW n \in Name, NextRequirement(n)
      PROVE  Idle'
  BY <1>1, <1>7 DEF NextRequirement
<1>8. CASE Interrupt
  BY <1>1, <1>8 DEF Interrupt
<1>9. CASE Processed \/ Decline \/ Uninstalled \/ Verify
  BY <1>9 DEF Processed, Decline, Uninstalled, Verify
<1>10. ASSUME NEW gone \in SUBSET Pkg, UninstallFails(gone)
       PROVE  Idle'
  BY <1>10 DEF UninstallFails
<1>11. CASE UNCHANGED vars
  BY <1>11 DEF vars
<1> QED
  BY <1>2, <1>3, <1>4, <1>5, <1>6, <1>7, <1>8, <1>9, <1>10, <1>11 DEF Next, Step, Finished

(* Every step keeps the types: the calls of process_package only ever work *)
(* on packages of uctx->unpkgs.                                            *)
LEMMA TypeStep == TypeInv /\ Idle /\ [Next]_vars => TypeInv'
<1> SUFFICES ASSUME TypeInv, Idle, [Next]_vars
             PROVE  TypeInv'
  OBVIOUS
<1> USE PkgIdAssumption
<1>1. StackOK(stack, unpkgs)
  BY StackOKByIndex DEF TypeInv, TypeOK, Calls
<1>2. ASSUME StackOK(stack', unpkgs'),
             db' = db, opts' = opts, phase' \in Phase, unpkgs' \in SUBSET Pkg,
             tmp' \subseteq unpkgs', hand' \subseteq Id, dep' \subseteq Id,
             gray' \subseteq Id, revorph' \subseteq Id, interrupted' \in BOOLEAN,
             inst' \subseteq Pkg, removed' \subseteq unpkgs', ok' \in BOOLEAN
      PROVE  TypeInv'
  <2>1. stack' \in Seq(Calls) /\ \A i \in DOMAIN stack' : stack'[i].pkg \in unpkgs'
    BY <1>2, StackOKByIndex
  <2> QED
    BY <1>2, <2>1 DEF TypeInv, TypeOK, Calls
<1>3. /\ db \in Databases /\ opts \in Options /\ phase \in Phase
      /\ unpkgs \subseteq Pkg /\ tmp \subseteq unpkgs
      /\ hand \subseteq Id /\ dep \subseteq Id /\ gray \subseteq Id /\ revorph \subseteq Id
      /\ interrupted \in BOOLEAN /\ inst \subseteq Pkg /\ removed \subseteq unpkgs
      /\ ok \in BOOLEAN
  BY DEF TypeInv, TypeOK
<1>4. ASSUME stack # << >>
      PROVE  /\ Top \in Calls /\ Top.pkg \in unpkgs
             /\ Top.fn = "process_package" => Top.orphans \subseteq Pkg
             /\ Top.fn = "rev_orphans" => /\ Top.deep \in Nat /\ Top.reqs \subseteq Name
                                          /\ Top.dbpkgs \subseteq Pkg /\ Top.todo \subseteq Pkg
             /\ StackOK(Below, unpkgs)
             /\ \A U : unpkgs \subseteq U =>
                  \A x, y \in Calls : x.pkg \in U /\ y.pkg \in U =>
                      StackOK(Append(Below, x), U) /\ StackOK(Append(Append(Below, x), y), U)
  <2>1. Top \in Calls /\ Top.pkg \in unpkgs
    BY <1>1, <1>4, Pop DEF StackOK
  <2>2. /\ Top.fn = "process_package" => Top.orphans \subseteq Pkg
        /\ Top.fn = "rev_orphans" => /\ Top.deep \in Nat /\ Top.reqs \subseteq Name
                                     /\ Top.dbpkgs \subseteq Pkg /\ Top.todo \subseteq Pkg
    BY <2>1 DEF Calls, PackageCall, RevOrphansCall
  <2>3. StackOK(Below, unpkgs)
    BY <1>1, <1>4, <2>1, StackSteps
  <2>4. \A U : unpkgs \subseteq U =>
          \A x, y \in Calls : x.pkg \in U /\ y.pkg \in U =>
              StackOK(Append(Below, x), U) /\ StackOK(Append(Append(Below, x), y), U)
    BY <1>1, <1>4, StackSteps
  <2> QED
    BY <2>1, <2>2, <2>3, <2>4
<1>5. CASE ResolveNothing
  BY <1>1, <1>2, <1>3, <1>5 DEF ResolveNothing, Phase, marks
<1>6. ASSUME NEW found \in SUBSET Pkg, Resolve(found)
      PROVE  TypeInv'
  <2>1. StackOK(stack', unpkgs') /\ removed' = {}
    BY <1>1, <1>6, NoFrames DEF Resolve, Idle, StackOK
  <2> QED
    BY <1>2, <1>3, <1>6, <2>1 DEF Resolve, Phase
<1>7. ASSUME NEW p \in Pkg, NextArgument(p)
      PROVE  TypeInv'
  <2>1. StackOK(stack', unpkgs)
    <3> DEFINE x == PackageFrame(p, "rev_orphans", {})
    <3>1. << >> \in Seq(Calls) /\ Frames(<< >>) = {}
      BY NoFrames
    <3>2. x \in Calls /\ x.pkg \in unpkgs
      BY <1>3, <1>7, FrameTypes DEF NextArgument
    <3>3. StackOK(Append(<< >>, x), unpkgs)
      <4> HIDE DEF x
      <4>1. Append(<< >>, x) \in Seq(Calls) /\ Frames(Append(<< >>, x)) = {x}
        BY <3>1, <3>2, Push
      <4> QED
        BY <3>2, <4>1 DEF StackOK
    <3> QED
      BY <1>7, <3>1, <3>3 DEF NextArgument, ProcessPackage, StackOK
  <2> QED
    BY <1>2, <1>3, <1>7, <2>1 DEF NextArgument, ProcessPackage
<1>8. CASE ProcessRevOrphans
  <2>1. stack # << >> /\ Top.fn = "process_package"
    BY <1>8 DEF ProcessRevOrphans, Running
  <2>2. Top.pkg \in Pkg /\ ReqNames(Top.pkg) \subseteq Name
    BY <1>3, <1>4, <2>1, DbTypes
  <2>3. LET x == PackageFrame(Top.pkg, "get_orphaned", {})
            y == RevOrphansFrame(Top.pkg, 1, ReqNames(Top.pkg), {}, {})
        IN  x \in Calls /\ y \in Calls /\ x.pkg = Top.pkg /\ y.pkg = Top.pkg
    BY <2>2, FrameTypes
  <2>4. StackOK(stack', unpkgs)
    BY <1>4, <1>8, <2>1, <2>3 DEF ProcessRevOrphans, ReplaceAndCall, Replace
  <2> QED
    BY <1>2, <1>3, <1>8, <2>4 DEF ProcessRevOrphans, marks
<1>9. CASE GetOrphaned
  <2>1. stack # << >> /\ Top.fn = "process_package"
    BY <1>9 DEF GetOrphaned, Running
  <2>2. Top.pkg \in Pkg /\ OrphanedBy(Top.pkg) \subseteq Pkg
    BY <1>3, <1>4, <2>1, DbTypes
  <2> DEFINE O == {q \in OrphanedBy(Top.pkg) : ~ Marked(q)}
  <2>3. PackageFrame(Top.pkg, "reqs", O) \in Calls
        /\ PackageFrame(Top.pkg, "reqs", O).pkg = Top.pkg
    BY <2>2, FrameTypes
  <2>4. StackOK(stack', unpkgs)
    BY <1>4, <1>9, <2>1, <2>3 DEF GetOrphaned, Return, Replace
  <2> QED
    BY <1>2, <1>3, <1>9, <2>4 DEF GetOrphaned, marks
<1>10. ASSUME NEW q \in Pkg, Running("process_package"), Top.at = "reqs", q \in Top.orphans
       PROVE  OrphanLeft(q) \in Calls /\ OrphanLeft(q).pkg = Top.pkg
  <2>1. Top.pkg \in Pkg /\ Top.orphans \ {q} \subseteq Pkg
    BY <1>3, <1>4, <1>10 DEF Running
  <2> QED
    BY <2>1, FrameTypes DEF OrphanLeft
<1>11. ASSUME NEW q \in Pkg, SpareOrphan(q)
       PROVE  TypeInv'
  <2>1. StackOK(stack', unpkgs)
    BY <1>4, <1>10, <1>11 DEF SpareOrphan, Running, Replace
  <2> QED
    BY <1>2, <1>3, <1>11, <2>1 DEF SpareOrphan, marks
<1>12. ASSUME NEW q \in Pkg, MarkOrphan(q)
       PROVE  TypeInv'
  <2>1. stack # << >> /\ OrphanLeft(q) \in Calls /\ OrphanLeft(q).pkg = Top.pkg
    BY <1>10, <1>12 DEF MarkOrphan, Running
  <2>2. PackageFrame(q, "rev_orphans", {}) \in Calls
        /\ PackageFrame(q, "rev_orphans", {}).pkg = q
    BY FrameTypes
  <2>3. StackOK(stack', unpkgs \union {q})
    BY <1>4, <1>12, <2>1, <2>2 DEF MarkOrphan, ProcessPackage
  <2> QED
    BY <1>2, <1>3, <1>12, <2>3 DEF MarkOrphan, ProcessPackage
<1>13. CASE PackageProcessed
  <2>1. StackOK(stack', unpkgs)
    BY <1>4, <1>13 DEF PackageProcessed, Running, Return
  <2> QED
    BY <1>2, <1>3, <1>13, <2>1 DEF PackageProcessed, marks
<1>14. ASSUME NEW n \in Name, NextRequirement(n)
       PROVE  TypeInv'
  <2>1. stack # << >> /\ Top.fn = "rev_orphans"
    BY <1>14 DEF NextRequirement, Running
  <2> DEFINE found == Top.dbpkgs \union Search(db, n, unpkgs)
             x == RevOrphansFrame(Top.pkg, Top.deep, Top.reqs \ {n}, found, found)
  <2>2. x \in Calls /\ x.pkg = Top.pkg
    <3>1. found \subseteq Pkg /\ Top.pkg \in Pkg /\ Top.deep \in Nat
          /\ Top.reqs \ {n} \subseteq Name
      BY <1>3, <1>4, <2>1 DEF Search
    <3> HIDE DEF found
    <3> QED
      BY <3>1, FrameTypes
  <2>3. StackOK(stack', unpkgs)
    <3>1. stack' = Append(Below, x)
      BY <1>14 DEF NextRequirement, Replace
    <3> HIDE DEF x
    <3> QED
      BY <1>4, <2>1, <2>2, <3>1
  <2> QED
    BY <1>2, <1>3, <1>14, <2>3 DEF NextRequirement, marks
<1>15. ASSUME NEW c \in Pkg, Running("rev_orphans")
       PROVE  LET x == [Top EXCEPT !.todo = @ \ {c}]
              IN  x \in Calls /\ x.pkg = Top.pkg
  <2>1. Top \in RevOrphansCall
    BY <1>4, <1>15 DEF Running, Calls, PackageCall
  <2> QED
    BY <2>1 DEF RevOrphansCall, Calls
<1>16. ASSUME NEW c \in Pkg, KeepProvider(c)
       PROVE  TypeInv'
  <2>1. StackOK(stack', unpkgs)
    BY <1>4, <1>15, <1>16 DEF KeepProvider, Replace, Running
  <2> QED
    BY <1>2, <1>3, <1>16, <2>1 DEF KeepProvider, marks
<1>17. ASSUME NEW c \in Pkg, RemoveProvider(c)
       PROVE  TypeInv'
  <2> DEFINE x == [Top EXCEPT !.todo = @ \ {c}]
             y == RevOrphansFrame(c, Top.deep + 1, ReqNames(c), {}, {})
  <2>1. stack # << >> /\ Top.fn = "rev_orphans" /\ x \in Calls /\ x.pkg = Top.pkg
    BY <1>15, <1>17 DEF RemoveProvider, Running
  <2>2. y \in Calls /\ y.pkg = c
    <3>1. Top.deep + 1 \in Nat /\ ReqNames(c) \subseteq Name
      BY <1>3, <1>4, <2>1, DbTypes
    <3> QED
      BY <3>1, FrameTypes
  <2>3. StackOK(stack', unpkgs \union {c})
    <3>1. stack' = Append(Below, x) \/ stack' = Append(Append(Below, x), y)
      BY <1>17 DEF RemoveProvider, Replace, ReplaceAndCall
    <3>2. x.pkg \in unpkgs \union {c} /\ y.pkg \in unpkgs \union {c}
      BY <1>4, <2>1, <2>2
    <3> HIDE DEF x, y
    <3>3. StackOK(Append(Below, x), unpkgs \union {c})
          /\ StackOK(Append(Append(Below, x), y), unpkgs \union {c})
      BY <1>4, <2>1, <2>2, <3>2
    <3> QED
      BY <3>1, <3>3
  <2> QED
    BY <1>2, <1>3, <1>17, <2>3 DEF RemoveProvider
<1>18. CASE RevOrphansProcessed
  <2>1. StackOK(stack', unpkgs)
    BY <1>4, <1>18 DEF RevOrphansProcessed, Running, Return
  <2> QED
    BY <1>2, <1>3, <1>18, <2>1 DEF RevOrphansProcessed, marks
<1>19. CASE Interrupt
  BY <1>1, <1>2, <1>3, <1>19 DEF Interrupt, marks
<1>20. CASE Processed
  BY <1>1, <1>2, <1>3, <1>20 DEF Processed, Phase, marks
<1>21. CASE Decline
  BY <1>1, <1>2, <1>3, <1>21 DEF Decline, Phase, marks
<1>22. CASE Uninstalled
  BY <1>1, <1>2, <1>3, <1>22 DEF Uninstalled, Phase, marks
<1>23. ASSUME NEW gone \in SUBSET Pkg, UninstallFails(gone)
       PROVE  TypeInv'
  BY <1>1, <1>2, <1>3, <1>23 DEF UninstallFails, Phase, marks
<1>24. CASE Verify
  BY <1>1, <1>2, <1>3, <1>24 DEF Verify, Phase, marks
<1>25. CASE UNCHANGED vars
  BY <1>1, <1>2, <1>3, <1>25 DEF vars
<1> QED
  BY <1>5, <1>6, <1>7, <1>8, <1>9, <1>11, <1>12, <1>13, <1>14, <1>16, <1>17, <1>18,
     <1>19, <1>20, <1>21, <1>22, <1>23, <1>24, <1>25 DEF Next, Step, Finished

(* The state of do_poldek_ts_uninstall keeps its types, and each active    *)
(* call works on a package that is going to be removed.                    *)
THEOREM TypesCorrect == Spec => []TypeOK
<1>1. Init => TypeInv /\ Idle
  BY TypeInit DEF Init, Idle
<1>2. TypeInv /\ Idle /\ [Next]_vars => (TypeInv /\ Idle)'
  BY TypeStep, IdleStep
<1>3. TypeInv => TypeOK
  BY DEF TypeInv
<1> QED
  BY <1>1, <1>2, <1>3, PTL DEF Spec

-----------------------------------------------------------------------------
(* The calls on the stack after a step, whatever their types.              *)
LEMMA StackFrames ==
    ASSUME stack \in Seq(Calls), stack # << >>, NEW x, NEW y
    PROVE  /\ Top \in Calls
           /\ Frames(stack) = Frames(Below) \union {Top}
           /\ Frames(Append(Below, x)) = Frames(Below) \union {x}
           /\ Frames(Append(Append(Below, x), y)) = Frames(Below) \union {x, y}
<1>1. ASSUME NEW S, NEW s \in Seq(S), NEW z
      PROVE  Frames(Append(s, z)) = Frames(s) \union {z}
  <2>1. /\ DOMAIN Append(s, z) = DOMAIN s \union {Len(s) + 1}
        /\ \A i \in DOMAIN s : Append(s, z)[i] = s[i]
        /\ Append(s, z)[Len(s) + 1] = z
    OBVIOUS
  <2> QED
    BY <2>1 DEF Frames
<1>2. Below \in Seq(Calls) /\ Append(Below, x) \in Seq(Calls \union {x})
  <2>1. Below \in Seq(Calls)
    BY Pop
  <2>2. Below \in Seq(Calls \union {x})
    BY <2>1, SeqMonotonic
  <2> HIDE DEF Below
  <2> QED
    BY <2>1, <2>2
<1>3. Frames(Append(Below, x)) = Frames(Below) \union {x}
  BY <1>1, <1>2
<1>4. Frames(Append(Append(Below, x), y)) = Frames(Append(Below, x)) \union {y}
  BY <1>1, <1>2
<1> QED
  BY <1>3, <1>4, Pop

(* The marks: exactly the packages to be removed are marked, only these    *)
(* have been visited, and no argument that is still to be.                 *)
MarksInv == \A p \in Pkg : /\ Marked(p) <=> p \in unpkgs
                           /\ PkgId[p] \in gray => p \in unpkgs
                           /\ p \in tmp => PkgId[p] \notin gray

(* Every step keeps the marks of ts->pms and uctx->pms in step with        *)
(* uctx->unpkgs.                                                           *)
LEMMA MarksStep ==
    ASSUME DistinctIds, TypeInv, Idle, MarksInv, [Next]_vars
    PROVE  MarksInv'
<1> USE DEF MarksInv, Marked
<1>1. /\ unpkgs \subseteq Pkg /\ tmp \subseteq unpkgs
      /\ \A p, q \in Pkg : PkgId[p] = PkgId[q] => p = q
  BY DEF TypeInv, TypeOK, DistinctIds
<1>2. ASSUME UNCHANGED <<unpkgs, hand, dep, gray, tmp>>
      PROVE  MarksInv'
  BY <1>2
<1>3. ASSUME NEW found \in SUBSET Pkg, Resolve(found)
      PROVE  MarksInv'
  BY <1>1, <1>3 DEF Resolve, Idle
<1>4. ASSUME NEW p \in Pkg, NextArgument(p)
      PROVE  MarksInv'
  BY <1>1, <1>4 DEF NextArgument, ProcessPackage
<1>5. ASSUME NEW q \in Pkg, MarkOrphan(q)
      PROVE  MarksInv'
  BY <1>1, <1>5 DEF MarkOrphan, ProcessPackage, Spared
<1>6. ASSUME NEW q \in Pkg, RemoveProvider(q)
      PROVE  MarksInv'
  BY <1>1, <1>6 DEF RemoveProvider
<1>7. CASE \/ ResolveNothing \/ ProcessRevOrphans \/ GetOrphaned \/ PackageProcessed
           \/ RevOrphansProcessed \/ Interrupt
  BY <1>2, <1>7 DEF ResolveNothing, ProcessRevOrphans, GetOrphaned, PackageProcessed,
                    RevOrphansProcessed, Interrupt, marks
<1>8. ASSUME NEW q \in Pkg, SpareOrphan(q) \/ KeepProvider(q)
      PROVE  MarksInv'
  BY <1>2, <1>8 DEF SpareOrphan, KeepProvider, marks
<1>9. ASSUME NEW n \in Name, NextRequirement(n)
      PROVE  MarksInv'
  BY <1>2, <1>9 DEF NextRequirement, marks
<1>10. CASE Processed \/ Decline \/ Uninstalled \/ Verify
  BY <1>2, <1>10 DEF Processed, Decline, Uninstalled, Verify, marks
<1>11. ASSUME NEW gone \in SUBSET Pkg, UninstallFails(gone)
       PROVE  MarksInv'
  BY <1>2, <1>11 DEF UninstallFails, marks
<1>12. CASE UNCHANGED vars
  BY <1>2, <1>12 DEF vars
<1> QED
  BY <1>3, <1>4, <1>5, <1>6, <1>7, <1>8, <1>9, <1>10, <1>11, <1>12 DEF Next, Step, Finished

-----------------------------------------------------------------------------
(* Following the dependencies.  A requirement that the removal breaks so   *)
(* far is still going to be found: its package is in the list of orphans   *)
(* some active process_package works through, or a removed package that    *)
(* satisfied it has not been asked yet whom it orphans.                    *)
Needs(q) == db.reqs[q] \ db.skipped[q]

Pending(p) ==
    \/ p \in tmp
    \/ \E f \in Frames(stack) : /\ f.fn = "process_package" /\ f.pkg = p
                                /\ f.at \in {"rev_orphans", "get_orphaned"}

Handled(q) ==
    \E f \in Frames(stack) : f.fn = "process_package" /\ f.at = "reqs" /\ q \in f.orphans

(* p has something that pkgdb_match_req takes for r.                       *)
TakenFor(p, r) == \E c \in db.caps[p] : CapXMatchReq(c, r, {"VERSION"})

Covered(q, r) == Handled(q) \/ \E p \in unpkgs : TakenFor(p, r) /\ Pending(p)

(* What is to be followed.                                                 *)
Open(q, r) == Broken(q, r) /\ ~ SelfMatched(db, q, r, unpkgs)

FollowInv ==
    opts.follow /\ ~ interrupted =>
        \A q \in Pkg \ unpkgs : \A r \in Needs(q) : Open(q, r) => Covered(q, r)

(* Who satisfies r is taken for it.                                        *)
LEMMA SatisfiesIsTaken ==
    ASSUME NEW p, NEW r, Satisfies(db, p, r)
    PROVE  TakenFor(p, r)
  BY StrictIsPromoted DEF Satisfies, TakenFor

(* pkgdb_q_what_requires finds every package that loses a requirement      *)
(* for which p was taken, if it is not self matched.                       *)
LEMMA OrphansFound ==
    ASSUME NEW p \in unpkgs, NEW q \in Pkg \ unpkgs, NEW r \in Needs(q),
           Open(q, r), TakenFor(p, r)
    PROVE  q \in OrphanedBy(p)
<1>1. PICK c \in db.caps[p] : CapXMatchReq(c, r, {"VERSION"})
  BY DEF TakenFor
<1>2. ~ Satisfies(db, q, c)
  BY <1>1 DEF Open, SelfMatched
<1>3. RequiresName(db, q, c.name)
  BY <1>1 DEF RequiresName, CapXMatchReq, Needs
<1> QED
  BY <1>2, <1>3 DEF OrphanedBy, WhatRequires, OwnCaps

(* A provider that pkg_leave_orphans lets go is taken for nothing that     *)
(* somebody who stays requires.                                            *)
LEMMA UnneededProvider ==
    ASSUME TypeInv, NEW c \in Pkg, ~ LeavesOrphans(c),
           NEW q \in Pkg \ (unpkgs \union {c}), NEW r \in Needs(q)
    PROVE  ~ TakenFor(c, r)
  BY DEF LeavesOrphans, OwnCaps, IsRequired, RequiresName, TakenFor, CapXMatchReq, Needs

(* A package that process_pkg_reqs spares loses no requirement.            *)
LEMMA SparedLosesNothing ==
    ASSUME NEW q \in Pkg \ unpkgs, ~ LosesReq(q), NEW r \in Needs(q)
    PROVE  ~ Broken(q, r)
<1>1. Satisfies(db, q, r) => MetByDb(r)
  BY StrictIsPromoted DEF Satisfies, MetByDb, MatchReq
<1> QED
  BY <1>1 DEF LosesReq, IteratedReqs, Needs, Broken, MetByDb

(* When the set of packages grows by p, a requirement breaks that was      *)
(* broken before or that p was taken for.                                  *)
LEMMA OpenByGrowth ==
    ASSUME NEW p \in Pkg, unpkgs' = unpkgs \union {p}, db' = db, NEW q \in Pkg, NEW r,
           Open(q, r)'
    PROVE  Open(q, r) \/ TakenFor(p, r)
<1>1. /\ ~ MatchReq(db, r, {"VERSION"}, unpkgs \union {p})
      /\ \E u \in unpkgs \union {p} : Satisfies(db, u, r)
      /\ ~ SelfMatched(db, q, r, unpkgs \union {p})
  BY DEF Open, Broken
<1>2. CASE Satisfies(db, p, r)
  BY <1>2, SatisfiesIsTaken
<1>3. CASE \E u \in unpkgs : Satisfies(db, u, r)
  <2>1. ~ SelfMatched(db, q, r, unpkgs)
    BY <1>1 DEF SelfMatched
  <2>2. MatchReq(db, r, {"VERSION"}, unpkgs) => TakenFor(p, r)
    BY <1>1 DEF MatchReq, TakenFor
  <2> QED
    BY <1>3, <2>1, <2>2 DEF Open, Broken
<1> QED
  BY <1>1, <1>2, <1>3

(* The database and the options do not change, an interrupt is not         *)
(* forgotten.                                                              *)
LEMMA Steady == [Next]_vars => db' = db /\ opts' = opts /\ (interrupted => interrupted')
<1> SUFFICES ASSUME [Next]_vars
             PROVE  db' = db /\ opts' = opts /\ (interrupted => interrupted')
  OBVIOUS
<1>1. ASSUME NEW found \in SUBSET Pkg, Resolve(found) \/ UninstallFails(found)
      PROVE  UNCHANGED <<db, opts, interrupted>>
  BY <1>1 DEF Resolve, UninstallFails
<1>2. ASSUME NEW p \in Pkg,
             \/ NextArgument(p) \/ SpareOrphan(p) \/ MarkOrphan(p)
             \/ KeepProvider(p) \/ RemoveProvider(p)
      PROVE  UNCHANGED <<db, opts, interrupted>>
  BY <1>2 DEF NextArgument, SpareOrphan, MarkOrphan, KeepProvider, RemoveProvider
<1>3. ASSUME NEW n \in Name, NextRequirement(n)
      PROVE  UNCHANGED <<db, opts, interrupted>>
  BY <1>3 DEF NextRequirement
<1>4. CASE ProcessRevOrphans \/ GetOrphaned \/ PackageProcessed \/ RevOrphansProcessed
  BY <1>4 DEF ProcessRevOrphans, GetOrphaned, PackageProcessed, RevOrphansProcessed
<1>5. CASE \/ ResolveNothing \/ Interrupt \/ Processed \/ Decline \/ Uninstalled
           \/ Verify
  BY <1>5 DEF ResolveNothing, Interrupt, Processed, Decline, Uninstalled, Verify
<1>6. CASE UNCHANGED vars
  BY <1>6 DEF vars
<1> QED
  BY <1>1, <1>2, <1>3, <1>4, <1>5, <1>6 DEF Next, Step, Finished

(* Every step keeps FollowInv: a requirement that is broken belongs to a   *)
(* package an active process_pkg_reqs has still to visit, or was satisfied *)
(* by one whose dependants process_package has still to ask for.           *)
LEMMA FollowStep ==
    ASSUME DistinctIds, TypeInv, Idle, MarksInv, FollowInv, [Next]_vars
    PROVE  FollowInv'
<1> SUFFICES ASSUME opts'.follow, ~ interrupted',
                    NEW q \in Pkg, q \notin unpkgs', NEW r \in Needs(q)', Open(q, r)'
             PROVE  Covered(q, r)'
  BY DEF FollowInv
<1>1. /\ db \in Databases /\ unpkgs \subseteq Pkg /\ tmp \subseteq unpkgs
      /\ stack \in Seq(Calls) /\ \A f \in Frames(stack) : f.pkg \in unpkgs
  BY StackOKByIndex DEF TypeInv, TypeOK, Calls, StackOK
<1>2. db' = db /\ opts' = opts /\ (interrupted => interrupted')
  BY Steady
<1>3. r \in Needs(q)
  BY <1>2 DEF Needs
<1>4. ASSUME q \notin unpkgs, Open(q, r) PROVE Covered(q, r)
  BY <1>2, <1>3, <1>4 DEF FollowInv
<1>5. ASSUME unpkgs' = unpkgs,
             \A f \in Frames(stack) : f.fn = "process_package" => f \in Frames(stack'),
             tmp' = tmp
      PROVE  Covered(q, r)'
  <2>1. Covered(q, r)
    BY <1>2, <1>4, <1>5 DEF Open, Broken
  <2> QED
    BY <1>2, <1>5, <2>1 DEF Covered, TakenFor, Handled, Pending
<1>6. ASSUME stack # << >>, NEW x, NEW y
      PROVE  /\ Frames(stack) = Frames(Below) \union {Top}
             /\ Frames(Append(Below, x)) = Frames(Below) \union {x}
             /\ Frames(Append(Append(Below, x), y)) = Frames(Below) \union {x, y}
  BY <1>1, <1>6, StackFrames
<1>7. ASSUME NEW found \in SUBSET Pkg, Resolve(found)
      PROVE  Covered(q, r)'
  <2>1. unpkgs' = found /\ tmp' = found
    BY <1>2, <1>7 DEF Resolve
  <2>2. PICK u \in found : Satisfies(db, u, r)
    BY <1>2, <2>1 DEF Open, Broken
  <2>3. TakenFor(u, r)
    BY <2>2, SatisfiesIsTaken
  <2> QED
    BY <1>2, <2>1, <2>3 DEF Covered, Pending, TakenFor
<1>8. ASSUME NEW p \in Pkg, NextArgument(p)
      PROVE  Covered(q, r)'
  <2> DEFINE x == PackageFrame(p, "rev_orphans", {})
  <2>1. unpkgs' = unpkgs /\ tmp' = tmp \ {p} /\ stack' = Append(<< >>, x)
    BY <1>8 DEF NextArgument, ProcessPackage, MarksInv
  <2>2. stack = << >> /\ Frames(stack) = {}
    BY <1>8, NoFrames DEF NextArgument
  <2>3. x \in Frames(stack')
    <3>1. DOMAIN stack' = {1} /\ stack'[1] = x
      BY <2>1
    <3> QED
      BY <3>1 DEF Frames
  <2>4. Covered(q, r)
    BY <1>2, <1>4, <2>1 DEF Open, Broken
  <2>5. PICK p0 \in unpkgs : TakenFor(p0, r) /\ p0 \in tmp
    BY <2>2, <2>4 DEF Covered, TakenFor, Handled, Pending
  <2>6. CASE p0 = p
    BY <1>2, <2>1, <2>3, <2>5, <2>6 DEF Covered, TakenFor, Pending, PackageFrame
  <2>7. CASE p0 # p
    BY <1>2, <2>1, <2>5, <2>7 DEF Covered, TakenFor, Pending
  <2> QED
    BY <2>6, <2>7
<1>9. CASE ProcessRevOrphans
  <2> DEFINE x == PackageFrame(Top.pkg, "get_orphaned", {})
             y == RevOrphansFrame(Top.pkg, 1, ReqNames(Top.pkg), {}, {})
  <2>1. /\ unpkgs' = unpkgs /\ tmp' = tmp /\ stack # << >>
        /\ Top.at = "rev_orphans"
        /\ stack' = Append(Append(Below, x), y) \/ stack' = Append(Below, x)
    BY <1>9 DEF ProcessRevOrphans, Running, ReplaceAndCall, Replace
  <2>2. Frames(stack) = Frames(Below) \union {Top}
        /\ Frames(Below) \union {x} \subseteq Frames(stack')
    <3> HIDE DEF x, y
    <3>1. CASE stack' = Append(Below, x)
      BY <1>6, <2>1, <3>1
    <3>2. CASE stack' = Append(Append(Below, x), y)
      BY <1>6, <2>1, <3>2
    <3> QED
      BY <2>1, <3>1, <3>2
  <2>3. x.fn = "process_package" /\ x.pkg = Top.pkg /\ x.at = "get_orphaned"
    BY DEF PackageFrame
  <2>4. Covered(q, r)
    BY <1>2, <1>4, <2>1 DEF Open, Broken
  <2> HIDE DEF x, y
  <2>5. Handled(q) => Handled(q)'
    BY <2>1, <2>2 DEF Handled
  <2>6. \A p : Pending(p) => Pending(p)'
    BY <2>1, <2>2, <2>3 DEF Pending
  <2> QED
    BY <1>2, <2>1, <2>4, <2>5, <2>6 DEF Covered, TakenFor
<1>10. CASE GetOrphaned
  <2> DEFINE O == {o \in OrphanedBy(Top.pkg) : ~ Marked(o)}
             x == PackageFrame(Top.pkg, "reqs", O)
  <2>1. /\ unpkgs' = unpkgs /\ tmp' = tmp /\ stack # << >>
        /\ Top.fn = "process_package" /\ Top.at = "get_orphaned"
        /\ stack' = Append(Below, x)
    BY <1>2, <1>10 DEF GetOrphaned, Running, Replace
  <2>2. /\ Frames(stack) = Frames(Below) \union {Top}
        /\ Frames(stack') = Frames(Below) \union {x}
    <3> HIDE DEF x
    <3> QED
      BY <1>6, <2>1
  <2>3. x.fn = "process_package" /\ x.at = "reqs" /\ x.orphans = O
    BY DEF PackageFrame
  <2>4. Covered(q, r) /\ Open(q, r) /\ q \notin unpkgs
    BY <1>2, <1>4, <2>1 DEF Open, Broken
  <2>5. CASE TakenFor(Top.pkg, r)
    <3>1. q \in OrphanedBy(Top.pkg)
      BY <1>1, <1>3, <2>2, <2>4, <2>5, OrphansFound
    <3>2. q \in O
      BY <2>4, <3>1 DEF MarksInv
    <3> HIDE DEF O, x
    <3> QED
      BY <2>2, <2>3, <3>2 DEF Covered, TakenFor, Handled
  <2>6. CASE ~ TakenFor(Top.pkg, r)
    <3> HIDE DEF O, x
    <3>1. Handled(q) => Handled(q)'
      BY <2>1, <2>2 DEF Handled
    <3>2. \A p : Pending(p) /\ p # Top.pkg => Pending(p)'
      BY <2>1, <2>2 DEF Pending
    <3> QED
      BY <1>2, <2>1, <2>4, <2>6, <3>1, <3>2 DEF Covered, TakenFor
  <2> QED
    BY <2>5, <2>6
<1>11. ASSUME NEW o \in Pkg, SpareOrphan(o)
       PROVE  Covered(q, r)'
  <2> DEFINE x == OrphanLeft(o)
  <2>1. /\ unpkgs' = unpkgs /\ tmp' = tmp /\ stack # << >>
        /\ Top.fn = "process_package" /\ Top.at = "reqs"
        /\ stack' = Append(Below, x)
    BY <1>11 DEF SpareOrphan, Running, Replace
  <2>2. /\ Frames(stack) = Frames(Below) \union {Top}
        /\ Frames(stack') = Frames(Below) \union {x}
    <3> HIDE DEF x
    <3> QED
      BY <1>6, <2>1
  <2>3. x.fn = "process_package" /\ x.at = "reqs" /\ x.orphans = Top.orphans \ {o}
    BY DEF OrphanLeft, PackageFrame
  <2>4. Covered(q, r) /\ Open(q, r) /\ q \notin unpkgs
    BY <1>2, <1>4, <2>1 DEF Open, Broken
  <2>5. q # o
    BY <1>2, <1>3, <1>11, <2>4, SparedLosesNothing DEF SpareOrphan, Spared, MarksInv, Open
  <2> HIDE DEF x
  <2>6. Handled(q) => Handled(q)'
    BY <2>2, <2>3, <2>5 DEF Handled
  <2>7. \A p : Pending(p) => Pending(p)'
    BY <2>1, <2>2 DEF Pending
  <2> QED
    BY <1>2, <2>1, <2>4, <2>6, <2>7 DEF Covered, TakenFor
<1>12. ASSUME NEW o \in Pkg, MarkOrphan(o)
       PROVE  Covered(q, r)'
  <2> DEFINE x == OrphanLeft(o)
             y == PackageFrame(o, "rev_orphans", {})
  <2>1. /\ unpkgs' = unpkgs \union {o} /\ tmp' = tmp /\ stack # << >>
        /\ Top.fn = "process_package" /\ Top.at = "reqs"
        /\ stack' = Append(Append(Below, x), y)
    BY <1>12 DEF MarkOrphan, ProcessPackage, Running, Spared, MarksInv
  <2>2. /\ Frames(stack) = Frames(Below) \union {Top}
        /\ Frames(stack') = Frames(Below) \union {x, y}
    <3> HIDE DEF x, y
    <3> QED
      BY <1>6, <2>1
  <2>3. /\ x.fn = "process_package" /\ x.at = "reqs" /\ x.orphans = Top.orphans \ {o}
        /\ y.fn = "process_package" /\ y.at = "rev_orphans" /\ y.pkg = o
    BY DEF OrphanLeft, PackageFrame
  <2>4. q # o /\ q \notin unpkgs
    BY <2>1
  <2> HIDE DEF x, y
  <2>5. Handled(q) => Handled(q)'
    BY <2>2, <2>3, <2>4 DEF Handled
  <2>6. \A p : Pending(p) => Pending(p)'
    BY <2>1, <2>2 DEF Pending
  <2>7. Pending(o)'
    BY <2>2, <2>3 DEF Pending
  <2>8. CASE Open(q, r)
    BY <1>2, <1>4, <2>1, <2>4, <2>5, <2>6, <2>8 DEF Covered, TakenFor
  <2>9. CASE TakenFor(o, r)
    BY <1>2, <2>1, <2>7, <2>9 DEF Covered, TakenFor
  <2> QED
    BY <1>2, <2>1, <2>8, <2>9, OpenByGrowth
<1>13. CASE PackageProcessed
  <2>1. /\ unpkgs' = unpkgs /\ tmp' = tmp /\ stack # << >>
        /\ Top.at = "reqs" /\ Top.orphans = {} /\ stack' = Below
    BY <1>13 DEF PackageProcessed, Running, Return
  <2>2. Frames(stack) = Frames(Below) \union {Top}
    BY <1>6, <2>1
  <2>3. Covered(q, r)
    BY <1>2, <1>4, <2>1 DEF Open, Broken
  <2>4. Handled(q) => Handled(q)'
    BY <2>1, <2>2 DEF Handled
  <2>5. \A p : Pending(p) => Pending(p)'
    BY <2>1, <2>2 DEF Pending
  <2> QED
    BY <1>2, <2>1, <2>3, <2>4, <2>5 DEF Covered, TakenFor
<1>14. ASSUME NEW x, stack # << >>, Top.fn = "rev_orphans",
              stack' \in {Below, Append(Below, x)}, unpkgs' = unpkgs, tmp' = tmp
       PROVE  Covered(q, r)'
  <2>1. Frames(stack) = Frames(Below) \union {Top} /\ Frames(Below) \subseteq Frames(stack')
    BY <1>6, <1>14
  <2> QED
    BY <1>5, <1>14, <2>1
<1>15. ASSUME NEW n \in Name, NextRequirement(n)
       PROVE  Covered(q, r)'
  BY <1>14, <1>15 DEF NextRequirement, Running, Replace
<1>16. ASSUME NEW c \in Pkg, KeepProvider(c)
       PROVE  Covered(q, r)'
  BY <1>14, <1>16 DEF KeepProvider, Running, Replace
<1>17. CASE RevOrphansProcessed
  BY <1>14, <1>17 DEF RevOrphansProcessed, Running, Return
<1>18. ASSUME NEW c \in Pkg, RemoveProvider(c)
       PROVE  Covered(q, r)'
  <2> DEFINE x == [Top EXCEPT !.todo = @ \ {c}]
             y == RevOrphansFrame(c, Top.deep + 1, ReqNames(c), {}, {})
  <2>1. /\ unpkgs' = unpkgs \union {c} /\ tmp' = tmp /\ stack # << >>
        /\ Top.fn = "rev_orphans" /\ ~ LeavesOrphans(c)
        /\ stack' = Append(Below, x) \/ stack' = Append(Append(Below, x), y)
    BY <1>18 DEF RemoveProvider, Running, Replace, ReplaceAndCall
  <2>2. Frames(stack) = Frames(Below) \union {Top} /\ Frames(Below) \subseteq Frames(stack')
    <3> HIDE DEF x, y
    <3>1. CASE stack' = Append(Below, x)
      BY <1>6, <2>1, <3>1
    <3>2. CASE stack' = Append(Append(Below, x), y)
      BY <1>6, <2>1, <3>2
    <3> QED
      BY <2>1, <3>1, <3>2
  <2>3. Open(q, r) /\ q \notin unpkgs
    BY <1>2, <1>3, <2>1, OpenByGrowth, UnneededProvider
  <2>4. Covered(q, r)
    BY <1>4, <2>3
  <2>5. Handled(q) => Handled(q)'
    BY <2>1, <2>2 DEF Handled
  <2>6. \A p : Pending(p) => Pending(p)'
    BY <2>1, <2>2 DEF Pending
  <2> QED
    BY <1>2, <2>1, <2>4, <2>5, <2>6 DEF Covered, TakenFor
<1>19. CASE Interrupt \/ ResolveNothing \/ Processed \/ Decline \/ Uninstalled \/ Verify
  BY <1>5, <1>19 DEF Interrupt, ResolveNothing, Processed, Decline, Uninstalled, Verify, marks
<1>20. ASSUME NEW gone \in SUBSET Pkg, UninstallFails(gone)
       PROVE  Covered(q, r)'
  BY <1>5, <1>20 DEF UninstallFails
<1>21. CASE UNCHANGED vars
  BY <1>5, <1>21 DEF vars
<1> QED
  BY <1>7, <1>8, <1>9, <1>10, <1>11, <1>12, <1>13, <1>15, <1>16, <1>17, <1>18, <1>19,
     <1>20, <1>21 DEF Next, Step, Finished

(* The inductive invariant of the removal.                                 *)
Inv == TypeInv /\ Idle /\ MarksInv /\ FollowInv

(* The inductive invariant holds initially.                                *)
LEMMA InvInit == Init => Inv
<1> SUFFICES ASSUME Init PROVE Inv
  OBVIOUS
<1>1. TypeInv
  BY TypeInit
<1>2. unpkgs = {}
  BY DEF Init
<1> QED
  BY <1>1, <1>2 DEF Init, Inv, Idle, MarksInv, Marked, FollowInv, Open, Broken

(* Every step keeps the inductive invariant.                               *)
LEMMA InvStep ==
    ASSUME DistinctIds
    PROVE  Inv /\ [Next]_vars => Inv'
  BY TypeStep, IdleStep, MarksStep, FollowStep DEF Inv

(* When do_process is over no requirement is left to be followed.          *)
LEMMA InvClosed ==
    ASSUME Inv, phase # "process", opts.follow, ~ interrupted,
           NEW q \in Pkg \ unpkgs, NEW r \in Needs(q)
    PROVE  ~ Open(q, r)
<1>1. tmp = {} /\ Frames(stack) = {}
  BY NoFrames DEF Inv, Idle
<1> QED
  BY <1>1 DEF Inv, FollowInv, Covered, Handled, Pending

(* What a confirmed removal takes away, nothing that stays requires: for   *)
(* every database and all arguments, with or without greedy, the recursion *)
(* of process_package reaches every package that loses a requirement, if   *)
(* the package is not self matched.                                        *)
THEOREM ReverseDependenciesFollowed ==
    ASSUME DistinctIds
    PROVE  Spec => []ReverseDepsFollowed
<1>1. Inv => ReverseDepsFollowed
  BY InvClosed DEF ReverseDepsFollowed, Settled, Needs, Open
<1> QED
  BY <1>1, InvInit, InvStep, PTL DEF Spec

(* With precise providers "self matched" hides nothing: who satisfies what *)
(* p provides for r satisfies r.                                           *)
LEMMA NothingSelfMatched ==
    ASSUME PreciseCaps, TypeInv, NEW q \in Pkg \ unpkgs, NEW r \in Needs(q),
           SelfMatched(db, q, r, unpkgs)
    PROVE  ~ Broken(q, r)
<1>1. /\ db \in Databases /\ unpkgs \subseteq Pkg /\ r \in db.reqs[q]
      /\ r \in Req /\ \A p \in Pkg : db.caps[p] \subseteq Cap
  BY DbTypes DEF TypeInv, TypeOK, Needs
<1>2. PICK p \in unpkgs :
        \E k \in db.caps[p] : CapXMatchReq(k, r, {"VERSION"}) /\ Satisfies(db, q, k)
  BY DEF SelfMatched
<1> PICK c \in db.caps[p] : CapXMatchReq(c, r, {"VERSION"}) /\ Satisfies(db, q, c)
  BY <1>2
<1>3. CapMatchReq(c, r) /\ (c.rel = {} => r.rel = {})
  BY <1>1, <1>2 DEF PreciseCaps
<1>4. PICK d \in db.caps[q] : CapMatchReq(d, c)
  BY <1>2 DEF Satisfies
<1>5. CapMatchReq(d, r)
  BY <1>1, <1>2, <1>3, <1>4, SelfMatch
<1> QED
  BY <1>4, <1>5, StrictIsPromoted DEF Broken, MatchReq

(* Where nothing is provided less precisely than it is required, nothing   *)
(* at all that stays loses a requirement.                                  *)
THEOREM NothingStaysBroken ==
    ASSUME DistinctIds, PreciseCaps
    PROVE  Spec => [](Settled /\ opts.follow =>
                          \A q \in Pkg \ unpkgs : \A r \in Needs(q) : ~ Broken(q, r))
<1>1. Inv => (Settled /\ opts.follow =>
                  \A q \in Pkg \ unpkgs : \A r \in Needs(q) : ~ Broken(q, r))
  BY InvClosed, NothingSelfMatched DEF Settled, Open, Inv
<1> QED
  BY <1>1, InvInit, InvStep, PTL DEF Spec

-----------------------------------------------------------------------------
(* Why a package is removed.                                               *)
GreedyInv == \A f \in Frames(stack) : f.fn = "rev_orphans" => opts.greedy > 0

JustifiedInv == GreedyInv /\ RemovalsJustified

(* A reason to remove a package remains one while more are removed.        *)
LEMMA JustifiedStays ==
    ASSUME db' = db, opts' = opts, unpkgs \subseteq unpkgs', hand \subseteq hand',
           NEW p \in Pkg, Justified(p)
    PROVE  Justified(p)'
  BY DEF Justified, IteratedReqs, Broken, MatchReq

(* Every step keeps the reasons: what MarkOrphan and RemoveProvider add to *)
(* uctx->unpkgs has one, and what was there before keeps its own.          *)
LEMMA JustifiedStep ==
    ASSUME TypeInv, Idle, JustifiedInv, [Next]_vars
    PROVE  JustifiedInv'
<1>1. /\ db \in Databases /\ unpkgs \subseteq Pkg /\ opts \in Option
      /\ stack \in Seq(Calls) /\ \A f \in Frames(stack) : f.pkg \in unpkgs
  BY OptionsAssumption, StackOKByIndex DEF TypeInv, TypeOK, Calls, StackOK
<1>2. db' = db /\ opts' = opts
  BY Steady
<1>3. \A f \in Frames(stack) : f.fn = "rev_orphans" => opts.greedy > 0
  BY DEF JustifiedInv, GreedyInv
<1>4. \A p \in unpkgs : Justified(p)
  BY DEF JustifiedInv, RemovalsJustified
<1>5. ASSUME stack # << >>, NEW x, NEW y
      PROVE  /\ Frames(stack) = Frames(Below) \union {Top}
             /\ Frames(Append(Below, x)) = Frames(Below) \union {x}
             /\ Frames(Append(Append(Below, x), y)) = Frames(Below) \union {x, y}
  BY <1>1, <1>5, StackFrames
<1>6. ASSUME \A f \in Frames(stack') : f.fn = "rev_orphans" => opts.greedy > 0,
             unpkgs \subseteq unpkgs', hand \subseteq hand',
             \A p \in unpkgs' \ unpkgs : p \in Pkg /\ Justified(p)'
      PROVE  JustifiedInv'
  <2>1. \A p \in unpkgs : Justified(p)'
    BY <1>1, <1>2, <1>4, <1>6, JustifiedStays
  <2> QED
    BY <1>2, <1>6, <2>1 DEF JustifiedInv, GreedyInv, RemovalsJustified
<1>7. ASSUME stack # << >>, NEW x, x.fn = "rev_orphans" => opts.greedy > 0,
             NEW y, y.fn = "rev_orphans" => opts.greedy > 0,
             \/ stack' = Below
             \/ stack' = Append(Below, x)
             \/ stack' = Append(Append(Below, x), y)
      PROVE  \A f \in Frames(stack') : f.fn = "rev_orphans" => opts.greedy > 0
  <2>1. \A f \in Frames(Below) \union {x, y} : f.fn = "rev_orphans" => opts.greedy > 0
    BY <1>3, <1>5, <1>7
  <2>2. Frames(stack') \subseteq Frames(Below) \union {x, y}
    <3>1. /\ Frames(Append(Below, x)) = Frames(Below) \union {x}
          /\ Frames(Append(Append(Below, x), y)) = Frames(Below) \union {x, y}
      BY <1>5, <1>7
    <3>2. CASE stack' = Below
      BY <3>2
    <3>3. CASE stack' = Append(Below, x)
      BY <3>1, <3>3
    <3>4. CASE stack' = Append(Append(Below, x), y)
      BY <3>1, <3>4
    <3> QED
      BY <1>7, <3>2, <3>3, <3>4
  <2> QED
    BY <2>1, <2>2
<1>8. ASSUME stack' = stack, unpkgs' = unpkgs, hand' = hand
      PROVE  JustifiedInv'
  BY <1>3, <1>6, <1>8
<1>9. ASSUME NEW found \in SUBSET Pkg, Resolve(found)
      PROVE  JustifiedInv'
  BY <1>6, <1>9, NoFrames DEF Resolve, Idle, Justified
<1>10. ASSUME NEW p \in Pkg, NextArgument(p)
       PROVE  JustifiedInv'
  <2> DEFINE x == PackageFrame(p, "rev_orphans", {})
  <2>1. /\ stack' = << >> \/ stack' = Append(<< >>, x)
        /\ unpkgs' = unpkgs /\ hand' = hand
    BY <1>10 DEF NextArgument, ProcessPackage
  <2>2. Frames(stack') \subseteq {x}
    <3> HIDE DEF x
    <3>1. DOMAIN << >> = {} /\ DOMAIN Append(<< >>, x) = {1} /\ Append(<< >>, x)[1] = x
      OBVIOUS
    <3> QED
      BY <2>1, <3>1 DEF Frames
  <2>3. x.fn = "process_package"
    BY DEF PackageFrame
  <2> QED
    BY <1>6, <2>1, <2>2, <2>3
<1>11. CASE ProcessRevOrphans
  <2> DEFINE x == PackageFrame(Top.pkg, "get_orphaned", {})
             y == RevOrphansFrame(Top.pkg, 1, ReqNames(Top.pkg), {}, {})
  <2>1. /\ unpkgs' = unpkgs /\ hand' = hand /\ stack # << >>
        /\ \/ stack' = Append(Append(Below, x), y) /\ opts.greedy > 0
           \/ stack' = Append(Below, x)
    BY <1>11 DEF ProcessRevOrphans, Running, ReplaceAndCall, Replace, marks
  <2>2. x.fn = "process_package"
    BY DEF PackageFrame
  <2>3. \A f \in Frames(stack') : f.fn = "rev_orphans" => opts.greedy > 0
    <3> HIDE DEF x, y
    <3>1. CASE stack' = Append(Append(Below, x), y) /\ opts.greedy > 0
      BY <1>7, <2>1, <3>1
    <3>2. CASE stack' = Append(Below, x)
      BY <1>7, <2>1, <2>2, <3>2
    <3> QED
      BY <2>1, <3>1, <3>2
  <2> QED
    BY <1>6, <2>1, <2>3
<1>12. CASE GetOrphaned
  <2> DEFINE x == PackageFrame(Top.pkg, "reqs", {q \in OrphanedBy(Top.pkg) : ~ Marked(q)})
  <2>1. /\ unpkgs' = unpkgs /\ hand' = hand /\ stack # << >>
        /\ stack' = Below \/ stack' = Append(Below, x)
    BY <1>12 DEF GetOrphaned, Running, Return, Replace, marks
  <2>2. x.fn = "process_package"
    BY DEF PackageFrame
  <2> HIDE DEF x
  <2> QED
    BY <1>6, <1>7, <2>1, <2>2
<1>13. ASSUME NEW q \in Pkg, SpareOrphan(q)
       PROVE  JustifiedInv'
  <2> DEFINE x == OrphanLeft(q)
  <2>1. /\ unpkgs' = unpkgs /\ hand' = hand /\ stack # << >>
        /\ stack' = Append(Below, x)
    BY <1>13 DEF SpareOrphan, Running, Replace, marks
  <2>2. x.fn = "process_package"
    BY DEF OrphanLeft, PackageFrame
  <2> HIDE DEF x
  <2> QED
    BY <1>6, <1>7, <2>1, <2>2
<1>14. ASSUME NEW q \in Pkg, MarkOrphan(q)
       PROVE  JustifiedInv'
  <2> DEFINE x == OrphanLeft(q)
             y == PackageFrame(q, "rev_orphans", {})
  <2>1. /\ unpkgs' = unpkgs \union {q} /\ hand' = hand /\ stack # << >>
        /\ stack' = Append(Below, x) \/ stack' = Append(Append(Below, x), y)
    BY <1>14 DEF MarkOrphan, ProcessPackage, Running
  <2>2. x.fn = "process_package" /\ y.fn = "process_package"
    BY DEF OrphanLeft, PackageFrame
  <2>3. Justified(q)'
    <3>1. PICK r \in IteratedReqs(q) : /\ ~ Satisfies(db, q, r)
                                       /\ ~ MetByDb(r)
                                       /\ \E u \in unpkgs : Satisfies(db, u, r)
      BY <1>14 DEF MarkOrphan, Spared, LosesReq
    <3>2. Broken(q, r)'
      BY <1>2, <2>1, <3>1 DEF Broken, MetByDb, MatchReq
    <3>3. r \in IteratedReqs(q)'
      BY <1>2, <3>1 DEF IteratedReqs
    <3> QED
      BY <3>2, <3>3 DEF Justified
  <2> HIDE DEF x, y
  <2>4. \A f \in Frames(stack') : f.fn = "rev_orphans" => opts.greedy > 0
    BY <1>7, <2>1, <2>2
  <2> QED
    BY <1>6, <2>1, <2>3, <2>4
<1>15. CASE PackageProcessed \/ RevOrphansProcessed
  <2>1. unpkgs' = unpkgs /\ hand' = hand /\ stack # << >> /\ stack' = Below
    BY <1>15 DEF PackageProcessed, RevOrphansProcessed, Running, Return, marks
  <2>2. Frames(stack') \subseteq Frames(stack)
    BY <1>5, <2>1
  <2> QED
    BY <1>3, <1>6, <2>1, <2>2
<1>16. ASSUME Running("rev_orphans") PROVE opts.greedy > 0
  BY <1>3, <1>5, <1>16 DEF Running
<1>17. ASSUME NEW n \in Name, NextRequirement(n)
       PROVE  JustifiedInv'
  BY <1>6, <1>7, <1>16, <1>17 DEF NextRequirement, Running, Replace, marks
<1>18. ASSUME NEW c \in Pkg, KeepProvider(c)
       PROVE  JustifiedInv'
  BY <1>6, <1>7, <1>16, <1>18 DEF KeepProvider, Running, Replace, marks
<1>19. ASSUME NEW c \in Pkg, RemoveProvider(c)
       PROVE  JustifiedInv'
  <2>1. /\ unpkgs' = unpkgs \union {c} /\ hand' = hand /\ stack # << >>
        /\ opts.greedy > 0 /\ ~ LeavesOrphans(c)
        /\ \E x, y : stack' = Append(Below, x) \/ stack' = Append(Append(Below, x), y)
    BY <1>16, <1>19 DEF RemoveProvider, Running, Replace, ReplaceAndCall
  <2>2. Justified(c)'
    BY <1>2, <2>1 DEF Justified, LeavesOrphans, OwnCaps, IsRequired
  <2>3. \A f \in Frames(stack') : f.fn = "rev_orphans" => opts.greedy > 0
    BY <1>7, <2>1
  <2> QED
    BY <1>6, <2>1, <2>2, <2>3
<1>20. CASE Interrupt \/ ResolveNothing \/ Processed \/ Decline \/ Uninstalled \/ Verify
  BY <1>8, <1>20 DEF Interrupt, ResolveNothing, Processed, Decline, Uninstalled, Verify, marks
<1>21. ASSUME NEW gone \in SUBSET Pkg, UninstallFails(gone)
       PROVE  JustifiedInv'
  BY <1>8, <1>21 DEF UninstallFails, marks
<1>22. CASE UNCHANGED vars
  BY <1>8, <1>22 DEF vars
<1> QED
  BY <1>9, <1>10, <1>11, <1>12, <1>13, <1>14, <1>15, <1>17, <1>18, <1>19, <1>20, <1>21,
     <1>22 DEF Next, Step, Finished

(* A package is in the removal for a reason: the user named it, the rest   *)
(* of the removal takes a requirement from it (process_pkg_reqs), or with  *)
(* greedy nothing that stays requires what it provides.                    *)
THEOREM RemovalsAreJustified == Spec => []RemovalsJustified
<1>1. Init => TypeInv /\ Idle /\ JustifiedInv
  <2>1. Init => JustifiedInv
    BY NoFrames DEF Init, JustifiedInv, GreedyInv, RemovalsJustified
  <2> QED
    BY <2>1, TypeInit DEF Init, Idle
<1>2. TypeInv /\ Idle /\ JustifiedInv /\ [Next]_vars => (TypeInv /\ Idle /\ JustifiedInv)'
  BY TypeStep, IdleStep, JustifiedStep
<1>3. JustifiedInv => RemovalsJustified
  BY DEF JustifiedInv
<1> QED
  BY <1>1, <1>2, <1>3, PTL DEF Spec

-----------------------------------------------------------------------------
(* What is done to the system.                                             *)
RunInv == /\ RemovedIsGone
          /\ phase \in {"resolve", "process", "run"} => inst = Pkg
          /\ phase = "run" /\ opts.test => opts.rpmtest
          /\ phase = "verify" => opts.track
          /\ TestRemovesNothing

(* Every step keeps RunInv: pm_pmuninstall and update_iinf agree on what   *)
(* is gone.                                                                *)
LEMMA RunStep ==
    ASSUME TypeInv, Idle, RunInv, [Next]_vars
    PROVE  RunInv'
<1>1. /\ opts \in Option /\ (opts.rpmtest => opts.test) /\ (opts.track => ~ opts.test)
      /\ unpkgs \subseteq Pkg
  BY OptionsAssumption DEF TypeInv, TypeOK
<1> USE DEF RunInv, RemovedIsGone, TestRemovesNothing, Running, marks
<1>2. ASSUME UNCHANGED <<opts, phase, inst, removed>> PROVE RunInv'
  BY <1>2
<1>3. CASE ResolveNothing
  BY <1>3 DEF ResolveNothing
<1>4. ASSUME NEW found \in SUBSET Pkg, Resolve(found)
      PROVE  RunInv'
  BY <1>4 DEF Resolve
<1>5. ASSUME NEW p \in Pkg,
             \/ NextArgument(p) \/ SpareOrphan(p) \/ MarkOrphan(p)
             \/ KeepProvider(p) \/ RemoveProvider(p)
      PROVE  RunInv'
  BY <1>2, <1>5 DEF NextArgument, SpareOrphan, MarkOrphan, KeepProvider, RemoveProvider
<1>6. ASSUME NEW n \in Name, NextRequirement(n)
      PROVE  RunInv'
  BY <1>2, <1>6 DEF NextRequirement
<1>7. CASE \/ ProcessRevOrphans \/ GetOrphaned \/ PackageProcessed \/ RevOrphansProcessed
           \/ Interrupt
  BY <1>2, <1>7 DEF ProcessRevOrphans, GetOrphaned, PackageProcessed,
                    RevOrphansProcessed, Interrupt
<1>8. CASE Processed
  BY <1>8 DEF Processed
<1>9. CASE Decline
  BY <1>9 DEF Decline
<1>10. CASE Uninstalled
  BY <1>1, <1>10 DEF Uninstalled, Idle
<1>11. ASSUME NEW gone \in SUBSET Pkg, UninstallFails(gone)
       PROVE  RunInv'
  BY <1>1, <1>11 DEF UninstallFails, Idle
<1>12. CASE Verify
  BY <1>1, <1>12 DEF Verify, IsPkgInstalled
<1>13. CASE UNCHANGED vars
  BY <1>2, <1>13 DEF vars
<1> QED
  BY <1>3, <1>4, <1>5, <1>6, <1>7, <1>8, <1>9, <1>10, <1>11, <1>12, <1>13
     DEF Next, Step, Finished

(* RunInv holds throughout do_poldek_ts_uninstall.                         *)
LEMMA RunInvariant == Spec => []RunInv
<1>1. Init => TypeInv /\ Idle /\ RunInv
  <2>1. Init => RunInv
    BY DEF Init, RunInv, RemovedIsGone, TestRemovesNothing
  <2> QED
    BY <2>1, TypeInit DEF Init, Idle
<1>2. TypeInv /\ Idle /\ RunInv /\ [Next]_vars => (TypeInv /\ Idle /\ RunInv)'
  BY TypeStep, IdleStep, RunStep
<1> QED
  BY <1>1, <1>2, PTL DEF Spec

(* The shell drops from its list only packages that are gone, even when    *)
(* rpm fails half way or two records share a name and a version.           *)
THEOREM RemovedAreGone == Spec => []RemovedIsGone
<1>1. RunInv => RemovedIsGone
  BY DEF RunInv
<1> QED
  BY <1>1, RunInvariant, PTL

(* A test run removes nothing.                                             *)
THEOREM TestIsHarmless == Spec => []TestRemovesNothing
<1>1. RunInv => TestRemovesNothing
  BY DEF RunInv
<1> QED
  BY <1>1, RunInvariant, PTL

-----------------------------------------------------------------------------
(* The uninstaller implements RemovalPlan.                                 *)
LEMMA PlanOperators ==
    /\ \A D, p, r : Plan!Satisfies(D, p, r) <=> Satisfies(D, p, r)
    /\ \A D, r, F, X : Plan!MatchReq(D, r, F, X) <=> MatchReq(D, r, F, X)
    /\ \A D, q, r, X : Plan!SelfMatched(D, q, r, X) <=> SelfMatched(D, q, r, X)
    /\ \A D, c, X : Plan!IsRequired(D, c, X) <=> IsRequired(D, c, X)
    /\ \A d : Plan!Unversioned(d) = Unversioned(d)
<1>1. \A x, y, rel : Plan!RelMatch(x, y, rel) <=> RelMatch(x, y, rel)
  BY DEF Plan!RelMatch, RelMatch
<1>2. \A c, r, F : Plan!CapXMatchReq(c, r, F) <=> CapXMatchReq(c, r, F)
  BY <1>1 DEF Plan!CapXMatchReq, CapXMatchReq
<1>3. \A D, p, r : Plan!Satisfies(D, p, r) <=> Satisfies(D, p, r)
  BY <1>2 DEF Plan!Satisfies, Satisfies, Plan!CapMatchReq, CapMatchReq
<1>4. \A D, r, F, X : Plan!MatchReq(D, r, F, X) <=> MatchReq(D, r, F, X)
  BY <1>2 DEF Plan!MatchReq, MatchReq
<1>5. \A D, c, X : Plan!IsRequired(D, c, X) <=> IsRequired(D, c, X)
  BY DEF Plan!IsRequired, IsRequired, Plan!RequiresName, RequiresName
<1>6. \A d : Plan!Unversioned(d) = Unversioned(d)
  BY DEF Plan!Unversioned, Unversioned, Plan!NoEvr, NoEvr
<1>7. \A D, q, r, X : Plan!SelfMatched(D, q, r, X) <=> SelfMatched(D, q, r, X)
  BY <1>2, <1>3 DEF Plan!SelfMatched, SelfMatched
<1> QED
  BY <1>3, <1>4, <1>5, <1>6, <1>7

(* Every step of the uninstaller is a step of RemovalPlan or changes       *)
(* nothing there; Processed is the one that seals, when the plan is        *)
(* closed.                                                                 *)
LEMMA PlanStep ==
    ASSUME DistinctIds, Inv, [Next]_vars
    PROVE  [Plan!Next]_(Plan!vars)
<1> USE DEF Plan!vars, PlanState, marks, Running
<1>1. /\ unpkgs \subseteq Pkg /\ phase \in Phase /\ interrupted \in BOOLEAN
  BY DEF Inv, TypeInv, TypeOK
<1>2. db' = db /\ opts' = opts
  BY Steady
<1>3. Idle /\ MarksInv
  BY DEF Inv
<1>4. ASSUME UNCHANGED <<unpkgs, phase, interrupted>> PROVE UNCHANGED Plan!vars
  BY <1>2, <1>4
<1>5. CASE ResolveNothing
  <2>1. PlanState = "open" /\ PlanState' = "void" /\ unpkgs' = unpkgs
    BY <1>3, <1>5 DEF ResolveNothing, Idle
  <2> QED
    BY <1>2, <2>1 DEF Plan!Next, Plan!Void
<1>6. ASSUME NEW found \in SUBSET Pkg, Resolve(found)
      PROVE  Plan!Next
  <2>1. PlanState = "open" /\ PlanState' \in {"planning", "void"} /\ unpkgs' = found
    BY <1>3, <1>6 DEF Resolve, Idle
  <2> HIDE DEF PlanState
  <2> QED
    BY <1>2, <2>1 DEF Plan!Next, Plan!Request
<1>7. ASSUME NEW p \in Pkg, NextArgument(p) \/ SpareOrphan(p) \/ KeepProvider(p)
      PROVE  UNCHANGED Plan!vars
  BY <1>4, <1>7 DEF NextArgument, SpareOrphan, KeepProvider
<1>8. ASSUME NEW q \in Pkg, MarkOrphan(q)
      PROVE  Plan!Next
  <2>1. /\ unpkgs' = unpkgs \union {q} /\ q \notin unpkgs /\ LosesReq(q)
        /\ phase = "process" /\ UNCHANGED <<phase, interrupted>>
    BY <1>3, <1>8 DEF MarkOrphan, Spared, MarksInv
  <2>2. PlanState \in {"planning", "void"} /\ PlanState' = PlanState
    BY <1>2, <2>1
  <2>3. Plan!Loses(q)
    <3>1. PICK r \in IteratedReqs(q) : /\ ~ MetByDb(r)
                                       /\ \E u \in unpkgs : Satisfies(db, u, r)
      BY <2>1 DEF LosesReq
    <3>2. r \in Plan!MayLose(q)
      BY <3>1, PlanOperators DEF IteratedReqs, Plan!MayLose, Plan!Needs
    <3>3. Plan!Lost(r)
      BY <3>1, PlanOperators DEF MetByDb, Plan!Lost
    <3> QED
      BY <3>2, <3>3 DEF Plan!Loses
  <2> HIDE DEF PlanState
  <2> QED
    BY <1>2, <2>1, <2>2, <2>3 DEF Plan!Next, Plan!Extend
<1>9. ASSUME NEW c \in Pkg, RemoveProvider(c)
      PROVE  [Plan!Next]_(Plan!vars)
  <2>1. /\ unpkgs' = unpkgs \union {c} /\ ~ LeavesOrphans(c)
        /\ phase = "process" /\ UNCHANGED <<phase, interrupted>>
    BY <1>9 DEF RemoveProvider
  <2>2. PlanState \in {"planning", "void"} /\ PlanState' = PlanState
    BY <1>2, <2>1
  <2>3. Plan!Unneeded(c)
    BY <2>1, PlanOperators DEF LeavesOrphans, OwnCaps, Plan!Unneeded
  <2> HIDE DEF PlanState
  <2>4. CASE c \in unpkgs
    BY <1>2, <2>1, <2>2, <2>4
  <2>5. CASE c \notin unpkgs
    BY <1>2, <2>1, <2>2, <2>3, <2>5 DEF Plan!Next, Plan!Extend
  <2> QED
    BY <2>4, <2>5
<1>10. ASSUME NEW n \in Name, NextRequirement(n)
       PROVE  UNCHANGED Plan!vars
  BY <1>4, <1>10 DEF NextRequirement
<1>11. CASE ProcessRevOrphans \/ GetOrphaned \/ PackageProcessed \/ RevOrphansProcessed
  BY <1>4, <1>11 DEF ProcessRevOrphans, GetOrphaned, PackageProcessed, RevOrphansProcessed
<1>12. CASE Interrupt
  <2>1. /\ unpkgs' = unpkgs /\ PlanState' = "void" /\ PlanState \in {"planning", "void"}
    BY <1>2, <1>12 DEF Interrupt
  <2> HIDE DEF PlanState
  <2> QED
    BY <1>2, <2>1 DEF Plan!Next, Plan!Void
<1>13. CASE Processed
  <2>1. unpkgs' = unpkgs /\ phase = "process" /\ phase' \in {"run", "done"}
        /\ stack = << >> /\ tmp = {} /\ interrupted' = interrupted
    BY <1>13 DEF Processed
  <2>2. CASE interrupted \/ ~ opts.follow
    BY <1>2, <2>1, <2>2
  <2>3. CASE ~ interrupted /\ opts.follow /\ unpkgs = {}
    <3>1. PlanState = "planning" /\ PlanState' = "void"
      BY <1>2, <2>1, <2>3
    <3> HIDE DEF PlanState
    <3> QED
      BY <1>2, <2>1, <3>1 DEF Plan!Next, Plan!Void
  <2>4. CASE ~ interrupted /\ opts.follow /\ unpkgs # {}
    <3>1. PlanState = "planning" /\ PlanState' = "sealed"
      BY <1>2, <2>1, <2>4
    <3>2. \A q \in Pkg \ unpkgs : \A r \in Needs(q) : ~ Open(q, r)
      <4>1. Frames(stack) = {}
        BY <2>1, NoFrames
      <4> QED
        BY <2>1, <2>4, <4>1 DEF Inv, FollowInv, Covered, Handled, Pending
    <3>3. Plan!Closed
      BY <3>2, PlanOperators DEF Plan!Closed, Plan!Needs, Plan!Lost, Needs, Open, Broken
    <3> HIDE DEF PlanState
    <3> QED
      BY <1>2, <2>1, <3>1, <3>3 DEF Plan!Next, Plan!Seal
  <2> QED
    BY <1>1, <2>2, <2>3, <2>4
<1>14. ASSUME phase \in {"run", "verify"}, phase' \in {"run", "verify", "done"},
              UNCHANGED <<unpkgs, interrupted>>
       PROVE  UNCHANGED Plan!vars
  BY <1>2, <1>14
<1>15. CASE Decline \/ Uninstalled \/ Verify
  BY <1>14, <1>15 DEF Decline, Uninstalled, Verify
<1>16. ASSUME NEW gone \in SUBSET Pkg, UninstallFails(gone)
       PROVE  UNCHANGED Plan!vars
  BY <1>14, <1>16 DEF UninstallFails
<1>17. CASE UNCHANGED vars
  BY <1>4, <1>17 DEF vars
<1> QED
  BY <1>5, <1>6, <1>7, <1>8, <1>9, <1>10, <1>11, <1>12, <1>13, <1>15, <1>16, <1>17
     DEF Next, Step, Finished

(* The uninstaller, whatever the order of its recursion and even when the  *)
(* user interrupts it, grows the set of packages to be removed only in the *)
(* ways RemovalPlan allows and seals it closed under reverse dependencies. *)
THEOREM ImplementsRemovalPlan ==
    ASSUME DistinctIds
    PROVE  Spec => RefinesPlan
<1>1. Init => Plan!Init
  BY DEF Init, Plan!Init, PlanState
<1>2. Inv /\ [Next]_vars => [Plan!Next]_(Plan!vars)
  BY PlanStep
<1> QED
  BY <1>1, <1>2, InvInit, InvStep, PTL DEF Spec, RefinesPlan, Plan!Spec
=============================================================================
