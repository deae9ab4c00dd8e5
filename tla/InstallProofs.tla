--------------------------- MODULE InstallProofs ---------------------------
(***************************************************************************)
(* What the solver guarantees for every repository and database, whatever  *)
(* the packages require, obsolete and conflict with: what was asked for    *)
(* stays, what goes is what is replaced, nothing is hidden and no orphan   *)
(* is left behind, with the exceptions that the properties name.           *)
(***************************************************************************)
EXTENDS Install, SequenceTheorems, TLAPS

TypeInv == TypeOK /\ db \in Databases

-----------------------------------------------------------------------------
(* The C stack.                                                            *)

(* What the steps do to the stack: the top goes on, goes on and calls, or  *)
(* returns.                                                                *)
LEMMA StackSteps ==
    ASSUME stack \in Seq(Call), stack # << >>
    PROVE  /\ Len(stack) \in Nat \ {0} /\ Top \in Call /\ Top = stack[Len(stack)]
           /\ \A i \in 1..Len(stack) : stack[i] \in Call
           /\ \A c \in Call : Replace(c) =>
                /\ stack' \in Seq(Call) /\ Len(stack') = Len(stack)
                /\ \A i \in 1..(Len(stack) - 1) : stack'[i] = stack[i]
                /\ stack'[Len(stack)] = c
           /\ \A c, f \in Call : stack' = Append(Append(Below, c), f) =>
                /\ stack' \in Seq(Call) /\ Len(stack') = Len(stack) + 1
                /\ \A i \in 1..(Len(stack) - 1) : stack'[i] = stack[i]
                /\ stack'[Len(stack)] = c /\ stack'[Len(stack) + 1] = f
<1> DEFINE n == Len(stack)
<1>1. n \in Nat \ {0} /\ DOMAIN stack = 1..n /\ \A i \in 1..n : stack[i] \in Call
  BY EmptySeq, LenProperties, ElementOfSeq
<1>2. Top \in Call /\ Top = stack[n]
  BY <1>1 DEF Top
<1>3. ASSUME NEW m \in 0..n
      PROVE  /\ SubSeq(stack, 1, m) \in Seq(Call) /\ Len(SubSeq(stack, 1, m)) = m
             /\ \A i \in 1..m : SubSeq(stack, 1, m)[i] = stack[i]
  BY <1>1
<1>4. n - 1 \in 0..n
  BY <1>1
<1>5. /\ Below \in Seq(Call) /\ Len(Below) = n - 1
      /\ \A i \in 1..(n - 1) : Below[i] = stack[i]
  BY <1>3, <1>4, Zenon DEF Below
<1>6. ASSUME NEW s \in Seq(Call), NEW c \in Call
      PROVE  /\ Append(s, c) \in Seq(Call) /\ Len(Append(s, c)) = Len(s) + 1
             /\ \A i \in 1..Len(s) : Append(s, c)[i] = s[i]
             /\ Append(s, c)[Len(s) + 1] = c
  BY AppendProperties, LenProperties
<1>7. ASSUME NEW c \in Call
      PROVE  /\ Append(Below, c) \in Seq(Call) /\ Len(Append(Below, c)) = n
             /\ \A i \in 1..(n - 1) : Append(Below, c)[i] = stack[i]
             /\ Append(Below, c)[n] = c
  <2>1. n - 1 + 1 = n
    BY <1>1
  <2> QED
    BY <1>5, <1>6, <2>1
<1>8. ASSUME NEW c \in Call, NEW f \in Call
      PROVE  /\ Append(Append(Below, c), f) \in Seq(Call)
             /\ Len(Append(Append(Below, c), f)) = n + 1
             /\ \A i \in 1..(n - 1) : Append(Append(Below, c), f)[i] = stack[i]
             /\ Append(Append(Below, c), f)[n] = c
             /\ Append(Append(Below, c), f)[n + 1] = f
  <2> DEFINE s == Append(Below, c)
  <2>1. /\ s \in Seq(Call) /\ Len(s) = n
        /\ \A i \in 1..(n - 1) : s[i] = stack[i]
        /\ s[n] = c
    BY <1>7
  <2> HIDE DEF s
  <2>2. /\ Append(s, f) \in Seq(Call) /\ Len(Append(s, f)) = n + 1
        /\ \A i \in 1..n : Append(s, f)[i] = s[i]
        /\ Append(s, f)[n + 1] = f
    BY <1>6, <2>1
  <2>3. n \in 1..n /\ \A i \in 1..(n - 1) : i \in 1..n
    BY <1>1
  <2> QED
    BY <2>1, <2>2, <2>3 DEF s
<1>9. \A c \in Call : Replace(c) =>
          /\ stack' \in Seq(Call) /\ Len(stack') = n
          /\ \A i \in 1..(n - 1) : stack'[i] = stack[i]
          /\ stack'[n] = c
  BY <1>7 DEF Replace
<1>10. \A c, f \in Call : stack' = Append(Append(Below, c), f) =>
          /\ stack' \in Seq(Call) /\ Len(stack') = n + 1
          /\ \A i \in 1..(n - 1) : stack'[i] = stack[i]
          /\ stack'[n] = c /\ stack'[n + 1] = f
  <2> SUFFICES ASSUME NEW c \in Call, NEW f \in Call, stack' = Append(Append(Below, c), f)
               PROVE  /\ stack' \in Seq(Call) /\ Len(stack') = n + 1
                      /\ \A i \in 1..(n - 1) : stack'[i] = stack[i]
                      /\ stack'[n] = c /\ stack'[n + 1] = f
    OBVIOUS
  <2> QED
    BY <1>8
<1> QED
  BY <1>1, <1>2, <1>9, <1>10

(* The caller, y before and x after, remembers what top marked.            *)
Remembers(x, y) ==
    /\ x.pkg = y.pkg /\ x.at = y.at /\ x.missed = y.missed
    /\ x.marked = IF Top.pkg \notin hand THEN y.marked \union Top.marked ELSE y.marked
    /\ x.obsoleted = IF Top.pkg \notin hand THEN y.obsoleted \union Top.obsoleted
                     ELSE y.obsoleted

(* do_process_package returns to its caller.                               *)
LEMMA ReturnSteps ==
    ASSUME stack \in Seq(Call), stack # << >>, NEW rc \in {1, -1}, Return(rc)
    PROVE  \/ Len(stack) = 1 /\ stack' = << >>
           \/ /\ Len(stack) > 1
              /\ stack' \in Seq(Call) /\ Len(stack') = Len(stack) - 1
              /\ \A i \in 1..(Len(stack) - 2) : stack'[i] = stack[i]
              /\ Remembers(stack'[Len(stack) - 1], stack[Len(stack) - 1])
<1> DEFINE n == Len(stack)
           y == stack[n - 1]
           known == IF Top.pkg \in hand THEN y
                    ELSE [y EXCEPT !.marked = y.marked \union Top.marked,
                                   !.obsoleted = y.obsoleted \union Top.obsoleted]
           x == Returned(known, rc)
<1>1. /\ n \in Nat \ {0} /\ Top \in Call
      /\ \A i \in 1..n : stack[i] \in Call
  BY StackSteps
<1>2. CASE n = 1
  BY <1>2 DEF Return
<1>3. CASE n > 1
  <2>1. n - 1 \in 1..n /\ n - 1 \in 0..n /\ y \in Call
    BY <1>1, <1>3
  <2>2. ASSUME NEW m \in 0..n
        PROVE  /\ SubSeq(stack, 1, m) \in Seq(Call) /\ Len(SubSeq(stack, 1, m)) = m
               /\ \A i \in 1..m : SubSeq(stack, 1, m)[i] = stack[i]
    BY <1>1
  <2>3. /\ Below \in Seq(Call) /\ Len(Below) = n - 1
        /\ \A i \in 1..(n - 1) : Below[i] = stack[i]
    BY <2>1, <2>2, Zenon DEF Below
  <2>4. /\ known \in Call /\ known.pkg = y.pkg /\ known.at = y.at /\ known.missed = y.missed
        /\ known.marked = IF Top.pkg \notin hand THEN y.marked \union Top.marked ELSE y.marked
        /\ known.obsoleted = IF Top.pkg \notin hand THEN y.obsoleted \union Top.obsoleted
                             ELSE y.obsoleted
    BY <1>1, <2>1 DEF Call
  <2>5. stack' = [Below EXCEPT ![n - 1] = x]
    <3>1. n - 1 \in 1..(n - 1)
      BY <1>1, <1>3
    <3>2. Below[Len(Below)] = y
      BY <2>3, <3>1
    <3> QED
      BY <1>3, <2>3, <3>2, SMTT(30) DEF Return
  <2> HIDE DEF known
  <2>6. /\ x \in Call /\ x.pkg = known.pkg /\ x.at = known.at /\ x.missed = known.missed
        /\ x.marked = known.marked /\ x.obsoleted = known.obsoleted
    BY <2>4 DEF Returned, Call
  <2> HIDE DEF x
  <2>7. /\ stack' \in Seq(Call) /\ Len(stack') = n - 1
        /\ \A i \in 1..(n - 2) : stack'[i] = stack[i]
        /\ stack'[n - 1] = x
    <3>1. n - 1 \in 1..(n - 1) /\ \A i \in 1..(n - 2) : i \in 1..(n - 1) /\ i # n - 1
      BY <1>1, <1>3
    <3> QED
      BY <2>3, <2>5, <2>6, <3>1
  <2> QED
    BY <1>3, <2>4, <2>6, <2>7 DEF Remembers
<1>4. n = 1 \/ n > 1
  <2>1. n \in Nat /\ n # 0
    BY <1>1
  <2> HIDE DEF n
  <2> QED
    BY <2>1
<1> HIDE DEF x, known, y, n
<1> QED
  BY <1>2, <1>3, <1>4

-----------------------------------------------------------------------------
(* Types.                                                                  *)

(* What a database holds.                                                  *)
LEMMA DatabaseTypes ==
    ASSUME TypeInv
    PROVE  /\ db.avail \subseteq Pkg /\ db.inst \subseteq Pkg
           /\ \A p \in Pkg : /\ db.reqs[p] \subseteq Req /\ db.caps[p] \subseteq Req
                             /\ db.cnfl[p] \subseteq Req /\ Cnfls(p) \subseteq Req
<1>1. db \in InstallDatabase
  BY DatabasesAssumption DEF TypeInv
<1>2. Cap \subseteq Req
  <2> SUFFICES ASSUME NEW c \in Cap PROVE c \in Req
    OBVIOUS
  <2>1. c \in CapReq /\ (c.rel = {} <=> c.evr.v = 0)
        /\ (c.evr.v = 0 => c.evr.e = 0 /\ c.evr.r = 0)
    BY DEF Cap
  <2> QED
    BY <2>1 DEF Req
<1>3. /\ db.avail \subseteq Pkg /\ db.inst \subseteq Pkg
      /\ \A p \in Pkg : /\ db.reqs[p] \subseteq Req /\ db.caps[p] \subseteq Cap
                        /\ db.cnfl[p] \subseteq Req /\ db.obsl[p] \subseteq Req
  BY <1>1 DEF InstallDatabase
<1> QED
  BY <1>2, <1>3 DEF Cnfls

(* The candidates for a requirement are available, and so is what is left  *)
(* of them and what is picked.                                             *)
LEMMA CandidateTypes ==
    /\ \A r : Candidates(r) \subseteq db.avail
    /\ \A m, r : \A left \in Left(m, r) : left \subseteq Candidates(r)
    /\ \A left, best : best \in left => Pickable(left, best) \subseteq left
<1>1. \A r : Candidates(r) \subseteq db.avail
  BY DEF Candidates, Providers
<1>2. \A m, r : \A left \in Left(m, r) : left \subseteq Candidates(r)
  BY DEF Left
<1>3. \A left, best : best \in left => Pickable(left, best) \subseteq left
  BY DEF Pickable
<1> QED
  BY <1>1, <1>2, <1>3

(* The requirements that orphans miss.                                     *)
LEMMA MissedTypes ==
    ASSUME TypeInv, NEW caps, NEW gone
    PROVE  /\ MissedReqs(caps, gone) \subseteq Pkg \X Req
           /\ \A m \in MissedReqs(caps, gone) : m[1] \in Pkg \ gone /\ m[2] \in db.reqs[m[1]]
<1> SUFFICES ASSUME NEW m \in MissedReqs(caps, gone)
             PROVE  m \in Pkg \X Req /\ m[1] \in Pkg \ gone /\ m[2] \in db.reqs[m[1]]
  OBVIOUS
<1>1. PICK c \in caps, o \in UNION {WhatRequires(db, d, gone) : d \in caps} :
          m \in {<<o, r>> : r \in {q \in db.reqs[o] : RequiresCap(q, c)}}
  BY DEF MissedReqs
<1>2. PICK r \in db.reqs[o] : m = <<o, r>>
  BY <1>1
<1>3. o \in Pkg \ gone
  BY <1>1 DEF WhatRequires
<1> QED
  BY <1>2, <1>3, DatabaseTypes

-----------------------------------------------------------------------------
(* What the steps of do_process_package do to the tree of choices.         *)

(* The call d goes on as c, when it has replaced what it obsoletes.        *)
Alike(c, d) ==
    /\ c.pkg = d.pkg /\ c.marked = d.marked /\ c.obsoleted = d.obsoleted
    /\ c.at # "obsoletes"
    /\ c.at = "orphans" => d.at = "orphans" /\ c.missed \subseteq d.missed

(* Nothing is marked, but errors may be found.                             *)
Stays ==
    /\ phase = "process" /\ stack # << >> /\ Top.at # "obsoletes"
    /\ \E c \in Call : Alike(c, Top) /\ Replace(c)
    /\ UNCHANGED <<db, opts, phase, inst, args, pms, queue, inset, hand, unset, interrupted, ok>>
    /\ gray \subseteq gray' /\ gray' \subseteq Pkg
    /\ gray' \intersect inset = gray \intersect inset
    /\ black \subseteq black' /\ black' \subseteq Pkg
    /\ errors' \subseteq Pkg \X (Req \union Pkg)
    /\ abort' \in BOOLEAN /\ (abort => abort')

(* p is marked.                                                            *)
Enters(p) ==
    /\ phase = "process" /\ ~ Stopped /\ stack # << >> /\ Top.at # "obsoletes"
    /\ p \in db.avail /\ p \notin gray
    /\ p \in inset => Top.at = "orphans" /\ Top.missed # {}
    /\ gray' = gray \union {p} /\ inset' = inset \union {p}
    /\ hand' = (IF p \in pms THEN hand \union {p} ELSE hand) /\ pms' = pms \ {p}
    /\ \E c \in Call, indir \in BOOLEAN :
         Alike(c, Top) /\ stack' = Append(Append(Below, c), Frame(p, indir))
    /\ UNCHANGED <<db, opts, phase, inst, args, queue, unset, black, errors, abort,
                   interrupted, ok>>

(* All is done for the package on top.                                     *)
Returns ==
    /\ phase = "process" /\ stack # << >> /\ Top.at # "obsoletes"
    /\ Return(1)
    /\ UNCHANGED <<db, opts, phase, inst, args, pms, queue, inset, hand, unset, gray, abort,
                   interrupted, ok>>
    /\ black \subseteq black' /\ black' \subseteq Pkg
    /\ errors' \subseteq Pkg \X (Req \union Pkg)

(* The calls that go on.                                                   *)
LEMMA GoingOn ==
    ASSUME TypeInv, stack # << >>, Top.at # "obsoletes"
    PROVE  /\ \A S : S \subseteq Top.missed =>
                [Top EXCEPT !.missed = S] \in Call /\ Alike([Top EXCEPT !.missed = S], Top)
           /\ \A o \in Pkg : \A S : S \subseteq Top.missed =>
                /\ [Top EXCEPT !.orphan = o, !.missed = S] \in Call
                /\ Alike([Top EXCEPT !.orphan = o, !.missed = S], Top)
           /\ Requirements(Top) \in Call /\ Alike(Requirements(Top), Top)
           /\ \A r : ReqLeft(r) \in Call /\ Alike(ReqLeft(r), Top)
           /\ \A r : \A crossroad \in BOOLEAN :
                /\ [ReqLeft(r) EXCEPT !.crossroad = crossroad] \in Call
                /\ Alike([ReqLeft(r) EXCEPT !.crossroad = crossroad], Top)
           /\ \A r : /\ [ReqLeft(r) EXCEPT !.failed = TRUE] \in Call
                     /\ Alike([ReqLeft(r) EXCEPT !.failed = TRUE], Top)
           /\ \A at \in {"caps", "cnfls"} : \A S \in SUBSET Req :
                /\ [Top EXCEPT !.at = at, !.todo = S] \in Call
                /\ Alike([Top EXCEPT !.at = at, !.todo = S], Top)
           /\ Top.at # "orphans" =>
                \A S \in SUBSET (Pkg \X Req) : \A c :
                  /\ [Top EXCEPT !.todo = @ \ {c}, !.missed = S] \in Call
                  /\ Alike([Top EXCEPT !.todo = @ \ {c}, !.missed = S], Top)
<1>1. Top \in Call
  BY StackSteps DEF TypeInv, TypeOK
<1>2. db.reqs[Top.pkg] \subseteq Req /\ Stopped \in BOOLEAN
  BY <1>1, DatabaseTypes DEF Call, Stopped, TypeInv, TypeOK
<1>3. Requirements(Top) \in Call /\ Alike(Requirements(Top), Top)
  <2>1. (Stopped /\ db.reqs[Top.pkg] # {}) \in BOOLEAN
    OBVIOUS
  <2> QED
    BY <1>1, <1>2, <2>1 DEF Requirements, Call, Alike
<1>4. \A S : S \subseteq Top.missed =>
         [Top EXCEPT !.missed = S] \in Call /\ Alike([Top EXCEPT !.missed = S], Top)
  BY <1>1 DEF Call, Alike
<1>5. \A o \in Pkg : \A S : S \subseteq Top.missed =>
         /\ [Top EXCEPT !.orphan = o, !.missed = S] \in Call
         /\ Alike([Top EXCEPT !.orphan = o, !.missed = S], Top)
  BY <1>1 DEF Call, Alike
<1>6. \A r : ReqLeft(r) \in Call /\ Alike(ReqLeft(r), Top)
  BY <1>1 DEF ReqLeft, Call, Alike
<1>7. \A c \in Call : Alike(c, Top) =>
         /\ \A x \in BOOLEAN : /\ [c EXCEPT !.crossroad = x] \in Call
                               /\ Alike([c EXCEPT !.crossroad = x], Top)
         /\ [c EXCEPT !.failed = TRUE] \in Call /\ Alike([c EXCEPT !.failed = TRUE], Top)
  <2> SUFFICES ASSUME NEW c \in Call, Alike(c, Top)
               PROVE  /\ \A x \in BOOLEAN : /\ [c EXCEPT !.crossroad = x] \in Call
                                            /\ Alike([c EXCEPT !.crossroad = x], Top)
                      /\ [c EXCEPT !.failed = TRUE] \in Call
                      /\ Alike([c EXCEPT !.failed = TRUE], Top)
    OBVIOUS
  <2>1. ASSUME NEW x \in BOOLEAN
        PROVE  [c EXCEPT !.crossroad = x] \in Call /\ Alike([c EXCEPT !.crossroad = x], Top)
    <3>1. [c EXCEPT !.crossroad = x] \in Call
      BY DEF Call
    <3>2. Alike([c EXCEPT !.crossroad = x], Top)
      BY DEF Call, Alike
    <3> QED
      BY <3>1, <3>2
  <2>2. [c EXCEPT !.failed = TRUE] \in Call
    BY DEF Call
  <2>3. Alike([c EXCEPT !.failed = TRUE], Top)
    BY DEF Call, Alike
  <2> QED
    BY <2>1, <2>2, <2>3
<1>8. \A at \in {"caps", "cnfls"} : \A S \in SUBSET Req :
         /\ [Top EXCEPT !.at = at, !.todo = S] \in Call
         /\ Alike([Top EXCEPT !.at = at, !.todo = S], Top)
  BY <1>1 DEF Call, Alike
<1>9. Top.at # "orphans" =>
         \A S \in SUBSET (Pkg \X Req) : \A c :
           /\ [Top EXCEPT !.todo = @ \ {c}, !.missed = S] \in Call
           /\ Alike([Top EXCEPT !.todo = @ \ {c}, !.missed = S], Top)
  BY <1>1 DEF Call, Alike
<1> QED
  BY <1>3, <1>4, <1>5, <1>6, <1>7, <1>8, <1>9

(* i3_process_package marks the package, or not.                           *)
LEMMA Marking ==
    ASSUME TypeInv, phase = "process", stack # << >>, Top.at # "obsoletes",
           NEW call \in Call, Alike(call, Top), NEW p \in db.avail, NEW indir \in BOOLEAN,
           p \in inset => Top.at = "orphans" /\ Top.missed # {},
           ProcessPackage(call, p, indir),
           UNCHANGED <<db, opts, phase, inst, args, queue, interrupted, ok>>
    PROVE  Stays \/ Enters(p)
<1>1. /\ gray \subseteq Pkg /\ black \subseteq Pkg /\ errors \subseteq Pkg \X (Req \union Pkg)
      /\ abort \in BOOLEAN /\ p \in Pkg
  BY DatabaseTypes DEF TypeInv, TypeOK
<1>2. Returned(call, 0) \in Call /\ Alike(Returned(call, 0), Top)
  BY DEF Returned, Call, Alike
<1>3. CASE Stopped /\ Replace(Returned(call, 0)) /\ UNCHANGED <<ictx, pms>>
  BY <1>1, <1>2, <1>3 DEF Stays, ictx
<1>4. CASE p \in gray /\ Replace(call) /\ UNCHANGED <<ictx, pms>>
  BY <1>1, <1>4 DEF Stays, ictx
<1>5. CASE /\ p \notin inset /\ gray' = gray \union {p} /\ abort' = TRUE
           /\ Replace(Returned(call, 0))
           /\ UNCHANGED <<inset, hand, unset, black, errors, pms>>
  BY <1>1, <1>2, <1>5 DEF Stays
<1>6. CASE /\ ~ Stopped /\ p \notin gray
           /\ gray' = gray \union {p}
           /\ inset' = inset \union {p}
           /\ hand' = IF p \in pms THEN hand \union {p} ELSE hand
           /\ pms' = pms \ {p}
           /\ stack' = Append(Append(Below, call), Frame(p, indir))
           /\ UNCHANGED <<unset, black, errors, abort>>
  BY <1>1, <1>6 DEF Enters
<1> QED
  BY <1>3, <1>4, <1>5, <1>6 DEF ProcessPackage

(* The steps that look at something.                                       *)
LEMMA LookingSteps ==
    ASSUME TypeInv
    PROVE  /\ \A o, r : SkipOrphan(o, r) => Stays
           /\ \A o, r : QuitForOrphan(o, r) => Stays
           /\ \A o, r, p : OrphanUnmet(o, r, p) => Stays
           /\ OrphansProcessed => Stays
           /\ \A r : SkipReq(r) => Stays
           /\ \A r : ReqUnmet(r) => Stays
           /\ \A r : QuitForReq(r) => Stays
           /\ Retry => Stays
           /\ ReqsProcessed => Stays
           /\ \A c : LookUpCap(c) => Stays
           /\ \A c : LookUpCnfl(c) => Stays
           /\ CapsLookedUp => Stays
           /\ \A q, x : ConflictResolved(q, x) => Stays
           /\ \A q, x : ConflictUnresolved(q, x) => Stays
           /\ \A q, x : QuitForConflict(q, x) => Stays
<1>1. /\ stack \in Seq(Call) /\ gray \subseteq Pkg /\ black \subseteq Pkg
      /\ errors \subseteq Pkg \X (Req \union Pkg) /\ abort \in BOOLEAN /\ inst \subseteq Pkg
  BY DEF TypeInv, TypeOK
<1>2. /\ stack # << >> => Top \in Call /\ Top.pkg \in Pkg
      /\ stack # << >> => Top.missed \subseteq Pkg \X Req /\ Top.todo \subseteq Req
  BY <1>1, StackSteps DEF Call
<1>3. \A o, r : Orphan(o, r) => /\ phase = "process" /\ stack # << >> /\ Top.at = "orphans"
                                /\ o \in Pkg /\ r \in Req
                                /\ Top.missed \ {<<o, r>>} \subseteq Top.missed
  BY <1>2 DEF Orphan, Running
<1>4. \A o, r : Orphan(o, r) => OrphanLeft(o, r) \in Call /\ Alike(OrphanLeft(o, r), Top)
  BY <1>3, GoingOn DEF OrphanLeft
<1>5. ASSUME NEW o, NEW r, SkipOrphan(o, r)
      PROVE  Stays
  <2>1. Orphan(o, r) /\ UNCHANGED <<db, opts, phase, inst, args, pms, queue, ictx, interrupted, ok>>
    BY <1>5 DEF SkipOrphan
  <2>2. CASE o \in unset
    <3> DEFINE S == {m \in Top.missed : m[1] # o}
    <3>1. [Top EXCEPT !.missed = S] \in Call /\ Alike([Top EXCEPT !.missed = S], Top)
      <4>1. S \subseteq Top.missed
        OBVIOUS
      <4> HIDE DEF S
      <4> QED
        BY <1>3, <2>1, <4>1, GoingOn
    <3>2. Replace([Top EXCEPT !.missed = S])
      BY <1>5, <2>2 DEF SkipOrphan
    <3> HIDE DEF S
    <3> QED
      BY <1>1, <1>3, <2>1, <3>1, <3>2 DEF Stays, ictx
  <2>3. CASE o \notin unset
    BY <1>1, <1>3, <1>4, <1>5, <2>1, <2>3 DEF SkipOrphan, Stays, ictx
  <2> QED
    BY <2>2, <2>3
<1>6. ASSUME NEW o, NEW r, QuitForOrphan(o, r)
      PROVE  Stays
  BY <1>1, <1>3, <1>4, <1>6 DEF QuitForOrphan, Missed, Stays
<1>7. ASSUME NEW o, NEW r, NEW p, OrphanUnmet(o, r, p)
      PROVE  Stays
  BY <1>1, <1>3, <1>4, <1>7 DEF OrphanUnmet, Missed, Stays
<1>8. ASSUME OrphansProcessed
      PROVE  Stays
  BY <1>1, <1>8, GoingOn DEF OrphansProcessed, Running, Stays, ictx
<1>9. \A r : Requires(r) => /\ phase = "process" /\ stack # << >> /\ Top.at = "reqs" /\ r \in Req
                            /\ ReqLeft(r) \in Call /\ Alike(ReqLeft(r), Top)
                            /\ [ReqLeft(r) EXCEPT !.failed = TRUE] \in Call
                            /\ Alike([ReqLeft(r) EXCEPT !.failed = TRUE], Top)
  BY <1>2, GoingOn DEF Requires, Running
<1>10. ASSUME NEW r, SkipReq(r)
       PROVE  Stays
  BY <1>1, <1>9, <1>10 DEF SkipReq, Stays, ictx
<1>11. ASSUME NEW r, ReqUnmet(r) \/ QuitForReq(r)
       PROVE  Stays
  <2>1. Requires(r) /\ Replace([ReqLeft(r) EXCEPT !.failed = TRUE])
    BY <1>11 DEF ReqUnmet, QuitForReq
  <2>2. PICK c \in Call : Alike(c, Top) /\ Replace(c)
    BY <1>9, <2>1
  <2>3. errors' \subseteq Pkg \X (Req \union Pkg) /\ abort' \in BOOLEAN /\ (abort => abort')
    <3>1. Top.pkg \in Pkg /\ r \in Req
      BY <1>2, <1>9, <2>1
    <3>2. errors' = errors \union {<<Top.pkg, r>>} \/ errors' = errors
      BY <1>11 DEF ReqUnmet, QuitForReq
    <3>3. abort' = abort \/ abort' = TRUE
      BY <1>11 DEF ReqUnmet, QuitForReq
    <3>4. errors' \subseteq Pkg \X (Req \union Pkg)
      BY <1>1, <3>1, <3>2
    <3>5. abort' \in BOOLEAN /\ (abort => abort')
      BY <1>1, <3>3, Zenon
    <3> QED
      BY <3>4, <3>5
  <2>4. UNCHANGED <<db, opts, phase, inst, args, pms, queue, inset, hand, unset, gray, black,
                    interrupted, ok>>
    BY <1>11 DEF ReqUnmet, QuitForReq
  <2> QED
    BY <1>1, <1>9, <2>1, <2>2, <2>3, <2>4 DEF Stays
<1>12. ASSUME Retry
       PROVE  Stays
  BY <1>1, <1>12, GoingOn DEF Retry, Running, Stays, ictx
<1>13. ASSUME BeginConflicts
       PROVE  /\ phase = "process" /\ stack # << >> /\ Top.at = "reqs"
              /\ black \subseteq black' /\ black' \subseteq Pkg
              /\ errors' \subseteq Pkg \X (Req \union Pkg)
  <2>1. ConflictedBy(Top.pkg) \subseteq Pkg
    BY DatabaseTypes DEF ConflictedBy
  <2> QED
    BY <1>1, <1>2, <1>13, <2>1 DEF BeginConflicts, Processed, Running
<1>14. ASSUME ReqsProcessed
       PROVE  Stays
  <2>1. BeginConflicts /\ db.caps[Top.pkg] \subseteq Req
    BY <1>2, <1>13, <1>14, DatabaseTypes DEF ReqsProcessed
  <2>2. PICK c \in Call : Alike(c, Top) /\ Replace(c)
    BY <1>13, <1>14, <2>1, GoingOn DEF ReqsProcessed
  <2>3. UNCHANGED <<db, opts, phase, inst, args, pms, queue, inset, hand, unset, gray, abort,
                    interrupted, ok>>
    BY <2>1 DEF BeginConflicts
  <2> QED
    BY <1>1, <1>13, <2>1, <2>2, <2>3 DEF Stays
<1>15. ASSUME NEW c, LookUpCap(c) \/ LookUpCnfl(c)
       PROVE  Stays
  <2>1. /\ phase = "process" /\ stack # << >> /\ Top.at \in {"caps", "cnfls"} /\ c \in Req
        /\ UNCHANGED <<db, opts, phase, inst, args, pms, queue, ictx, interrupted, ok>>
    BY <1>2, <1>15 DEF LookUpCap, LookUpCnfl, LookUp, Running
  <2>2. PICK S \in SUBSET (Pkg \X Req) : Found(c, S)
    <3>1. CASE LookUpCap(c)
      <4> DEFINE named == {q \in inst \ unset : \E x \in db.cnfl[q] : x.name = c.name}
                 T == UNION {{<<q, x>> : x \in {y \in Cnfls(q) : CapMatchReq(c, y)}} : q \in named}
      <4>1. T \subseteq Pkg \X Req
        <5> SUFFICES ASSUME NEW q \in named, NEW x \in Cnfls(q)
                     PROVE  <<q, x>> \in Pkg \X Req
          OBVIOUS
        <5> QED
          BY <1>1, DatabaseTypes
      <4>2. Found(c, T)
        BY <3>1 DEF LookUpCap
      <4> HIDE DEF T
      <4> QED
        BY <4>1, <4>2
    <3>2. CASE LookUpCnfl(c)
      <4> DEFINE T == {q \in inst \ unset : Satisfies(db, q, c)} \X {c}
      <4>1. T \subseteq Pkg \X Req
        BY <1>1, <2>1
      <4>2. Found(c, T)
        BY <3>2 DEF LookUpCnfl
      <4> HIDE DEF T
      <4> QED
        BY <4>1, <4>2
    <3> QED
      BY <1>15, <3>1, <3>2
  <2>3. Top.at # "orphans" /\ Top.at # "obsoletes"
    BY <2>1
  <2> QED
    BY <1>1, <2>1, <2>2, <2>3, GoingOn DEF Found, Stays, ictx
<1>16. ASSUME CapsLookedUp
       PROVE  Stays
  <2>1. db.cnfl[Top.pkg] \subseteq Req
    BY <1>2, <1>16, DatabaseTypes DEF CapsLookedUp, Running
  <2> QED
    BY <1>1, <1>16, <2>1, GoingOn DEF CapsLookedUp, Running, Stays, ictx
<1>17. \A q, x : Conflict(q, x) => /\ phase = "process" /\ stack # << >>
                                   /\ Top.at # "obsoletes" /\ q \in Pkg /\ x \in Req
                                   /\ ConflictLeft(q, x) \in Call
                                   /\ Alike(ConflictLeft(q, x), Top)
  <2> SUFFICES ASSUME NEW q, NEW x, Conflict(q, x)
               PROVE  /\ phase = "process" /\ stack # << >>
                      /\ Top.at # "obsoletes" /\ q \in Pkg /\ x \in Req
                      /\ ConflictLeft(q, x) \in Call
                      /\ Alike(ConflictLeft(q, x), Top)
    OBVIOUS
  <2>1. /\ phase = "process" /\ stack # << >> /\ Top.at # "obsoletes" /\ <<q, x>> \in Top.missed
    BY DEF Conflict, Running
  <2>2. ConflictLeft(q, x) \in Call /\ Alike(ConflictLeft(q, x), Top)
    BY <2>1, GoingOn DEF ConflictLeft
  <2> QED
    BY <1>2, <2>1, <2>2
<1>18. ASSUME NEW q, NEW x, ConflictResolved(q, x)
       PROVE  Stays
  BY <1>1, <1>17, <1>18 DEF ConflictResolved, Stays, ictx
<1>19. ASSUME NEW q, NEW x, Conflict(q, x), Unresolved(q, x), abort' \in BOOLEAN, abort => abort'
       PROVE  Stays
  BY <1>1, <1>2, <1>17, <1>19 DEF Unresolved, Stays
<1>20. ASSUME NEW q, NEW x, ConflictUnresolved(q, x)
       PROVE  Stays
  BY <1>1, <1>19, <1>20 DEF ConflictUnresolved
<1>21. ASSUME NEW q, NEW x, QuitForConflict(q, x)
       PROVE  Stays
  BY <1>1, <1>19, <1>21 DEF QuitForConflict, ByOpposite
<1> QED
  BY <1>5, <1>6, <1>7, <1>8, <1>10, <1>11, <1>12, <1>14, <1>15, <1>16, <1>18, <1>20, <1>21

(* The steps that call i3_process_package.                                 *)
LEMMA MarkingSteps ==
    ASSUME TypeInv
    PROVE  /\ \A o, r, p : UpgradeOrphan(o, r, p) => Stays \/ Enters(p)
           /\ \A o, r, p : MarkForOrphan(o, r, p) => Stays \/ Enters(p)
           /\ \A r, p : MarkForReq(r, p) => Stays \/ Enters(p)
           /\ \A q, x, p : MarkForConflict(q, x, p) => Stays \/ Enters(p)
<1>1. stack \in Seq(Call) /\ (stack # << >> => Top \in Call)
  BY StackSteps DEF TypeInv, TypeOK
<1>2. \A o, r : Orphan(o, r) =>
         /\ phase = "process" /\ stack # << >> /\ Top.at = "orphans" /\ Top.missed # {}
         /\ OrphanLeft(o, r) \in Call /\ Alike(OrphanLeft(o, r), Top)
  <2> SUFFICES ASSUME NEW o, NEW r, Orphan(o, r)
               PROVE  /\ phase = "process" /\ stack # << >> /\ Top.at = "orphans"
                      /\ Top.missed # {}
                      /\ OrphanLeft(o, r) \in Call /\ Alike(OrphanLeft(o, r), Top)
    OBVIOUS
  <2>1. /\ phase = "process" /\ stack # << >> /\ Top.at = "orphans"
        /\ <<o, r>> \in Top.missed /\ Top \in Call
    BY <1>1 DEF Orphan, Running
  <2>2. o \in Pkg /\ Top.missed \ {<<o, r>>} \subseteq Top.missed
    BY <2>1 DEF Call
  <2> QED
    BY <2>1, <2>2, GoingOn DEF OrphanLeft
<1>3. ASSUME NEW o, NEW r, NEW p, UpgradeOrphan(o, r, p)
      PROVE  Stays \/ Enters(p)
  <2>1. /\ Orphan(o, r) /\ ProcessPackage(OrphanLeft(o, r), p, FALSE)
        /\ UNCHANGED <<db, opts, phase, inst, args, queue, interrupted, ok>>
    BY <1>3 DEF UpgradeOrphan, Missed
  <2>2. p \in db.avail
    BY <1>3 DEF UpgradeOrphan, Successors
  <2> QED
    BY <1>2, <2>1, <2>2, Marking
<1>4. ASSUME NEW o, NEW r, NEW p, MarkForOrphan(o, r, p)
      PROVE  Stays \/ Enters(p)
  <2>1. /\ Orphan(o, r) /\ ProcessPackage(OrphanLeft(o, r), p, FALSE)
        /\ UNCHANGED <<db, opts, phase, inst, args, queue, interrupted, ok>>
    BY <1>4 DEF MarkForOrphan, Missed
  <2>2. p \in db.avail
    BY <1>4, CandidateTypes DEF MarkForOrphan
  <2> QED
    BY <1>2, <2>1, <2>2, Marking
<1>5. ASSUME NEW r, NEW p, MarkForReq(r, p)
      PROVE  Stays \/ Enters(p)
  <2>1. PICK left \in Left(Top.pkg, r), best \in Best(Top.pkg, r) \ {NoPkg} :
            LET call == [ReqLeft(r) EXCEPT !.crossroad = (left # {best})]
            IN  /\ best \in left /\ p \in Pickable(left, best)
                /\ ProcessPackage(call, p, Backtrackable(call))
    BY <1>5 DEF MarkForReq
  <2> DEFINE x == (left # {best})
             call == [ReqLeft(r) EXCEPT !.crossroad = x]
  <2>2. /\ phase = "process" /\ stack # << >> /\ Top.at = "reqs" /\ Candidates(r) \cap inset = {}
        /\ UNCHANGED <<db, opts, phase, inst, args, queue, interrupted, ok>>
    BY <1>5 DEF MarkForReq, Requires, Running, ReqMet, MetByInset
  <2>3. p \in db.avail /\ p \notin inset
    BY <2>1, <2>2, CandidateTypes
  <2>4. x \in BOOLEAN
    OBVIOUS
  <2>5. call \in Call /\ Alike(call, Top)
    <3> HIDE DEF x
    <3> QED
      BY <2>2, <2>4, GoingOn
  <2>6. ProcessPackage(call, p, Backtrackable(call))
    BY <2>1
  <2> HIDE DEF call
  <2>7. Backtrackable(call) \in BOOLEAN
    BY DEF Backtrackable
  <2> QED
    BY <2>2, <2>3, <2>5, <2>6, <2>7, Marking
<1>6. ASSUME NEW q, NEW x, NEW p, MarkForConflict(q, x, p)
      PROVE  Stays \/ Enters(p)
  <2>1. /\ Conflict(q, x) /\ ProcessPackage(ConflictLeft(q, x), p, FALSE)
        /\ UNCHANGED <<db, opts, phase, inst, args, queue, interrupted, ok>>
    BY <1>6 DEF MarkForConflict, Replacement, Picked, ByOpposite
  <2>2. p \in db.avail /\ p \notin inset
    <3>1. CASE p \notin inset /\ Replacement(q, x, p)
      BY <3>1 DEF Replacement, Direct, Indirect
    <3>2. CASE Picked(q, x, p)
      <4>1. Candidates(Opposite(x)) \cap inset = {}
        BY <3>2 DEF Picked, ByOpposite, MetByInset
      <4> QED
        BY <3>2, <4>1, CandidateTypes DEF Picked
    <3> QED
      BY <1>6, <3>1, <3>2 DEF MarkForConflict
  <2>3. /\ phase = "process" /\ stack # << >> /\ Top.at # "obsoletes"
        /\ Top.missed \ {<<q, x>>} \subseteq Top.missed
    BY <2>1 DEF Conflict, Running
  <2>4. ConflictLeft(q, x) \in Call /\ Alike(ConflictLeft(q, x), Top)
    BY <2>3, GoingOn DEF ConflictLeft
  <2> QED
    BY <2>1, <2>2, <2>3, <2>4, Marking
<1> QED
  BY <1>3, <1>4, <1>5, <1>6

(* The package on top is done.                                             *)
LEMMA DoneReturns ==
    ASSUME TypeInv, PackageDone
    PROVE  Returns
<1>1. /\ black \subseteq Pkg /\ errors \subseteq Pkg \X (Req \union Pkg)
      /\ stack \in Seq(Call)
  BY DEF TypeInv, TypeOK
<1>2. CASE ConflictsProcessed
  BY <1>1, <1>2 DEF PackageDone, ConflictsProcessed, Running, Returns, ictx
<1>3. CASE BeginConflicts
  <2>1. phase = "process" /\ stack # << >> /\ Top.at = "reqs"
    BY <1>3 DEF BeginConflicts, Processed, Running
  <2>2. Top.pkg \in Pkg
    BY <1>1, <2>1, StackSteps DEF Call
  <2>3. ConflictedBy(Top.pkg) \subseteq Pkg
    BY DatabaseTypes DEF ConflictedBy
  <2>4. black \subseteq black' /\ black' \subseteq Pkg
    BY <1>1, <1>3, <2>2 DEF BeginConflicts
  <2>5. errors' \subseteq Pkg \X (Req \union Pkg)
    BY <1>1, <1>3, <2>2, <2>3 DEF BeginConflicts
  <2> QED
    BY <1>3, <2>1, <2>4, <2>5 DEF PackageDone, BeginConflicts, Returns
<1> QED
  BY <1>2, <1>3 DEF PackageDone

(* The steps of i3_process_package, and the others.                        *)
Outer ==
    \/ \E wanted \in Requests : Resolve(wanted)
    \/ \E group \in SUBSET pms : MarkGroup(group)
    \/ \E p \in Pkg : SkipArgument(p) \/ InstallPackage(p)
    \/ MarkDone \/ Interrupt \/ RunInstall
    \/ GroupFails \/ NotInstalled \/ Installed

LEMMA StepKinds ==
    ASSUME TypeInv, [Next]_vars
    PROVE  \/ Outer
           \/ Stays \/ \E p \in Pkg : Enters(p)
           \/ ProcessObsoletes
           \/ Returns \/ Rollback \/ NoRollback
           \/ \E m \in Missing : NothingToFree(m[1], m[2])
           \/ UNCHANGED vars
<1>1. ASSUME NEW p, Enters(p) PROVE \E q \in Pkg : Enters(q)
  BY <1>1, DatabaseTypes DEF Enters
<1> QED
  BY <1>1, LookingSteps, MarkingSteps, DoneReturns DEF Next, Step, Outer, Finished

(* What the package on top obsoletes is to be removed.                     *)
Clears(old) ==
    /\ phase = "process" /\ stack # << >> /\ Top.at = "obsoletes"
    /\ unset' = unset \union old
    /\ old = {q \in inst \ unset : Replaces(Top.pkg, q) /\ opts.upgrade /\ ~ interrupted}
    /\ \E c \in Call : /\ c.pkg = Top.pkg /\ c.marked = Top.marked /\ c.obsoleted = old
                       /\ c.at = "orphans" /\ Replace(c)
                       /\ \A m \in c.missed : m[1] \in inst /\ m[2] \in db.reqs[m[1]]
    /\ UNCHANGED <<db, opts, phase, inst, args, pms, queue, inset, hand, gray, black, errors,
                   abort, interrupted, ok>>

LEMMA Clearing ==
    ASSUME TypeInv, ProcessObsoletes
    PROVE  \E old : Clears(old)
<1> DEFINE old == IF opts.upgrade /\ ~ interrupted THEN ObsoletedBy(Top.pkg) ELSE {}
           missed == MissedReqs(UnsatisfiedCaps(Top.pkg, old), Gone \union old)
           c == [Top EXCEPT !.at = "orphans", !.obsoleted = old, !.missed = missed]
<1>1. /\ phase = "process" /\ stack # << >> /\ Top.at = "obsoletes" /\ Replace(c)
      /\ unset' = unset \union old
      /\ UNCHANGED <<db, opts, phase, inst, args, pms, queue, inset, hand, gray, black, errors,
                     abort, interrupted, ok>>
  BY DEF ProcessObsoletes, Running
<1>2. Top \in Call /\ inst \subseteq Pkg
  BY <1>1, StackSteps DEF TypeInv, TypeOK
<1>3. old = {q \in inst \ unset : Replaces(Top.pkg, q) /\ opts.upgrade /\ ~ interrupted}
  BY DEF ObsoletedBy
<1>4. missed \subseteq Pkg \X Req /\ \A m \in missed : m[1] \in inst /\ m[2] \in db.reqs[m[1]]
  BY MissedTypes DEF Gone
<1> HIDE DEF old, missed
<1>5. /\ c \in Call /\ c.pkg = Top.pkg /\ c.marked = Top.marked /\ c.obsoleted = old
      /\ c.at = "orphans" /\ c.missed = missed
  <2>1. old \subseteq Pkg
    BY <1>2, <1>3
  <2> QED
    BY <1>2, <1>4, <2>1 DEF Call
<1> HIDE DEF c
<1> QED
  BY <1>1, <1>3, <1>4, <1>5 DEF Clears

(* i3_process_package calls do_process_package.                            *)
LEMMA FrameType ==
    \A p \in Pkg : \A indir \in BOOLEAN :
        /\ Frame(p, indir) \in Call
        /\ Frame(p, indir).pkg = p /\ Frame(p, indir).at = "obsoletes"
        /\ Frame(p, indir).marked = {p} /\ Frame(p, indir).obsoleted = {}
        /\ Frame(p, indir).missed = {}
  BY DEF Frame, Call

(* The types hold in the beginning.                                        *)
LEMMA TypeInit == Init => TypeInv
<1> SUFFICES ASSUME Init PROVE TypeInv
  OBVIOUS
<1>1. db.inst \subseteq Pkg
  BY DatabasesAssumption DEF Init, InstallDatabase
<1>2. << >> \in Seq(Call)
  BY EmptySeq
<1> QED
  BY <1>1, <1>2 DEF Init, TypeInv, TypeOK, Phase

(* Every step keeps the types.                                             *)
LEMMA TypeStep == TypeInv /\ [Next]_vars => TypeInv'
<1> SUFFICES ASSUME TypeInv, [Next]_vars
             PROVE  TypeInv'
  OBVIOUS
<1>1. /\ opts \in Options /\ phase \in Phase /\ db \in Databases
      /\ inst \subseteq Pkg /\ args \subseteq db.avail /\ pms \subseteq db.avail
      /\ queue \subseteq Pkg
      /\ inset \subseteq db.avail /\ hand \subseteq db.avail /\ unset \subseteq inst
      /\ gray \subseteq Pkg /\ black \subseteq Pkg /\ errors \subseteq Pkg \X (Req \union Pkg)
      /\ stack \in Seq(Call)
      /\ abort \in BOOLEAN /\ interrupted \in BOOLEAN /\ ok \in BOOLEAN
      /\ db.avail \subseteq Pkg
  BY DatabaseTypes DEF TypeInv, TypeOK
<1>2. << >> \in Seq(Call)
  BY EmptySeq
<1>3. ASSUME NEW wanted \in Requests, Resolve(wanted)
      PROVE  TypeInv'
  BY <1>1, <1>3 DEF Resolve, TypeInv, TypeOK, ictx, Phase
<1>4. ASSUME NEW group \in SUBSET pms, MarkGroup(group)
      PROVE  TypeInv'
  BY <1>1, <1>4 DEF MarkGroup, TypeInv, TypeOK, Phase
<1>5. ASSUME NEW p \in Pkg, SkipArgument(p)
      PROVE  TypeInv'
  BY <1>1, <1>5 DEF SkipArgument, TypeInv, TypeOK, ictx
<1>6. ASSUME NEW p \in Pkg, InstallPackage(p)
      PROVE  TypeInv'
  <2>1. <<Frame(p, FALSE)>> \in Seq(Call)
    <3> DEFINE f == Frame(p, FALSE)
    <3>1. f \in Call
      BY FrameType
    <3> HIDE DEF f
    <3>2. <<f>> \in Seq(Call)
      BY <3>1
    <3> QED
      BY <3>2 DEF f
  <2> QED
    BY <1>1, <1>6, <2>1 DEF InstallPackage, TypeInv, TypeOK
<1>7. CASE MarkDone \/ RunInstall
  BY <1>1, <1>7 DEF MarkDone, RunInstall, TypeInv, TypeOK, ictx, Phase
<1>8. CASE Interrupt
  BY <1>1, <1>8 DEF Interrupt, TypeInv, TypeOK, ictx
<1>9. CASE GroupFails \/ NotInstalled
  <2>1. ok' \in BOOLEAN
    <3>1. CASE GroupFails
      <4>1. (ok /\ ~ Stopped /\ errors = {}) \in BOOLEAN
        OBVIOUS
      <4> QED
        BY <3>1, <4>1 DEF GroupFails
    <3>2. CASE NotInstalled
      BY <1>1, <3>2 DEF NotInstalled
    <3> QED
      BY <1>9, <3>1, <3>2
  <2> QED
    BY <1>1, <1>9, <2>1 DEF GroupFails, NotInstalled, Reset, TypeInv, TypeOK, Phase
<1>10. CASE Installed
  BY <1>1, <1>10 DEF Installed, Reset, TypeInv, TypeOK, Phase
<1>11. CASE Stays
  <2>1. stack' \in Seq(Call)
    BY <1>1, <1>11, StackSteps DEF Stays
  <2> QED
    BY <1>1, <1>11, <2>1 DEF Stays, TypeInv, TypeOK
<1>12. ASSUME NEW p \in Pkg, Enters(p)
       PROVE  TypeInv'
  <2>1. stack' \in Seq(Call)
    BY <1>1, <1>12, FrameType, StackSteps DEF Enters
  <2> QED
    BY <1>1, <1>12, <2>1 DEF Enters, TypeInv, TypeOK
<1>13. CASE ProcessObsoletes
  <2>1. PICK old : Clears(old)
    BY <1>13, Clearing
  <2>2. stack' \in Seq(Call)
    BY <1>1, <2>1, StackSteps DEF Clears
  <2> QED
    BY <1>1, <2>1, <2>2 DEF Clears, TypeInv, TypeOK
<1>14. ASSUME NEW rc \in {1, -1}, stack # << >>, Return(rc)
       PROVE  stack' \in Seq(Call)
  BY <1>1, <1>2, <1>14, ReturnSteps
<1>15. CASE Returns
  BY <1>1, <1>14, <1>15 DEF Returns, TypeInv, TypeOK
<1>16. CASE Rollback
  <2>1. stack # << >> /\ Top.pkg \in Pkg
    BY <1>1, <1>16, StackSteps DEF Rollback, Processed, Running, Call
  <2>2. stack' \in Seq(Call)
    BY <1>14, <1>16, <2>1 DEF Rollback
  <2> QED
    BY <1>1, <1>16, <2>1, <2>2 DEF Rollback, TypeInv, TypeOK
<1>17. CASE NoRollback
  <2>1. Top.pkg \in Pkg
    BY <1>1, <1>17, StackSteps DEF NoRollback, Processed, Running, Call
  <2> QED
    BY <1>1, <1>2, <1>17, <2>1 DEF NoRollback, TypeInv, TypeOK, Phase
<1>18. ASSUME NEW m \in Missing, NothingToFree(m[1], m[2])
       PROVE  TypeInv'
  BY <1>1, <1>2, <1>18 DEF NothingToFree, TypeInv, TypeOK, ictx, Phase
<1>19. CASE UNCHANGED vars
  BY <1>19 DEF vars, ictx, TypeInv, TypeOK
<1> QED
  BY <1>3, <1>4, <1>5, <1>6, <1>7, <1>8, <1>9, <1>10, <1>11, <1>12, <1>13, <1>15, <1>16, <1>17,
     <1>18, <1>19, StepKinds DEF Outer

(* Every reachable state of the solver is well typed.                      *)
THEOREM TypesCorrect == Spec => []TypeOK
<1>1. TypeInv => TypeOK
  BY DEF TypeInv
<1> QED
  BY TypeInit, TypeStep, <1>1, PTL DEF Spec

-----------------------------------------------------------------------------
(* Between two transactions nothing is marked.                             *)
Idle == /\ inset = {} /\ hand = {} /\ unset = {} /\ gray = {} /\ black = {} /\ errors = {}
        /\ abort = FALSE /\ queue = {} /\ stack = << >>

PhaseInv ==
    /\ phase \in {"resolve", "mark", "done"} => Idle
    /\ phase \in {"install", "crashed"} => stack = << >>
    /\ phase = "install" => queue = {} /\ ~ Stopped
    /\ ~ Stopped => inset \subseteq gray \union queue

(* What was marked by hand is in the set, and in no list of what is to be  *)
(* rolled back but its own.                                                *)
HandInv ==
    /\ hand \intersect pms = {}
    /\ Transacting => hand \subseteq inset /\ queue \subseteq hand
    /\ \A i \in 1..Len(stack) :
         /\ stack[i].marked \intersect pms = {}
         /\ stack[i].marked \intersect hand \subseteq {stack[i].pkg}

-----------------------------------------------------------------------------
(* The tree of choices.  A package is live when it is being or has been    *)
(* processed and was not rolled back; it is settled when it has replaced   *)
(* what it obsoletes.  marked has what was rolled back meanwhile, too.     *)
Fresh(i) == i = Len(stack) /\ stack[i].at = "obsoletes"

Settled == {p \in gray \intersect inset :
               \A i \in 1..Len(stack) : Fresh(i) => p # stack[i].pkg}

PathInv ==
    \A i \in 1..Len(stack) :
        /\ stack[i].pkg \in gray \intersect inset
        /\ stack[i].pkg \in stack[i].marked
        /\ \A k \in (i + 1)..Len(stack) : stack[i].pkg \notin stack[k].marked
        /\ i < Len(stack) => stack[i].at # "obsoletes"
        /\ Fresh(i) => stack[i].marked = {stack[i].pkg} /\ stack[i].obsoleted = {}

(* What replaces q would not go if all calls from the i-th on were rolled  *)
(* back.                                                                   *)
Kept(q, i) == \E p \in Settled : /\ Replaces(p, q)
                                 /\ \A k \in i..Len(stack) : p \notin stack[k].marked

(* Or q would not, as one of those up to the j-th takes it back.           *)
Guarded(q, i, j) == Kept(q, i) \/ \E k \in i..j : q \in stack[k].obsoleted

Concerns(q) == q \in unset \/ (opts.upgrade /\ ~ interrupted)

(* Every removal has somebody who replaces it; and so has, if a call is    *)
(* rolled back, what a package that it marked at any time would remove.    *)
RemovalInv ==
    /\ \A q \in unset : \E p \in Settled : Replaces(p, q)
    /\ \A i, j, k \in 1..Len(stack) : i <= k /\ k <= j /\ ~ Fresh(k) =>
         \A p \in stack[k].marked : \A q \in inst :
            Replaces(p, q) /\ Concerns(q) => Guarded(q, i, j)

-----------------------------------------------------------------------------
(* When the hand-marked packages are apart, only the first call is of one, *)
(* and no upgrade orphans anybody.                                         *)
ApartInv ==
    /\ ~ Particle /\ phase = "mark" /\ args # {} => pms \subseteq args
    /\ ~ Particle /\ Transacting => args = {}
    /\ ~ Particle /\ phase = "process" /\ ~ Stopped => pms = {}
    /\ AskedApart => \A i \in 1..Len(stack) : /\ i > 1 => stack[i].pkg \notin hand
                                              /\ stack[i].at = "orphans" => stack[i].missed = {}

(* What is settled has all it replaces removed, and goes with whoever      *)
(* would take that back.                                                   *)
ReplacedInv ==
    /\ (black = {} \/ AskedApart) /\ opts.upgrade /\ ~ interrupted =>
         \A p \in Settled : \A q \in inst : Replaces(p, q) => q \in unset
    /\ AskedApart =>
         \A k \in 1..Len(stack) : \A q \in stack[k].obsoleted : \A p \in Settled :
            Replaces(p, q) => \E j \in k..Len(stack) : p \in stack[j].marked

-----------------------------------------------------------------------------
(* What the steps do to the tree of choices, call by call.                 *)
Tells(c, d) ==
    /\ c.pkg = d.pkg /\ c.marked = d.marked /\ c.obsoleted = d.obsoleted
    /\ c.at = "orphans" => d.at = "orphans" /\ c.missed \subseteq d.missed

(* Outside of the calls: a package of the user's is begun with.            *)
Begins(p) == ~ Stopped /\ p \notin gray /\ InstallPackage(p)

(* The calls go on.                                                        *)
LEMMA StaysShape ==
    ASSUME TypeInv, PathInv, Stays
    PROVE  /\ Len(stack) \in Nat \ {0} /\ Len(stack') = Len(stack)
           /\ \A i \in 1..Len(stack) : /\ Tells(stack'[i], stack[i])
                                       /\ stack[i].at # "obsoletes"
                                       /\ stack'[i].at # "obsoletes"
           /\ Settled' = Settled
<1> DEFINE n == Len(stack)
<1>1. stack \in Seq(Call) /\ stack # << >> /\ Top.at # "obsoletes"
  BY DEF TypeInv, TypeOK, Stays
<1>2. n \in Nat \ {0} /\ Top = stack[n]
  BY <1>1, StackSteps
<1>3. PICK c \in Call : Alike(c, Top) /\ Replace(c)
  BY DEF Stays
<1>4. /\ Len(stack') = n /\ \A i \in 1..(n - 1) : stack'[i] = stack[i]
      /\ stack'[n] = c
  BY <1>1, <1>3, StackSteps
<1>5. \A i \in 1..n : i = n \/ i \in 1..(n - 1)
  BY <1>2
<1>6. \A i \in 1..(n - 1) : i \in 1..n /\ i < n
  BY <1>2
<1>7. \A i \in 1..n : /\ Tells(stack'[i], stack[i]) /\ stack[i].at # "obsoletes"
                      /\ stack'[i].at # "obsoletes"
  BY <1>1, <1>2, <1>3, <1>4, <1>5, <1>6 DEF PathInv, Alike, Tells
<1>8. gray' \intersect inset' = gray \intersect inset
  BY DEF Stays
<1> HIDE DEF n
<1>9. Settled' = Settled
  BY <1>2, <1>4, <1>7, <1>8 DEF Settled, Fresh, n
<1> QED
  BY <1>2, <1>4, <1>7, <1>9 DEF n

(* A call is added.                                                        *)
LEMMA PushShape ==
    ASSUME TypeInv, PhaseInv, HandInv, PathInv, NEW p, Enters(p) \/ Begins(p)
    PROVE  /\ p \in Pkg \ gray /\ p \in inset' /\ gray' = gray \union {p}
           /\ phase = "process" /\ ~ Stopped
           /\ UNCHANGED <<db, opts, phase, inst, args, unset, black, errors, abort, interrupted>>
           /\ Len(stack) \in Nat /\ Len(stack') = Len(stack) + 1
           /\ \A i \in 1..Len(stack) : /\ Tells(stack'[i], stack[i])
                                       /\ stack[i].at # "obsoletes"
                                       /\ stack'[i].at # "obsoletes"
           /\ stack'[Len(stack) + 1].pkg = p /\ stack'[Len(stack) + 1].marked = {p}
           /\ stack'[Len(stack) + 1].obsoleted = {}
           /\ stack'[Len(stack) + 1].at = "obsoletes"
           /\ inset' = inset \union {p}
           /\ Settled' = Settled
<1> DEFINE n == Len(stack)
           f == stack'[n + 1]
<1>1. stack \in Seq(Call) /\ queue \subseteq Pkg /\ db.avail \subseteq Pkg
  BY DatabaseTypes DEF TypeInv, TypeOK
<1>2. n \in Nat
  BY <1>1, LenProperties
<1>3. /\ p \in Pkg \ gray /\ gray' = gray \union {p} /\ inset' = inset \union {p}
      /\ phase = "process" /\ ~ Stopped
      /\ UNCHANGED <<db, opts, phase, inst, args, unset, black, errors, abort, interrupted>>
  <2>1. CASE Enters(p)
    BY <1>1, <2>1 DEF Enters
  <2>2. CASE Begins(p)
    BY <1>1, <2>2 DEF Begins, InstallPackage, HandInv, Transacting
  <2> QED
    BY <2>1, <2>2
<1>4. /\ Len(stack') = n + 1
      /\ \A i \in 1..n : /\ Tells(stack'[i], stack[i]) /\ stack[i].at # "obsoletes"
                         /\ stack'[i].at # "obsoletes"
      /\ f.pkg = p /\ f.marked = {p} /\ f.obsoleted = {} /\ f.at = "obsoletes"
  <2>1. CASE Enters(p)
    <3>1. PICK c \in Call, indir \in BOOLEAN :
             Alike(c, Top) /\ stack' = Append(Append(Below, c), Frame(p, indir))
      BY <2>1 DEF Enters
    <3> DEFINE g == Frame(p, indir)
    <3>2. /\ g \in Call /\ g.pkg = p /\ g.at = "obsoletes" /\ g.marked = {p}
          /\ g.obsoleted = {}
      BY <1>3, FrameType
    <3> HIDE DEF g
    <3>3. stack # << >> /\ Top.at # "obsoletes" /\ stack' = Append(Append(Below, c), g)
      BY <2>1, <3>1 DEF Enters, g
    <3>4. /\ n # 0 /\ Top = stack[n] /\ Len(stack') = n + 1
          /\ \A i \in 1..(n - 1) : stack'[i] = stack[i]
          /\ stack'[n] = c /\ stack'[n + 1] = g
      BY <1>1, <3>2, <3>3, StackSteps
    <3>5. \A i \in 1..n : i = n \/ i \in 1..(n - 1)
      BY <1>2
    <3>6. \A i \in 1..(n - 1) : i \in 1..n /\ i < n
      BY <1>2
    <3>7. \A i \in 1..n : /\ Tells(stack'[i], stack[i]) /\ stack[i].at # "obsoletes"
                          /\ stack'[i].at # "obsoletes"
      BY <3>1, <3>3, <3>4, <3>5, <3>6 DEF PathInv, Alike, Tells
    <3> QED
      BY <3>2, <3>4, <3>7
  <2>2. CASE Begins(p)
    <3> DEFINE g == Frame(p, FALSE)
    <3>1. /\ g \in Call /\ g.pkg = p /\ g.at = "obsoletes" /\ g.marked = {p}
          /\ g.obsoleted = {}
      BY <1>3, FrameType
    <3>2. stack = << >> /\ stack' = <<g>>
      BY <2>2 DEF Begins, InstallPackage
    <3> HIDE DEF g
    <3>3. n = 0 /\ Len(stack') = 1 /\ stack'[1] = g
      BY <3>1, <3>2
    <3> QED
      BY <3>1, <3>3
  <2> QED
    BY <2>1, <2>2
<1>5. \A i \in 1..n : i \in Nat /\ i # n + 1
  BY <1>2
<1>6. \A i \in 1..(n + 1) : i \in 1..n \/ i = n + 1
  BY <1>2
<1>7. n + 1 \in 1..(n + 1)
  BY <1>2
<1>8. Settled' = Settled
  <2>1. Settled = gray \intersect inset
    BY <1>4 DEF Settled, Fresh
  <2>2. Settled' = (gray' \intersect inset') \ {p}
    <3>1. \A i \in 1..(n + 1) : Fresh(i)' <=> i = n + 1
      BY <1>4, <1>5, <1>6 DEF Fresh
    <3> HIDE DEF n
    <3> QED
      BY <1>4, <1>7, <3>1 DEF Settled
  <2> QED
    BY <1>3, <2>1, <2>2
<1> HIDE DEF n
<1> QED
  BY <1>2, <1>3, <1>4, <1>8 DEF n

(* The call on top has replaced what its package obsoletes.                *)
LEMMA ClearShape ==
    ASSUME TypeInv, PathInv, NEW old, Clears(old)
    PROVE  /\ Len(stack) \in Nat \ {0} /\ Len(stack') = Len(stack)
           /\ Top = stack[Len(stack)] /\ Top.marked = {Top.pkg} /\ Top.obsoleted = {}
           /\ \A i \in 1..(Len(stack) - 1) : stack'[i] = stack[i]
           /\ stack'[Len(stack)].pkg = Top.pkg /\ stack'[Len(stack)].marked = {Top.pkg}
           /\ stack'[Len(stack)].obsoleted = old /\ stack'[Len(stack)].at = "orphans"
           /\ \A m \in stack'[Len(stack)].missed : m[1] \in inst /\ m[2] \in db.reqs[m[1]]
           /\ \A i \in 1..Len(stack) : stack'[i].at # "obsoletes"
           /\ \A i \in 1..Len(stack) : Fresh(i) <=> i = Len(stack)
           /\ Top.pkg \notin Settled /\ Settled' = Settled \union {Top.pkg}
<1> DEFINE n == Len(stack)
<1>1. stack \in Seq(Call) /\ stack # << >> /\ Top.at = "obsoletes"
  BY DEF TypeInv, TypeOK, Clears
<1>2. n \in Nat \ {0} /\ Top = stack[n]
  BY <1>1, StackSteps
<1>3. PICK c \in Call : /\ c.pkg = Top.pkg /\ c.marked = Top.marked /\ c.obsoleted = old
                        /\ c.at = "orphans" /\ Replace(c)
                        /\ \A m \in c.missed : m[1] \in inst /\ m[2] \in db.reqs[m[1]]
  BY DEF Clears
<1>4. /\ Len(stack') = n /\ \A i \in 1..(n - 1) : stack'[i] = stack[i]
      /\ stack'[n] = c
  BY <1>1, <1>3, StackSteps
<1>5. /\ \A i \in 1..n : i = n \/ i \in 1..(n - 1)
      /\ \A i \in 1..(n - 1) : i \in 1..n /\ i < n
      /\ n \in 1..n
  BY <1>2
<1>6. \A i \in 1..n : Fresh(i) <=> i = n
  BY <1>1, <1>2 DEF Fresh
<1>7. Top.marked = {Top.pkg} /\ Top.obsoleted = {} /\ Top.pkg \in gray \intersect inset
  BY <1>2, <1>5, <1>6 DEF PathInv
<1>8. \A i \in 1..n : stack'[i].at # "obsoletes"
  BY <1>3, <1>4, <1>5 DEF PathInv
<1>9. gray' = gray /\ inset' = inset
  BY DEF Clears
<1> HIDE DEF n
<1>10. Settled = (gray \intersect inset) \ {Top.pkg}
  BY <1>2, <1>5, <1>6 DEF Settled, n
<1>11. Settled' = gray \intersect inset
  BY <1>4, <1>8, <1>9 DEF Settled, Fresh, n
<1> QED
  BY <1>2, <1>3, <1>4, <1>6, <1>7, <1>8, <1>10, <1>11 DEF n

(* A call returns.                                                         *)
LEMMA PopShape ==
    ASSUME TypeInv, PathInv, stack # << >>, Top.at # "obsoletes",
           NEW rc \in {1, -1}, Return(rc)
    PROVE  /\ Len(stack) \in Nat \ {0} /\ Top = stack[Len(stack)]
           /\ Settled = gray \intersect inset /\ Settled' = gray' \intersect inset'
           /\ \A i \in 1..Len(stack) : stack[i].at # "obsoletes"
           /\ \/ Len(stack) = 1 /\ stack' = << >>
              \/ /\ Len(stack) > 1 /\ Len(stack') = Len(stack) - 1
                 /\ \A i \in 1..(Len(stack) - 2) : stack'[i] = stack[i]
                 /\ Remembers(stack'[Len(stack) - 1], stack[Len(stack) - 1])
                 /\ stack'[Len(stack) - 1].at # "obsoletes"
                 /\ \A i \in 1..(Len(stack) - 1) : stack'[i].at # "obsoletes"
<1> DEFINE n == Len(stack)
<1>1. stack \in Seq(Call)
  BY DEF TypeInv, TypeOK
<1>2. n \in Nat \ {0} /\ Top = stack[n]
  BY <1>1, StackSteps
<1>3. \A i \in 1..n : i = n \/ i < n
  BY <1>2
<1>4. \A i \in 1..n : stack[i].at # "obsoletes"
  BY <1>2, <1>3 DEF PathInv
<1>5. Settled = gray \intersect inset
  BY <1>4 DEF Settled, Fresh
<1>6. CASE n = 1 /\ stack' = << >>
  <2>1. Len(stack') = 0
    BY <1>6
  <2>2. Settled' = gray' \intersect inset'
    BY <2>1 DEF Settled
  <2> QED
    BY <1>2, <1>4, <1>5, <1>6, <2>2
<1>7. CASE /\ n > 1 /\ Len(stack') = n - 1
           /\ \A i \in 1..(n - 2) : stack'[i] = stack[i]
           /\ Remembers(stack'[n - 1], stack[n - 1])
  <2>1. /\ \A i \in 1..(n - 1) : i = n - 1 \/ i \in 1..(n - 2)
        /\ \A i \in 1..(n - 2) : i \in 1..n
        /\ n - 1 \in 1..n
    BY <1>2, <1>7
  <2>2. stack'[n - 1].at = stack[n - 1].at
    BY <1>7 DEF Remembers
  <2>3. \A i \in 1..(n - 1) : stack'[i].at # "obsoletes"
    BY <1>4, <1>7, <2>1, <2>2
  <2>4. Settled' = gray' \intersect inset'
    BY <1>7, <2>3 DEF Settled, Fresh
  <2>5. stack'[n - 1].at # "obsoletes"
    BY <1>4, <2>1, <2>2
  <2> HIDE DEF n
  <2> QED
    BY <1>2, <1>4, <1>5, <1>7, <2>3, <2>4, <2>5 DEF n
<1> QED
  BY <1>1, <1>2, <1>4, <1>5, <1>6, <1>7, ReturnSteps

-----------------------------------------------------------------------------
(* What the steps outside of the calls do.                                 *)
LEMMA OuterSteps ==
    ASSUME PhaseInv, Outer
    PROVE  \/ \E p \in Pkg : Begins(p)
           \/ Interrupt
           \/ stack = << >> /\ stack' = << >>
<1>1. phase \in {"resolve", "mark", "install"} => stack = << >>
  BY DEF PhaseInv, Idle
<1>2. ASSUME NEW p \in Pkg, InstallPackage(p)
      PROVE  Begins(p) \/ (stack = << >> /\ stack' = << >>)
  BY <1>2 DEF InstallPackage, Begins
<1>3. ASSUME NEW wanted \in Requests, Resolve(wanted)
      PROVE  stack = << >> /\ stack' = << >>
  BY <1>1, <1>3 DEF Resolve
<1>4. ASSUME NEW group \in SUBSET pms, MarkGroup(group)
      PROVE  stack = << >> /\ stack' = << >>
  BY <1>1, <1>4 DEF MarkGroup
<1>5. ASSUME NEW p \in Pkg, SkipArgument(p)
      PROVE  stack = << >> /\ stack' = << >>
  BY <1>1, <1>5 DEF SkipArgument
<1>6. CASE MarkDone \/ RunInstall \/ GroupFails \/ NotInstalled \/ Installed
  BY <1>1, <1>6 DEF MarkDone, RunInstall, GroupFails, NotInstalled, Installed, Resolved
<1> QED
  BY <1>2, <1>3, <1>4, <1>5, <1>6 DEF Outer

(* A return keeps the phase and marks nothing.                             *)
LEMMA PhaseStep == TypeInv /\ PhaseInv /\ HandInv /\ PathInv /\ [Next]_vars => PhaseInv'
<1> SUFFICES ASSUME TypeInv, PhaseInv, HandInv, PathInv, [Next]_vars
             PROVE  PhaseInv'
  OBVIOUS
<1>1. phase \in Phase
  BY DEF TypeInv, TypeOK
<1>2. ASSUME NEW wanted \in Requests, Resolve(wanted)
      PROVE  PhaseInv'
  BY <1>2 DEF Resolve, PhaseInv, Idle, ictx, Stopped
<1>3. ASSUME NEW group \in SUBSET pms, MarkGroup(group)
      PROVE  PhaseInv'
  BY <1>3 DEF MarkGroup, PhaseInv, Idle, Stopped
<1>4. ASSUME NEW p \in Pkg, SkipArgument(p)
      PROVE  PhaseInv'
  BY <1>4 DEF SkipArgument, PhaseInv, Idle, ictx, Stopped
<1>5. ASSUME NEW p \in Pkg, InstallPackage(p)
      PROVE  PhaseInv'
  BY <1>5 DEF InstallPackage, PhaseInv, Stopped
<1>6. CASE MarkDone \/ RunInstall \/ Interrupt
  BY <1>6 DEF MarkDone, RunInstall, Resolved, Interrupt, PhaseInv, Idle, ictx, Stopped
<1>7. CASE GroupFails \/ NotInstalled \/ Installed
  BY <1>7 DEF GroupFails, NotInstalled, Installed, Resolved, Reset, PhaseInv, Idle, Stopped
<1>8. CASE Stays
  BY <1>8 DEF Stays, PhaseInv, Stopped
<1>9. ASSUME NEW p, Enters(p)
      PROVE  PhaseInv'
  <2>1. queue' = queue
    BY <1>9 DEF Enters
  <2> QED
    BY <1>9, <2>1, PushShape DEF PhaseInv, Stopped
<1>10. CASE ProcessObsoletes
  BY <1>10 DEF ProcessObsoletes, Running, PhaseInv, Stopped
<1>11. CASE Returns
  BY <1>11 DEF Returns, PhaseInv, Stopped
<1>12. CASE Rollback
  BY <1>12 DEF Rollback, Processed, Running, PhaseInv, Stopped
<1>13. CASE NoRollback
  BY <1>13 DEF NoRollback, Processed, Running, PhaseInv, Stopped
<1>14. ASSUME NEW m \in Missing, NothingToFree(m[1], m[2])
       PROVE  PhaseInv'
  BY <1>14 DEF NothingToFree, Conflict, Running, PhaseInv, ictx, Stopped
<1>15. CASE UNCHANGED vars
  BY <1>15 DEF vars, ictx, PhaseInv, Idle, Stopped
<1> QED
  BY <1>2, <1>3, <1>4, <1>5, <1>6, <1>7, <1>8, <1>9, <1>10, <1>11, <1>12, <1>13, <1>14, <1>15,
     StepKinds DEF Outer

(* Every step keeps what was marked by hand.                               *)
LEMMA HandStep == TypeInv /\ PhaseInv /\ HandInv /\ PathInv /\ [Next]_vars => HandInv'
<1> SUFFICES ASSUME TypeInv, PhaseInv, HandInv, PathInv, [Next]_vars
             PROVE  HandInv'
  OBVIOUS
<1> DEFINE n == Len(stack)
           Apart(c, q, h) == c.marked \intersect q = {} /\ c.marked \intersect h \subseteq {c.pkg}
<1>1. /\ hand \intersect pms = {}
      /\ Transacting => hand \subseteq inset /\ queue \subseteq hand
      /\ \A i \in 1..n : Apart(stack[i], pms, hand)
  BY DEF HandInv
<1>2. ASSUME stack' = << >>, hand' \intersect pms' = {},
             Transacting' => hand' \subseteq inset' /\ queue' \subseteq hand'
      PROVE  HandInv'
  <2>1. Len(stack') = 0
    BY <1>2
  <2> QED
    BY <1>2, <2>1 DEF HandInv
<1>3. ASSUME NEW wanted \in Requests, Resolve(wanted)
      PROVE  HandInv'
  <2>1. stack' = << >> /\ hand' = {} /\ ~ Transacting'
    BY <1>3 DEF Resolve, PhaseInv, Idle, ictx, Transacting
  <2> QED
    BY <1>2, <2>1
<1>4. ASSUME NEW group \in SUBSET pms, MarkGroup(group)
      PROVE  HandInv'
  <2>1. stack' = << >> /\ hand' = inset' /\ queue' = inset' /\ hand' \intersect pms' = {}
    BY <1>4 DEF MarkGroup, PhaseInv, Idle
  <2> QED
    BY <1>2, <2>1
<1>5. ASSUME NEW p \in Pkg, SkipArgument(p)
      PROVE  HandInv'
  <2>1. stack' = << >> /\ hand' = {} /\ ~ Transacting'
    BY <1>5 DEF SkipArgument, PhaseInv, Idle, ictx, Transacting
  <2> QED
    BY <1>2, <2>1
<1>6. ASSUME NEW p \in Pkg, InstallPackage(p), ~ Begins(p)
      PROVE  HandInv'
  <2>1. /\ stack' = << >> /\ hand' = hand /\ pms' = pms /\ inset' = inset /\ queue' \subseteq queue
        /\ Transacting
    BY <1>6 DEF InstallPackage, Begins, Transacting
  <2> QED
    BY <1>1, <1>2, <2>1
<1>7. CASE MarkDone \/ RunInstall \/ GroupFails \/ NotInstalled \/ Installed
  <2>1. /\ stack' = << >> /\ hand' \subseteq hand /\ pms' = pms
        /\ Transacting' => Transacting /\ hand' = hand /\ inset' = inset /\ queue' = queue
    BY <1>7 DEF MarkDone, RunInstall, GroupFails, NotInstalled, Installed, Resolved, Reset,
                PhaseInv, Idle, ictx, Transacting
  <2> QED
    BY <1>1, <1>2, <2>1
<1>8. CASE Interrupt \/ UNCHANGED vars
  BY <1>8 DEF Interrupt, vars, ictx, HandInv, Transacting
<1>9. CASE Stays
  <2>1. UNCHANGED <<phase, pms, queue, inset, hand>>
    BY <1>9 DEF Stays
  <2> HIDE DEF n
  <2> QED
    BY <1>9, <2>1, StaysShape DEF HandInv, Tells, Transacting
<1>10. ASSUME NEW p, Enters(p) \/ Begins(p)
       PROVE  HandInv'
  <2>1. /\ p \in Pkg \ gray /\ p \in inset' /\ inset' = inset \union {p}
        /\ phase = "process" /\ phase' = phase
        /\ n \in Nat /\ Len(stack') = n + 1
        /\ \A i \in 1..n : Tells(stack'[i], stack[i])
        /\ stack'[n + 1].pkg = p /\ stack'[n + 1].marked = {p}
    BY <1>10, PushShape
  <2>2. /\ hand' = (IF p \in pms THEN hand \union {p} ELSE hand) /\ pms' = pms \ {p}
        /\ queue' \subseteq queue
    <3>1. CASE Enters(p)
      BY <3>1 DEF Enters
    <3>2. CASE Begins(p)
      <4>1. p \in hand
        BY <1>1, <3>2 DEF Begins, InstallPackage, Transacting
      <4> QED
        BY <1>1, <3>2, <4>1 DEF Begins, InstallPackage
    <3> QED
      BY <1>10, <3>1, <3>2
  <2>3. /\ hand' \intersect pms' = {}
        /\ hand' \subseteq inset' /\ queue' \subseteq hand'
    BY <1>1, <2>1, <2>2 DEF Transacting
  <2>4. \A i \in 1..n : Apart(stack'[i], pms', hand')
    BY <1>1, <2>1, <2>2 DEF Tells
  <2>5. Apart(stack'[n + 1], pms', hand')
    BY <2>1, <2>2
  <2>6. \A i \in 1..(n + 1) : i \in 1..n \/ i = n + 1
    BY <2>1
  <2> HIDE DEF n
  <2> QED
    BY <2>1, <2>3, <2>4, <2>5, <2>6 DEF HandInv
<1>11. CASE ProcessObsoletes
  <2>1. PICK old : Clears(old)
    BY <1>11, Clearing
  <2>2. UNCHANGED <<phase, pms, queue, inset, hand>>
    BY <2>1 DEF Clears
  <2>3. /\ n \in Nat \ {0} /\ Len(stack') = n /\ Top = stack[n]
        /\ Top.marked = {Top.pkg}
        /\ \A i \in 1..(n - 1) : stack'[i] = stack[i]
        /\ stack'[n].pkg = Top.pkg /\ stack'[n].marked = {Top.pkg}
    BY <2>1, ClearShape
  <2>4. \A i \in 1..n : i \in 1..(n - 1) \/ i = n
    BY <2>3
  <2> HIDE DEF n
  <2>5. \A i \in 1..n : stack'[i].pkg = stack[i].pkg /\ stack'[i].marked = stack[i].marked
    BY <2>3, <2>4
  <2> QED
    BY <1>1, <2>2, <2>3, <2>5 DEF HandInv, Transacting
<1>12. ASSUME stack # << >>, Top.at # "obsoletes", NEW rc \in {1, -1}, Return(rc),
              hand' = hand, pms' = pms, queue' = queue, phase' = phase,
              hand \intersect inset' = hand \intersect inset
       PROVE  HandInv'
  <2>1. /\ n \in Nat \ {0} /\ Top = stack[n]
        /\ \/ n = 1 /\ stack' = << >>
           \/ /\ n > 1 /\ Len(stack') = n - 1
              /\ \A i \in 1..(n - 2) : stack'[i] = stack[i]
              /\ Remembers(stack'[n - 1], stack[n - 1])
    BY <1>12, PopShape
  <2>2. Transacting' => hand' \subseteq inset' /\ queue' \subseteq hand'
    BY <1>1, <1>12 DEF Transacting
  <2>3. CASE stack' = << >>
    BY <1>1, <1>2, <1>12, <2>2, <2>3
  <2>4. CASE /\ n > 1 /\ Len(stack') = n - 1
             /\ \A i \in 1..(n - 2) : stack'[i] = stack[i]
             /\ Remembers(stack'[n - 1], stack[n - 1])
    <3>1. /\ \A i \in 1..(n - 1) : i = n - 1 \/ i \in 1..(n - 2)
          /\ \A i \in 1..(n - 2) : i \in 1..n
          /\ n - 1 \in 1..n /\ n \in 1..n
      BY <2>1, <2>4
    <3>2. Apart(stack'[n - 1], pms', hand')
      BY <1>1, <1>12, <2>1, <2>4, <3>1 DEF Remembers
    <3>3. \A i \in 1..(n - 1) : Apart(stack'[i], pms', hand')
      BY <1>1, <1>12, <2>4, <3>1, <3>2
    <3> HIDE DEF n
    <3> QED
      BY <1>1, <1>12, <2>2, <2>4, <3>3 DEF HandInv
  <2> QED
    BY <2>1, <2>3, <2>4
<1>13. CASE Returns
  BY <1>12, <1>13 DEF Returns
<1>14. CASE Rollback
  <2>1. stack # << >> /\ Top.at = "reqs" /\ Top.pkg \notin hand /\ inset' = inset \ Top.marked
        /\ hand' = hand /\ pms' = pms /\ queue' = queue /\ phase' = phase /\ Return(-1)
    BY <1>14 DEF Rollback, Processed, Running
  <2>2. n \in Nat \ {0} /\ Top = stack[n] /\ n \in 1..n
    BY <2>1, StackSteps DEF TypeInv, TypeOK
  <2>3. Top.marked \intersect hand = {}
    BY <1>1, <2>1, <2>2
  <2> QED
    BY <1>12, <2>1, <2>3
<1>15. CASE NoRollback \/ \E m \in Missing : NothingToFree(m[1], m[2])
  <2>1. stack' = << >> /\ hand' = hand /\ pms' = pms /\ inset' = inset /\ queue' = queue
        /\ Transacting
    BY <1>15 DEF NoRollback, Processed, NothingToFree, Conflict, Running, Transacting, ictx
  <2> QED
    BY <1>1, <1>2, <2>1
<1> QED
  BY <1>3, <1>4, <1>5, <1>6, <1>7, <1>8, <1>9, <1>10, <1>11, <1>13, <1>14, <1>15,
     StepKinds DEF Outer

(* Every step keeps the path of the packages that are being processed.     *)
LEMMA PathStep == TypeInv /\ PhaseInv /\ HandInv /\ PathInv /\ [Next]_vars => PathInv'
<1> SUFFICES ASSUME TypeInv, PhaseInv, HandInv, PathInv, [Next]_vars
             PROVE  PathInv'
  OBVIOUS
<1> DEFINE n == Len(stack)
<1>1. \A i \in 1..n :
        /\ stack[i].pkg \in gray \intersect inset
        /\ stack[i].pkg \in stack[i].marked
        /\ \A k \in (i + 1)..n : stack[i].pkg \notin stack[k].marked
  BY DEF PathInv
<1>2. ASSUME stack' = << >>
      PROVE  PathInv'
  <2>1. Len(stack') = 0
    BY <1>2
  <2> QED
    BY <2>1 DEF PathInv
<1>3. CASE Interrupt \/ UNCHANGED vars
  BY <1>3 DEF Interrupt, vars, ictx, PathInv, Fresh
<1>4. CASE Stays
  <2>1. /\ n \in Nat \ {0} /\ Len(stack') = n
        /\ \A i \in 1..n : Tells(stack'[i], stack[i]) /\ stack'[i].at # "obsoletes"
    BY <1>4, StaysShape
  <2>2. gray \subseteq gray' /\ inset' = inset
    BY <1>4 DEF Stays
  <2>3. \A i \in 1..n : \A k \in (i + 1)..n : k \in 1..n
    BY <2>1
  <2> HIDE DEF n
  <2> QED
    BY <1>1, <2>1, <2>2, <2>3 DEF PathInv, Fresh, Tells
<1>5. ASSUME NEW p, Enters(p) \/ Begins(p)
      PROVE  PathInv'
  <2>1. /\ p \notin gray /\ p \in inset' /\ gray' = gray \union {p} /\ inset' = inset \union {p}
        /\ n \in Nat /\ Len(stack') = n + 1
        /\ \A i \in 1..n : Tells(stack'[i], stack[i]) /\ stack'[i].at # "obsoletes"
        /\ stack'[n + 1].pkg = p /\ stack'[n + 1].marked = {p}
        /\ stack'[n + 1].obsoleted = {}
    BY <1>5, PushShape
  <2>2. /\ \A i \in 1..(n + 1) : i \in 1..n \/ i = n + 1
        /\ \A i \in 1..n : i # n + 1
        /\ \A i \in 1..n : \A k \in (i + 1)..(n + 1) : (k \in (i + 1)..n /\ k \in 1..n) \/ k = n + 1
        /\ \A k : k \notin (n + 2)..(n + 1)
        /\ (n + 1) + 1 = n + 2
        /\ ~ n + 1 < n + 1
    BY <2>1
  <2>3. \A i \in 1..n : \A k \in (i + 1)..(n + 1) : stack'[i].pkg \notin stack'[k].marked
    <3> SUFFICES ASSUME NEW i \in 1..n, NEW k \in (i + 1)..(n + 1)
                 PROVE  stack'[i].pkg \notin stack'[k].marked
      OBVIOUS
    <3>1. stack'[i].pkg = stack[i].pkg /\ stack[i].pkg \in gray
      BY <1>1, <2>1 DEF Tells
    <3>2. CASE k \in (i + 1)..n /\ k \in 1..n
      BY <1>1, <2>1, <3>1, <3>2 DEF Tells
    <3>3. CASE k = n + 1
      BY <2>1, <3>1, <3>3
    <3> QED
      BY <2>2, <3>2, <3>3
  <2>4. \A i \in 1..n : /\ stack'[i].pkg \in gray' \intersect inset'
                        /\ stack'[i].pkg \in stack'[i].marked
    BY <1>1, <2>1 DEF Tells
  <2> HIDE DEF n
  <2> QED
    BY <2>1, <2>2, <2>3, <2>4 DEF PathInv, Fresh
<1>6. CASE ProcessObsoletes
  <2>1. PICK old : Clears(old)
    BY <1>6, Clearing
  <2>2. gray' = gray /\ inset' = inset
    BY <2>1 DEF Clears
  <2>3. /\ n \in Nat \ {0} /\ Len(stack') = n /\ Top = stack[n]
        /\ Top.marked = {Top.pkg}
        /\ \A i \in 1..(n - 1) : stack'[i] = stack[i]
        /\ stack'[n].pkg = Top.pkg /\ stack'[n].marked = {Top.pkg}
        /\ \A i \in 1..n : stack'[i].at # "obsoletes"
    BY <2>1, ClearShape
  <2>4. /\ \A i \in 1..n : i \in 1..(n - 1) \/ i = n
        /\ \A i \in 1..n : \A k \in (i + 1)..n : k \in 1..n
    BY <2>3
  <2> HIDE DEF n
  <2>5. \A i \in 1..n : stack'[i].pkg = stack[i].pkg /\ stack'[i].marked = stack[i].marked
    BY <2>3, <2>4
  <2> QED
    BY <1>1, <2>2, <2>3, <2>4, <2>5 DEF PathInv, Fresh
<1>7. ASSUME stack # << >>, Top.at # "obsoletes", NEW rc \in {1, -1}, Return(rc),
             \A i \in 1..n : i < n => stack[i].pkg \in gray' \intersect inset'
      PROVE  PathInv'
  <2>1. /\ n \in Nat \ {0} /\ Top = stack[n]
        /\ \/ n = 1 /\ stack' = << >>
           \/ /\ n > 1 /\ Len(stack') = n - 1
              /\ \A i \in 1..(n - 2) : stack'[i] = stack[i]
              /\ Remembers(stack'[n - 1], stack[n - 1])
              /\ \A i \in 1..(n - 1) : stack'[i].at # "obsoletes"
    BY <1>7, PopShape
  <2>2. CASE /\ n > 1 /\ Len(stack') = n - 1
             /\ \A i \in 1..(n - 2) : stack'[i] = stack[i]
             /\ Remembers(stack'[n - 1], stack[n - 1])
             /\ \A i \in 1..(n - 1) : stack'[i].at # "obsoletes"
    <3>1. /\ \A i \in 1..(n - 1) : i = n - 1 \/ i \in 1..(n - 2)
          /\ \A i \in 1..(n - 1) : i \in 1..n /\ i < n /\ n \in (i + 1)..n
          /\ \A i \in 1..(n - 1) : \A k \in (i + 1)..(n - 1) : k \in 1..(n - 1) /\ k \in (i + 1)..n
          /\ n - 1 \in 1..n /\ n \in 1..n
      BY <2>1, <2>2
    <3>2. \A i \in 1..(n - 1) :
            /\ stack'[i].pkg = stack[i].pkg
            /\ stack[i].marked \subseteq stack'[i].marked
            /\ stack'[i].marked \subseteq stack[i].marked \union stack[n].marked
      <4>1. /\ stack'[n - 1].pkg = stack[n - 1].pkg
            /\ stack[n - 1].marked \subseteq stack'[n - 1].marked
            /\ stack'[n - 1].marked \subseteq stack[n - 1].marked \union stack[n].marked
        BY <2>1, <2>2 DEF Remembers
      <4> QED
        BY <2>2, <3>1, <4>1
    <3> HIDE DEF n
    <3>3. \A i \in 1..(n - 1) : \A k \in (i + 1)..(n - 1) : stack'[i].pkg \notin stack'[k].marked
      BY <1>1, <3>1, <3>2
    <3>4. \A i \in 1..(n - 1) : /\ stack'[i].pkg \in gray' \intersect inset'
                                /\ stack'[i].pkg \in stack'[i].marked
      BY <1>1, <1>7, <3>1, <3>2
    <3> QED
      BY <2>2, <3>3, <3>4 DEF PathInv, Fresh
  <2> QED
    BY <1>2, <2>1, <2>2
<1>8. CASE Returns
  <2>1. stack # << >> /\ Top.at # "obsoletes" /\ Return(1) /\ gray' = gray /\ inset' = inset
    BY <1>8 DEF Returns
  <2> QED
    BY <1>1, <1>7, <2>1
<1>9. CASE Rollback
  <2>1. /\ stack # << >> /\ Top.at = "reqs" /\ Return(-1)
        /\ gray' = gray \ Top.marked /\ inset' = inset \ Top.marked
    BY <1>9 DEF Rollback, Processed, Running
  <2>2. n \in Nat \ {0} /\ Top = stack[n]
    BY <2>1, StackSteps DEF TypeInv, TypeOK
  <2>3. \A i \in 1..n : i < n => n \in (i + 1)..n
    BY <2>2
  <2>4. \A i \in 1..n : i < n => stack[i].pkg \in gray' \intersect inset'
    BY <1>1, <2>1, <2>2, <2>3
  <2> HIDE DEF n
  <2> QED
    BY <1>7, <2>1, <2>4
<1>10. CASE NoRollback \/ \E m \in Missing : NothingToFree(m[1], m[2])
  BY <1>2, <1>10 DEF NoRollback, NothingToFree
<1> QED
  BY <1>2, <1>3, <1>4, <1>5, <1>6, <1>8, <1>9, <1>10, StepKinds, OuterSteps

(* The first part of the invariant.                                        *)
Marks == TypeInv /\ PhaseInv /\ HandInv /\ PathInv

LEMMA MarksInit == Init => Marks
<1> SUFFICES ASSUME Init PROVE Marks
  OBVIOUS
<1>1. Len(stack) = 0
  BY DEF Init
<1> QED
  BY <1>1, TypeInit DEF Init, Marks, PhaseInv, Idle, HandInv, PathInv, Transacting, Stopped

LEMMA MarksStep == Marks /\ [Next]_vars => Marks'
  BY TypeStep, PhaseStep, HandStep, PathStep DEF Marks

(* What the user asked for by hand is never given up, whatever the         *)
(* backtracking rolls back (rollback_package, install3/process.c).         *)
THEOREM HandMarkedStays == Spec => []HandMarkedStay
<1>1. Marks => HandMarkedStay
  BY DEF Marks, HandInv, HandMarkedStay
<1> QED
  BY MarksInit, MarksStep, <1>1, PTL DEF Spec

-----------------------------------------------------------------------------
(* Removals.                                                               *)

(* A removal is guarded at every depth.                                    *)
LEMMA Removed ==
    ASSUME TypeInv, PathInv, RemovalInv, NEW q \in unset, NEW i \in 1..Len(stack)
    PROVE  Guarded(q, i, Len(stack))
<1> DEFINE n == Len(stack)
<1>1. n \in Nat
  BY LenProperties DEF TypeInv, TypeOK
<1>2. PICK p \in Settled : Replaces(p, q)
  BY DEF RemovalInv
<1>3. CASE \A k \in i..n : p \notin stack[k].marked
  BY <1>2, <1>3 DEF Guarded, Kept
<1>4. ASSUME NEW k \in i..n, p \in stack[k].marked
      PROVE  Guarded(q, i, n)
  <2>1. k \in 1..n /\ n \in 1..n /\ i <= k /\ k <= n
    BY <1>1
  <2>2. q \in inst /\ Concerns(q)
    BY DEF TypeInv, TypeOK, Concerns
  <2>3. ~ Fresh(k)
    BY <1>2, <1>4, <2>1 DEF Settled, PathInv
  <2> QED
    BY <1>2, <1>4, <2>1, <2>2, <2>3 DEF RemovalInv
<1> QED
  BY <1>3, <1>4

(* What a package replaces depends on the database and the options only.   *)
LEMMA SameReplaces ==
    ASSUME db' = db, opts' = opts
    PROVE  \A p, q : Replaces(p, q)' <=> Replaces(p, q)
  BY DEF Replaces

(* Every step keeps a replacement for each removal.                        *)
LEMMA RemovalStep == Marks /\ RemovalInv /\ [Next]_vars => RemovalInv'
<1> SUFFICES ASSUME Marks, RemovalInv, [Next]_vars
             PROVE  RemovalInv'
  OBVIOUS
<1> USE DEF Marks
<1> DEFINE n == Len(stack)
<1>1. /\ \A q \in unset : \E p \in Settled : Replaces(p, q)
      /\ \A i, j, k \in 1..n : i <= k /\ k <= j /\ ~ Fresh(k) =>
           \A p \in stack[k].marked : \A q \in inst :
             Replaces(p, q) /\ Concerns(q) => Guarded(q, i, j)
  BY DEF RemovalInv
<1>2. ASSUME stack' = << >>, \A q \in unset' : \E p \in Settled' : Replaces(p, q)'
      PROVE  RemovalInv'
  <2>1. Len(stack') = 0
    BY <1>2
  <2>2. \A i : i \notin 1..0
    OBVIOUS
  <2> QED
    BY <1>2, <2>1, <2>2 DEF RemovalInv
<1>3. ASSUME stack' = << >>, db' = db, opts' = opts, unset' = unset, Settled' = Settled
      PROVE  RemovalInv'
  BY <1>1, <1>2, <1>3, SameReplaces
<1>4. CASE Interrupt \/ UNCHANGED vars
  <2>1. UNCHANGED <<db, opts, inst, inset, gray, unset, stack>> /\ (interrupted => interrupted')
    BY <1>4 DEF Interrupt, vars, ictx
  <2>2. Settled' = Settled /\ \A k : Fresh(k)' <=> Fresh(k)
    BY <2>1 DEF Settled, Fresh
  <2>3. \A p, q : Replaces(p, q)' <=> Replaces(p, q)
    BY <2>1, SameReplaces
  <2>4. \A q : Concerns(q)' => Concerns(q)
    BY <2>1 DEF Concerns
  <2>5. \A q, i, j : Guarded(q, i, j) => Guarded(q, i, j)'
    BY <2>1, <2>2, <2>3 DEF Guarded, Kept
  <2> HIDE DEF n
  <2> QED
    BY <1>1, <2>1, <2>2, <2>3, <2>4, <2>5 DEF RemovalInv, n
<1>5. CASE Outer /\ stack = << >> /\ stack' = << >>
  <2>1. Len(stack) = 0 /\ Len(stack') = 0
    BY <1>5
  <2>2. Settled = gray \intersect inset /\ Settled' = gray' \intersect inset'
    BY <2>1 DEF Settled
  <2>3. \/ unset' = {}
        \/ UNCHANGED <<db, opts, unset, inset>> /\ gray' = gray
    BY <1>5 DEF Outer, Resolve, MarkGroup, SkipArgument, InstallPackage, MarkDone, Interrupt,
                RunInstall, GroupFails, NotInstalled, Installed, Reset, PhaseInv, Idle, ictx
  <2> QED
    BY <1>2, <1>3, <1>5, <2>2, <2>3
<1>6. CASE Stays
  <2>1. /\ n \in Nat \ {0} /\ Len(stack') = n
        /\ \A i \in 1..n : Tells(stack'[i], stack[i]) /\ stack[i].at # "obsoletes"
        /\ Settled' = Settled
    BY <1>6, StaysShape
  <2>2. UNCHANGED <<db, opts, inst, unset, interrupted>>
    BY <1>6 DEF Stays
  <2>3. \A p, q : Replaces(p, q)' <=> Replaces(p, q)
    BY <2>2, SameReplaces
  <2>4. \A i, j \in 1..n : \A k \in i..j : k \in 1..n
    BY <2>1
  <2>5. n \in 1..n
    BY <2>1
  <2> HIDE DEF n
  <2>6. \A q : Concerns(q)' <=> Concerns(q)
    BY <2>2 DEF Concerns
  <2>7. \A q : \A i, j \in 1..n : Guarded(q, i, j) => Guarded(q, i, j)'
    BY <2>1, <2>3, <2>4, <2>5 DEF Guarded, Kept, Tells, n
  <2>8. \A k \in 1..n : ~ Fresh(k) /\ stack'[k].marked = stack[k].marked
    BY <2>1 DEF Fresh, Tells
  <2> QED
    BY <1>1, <2>1, <2>2, <2>3, <2>6, <2>7, <2>8 DEF RemovalInv
<1>7. ASSUME NEW p, Enters(p) \/ Begins(p)
      PROVE  RemovalInv'
  <2>1. /\ p \in Pkg \ gray
        /\ UNCHANGED <<db, opts, phase, inst, unset, interrupted>>
        /\ n \in Nat /\ Len(stack') = n + 1
        /\ \A i \in 1..n : Tells(stack'[i], stack[i]) /\ stack[i].at # "obsoletes"
        /\ stack'[n + 1].marked = {p}
        /\ stack'[n + 1].at = "obsoletes"
        /\ Settled' = Settled
    BY <1>7, PushShape
  <2>2. \A x, q : Replaces(x, q)' <=> Replaces(x, q)
    BY <2>1, SameReplaces
  <2>3. \A q : Concerns(q)' <=> Concerns(q)
    BY <2>1 DEF Concerns
  <2>4. /\ \A i \in 1..n : \A k \in i..(n + 1) : (k \in i..n /\ k \in 1..n) \/ k = n + 1
        /\ \A i, j \in 1..n : \A k \in i..j : k \in 1..n /\ k \in i..(n + 1)
        /\ \A i \in 1..(n + 1) : i \in 1..n \/ i = n + 1
        /\ \A i, j \in 1..(n + 1) : i <= j /\ j \in 1..n => i \in 1..n
        /\ \A k \in 1..n : k <= n
        /\ 0 < n => n \in 1..n
        /\ \A k \in 1..n : 0 < n
    BY <2>1
  <2>5. p \notin Settled
    BY <2>1 DEF Settled
  <2> HIDE DEF n
  <2>6. \A q : \A i \in 1..n : Kept(q, i) => Kept(q, i)'
    BY <2>1, <2>2, <2>4, <2>5 DEF Kept, Tells, n
  <2>7. \A q : \A i, j \in 1..n : \A m \in 1..(n + 1) :
          Guarded(q, i, j) /\ j <= m => Guarded(q, i, m)'
    <3> SUFFICES ASSUME NEW q, NEW i \in 1..n, NEW j \in 1..n, NEW m \in 1..(n + 1),
                        Guarded(q, i, j), j <= m
                 PROVE  Guarded(q, i, m)'
      OBVIOUS
    <3>1. CASE Kept(q, i)
      BY <2>6, <3>1 DEF Guarded
    <3>2. ASSUME NEW k \in i..j, q \in stack[k].obsoleted
          PROVE  Guarded(q, i, m)'
      <4>1. k \in 1..n /\ k \in i..m
        BY <2>1
      <4>2. q \in stack'[k].obsoleted
        BY <2>1, <3>2, <4>1 DEF Tells
      <4> QED
        BY <4>1, <4>2 DEF Guarded
    <3> QED
      BY <3>1, <3>2 DEF Guarded
  <2>8. ASSUME NEW i \in 1..(n + 1), NEW j \in 1..(n + 1), NEW k \in 1..(n + 1),
               i <= k, k <= j, ~ Fresh(k)', NEW x \in stack'[k].marked, NEW q \in inst',
               Replaces(x, q)', Concerns(q)'
        PROVE  Guarded(q, i, j)'
    <3>1. k \in 1..n
      BY <2>1, <2>4, <2>8 DEF Fresh
    <3>2. i \in 1..n /\ x \in stack[k].marked /\ ~ Fresh(k) /\ q \in inst
      BY <2>1, <2>4, <2>8, <3>1 DEF Tells, Fresh
    <3>3. PICK h \in 1..n : k <= h /\ h <= j
      BY <2>1, <2>4, <2>8, <3>1
    <3>4. Guarded(q, i, h)
      BY <1>1, <2>2, <2>3, <2>8, <3>1, <3>2, <3>3 DEF n
    <3> QED
      BY <2>7, <3>2, <3>3, <3>4
  <2>9. \A q \in unset' : \E x \in Settled' : Replaces(x, q)'
    BY <1>1, <2>1, <2>2
  <2> QED
    BY <2>1, <2>8, <2>9 DEF RemovalInv
<1>8. ASSUME NEW old, Clears(old)
      PROVE  RemovalInv'
  <2>1. /\ n \in Nat \ {0} /\ Len(stack') = n
        /\ Top = stack[n] /\ Top.marked = {Top.pkg} /\ Top.obsoleted = {}
        /\ \A i \in 1..(n - 1) : stack'[i] = stack[i]
        /\ stack'[n].marked = {Top.pkg} /\ stack'[n].obsoleted = old
        /\ \A i \in 1..n : Fresh(i) <=> i = n
        /\ Top.pkg \notin Settled /\ Settled' = Settled \union {Top.pkg}
    BY <1>8, ClearShape
  <2>2. /\ UNCHANGED <<db, opts, inst, interrupted>> /\ unset' = unset \union old
        /\ old = {q \in inst \ unset : Replaces(Top.pkg, q) /\ opts.upgrade /\ ~ interrupted}
    BY <1>8 DEF Clears
  <2>3. \A x, q : Replaces(x, q)' <=> Replaces(x, q)
    BY <2>2, SameReplaces
  <2>4. /\ \A i \in 1..n : i \in 1..(n - 1) \/ i = n
        /\ \A i, j \in 1..n : \A k \in i..j : k \in 1..n
        /\ \A i \in 1..n : n \in i..n
        /\ \A k, j \in 1..n : k <= j /\ k = n => j = n
        /\ n \in 1..n
    BY <2>1
  <2>5. \A q : Concerns(q)' => Concerns(q)
    BY <2>2 DEF Concerns
  <2> HIDE DEF n
  <2>6. \A k \in 1..n : stack'[k].marked = stack[k].marked
                        /\ stack[k].obsoleted \subseteq stack'[k].obsoleted
    BY <2>1, <2>4
  <2>7. \A q : \A i, j \in 1..n : Guarded(q, i, j) => Guarded(q, i, j)'
    BY <2>1, <2>3, <2>4, <2>6 DEF Guarded, Kept, n
  <2>8. ASSUME NEW i \in 1..n, NEW j \in 1..n, NEW k \in 1..n,
               i <= k, k <= j, NEW x \in stack'[k].marked, NEW q \in inst',
               Replaces(x, q)', Concerns(q)'
        PROVE  Guarded(q, i, j)'
    <3>1. Replaces(x, q) /\ Concerns(q) /\ x \in stack[k].marked /\ q \in inst
      BY <2>2, <2>3, <2>5, <2>6, <2>8
    <3>2. CASE k # n
      BY <1>1, <2>1, <2>7, <2>8, <3>1, <3>2 DEF n
    <3>3. CASE k = n
      <4>1. j = n /\ x = Top.pkg
        BY <2>1, <2>4, <2>8, <3>1, <3>3
      <4>2. CASE q \in unset
        BY <2>7, <4>1, <4>2, Removed DEF n
      <4>3. CASE q \notin unset
        <5>1. q \in old
          BY <2>2, <3>1, <4>1, <4>3 DEF Concerns
        <5>2. q \in stack'[j].obsoleted /\ j \in i..j
          BY <2>1, <2>4, <4>1, <5>1
        <5> QED
          BY <5>2 DEF Guarded
      <4> QED
        BY <4>2, <4>3
    <3> QED
      BY <3>2, <3>3
  <2>9. \A q \in unset' : \E x \in Settled' : Replaces(x, q)'
    BY <1>1, <2>1, <2>2, <2>3
  <2> QED
    BY <2>1, <2>8, <2>9 DEF RemovalInv
<1>9. ASSUME stack # << >>, Top.at # "obsoletes", NEW rc \in {1, -1}, Return(rc),
             UNCHANGED <<db, opts, inst, interrupted>>, unset' \subseteq unset,
             Settled \ Top.marked \subseteq Settled',
             Top.pkg \in hand => Settled' = Settled,
             \A q \in unset' : \E p \in Settled' : Replaces(p, q)'
      PROVE  RemovalInv'
  <2>1. /\ n \in Nat \ {0} /\ Top = stack[n]
        /\ \A i \in 1..n : stack[i].at # "obsoletes"
        /\ \/ n = 1 /\ stack' = << >>
           \/ /\ n > 1 /\ Len(stack') = n - 1
              /\ \A i \in 1..(n - 2) : stack'[i] = stack[i]
              /\ Remembers(stack'[n - 1], stack[n - 1])
    BY <1>9, PopShape
  <2>2. CASE /\ n > 1 /\ Len(stack') = n - 1
             /\ \A i \in 1..(n - 2) : stack'[i] = stack[i]
             /\ Remembers(stack'[n - 1], stack[n - 1])
    <3> DEFINE Merged == Top.pkg \notin hand
    <3>1. \A p, q : Replaces(p, q)' <=> Replaces(p, q)
      BY <1>9, SameReplaces
    <3>2. \A q : Concerns(q)' => Concerns(q)
      BY <1>9 DEF Concerns
    <3>3. /\ \A i \in 1..(n - 1) : i = n - 1 \/ i \in 1..(n - 2)
          /\ \A i \in 1..(n - 2) : i # n - 1 /\ i \in 1..n
          /\ n - 1 \in 1..n /\ n \in 1..n
      BY <2>1, <2>2
    <3>4. \A k \in 1..(n - 1) :
            /\ stack[k].marked \subseteq stack'[k].marked
            /\ stack[k].obsoleted \subseteq stack'[k].obsoleted
            /\ stack'[k].marked = stack[k].marked
                  \/ (k = n - 1 /\ Merged /\ stack'[k].marked = stack[k].marked \union Top.marked)
            /\ k = n - 1 /\ Merged => Top.obsoleted \subseteq stack'[k].obsoleted
      BY <2>2, <3>3 DEF Remembers
    <3>5. \A k \in 1..n : ~ Fresh(k)
      BY <2>1 DEF Fresh
    <3>6. ASSUME NEW q, NEW i \in 1..(n - 1), Kept(q, i)
          PROVE  Kept(q, i)'
      <4>1. PICK p \in Settled : Replaces(p, q) /\ \A k \in i..n : p \notin stack[k].marked
        BY <3>6 DEF Kept
      <4>2. /\ n \in i..n
            /\ \A k \in i..(n - 1) : k \in i..n /\ k \in 1..(n - 1)
        BY <2>1, <2>2
      <4>3. p \notin Top.marked
        BY <2>1, <4>1, <4>2
      <4>4. p \in Settled' /\ Replaces(p, q)'
        BY <1>9, <3>1, <4>1, <4>3
      <4>5. \A k \in i..(n - 1) : p \notin stack'[k].marked
        BY <3>4, <4>1, <4>2, <4>3
      <4> HIDE DEF n
      <4> QED
        BY <2>2, <4>4, <4>5 DEF Kept
    <3>7. ASSUME NEW q, NEW i \in 1..(n - 1), NEW j \in 1..(n - 1), Guarded(q, i, j)
          PROVE  Guarded(q, i, j)'
      <4>1. CASE Kept(q, i)
        BY <3>6, <4>1 DEF Guarded
      <4>2. ASSUME NEW k \in i..j, q \in stack[k].obsoleted
            PROVE  Guarded(q, i, j)'
        <5>1. k \in 1..(n - 1)
          BY <2>1
        <5>2. q \in stack'[k].obsoleted
          BY <3>4, <4>2, <5>1
        <5> QED
          BY <5>2 DEF Guarded
      <4> QED
        BY <3>7, <4>1, <4>2 DEF Guarded
    <3>8. ASSUME Merged, NEW q, NEW i \in 1..(n - 1), NEW j \in 1..(n - 1), j = n - 1,
                 Guarded(q, i, n)
          PROVE  Guarded(q, i, j)'
      <4>1. CASE Kept(q, i)
        BY <3>6, <4>1 DEF Guarded
      <4>2. ASSUME NEW k \in i..n, q \in stack[k].obsoleted
            PROVE  Guarded(q, i, j)'
        <5>1. k = n \/ (k \in 1..(n - 1) /\ k \in i..j)
          BY <2>1, <3>8
        <5>2. CASE k \in 1..(n - 1) /\ k \in i..j
          BY <3>4, <4>2, <5>2 DEF Guarded
        <5>3. CASE k = n
          <6>1. q \in stack'[j].obsoleted
            BY <2>1, <3>4, <3>8, <4>2, <5>3
          <6>2. j \in i..j
            BY <2>1, <3>8
          <6> QED
            BY <6>1, <6>2 DEF Guarded
        <5> QED
          BY <5>1, <5>2, <5>3
      <4> QED
        BY <3>8, <4>1, <4>2 DEF Guarded
    <3>9. ASSUME NEW i \in 1..(n - 1), NEW j \in 1..(n - 1), NEW k \in 1..(n - 1),
                 i <= k, k <= j, NEW x \in stack'[k].marked, NEW q \in inst',
                 Replaces(x, q)', Concerns(q)'
          PROVE  Guarded(q, i, j)'
      <4>1. Replaces(x, q) /\ Concerns(q) /\ q \in inst
        BY <1>9, <3>1, <3>2, <3>9
      <4>2. i \in 1..n /\ j \in 1..n /\ k \in 1..n /\ n \in 1..n /\ i <= n /\ k <= n /\ n <= n
        BY <2>1
      <4>3. CASE x \in stack[k].marked
        <5>1. Guarded(q, i, j)
          BY <1>1, <3>5, <3>9, <4>1, <4>2, <4>3
        <5> QED
          BY <3>7, <5>1
      <4>4. CASE k = n - 1 /\ Merged /\ x \in Top.marked
        <5>1. j = n - 1
          BY <2>1, <3>9, <4>4
        <5>2. Guarded(q, i, n)
          BY <1>1, <2>1, <3>5, <4>1, <4>2, <4>4
        <5> QED
          BY <3>8, <4>4, <5>1, <5>2
      <4> QED
        BY <3>4, <3>9, <4>3, <4>4
    <3> HIDE DEF n
    <3> QED
      BY <1>9, <2>2, <3>9 DEF RemovalInv
  <2> QED
    BY <1>2, <1>9, <2>1, <2>2
<1>10. CASE Returns
  <2>1. /\ stack # << >> /\ Top.at # "obsoletes" /\ Return(1)
        /\ UNCHANGED <<db, opts, inst, interrupted, unset, inset, gray>>
    BY <1>10 DEF Returns
  <2>2. Settled' = Settled
    BY <2>1, PopShape
  <2>3. \A q \in unset' : \E p \in Settled' : Replaces(p, q)'
    BY <1>1, <2>1, <2>2, SameReplaces
  <2> QED
    BY <1>9, <2>1, <2>2, <2>3
<1>11. CASE Rollback
  <2>1. /\ stack # << >> /\ Top.at = "reqs" /\ Top.pkg \notin hand /\ Return(-1)
        /\ UNCHANGED <<db, opts, inst, interrupted>> /\ unset' = unset \ Top.obsoleted
        /\ inset' = inset \ Top.marked /\ gray' = gray \ Top.marked
    BY <1>11 DEF Rollback, Processed, Running
  <2>2. Settled' = Settled \ Top.marked
    BY <2>1, PopShape
  <2>3. n \in 1..n /\ Top = stack[n] /\ n..n = {n}
    BY <2>1, StackSteps DEF TypeInv, TypeOK
  <2>4. ASSUME NEW q \in unset'
        PROVE  \E p \in Settled' : Replaces(p, q)'
    <3>1. Guarded(q, n, n)
      BY <2>1, <2>3, Removed
    <3>2. PICK p \in Settled : Replaces(p, q) /\ p \notin stack[n].marked
      BY <2>1, <2>3, <2>4, <3>1 DEF Guarded, Kept
    <3> QED
      BY <2>1, <2>2, <2>3, <3>2, SameReplaces
  <2> QED
    BY <1>9, <2>1, <2>2, <2>4
<1>12. CASE NoRollback \/ \E m \in Missing : NothingToFree(m[1], m[2])
  <2>1. /\ stack # << >> /\ stack' = << >> /\ Top.at # "obsoletes"
        /\ UNCHANGED <<db, opts, unset, inset, gray>>
    BY <1>12 DEF NoRollback, Processed, NothingToFree, Conflict, Running, ictx
  <2>2. Len(stack') = 0
    BY <2>1
  <2>3. Settled \subseteq gray \intersect inset /\ Settled' = gray' \intersect inset'
    BY <2>2 DEF Settled
  <2> QED
    BY <1>1, <1>2, <2>1, <2>3, SameReplaces
<1> QED
  BY <1>4, <1>5, <1>6, <1>7, <1>8, <1>10, <1>11, <1>12, StepKinds, OuterSteps, Clearing

(* A requirement is not an orphan's when nobody installed requires.        *)
LEMMA ApartStep == Marks /\ ApartInv /\ [Next]_vars => ApartInv'
<1> SUFFICES ASSUME Marks, ApartInv, [Next]_vars
             PROVE  ApartInv'
  OBVIOUS
<1> USE DEF Marks
<1> DEFINE n == Len(stack)
           Lone == \A i \in 1..n : /\ i > 1 => stack[i].pkg \notin hand
                                   /\ stack[i].at = "orphans" => stack[i].missed = {}
           Argued == /\ ~ Particle /\ phase = "mark" /\ args # {} => pms \subseteq args
                     /\ ~ Particle /\ Transacting => args = {}
                     /\ ~ Particle /\ phase = "process" /\ ~ Stopped => pms = {}
<1>1. Argued /\ (AskedApart => Lone)
  BY DEF ApartInv
<1>2. ASSUME Argued', AskedApart' => Lone'
      PROVE  ApartInv'
  BY <1>2 DEF ApartInv
<1>3. ASSUME stack' = << >>
      PROVE  Lone'
  <2>1. Len(stack') = 0 /\ \A i : i \notin 1..0
    BY <1>3
  <2> QED
    BY <2>1
<1>4. Argued'
  <2>1. ASSUME UNCHANGED <<phase, args, opts>>, pms' \subseteq pms, Stopped => Stopped'
        PROVE  Argued'
    BY <1>1, <2>1 DEF Particle, Transacting
  <2>2. ASSUME NEW wanted \in Requests, Resolve(wanted)
        PROVE  Argued'
    BY <2>2 DEF Resolve, Transacting
  <2>3. ASSUME NEW group \in SUBSET pms, MarkGroup(group)
        PROVE  Argued'
    <3>1. phase' = "process" /\ phase = "mark" /\ opts' = opts
      BY <2>3 DEF MarkGroup
    <3>2. CASE Particle
      BY <3>1, <3>2 DEF Particle
    <3>3. CASE ~ Particle
      <4>1. /\ args' = {} /\ pms \subseteq group /\ inset' \subseteq group /\ pms' = pms \ inset'
        BY <1>1, <2>3, <3>1, <3>3 DEF MarkGroup
      <4>2. abort' = (inset' # group)
        BY <2>3 DEF MarkGroup
      <4>3. ~ Stopped' => inset' = group
        BY <4>2 DEF Stopped
      <4>4. ~ Stopped' => pms' = {}
        BY <4>1, <4>3
      <4> QED
        BY <3>1, <4>1, <4>4
    <3> QED
      BY <3>2, <3>3
  <2>4. ASSUME NEW p \in Pkg, SkipArgument(p)
        PROVE  Argued'
    BY <1>1, <2>4 DEF SkipArgument, Transacting, Particle
  <2>5. CASE MarkDone \/ RunInstall
    BY <1>1, <2>5 DEF MarkDone, RunInstall, Resolved, Transacting, Particle
  <2>6. CASE GroupFails \/ NotInstalled \/ Installed
    BY <1>1, <2>6 DEF GroupFails, NotInstalled, Installed, Resolved, Transacting, Particle
  <2>7. CASE Interrupt \/ UNCHANGED vars \/ Stays \/ Returns \/ ProcessObsoletes \/ Rollback
    BY <2>1, <2>7 DEF Interrupt, vars, ictx, Stays, Returns, ProcessObsoletes, Rollback, Stopped
  <2>8. ASSUME NEW p \in Pkg, Enters(p) \/ InstallPackage(p)
        PROVE  Argued'
    BY <2>1, <2>8 DEF Enters, InstallPackage, Stopped
  <2>9. CASE NoRollback \/ \E m \in Missing : NothingToFree(m[1], m[2])
    BY <1>1, <2>9 DEF NoRollback, Processed, NothingToFree, Conflict, Running, Transacting,
                      Particle, ictx, Stopped
  <2> QED
    BY <2>2, <2>3, <2>4, <2>5, <2>6, <2>7, <2>8, <2>9, StepKinds DEF Outer
<1> HIDE DEF Argued
<1>5. ASSUME UNCHANGED <<db, opts, inst>>, AskedApart => Lone'
      PROVE  ApartInv'
  BY <1>2, <1>4, <1>5 DEF AskedApart, Particle
<1>6. CASE Interrupt \/ UNCHANGED vars
  <2>1. UNCHANGED <<db, opts, inst, stack, hand>>
    BY <1>6 DEF Interrupt, vars, ictx
  <2> QED
    BY <1>1, <1>5, <2>1
<1>7. CASE stack' = << >>
  BY <1>2, <1>3, <1>4, <1>7
<1>8. CASE Stays
  <2>1. /\ n \in Nat \ {0} /\ Len(stack') = n
        /\ \A i \in 1..n : Tells(stack'[i], stack[i])
    BY <1>8, StaysShape
  <2>2. UNCHANGED <<db, opts, inst, hand>>
    BY <1>8 DEF Stays
  <2>3. AskedApart => \A i \in 1..n :
                         /\ i > 1 => stack'[i].pkg \notin hand
                         /\ stack'[i].at = "orphans" => stack'[i].missed = {}
    BY <1>1, <2>1 DEF Tells
  <2> QED
    BY <1>5, <2>1, <2>2, <2>3
<1>9. ASSUME NEW p, Enters(p) \/ Begins(p)
      PROVE  ApartInv'
  <2>1. /\ phase = "process" /\ ~ Stopped
        /\ UNCHANGED <<db, opts, inst>>
        /\ n \in Nat /\ Len(stack') = n + 1
        /\ \A i \in 1..n : Tells(stack'[i], stack[i])
        /\ stack'[n + 1].pkg = p /\ stack'[n + 1].at = "obsoletes"
    BY <1>9, PushShape
  <2>2. ASSUME AskedApart
        PROVE  hand' = hand /\ (n + 1 > 1 => p \notin hand)
    <3>1. CASE Begins(p)
      BY <3>1 DEF Begins, InstallPackage
    <3>2. CASE Enters(p)
      <4>1. pms = {}
        BY <1>1, <2>1, <2>2 DEF AskedApart, Argued
      <4>2. hand' = hand
        BY <3>2, <4>1 DEF Enters
      <4>3. stack # << >> /\ (p \in inset => Top.at = "orphans" /\ Top.missed # {})
        BY <3>2 DEF Enters
      <4>4. n \in 1..n /\ Top = stack[n]
        BY <4>3, StackSteps DEF TypeInv, TypeOK
      <4>5. p \notin inset
        BY <1>1, <2>2, <4>3, <4>4
      <4>6. hand \subseteq inset
        BY <2>1 DEF HandInv, Transacting
      <4> QED
        BY <4>2, <4>5, <4>6
    <3> QED
      BY <1>9, <3>1, <3>2
  <2>3. \A i \in 1..(n + 1) : i \in 1..n \/ i = n + 1
    BY <2>1
  <2>4. AskedApart => \A i \in 1..(n + 1) :
                         /\ i > 1 => stack'[i].pkg \notin hand'
                         /\ stack'[i].at = "orphans" => stack'[i].missed = {}
    BY <1>1, <2>1, <2>2, <2>3 DEF Tells
  <2> QED
    BY <1>5, <2>1, <2>4
<1>10. ASSUME NEW old, Clears(old)
       PROVE  ApartInv'
  <2>1. /\ n \in Nat \ {0} /\ Len(stack') = n /\ Top = stack[n]
        /\ \A i \in 1..(n - 1) : stack'[i] = stack[i]
        /\ stack'[n].pkg = Top.pkg
        /\ \A m \in stack'[n].missed : m[1] \in inst /\ m[2] \in db.reqs[m[1]]
    BY <1>10, ClearShape
  <2>2. UNCHANGED <<db, opts, inst, hand>>
    BY <1>10 DEF Clears
  <2>3. /\ \A i \in 1..n : i \in 1..(n - 1) \/ i = n
        /\ \A i \in 1..(n - 1) : i \in 1..n
        /\ n \in 1..n
    BY <2>1
  <2>4. AskedApart => stack'[n].missed = {}
    BY <2>1 DEF AskedApart
  <2>5. AskedApart => \A i \in 1..n :
                         /\ i > 1 => stack'[i].pkg \notin hand
                         /\ stack'[i].at = "orphans" => stack'[i].missed = {}
    BY <1>1, <2>1, <2>3, <2>4
  <2> QED
    BY <1>5, <2>1, <2>2, <2>5
<1>11. CASE Returns \/ Rollback
  <2>1. PICK rc \in {1, -1} : /\ Return(rc) /\ stack # << >> /\ Top.at # "obsoletes"
                              /\ UNCHANGED <<db, opts, inst, hand>>
    BY <1>11 DEF Returns, Rollback, Processed, Running
  <2>2. /\ n \in Nat \ {0}
        /\ \/ n = 1 /\ stack' = << >>
           \/ /\ n > 1 /\ Len(stack') = n - 1
              /\ \A i \in 1..(n - 2) : stack'[i] = stack[i]
              /\ Remembers(stack'[n - 1], stack[n - 1])
    BY <2>1, PopShape
  <2>3. CASE /\ n > 1 /\ Len(stack') = n - 1
             /\ \A i \in 1..(n - 2) : stack'[i] = stack[i]
             /\ Remembers(stack'[n - 1], stack[n - 1])
    <3>1. /\ \A i \in 1..(n - 1) : i = n - 1 \/ i \in 1..(n - 2)
          /\ \A i \in 1..(n - 1) : i \in 1..n
      BY <2>2, <2>3
    <3>2. \A i \in 1..(n - 1) : /\ stack'[i].pkg = stack[i].pkg /\ stack'[i].at = stack[i].at
                                /\ stack'[i].missed = stack[i].missed
      BY <2>3, <3>1 DEF Remembers
    <3>3. AskedApart => \A i \in 1..(n - 1) :
                           /\ i > 1 => stack'[i].pkg \notin hand
                           /\ stack'[i].at = "orphans" => stack'[i].missed = {}
      BY <1>1, <3>1, <3>2
    <3> QED
      BY <1>5, <2>1, <2>3, <3>3
  <2> QED
    BY <1>7, <2>2, <2>3
<1>12. CASE NoRollback \/ \E m \in Missing : NothingToFree(m[1], m[2])
  BY <1>7, <1>12 DEF NoRollback, NothingToFree
<1> QED
  BY <1>6, <1>7, <1>8, <1>9, <1>10, <1>11, <1>12, StepKinds, OuterSteps, Clearing

(* What has been settled stays replaced, or goes with what it replaces.    *)
LEMMA ReplacedStep == Marks /\ ApartInv /\ ReplacedInv /\ [Next]_vars => ReplacedInv'
<1> SUFFICES ASSUME Marks, ApartInv, ReplacedInv, [Next]_vars
             PROVE  ReplacedInv'
  OBVIOUS
<1> USE DEF Marks
<1> DEFINE n == Len(stack)
           Mode == (black = {} \/ AskedApart) /\ opts.upgrade /\ ~ interrupted
           All == \A p \in Settled : \A q \in inst : Replaces(p, q) => q \in unset
           Backed == \A k \in 1..n : \A q \in stack[k].obsoleted : \A p \in Settled :
                        Replaces(p, q) => \E j \in k..n : p \in stack[j].marked
<1>1. (Mode => All) /\ (AskedApart => Backed)
  BY DEF ReplacedInv
<1>2. ASSUME Mode' => All', AskedApart' => Backed'
      PROVE  ReplacedInv'
  BY <1>2 DEF ReplacedInv
<1>3. ASSUME stack' = << >>
      PROVE  Backed'
  <2>1. Len(stack') = 0 /\ \A i : i \notin 1..0
    BY <1>3
  <2> QED
    BY <2>1
<1>4. ASSUME UNCHANGED <<db, opts, inst>>
      PROVE  /\ \A p, q : Replaces(p, q)' <=> Replaces(p, q)
             /\ AskedApart' <=> AskedApart
  BY <1>4, SameReplaces DEF AskedApart, Particle
<1>5. CASE Interrupt \/ UNCHANGED vars
  <2>1. UNCHANGED <<db, opts, inst, stack, unset, gray, inset, black>>
        /\ (interrupted => interrupted')
    BY <1>5 DEF Interrupt, vars, ictx
  <2>2. Settled' = Settled
    BY <2>1 DEF Settled, Fresh
  <2>3. Mode' => Mode
    BY <1>4, <2>1
  <2>4. All => All'
    BY <1>4, <2>1, <2>2
  <2>5. Backed => Backed'
    BY <1>4, <2>1, <2>2
  <2> QED
    BY <1>1, <1>2, <1>4, <2>1, <2>3, <2>4, <2>5
<1>6. CASE Outer /\ stack = << >> /\ stack' = << >>
  <2>1. Len(stack) = 0 /\ Len(stack') = 0
    BY <1>6
  <2>2. Settled = gray \intersect inset /\ Settled' = gray' \intersect inset'
    BY <2>1 DEF Settled
  <2>3. \/ gray' = {}
        \/ UNCHANGED <<db, opts, inst, unset, inset, gray, black>>
           /\ (interrupted => interrupted')
    BY <1>6 DEF Outer, Resolve, MarkGroup, SkipArgument, InstallPackage, MarkDone, Interrupt,
                RunInstall, GroupFails, NotInstalled, Installed, Reset, PhaseInv, Idle, ictx
  <2>4. CASE gray' = {}
    BY <1>2, <1>3, <1>6, <2>2, <2>4
  <2>5. CASE /\ UNCHANGED <<db, opts, inst, unset, inset, gray, black>>
             /\ (interrupted => interrupted')
    <3>1. Settled' = Settled /\ (Mode' => Mode)
      BY <1>4, <2>2, <2>5
    <3>2. All => All'
      BY <1>4, <2>5, <3>1
    <3> QED
      BY <1>1, <1>2, <1>3, <1>6, <3>1, <3>2
  <2> QED
    BY <2>3, <2>4, <2>5
<1>7. CASE Stays
  <2>1. /\ n \in Nat \ {0} /\ Len(stack') = n
        /\ \A i \in 1..n : Tells(stack'[i], stack[i])
        /\ Settled' = Settled
    BY <1>7, StaysShape
  <2>2. UNCHANGED <<db, opts, inst, unset, interrupted>> /\ black \subseteq black'
    BY <1>7 DEF Stays
  <2>3. Mode' => Mode
    BY <1>4, <2>2
  <2>4. All => All'
    BY <1>4, <2>1, <2>2
  <2>5. \A k \in 1..n : \A j \in k..n : j \in 1..n
    BY <2>1
  <2>6. Backed => \A k \in 1..n : \A q \in stack'[k].obsoleted : \A p \in Settled :
                     Replaces(p, q) => \E j \in k..n : p \in stack'[j].marked
    BY <2>1, <2>5 DEF Tells
  <2>7. Backed => Backed'
    BY <1>4, <2>1, <2>2, <2>6
  <2> QED
    BY <1>1, <1>2, <1>4, <2>2, <2>3, <2>4, <2>7
<1>8. ASSUME NEW p, Enters(p) \/ Begins(p)
      PROVE  ReplacedInv'
  <2>1. /\ UNCHANGED <<db, opts, inst, unset, black, interrupted>>
        /\ n \in Nat /\ Len(stack') = n + 1
        /\ \A i \in 1..n : Tells(stack'[i], stack[i])
        /\ stack'[n + 1].obsoleted = {}
        /\ Settled' = Settled
    BY <1>8, PushShape
  <2>2. Mode' => Mode
    BY <1>4, <2>1
  <2>3. All => All'
    BY <1>4, <2>1
  <2>4. /\ \A i \in 1..(n + 1) : i \in 1..n \/ i = n + 1
        /\ \A k \in 1..n : \A j \in k..n : j \in 1..n /\ j \in k..(n + 1)
    BY <2>1
  <2>5. Backed => \A k \in 1..(n + 1) : \A q \in stack'[k].obsoleted : \A x \in Settled :
                     Replaces(x, q) => \E j \in k..(n + 1) : x \in stack'[j].marked
    BY <2>1, <2>4 DEF Tells
  <2>6. Backed => Backed'
    BY <1>4, <2>1, <2>5
  <2> QED
    BY <1>1, <1>2, <1>4, <2>1, <2>2, <2>3, <2>6
<1>9. ASSUME NEW old, Clears(old)
      PROVE  ReplacedInv'
  <2>1. /\ n \in Nat \ {0} /\ Len(stack') = n
        /\ Top = stack[n] /\ Top.marked = {Top.pkg} /\ Top.obsoleted = {}
        /\ \A i \in 1..(n - 1) : stack'[i] = stack[i]
        /\ stack'[n].marked = {Top.pkg} /\ stack'[n].obsoleted = old
        /\ Settled' = Settled \union {Top.pkg}
    BY <1>9, ClearShape
  <2>2. /\ UNCHANGED <<db, opts, inst, interrupted, black>> /\ unset' = unset \union old
        /\ old = {q \in inst \ unset : Replaces(Top.pkg, q) /\ opts.upgrade /\ ~ interrupted}
    BY <1>9 DEF Clears
  <2>3. Mode' => Mode
    BY <1>4, <2>2
  <2>4. /\ \A i \in 1..n : i \in 1..(n - 1) \/ i = n
        /\ \A i \in 1..(n - 1) : i \in 1..n
        /\ \A k \in 1..n : \A j \in k..n : j \in 1..n
        /\ \A i \in 1..n : n \in i..n
        /\ n \in 1..n
    BY <2>1
  <2>5. Mode /\ All => All'
    BY <1>4, <2>1, <2>2
  <2>6. ASSUME AskedApart, Backed
        PROVE  \A k \in 1..n : \A q \in stack'[k].obsoleted : \A x \in Settled' :
                     Replaces(x, q) => \E j \in k..n : x \in stack'[j].marked
    <3> SUFFICES ASSUME NEW k \in 1..n, NEW q \in stack'[k].obsoleted, NEW x \in Settled',
                        Replaces(x, q)
                 PROVE  \E j \in k..n : x \in stack'[j].marked
      OBVIOUS
    <3>1. CASE x = Top.pkg
      BY <2>1, <2>4, <3>1
    <3>2. CASE x \in Settled /\ k \in 1..(n - 1)
      <4>1. PICK j \in k..n : x \in stack[j].marked
        BY <2>1, <2>4, <2>6, <3>2
      <4>2. stack'[j].marked = stack[j].marked
        BY <2>1, <2>4
      <4> QED
        BY <4>1, <4>2
    <3>3. CASE x \in Settled /\ k = n
      <4>1. q \in inst /\ q \notin unset /\ opts.upgrade /\ ~ interrupted
        BY <2>1, <2>2, <3>3
      <4>2. q \in unset
        BY <1>1, <2>6, <3>3, <4>1
      <4> QED
        BY <4>1, <4>2
    <3> QED
      BY <2>1, <2>4, <3>1, <3>2, <3>3
  <2>7. AskedApart /\ Backed => Backed'
    BY <1>4, <2>1, <2>2, <2>6
  <2> QED
    BY <1>1, <1>2, <1>4, <2>2, <2>3, <2>5, <2>7
<1>10. ASSUME stack # << >>, Top.at # "obsoletes", NEW rc \in {1, -1}, Return(rc),
              UNCHANGED <<db, opts, inst>>, hand' = hand, Mode' => All',
              Settled' \subseteq Settled
       PROVE  ReplacedInv'
  <2>1. /\ n \in Nat \ {0} /\ Top = stack[n]
        /\ \/ n = 1 /\ stack' = << >>
           \/ /\ n > 1 /\ Len(stack') = n - 1
              /\ \A i \in 1..(n - 2) : stack'[i] = stack[i]
              /\ Remembers(stack'[n - 1], stack[n - 1])
    BY <1>10, PopShape
  <2>2. CASE /\ n > 1 /\ Len(stack') = n - 1
             /\ \A i \in 1..(n - 2) : stack'[i] = stack[i]
             /\ Remembers(stack'[n - 1], stack[n - 1])
    <3>1. /\ \A i \in 1..(n - 1) : i = n - 1 \/ i \in 1..(n - 2)
          /\ \A i \in 1..(n - 1) : i \in 1..n
          /\ n - 1 \in 1..n /\ n \in 1..n
          /\ \A k \in 1..(n - 1) : n - 1 \in k..(n - 1)
          /\ \A k \in 1..(n - 1) : \A j \in k..n :
                j = n \/ (j \in k..(n - 1) /\ j \in 1..(n - 1))
          /\ \A j \in (n - 1)..n : j = n \/ j = n - 1
          /\ \A j \in n..n : j = n
      BY <2>1, <2>2
    <3>2. AskedApart => Top.pkg \notin hand
      BY <2>1, <2>2, <3>1 DEF ApartInv
    <3>3. ASSUME AskedApart
          PROVE  /\ \A k \in 1..(n - 1) : /\ stack[k].marked \subseteq stack'[k].marked
                                          /\ k # n - 1 => stack'[k] = stack[k]
                 /\ stack[n].marked \subseteq stack'[n - 1].marked
                 /\ stack'[n - 1].obsoleted = stack[n - 1].obsoleted \union stack[n].obsoleted
      BY <2>1, <2>2, <3>1, <3>2, <3>3 DEF Remembers
    <3>4. ASSUME AskedApart, Backed
          PROVE  \A k \in 1..(n - 1) : \A q \in stack'[k].obsoleted : \A x \in Settled :
                     Replaces(x, q) => \E j \in k..(n - 1) : x \in stack'[j].marked
      <4> SUFFICES ASSUME NEW k \in 1..(n - 1), NEW q \in stack'[k].obsoleted,
                          NEW x \in Settled, Replaces(x, q)
                   PROVE  \E j \in k..(n - 1) : x \in stack'[j].marked
        OBVIOUS
      <4>1. PICK h \in {k, n} : q \in stack[h].obsoleted
        BY <3>1, <3>3, <3>4
      <4>2. PICK j \in h..n : x \in stack[j].marked
        BY <3>1, <3>4, <4>1
      <4>3. j \in k..n
        BY <2>1, <4>1
      <4>4. CASE j = n
        BY <3>1, <3>3, <3>4, <4>2, <4>4
      <4>5. CASE j \in k..(n - 1) /\ j \in 1..(n - 1)
        BY <3>3, <3>4, <4>2, <4>5
      <4> QED
        BY <3>1, <4>3, <4>4, <4>5
    <3>5. AskedApart /\ Backed => Backed'
      BY <1>4, <1>10, <2>2, <3>4
    <3> QED
      BY <1>1, <1>2, <1>4, <1>10, <3>5
  <2> QED
    BY <1>2, <1>3, <1>10, <2>1, <2>2
<1>11. CASE Returns
  <2>1. /\ stack # << >> /\ Top.at # "obsoletes" /\ Return(1)
        /\ UNCHANGED <<db, opts, inst, hand, interrupted, unset, inset, gray>>
        /\ black \subseteq black'
    BY <1>11 DEF Returns
  <2>2. Settled' = Settled
    BY <2>1, PopShape
  <2>3. Mode' => Mode
    BY <1>4, <2>1
  <2>4. All => All'
    BY <1>4, <2>1, <2>2
  <2> QED
    BY <1>1, <1>10, <2>1, <2>2, <2>3, <2>4
<1>12. CASE Rollback
  <2>1. /\ stack # << >> /\ Top.at = "reqs" /\ Return(-1)
        /\ UNCHANGED <<db, opts, inst, hand, interrupted>> /\ unset' = unset \ Top.obsoleted
        /\ inset' = inset \ Top.marked /\ gray' = gray \ Top.marked
        /\ black' = black \union {Top.pkg}
    BY <1>12 DEF Rollback, Processed, Running
  <2>2. Settled' = Settled \ Top.marked
    BY <2>1, PopShape
  <2>3. Mode' => Mode /\ AskedApart
    BY <1>4, <2>1
  <2>4. n \in 1..n /\ Top = stack[n] /\ n..n = {n}
    BY <2>1, StackSteps DEF TypeInv, TypeOK
  <2>5. ASSUME All, Backed
        PROVE  \A p \in Settled' : \A q \in inst : Replaces(p, q) => q \in unset'
    BY <2>1, <2>2, <2>4, <2>5
  <2>6. All /\ Backed => All'
    BY <1>4, <2>1, <2>5
  <2> QED
    BY <1>1, <1>10, <2>1, <2>2, <2>3, <2>6
<1>13. CASE NoRollback \/ \E m \in Missing : NothingToFree(m[1], m[2])
  <2>1. /\ stack # << >> /\ stack' = << >> /\ Top.at # "obsoletes"
        /\ UNCHANGED <<db, opts, inst, unset, inset, gray, interrupted>>
        /\ black \subseteq black'
    BY <1>13 DEF NoRollback, Processed, NothingToFree, Conflict, Running, ictx
  <2>2. Top = stack[n] /\ \A i \in 1..n : ~ Fresh(i)
    BY <2>1 DEF Top, Fresh
  <2>3. Len(stack') = 0
    BY <2>1
  <2>4. Settled' = Settled
    BY <2>1, <2>2, <2>3 DEF Settled
  <2>5. Mode' => Mode
    BY <1>4, <2>1
  <2>6. All => All'
    BY <1>4, <2>1, <2>4
  <2> QED
    BY <1>1, <1>2, <1>3, <2>1, <2>5, <2>6
<1> QED
  BY <1>5, <1>6, <1>7, <1>8, <1>9, <1>11, <1>12, <1>13, StepKinds, OuterSteps, Clearing

-----------------------------------------------------------------------------
(* The inductive invariant of the marks.                                   *)
IInv == Marks /\ RemovalInv /\ ApartInv /\ ReplacedInv

LEMMA IInit == Init => IInv
<1> SUFFICES ASSUME Init PROVE IInv
  OBVIOUS
<1>1. Len(stack) = 0 /\ \A i : i \notin 1..0
  BY DEF Init
<1>2. Settled = {}
  BY DEF Init, Settled
<1> QED
  BY <1>1, <1>2, MarksInit DEF Init, IInv, RemovalInv, ApartInv, ReplacedInv, Transacting, Stopped

LEMMA IStep == IInv /\ [Next]_vars => IInv'
  BY MarksStep, RemovalStep, ApartStep, ReplacedStep DEF IInv

(* What is going to be removed is what is replaced, no less and no more,   *)
(* whatever has been given up, taken back and chosen again meanwhile       *)
(* (i3_process_pkg_obsoletes, rollback_package).                           *)
THEOREM RemovalsAreExact == Spec => []ObsoletesAreExact
<1>1. IInv => RemovalsAreReplaced
  BY DEF IInv, RemovalInv, RemovalsAreReplaced, Settled
<1>2. IInv => ReplacedAreRemoved
  <2> SUFFICES ASSUME IInv, phase = "install", opts.upgrade, black = {} \/ AskedApart,
                      NEW p \in inset
               PROVE  ObsoletedBy(p) = {}
    BY DEF ReplacedAreRemoved
  <2>1. stack = << >> /\ queue = {} /\ ~ Stopped /\ inset \subseteq gray
    BY DEF IInv, Marks, PhaseInv
  <2>2. Len(stack) = 0 /\ \A i : i \notin 1..0
    BY <2>1
  <2>3. p \in Settled
    BY <2>1, <2>2 DEF Settled
  <2> QED
    BY <2>1, <2>3 DEF IInv, ReplacedInv, ObsoletedBy, Stopped
<1>3. IInv => ObsoletesAreExact
  BY <1>1, <1>2 DEF ObsoletesAreExact
<1> QED
  BY IInit, IStep, <1>3, PTL DEF Spec

-----------------------------------------------------------------------------
(* Nothing gets lost: what the calls on the stack still have to see to.    *)

(* The first call is of a package marked by hand; what is installed is not *)
(* installed again by an upgrade; what is begun with is in the set.        *)
BottomInv ==
    /\ stack # << >> => stack[1].pkg \in hand
    /\ \A k \in 1..Len(stack) : \A q \in stack[k].obsoleted : q \in inst /\ opts.upgrade
    /\ ~ opts.upgrade => unset = {}
    /\ Transacting /\ opts.upgrade => inset \intersect inst = {}
    /\ ~ Stopped => gray \subseteq inset
    /\ phase = "install" => \A e \in errors : ~ Fatal(e)

(* Nothing ends the transaction yet.                                       *)
Trying == Transacting /\ ~ Stopped

(* q is in the set, and stays if all calls from the i-th on are rolled     *)
(* back.                                                                   *)
Stands(q, i) == q \in inset /\ \A k \in i..Len(stack) : q \notin stack[k].marked

(* What the call d has still to see to: the requirement r of its package,  *)
(* its package's conflict x with q, the conflict x of q with its package,  *)
(* what an orphan misses.                                                  *)
Early == {"obsoletes", "orphans"}
Needs(d, r) == \/ d.at \in Early
               \/ d.at = "reqs" /\ (r \in d.todo \/ d.failed)
Bears(d, q, x) == \/ d.at = "caps"
                  \/ d.at = "cnfls" /\ (x \in d.todo \/ <<q, x>> \in d.missed)
Fears(d, q, x) == /\ d.at = "caps"
                  /\ (\E cap \in d.todo : CapMatchReq(cap, x)) \/ <<q, x>> \in d.missed
Misses(d, m) == d.at = "orphans" /\ m \in d.missed

(* The j-th call is for p and waits for who is to provide r.               *)
Awaits(j, p, r) == /\ stack[j].pkg = p /\ stack[j].at = "reqs"
                   /\ Satisfies(db, stack[j + 1].pkg, r)

(* r is met by an installed package that p does not replace, or by who     *)
(* stands on the i-th level, or known not to be, or the calls see to it.   *)
Spares(p, q) == opts.upgrade => ~ Replaces(p, q)
MetBySystem(p, r) == \E q \in inst : Satisfies(db, q, r) /\ Spares(p, q)
Met(p, r) == MetBySystem(p, r) \/ <<p, r>> \in errors \/ p \in black
Heeded(i, p, r) ==
    \/ Met(p, r) \/ p \in queue \ gray
    \/ \E q \in Pkg : Stands(q, i) /\ Satisfies(db, q, r)
    \/ \E j \in 1..Len(stack) : stack[j].pkg = p /\ Needs(stack[j], r)
    \/ 1 < i /\ i <= Len(stack) /\ Awaits(i - 1, p, r)
Levels == {i \in 1..(Len(stack) + 1) : i = Len(stack) + 1 \/ (AskedApart /\ i > 1)}

UnmetInv ==
    Trying /\ (black = {} \/ AskedApart) =>
        \A i \in Levels : \A p \in Pkg : Stands(p, i) =>
            \A r \in db.reqs[p] : Heeded(i, p, r)

(* The conflict x of p and the installed q is an error, or resolved.       *)
Handled(p, q, x) ==
    \/ <<p, q>> \in errors
    \/ x.rel # {} /\ Provided(inset, Opposite(x))
    \/ \E s \in inset : Replaces(s, q) \/ CapsObsolete(s, q)

(* p is not compared with the set yet.                                     *)
Unasked(p) ==
    \/ p \in queue \ gray
    \/ \E j \in 1..Len(stack) : stack[j].pkg = p /\ stack[j].at \in Early \union {"reqs"}

(* It has been, and its conflicts with what is installed are handled, or   *)
(* the call sees to them.                                                  *)
Borne(p, q, x) == \E j \in 1..Len(stack) : stack[j].pkg = p /\ Bears(stack[j], q, x)
Feared(p, q, x) == \E j \in 1..Len(stack) : stack[j].pkg = p /\ Fears(stack[j], q, x)
Compared(p) ==
    /\ ~ Particle => \A q \in hand \ {p} : \A x \in db.cnfl[p] :
          Satisfies(db, q, x) => <<p, q>> \in errors
    /\ \A q \in inst \ unset :
         /\ \A x \in db.cnfl[p] : Satisfies(db, q, x) => Handled(p, q, x) \/ Borne(p, q, x)
         /\ \A x \in db.cnfl[q] : Satisfies(db, p, x) => Handled(p, q, x) \/ Feared(p, q, x)

ClashInv ==
    Trying /\ black = {} /\ opts.conflicts /\ opts.upgrade /\ opts.obsoletes =>
        \A p \in inset : Unasked(p) \/ Compared(p)

(* The requirement r of the installed o is met, or known not to be, or o   *)
(* is replaced, too, or seems to be.                                       *)
Mended(o, r) ==
    \/ Provided(inst \ unset, r) \/ Provided(inset, r) \/ <<o, r>> \in errors
    \/ \E s \in inset : Replaces(s, o) \/ SeemsToSucceed(s, o)
OrphanInv ==
    Trying /\ black = {} =>
        \A o \in inst \ unset : \A r \in db.reqs[o] : r.rel # {} /\ Provided(inst, r) =>
            Mended(o, r) \/ \E j \in 1..Len(stack) : Misses(stack[j], <<o, r>>)

-----------------------------------------------------------------------------
(* The names of packages have versions.                                    *)
LEMMA SelfCapType ==
    ASSUME TypeInv, NEW p \in Pkg
    PROVE  /\ SelfCap[p] \in CapReq /\ SelfCap[p].evr \in Evr /\ SelfCap[p].evr.e = 0
           /\ SelfCap[p].evr.v # 0
<1>1. db \in InstallDatabase
  BY DatabasesAssumption DEF TypeInv
<1>2. SelfCap[p] \in db.caps[p] /\ SelfCap[p].evr.e = 0
  BY <1>1 DEF InstallDatabase
<1>3. SelfCap[p] \in Cap /\ SelfCap[p].rel # {}
  BY SelfCapAssumption
<1> QED
  BY <1>2, <1>3 DEF Cap, CapReq

(* A newer version of an installed package replaces it, and none is newer  *)
(* than itself.                                                            *)
LEMMA NewerReplaces ==
    ASSUME TypeInv, NEW p \in Pkg, NEW q \in Pkg, Newer(p, q)
    PROVE  Replaces(p, q) /\ p # q
<1> DEFINE x == SelfCap[p].evr
           y == SelfCap[q].evr
<1>1. /\ x \in Evr /\ x.e = 0 /\ x.v # 0
      /\ y \in Evr /\ y.e = 0 /\ y.v # 0
  BY SelfCapType
<1>2. Rel2(q, {"GT"}).evr = y /\ Rel2(q, {"GT"}).rel = {"GT"} /\ Rel2(q, {"GT"}).name = SelfCap[q].name
  BY SelfCapType DEF Rel2, CapReq
<1>3. /\ Rel2(p, {"EQ", "LT"}).evr = x /\ Rel2(p, {"EQ", "LT"}).rel = {"EQ", "LT"}
      /\ Rel2(p, {"EQ", "LT"}).name = SelfCap[p].name
  BY SelfCapType DEF Rel2, CapReq
<1>4. /\ SelfCap[p].name = SelfCap[q].name
      /\ \/ x.v > y.v
         \/ x.v = y.v /\ y.r # 0 /\ x.r # 0 /\ x.r > y.r
  BY <1>1, <1>2 DEF Newer, CapMatchReq, CapXMatchReq, RelMatch, Evr
<1>5. CapMatchReq(SelfCap[q], Rel2(p, {"EQ", "LT"}))
  BY <1>1, <1>3, <1>4, EvrBound DEF CapMatchReq, CapXMatchReq, RelMatch, Evr
<1>6. p # q
  BY <1>1, <1>4, EvrBound DEF Evr
<1> QED
  BY <1>5, <1>6 DEF Replaces

(* What an upgrade installs is not installed.                              *)
LEMMA NotInstalledYet ==
    ASSUME TypeInv, opts.upgrade, NEW p \in Pkg, Installable(p)
    PROVE  p \notin inst
  BY NewerReplaces DEF Installable

(* Who satisfies a capability as a requirement, satisfies the versioned    *)
(* requirements that the capability satisfies.                             *)
LEMMA MatchesAsReq ==
    ASSUME TypeInv, NEW q \in Pkg, NEW c \in db.caps[q], NEW o \in Pkg, NEW r \in db.reqs[o], r.rel # {},
           CapMatchReq(c, r), NEW p \in Pkg, Satisfies(db, p, c)
    PROVE  Satisfies(db, p, r)
<1>1. db \in InstallDatabase
  BY DatabasesAssumption DEF TypeInv
<1>2. PICK k \in db.caps[p] : CapMatchReq(k, c)
  BY DEF Satisfies
<1>3. c \in Cap /\ k \in Cap /\ r \in Req /\ c.evr.e = 0 /\ k.evr.e = 0 /\ r.evr.e = 0
  BY <1>1 DEF InstallDatabase
<1> DEFINE x == c.evr
           y == k.evr
           z == r.evr
<1>4. x \in Evr /\ y \in Evr /\ z \in Evr
  BY <1>3 DEF Cap, Req, CapReq
<1>5. x.v \in Nat /\ x.r \in Nat /\ y.v \in Nat /\ y.r \in Nat /\ z.v \in Nat /\ z.r \in Nat
  BY <1>4, EvrBound DEF Evr
<1>6. /\ c.name = r.name /\ x.v # 0
      /\ \/ x.v # z.v /\ RelMatch(x.v, z.v, r.rel)
         \/ x.v = z.v /\ z.r = 0 /\ "EQ" \in r.rel
         \/ x.v = z.v /\ z.r # 0 /\ x.r # 0 /\ RelMatch(x.r, z.r, r.rel)
  BY <1>3 DEF CapMatchReq, CapXMatchReq
<1>7. c.rel = {"EQ"}
  BY <1>3, <1>6 DEF Cap
<1>8. /\ k.name = c.name /\ y.v # 0
      /\ \/ y.v = x.v /\ x.r = 0
         \/ y.v = x.v /\ x.r # 0 /\ y.r # 0 /\ y.r = x.r
  <2>1. \A a, b : RelMatch(a, b, c.rel) => a = b
    BY <1>7 DEF RelMatch
  <2>2. c.rel # {}
    BY <1>7
  <2> HIDE DEF x, y
  <2> QED
    BY <1>2, <1>3, <2>1, <2>2 DEF CapMatchReq, CapXMatchReq, x, y
<1>9. CapMatchReq(k, r)
  BY <1>3, <1>6, <1>8 DEF CapMatchReq, CapXMatchReq
<1> QED
  BY <1>9 DEF Satisfies

-----------------------------------------------------------------------------
(* The steps of the call on top.                                           *)

(* The steps of the calls, by what is at hand.                             *)
OrphanStep ==
    \/ \E m \in Missing : SkipOrphan(m[1], m[2]) \/ QuitForOrphan(m[1], m[2])
    \/ \E m \in Missing, p \in Pkg : UpgradeOrphan(m[1], m[2], p) \/ MarkForOrphan(m[1], m[2], p)
    \/ \E m \in Missing, p \in Pkg \union {NoPkg} : OrphanUnmet(m[1], m[2], p)
    \/ OrphansProcessed
ReqStep ==
    \/ \E r \in Todo : SkipReq(r) \/ ReqUnmet(r) \/ QuitForReq(r)
    \/ \E r \in Todo, p \in Pkg : MarkForReq(r, p)
    \/ Retry \/ ReqsProcessed
CnflStep ==
    \/ \E c \in Todo : LookUpCap(c) \/ LookUpCnfl(c)
    \/ CapsLookedUp
    \/ \E m \in Missing : ConflictResolved(m[1], m[2]) \/ ConflictUnresolved(m[1], m[2])
                          \/ QuitForConflict(m[1], m[2])
    \/ \E m \in Missing, p \in Pkg : MarkForConflict(m[1], m[2], p)

LEMMA Kinds ==
    ASSUME [Next]_vars
    PROVE  \/ Outer \/ OrphanStep \/ ReqStep \/ CnflStep \/ ProcessObsoletes
           \/ PackageDone \/ Rollback \/ NoRollback
           \/ \E m \in Missing : NothingToFree(m[1], m[2])
           \/ UNCHANGED vars
  BY DEF Next, Step, Outer, OrphanStep, ReqStep, CnflStep, Finished

(* The call on top goes on as c and may make another one.                  *)
Calls(c, p) ==
    /\ p \in Pkg \ gray
    /\ p \in inset => Top.at = "orphans" /\ Top.missed # {}
    /\ gray' = gray \union {p} /\ inset' = inset \union {p}
    /\ hand' = (IF p \in pms THEN hand \union {p} ELSE hand) /\ pms' = pms \ {p}
    /\ opts.upgrade /\ p \notin inset => p \notin inst
    /\ \E indir \in BOOLEAN : stack' = Append(Append(Below, c), Frame(p, indir))
Moves(c) ==
    /\ phase = "process" /\ stack # << >> /\ ~ Stopped
    /\ c \in Call /\ Alike(c, Top) /\ Top.at # "obsoletes"
    /\ UNCHANGED <<db, opts, phase, inst, args, queue, unset, interrupted, ok>>
    /\ errors \subseteq errors' /\ black \subseteq black'
    /\ \/ Replace(c) /\ UNCHANGED <<inset, hand, gray, pms>>
       \/ \E p \in Pkg : Calls(c, p)

LEMMA Calling ==
    ASSUME TypeInv, BottomInv, phase = "process", stack # << >>, Top.at # "obsoletes", ~ Stopped',
           NEW c \in Call, Alike(c, Top), NEW p \in db.avail, NEW indir \in BOOLEAN,
           p \in inset => Top.at = "orphans" /\ Top.missed # {},
           ProcessPackage(c, p, indir),
           UNCHANGED <<db, opts, phase, inst, args, queue, interrupted, ok>>
    PROVE  /\ Moves(c)
           /\ p \in inset' /\ errors' = errors /\ black' = black
           /\ p \notin gray => stack' = Append(Append(Below, c), Frame(p, indir))
<1>1. p \in Pkg
  BY DatabaseTypes
<1>2. CASE Stopped /\ UNCHANGED <<ictx, pms>>
  BY <1>2 DEF Stopped, ictx
<1>3. CASE ~ Stopped /\ p \in gray /\ Replace(c) /\ UNCHANGED <<ictx, pms>>
  BY <1>1, <1>3 DEF Moves, BottomInv, ictx
<1>4. CASE abort'
  BY <1>4 DEF Stopped
<1>5. CASE /\ ~ Stopped /\ p \notin gray /\ (p \in inset \/ Installable(p))
           /\ gray' = gray \union {p}
           /\ inset' = inset \union {p}
           /\ hand' = IF p \in pms THEN hand \union {p} ELSE hand
           /\ pms' = pms \ {p}
           /\ stack' = Append(Append(Below, c), Frame(p, indir))
           /\ UNCHANGED <<unset, black, errors, abort>>
  <2>1. opts.upgrade /\ p \notin inset => p \notin inst
    BY <1>1, <1>5, NotInstalledYet
  <2>2. Calls(c, p)
    BY <1>1, <1>5, <2>1 DEF Calls
  <2> QED
    BY <1>1, <1>5, <2>2 DEF Moves
<1> QED
  BY <1>2, <1>3, <1>4, <1>5 DEF ProcessPackage

(* What becomes of the stack.                                              *)
LEMMA MovesShape ==
    ASSUME TypeInv, NEW c, Moves(c)
    PROVE  /\ Len(stack) \in Nat \ {0} /\ Top = stack[Len(stack)] /\ Top \in Call
           /\ \A i \in 1..(Len(stack) - 1) : stack'[i] = stack[i]
           /\ stack'[Len(stack)] = c
           /\ \/ Len(stack') = Len(stack) /\ UNCHANGED <<inset, hand, gray, pms>>
              \/ /\ Len(stack') = Len(stack) + 1
                 /\ LET f == stack'[Len(stack) + 1]
                    IN  /\ f.at = "obsoletes" /\ f.marked = {f.pkg} /\ f.obsoleted = {}
                        /\ Calls(c, f.pkg)
<1> DEFINE n == Len(stack)
<1>1. stack \in Seq(Call) /\ stack # << >> /\ c \in Call
  BY DEF TypeInv, TypeOK, Moves
<1>2. n \in Nat \ {0} /\ Top = stack[n] /\ Top \in Call
  BY <1>1, StackSteps
<1>3. CASE Replace(c) /\ UNCHANGED <<inset, hand, gray, pms>>
  BY <1>1, <1>2, <1>3, StackSteps
<1>4. ASSUME NEW p \in Pkg, Calls(c, p)
      PROVE  /\ \A i \in 1..(n - 1) : stack'[i] = stack[i]
             /\ stack'[n] = c
             /\ Len(stack') = n + 1
             /\ LET f == stack'[n + 1]
                IN  /\ f.at = "obsoletes" /\ f.marked = {f.pkg} /\ f.obsoleted = {}
                    /\ Calls(c, f.pkg)
  <2>1. PICK indir \in BOOLEAN : stack' = Append(Append(Below, c), Frame(p, indir))
    BY <1>4 DEF Calls
  <2> DEFINE g == Frame(p, indir)
  <2>2. g \in Call /\ g.pkg = p /\ g.at = "obsoletes" /\ g.marked = {p} /\ g.obsoleted = {}
    BY FrameType
  <2>3. stack' = Append(Append(Below, c), g)
    BY <2>1
  <2> HIDE DEF g
  <2>4. /\ Len(stack') = n + 1
        /\ \A i \in 1..(n - 1) : stack'[i] = stack[i]
        /\ stack'[n] = c /\ stack'[n + 1] = g
    BY <1>1, <2>2, <2>3, StackSteps
  <2> QED
    BY <1>4, <2>2, <2>4
<1> QED
  BY <1>2, <1>3, <1>4 DEF Moves

(* What becomes of what the orphans miss, of the requirements and of the   *)
(* conflicts that the call on top still has to see to.                     *)
OrphanGoes(c) ==
    \A m \in Top.missed :
        Misses(Top, m) /\ m[1] \in Pkg /\ m[2] \in db.reqs[m[1]] /\ m[2].rel # {} =>
            \/ Misses(c, m) \/ m[1] \in unset
            \/ Provided(inst, m[2]) => Mended(m[1], m[2])'
ReqGoes(c) ==
    \A r \in db.reqs[Top.pkg] : Needs(Top, r) =>
        \/ Needs(c, r)
        \/ black = {} \/ AskedApart => Met(c.pkg, r)' \/ Provided(inset, r)
        \/ /\ c.at = "reqs" /\ Len(stack') = Len(stack) + 1
           /\ Satisfies(db, stack'[Len(stack) + 1].pkg, r)
CnflGoes(c) ==
    opts.obsoletes => \A q \in inst \ unset : \A x \in Cnfls(Top.pkg) \union Cnfls(q) :
        /\ Bears(Top, q, x) /\ x \in db.cnfl[Top.pkg] /\ Satisfies(db, q, x) =>
             Bears(c, q, x) \/ Handled(c.pkg, q, x)'
        /\ Fears(Top, q, x) /\ x \in db.cnfl[q] =>
             Fears(c, q, x) \/ Handled(c.pkg, q, x)'

(* What the database has.                                                  *)
LEMMA DatabaseShape ==
    ASSUME TypeInv
    PROVE  /\ db \in InstallDatabase /\ db \in Databases
           /\ db.avail \subseteq Pkg /\ inst \subseteq Pkg /\ inset \subseteq Pkg /\ unset \subseteq inst
           /\ inset \subseteq db.avail
  BY DatabaseTypes, DatabasesAssumption DEF TypeInv, TypeOK

(* Without epochs there is nothing to promote: what i3_pkgdb_match_req     *)
(* finds satisfies the requirement.                                        *)
LEMMA FoundInDb ==
    ASSUME TypeInv, NEW o \in Pkg, NEW r \in db.reqs[o], MetByDb(r)
    PROVE  \E q \in inst \ unset : Satisfies(db, q, r)
<1>1. PICK q \in Pkg \ Gone : \E c \in db.caps[q] : CapXMatchReq(c, r, {"CAPEPOCH"})
  BY DEF MetByDb, MatchReq
<1>2. PICK c \in db.caps[q] : CapXMatchReq(c, r, {"CAPEPOCH"})
  BY <1>1
<1>3. c.evr.e = 0 /\ r.evr.e = 0
  BY <1>1, <1>2, DatabaseShape DEF InstallDatabase
<1>4. CapMatchReq(c, r)
  BY <1>2, <1>3 DEF CapMatchReq, CapXMatchReq
<1> QED
  BY <1>1, <1>2, <1>4 DEF Gone, Satisfies

(* Who is newer than an orphan replaces it; who provides or obsoletes its  *)
(* name does, or only seems to.                                            *)
LEMMA SuccessorReplaces ==
    ASSUME TypeInv, NEW o \in Pkg, NEW s \in Successors(o)
    PROVE  s \in db.avail /\ (Replaces(s, o) \/ SeemsToSucceed(s, o))
<1>1. s \in db.avail /\ s \in Pkg
  BY DatabaseShape DEF Successors
<1>2. CASE Newer(s, o)
  BY <1>1, <1>2, NewerReplaces
<1>3. CASE ~ Newer(s, o)
  <2>1. /\ NameOf(s) # NameOf(o) /\ opts.obsoletes /\ \A p \in db.avail : ~ Newer(p, o)
        /\ \E c \in db.caps[s] \union db.obsl[s] : c.name = NameOf(o)
    BY <1>3 DEF Successors
  <2> QED
    BY <1>1, <2>1 DEF SeemsToSucceed
<1> QED
  BY <1>2, <1>3

(* The steps of i3_process_orphan.                                         *)
LEMMA OrphanMoves ==
    ASSUME TypeInv, BottomInv, OrphanStep, ~ Stopped'
    PROVE  \E c \in Call : /\ Moves(c) /\ Top.at = "orphans"
                           /\ c.at \in Early \/ (c.at = "reqs" /\ c.todo = db.reqs[c.pkg])
                           /\ UNCHANGED black /\ OrphanGoes(c)
<1>1. CASE OrphansProcessed
  <2> DEFINE c == Requirements(Top)
  <2>1. /\ Replace(c) /\ Top.at = "orphans" /\ phase = "process" /\ stack # << >>
        /\ UNCHANGED <<db, opts, phase, inst, args, pms, queue, ictx, interrupted, ok>>
    BY <1>1 DEF OrphansProcessed, Running
  <2>2. ~ Stopped
    BY <2>1 DEF Stopped, ictx
  <2>3. Top.missed = {}
    BY <1>1, <2>2 DEF OrphansProcessed
  <2>4. c \in Call /\ Alike(c, Top) /\ Top \in Call
    BY <2>1, GoingOn, StackSteps DEF TypeInv, TypeOK
  <2>5. c.at = "reqs" /\ c.todo = db.reqs[c.pkg]
    BY <2>2, <2>4 DEF Requirements, Call
  <2> HIDE DEF c
  <2>6. Moves(c)
    BY <2>1, <2>2, <2>4 DEF Moves, ictx
  <2> QED
    BY <2>1, <2>3, <2>4, <2>5, <2>6 DEF OrphanGoes, ictx
<1>2. ASSUME NEW o, NEW r, Orphan(o, r)
      PROVE  /\ phase = "process" /\ stack # << >> /\ Top.at = "orphans" /\ Top.missed # {}
             /\ o \in Pkg /\ r \in Req /\ ~ Stopped /\ <<o, r>> \in Top.missed
             /\ OrphanLeft(o, r) \in Call /\ Alike(OrphanLeft(o, r), Top)
             /\ OrphanLeft(o, r).at = "orphans"
             /\ OrphanLeft(o, r).missed = Top.missed \ {<<o, r>>}
  <2>1. phase = "process" /\ stack # << >> /\ Top.at = "orphans" /\ <<o, r>> \in Top.missed /\ ~ Stopped
    BY <1>2 DEF Orphan, Running
  <2>2. Top \in Call
    BY <2>1, StackSteps DEF TypeInv, TypeOK
  <2>3. o \in Pkg /\ r \in Req
    BY <2>1, <2>2 DEF Call
  <2>4. Top.missed \ {<<o, r>>} \subseteq Top.missed
    OBVIOUS
  <2>5. OrphanLeft(o, r) \in Call /\ Alike(OrphanLeft(o, r), Top)
    BY <2>1, <2>3, <2>4, GoingOn DEF OrphanLeft
  <2>6. OrphanLeft(o, r).at = "orphans" /\ OrphanLeft(o, r).missed = Top.missed \ {<<o, r>>}
    BY <2>1, <2>2 DEF OrphanLeft, Call
  <2> QED
    BY <2>1, <2>3, <2>5, <2>6
<1>3. ASSUME NEW o, NEW r, NEW c \in Call, <<o, r>> \in Top.missed, 
             c.at = "orphans" /\ c.missed = Top.missed \ {<<o, r>>},
             o \in Pkg /\ r \in db.reqs[o] /\ r.rel # {} =>
                 o \in unset \/ (Provided(inst, r) => Mended(o, r)')
      PROVE  OrphanGoes(c)
  <2> SUFFICES ASSUME NEW m \in Top.missed, m \notin c.missed,
                      m[1] \in Pkg, m[2] \in db.reqs[m[1]], m[2].rel # {}
               PROVE  m[1] \in unset \/ (Provided(inst, m[2]) => Mended(m[1], m[2])')
    BY <1>3 DEF OrphanGoes, Misses
  <2>1. m = <<o, r>>
    BY <1>3
  <2>2. m[1] = o /\ m[2] = r
    BY <2>1
  <2> QED
    BY <1>3, <2>2
<1>4. ASSUME NEW m \in Missing, SkipOrphan(m[1], m[2])
      PROVE  \E c \in Call : /\ Moves(c) /\ Top.at = "orphans" /\ c.at \in Early
                             /\ UNCHANGED black /\ OrphanGoes(c)
  <2> DEFINE o == m[1]
             r == m[2]
  <2>1. /\ Orphan(o, r)
        /\ UNCHANGED <<db, opts, phase, inst, args, pms, queue, ictx, interrupted, ok>>
    BY <1>4 DEF SkipOrphan
  <2>2. CASE o \in unset
    <3> DEFINE S == {x \in Top.missed : x[1] # o}
               c == [Top EXCEPT !.missed = S]
    <3>1. Replace(c)
      BY <1>4, <2>2 DEF SkipOrphan
    <3>2. S \subseteq Top.missed /\ \A x \in Top.missed : x \in S \/ x[1] \in unset
      BY <2>2
    <3> HIDE DEF S
    <3>3. Top \in Call
      BY <1>2, <2>1, StackSteps DEF TypeInv, TypeOK
    <3>4. c \in Call /\ Alike(c, Top)
      BY <1>2, <2>1, <3>2, GoingOn
    <3>5. c.at = "orphans" /\ c.missed = S
      BY <1>2, <2>1, <3>3 DEF Call
    <3> HIDE DEF c
    <3>6. Moves(c)
      BY <1>2, <2>1, <3>1, <3>4 DEF Moves, ictx
    <3>7. OrphanGoes(c)
      BY <3>2, <3>5 DEF OrphanGoes, Misses
    <3> QED
      BY <1>2, <2>1, <3>4, <3>5, <3>6, <3>7 DEF ictx, Early
  <2>3. CASE o \notin unset
    <3> DEFINE c == OrphanLeft(o, r)
    <3>1. /\ ~ Provided(unset, r) \/ MetByInset(r) \/ MetByDb(r)
          /\ Replace(c)
      BY <1>4, <2>3 DEF SkipOrphan
    <3>2. /\ c \in Call /\ Alike(c, Top) /\ c.at = "orphans" /\ c.missed = Top.missed \ {<<o, r>>}
          /\ ~ Stopped /\ phase = "process" /\ stack # << >> /\ Top.at = "orphans" /\ <<o, r>> \in Top.missed
      BY <1>2, <2>1
    <3> HIDE DEF c
    <3>3. Moves(c)
      BY <2>1, <3>1, <3>2 DEF Moves, ictx
    <3>4. r \in db.reqs[o] => (Provided(inst, r) => Mended(o, r))
      <4>1. r \in db.reqs[o] /\ MetByDb(r) => Provided(inst \ unset, r)
        BY <1>2, <2>1, FoundInDb DEF Provided
      <4> QED
        BY <3>1, <4>1, DatabaseShape DEF Provided, MetByInset, Candidates, Providers, Mended
    <3>5. Mended(o, r) => Mended(o, r)'
      <4>1. UNCHANGED <<db, inst, unset, inset, errors, opts>>
        BY <2>1 DEF ictx
      <4>2. PICK o1 : o1 = o
        OBVIOUS
      <4>3. PICK r1 : r1 = r
        OBVIOUS
      <4>4. Mended(o1, r1) => Mended(o1, r1)'
        BY <4>1 DEF Mended, Provided, Replaces, SeemsToSucceed
      <4> QED
        BY <4>2, <4>3, <4>4
    <3> HIDE DEF o, r
    <3>6. OrphanGoes(c)
      BY <1>3, <3>2, <3>4, <3>5
    <3> QED
      BY <2>1, <3>2, <3>3, <3>6 DEF ictx, Early
  <2> QED
    BY <2>2, <2>3
<1>5. ASSUME NEW m \in Missing, NEW p \in Pkg \union {NoPkg},
             OrphanUnmet(m[1], m[2], p) \/ QuitForOrphan(m[1], m[2])
      PROVE  \E c \in Call : /\ Moves(c) /\ Top.at = "orphans" /\ c.at \in Early
                             /\ UNCHANGED black /\ OrphanGoes(c)
  <2>1. PICK o, r : o = m[1] /\ r = m[2]
    OBVIOUS
  <2>2. OrphanUnmet(o, r, p) \/ QuitForOrphan(o, r)
    BY <1>5, <2>1
  <2>3. ~ QuitForOrphan(o, r)
    BY DEF QuitForOrphan, Stopped
  <2>4. OrphanUnmet(o, r, p)
    BY <2>2, <2>3
  <2> DEFINE c == OrphanLeft(o, r)
  <2>5. /\ Orphan(o, r) /\ Replace(c) /\ errors' = errors \union {<<o, r>>}
        /\ UNCHANGED <<db, opts, phase, inst, args, pms, queue, inset, hand, unset, gray, black,
                   interrupted, ok>>
    BY <2>4 DEF OrphanUnmet, Missed
  <2>6. /\ c \in Call /\ Alike(c, Top) /\ c.at = "orphans" /\ c.missed = Top.missed \ {<<o, r>>}
        /\ ~ Stopped /\ phase = "process" /\ stack # << >> /\ Top.at = "orphans" /\ <<o, r>> \in Top.missed
    BY <1>2, <2>5
  <2> HIDE DEF c
  <2>7. Moves(c)
    BY <2>5, <2>6 DEF Moves
  <2>8. Mended(o, r)'
    BY <2>5 DEF Mended
  <2>9. OrphanGoes(c)
    BY <1>3, <2>6, <2>8
  <2> QED
    BY <2>5, <2>6, <2>7, <2>9 DEF Early
<1>6. ASSUME NEW m \in Missing, NEW p \in Pkg, UpgradeOrphan(m[1], m[2], p) \/ MarkForOrphan(m[1], m[2], p)
      PROVE  \E c \in Call : /\ Moves(c) /\ Top.at = "orphans" /\ c.at \in Early
                             /\ UNCHANGED black /\ OrphanGoes(c)
  <2>1. PICK o, r : o = m[1] /\ r = m[2]
    OBVIOUS
  <2>2. UpgradeOrphan(o, r, p) \/ MarkForOrphan(o, r, p)
    BY <1>6, <2>1
  <2> DEFINE c == OrphanLeft(o, r)
  <2>3. /\ Orphan(o, r) /\ ProcessPackage(c, p, FALSE)
        /\ UNCHANGED <<db, opts, phase, inst, args, queue, interrupted, ok>>
    BY <2>2 DEF UpgradeOrphan, MarkForOrphan, Missed
  <2>4. /\ c \in Call /\ Alike(c, Top) /\ c.at = "orphans" /\ c.missed = Top.missed \ {<<o, r>>}
        /\ ~ Stopped /\ phase = "process" /\ stack # << >> /\ Top.at = "orphans" /\ Top.missed # {}
        /\ <<o, r>> \in Top.missed /\ o \in Pkg
    BY <1>2, <2>3
  <2> HIDE DEF c
  <2>5. p \in db.avail
    BY <2>2, CandidateTypes DEF UpgradeOrphan, MarkForOrphan, Successors
  <2>6. Moves(c) /\ p \in inset' /\ errors' = errors /\ black' = black
    BY <2>3, <2>4, <2>5, Calling
  <2>7. CASE MarkForOrphan(o, r, p)
    <3>1. p \in Candidates(r)
      BY <2>7, CandidateTypes DEF MarkForOrphan
    <3>2. Satisfies(db, p, r)
      BY <3>1 DEF Candidates, Providers
    <3>3. Mended(o, r)'
      BY <2>3, <2>6, <3>2 DEF Mended, Provided
    <3>4. OrphanGoes(c)
      BY <1>3, <2>4, <3>3
    <3> QED
      BY <2>4, <2>6, <3>4 DEF Early
  <2>8. CASE UpgradeOrphan(o, r, p)
    <3>1. p \in Successors(o)
      BY <2>8 DEF UpgradeOrphan
    <3>2. Replaces(p, o) \/ SeemsToSucceed(p, o)
      BY <2>4, <3>1, SuccessorReplaces
    <3>3. Mended(o, r)'
      <4>1. /\ Replaces(p, o) => Replaces(p, o)'
            /\ SeemsToSucceed(p, o) => SeemsToSucceed(p, o)'
        BY <2>3 DEF Replaces, SeemsToSucceed
      <4> QED
        BY <2>6, <3>2, <4>1 DEF Mended
    <3>4. OrphanGoes(c)
      BY <1>3, <2>4, <3>3
    <3> QED
      BY <2>4, <2>6, <3>4 DEF Early
  <2> QED
    BY <2>2, <2>7, <2>8
<1> QED
  BY <1>1, <1>4, <1>5, <1>6 DEF OrphanStep

(* i3_process_pkg_conflicts begins: the conflicts in the set are errors.   *)
Compares(c) ==
    /\ c.at = "caps" /\ c.todo = db.caps[c.pkg]
    /\ opts.conflicts => {c.pkg} \X (ConflictedBy(c.pkg) \cap inset) \subseteq errors'

(* The steps of i3_process_pkg_requirements.                               *)
LEMMA ReqMoves ==
    ASSUME TypeInv, BottomInv, PathInv, ReplacedInv, ReqStep, ~ Stopped'
    PROVE  \E c \in Call : /\ Moves(c) /\ Top.at = "reqs" /\ ReqGoes(c)
                           /\ c.at = "reqs" \/ Compares(c)
<1>1. \A r : Requires(r) =>
         /\ phase = "process" /\ stack # << >> /\ Top.at = "reqs" /\ r \in Top.todo
         /\ ReqLeft(r) \in Call /\ Alike(ReqLeft(r), Top)
         /\ ReqLeft(r).at = "reqs" /\ ReqLeft(r).todo = Top.todo \ {r}
         /\ ReqLeft(r).failed = Top.failed
  <2> SUFFICES ASSUME NEW r, Requires(r)
               PROVE  /\ phase = "process" /\ stack # << >> /\ Top.at = "reqs" /\ r \in Top.todo
                      /\ ReqLeft(r) \in Call /\ Alike(ReqLeft(r), Top)
                      /\ ReqLeft(r).at = "reqs" /\ ReqLeft(r).todo = Top.todo \ {r}
                      /\ ReqLeft(r).failed = Top.failed
    OBVIOUS
  <2>1. phase = "process" /\ stack # << >> /\ Top.at = "reqs" /\ r \in Top.todo
    BY DEF Requires, Running
  <2>2. Top \in Call
    BY <2>1, StackSteps DEF TypeInv, TypeOK
  <2>3. ReqLeft(r) \in Call /\ Alike(ReqLeft(r), Top)
    BY <2>1, GoingOn
  <2>4. /\ ReqLeft(r).at = "reqs" /\ ReqLeft(r).todo = Top.todo \ {r}
        /\ ReqLeft(r).failed = Top.failed
    BY <2>1, <2>2 DEF ReqLeft, Call
  <2> QED
    BY <2>1, <2>3, <2>4
<1>2. \A c \in Call : Alike(c, Top) => c.pkg = Top.pkg
  BY DEF Alike
<1>3. stack # << >> => Top \in Call /\ Top.pkg \in Pkg /\ Top.pkg \in inset
  BY StackSteps DEF TypeInv, TypeOK, Call, PathInv
<1>4. ASSUME NEW r, SkipReq(r)
      PROVE  \E c \in Call : Moves(c) /\ Top.at = "reqs" /\ ReqGoes(c) /\ c.at = "reqs"
  <2>0. PICK c : c = ReqLeft(r)
    OBVIOUS
  <2>1. /\ Requires(r) /\ ReqMet(r) /\ Replace(c)
        /\ UNCHANGED <<db, opts, phase, inst, args, pms, queue, ictx, interrupted, ok>>
    BY <1>4, <2>0 DEF SkipReq
  <2>2. /\ phase = "process" /\ stack # << >> /\ Top.at = "reqs"
        /\ c \in Call /\ Alike(c, Top) /\ c.at = "reqs" /\ c.todo = Top.todo \ {r}
        /\ c.failed = Top.failed
    BY <1>1, <2>0, <2>1
  <2>3. Moves(c)
    BY <2>1, <2>2 DEF Moves, Stopped, ictx
  <2>4. ~ MetByDb(r) => Provided(inset, r)
    BY <1>3, <2>1, <2>2, DatabaseShape DEF ReqMet, MetByInset, Candidates, Providers, Provided
  <2>5. r \in db.reqs[Top.pkg] /\ MetByDb(r) /\ (black = {} \/ AskedApart) => Met(c.pkg, r)'
    <3>1. PICK p, r1 : p = Top.pkg /\ r1 = r
      OBVIOUS
    <3> SUFFICES ASSUME r1 \in db.reqs[p], MetByDb(r1), black = {} \/ AskedApart
                 PROVE  Met(p, r1)'
      BY <1>2, <2>2, <3>1
    <3>2. PICK q \in inst \ unset : Satisfies(db, q, r1)
      BY <1>3, <2>2, <3>1, FoundInDb
    <3>3. p \in Settled /\ ~ interrupted
      <4>1. Len(stack) \in 1..Len(stack) /\ Top = stack[Len(stack)]
        BY <2>2, StackSteps DEF TypeInv, TypeOK
      <4>2. p \in gray \intersect inset
        BY <3>1, <4>1 DEF PathInv
      <4> QED
        BY <2>1, <2>2, <4>1, <4>2 DEF Settled, Fresh, Stopped, ictx
    <3>4. Spares(p, q)
      BY <3>2, <3>3 DEF ReplacedInv, Spares
    <3>5. MetBySystem(p, r1)
      BY <3>2, <3>4 DEF MetBySystem
    <3> QED
      BY <2>1, <3>5 DEF Met, MetBySystem, Spares, Replaces
  <2>6. ReqGoes(c)
    BY <2>2, <2>4, <2>5 DEF ReqGoes, Needs, Early
  <2> QED
    BY <2>2, <2>3, <2>6
<1>5. ASSUME NEW r, ReqUnmet(r)
      PROVE  \E c \in Call : Moves(c) /\ Top.at = "reqs" /\ ReqGoes(c) /\ c.at = "reqs"
  <2>0. PICK c : c = [ReqLeft(r) EXCEPT !.failed = TRUE]
    OBVIOUS
  <2>1. /\ Requires(r) /\ Replace(c)
        /\ UNCHANGED <<db, opts, phase, inst, args, pms, queue, inset, hand, unset, gray, black,
                   abort, interrupted, ok>>
        /\ errors \subseteq errors'
    BY <1>5, <2>0 DEF ReqUnmet
  <2>2. c \in Call /\ Alike(c, Top)
    BY <1>1, <2>0, <2>1, GoingOn
  <2>3. c.at = "reqs" /\ c.failed
    BY <1>1, <2>0, <2>1 DEF Call
  <2>4. Moves(c)
    BY <1>1, <2>1, <2>2 DEF Moves, Stopped
  <2>5. ReqGoes(c)
    BY <2>3 DEF ReqGoes, Needs
  <2> QED
    BY <1>1, <2>1, <2>2, <2>3, <2>4, <2>5
<1>6. ASSUME NEW r, QuitForReq(r)
      PROVE  FALSE
  BY <1>6 DEF QuitForReq, Stopped
<1>7. ASSUME NEW r, NEW p \in Pkg, MarkForReq(r, p)
      PROVE  \E c \in Call : Moves(c) /\ Top.at = "reqs" /\ ReqGoes(c) /\ c.at = "reqs"
  <2>1. PICK left \in Left(Top.pkg, r), best \in Best(Top.pkg, r) \ {NoPkg} :
            LET call == [ReqLeft(r) EXCEPT !.crossroad = (left # {best})]
            IN  /\ best \in left /\ p \in Pickable(left, best)
                /\ ProcessPackage(call, p, Backtrackable(call))
    BY <1>7 DEF MarkForReq
  <2> DEFINE x == (left # {best})
  <2>0. PICK c : c = [ReqLeft(r) EXCEPT !.crossroad = x]
    OBVIOUS
  <2>2. /\ Requires(r) /\ Candidates(r) \cap inset = {}
        /\ UNCHANGED <<db, opts, phase, inst, args, queue, interrupted, ok>>
    BY <1>7 DEF MarkForReq, ReqMet, MetByInset
  <2>3. p \in Candidates(r) /\ p \in db.avail /\ p \notin inset
    BY <2>1, <2>2, CandidateTypes
  <2>4. x \in BOOLEAN
    OBVIOUS
  <2>5. c \in Call /\ Alike(c, Top) /\ c.at = "reqs" /\ c.todo = Top.todo \ {r} /\ c.failed = Top.failed
    <3> HIDE DEF x
    <3>1. c \in Call /\ Alike(c, Top)
      BY <1>1, <2>0, <2>2, <2>4, GoingOn
    <3>2. c.at = "reqs" /\ c.todo = Top.todo \ {r} /\ c.failed = Top.failed
      BY <1>1, <2>0, <2>2 DEF Call
    <3> QED
      BY <3>1, <3>2
  <2>6. ProcessPackage(c, p, Backtrackable(c))
    BY <2>0, <2>1
  <2>7. Backtrackable(c) \in BOOLEAN
    BY DEF Backtrackable
  <2>8. /\ Moves(c)
        /\ p \notin gray => stack' = Append(Append(Below, c), Frame(p, Backtrackable(c)))
    BY <1>1, <2>2, <2>3, <2>5, <2>6, <2>7, Calling
  <2>9. p \notin gray
    BY <2>3, <2>8 DEF Moves, BottomInv
  <2>10. Len(stack') = Len(stack) + 1 /\ stack'[Len(stack) + 1].pkg = p
    <3> DEFINE f == Frame(p, Backtrackable(c))
    <3>1. f \in Call /\ f.pkg = p
      BY <2>7, FrameType
    <3>2. stack' = Append(Append(Below, c), f)
      BY <2>8, <2>9
    <3> HIDE DEF f
    <3> QED
      BY <1>1, <2>2, <2>5, <3>1, <3>2, StackSteps DEF TypeInv, TypeOK
  <2>11. Satisfies(db, p, r)
    BY <2>3 DEF Candidates, Providers
  <2>12. ReqGoes(c)
    BY <1>1, <2>2, <2>5, <2>10, <2>11 DEF ReqGoes, Needs, Early
  <2> QED
    BY <1>1, <2>2, <2>5, <2>8, <2>12
<1>8. CASE Retry
  <2>0. PICK c : c = Requirements(Top)
    OBVIOUS
  <2>1. /\ Replace(c) /\ Top.at = "reqs" /\ phase = "process" /\ stack # << >>
        /\ UNCHANGED <<db, opts, phase, inst, args, pms, queue, ictx, interrupted, ok>>
    BY <1>8, <2>0 DEF Retry, Running
  <2>2. ~ Stopped
    BY <2>1 DEF Stopped, ictx
  <2>3. c \in Call /\ Alike(c, Top) /\ Top \in Call
    BY <1>3, <2>0, <2>1, GoingOn
  <2>4. c.at = "reqs" /\ c.todo = db.reqs[Top.pkg]
    BY <2>0, <2>2, <2>3 DEF Requirements, Call
  <2>5. Moves(c)
    BY <2>1, <2>2, <2>3 DEF Moves, ictx
  <2>6. ReqGoes(c)
    BY <2>4 DEF ReqGoes, Needs
  <2> QED
    BY <2>1, <2>3, <2>4, <2>5, <2>6
<1>9. CASE ReqsProcessed
  <2>0. PICK c : c = [Top EXCEPT !.at = "caps", !.todo = db.caps[Top.pkg]]
    OBVIOUS
  <2>1. /\ Replace(c) /\ Top.at = "reqs" /\ phase = "process" /\ stack # << >> /\ Top.todo = {}
        /\ UNCHANGED <<db, opts, phase, inst, args, pms, queue, inset, hand, unset, gray,
                       abort, interrupted, ok>>
        /\ black' = IF Top.failed THEN black \union {Top.pkg} ELSE black
        /\ errors' = IF opts.conflicts
                     THEN errors \union ({Top.pkg} \X (ConflictedBy(Top.pkg) \cap inset))
                     ELSE errors
    BY <1>9, <2>0 DEF ReqsProcessed, BeginConflicts, Processed, Running
  <2>2. db.caps[Top.pkg] \subseteq Req
    BY <1>3, <2>1, DatabaseTypes
  <2>3. c \in Call /\ Alike(c, Top)
    BY <2>0, <2>1, <2>2, GoingOn
  <2>4. c.at = "caps" /\ c.todo = db.caps[Top.pkg] /\ c.pkg = Top.pkg
    BY <1>3, <2>0, <2>1 DEF Call
  <2>5. Moves(c)
    BY <2>1, <2>3 DEF Moves, Stopped
  <2>6. ReqGoes(c)
    <3>1. PICK p : p = c.pkg
      OBVIOUS
    <3>2. Top.failed => p \in black'
      BY <2>1, <2>4, <3>1
    <3>3. Top.failed => \A r : Met(p, r)'
      BY <3>2 DEF Met
    <3> QED
      BY <2>1, <3>1, <3>3 DEF ReqGoes, Needs, Early
  <2>7. Compares(c)
    BY <2>1, <2>4 DEF Compares
  <2> QED
    BY <2>1, <2>3, <2>5, <2>6, <2>7
<1> QED
  BY <1>4, <1>5, <1>6, <1>7, <1>8, <1>9 DEF ReqStep

(* The steps of i3_process_pkg_conflicts.                                  *)
LEMMA CnflMoves ==
    ASSUME TypeInv, BottomInv, PathInv, CnflStep, ~ Stopped'
    PROVE  \E c \in Call : /\ Moves(c) /\ Top.at \in {"caps", "cnfls"} /\ CnflGoes(c)
                           /\ c.at \in {"caps", "cnfls"}
<1>1. stack # << >> => Top \in Call /\ Top.pkg \in Pkg /\ Top.pkg \in inset
  BY StackSteps DEF TypeInv, TypeOK, Call, PathInv
<1>2. ASSUME NEW k, LookUpCap(k)
      PROVE  \E c \in Call : Moves(c) /\ Top.at = "caps" /\ CnflGoes(c) /\ c.at = "caps"
  <2>1. PICK S : /\ S = UNION {{<<q, x>> : x \in {y \in Cnfls(q) : CapMatchReq(k, y)}} :
                                   q \in {q \in inst \ unset : \E x \in db.cnfl[q] : x.name = k.name}}
                 /\ Found(k, S)
    BY <1>2 DEF LookUpCap
  <2>2. PICK c : c = [Top EXCEPT !.todo = @ \ {k}, !.missed = S]
    OBVIOUS
  <2>3. /\ Replace(c) /\ phase = "process" /\ stack # << >> /\ Top.at = "caps" /\ Top.missed = {}
        /\ UNCHANGED <<db, opts, phase, inst, args, pms, queue, ictx, interrupted, ok>>
    BY <1>2, <2>1, <2>2 DEF LookUpCap, LookUp, Running, Found
  <2>4. S \subseteq Pkg \X Req
    <3> SUFFICES ASSUME NEW q \in inst, NEW x \in Cnfls(q)
                 PROVE  <<q, x>> \in Pkg \X Req
      BY <2>1
    <3> QED
      BY DatabaseTypes, DatabaseShape
  <2>5. c \in Call /\ Alike(c, Top)
    BY <2>2, <2>3, <2>4, GoingOn
  <2>6. c.at = "caps" /\ c.todo = Top.todo \ {k} /\ c.missed = S
    BY <1>1, <2>2, <2>3, <2>4 DEF Call
  <2>7. Moves(c)
    BY <2>3, <2>5 DEF Moves, Stopped, ictx
  <2>8. \A q \in inst \ unset : \A x \in db.cnfl[q] : CapMatchReq(k, x) => <<q, x>> \in S
    BY <2>1 DEF CapMatchReq, CapXMatchReq, Cnfls
  <2>9. CnflGoes(c)
    BY <2>3, <2>6, <2>8 DEF CnflGoes, Bears, Fears
  <2> QED
    BY <2>3, <2>5, <2>6, <2>7, <2>9
<1>3. ASSUME CapsLookedUp
      PROVE  \E c \in Call : Moves(c) /\ Top.at = "caps" /\ CnflGoes(c) /\ c.at = "cnfls"
  <2>1. PICK c : c = [Top EXCEPT !.at = "cnfls", !.todo = db.cnfl[Top.pkg]]
    OBVIOUS
  <2>2. /\ Replace(c) /\ phase = "process" /\ stack # << >> /\ Top.at = "caps"
        /\ Top.missed = {} /\ Top.todo = {}
        /\ UNCHANGED <<db, opts, phase, inst, args, pms, queue, ictx, interrupted, ok>>
    BY <1>3, <2>1 DEF CapsLookedUp, Running
  <2>3. db.cnfl[Top.pkg] \subseteq Req
    BY <1>1, <2>2, DatabaseTypes
  <2>4. c \in Call /\ Alike(c, Top)
    BY <2>1, <2>2, <2>3, GoingOn
  <2>5. c.at = "cnfls" /\ c.todo = db.cnfl[Top.pkg]
    BY <1>1, <2>1, <2>2 DEF Call
  <2>6. Moves(c)
    BY <2>2, <2>4 DEF Moves, Stopped, ictx
  <2>7. CnflGoes(c)
    BY <2>2, <2>5 DEF CnflGoes, Bears, Fears
  <2> QED
    BY <2>2, <2>4, <2>5, <2>6, <2>7
<1>4. ASSUME NEW k, LookUpCnfl(k)
      PROVE  \E c \in Call : Moves(c) /\ Top.at = "cnfls" /\ CnflGoes(c) /\ c.at = "cnfls"
  <2>1. PICK S : S = {q \in inst \ unset : Satisfies(db, q, k)} \X {k} /\ Found(k, S)
    BY <1>4 DEF LookUpCnfl
  <2>2. PICK c : c = [Top EXCEPT !.todo = @ \ {k}, !.missed = S]
    OBVIOUS
  <2>3. /\ Replace(c) /\ phase = "process" /\ stack # << >> /\ Top.at = "cnfls"
        /\ Top.missed = {} /\ k \in Top.todo
        /\ UNCHANGED <<db, opts, phase, inst, args, pms, queue, ictx, interrupted, ok>>
    BY <1>4, <2>1, <2>2 DEF LookUpCnfl, LookUp, Running, Found
  <2>4. S \subseteq Pkg \X Req
    BY <1>1, <2>1, <2>3, DatabaseShape DEF Call
  <2>5. c \in Call /\ Alike(c, Top)
    BY <2>2, <2>3, <2>4, GoingOn
  <2>6. c.at = "cnfls" /\ c.todo = Top.todo \ {k} /\ c.missed = S
    BY <1>1, <2>2, <2>3, <2>4 DEF Call
  <2>7. Moves(c)
    BY <2>3, <2>5 DEF Moves, Stopped, ictx
  <2>8. CnflGoes(c)
    BY <2>1, <2>3, <2>6 DEF CnflGoes, Bears, Fears
  <2> QED
    BY <2>3, <2>5, <2>6, <2>7, <2>8
<1>5. ASSUME NEW q, NEW x, Conflict(q, x), NEW c, c = ConflictLeft(q, x)
      PROVE  /\ phase = "process" /\ stack # << >> /\ Top.at \in {"caps", "cnfls"}
             /\ q \in Pkg /\ x \in Req /\ <<q, x>> \in Top.missed
             /\ c \in Call /\ Alike(c, Top) /\ c.at = Top.at /\ c.pkg = Top.pkg
             /\ c.todo = Top.todo /\ c.missed = Top.missed \ {<<q, x>>}
             /\ (opts.obsoletes => Handled(c.pkg, q, x)') => CnflGoes(c)
  <2>1. phase = "process" /\ stack # << >> /\ Top.at \in {"caps", "cnfls"} /\ <<q, x>> \in Top.missed
    BY <1>5 DEF Conflict, Running
  <2>2. Top.missed \ {<<q, x>>} \subseteq Top.missed
    OBVIOUS
  <2>3. c \in Call /\ Alike(c, Top)
    BY <1>5, <2>1, <2>2, GoingOn DEF ConflictLeft
  <2>4. /\ q \in Pkg /\ x \in Req /\ c.at = Top.at /\ c.pkg = Top.pkg
        /\ c.todo = Top.todo /\ c.missed = Top.missed \ {<<q, x>>}
    BY <1>1, <1>5, <2>1 DEF ConflictLeft, Call
  <2>5. ASSUME opts.obsoletes => Handled(c.pkg, q, x)'
        PROVE  CnflGoes(c)
    <3> SUFFICES ASSUME opts.obsoletes,
                        NEW q1 \in inst \ unset, NEW x1 \in Cnfls(Top.pkg) \union Cnfls(q1)
                 PROVE  /\ Bears(Top, q1, x1) => Bears(c, q1, x1) \/ Handled(c.pkg, q1, x1)'
                        /\ Fears(Top, q1, x1) => Fears(c, q1, x1) \/ Handled(c.pkg, q1, x1)'
      BY DEF CnflGoes
    <3>1. CASE q1 = q /\ x1 = x
      BY <2>5, <3>1
    <3>2. CASE <<q1, x1>> # <<q, x>>
      BY <2>4, <3>2 DEF Bears, Fears
    <3> QED
      BY <3>1, <3>2
  <2> QED
    BY <2>1, <2>3, <2>4, <2>5
<1>6. ASSUME NEW q, NEW x, ConflictResolved(q, x)
      PROVE  \E c \in Call : Moves(c) /\ Top.at \in {"caps", "cnfls"} /\ CnflGoes(c) /\ c.at = Top.at
  <2>1. PICK c : c = ConflictLeft(q, x)
    OBVIOUS
  <2>2. /\ Conflict(q, x) /\ Resolvable(x) /\ Replace(c)
        /\ UNCHANGED <<db, opts, phase, inst, args, pms, queue, ictx, interrupted, ok>>
    BY <1>6, <2>1 DEF ConflictResolved
  <2>3. /\ phase = "process" /\ stack # << >> /\ Top.at \in {"caps", "cnfls"}
        /\ q \in Pkg /\ c \in Call /\ Alike(c, Top) /\ c.at = Top.at
        /\ (opts.obsoletes => Handled(c.pkg, q, x)') => CnflGoes(c)
    BY <1>5, <2>1, <2>2
  <2>4. Moves(c)
    BY <2>2, <2>3 DEF Moves, Stopped, ictx
  <2>5. opts.obsoletes =>
           \/ x.rel # {} /\ Provided(inset, Opposite(x))
           \/ \E s \in inset : Replaces(s, q) \/ CapsObsolete(s, q)
    <3>1. ASSUME opts.obsoletes, NEW s \in inset, Replacement(q, x, s)
          PROVE  Replaces(s, q) \/ CapsObsolete(s, q)
      <4>1. Newer(s, q) \/ CapsObsolete(s, q)
        BY <3>1 DEF Replacement, Direct, Indirect
      <4> QED
        BY <2>3, <4>1, DatabaseShape, NewerReplaces
    <3>2. CASE Direct(q, x) = {} /\ ~ ByOpposite(q, x)
      <4>1. Satisfies(db, Top.pkg, Opposite(x)) \/ MetByInset(Opposite(x))
        BY <2>2, <3>2 DEF ByOpposite
      <4>2. Provided(inset, Opposite(x))
        BY <1>1, <2>3, <4>1, DatabaseShape DEF Provided, MetByInset, Candidates, Providers
      <4> QED
        BY <2>2, <4>2 DEF Resolvable
    <3> QED
      BY <1>6, <3>1, <3>2 DEF ConflictResolved
  <2>6. opts.obsoletes => Handled(c.pkg, q, x)'
    BY <2>2, <2>5 DEF Handled, Provided, Replaces, CapsObsolete, ictx
  <2> QED
    BY <2>3, <2>4, <2>6
<1>7. ASSUME NEW q, NEW x, ConflictUnresolved(q, x)
      PROVE  \E c \in Call : Moves(c) /\ Top.at \in {"caps", "cnfls"} /\ CnflGoes(c) /\ c.at = Top.at
  <2>1. PICK c : c = ConflictLeft(q, x)
    OBVIOUS
  <2>2. /\ Conflict(q, x) /\ Replace(c) /\ errors' = errors \union {<<Top.pkg, q>>}
        /\ UNCHANGED <<db, opts, phase, inst, args, pms, queue, inset, hand, unset, gray, black,
                       abort, interrupted, ok>>
    BY <1>7, <2>1 DEF ConflictUnresolved, Unresolved
  <2>3. /\ phase = "process" /\ stack # << >> /\ Top.at \in {"caps", "cnfls"}
        /\ c \in Call /\ Alike(c, Top) /\ c.at = Top.at /\ c.pkg = Top.pkg
        /\ (opts.obsoletes => Handled(c.pkg, q, x)') => CnflGoes(c)
    BY <1>5, <2>1, <2>2
  <2>4. Moves(c)
    BY <2>2, <2>3 DEF Moves, Stopped
  <2>5. Handled(c.pkg, q, x)'
    BY <2>2, <2>3 DEF Handled
  <2> QED
    BY <2>3, <2>4, <2>5
<1>8. ASSUME NEW q, NEW x, QuitForConflict(q, x)
      PROVE  FALSE
  BY <1>8 DEF QuitForConflict, Stopped
<1>9. ASSUME NEW q, NEW x, NEW p \in Pkg, MarkForConflict(q, x, p)
      PROVE  \E c \in Call : Moves(c) /\ Top.at \in {"caps", "cnfls"} /\ CnflGoes(c) /\ c.at = Top.at
  <2>1. PICK c : c = ConflictLeft(q, x)
    OBVIOUS
  <2>2. /\ Conflict(q, x) /\ ProcessPackage(c, p, FALSE)
        /\ UNCHANGED <<db, opts, phase, inst, args, queue, interrupted, ok>>
    BY <1>9, <2>1 DEF MarkForConflict, Replacement, Picked, ByOpposite
  <2>3. /\ phase = "process" /\ stack # << >> /\ Top.at \in {"caps", "cnfls"}
        /\ q \in Pkg /\ c \in Call /\ Alike(c, Top) /\ c.at = Top.at
        /\ (opts.obsoletes => Handled(c.pkg, q, x)') => CnflGoes(c)
    BY <1>5, <2>1, <2>2
  <2>4. /\ p \in db.avail /\ p \notin inset
        /\ Newer(p, q) \/ CapsObsolete(p, q)
    <3>1. CASE p \notin inset /\ Replacement(q, x, p)
      BY <3>1 DEF Replacement, Direct, Indirect
    <3>2. CASE Picked(q, x, p) /\ Obsoletes(p, q)
      <4>1. Candidates(Opposite(x)) \cap inset = {}
        BY <3>2 DEF Picked, ByOpposite, MetByInset
      <4>2. p \in db.avail /\ p \notin inset
        BY <3>2, <4>1, CandidateTypes DEF Picked
      <4> QED
        BY <3>2, <4>2 DEF Obsoletes
    <3> QED
      BY <1>9, <3>1, <3>2 DEF MarkForConflict
  <2>5. Moves(c) /\ p \in inset'
    BY <2>2, <2>3, <2>4, Calling
  <2>6. Replaces(p, q) \/ CapsObsolete(p, q)
    BY <2>3, <2>4, DatabaseShape, NewerReplaces
  <2>7. Replaces(p, q)' \/ CapsObsolete(p, q)'
    BY <2>2, <2>6 DEF Replaces, CapsObsolete
  <2>8. opts.obsoletes => Handled(c.pkg, q, x)'
    BY <2>5, <2>7 DEF Handled
  <2> QED
    BY <2>3, <2>5, <2>8
<1> QED
  BY <1>2, <1>3, <1>4, <1>6, <1>7, <1>8, <1>9 DEF CnflStep

CompareGoes(c) ==
    Top.at \in Early \union {"reqs"} => c.at \in Early \union {"reqs"} \/ Compares(c)
Goes(c) == Moves(c) /\ OrphanGoes(c) /\ ReqGoes(c) /\ CompareGoes(c) /\ CnflGoes(c)

CallStep == OrphanStep \/ ReqStep \/ CnflStep

(* A step of the call on top, if it does not end it all.                   *)
LEMMA CallGoes ==
    ASSUME TypeInv, BottomInv, PathInv, ReplacedInv, CallStep, ~ Stopped'
    PROVE  \E c \in Call : Goes(c)
<1>1. CASE OrphanStep
  <2>1. PICK c \in Call : /\ Moves(c) /\ Top.at = "orphans"
                          /\ c.at \in Early \/ (c.at = "reqs" /\ c.todo = db.reqs[c.pkg])
                          /\ OrphanGoes(c)
    BY <1>1, OrphanMoves
  <2>2. c.pkg = Top.pkg
    BY <2>1 DEF Moves, Alike
  <2>3. ReqGoes(c)
    BY <2>1, <2>2 DEF ReqGoes, Needs
  <2>4. CompareGoes(c)
    BY <2>1 DEF CompareGoes
  <2>5. CnflGoes(c)
    BY <2>1 DEF CnflGoes, Bears, Fears
  <2> QED
    BY <2>1, <2>3, <2>4, <2>5 DEF Goes
<1>2. CASE ReqStep
  <2>1. PICK c \in Call : /\ Moves(c) /\ Top.at = "reqs" /\ ReqGoes(c)
                          /\ c.at = "reqs" \/ Compares(c)
    BY <1>2, ReqMoves
  <2>2. CompareGoes(c)
    BY <2>1 DEF CompareGoes
  <2>3. CnflGoes(c)
    BY <2>1 DEF CnflGoes, Bears, Fears
  <2>4. OrphanGoes(c)
    BY <2>1 DEF OrphanGoes, Misses
  <2> QED
    BY <2>1, <2>2, <2>3, <2>4 DEF Goes
<1>3. CASE CnflStep
  <2>1. PICK c \in Call : /\ Moves(c) /\ Top.at \in {"caps", "cnfls"} /\ CnflGoes(c)
                          /\ c.at \in {"caps", "cnfls"}
    BY <1>3, CnflMoves
  <2>2. CompareGoes(c)
    BY <2>1 DEF CompareGoes, Early
  <2>3. ReqGoes(c)
    BY <2>1 DEF ReqGoes, Needs, Early
  <2>4. OrphanGoes(c)
    BY <2>1 DEF OrphanGoes, Misses
  <2> QED
    BY <2>1, <2>2, <2>3, <2>4 DEF Goes
<1> QED
  BY <1>1, <1>2, <1>3 DEF CallStep

LEMMA CallKinds ==
    ASSUME TypeInv, CallStep
    PROVE  Stays \/ \E p \in Pkg : Enters(p)
<1>1. ASSUME NEW p, Enters(p) PROVE \E q \in Pkg : Enters(q)
  BY <1>1, DatabaseTypes DEF Enters
<1> QED
  BY <1>1, LookingSteps, MarkingSteps DEF CallStep, OrphanStep, ReqStep, CnflStep

LEMMA StepCases ==
    ASSUME [Next]_vars
    PROVE  \/ Outer \/ CallStep \/ ProcessObsoletes
           \/ PackageDone \/ Rollback \/ NoRollback
           \/ \E m \in Missing : NothingToFree(m[1], m[2])
           \/ UNCHANGED vars
  BY Kinds DEF CallStep

-----------------------------------------------------------------------------
(* The shape of what is kept.                                              *)

(* The caller of what is done still has what it had to see to; the caller  *)
(* of what is rolled back has failed, if it was to meet a requirement.     *)
LEMMA ReturnLeaves ==
    ASSUME stack \in Seq(Call), stack # << >>, Len(stack) > 1, NEW rc \in {1, -1}, Return(rc)
    PROVE  LET x == stack'[Len(stack) - 1]
               y == stack[Len(stack) - 1]
           IN  /\ rc = 1 \/ y.at # "reqs" => x.todo = y.todo /\ x.failed = y.failed
               /\ rc = -1 /\ y.at = "reqs" => x.failed
<1> DEFINE n == Len(stack)
           y == stack[n - 1]
           known == IF Top.pkg \in hand THEN y
                    ELSE [y EXCEPT !.marked = y.marked \union Top.marked,
                                   !.obsoleted = y.obsoleted \union Top.obsoleted]
           x == Returned(known, rc)
<1>1. /\ n \in Nat \ {0} /\ n > 1 /\ Top \in Call
      /\ \A i \in 1..n : stack[i] \in Call
  BY StackSteps
<1>2. n - 1 \in 1..n /\ n - 1 \in 0..n /\ y \in Call
  BY <1>1
<1>3. ASSUME NEW m \in 0..n
      PROVE  /\ SubSeq(stack, 1, m) \in Seq(Call) /\ Len(SubSeq(stack, 1, m)) = m
             /\ \A i \in 1..m : SubSeq(stack, 1, m)[i] = stack[i]
  BY <1>1
<1>4. /\ Below \in Seq(Call) /\ Len(Below) = n - 1
      /\ \A i \in 1..(n - 1) : Below[i] = stack[i]
  BY <1>2, <1>3, Zenon DEF Below
<1>5. known \in Call /\ known.at = y.at /\ known.todo = y.todo /\ known.failed = y.failed
  BY <1>1, <1>2 DEF Call
<1>6. stack' = [Below EXCEPT ![n - 1] = x]
  <2>1. n - 1 \in 1..(n - 1)
    BY <1>1
  <2>2. Below[Len(Below)] = y
    BY <1>4, <2>1
  <2> QED
    BY <1>1, <1>4, <2>2, SMTT(30) DEF Return
<1> HIDE DEF known
<1>7. /\ rc = 1 \/ y.at # "reqs" => x.todo = y.todo /\ x.failed = y.failed
      /\ rc = -1 /\ y.at = "reqs" => x.failed
  <2>1. CASE known.at # "reqs" \/ rc = 1
    <3>1. x = known
      BY <2>1 DEF Returned
    <3>2. rc = 1 => ~ rc = -1
      OBVIOUS
    <3> QED
      BY <1>5, <2>1, <3>1, <3>2
  <2>2. CASE known.at = "reqs" /\ rc # 1
    BY <1>5, <2>2 DEF Returned, Call
  <2> QED
    BY <1>5, <2>1, <2>2
<1> HIDE DEF x
<1>8. stack'[n - 1] = x
  <2>1. n - 1 \in 1..(n - 1)
    BY <1>1
  <2> QED
    BY <1>4, <1>6, <2>1
<1> QED
  BY <1>7, <1>8

LEMMA BottomStep == IInv /\ BottomInv /\ [Next]_vars => BottomInv'
<1> SUFFICES ASSUME IInv, BottomInv, [Next]_vars
             PROVE  BottomInv'
  OBVIOUS
<1> DEFINE n == Len(stack)
           First == stack # << >> => stack[1].pkg \in hand
           Taken == \A k \in 1..Len(stack) : \A q \in stack[k].obsoleted : q \in inst /\ opts.upgrade
           None == ~ opts.upgrade => unset = {}
           New == Transacting /\ opts.upgrade => inset \intersect inst = {}
           Gray == ~ Stopped => gray \subseteq inset
           Pardoned == phase = "install" => \A e \in errors : ~ Fatal(e)
<1>1. First /\ Taken /\ None /\ New /\ Gray /\ Pardoned
  BY DEF BottomInv
<1>2. First' /\ Taken' /\ None' /\ New' /\ Gray' /\ Pardoned' => BottomInv'
  BY DEF BottomInv
<1>3. TypeInv /\ PhaseInv /\ HandInv /\ PathInv
  BY DEF IInv, Marks
<1>4. /\ TypeInv' /\ PhaseInv' /\ HandInv' /\ PathInv'
  BY IStep DEF IInv, Marks
<1>5. stack \in Seq(Call) /\ (stack # << >> => n \in Nat \ {0} /\ Top = stack[n])
  BY <1>3, StackSteps DEF TypeInv, TypeOK
<1>6. CASE Outer
  <2>1. CASE \E p \in Pkg : Begins(p)
    <3>1. PICK p \in Pkg : Begins(p)
      BY <2>1
    <3>2. /\ stack = << >> /\ stack' = <<Frame(p, FALSE)>> /\ gray' = gray \union {p}
          /\ p \in queue /\ phase = "process"
          /\ UNCHANGED <<db, opts, phase, inst, args, pms, inset, hand, unset, black, errors, abort,
                   interrupted, ok>>
      BY <3>1 DEF Begins, InstallPackage, Stopped
    <3>3. p \in hand /\ p \in inset
      BY <1>3, <3>2 DEF HandInv, Transacting
    <3>4. Len(stack') = 1 /\ stack'[1].pkg = p /\ stack'[1].obsoleted = {}
      BY <3>2 DEF Frame
    <3>5. Taken'
      <4>1. \A k \in 1..Len(stack') : k = 1
        BY <3>4
      <4> QED
        BY <3>4, <4>1
    <3> QED
      BY <1>1, <1>2, <3>2, <3>3, <3>4, <3>5 DEF Transacting, Stopped
  <2>2. CASE Interrupt
    BY <1>1, <1>2, <2>2 DEF Interrupt, ictx, Transacting, Stopped
  <2>3. CASE stack = << >> /\ stack' = << >>
    <3>1. First' /\ Taken'
      BY <2>3
    <3>2. ASSUME NEW group \in SUBSET pms, MarkGroup(group)
          PROVE  None' /\ New' /\ Gray' /\ Pardoned'
      <4>1. /\ UNCHANGED <<db, opts, inst, unset, gray, errors>> /\ phase' = "process"
            /\ inset' = {p \in group : Installable(p)} /\ gray = {} /\ group \subseteq Pkg
        BY <1>3, <3>2, DatabaseShape DEF MarkGroup, PhaseInv, Idle, TypeInv, TypeOK
      <4>2. opts.upgrade => inset' \intersect inst = {}
        BY <1>3, <4>1, NotInstalledYet
      <4> QED
        BY <1>1, <4>1, <4>2
    <3>3. ASSUME RunInstall PROVE None' /\ New' /\ Gray' /\ Pardoned'
      <4>1. /\ UNCHANGED <<opts, inst, inset, unset, gray, errors, abort, interrupted>>
            /\ phase = "process" /\ \A e \in errors : ~ Fatal(e)
        BY <3>3 DEF RunInstall, Resolved, ictx
      <4>2. Pardoned'
        BY <4>1 DEF Fatal
      <4>3. None' /\ New' /\ Gray'
        BY <1>1, <4>1 DEF Transacting, Stopped
      <4> QED
        BY <4>2, <4>3
    <3>4. ASSUME GroupFails \/ NotInstalled \/ Installed
          PROVE  None' /\ New' /\ Gray' /\ Pardoned'
      <4>1. unset' = {} /\ inset' = {} /\ gray' = {} /\ phase' = "mark"
        BY <3>4 DEF GroupFails, NotInstalled, Installed, Reset
      <4> QED
        BY <4>1
    <3>5. ASSUME \/ \E wanted \in Requests : Resolve(wanted)
                 \/ \E p \in Pkg : SkipArgument(p) \/ InstallPackage(p)
                 \/ MarkDone
          PROVE  None' /\ New' /\ Gray' /\ Pardoned'
      <4>1. UNCHANGED <<opts, inst, inset, unset, errors, abort, interrupted>>
        BY <3>5 DEF Resolve, SkipArgument, InstallPackage, MarkDone, ictx
      <4>2. phase' # "install"
        BY <3>5 DEF Resolve, SkipArgument, InstallPackage, MarkDone
      <4>3. phase' = "process" => phase = "process"
        BY <3>5 DEF Resolve, SkipArgument, InstallPackage, MarkDone
      <4>4. gray' = gray
        <5>1. ASSUME NEW p \in Pkg, InstallPackage(p) PROVE gray' = gray
          BY <2>3, <5>1 DEF InstallPackage
        <5> QED
          BY <3>5, <5>1 DEF Resolve, SkipArgument, MarkDone, ictx
      <4>5. None' /\ Pardoned'
        BY <1>1, <4>1, <4>2
      <4>6. New' /\ Gray'
        BY <1>1, <4>1, <4>2, <4>3, <4>4 DEF Transacting, Stopped
      <4> QED
        BY <4>5, <4>6
    <3>6. ~ Interrupt => None' /\ New' /\ Gray' /\ Pardoned'
      BY <1>6, <3>2, <3>3, <3>4, <3>5 DEF Outer
    <3> QED
      BY <1>2, <2>2, <3>1, <3>6
  <2> QED
    BY <1>3, <1>6, <2>1, <2>2, <2>3, OuterSteps
<1>7. CASE CallStep
  <2>1. CASE Stopped'
    <3>1. CASE Stays
      <4>1. /\ n \in Nat \ {0} /\ Len(stack') = n
            /\ \A i \in 1..n : Tells(stack'[i], stack[i])
        BY <1>3, <3>1, StaysShape
      <4>2. UNCHANGED <<db, opts, phase, inst, hand, inset, unset>> /\ phase = "process" /\ stack # << >>
        BY <3>1 DEF Stays
      <4>3. First' /\ Taken'
        <5>1. 1 \in 1..n
          BY <4>1
        <5> QED
          BY <1>1, <4>1, <4>2, <5>1 DEF Tells
      <4> QED
        BY <1>1, <1>2, <2>1, <4>2, <4>3 DEF Transacting
    <3>2. ASSUME NEW p, Enters(p) PROVE FALSE
      BY <2>1, <3>2 DEF Enters, Stopped
    <3> QED
      BY <1>3, <1>7, <3>1, <3>2, CallKinds
  <2>2. CASE ~ Stopped'
    <3>1. PICK c \in Call : Moves(c)
      BY <1>3, <1>7, <2>2, CallGoes DEF Goes, IInv
    <3>2. /\ n \in Nat \ {0} /\ Top = stack[n] /\ Alike(c, Top)
          /\ \A i \in 1..(n - 1) : stack'[i] = stack[i]
          /\ stack'[n] = c
          /\ \/ Len(stack') = n /\ UNCHANGED <<inset, hand, gray>>
             \/ /\ Len(stack') = n + 1 /\ stack'[n + 1].obsoleted = {}
                /\ Calls(c, stack'[n + 1].pkg)
      BY <1>3, <3>1, MovesShape DEF Moves
    <3>3. UNCHANGED <<db, opts, phase, inst, unset>> /\ ~ Stopped /\ phase = "process" /\ stack # << >>
      BY <3>1 DEF Moves
    <3>4. hand \subseteq hand' /\ stack'[1].pkg = stack[1].pkg
      <4>1. \A k \in Nat \ {0} : 1 \in 1..(k - 1) \/ k = 1
        OBVIOUS
      <4>2. 1 \in 1..(n - 1) \/ n = 1
        BY <3>2, <4>1
      <4> QED
        BY <3>2, <4>2 DEF Alike, Calls
    <3>5. Taken'
      <4>1. \A i \in 1..Len(stack') : i \in 1..(n - 1) \/ i = n \/ (i = n + 1 /\ Len(stack') = n + 1)
        BY <3>2
      <4>2. \A i \in 1..(n - 1) : i \in 1..n
        BY <3>2
      <4>3. n \in 1..n
        BY <3>2
      <4> QED
        BY <1>1, <3>2, <3>3, <4>1, <4>2, <4>3 DEF Alike
    <3>6. New' /\ Gray'
      BY <1>1, <3>2, <3>3 DEF Calls, Transacting
    <3> QED
      BY <1>1, <1>2, <3>3, <3>4, <3>5, <3>6
  <2> QED
    BY <2>1, <2>2
<1>8. CASE ProcessObsoletes
  <2>1. PICK old : Clears(old)
    BY <1>3, <1>8, Clearing
  <2>2. /\ n \in Nat \ {0} /\ Len(stack') = n
        /\ \A i \in 1..(n - 1) : stack'[i] = stack[i]
        /\ stack'[n].pkg = Top.pkg /\ stack'[n].obsoleted = old /\ Top = stack[n]
    BY <1>3, <2>1, ClearShape
  <2>3. /\ UNCHANGED <<db, opts, phase, inst, inset, hand, gray, abort, interrupted>>
        /\ unset' = unset \union old /\ phase = "process" /\ stack # << >>
        /\ old = {q \in inst \ unset : Replaces(Top.pkg, q) /\ opts.upgrade /\ ~ interrupted}
    BY <2>1 DEF Clears
  <2>4. Taken'
    <3>1. \A i \in 1..n : (i \in 1..(n - 1) /\ i \in 1..n) \/ i = n
      BY <2>2
    <3> QED
      BY <1>1, <2>2, <2>3, <3>1
  <2>5. First'
    <3>1. 1 \in 1..(n - 1) \/ n = 1
      BY <2>2
    <3> QED
      BY <1>1, <2>2, <2>3, <3>1
  <2> QED
    BY <1>1, <1>2, <2>3, <2>4, <2>5 DEF Transacting, Stopped
<1>9. ASSUME stack # << >>, Top.at # "obsoletes", NEW rc \in {1, -1}, Return(rc),
             UNCHANGED <<opts, inst, hand>>
      PROVE  First' /\ Taken'
  <2>1. /\ n \in Nat \ {0} /\ Top = stack[n]
        /\ \/ n = 1 /\ stack' = << >>
           \/ /\ n > 1 /\ Len(stack') = n - 1
              /\ \A i \in 1..(n - 2) : stack'[i] = stack[i]
              /\ Remembers(stack'[n - 1], stack[n - 1])
    BY <1>3, <1>9, PopShape
  <2>2. CASE /\ n > 1 /\ Len(stack') = n - 1
             /\ \A i \in 1..(n - 2) : stack'[i] = stack[i]
             /\ Remembers(stack'[n - 1], stack[n - 1])
    <3>1. /\ \A i \in 1..(n - 1) : (i \in 1..(n - 2) \/ i = n - 1) /\ i \in 1..n
          /\ n \in 1..n /\ 1 \in 1..(n - 1) /\ n - 1 \in 1..n
      BY <2>1, <2>2
    <3>2. First'
      BY <1>1, <1>9, <2>2, <3>1 DEF Remembers
    <3>3. Taken'
      BY <1>1, <1>9, <2>1, <2>2, <3>1 DEF Remembers
    <3> QED
      BY <3>2, <3>3
  <2> QED
    BY <2>1, <2>2
<1>10. CASE PackageDone
  <2>1. Returns
    BY <1>3, <1>10, DoneReturns
  <2>2. First' /\ Taken'
    BY <1>9, <2>1 DEF Returns
  <2> QED
    BY <1>1, <1>2, <2>1, <2>2 DEF Returns, Transacting, Stopped
<1>11. CASE Rollback
  <2>1. /\ stack # << >> /\ Top.at = "reqs" /\ Return(-1) /\ phase = "process"
        /\ UNCHANGED <<db, opts, phase, inst, hand, abort, interrupted>> /\ unset' = unset \ Top.obsoleted
        /\ inset' = inset \ Top.marked /\ gray' = gray \ Top.marked
    BY <1>11 DEF Rollback, Processed, Running
  <2>2. First' /\ Taken'
    BY <1>9, <2>1
  <2> QED
    BY <1>1, <1>2, <2>1, <2>2 DEF Transacting, Stopped
<1>12. CASE NoRollback \/ \E m \in Missing : NothingToFree(m[1], m[2])
  <2>1. /\ stack' = << >> /\ phase = "process" /\ phase' # "install"
        /\ UNCHANGED <<db, opts, inst, hand, inset, gray, unset, abort, interrupted>>
    BY <1>12 DEF NoRollback, Processed, NothingToFree, Conflict, Running, ictx
  <2> QED
    BY <1>1, <1>2, <2>1 DEF Transacting, Stopped
<1>13. CASE UNCHANGED vars
  BY <1>13 DEF vars, ictx, BottomInv, Transacting, Stopped, Fatal
<1> QED
  BY <1>6, <1>7, <1>8, <1>10, <1>11, <1>12, <1>13, StepCases

-----------------------------------------------------------------------------
(* No requirement is lost.                                                 *)

Live == Trying /\ (black = {} \/ AskedApart)

(* The steps of the call on top that add none.                             *)
LEMMA UnmetStays ==
    ASSUME IInv, UnmetInv, Live, NEW n \in Nat \ {0}, n = Len(stack), Len(stack') = n,
           NEW t, t = stack[n].pkg,
           UNCHANGED <<db, opts, inst, queue, inset, gray>>,
           errors \subseteq errors', black \subseteq black',
           \A j \in 1..(n - 1) : stack'[j] = stack[j],
           stack'[n].pkg = t, stack'[n].marked = stack[n].marked,
           \A r \in db.reqs[t] : Needs(stack[n], r) =>
                Needs(stack'[n], r) \/ Met(t, r)' \/ Provided(inset, r)
    PROVE  UnmetInv'
<1>1. PathInv /\ inset \subseteq Pkg
  BY DatabaseShape DEF IInv, Marks
<1>2. /\ \A j \in 1..n : j = n \/ (j \in 1..(n - 1) /\ j < n)
      /\ n \in 1..n /\ \A j \in 1..(n - 1) : j \in 1..n
      /\ \A i, j \in 1..n : j \in i..n => j \in 1..n
  OBVIOUS
<1>3. \A j \in 1..n : stack'[j].pkg = stack[j].pkg /\ stack'[j].marked = stack[j].marked
  BY <1>2
<1>4. Levels' = Levels /\ AskedApart' = AskedApart
  BY DEF Levels, AskedApart, Particle
<1>5. \A i \in 1..(n + 1) : i = n + 1 \/ i \in 1..n
  OBVIOUS
<1>6. \A i \in Levels : i \in 1..(n + 1)
  BY DEF Levels
<1>7. \A i \in 1..(n + 1) : \A j \in i..n : j \in 1..n
  OBVIOUS
<1>8. \A i \in 1..(n + 1) : \A q : Stands(q, i)' <=> Stands(q, i)
  BY <1>3, <1>7 DEF Stands
<1> SUFFICES ASSUME NEW i \in Levels, NEW p \in Pkg, Stands(p, i), NEW r \in db.reqs[p]
             PROVE  Heeded(i, p, r)'
  BY <1>4, <1>6, <1>8 DEF UnmetInv
<1>9. Heeded(i, p, r)
  BY DEF UnmetInv, Live
<1>10. i \in 1..(n + 1)
  BY <1>6
<1>11. CASE Met(p, r)
  BY <1>11 DEF Heeded, Met, MetBySystem, Spares, Replaces
<1>12. CASE p \in queue \ gray
  BY <1>12 DEF Heeded
<1>13. ASSUME NEW q \in Pkg, Stands(q, i), Satisfies(db, q, r)
       PROVE  Heeded(i, p, r)'
  BY <1>8, <1>10, <1>13 DEF Heeded
<1>14. ASSUME NEW j \in 1..n, stack[j].pkg = p, Needs(stack[j], r)
       PROVE  Heeded(i, p, r)'
  <2>1. CASE j \in 1..(n - 1)
    <3>1. stack'[j].pkg = p /\ Needs(stack'[j], r)
      BY <1>14, <2>1
    <3> QED
      BY <3>1 DEF Heeded
  <2>2. CASE j = n
    <3>1. p = t
      BY <1>14, <2>2
    <3>2. CASE Needs(stack'[n], r)
      BY <1>2, <3>1, <3>2 DEF Heeded
    <3>3. CASE Met(t, r)'
      BY <3>1, <3>3 DEF Heeded
    <3>4. CASE Provided(inset, r)
      <4>1. CASE i = n + 1
        <5>1. PICK q \in inset : Satisfies(db, q, r)
          BY <3>4 DEF Provided
        <5>2. Stands(q, i)
          BY <4>1 DEF Stands
        <5> QED
          BY <1>1, <1>13, <5>1, <5>2
      <4>2. CASE i \in 1..n
        <5>1. n \in i..n /\ p \in stack[n].marked
          BY <1>1, <1>2, <3>1, <4>2 DEF PathInv
        <5> QED
          BY <5>1 DEF Stands
      <4> QED
        BY <1>5, <1>10, <4>1, <4>2
    <3> QED
      BY <1>14, <2>2, <3>1, <3>2, <3>3, <3>4
  <2> QED
    BY <1>2, <2>1, <2>2
<1>15. CASE 1 < i /\ i <= n /\ Awaits(i - 1, p, r)
  <2>1. i - 1 \in 1..(n - 1) /\ i \in 1..n /\ i - 1 + 1 = i
    BY <1>10, <1>15
  <2>2. stack'[i - 1] = stack[i - 1] /\ stack'[i].pkg = stack[i].pkg
    BY <1>3, <2>1
  <2>3. Awaits(i - 1, p, r)'
    BY <1>15, <2>1, <2>2 DEF Awaits
  <2> QED
    BY <1>15, <2>3 DEF Heeded
<1> QED
  BY <1>9, <1>11, <1>12, <1>13, <1>14, <1>15 DEF Heeded

(* The steps of the call on top that add the call of q.                    *)
LEMMA UnmetCalls ==
    ASSUME IInv, UnmetInv, Live, NEW n \in Nat \ {0}, n = Len(stack), Len(stack') = n + 1,
           NEW t, t = stack[n].pkg, NEW s \in Pkg, s = stack'[n + 1].pkg,
           UNCHANGED <<db, opts, inst, queue>>,
           inset' = inset \union {s}, gray' = gray \union {s}, s \in inset => ~ AskedApart,
           errors \subseteq errors', black \subseteq black',
           \A j \in 1..(n - 1) : stack'[j] = stack[j],
           stack'[n].pkg = t, stack'[n].marked = stack[n].marked,
           stack'[n + 1].marked = {s}, stack'[n + 1].at = "obsoletes",
           \A r \in db.reqs[t] : Needs(stack[n], r) =>
                \/ Needs(stack'[n], r) \/ Met(t, r)' \/ Provided(inset, r)
                \/ stack'[n].at = "reqs" /\ Satisfies(db, s, r)
    PROVE  UnmetInv'
<1>1. PathInv /\ inset \subseteq Pkg
  BY DatabaseShape DEF IInv, Marks
<1>2. /\ \A j \in 1..n : j = n \/ (j \in 1..(n - 1) /\ j < n)
      /\ n \in 1..n /\ \A j \in 1..(n - 1) : j \in 1..n
      /\ \A j \in 1..n : j \in 1..(n + 1)
      /\ n + 1 \in 1..(n + 1) /\ n \in 1..(n + 1)
      /\ \A j \in 1..(n + 1) : j = n + 1 \/ j \in 1..n
  OBVIOUS
<1>3. \A j \in 1..n : stack'[j].pkg = stack[j].pkg /\ stack'[j].marked = stack[j].marked
  BY <1>2
<1>4. AskedApart' = AskedApart
  BY DEF AskedApart, Particle
<1>5. \A i \in 1..(n + 1) : /\ \A j \in i..n : j \in 1..n /\ j \in i..(n + 1)
                            /\ \A j \in i..(n + 1) : j = n + 1 \/ j \in i..n
                            /\ n + 1 \in i..(n + 1)
  OBVIOUS
<1>6. \A i \in 1..(n + 1) : \A q : Stands(q, i)' <=> Stands(q, i) /\ q # s
  BY <1>3, <1>5 DEF Stands
<1>7. \A q : Stands(q, n + 2)' <=> q \in inset'
  <2>1. \A k : k \notin (n + 2)..(n + 1)
    OBVIOUS
  <2> QED
    BY <2>1 DEF Stands
<1>8. \A q : Stands(q, n + 1) <=> q \in inset
  <2>1. \A k : k \notin (n + 1)..n
    OBVIOUS
  <2> QED
    BY <2>1 DEF Stands
<1>9. \A i : i \in Levels' => i = n + 2 \/ (AskedApart /\ 1 < i /\ i \in 1..(n + 1) /\ i \in Levels)
  <2> SUFFICES ASSUME NEW i, i \in Levels'
               PROVE  i = n + 2 \/ (AskedApart /\ 1 < i /\ i \in 1..(n + 1) /\ i \in Levels)
    OBVIOUS
  <2>1. i \in 1..(n + 2) /\ (i = n + 2 \/ (AskedApart /\ i > 1))
    BY <1>4 DEF Levels
  <2>2. i = n + 2 \/ i \in 1..(n + 1)
    BY <2>1
  <2> QED
    BY <2>1, <2>2 DEF Levels
<1>10. n + 1 \in Levels
  BY <1>2 DEF Levels
<1>11. ASSUME NEW i \in Levels', NEW p \in Pkg, Stands(p, i)', NEW r \in db.reqs[p], p # s
       PROVE  \E k \in Levels : /\ Heeded(k, p, r) /\ Stands(p, k)
                                /\ \/ k = n + 1 /\ i = n + 2
                                   \/ k = i /\ i \in 1..(n + 1) /\ AskedApart /\ 1 < i
  <2>1. CASE i = n + 2
    <3>1. Stands(p, n + 1)
      BY <1>7, <1>8, <1>11, <2>1
    <3>2. Heeded(n + 1, p, r)
      BY <1>10, <1>11, <3>1 DEF UnmetInv, Live
    <3> QED
      BY <1>10, <2>1, <3>1, <3>2
  <2>2. CASE AskedApart /\ 1 < i /\ i \in 1..(n + 1) /\ i \in Levels
    <3>1. Stands(p, i)
      BY <1>6, <1>11, <2>2
    <3>2. Heeded(i, p, r)
      BY <1>11, <2>2, <3>1 DEF UnmetInv, Live
    <3> QED
      BY <2>2, <3>1, <3>2
  <2> QED
    BY <1>9, <1>11, <2>1, <2>2
<1> SUFFICES ASSUME NEW i \in Levels', NEW p \in Pkg, Stands(p, i)', NEW r \in db.reqs[p]
             PROVE  Heeded(i, p, r)'
  BY DEF UnmetInv
<1>12. CASE p = s
  <2>1. i = n + 2
    BY <1>6, <1>9, <1>12
  <2>2. stack'[n + 1].pkg = p /\ Needs(stack'[n + 1], r)
    BY <1>12 DEF Needs, Early
  <2> QED
    BY <1>2, <2>2 DEF Heeded
<1>13. CASE p # s
  <2>1. PICK k \in Levels : /\ Heeded(k, p, r) /\ Stands(p, k)
                            /\ \/ k = n + 1 /\ i = n + 2
                               \/ k = i /\ i \in 1..(n + 1) /\ AskedApart /\ 1 < i
    BY <1>11, <1>13
  <2>2. k \in 1..(n + 1)
    BY <2>1
  <2>3. \A q \in Pkg : Stands(q, k) => Stands(q, i)'
    <3>1. CASE k = n + 1 /\ i = n + 2
      BY <1>7, <1>8, <3>1
    <3>2. CASE k = i /\ i \in 1..(n + 1) /\ AskedApart /\ 1 < i
      BY <1>6, <3>2 DEF Stands
    <3> QED
      BY <2>1, <3>1, <3>2
  <2>4. CASE Met(p, r)
    BY <2>4 DEF Heeded, Met, MetBySystem, Spares, Replaces
  <2>5. CASE p \in queue \ gray
    BY <1>13, <2>5 DEF Heeded
  <2>6. ASSUME NEW q \in Pkg, Stands(q, k), Satisfies(db, q, r)
        PROVE  Heeded(i, p, r)'
    BY <2>3, <2>6 DEF Heeded
  <2>7. ASSUME NEW j \in 1..n, stack[j].pkg = p, Needs(stack[j], r)
        PROVE  Heeded(i, p, r)'
    <3>1. CASE j \in 1..(n - 1)
      <4>1. stack'[j].pkg = p /\ Needs(stack'[j], r)
        BY <2>7, <3>1
      <4> QED
        BY <1>2, <4>1 DEF Heeded
    <3>2. CASE j = n
      <4>1. p = t
        BY <2>7, <3>2
      <4>2. k = n + 1
        <5>1. CASE k \in 1..n
          <6>1. n \in k..n /\ p \in stack[n].marked
            BY <1>1, <1>2, <4>1, <5>1 DEF PathInv
          <6> QED
            BY <2>1, <6>1 DEF Stands
        <5> QED
          BY <1>2, <2>2, <5>1
      <4>3. CASE Needs(stack'[n], r)
        BY <1>2, <4>1, <4>3 DEF Heeded
      <4>4. CASE Met(t, r)'
        BY <4>1, <4>4 DEF Heeded
      <4>5. CASE Provided(inset, r)
        <5>1. PICK q \in inset : Satisfies(db, q, r)
          BY <4>5 DEF Provided
        <5>2. Stands(q, k)
          BY <1>8, <4>2
        <5> QED
          BY <1>1, <2>6, <5>1, <5>2
      <4>6. CASE stack'[n].at = "reqs" /\ Satisfies(db, s, r)
        <5>1. CASE i = n + 2
          <6>1. Stands(s, i)'
            BY <1>7, <5>1
          <6> QED
            BY <4>6, <6>1 DEF Heeded
        <5>2. CASE i = n + 1 /\ 1 < i
          <6>1. i - 1 = n /\ i <= n + 1 /\ n + 1 = i
            BY <5>2
          <6>2. Awaits(n, p, r)'
            BY <4>1, <4>6 DEF Awaits
          <6> QED
            BY <5>2, <6>1, <6>2 DEF Heeded
        <5> QED
          BY <2>1, <4>2, <5>1, <5>2
      <4> QED
        BY <2>7, <3>2, <4>1, <4>3, <4>4, <4>5, <4>6
    <3> QED
      BY <1>2, <3>1, <3>2
  <2>8. CASE 1 < k /\ k <= n /\ Awaits(k - 1, p, r)
    <3>1. k = i /\ k - 1 \in 1..(n - 1) /\ k \in 1..n /\ k - 1 + 1 = k /\ k <= n + 1
      BY <2>1, <2>2, <2>8
    <3>2. stack'[k - 1] = stack[k - 1] /\ stack'[k].pkg = stack[k].pkg
      BY <1>3, <3>1
    <3>3. Awaits(k - 1, p, r)'
      BY <2>8, <3>1, <3>2 DEF Awaits
    <3> QED
      BY <2>8, <3>1, <3>3 DEF Heeded
  <2> QED
    BY <2>1, <2>4, <2>5, <2>6, <2>7, <2>8 DEF Heeded
<1> QED
  BY <1>12, <1>13

(* A package is done.                                                      *)
LEMMA UnmetReturns ==
    ASSUME IInv, UnmetInv, Live, PackageDone
    PROVE  UnmetInv'
<1>1. TypeInv /\ PathInv /\ ApartInv /\ inset \subseteq Pkg
  BY DatabaseShape DEF IInv, Marks
<1>2. /\ stack \in Seq(Call) /\ stack # << >> /\ Top.at # "obsoletes" /\ Return(1)
      /\ UNCHANGED <<db, opts, inst, hand, queue, inset, gray>>
      /\ black \subseteq black'
  BY <1>1, DoneReturns DEF Returns, TypeInv, TypeOK
<1>3. errors \subseteq errors'
  BY DEF PackageDone, ConflictsProcessed, BeginConflicts, ictx
<1>4. PICK n : n = Len(stack)
  OBVIOUS
<1>5. PICK t : t = stack[n].pkg
  OBVIOUS
<1>6. /\ n \in Nat \ {0} /\ Top = stack[n]
      /\ \/ n = 1 /\ stack' = << >>
         \/ /\ n > 1 /\ Len(stack') = n - 1
            /\ \A j \in 1..(n - 2) : stack'[j] = stack[j]
            /\ Remembers(stack'[n - 1], stack[n - 1])
            /\ stack'[n - 1].todo = stack[n - 1].todo /\ stack'[n - 1].failed = stack[n - 1].failed
  <2>1. /\ n \in Nat \ {0} /\ Top = stack[n]
        /\ \/ n = 1 /\ stack' = << >>
           \/ /\ n > 1 /\ Len(stack') = n - 1
              /\ \A j \in 1..(n - 2) : stack'[j] = stack[j]
              /\ Remembers(stack'[n - 1], stack[n - 1])
    BY <1>1, <1>2, <1>4, PopShape
  <2>2. n > 1 => /\ stack'[n - 1].todo = stack[n - 1].todo
                 /\ stack'[n - 1].failed = stack[n - 1].failed
    BY <1>2, <1>4, ReturnLeaves
  <2> QED
    BY <2>1, <2>2
<1>7. /\ Len(stack') = n - 1
      /\ \A j \in 1..(n - 1) : /\ stack'[j].pkg = stack[j].pkg /\ stack'[j].at = stack[j].at
                               /\ \A r : Needs(stack[j], r) => Needs(stack'[j], r)
      /\ AskedApart => \A j \in 1..(n - 1) : \A q : q \in stack'[j].marked <=>
                          q \in stack[j].marked \/ (j = n - 1 /\ q \in stack[n].marked)
  <2>1. CASE n = 1 /\ stack' = << >>
    <3>1. Len(stack') = n - 1 /\ \A j : j \notin 1..(n - 1)
      BY <2>1
    <3> QED
      BY <3>1
  <2>2. CASE /\ n > 1 /\ Len(stack') = n - 1
             /\ \A j \in 1..(n - 2) : stack'[j] = stack[j]
             /\ Remembers(stack'[n - 1], stack[n - 1])
             /\ stack'[n - 1].todo = stack[n - 1].todo /\ stack'[n - 1].failed = stack[n - 1].failed
    <3>1. /\ \A j \in 1..(n - 1) : (j \in 1..(n - 2) /\ j # n - 1) \/ j = n - 1
          /\ n \in 1..n
      BY <1>6
    <3>2. AskedApart => Top.pkg \notin hand
      BY <1>1, <1>4, <1>6, <2>2, <3>1 DEF ApartInv
    <3> QED
      BY <1>6, <2>2, <3>1, <3>2 DEF Remembers, Needs
  <2> QED
    BY <1>6, <2>1, <2>2
<1>8. AskedApart' = AskedApart
  BY <1>2 DEF AskedApart, Particle
<1>9. \A q : Stands(q, n)' <=> q \in inset
  <2>1. \A k : k \notin n..(n - 1)
    BY <1>6
  <2> QED
    BY <1>2, <1>7, <2>1 DEF Stands
<1>10. \A q : Stands(q, n + 1) <=> q \in inset
  <2>1. \A k : k \notin (n + 1)..n
    BY <1>6
  <2> QED
    BY <1>4, <2>1 DEF Stands
<1>11. \A i \in 1..(n - 1) : AskedApart => \A q : Stands(q, i)' <=> Stands(q, i)
  <2>1. \A i \in 1..(n - 1) : /\ \A j \in i..(n - 1) : j \in 1..(n - 1) /\ j \in i..n
                              /\ \A j \in i..n : j = n \/ j \in i..(n - 1)
                              /\ n - 1 \in i..(n - 1) /\ n \in i..n
    BY <1>6
  <2> SUFFICES ASSUME NEW i \in 1..(n - 1), AskedApart, NEW q
               PROVE  Stands(q, i)' <=> Stands(q, i)
    OBVIOUS
  <2>2. (\A k \in i..(n - 1) : q \notin stack'[k].marked) <=> (\A k \in i..n : q \notin stack[k].marked)
    BY <1>7, <2>1
  <2> QED
    BY <1>2, <1>4, <1>7, <2>2 DEF Stands
<1>12. /\ n + 1 \in Levels
       /\ \A i \in Levels' : i = n \/ (i \in 1..(n - 1) /\ i \in Levels /\ AskedApart /\ 1 < i)
  <2>1. n + 1 \in Levels
    BY <1>4, <1>6 DEF Levels
  <2>2. \A i \in Levels' : i \in 1..n /\ (i = n \/ (AskedApart /\ i > 1))
    BY <1>6, <1>7, <1>8 DEF Levels
  <2>3. \A i \in 1..n : i = n \/ (i \in 1..(n - 1) /\ i \in 1..(n + 1))
    BY <1>6
  <2> QED
    BY <1>4, <2>1, <2>2, <2>3 DEF Levels
<1>13. \A r : Needs(Top, r) => t \in black'
  BY <1>2, <1>5, <1>6 DEF PackageDone, ConflictsProcessed, BeginConflicts, Processed, Running, Needs, Early
<1> SUFFICES ASSUME NEW i \in Levels', NEW p \in Pkg, Stands(p, i)', NEW r \in db.reqs[p]
             PROVE  Heeded(i, p, r)'
  BY <1>2 DEF UnmetInv
<1>14. PICK k \in Levels : /\ Heeded(k, p, r) /\ Stands(p, k)
                           /\ \/ k = n + 1 /\ i = n
                              \/ k = i /\ i \in 1..(n - 1) /\ AskedApart /\ 1 < i
  <2>1. CASE i = n
    <3>1. Stands(p, n + 1)
      BY <1>9, <1>10, <2>1
    <3>2. Heeded(n + 1, p, r)
      BY <1>12, <3>1 DEF UnmetInv, Live
    <3> QED
      BY <1>12, <2>1, <3>1, <3>2
  <2>2. CASE i \in 1..(n - 1) /\ i \in Levels /\ AskedApart /\ 1 < i
    <3>1. Stands(p, i)
      BY <1>11, <2>2
    <3>2. Heeded(i, p, r)
      BY <2>2, <3>1 DEF UnmetInv, Live
    <3> QED
      BY <2>2, <3>1, <3>2
  <2> QED
    BY <1>12, <2>1, <2>2
<1>15. \A q \in Pkg : Stands(q, k) => Stands(q, i)'
  BY <1>9, <1>10, <1>11, <1>14
<1>16. CASE Met(p, r)
  BY <1>2, <1>3, <1>16 DEF Heeded, Met, MetBySystem, Spares, Replaces
<1>17. CASE p \in queue \ gray
  BY <1>2, <1>17 DEF Heeded
<1>18. ASSUME NEW q \in Pkg, Stands(q, k), Satisfies(db, q, r)
       PROVE  Heeded(i, p, r)'
  BY <1>2, <1>15, <1>18 DEF Heeded
<1>19. ASSUME NEW j \in 1..n, stack[j].pkg = p, Needs(stack[j], r)
       PROVE  Heeded(i, p, r)'
  <2>1. CASE j \in 1..(n - 1)
    BY <1>7, <1>19, <2>1 DEF Heeded
  <2>2. CASE j = n
    <3>1. p \in black'
      BY <1>5, <1>6, <1>13, <1>19, <2>2
    <3> QED
      BY <3>1 DEF Heeded, Met
  <2>3. j = n \/ j \in 1..(n - 1)
    BY <1>6
  <2> QED
    BY <2>1, <2>2, <2>3
<1>20. CASE 1 < k /\ k <= n /\ Awaits(k - 1, p, r)
  <2>1. k = i /\ k \in 1..(n - 1) /\ k - 1 \in 1..(n - 1) /\ k - 1 + 1 = k /\ k <= n - 1
    BY <1>6, <1>14, <1>20
  <2>2. Awaits(k - 1, p, r)'
    BY <1>2, <1>7, <1>20, <2>1 DEF Awaits
  <2> QED
    BY <1>7, <1>20, <2>1, <2>2 DEF Heeded
<1> QED
  BY <1>4, <1>14, <1>16, <1>17, <1>18, <1>19, <1>20 DEF Heeded

(* A package is rolled back: the caller has failed.                        *)
LEMMA UnmetRollback ==
    ASSUME IInv, BottomInv, UnmetInv, Live, Rollback, AskedApart
    PROVE  UnmetInv'
<1>1. TypeInv /\ PathInv /\ ApartInv /\ inset \subseteq Pkg
  BY DatabaseShape DEF IInv, Marks
<1>2. PICK n : n = Len(stack)
  OBVIOUS
<1>3. PICK M, O : M = Top.marked /\ O = Top.obsoleted
  OBVIOUS
<1>4. /\ stack \in Seq(Call) /\ stack # << >> /\ Top.at = "reqs" /\ Return(-1)
      /\ Top.pkg \notin hand /\ phase = "process"
      /\ UNCHANGED <<db, opts, inst, hand, queue>>
      /\ inset' = inset \ M /\ gray' = gray \ M /\ black \subseteq black'
      /\ errors' = {e \in errors : e[1] \notin M \union O}
  BY <1>1, <1>3 DEF Rollback, Processed, Running, TypeInv, TypeOK
<1>5. /\ n \in Nat \ {0} /\ Top = stack[n] /\ n > 1 /\ Len(stack') = n - 1
      /\ \A j \in 1..(n - 2) : stack'[j] = stack[j]
      /\ Remembers(stack'[n - 1], stack[n - 1])
      /\ stack[n - 1].at = "reqs" => stack'[n - 1].failed
      /\ stack[n - 1].at # "reqs" =>
            stack'[n - 1].todo = stack[n - 1].todo /\ stack'[n - 1].failed = stack[n - 1].failed
  <2>1. /\ n \in Nat \ {0} /\ Top = stack[n]
        /\ \/ n = 1
           \/ /\ n > 1 /\ Len(stack') = n - 1
              /\ \A j \in 1..(n - 2) : stack'[j] = stack[j]
              /\ Remembers(stack'[n - 1], stack[n - 1])
    BY <1>1, <1>2, <1>4, PopShape
  <2>2. n # 1
    BY <1>4, <2>1 DEF BottomInv
  <2>3. n > 1 => /\ stack[n - 1].at = "reqs" => stack'[n - 1].failed
                 /\ stack[n - 1].at # "reqs" =>
                      stack'[n - 1].todo = stack[n - 1].todo /\ stack'[n - 1].failed = stack[n - 1].failed
    BY <1>2, <1>4, ReturnLeaves
  <2> QED
    BY <2>1, <2>2, <2>3
<1>6. /\ \A j \in 1..(n - 1) : /\ stack'[j].pkg = stack[j].pkg /\ stack'[j].at = stack[j].at
                               /\ \A r : Needs(stack[j], r) => Needs(stack'[j], r)
      /\ \A j \in 1..(n - 1) : \A q : q \in stack'[j].marked <=>
                          q \in stack[j].marked \/ (j = n - 1 /\ q \in M)
  <2>1. \A j \in 1..(n - 1) : (j \in 1..(n - 2) /\ j # n - 1) \/ j = n - 1
    BY <1>5
  <2>2. stack'[n - 1].pkg = stack[n - 1].pkg /\ stack'[n - 1].at = stack[n - 1].at
    BY <1>5 DEF Remembers
  <2>3. \A q : q \in stack'[n - 1].marked <=> q \in stack[n - 1].marked \/ q \in M
    BY <1>3, <1>4, <1>5 DEF Remembers
  <2>4. \A r : Needs(stack[n - 1], r) => Needs(stack'[n - 1], r)
    BY <1>5, <2>2 DEF Needs, Early
  <2> QED
    BY <1>5, <2>1, <2>2, <2>3, <2>4
<1>7. AskedApart' = AskedApart
  BY <1>4 DEF AskedApart, Particle
<1>8. \A i \in 1..n : \A q : Stands(q, i)' => Stands(q, i) /\ q \notin M
  <2>1. \A i \in 1..n : \A j \in i..n : j = n \/ (j \in i..(n - 1) /\ j \in 1..(n - 1))
    BY <1>5
  <2> SUFFICES ASSUME NEW i \in 1..n, NEW q, Stands(q, i)'
               PROVE  Stands(q, i) /\ q \notin M
    OBVIOUS
  <2>2. q \in inset /\ q \notin M /\ \A k \in i..(n - 1) : q \notin stack'[k].marked
    BY <1>4, <1>5 DEF Stands
  <2>3. \A k \in i..n : q \notin stack[k].marked
    BY <1>3, <1>5, <1>6, <2>1, <2>2
  <2> QED
    BY <1>2, <2>2, <2>3 DEF Stands
<1>9. \A i \in 1..n : \A q : Stands(q, i) => Stands(q, i)'
  <2>1. \A i \in 1..n : /\ \A j \in i..(n - 1) : j \in i..n /\ j \in 1..(n - 1)
                        /\ n \in i..n
    BY <1>5
  <2> SUFFICES ASSUME NEW i \in 1..n, NEW q, Stands(q, i)
               PROVE  Stands(q, i)'
    OBVIOUS
  <2>2. q \in inset /\ \A k \in i..n : q \notin stack[k].marked
    BY <1>2 DEF Stands
  <2>3. q \notin M
    BY <1>3, <1>5, <2>1, <2>2
  <2>4. \A k \in i..(n - 1) : q \notin stack'[k].marked
    BY <1>6, <2>1, <2>2, <2>3
  <2> QED
    BY <1>4, <1>5, <2>2, <2>3, <2>4 DEF Stands
<1>10. \A i \in Levels' : 1 < i /\ i \in 1..n /\ i \in Levels
  <2>1. \A i \in Levels' : i \in 1..n /\ (i = n \/ i > 1)
    BY <1>5 DEF Levels
  <2>2. \A i \in 1..n : i \in 1..(n + 1)
    BY <1>5
  <2> QED
    BY <1>2, <1>5, <2>1, <2>2 DEF Levels
<1> SUFFICES ASSUME NEW i \in Levels', NEW p \in Pkg, Stands(p, i)', NEW r \in db.reqs[p]
             PROVE  Heeded(i, p, r)'
  BY <1>4 DEF UnmetInv
<1>11. /\ Stands(p, i) /\ p \notin M /\ p \in inset /\ i \in 1..n /\ 1 < i
  BY <1>8, <1>10 DEF Stands
<1>12. Heeded(i, p, r)
  BY <1>10, <1>11 DEF UnmetInv, Live
<1>13. CASE Met(p, r)
  <2>1. p \notin O
    <3>1. n \in 1..n
      BY <1>5
    <3>2. p \in O => p \in inst /\ opts.upgrade
      BY <1>2, <1>3, <1>5, <3>1 DEF BottomInv
    <3> QED
      BY <1>4, <1>11, <3>2 DEF BottomInv, Transacting
  <2>2. <<p, r>> \in errors => <<p, r>> \in errors'
    BY <1>4, <1>11, <2>1
  <2> QED
    BY <1>4, <1>13, <2>2 DEF Heeded, Met, MetBySystem, Spares, Replaces
<1>14. CASE p \in queue \ gray
  BY <1>4, <1>14 DEF Heeded
<1>15. ASSUME NEW q \in Pkg, Stands(q, i), Satisfies(db, q, r)
       PROVE  Heeded(i, p, r)'
  BY <1>4, <1>9, <1>11, <1>15 DEF Heeded
<1>16. ASSUME NEW j \in 1..n, stack[j].pkg = p, Needs(stack[j], r)
       PROVE  Heeded(i, p, r)'
  <2>1. CASE j \in 1..(n - 1)
    BY <1>5, <1>6, <1>16, <2>1 DEF Heeded
  <2>2. CASE j = n
    <3>1. n \in 1..n
      BY <1>5
    <3> QED
      BY <1>1, <1>2, <1>3, <1>5, <1>11, <1>16, <2>2, <3>1 DEF PathInv
  <2>3. j = n \/ j \in 1..(n - 1)
    BY <1>5
  <2> QED
    BY <2>1, <2>2, <2>3
<1>17. CASE 1 < i /\ i <= n /\ Awaits(i - 1, p, r)
  <2>1. i - 1 \in 1..(n - 1) /\ i - 1 + 1 = i
    BY <1>5, <1>11
  <2>2. stack[i - 1].pkg = p /\ stack[i - 1].at = "reqs" /\ Satisfies(db, stack[i].pkg, r)
    BY <1>17, <2>1 DEF Awaits
  <2>3. CASE i = n
    <3>1. stack'[i - 1].pkg = p /\ Needs(stack'[i - 1], r)
      BY <1>5, <1>6, <2>1, <2>2, <2>3 DEF Needs
    <3> QED
      BY <1>5, <2>1, <3>1 DEF Heeded
  <2>4. CASE i \in 1..(n - 1)
    <3>1. Awaits(i - 1, p, r)'
      BY <1>4, <1>6, <2>1, <2>2, <2>4 DEF Awaits
    <3>2. i <= n - 1
      BY <2>4
    <3> QED
      BY <1>5, <1>11, <3>1, <3>2 DEF Heeded
  <2>5. i = n \/ i \in 1..(n - 1)
    BY <1>5, <1>11
  <2> QED
    BY <2>3, <2>4, <2>5
<1> QED
  BY <1>2, <1>12, <1>13, <1>14, <1>15, <1>16, <1>17 DEF Heeded

(* The steps outside of the calls.                                         *)
LEMMA UnmetOuter ==
    ASSUME IInv, UnmetInv, Outer, Live'
    PROVE  UnmetInv'
<1>1. TypeInv /\ PhaseInv /\ HandInv /\ inset \subseteq Pkg
  BY DatabaseShape DEF IInv, Marks
<1>2. ASSUME NEW s \in Pkg, Begins(s)
      PROVE  UnmetInv'
  <2>1. /\ stack = << >> /\ stack' = <<Frame(s, FALSE)>> /\ gray' = gray \union {s}
        /\ phase = "process" /\ ~ Stopped
        /\ UNCHANGED <<db, opts, phase, inst, args, pms, inset, hand, unset, black, errors, abort,
                       interrupted, ok>>
        /\ queue \ gray \subseteq (queue' \ gray') \union {s}
    BY <1>2 DEF Begins, InstallPackage, Stopped
  <2>2. /\ Len(stack) = 0 /\ Len(stack') = 1
        /\ stack'[1].pkg = s /\ stack'[1].at = "obsoletes"
    BY <2>1 DEF Frame
  <2>3. Levels = {1} /\ Levels' = {2}
    BY <2>2 DEF Levels
  <2>4. \A q : (Stands(q, 1) <=> q \in inset) /\ (Stands(q, 2)' <=> q \in inset)
    <3>1. \A k : k \notin 1..0 /\ k \notin 2..1
      OBVIOUS
    <3> QED
      BY <2>1, <2>2, <3>1 DEF Stands
  <2>5. Live
    BY <2>1 DEF Live, Trying, Transacting, Stopped, AskedApart, Particle
  <2> SUFFICES ASSUME NEW p \in Pkg, p \in inset, NEW r \in db.reqs[p]
               PROVE  Heeded(2, p, r)'
    BY <2>1, <2>3, <2>4 DEF UnmetInv
  <2>6. Heeded(1, p, r)
    BY <2>3, <2>4, <2>5 DEF UnmetInv, Live
  <2>7. CASE p = s
    <3>1. 1 \in 1..1 /\ Needs(stack'[1], r)
      BY <2>2 DEF Needs, Early
    <3> QED
      BY <2>2, <2>7, <3>1 DEF Heeded
  <2>8. CASE p # s
    <3>1. \/ Met(p, r) \/ p \in queue \ gray
          \/ \E q \in Pkg : Stands(q, 1) /\ Satisfies(db, q, r)
      <4>1. \A j : j \notin 1..0
        OBVIOUS
      <4> QED
        BY <2>2, <2>6, <4>1 DEF Heeded
    <3>2. CASE Met(p, r)
      BY <2>1, <3>2 DEF Heeded, Met, MetBySystem, Spares, Replaces
    <3>3. CASE p \in queue \ gray
      BY <2>1, <2>8, <3>3 DEF Heeded
    <3>4. CASE \E q \in Pkg : Stands(q, 1) /\ Satisfies(db, q, r)
      BY <2>1, <2>4, <3>4 DEF Heeded
    <3> QED
      BY <3>1, <3>2, <3>3, <3>4
  <2> QED
    BY <2>7, <2>8
<1>3. ASSUME stack = << >>, stack' = << >>, UNCHANGED <<db, opts, inst, inset, gray, black, errors>>,
             queue \ gray \subseteq queue' \ gray', Live
      PROVE  UnmetInv'
  <2>1. Levels = {1} /\ Levels' = {1} /\ Len(stack) = 0 /\ Len(stack') = 0 /\ \A j : j \notin 1..0
    BY <1>3 DEF Levels
  <2>2. \A q : (Stands(q, 1) <=> q \in inset) /\ (Stands(q, 1)' <=> q \in inset)
    BY <1>3, <2>1 DEF Stands
  <2> SUFFICES ASSUME NEW p \in Pkg, p \in inset, NEW r \in db.reqs[p]
               PROVE  Heeded(1, p, r)'
    BY <1>3, <2>1, <2>2 DEF UnmetInv
  <2>3. Heeded(1, p, r)
    BY <1>3, <2>1, <2>2 DEF UnmetInv, Live
  <2>4. \/ Met(p, r) \/ p \in queue \ gray
        \/ \E q \in Pkg : Stands(q, 1) /\ Satisfies(db, q, r)
    BY <2>1, <2>3 DEF Heeded
  <2>5. CASE Met(p, r)
    BY <1>3, <2>5 DEF Heeded, Met, MetBySystem, Spares, Replaces
  <2>6. CASE p \in queue \ gray
    BY <1>3, <2>6 DEF Heeded
  <2>7. CASE \E q \in Pkg : Stands(q, 1) /\ Satisfies(db, q, r)
    BY <1>3, <2>2, <2>7 DEF Heeded
  <2> QED
    BY <2>4, <2>5, <2>6, <2>7
<1>4. ~ Interrupt
  BY DEF Interrupt, Live, Trying, Stopped
<1>5. ASSUME NEW group \in SUBSET pms, MarkGroup(group)
      PROVE  UnmetInv'
  <2>1. /\ stack' = << >> /\ gray' = {} /\ queue' = inset' /\ UNCHANGED db
    BY <1>1, <1>5 DEF MarkGroup, PhaseInv, Idle
  <2> SUFFICES ASSUME NEW i \in Levels', NEW p \in Pkg, Stands(p, i)', NEW r \in db.reqs[p]
               PROVE  Heeded(i, p, r)'
    BY <2>1 DEF UnmetInv
  <2> QED
    BY <2>1 DEF Stands, Heeded
<1>6. CASE RunInstall
  <2>1. /\ stack = << >> /\ stack' = << >> /\ phase = "process"
        /\ UNCHANGED <<db, opts, inst, inset, gray, black, errors, queue, abort, interrupted>>
    BY <1>6 DEF RunInstall, Resolved, ictx
  <2>2. Live
    BY <2>1 DEF Live, Trying, Transacting, Stopped, AskedApart, Particle
  <2> QED
    BY <1>3, <2>1, <2>2
<1>7. ASSUME NEW p \in Pkg, InstallPackage(p), ~ Begins(p)
      PROVE  UnmetInv'
  <2>1. /\ stack = << >> /\ phase = "process"
        /\ UNCHANGED <<db, opts, phase, inst, inset, black, errors, abort, interrupted>>
    BY <1>7 DEF InstallPackage
  <2>2. Live
    BY <2>1 DEF Live, Trying, Transacting, Stopped, AskedApart, Particle
  <2>3. ~ Stopped
    BY <2>2 DEF Live, Trying
  <2>4. p \in gray
    BY <1>7, <2>3 DEF Begins
  <2>5. stack' = << >> /\ gray' = gray /\ queue' = queue \ {p}
    BY <1>7, <2>1, <2>3, <2>4 DEF InstallPackage, Stopped
  <2>6. queue \ gray \subseteq queue' \ gray'
    BY <2>4, <2>5
  <2> QED
    BY <1>3, <2>1, <2>2, <2>5, <2>6
<1>8. CASE \/ \E wanted \in Requests : Resolve(wanted)
           \/ \E p \in Pkg : SkipArgument(p)
           \/ MarkDone \/ GroupFails \/ NotInstalled \/ Installed
  BY <1>8 DEF Resolve, SkipArgument, MarkDone, GroupFails, NotInstalled, Installed, Live, Trying, Transacting
<1> QED
  BY <1>2, <1>4, <1>5, <1>6, <1>7, <1>8 DEF Outer

(* No requirement of what stands is lost.                                  *)
LEMMA UnmetStep == IInv /\ BottomInv /\ UnmetInv /\ [Next]_vars => UnmetInv'
<1> SUFFICES ASSUME IInv, BottomInv, UnmetInv, [Next]_vars, Live'
             PROVE  UnmetInv'
  BY DEF UnmetInv, Live
<1>1. TypeInv /\ PathInv /\ ApartInv /\ ReplacedInv
  BY DEF IInv, Marks
<1>2. ~ Stopped' /\ Transacting'
  BY DEF Live, Trying
<1>3. ASSUME Transacting, ~ Stopped, UNCHANGED <<opts, inst, db>>, black \subseteq black'
      PROVE  Live
  BY <1>3 DEF Live, Trying, AskedApart, Particle
<1>4. CASE Outer
  BY <1>4, UnmetOuter
<1>5. CASE CallStep
  <2>1. PICK c \in Call : Goes(c)
    BY <1>1, <1>2, <1>5, CallGoes
  <2>2. PICK n, t : n = Len(stack) /\ t = stack[n].pkg
    OBVIOUS
  <2>3. /\ Moves(c) /\ Alike(c, Top) /\ ~ Stopped /\ phase = "process"
        /\ UNCHANGED <<db, opts, inst, queue, unset>>
        /\ errors \subseteq errors' /\ black \subseteq black'
    BY <2>1 DEF Goes, Moves
  <2>4. Live
    BY <1>3, <2>3 DEF Transacting
  <2>5. /\ n \in Nat \ {0} /\ Top = stack[n] /\ Top \in Call
        /\ \A j \in 1..(n - 1) : stack'[j] = stack[j]
        /\ stack'[n] = c
        /\ \/ Len(stack') = n /\ UNCHANGED <<inset, hand, gray, pms>>
           \/ /\ Len(stack') = n + 1
              /\ LET f == stack'[n + 1]
                 IN  /\ f.at = "obsoletes" /\ f.marked = {f.pkg} /\ f.obsoleted = {}
                     /\ Calls(c, f.pkg)
    BY <1>1, <2>2, <2>3, MovesShape
  <2>6. c.pkg = t /\ c.marked = stack[n].marked
    BY <2>2, <2>3, <2>5 DEF Alike
  <2>7. \A r \in db.reqs[t] : Needs(stack[n], r) =>
            \/ Needs(stack'[n], r)
            \/ Met(t, r)' \/ Provided(inset, r)
            \/ /\ stack'[n].at = "reqs" /\ Len(stack') = n + 1
               /\ Satisfies(db, stack'[n + 1].pkg, r)
    BY <2>1, <2>2, <2>4, <2>5, <2>6 DEF Goes, ReqGoes, Live
  <2>8. CASE Len(stack') = n /\ UNCHANGED <<inset, hand, gray, pms>>
    <3>1. n # n + 1
      BY <2>5
    <3> QED
      BY <2>2, <2>3, <2>4, <2>5, <2>6, <2>7, <2>8, <3>1, UnmetStays
  <2>9. CASE /\ Len(stack') = n + 1
             /\ LET f == stack'[n + 1]
                IN  /\ f.at = "obsoletes" /\ f.marked = {f.pkg} /\ f.obsoleted = {}
                    /\ Calls(c, f.pkg)
    <3>1. PICK s : s = stack'[n + 1].pkg
      OBVIOUS
    <3>2. /\ s \in Pkg /\ inset' = inset \union {s} /\ gray' = gray \union {s}
          /\ s \in inset => Top.at = "orphans" /\ Top.missed # {}
      BY <2>9, <3>1 DEF Calls
    <3>3. s \in inset => ~ AskedApart
      <4>1. n \in 1..n
        BY <2>5
      <4> QED
        BY <1>1, <2>2, <2>5, <3>2, <4>1 DEF ApartInv
    <3> QED
      BY <2>2, <2>3, <2>4, <2>5, <2>6, <2>7, <2>9, <3>1, <3>2, <3>3, UnmetCalls
  <2> QED
    BY <2>5, <2>8, <2>9
<1>6. CASE ProcessObsoletes
  <2>1. PICK old : Clears(old)
    BY <1>1, <1>6, Clearing
  <2>2. PICK n, t : n = Len(stack) /\ t = stack[n].pkg
    OBVIOUS
  <2>3. /\ UNCHANGED <<db, opts, inst, queue, inset, gray, errors, black, abort, interrupted>>
        /\ phase = "process"
    BY <2>1 DEF Clears
  <2>4. Live
    BY <1>2, <1>3, <2>3 DEF Transacting, Stopped
  <2>5. /\ n \in Nat \ {0} /\ Len(stack') = n /\ Top = stack[n] /\ Top.marked = {Top.pkg}
        /\ \A j \in 1..(n - 1) : stack'[j] = stack[j]
        /\ stack'[n].pkg = Top.pkg /\ stack'[n].marked = {Top.pkg} /\ stack'[n].at = "orphans"
    BY <1>1, <2>1, <2>2, ClearShape
  <2>6. \A r : Needs(stack'[n], r)
    BY <2>5 DEF Needs, Early
  <2> QED
    BY <2>2, <2>3, <2>4, <2>5, <2>6, UnmetStays
<1>7. CASE PackageDone
  <2>1. Returns
    BY <1>1, <1>7, DoneReturns
  <2>2. Live
    BY <1>2, <1>3, <2>1 DEF Returns, Transacting, Stopped
  <2> QED
    BY <1>7, <2>2, UnmetReturns
<1>8. CASE Rollback
  <2>1. /\ UNCHANGED <<db, opts, inst, abort, interrupted>> /\ black \subseteq black'
        /\ phase = "process" /\ black' # {}
    BY <1>8 DEF Rollback, Processed, Running
  <2>2. Live /\ AskedApart
    BY <1>2, <1>3, <2>1 DEF Live, Transacting, Stopped, AskedApart, Particle
  <2> QED
    BY <1>8, <2>2, UnmetRollback
<1>9. CASE NoRollback
  <2>1. PICK t : t = Top.pkg
    OBVIOUS
  <2>2. /\ stack # << >> /\ phase = "process" /\ Top.at = "reqs"
        /\ Len(stack) > 1 => phase' = "crashed"
        /\ black' = black \union {t} /\ stack' = << >>
        /\ UNCHANGED <<db, opts, inst, queue, inset, gray, errors, abort, interrupted>>
    BY <1>9, <2>1 DEF NoRollback, Processed, Running
  <2>3. Live
    BY <1>2, <1>3, <2>2 DEF Transacting, Stopped
  <2>4. Len(stack) \in Nat \ {0} /\ Top = stack[Len(stack)] /\ ~ Len(stack) > 1
    BY <1>1, <1>2, <2>2, StackSteps DEF TypeInv, TypeOK, Transacting
  <2>5. Len(stack) = 1
    <3>1. \A k \in Nat \ {0} : k > 1 \/ k = 1
      OBVIOUS
    <3> QED
      BY <2>4, <3>1
  <2>6. 2 \in Levels /\ Levels' = {1} /\ Len(stack') = 0 /\ stack[1].pkg = t
    BY <2>1, <2>2, <2>4, <2>5 DEF Levels
  <2>7. \A q : (Stands(q, 2) <=> q \in inset) /\ (Stands(q, 1)' <=> q \in inset)
    <3>1. \A k : k \notin 2..1 /\ k \notin 1..0
      OBVIOUS
    <3> QED
      BY <2>2, <2>5, <2>6, <3>1 DEF Stands
  <2> SUFFICES ASSUME NEW p \in Pkg, p \in inset, NEW r \in db.reqs[p]
               PROVE  Heeded(1, p, r)'
    BY <2>2, <2>6, <2>7 DEF UnmetInv
  <2>8. Heeded(2, p, r)
    BY <2>3, <2>6, <2>7 DEF UnmetInv, Live
  <2>9. CASE p = t
    BY <2>2, <2>9 DEF Heeded, Met
  <2>10. CASE p # t
    <3>1. \/ Met(p, r) \/ p \in queue \ gray
          \/ \E q \in Pkg : Stands(q, 2) /\ Satisfies(db, q, r)
      <4>1. \A j \in 1..1 : j = 1
        OBVIOUS
      <4>2. ~ 2 <= 1
        OBVIOUS
      <4> QED
        BY <2>5, <2>6, <2>8, <2>10, <4>1, <4>2 DEF Heeded
    <3>2. CASE Met(p, r)
      BY <2>2, <3>2 DEF Heeded, Met, MetBySystem, Spares, Replaces
    <3>3. CASE p \in queue \ gray
      BY <2>2, <3>3 DEF Heeded
    <3>4. CASE \E q \in Pkg : Stands(q, 2) /\ Satisfies(db, q, r)
      BY <2>2, <2>7, <3>4 DEF Heeded
    <3> QED
      BY <3>1, <3>2, <3>3, <3>4
  <2> QED
    BY <2>9, <2>10
<1>10. ASSUME NEW m \in Missing, NothingToFree(m[1], m[2])
       PROVE  FALSE
  BY <1>2, <1>10 DEF NothingToFree, Transacting
<1>11. CASE UNCHANGED vars
  <2>1. /\ UNCHANGED <<db, opts, phase, inst, queue, inset, gray, black, errors, stack>>
        /\ UNCHANGED <<abort, interrupted>>
    BY <1>11 DEF vars, ictx
  <2>2. Live
    BY <1>2, <1>3, <2>1 DEF Transacting, Stopped
  <2> QED
    BY <2>1, <2>2 DEF UnmetInv, Live, Heeded, Stands, Levels, AskedApart, Particle, Met, MetBySystem, Spares, Replaces, Awaits
<1> QED
  BY <1>4, <1>5, <1>6, <1>7, <1>8, <1>9, <1>10, <1>11, StepCases

-----------------------------------------------------------------------------
(* No conflict is lost.                                                    *)

Watched == Trying /\ black = {} /\ opts.conflicts /\ opts.upgrade /\ opts.obsoletes

(* What is handled stays so while nothing is rolled back.                  *)
LEMMA ComparedKept ==
    ASSUME NEW p \in Pkg, Compared(p), UNCHANGED <<db, opts, inst>>,
           errors \subseteq errors', inset \subseteq inset', unset \subseteq unset',
           ~ Particle => hand' = hand,
           \A q \in inst \ unset :
             /\ \A x \in db.cnfl[p] : Borne(p, q, x) /\ Satisfies(db, q, x) =>
                                        Borne(p, q, x)' \/ Handled(p, q, x)'
             /\ \A x \in db.cnfl[q] : Feared(p, q, x) => Feared(p, q, x)' \/ Handled(p, q, x)'
    PROVE  Compared(p)'
<1>1. \A q, x : Handled(p, q, x) => Handled(p, q, x)'
  <2>1. \A x : Provided(inset, Opposite(x)) => Provided(inset', Opposite(x))
    BY DEF Provided
  <2>2. \A x : Provided(inset, Opposite(x))' <=> Provided(inset', Opposite(x))
    BY DEF Provided
  <2> QED
    BY <2>1, <2>2 DEF Handled, Replaces, CapsObsolete
<1>2. Particle' = Particle
  BY DEF Particle
<1>3. \A q \in (inst \ unset)' : q \in inst \ unset
  OBVIOUS
<1>4. ~ Particle' => \A q \in hand' \ {p} : \A x \in db'.cnfl[p] :
         Satisfies(db', q, x) => <<p, q>> \in errors'
  BY <1>2 DEF Compared
<1>5. ASSUME NEW q \in inst \ unset, NEW x \in db.cnfl[p], Satisfies(db, q, x)
      PROVE  Handled(p, q, x)' \/ Borne(p, q, x)'
  BY <1>1, <1>5 DEF Compared
<1>6. ASSUME NEW q \in inst \ unset, NEW x \in db.cnfl[q], Satisfies(db, p, x)
      PROVE  Handled(p, q, x)' \/ Feared(p, q, x)'
  BY <1>1, <1>6 DEF Compared
<1> QED
  BY <1>3, <1>4, <1>5, <1>6 DEF Compared

(* A step of the call on top.                                              *)
LEMMA ClashCalls ==
    ASSUME IInv, ClashInv, Watched, NEW c, Goes(c)
    PROVE  ClashInv'
<1>1. TypeInv /\ HandInv /\ ApartInv /\ inset \subseteq Pkg
  BY DatabaseShape DEF IInv, Marks
<1>2. PICK n : n = Len(stack)
  OBVIOUS
<1>3. /\ Moves(c) /\ CompareGoes(c) /\ CnflGoes(c) /\ c.pkg = Top.pkg /\ ~ Stopped /\ phase = "process"
      /\ UNCHANGED <<db, opts, inst, queue, unset>>
      /\ errors \subseteq errors'
  BY DEF Goes, Moves, Alike
<1>4. /\ n \in Nat \ {0} /\ Top = stack[n] /\ Top \in Call
      /\ \A j \in 1..(n - 1) : stack'[j] = stack[j]
      /\ stack'[n] = c
      /\ \/ Len(stack') = n /\ UNCHANGED <<inset, hand, gray, pms>>
         \/ /\ Len(stack') = n + 1
            /\ LET f == stack'[n + 1]
               IN  /\ f.at = "obsoletes" /\ f.marked = {f.pkg} /\ f.obsoleted = {}
                   /\ Calls(c, f.pkg)
  BY <1>1, <1>2, <1>3, MovesShape
<1>5. ~ Particle => hand' = hand
  BY <1>1, <1>3, <1>4 DEF ApartInv, Calls
<1>6. /\ \A j \in 1..n : j = n \/ j \in 1..(n - 1)
      /\ n \in 1..n /\ n \in 1..(n + 1) /\ n + 1 \in 1..(n + 1)
      /\ \A j \in 1..n : j \in 1..(n + 1)
  BY <1>4
<1>7. n \in 1..Len(stack') /\ \A j \in 1..n : j \in 1..Len(stack')
  BY <1>4, <1>6
<1>8. /\ inset \subseteq inset'
      /\ \/ inset' = inset /\ gray' = gray
         \/ \E s \in Pkg : /\ inset' = inset \union {s} /\ gray' = gray \union {s}
                           /\ n + 1 \in 1..Len(stack')
                           /\ stack'[n + 1].pkg = s /\ stack'[n + 1].at = "obsoletes"
  BY <1>4, <1>6 DEF Calls
<1>9. ASSUME NEW p, n + 1 \in 1..Len(stack'), stack'[n + 1].pkg = p, stack'[n + 1].at = "obsoletes"
      PROVE  Unasked(p)'
  BY <1>9 DEF Unasked, Early
<1> SUFFICES ASSUME NEW p \in inset, p \in queue \ gray => p \in queue' \ gray'
             PROVE  (Unasked(p) \/ Compared(p))'
  BY <1>3, <1>8, <1>9 DEF ClashInv
<1>10. CASE p \in queue \ gray
  BY <1>10 DEF Unasked
<1>11. ASSUME NEW j \in 1..n, stack[j].pkg = p, stack[j].at \in Early \union {"reqs"}
       PROVE  (Unasked(p) \/ Compared(p))'
  <2>1. CASE j \in 1..(n - 1)
    BY <1>4, <1>7, <1>11, <2>1 DEF Unasked
  <2>2. CASE j = n
    <3>1. p = c.pkg /\ (c.at \in Early \union {"reqs"} \/ Compares(c))
      BY <1>3, <1>4, <1>11, <2>2 DEF CompareGoes
    <3>2. CASE c.at \in Early \union {"reqs"}
      BY <1>4, <1>7, <3>1, <3>2 DEF Unasked
    <3>3. CASE Compares(c)
      <4>1. /\ c.at = "caps" /\ c.todo = db.caps[p]
            /\ {p} \X (ConflictedBy(p) \cap inset) \subseteq errors'
        BY <3>1, <3>3 DEF Compares, Watched
      <4>2. ASSUME ~ Particle, NEW q \in hand \ {p}, NEW x \in db.cnfl[p], Satisfies(db, q, x)
            PROVE  <<p, q>> \in errors'
        <5>1. q \in inset /\ q \in db.avail
          BY <1>1, <4>2, DatabaseShape DEF HandInv, Watched, Trying
        <5>2. q \in ConflictedBy(p)
          BY <4>2, <5>1 DEF ConflictedBy, Cnfls
        <5> QED
          BY <4>1, <5>1, <5>2
      <4>3. ASSUME NEW q, NEW x
            PROVE  Borne(p, q, x)'
        BY <1>4, <1>7, <3>1, <4>1 DEF Borne, Bears
      <4>4. ASSUME NEW q, NEW x, Satisfies(db, p, x)
            PROVE  Feared(p, q, x)'
        <5>1. \E cap \in c.todo : CapMatchReq(cap, x)
          BY <4>1, <4>4 DEF Satisfies
        <5>2. Fears(c, q, x)
          BY <4>1, <5>1 DEF Fears
        <5>3. stack'[n].pkg = p /\ Fears(stack'[n], q, x)
          BY <1>4, <3>1, <5>2
        <5> QED
          BY <1>7, <5>3 DEF Feared
      <4>5. Particle' = Particle
        BY <1>3 DEF Particle
      <4>6. Compared(p)'
        BY <1>3, <1>5, <4>2, <4>3, <4>4, <4>5 DEF Compared
      <4> QED
        BY <4>6
    <3> QED
      BY <3>1, <3>2, <3>3
  <2> QED
    BY <1>6, <2>1, <2>2
<1>12. CASE Compared(p)
  <2>1. ASSUME NEW q \in inst \ unset, NEW x \in db.cnfl[p], Borne(p, q, x), Satisfies(db, q, x)
        PROVE  Borne(p, q, x)' \/ Handled(p, q, x)'
    <3>1. PICK j \in 1..n : stack[j].pkg = p /\ Bears(stack[j], q, x)
      BY <1>2, <2>1 DEF Borne
    <3>2. CASE j \in 1..(n - 1)
      BY <1>4, <1>7, <3>1, <3>2 DEF Borne
    <3>3. CASE j = n
      <4>1. c.pkg = p /\ Top.pkg = p /\ Bears(Top, q, x)
        BY <1>3, <1>4, <3>1, <3>3
      <4>2. Bears(c, q, x) \/ Handled(p, q, x)'
        BY <1>3, <2>1, <4>1 DEF CnflGoes, Cnfls, Watched
      <4>3. CASE Bears(c, q, x)
        <5>1. stack'[n].pkg = p /\ Bears(stack'[n], q, x)
          BY <1>4, <4>1, <4>3
        <5> QED
          BY <1>7, <5>1 DEF Borne
      <4> QED
        BY <4>2, <4>3
    <3> QED
      BY <1>6, <3>1, <3>2, <3>3
  <2>2. ASSUME NEW q \in inst \ unset, NEW x \in db.cnfl[q], Feared(p, q, x)
        PROVE  Feared(p, q, x)' \/ Handled(p, q, x)'
    <3>1. PICK j \in 1..n : stack[j].pkg = p /\ Fears(stack[j], q, x)
      BY <1>2, <2>2 DEF Feared
    <3>2. CASE j \in 1..(n - 1)
      BY <1>4, <1>7, <3>1, <3>2 DEF Feared
    <3>3. CASE j = n
      <4>1. c.pkg = p /\ Top.pkg = p /\ Fears(Top, q, x)
        BY <1>3, <1>4, <3>1, <3>3
      <4>2. Fears(c, q, x) \/ Handled(p, q, x)'
        BY <1>3, <2>2, <4>1 DEF CnflGoes, Cnfls, Watched
      <4>3. CASE Fears(c, q, x)
        <5>1. stack'[n].pkg = p /\ Fears(stack'[n], q, x)
          BY <1>4, <4>1, <4>3
        <5> QED
          BY <1>7, <5>1 DEF Feared
      <4> QED
        BY <4>2, <4>3
    <3> QED
      BY <1>6, <3>1, <3>2, <3>3
  <2>3. Compared(p)'
    BY <1>1, <1>3, <1>5, <1>8, <1>12, <2>1, <2>2, ComparedKept
  <2> QED
    BY <2>3
<1>13. Unasked(p) \/ Compared(p)
  BY DEF ClashInv, Watched
<1> QED
  BY <1>2, <1>10, <1>11, <1>12, <1>13 DEF Unasked

(* A package is done.                                                      *)
LEMMA ClashReturns ==
    ASSUME IInv, ClashInv, Watched, PackageDone
    PROVE  ClashInv'
<1>1. TypeInv /\ PathInv /\ HandInv /\ inset \subseteq Pkg
  BY DatabaseShape DEF IInv, Marks
<1>2. /\ stack \in Seq(Call) /\ stack # << >> /\ Top.at # "obsoletes" /\ Return(1)
      /\ UNCHANGED <<db, opts, inst, hand, queue, inset, gray, unset>>
  BY <1>1, DoneReturns DEF Returns, TypeInv, TypeOK
<1>3. errors \subseteq errors'
  BY DEF PackageDone, ConflictsProcessed, BeginConflicts, ictx
<1>4. PICK n : n = Len(stack)
  OBVIOUS
<1>5. PICK t : t = stack[n].pkg
  OBVIOUS
<1>6. /\ n \in Nat \ {0} /\ Top = stack[n]
      /\ \/ n = 1 /\ stack' = << >>
         \/ /\ n > 1 /\ Len(stack') = n - 1
            /\ \A j \in 1..(n - 2) : stack'[j] = stack[j]
            /\ Remembers(stack'[n - 1], stack[n - 1])
            /\ stack'[n - 1].todo = stack[n - 1].todo
  <2>1. /\ n \in Nat \ {0} /\ Top = stack[n]
        /\ \/ n = 1 /\ stack' = << >>
           \/ /\ n > 1 /\ Len(stack') = n - 1
              /\ \A j \in 1..(n - 2) : stack'[j] = stack[j]
              /\ Remembers(stack'[n - 1], stack[n - 1])
    BY <1>1, <1>2, <1>4, PopShape
  <2>2. n > 1 => stack'[n - 1].todo = stack[n - 1].todo
    BY <1>2, <1>4, ReturnLeaves
  <2> QED
    BY <2>1, <2>2
<1>7. \A j \in 1..n : j = n \/ j \in 1..Len(stack')
  <2>1. CASE n = 1
    BY <2>1
  <2>2. CASE n > 1 /\ Len(stack') = n - 1
    BY <1>6, <2>2
  <2> QED
    BY <1>6, <2>1, <2>2
<1>8. \A j \in 1..Len(stack') :
        /\ stack'[j].pkg = stack[j].pkg /\ stack'[j].at = stack[j].at
        /\ stack'[j].missed = stack[j].missed /\ stack'[j].todo = stack[j].todo
  <2>1. CASE stack' = << >>
    <3>1. \A j : j \notin 1..Len(stack')
      BY <2>1
    <3> QED
      BY <3>1
  <2>2. CASE /\ n > 1 /\ Len(stack') = n - 1
             /\ \A j \in 1..(n - 2) : stack'[j] = stack[j]
             /\ Remembers(stack'[n - 1], stack[n - 1])
             /\ stack'[n - 1].todo = stack[n - 1].todo
    <3>1. \A j \in 1..(n - 1) : j \in 1..(n - 2) \/ j = n - 1
      BY <1>6
    <3> QED
      BY <2>2, <3>1 DEF Remembers
  <2> QED
    BY <1>6, <2>1, <2>2
<1>9. \/ Top.at = "cnfls" /\ Top.missed = {} /\ Top.todo = {}
      \/ /\ Top.at = "reqs" /\ db.cnfl[t] = {} /\ \A q \in inst : db.cnfl[q] = {}
         /\ {t} \X (ConflictedBy(t) \cap inset) \subseteq errors'
  BY <1>5, <1>6 DEF PackageDone, ConflictsProcessed, BeginConflicts, Processed, Running, AtPeace, Watched
<1>10. \A q, x : ~ Bears(Top, q, x) /\ ~ Fears(Top, q, x)
  BY <1>9 DEF Bears, Fears
<1>11. \A p, q, x : (Borne(p, q, x) => Borne(p, q, x)') /\ (Feared(p, q, x) => Feared(p, q, x)')
  <2> SUFFICES ASSUME NEW p, NEW q, NEW x
               PROVE  (Borne(p, q, x) => Borne(p, q, x)') /\ (Feared(p, q, x) => Feared(p, q, x)')
    OBVIOUS
  <2>1. ASSUME NEW j \in 1..n, stack[j].pkg = p, Bears(stack[j], q, x)
        PROVE  Borne(p, q, x)'
    <3>1. j \in 1..Len(stack')
      BY <1>6, <1>7, <1>10, <2>1
    <3>2. stack'[j].pkg = p /\ Bears(stack'[j], q, x)
      BY <1>8, <2>1, <3>1 DEF Bears
    <3> QED
      BY <3>1, <3>2 DEF Borne
  <2>2. ASSUME NEW j \in 1..n, stack[j].pkg = p, Fears(stack[j], q, x)
        PROVE  Feared(p, q, x)'
    <3>1. j \in 1..Len(stack')
      BY <1>6, <1>7, <1>10, <2>2
    <3>2. stack'[j].pkg = p /\ Fears(stack'[j], q, x)
      BY <1>8, <2>2, <3>1 DEF Fears
    <3> QED
      BY <3>1, <3>2 DEF Feared
  <2> QED
    BY <1>4, <2>1, <2>2 DEF Borne, Feared
<1>12. Particle' = Particle
  BY <1>2 DEF Particle
<1> SUFFICES ASSUME NEW p \in inset
             PROVE  (Unasked(p) \/ Compared(p))'
  BY <1>2 DEF ClashInv
<1>13. CASE p \in queue \ gray
  BY <1>2, <1>13 DEF Unasked
<1>14. ASSUME NEW j \in 1..n, stack[j].pkg = p, stack[j].at \in Early \union {"reqs"}
       PROVE  (Unasked(p) \/ Compared(p))'
  <2>1. CASE j \in 1..Len(stack')
    BY <1>8, <1>14, <2>1 DEF Unasked
  <2>2. CASE j = n
    <3>1. p = t /\ Top.at # "cnfls"
      BY <1>5, <1>6, <1>14, <2>2 DEF Early
    <3>2. /\ db.cnfl[p] = {} /\ \A q \in inst : db.cnfl[q] = {}
          /\ {p} \X (ConflictedBy(p) \cap inset) \subseteq errors'
      BY <1>9, <3>1
    <3>3. Compared(p)'
      BY <1>2, <3>2 DEF Compared
    <3> QED
      BY <3>3
  <2> QED
    BY <1>7, <2>1, <2>2
<1>15. CASE Compared(p)
  <2>1. Compared(p)'
    BY <1>1, <1>2, <1>3, <1>11, <1>15, ComparedKept
  <2> QED
    BY <2>1
<1>16. Unasked(p) \/ Compared(p)
  BY DEF ClashInv, Watched
<1> QED
  BY <1>4, <1>13, <1>14, <1>15, <1>16 DEF Unasked

(* What the package on top obsoletes is to be removed.                     *)
LEMMA ClashClears ==
    ASSUME IInv, ClashInv, Watched, ProcessObsoletes
    PROVE  ClashInv'
<1>1. TypeInv /\ PathInv /\ inset \subseteq Pkg
  BY DatabaseShape DEF IInv, Marks
<1>2. PICK old : Clears(old)
  BY <1>1, Clearing
<1>3. PICK n : n = Len(stack)
  OBVIOUS
<1>4. /\ UNCHANGED <<db, opts, inst, queue, inset, hand, gray, errors>>
      /\ unset \subseteq unset' /\ Top.at = "obsoletes"
  BY <1>2 DEF Clears
<1>5. /\ n \in Nat \ {0} /\ Len(stack') = n /\ Top = stack[n]
      /\ \A j \in 1..(n - 1) : stack'[j] = stack[j]
      /\ stack'[n].pkg = stack[n].pkg /\ stack'[n].at = "orphans"
  BY <1>1, <1>2, <1>3, ClearShape
<1>6. \A j \in 1..n : j = n \/ stack'[j] = stack[j]
  <2>1. \A j \in 1..n : j = n \/ j \in 1..(n - 1)
    BY <1>5
  <2> QED
    BY <1>5, <2>1
<1>7. \A q, x : ~ Bears(Top, q, x) /\ ~ Fears(Top, q, x)
  BY <1>4 DEF Bears, Fears
<1>8. \A p, q, x : (Borne(p, q, x) => Borne(p, q, x)') /\ (Feared(p, q, x) => Feared(p, q, x)')
  BY <1>3, <1>5, <1>6, <1>7 DEF Borne, Feared
<1>9. \A p : Unasked(p) => Unasked(p)'
  <2>1. \A j \in 1..n : stack[j].at \in Early => stack'[j].at \in Early
    BY <1>5, <1>6 DEF Early
  <2>2. \A j \in 1..n : /\ stack'[j].pkg = stack[j].pkg
                        /\ stack[j].at \in Early \union {"reqs"} => stack'[j].at \in Early \union {"reqs"}
    BY <1>5, <1>6 DEF Early
  <2> QED
    BY <1>3, <1>4, <1>5, <2>2 DEF Unasked
<1> SUFFICES ASSUME NEW p \in inset, Compared(p)
             PROVE  Compared(p)'
  BY <1>4, <1>9 DEF ClashInv, Watched
<1> QED
  BY <1>1, <1>4, <1>8, ComparedKept

(* The steps outside of the calls.                                         *)
LEMMA ClashOuter ==
    ASSUME IInv, ClashInv, Outer, Watched'
    PROVE  ClashInv'
<1>1. TypeInv /\ PhaseInv /\ inset \subseteq Pkg
  BY DatabaseShape DEF IInv, Marks
<1>2. ASSUME stack = << >>, UNCHANGED <<db, opts, inst, hand, inset, unset, black, errors>>,
             NEW S, Transacting, ~ Stopped,
             queue \ gray \subseteq (queue' \ gray') \union S,
             \A s \in S : 1 \in 1..Len(stack') /\ stack'[1].pkg = s /\ stack'[1].at \in Early
      PROVE  ClashInv'
  <2>1. Watched
    BY <1>2 DEF Watched, Trying
  <2>2. \A j : j \notin 1..Len(stack)
    BY <1>2
  <2>3. \A p, q, x : ~ Borne(p, q, x) /\ ~ Feared(p, q, x)
    BY <2>2 DEF Borne, Feared
  <2>4. \A p : Unasked(p) => Unasked(p)'
    <3>1. \A p \in queue \ gray : p \in queue' \ gray' \/ p \in S
      BY <1>2
    <3> QED
      BY <1>2, <2>2, <3>1 DEF Unasked
  <2> SUFFICES ASSUME NEW p \in inset, Compared(p)
               PROVE  Compared(p)'
    BY <1>2, <2>1, <2>4 DEF ClashInv, Watched
  <2> QED
    BY <1>1, <1>2, <2>3, ComparedKept
<1>3. ASSUME NEW s \in Pkg, Begins(s)
      PROVE  ClashInv'
  <2>1. /\ stack = << >> /\ stack' = <<Frame(s, FALSE)>> /\ gray' = gray \union {s}
        /\ phase = "process" /\ ~ Stopped
        /\ UNCHANGED <<db, opts, phase, inst, args, pms, inset, hand, unset, black, errors, abort,
                       interrupted, ok>>
        /\ queue \ gray \subseteq (queue' \ gray') \union {s}
    BY <1>3 DEF Begins, InstallPackage, Stopped
  <2>2. Len(stack') = 1 /\ stack'[1].pkg = s /\ stack'[1].at \in Early
    BY <2>1 DEF Frame, Early
  <2>3. 1 \in 1..Len(stack')
    BY <2>2
  <2>4. \A q \in {s} : 1 \in 1..Len(stack') /\ stack'[1].pkg = q /\ stack'[1].at \in Early
    BY <2>2, <2>3
  <2>5. UNCHANGED <<db, opts, inst, hand, inset, unset, black, errors>> /\ Transacting
    BY <2>1 DEF Transacting
  <2> QED
    BY <1>2, <2>1, <2>4, <2>5
<1>4. ~ Interrupt
  BY DEF Interrupt, Watched, Trying, Stopped
<1>5. ASSUME NEW group \in SUBSET pms, MarkGroup(group)
      PROVE  ClashInv'
  <2>1. gray' = {} /\ queue' = inset'
    BY <1>1, <1>5 DEF MarkGroup, PhaseInv, Idle
  <2> QED
    BY <2>1 DEF ClashInv, Unasked
<1>6. CASE RunInstall
  <2>1. /\ stack = << >> /\ phase = "process" /\ ~ Stopped
        /\ UNCHANGED <<db, opts, inst, hand, inset, unset, gray, black, errors, queue>>
    BY <1>6 DEF RunInstall, Resolved, ictx
  <2>2. queue \ gray \subseteq (queue' \ gray') \union {}
    BY <2>1
  <2> QED
    BY <1>2, <2>1, <2>2 DEF Transacting
<1>7. ASSUME NEW p \in Pkg, InstallPackage(p), ~ Begins(p)
      PROVE  ClashInv'
  <2>1. /\ stack = << >> /\ phase = "process"
        /\ UNCHANGED <<db, opts, phase, inst, inset, hand, unset, black, errors, abort, interrupted>>
    BY <1>7 DEF InstallPackage
  <2>2. ~ Stopped
    BY <2>1 DEF Watched, Trying, Stopped
  <2>3. p \in gray
    BY <1>7, <2>2 DEF Begins
  <2>4. gray' = gray /\ queue' = queue \ {p}
    BY <1>7, <2>1, <2>2, <2>3 DEF InstallPackage, Stopped
  <2>5. queue \ gray \subseteq (queue' \ gray') \union {}
    BY <2>3, <2>4
  <2> QED
    BY <1>2, <2>1, <2>2, <2>5 DEF Transacting
<1>8. CASE \/ \E wanted \in Requests : Resolve(wanted)
           \/ \E p \in Pkg : SkipArgument(p)
           \/ MarkDone \/ GroupFails \/ NotInstalled \/ Installed
  BY <1>8 DEF Resolve, SkipArgument, MarkDone, GroupFails, NotInstalled, Installed, Watched, Trying, Transacting
<1> QED
  BY <1>3, <1>4, <1>5, <1>6, <1>7, <1>8 DEF Outer

(* No conflict is lost.                                                    *)
LEMMA ClashStep == IInv /\ BottomInv /\ ClashInv /\ [Next]_vars => ClashInv'
<1> SUFFICES ASSUME IInv, BottomInv, ClashInv, [Next]_vars, Watched'
             PROVE  ClashInv'
  BY DEF ClashInv, Watched
<1>1. TypeInv /\ PathInv /\ ReplacedInv
  BY DEF IInv, Marks
<1>2. ~ Stopped' /\ Transacting' /\ black' = {}
  BY DEF Watched, Trying
<1>3. ASSUME Transacting, ~ Stopped, UNCHANGED opts, black \subseteq black'
      PROVE  Watched
  BY <1>2, <1>3 DEF Watched, Trying
<1>4. CASE Outer
  BY <1>4, ClashOuter
<1>5. CASE CallStep
  <2>1. PICK c \in Call : Goes(c)
    BY <1>1, <1>2, <1>5, CallGoes
  <2>2. Watched
    BY <1>3, <2>1 DEF Goes, Moves, Transacting
  <2> QED
    BY <2>1, <2>2, ClashCalls
<1>6. CASE ProcessObsoletes
  <2>1. /\ phase = "process" /\ UNCHANGED <<opts, black, abort, interrupted>>
    BY <1>6 DEF ProcessObsoletes, Running
  <2>2. Watched
    BY <1>2, <1>3, <2>1 DEF Transacting, Stopped
  <2> QED
    BY <1>6, <2>2, ClashClears
<1>7. CASE PackageDone
  <2>1. Returns
    BY <1>1, <1>7, DoneReturns
  <2>2. Watched
    BY <1>2, <1>3, <2>1 DEF Returns, Transacting, Stopped
  <2> QED
    BY <1>7, <2>2, ClashReturns
<1>8. ~ Rollback /\ ~ NoRollback
  BY <1>2 DEF Rollback, NoRollback
<1>9. ASSUME NEW m \in Missing, NothingToFree(m[1], m[2])
      PROVE  FALSE
  BY <1>2, <1>9 DEF NothingToFree, Transacting
<1>10. CASE UNCHANGED vars
  BY <1>10 DEF vars, ictx, ClashInv, Trying, Transacting, Stopped, Unasked, Compared, Handled,
               Borne, Feared, Provided, Replaces, CapsObsolete, Particle
<1> QED
  BY <1>4, <1>5, <1>6, <1>7, <1>8, <1>9, <1>10, StepCases

-----------------------------------------------------------------------------
(* No orphan is lost.                                                      *)

(* What is mended stays so while nothing is rolled back or removed.        *)
LEMMA MendedKept ==
    ASSUME UNCHANGED <<db, opts, inst, unset>>, errors \subseteq errors', inset \subseteq inset'
    PROVE  \A o, r : Mended(o, r) => Mended(o, r)'
  BY DEF Mended, Provided, Replaces, SeemsToSucceed

(* get_orphaned finds who requires a capability that goes.                 *)
LEMMA FindsOrphans ==
    ASSUME NEW caps, NEW gone, NEW k \in caps, NEW o \in WhatRequires(db, k, gone),
           NEW r \in db.reqs[o], RequiresCap(r, k)
    PROVE  <<o, r>> \in MissedReqs(caps, gone)
<1> DEFINE O == UNION {WhatRequires(db, c, gone) : c \in caps}
           R(s, c) == {<<s, q>> : q \in {x \in db.reqs[s] : RequiresCap(x, c)}}
<1>1. o \in O
  OBVIOUS
<1>2. <<o, r>> \in R(o, k)
  OBVIOUS
<1> HIDE DEF O, R
<1>3. R(o, k) \in {R(s, c) : s \in O, c \in caps}
  BY <1>1
<1>4. <<o, r>> \in UNION {R(s, c) : s \in O, c \in caps}
  BY <1>2, <1>3
<1> QED
  BY <1>4 DEF MissedReqs, O, R

(* A step of the call on top.                                              *)
LEMMA OrphanCalls ==
    ASSUME IInv, OrphanInv, Trying, black = {}, NEW c, Goes(c)
    PROVE  OrphanInv'
<1>1. TypeInv /\ inset \subseteq Pkg /\ inst \subseteq Pkg
  BY DatabaseShape DEF IInv, Marks
<1>2. PICK n : n = Len(stack)
  OBVIOUS
<1>3. /\ Moves(c) /\ OrphanGoes(c)
      /\ UNCHANGED <<db, opts, inst, unset>> /\ errors \subseteq errors'
  BY DEF Goes, Moves
<1>4. /\ n \in Nat \ {0} /\ Top = stack[n]
      /\ \A j \in 1..(n - 1) : stack'[j] = stack[j]
      /\ stack'[n] = c
      /\ Len(stack') = n \/ Len(stack') = n + 1
      /\ inset \subseteq inset'
  BY <1>1, <1>2, <1>3, MovesShape DEF Calls
<1>5. /\ \A j \in 1..n : j = n \/ j \in 1..(n - 1)
      /\ \A j \in 1..n : j \in 1..Len(stack')
      /\ n \in 1..n
  BY <1>4
<1> SUFFICES ASSUME NEW o \in inst \ unset, NEW r \in db.reqs[o], r.rel # {}, Provided(inst, r)
             PROVE  Mended(o, r)' \/ \E j \in 1..Len(stack') : Misses(stack'[j], <<o, r>>)
  BY <1>3 DEF OrphanInv, Provided
<1>6. CASE Mended(o, r)
  BY <1>3, <1>4, <1>6, MendedKept
<1>7. ASSUME NEW j \in 1..n, Misses(stack[j], <<o, r>>)
      PROVE  Mended(o, r)' \/ \E k \in 1..Len(stack') : Misses(stack'[k], <<o, r>>)
  <2>1. CASE j \in 1..(n - 1)
    BY <1>4, <1>5, <1>7, <2>1
  <2>2. CASE j = n
    <3>1. PICK m : m = <<o, r>>
      OBVIOUS
    <3>2. m \in Top.missed /\ Misses(Top, m) /\ m[1] = o /\ m[2] = r
      BY <1>4, <1>7, <2>2, <3>1 DEF Misses
    <3>3. Misses(c, m) \/ (Provided(inst, m[2]) => Mended(m[1], m[2])')
      BY <1>1, <1>3, <3>2 DEF OrphanGoes
    <3>4. CASE Misses(c, m)
      <4>1. Misses(stack'[n], <<o, r>>)
        BY <1>4, <3>1, <3>4
      <4> QED
        BY <1>5, <4>1
    <3>5. CASE Mended(m[1], m[2])'
      BY <3>2, <3>5
    <3> QED
      BY <3>2, <3>3, <3>4, <3>5
  <2> QED
    BY <1>5, <2>1, <2>2
<1> QED
  BY <1>2, <1>6, <1>7 DEF OrphanInv

(* A package is done.                                                      *)
LEMMA OrphanReturns ==
    ASSUME IInv, OrphanInv, Trying, black = {}, PackageDone
    PROVE  OrphanInv'
<1>1. TypeInv /\ PathInv
  BY DEF IInv, Marks
<1>2. /\ stack \in Seq(Call) /\ stack # << >> /\ Top.at # "obsoletes" /\ Return(1)
      /\ UNCHANGED <<db, opts, inst, inset, unset>>
  BY <1>1, DoneReturns DEF Returns, TypeInv, TypeOK
<1>3. errors \subseteq errors' /\ Top.at # "orphans"
  BY DEF PackageDone, ConflictsProcessed, BeginConflicts, Processed, Running, ictx
<1>4. PICK n : n = Len(stack)
  OBVIOUS
<1>5. /\ n \in Nat \ {0} /\ Top = stack[n]
      /\ \/ n = 1 /\ stack' = << >>
         \/ /\ n > 1 /\ Len(stack') = n - 1
            /\ \A j \in 1..(n - 2) : stack'[j] = stack[j]
            /\ Remembers(stack'[n - 1], stack[n - 1])
  BY <1>1, <1>2, <1>4, PopShape
<1>6. \A j \in 1..n : j = n \/ (j \in 1..Len(stack') /\ \A m : Misses(stack[j], m) => Misses(stack'[j], m))
  <2>1. CASE n = 1
    BY <2>1
  <2>2. CASE /\ n > 1 /\ Len(stack') = n - 1
             /\ \A j \in 1..(n - 2) : stack'[j] = stack[j]
             /\ Remembers(stack'[n - 1], stack[n - 1])
    <3>1. \A j \in 1..n : j = n \/ (j \in 1..(n - 1) /\ (j \in 1..(n - 2) \/ j = n - 1))
      BY <1>5
    <3> QED
      BY <2>2, <3>1 DEF Remembers, Misses
  <2> QED
    BY <1>5, <2>1, <2>2
<1>7. \A m : ~ Misses(stack[n], m)
  BY <1>3, <1>5 DEF Misses
<1> SUFFICES ASSUME NEW o \in inst \ unset, NEW r \in db.reqs[o], r.rel # {}, Provided(inst, r)
             PROVE  Mended(o, r)' \/ \E j \in 1..Len(stack') : Misses(stack'[j], <<o, r>>)
  BY <1>2 DEF OrphanInv, Provided
<1>8. Mended(o, r) \/ \E j \in 1..n : Misses(stack[j], <<o, r>>)
  BY <1>4 DEF OrphanInv
<1> QED
  BY <1>2, <1>3, <1>6, <1>7, <1>8, MendedKept

(* What the package on top obsoletes is to be removed, and get_orphaned    *)
(* finds who misses it.                                                    *)
LEMMA OrphanClears ==
    ASSUME IInv, OrphanInv, Trying, black = {}, ProcessObsoletes
    PROVE  OrphanInv'
<1>1. TypeInv /\ PathInv /\ inset \subseteq Pkg /\ inst \subseteq Pkg
  BY DatabaseShape DEF IInv, Marks
<1>2. PICK n, p : n = Len(stack) /\ p = Top.pkg
  OBVIOUS
<1>3. PICK old : old = IF opts.upgrade /\ ~ interrupted THEN ObsoletedBy(p) ELSE {}
  OBVIOUS
<1>4. PICK S : S = MissedReqs(UnsatisfiedCaps(p, old), Gone \union old)
  OBVIOUS
<1>5. PICK c : c = [Top EXCEPT !.at = "orphans", !.obsoleted = old, !.missed = S]
  OBVIOUS
<1>6. /\ Replace(c) /\ unset' = unset \union old /\ stack # << >>
      /\ UNCHANGED <<db, opts, inst, inset, errors>>
  BY <1>2, <1>3, <1>4, <1>5 DEF ProcessObsoletes, Running
<1>7. old \subseteq inst
  BY <1>3 DEF ObsoletedBy
<1>8. Top \in Call /\ n \in Nat \ {0} /\ Top = stack[n]
  BY <1>1, <1>2, <1>6, StackSteps DEF TypeInv, TypeOK
<1>9. S \subseteq Pkg \X Req
  BY <1>1, <1>4, MissedTypes
<1>10. c \in Call /\ c.at = "orphans" /\ c.missed = S
  BY <1>1, <1>5, <1>7, <1>8, <1>9 DEF Call
<1>11. /\ Len(stack') = n /\ \A j \in 1..(n - 1) : stack'[j] = stack[j]
       /\ stack'[n] = c
  BY <1>1, <1>2, <1>6, <1>10, StackSteps DEF TypeInv, TypeOK
<1>12. n \in 1..n /\ \A j \in 1..n : j = n \/ j \in 1..(n - 1)
  BY <1>8
<1>13. Top.at = "obsoletes" /\ p \in inset /\ p \in Pkg
  BY <1>1, <1>2, <1>8, <1>12 DEF ProcessObsoletes, Running, PathInv
<1> SUFFICES ASSUME NEW o \in inst \ unset', NEW r \in db.reqs[o], r.rel # {}, Provided(inst, r)
             PROVE  Mended(o, r)' \/ \E j \in 1..Len(stack') : Misses(stack'[j], <<o, r>>)
  BY <1>6 DEF OrphanInv, Provided
<1>14. o \in inst \ unset /\ o \notin old /\ o \in Pkg
  BY <1>1, <1>6
<1>15. ASSUME NEW j \in 1..n, Misses(stack[j], <<o, r>>)
       PROVE  \E k \in 1..Len(stack') : Misses(stack'[k], <<o, r>>)
  <2>1. j # n
    BY <1>8, <1>13, <1>15 DEF Misses
  <2> QED
    BY <1>11, <1>12, <1>15, <2>1
<1>16. ASSUME Provided(inset, r) \/ <<o, r>> \in errors \/ \E s \in inset : Replaces(s, o) \/ SeemsToSucceed(s, o)
       PROVE  Mended(o, r)'
  BY <1>6, <1>16 DEF Mended, Provided, Replaces, SeemsToSucceed
<1>17. ASSUME NEW q \in inst \ unset, Satisfies(db, q, r)
       PROVE  Mended(o, r)' \/ \E j \in 1..Len(stack') : Misses(stack'[j], <<o, r>>)
  <2>1. CASE q \notin old
    BY <1>6, <1>17, <2>1 DEF Mended, Provided
  <2>2. CASE q \in old
    <3>1. PICK k \in db.caps[q] : CapMatchReq(k, r)
      BY <1>17 DEF Satisfies
    <3>2. q \in Pkg /\ k.name = r.name
      BY <1>1, <3>1 DEF CapMatchReq, CapXMatchReq
    <3>3. \A s \in Pkg : Satisfies(db, s, k) => Satisfies(db, s, r)
      BY <1>1, <1>14, <3>1, <3>2, MatchesAsReq
    <3>4. CASE Satisfies(db, o, k)
      BY <1>6, <1>14, <3>3, <3>4 DEF Mended, Provided
    <3>5. CASE k \notin UnsatisfiedCaps(p, old)
      <4>1. Satisfies(db, p, k) \/ \E s \in inset : Satisfies(db, s, k)
        BY <2>2, <3>1, <3>5 DEF UnsatisfiedCaps, Providers
      <4>2. Provided(inset, r)
        BY <1>1, <1>13, <3>3, <4>1 DEF Provided
      <4> QED
        BY <1>16, <4>2
    <3>6. CASE k \in UnsatisfiedCaps(p, old) /\ ~ Satisfies(db, o, k)
      <4>1. o \in WhatRequires(db, k, Gone \union old)
        BY <1>14, <3>2, <3>6 DEF WhatRequires, RequiresName, Gone
      <4>2. RequiresCap(r, k)
        BY <3>1, <3>2 DEF RequiresCap
      <4>3. <<o, r>> \in S
        BY <1>4, <3>6, <4>1, <4>2, FindsOrphans
      <4> QED
        BY <1>10, <1>11, <1>12, <4>3 DEF Misses
    <3> QED
      BY <3>4, <3>5, <3>6
  <2> QED
    BY <2>1, <2>2
<1>18. Mended(o, r) \/ \E j \in 1..n : Misses(stack[j], <<o, r>>)
  BY <1>2, <1>14 DEF OrphanInv
<1>19. CASE Provided(inst \ unset, r)
  BY <1>17, <1>19 DEF Provided
<1> QED
  BY <1>15, <1>16, <1>18, <1>19 DEF Mended

(* The steps outside of the calls.                                         *)
LEMMA OrphanOuter ==
    ASSUME IInv, OrphanInv, Outer, Trying', black' = {}
    PROVE  OrphanInv'
<1>1. TypeInv /\ PhaseInv
  BY DEF IInv, Marks
<1>2. ASSUME stack = << >>, UNCHANGED <<db, opts, inst, inset, unset, black, errors>>,
             Transacting, ~ Stopped
      PROVE  OrphanInv'
  <2>1. \A j : j \notin 1..Len(stack)
    BY <1>2
  <2>2. \A o \in inst \ unset : \A r \in db.reqs[o] : r.rel # {} /\ Provided(inst, r) => Mended(o, r)
    BY <1>2, <2>1 DEF OrphanInv, Trying
  <2> QED
    BY <1>2, <2>2, MendedKept DEF OrphanInv, Provided
<1>3. ~ Interrupt
  BY DEF Interrupt, Trying, Stopped
<1>4. ASSUME NEW group \in SUBSET pms, MarkGroup(group)
      PROVE  OrphanInv'
  <2>1. unset' = {} /\ UNCHANGED <<db, inst>>
    BY <1>1, <1>4 DEF MarkGroup, PhaseInv, Idle
  <2> QED
    BY <2>1 DEF OrphanInv, Mended, Provided
<1>5. CASE RunInstall
  BY <1>2, <1>5 DEF RunInstall, Resolved, Transacting, ictx
<1>6. ASSUME NEW p \in Pkg, InstallPackage(p)
      PROVE  OrphanInv'
  <2>1. /\ stack = << >> /\ phase = "process"
        /\ UNCHANGED <<db, opts, phase, inst, inset, unset, black, errors, abort, interrupted>>
    BY <1>6 DEF InstallPackage
  <2> QED
    BY <1>2, <2>1 DEF Trying, Transacting, Stopped
<1>7. CASE \/ \E wanted \in Requests : Resolve(wanted)
           \/ \E p \in Pkg : SkipArgument(p)
           \/ MarkDone \/ GroupFails \/ NotInstalled \/ Installed
  BY <1>7 DEF Resolve, SkipArgument, MarkDone, GroupFails, NotInstalled, Installed, Trying, Transacting
<1> QED
  BY <1>3, <1>4, <1>5, <1>6, <1>7 DEF Outer

(* No orphan is lost.                                                      *)
LEMMA OrphanInvStep ==
    IInv /\ BottomInv /\ OrphanInv /\ [Next]_vars => OrphanInv'
<1> SUFFICES ASSUME IInv, BottomInv, OrphanInv, [Next]_vars, Trying', black' = {}
             PROVE  OrphanInv'
  BY DEF OrphanInv
<1>1. TypeInv /\ PathInv /\ ReplacedInv
  BY DEF IInv, Marks
<1>2. ~ Stopped' /\ Transacting'
  BY DEF Trying
<1>3. CASE Outer
  BY <1>3, OrphanOuter
<1>4. CASE CallStep
  <2>1. PICK c \in Call : Goes(c)
    BY <1>1, <1>2, <1>4, CallGoes
  <2>2. Trying /\ black = {}
    BY <2>1 DEF Goes, Moves, Trying, Transacting
  <2> QED
    BY <2>1, <2>2, OrphanCalls
<1>5. CASE ProcessObsoletes
  <2>1. /\ phase = "process" /\ UNCHANGED <<opts, black, abort, interrupted>>
    BY <1>5 DEF ProcessObsoletes, Running
  <2>2. Trying /\ black = {}
    BY <1>2, <2>1 DEF Trying, Transacting, Stopped
  <2> QED
    BY <1>5, <2>2, OrphanClears
<1>6. CASE PackageDone
  <2>1. Returns
    BY <1>1, <1>6, DoneReturns
  <2>2. Trying /\ black = {}
    BY <1>2, <2>1 DEF Returns, Trying, Transacting, Stopped
  <2> QED
    BY <1>6, <2>2, OrphanReturns
<1>7. ~ Rollback /\ ~ NoRollback
  BY DEF Rollback, NoRollback
<1>8. ASSUME NEW m \in Missing, NothingToFree(m[1], m[2])
      PROVE  FALSE
  BY <1>2, <1>8 DEF NothingToFree, Transacting
<1>9. CASE UNCHANGED vars
  BY <1>9 DEF vars, ictx, OrphanInv, Trying, Transacting, Stopped, Mended, Misses, Provided, Replaces, SeemsToSucceed
<1> QED
  BY <1>3, <1>4, <1>5, <1>6, <1>7, <1>8, <1>9, StepCases

-----------------------------------------------------------------------------
(* What holds of the calls, holds in the beginning.                        *)
LEMMA CallsInit == Init => BottomInv /\ UnmetInv /\ ClashInv /\ OrphanInv
<1> SUFFICES ASSUME Init PROVE BottomInv /\ UnmetInv /\ ClashInv /\ OrphanInv
  OBVIOUS
<1>1. Len(stack) = 0 /\ stack = << >> /\ \A j : j \notin 1..0
  BY DEF Init
<1>2. ~ Transacting /\ gray = {} /\ unset = {} /\ phase = "resolve"
  BY DEF Init, Transacting
<1> QED
  BY <1>1, <1>2 DEF BottomInv, UnmetInv, ClashInv, OrphanInv, Trying

(* When the package manager is run, all calls are over.                    *)
LEMMA AllOver ==
    ASSUME IInv, phase = "install"
    PROVE  /\ Trying /\ queue = {} /\ inset \subseteq Pkg /\ inst \subseteq Pkg
           /\ Len(stack) = 0 /\ \A j : j \notin 1..Len(stack)
<1>1. stack = << >> /\ queue = {} /\ ~ Stopped
  BY DEF IInv, Marks, PhaseInv
<1>2. Len(stack) = 0 /\ \A j : j \notin 1..Len(stack)
  BY <1>1
<1> QED
  BY <1>1, <1>2, DatabaseShape DEF IInv, Marks, Trying, Transacting

(* What is going to be installed finds its requirements or the user knows  *)
(* what it misses, whatever has been rolled back and chosen again          *)
(* (process_req, rollback_package).                                        *)
LEMMA UnmetKnown == IInv /\ BottomInv /\ UnmetInv => UnmetIsKnown
<1> SUFFICES ASSUME IInv, BottomInv, UnmetInv, phase = "install", black = {} \/ AskedApart,
                    NEW p \in inset \ black, NEW r \in db.reqs[p]
             PROVE  Provided(After, r) \/ <<p, r>> \in errors \/ TakenByAnother(p, r)
  BY DEF UnmetIsKnown
<1>1. /\ Trying /\ queue = {} /\ inset \subseteq Pkg /\ Len(stack) = 0 /\ \A j : j \notin 1..Len(stack)
  BY AllOver
<1>2. 1 \in Levels /\ ~ 1 < 1
  BY <1>1 DEF Levels
<1>3. Stands(p, 1)
  BY <1>1 DEF Stands
<1>4. Heeded(1, p, r)
  BY <1>1, <1>2, <1>3 DEF UnmetInv
<1>5. \/ MetBySystem(p, r) \/ <<p, r>> \in errors
      \/ \E q \in Pkg : Stands(q, 1) /\ Satisfies(db, q, r)
  BY <1>1, <1>2, <1>4 DEF Heeded, Met
<1>6. ASSUME NEW q \in inst, Satisfies(db, q, r), Spares(p, q)
      PROVE  Provided(After, r) \/ TakenByAnother(p, r)
  <2>1. CASE q \notin unset
    BY <1>6, <2>1 DEF After, Provided
  <2>2. CASE q \in unset
    BY <1>6, <2>2 DEF BottomInv, Spares, TakenByAnother
  <2> QED
    BY <2>1, <2>2
<1> QED
  BY <1>5, <1>6 DEF MetBySystem, Stands, After, Provided

(* Nor does it conflict with what stays, or with what the user asked for.  *)
LEMMA ClashesKnown == IInv /\ BottomInv /\ ClashInv => NoConflictsInstalled
<1> SUFFICES ASSUME IInv, BottomInv, ClashInv, phase = "install",
                    opts.conflicts, opts.upgrade, opts.obsoletes, black = {}
             PROVE  /\ \A p \in inset, q \in inst \ unset :
                          Clash(p, q) \/ Clash(q, p) => \E s \in inset : SeemsToObsolete(s, q)
                    /\ ~ Particle => \A p \in inset : \A q \in hand \ {p} : ~ Clash(p, q)
  BY DEF NoConflictsInstalled
<1>1. /\ Trying /\ queue = {} /\ inset \subseteq Pkg /\ inst \subseteq Pkg
      /\ Len(stack) = 0 /\ \A j : j \notin 1..Len(stack)
  BY AllOver
<1>2. HandInv /\ hand \subseteq inset
  BY <1>1 DEF IInv, Marks, HandInv, Trying
<1>3. \A p : ~ Unasked(p)
  BY <1>1 DEF Unasked
<1>4. \A p \in inset : Compared(p)
  BY <1>1, <1>3 DEF ClashInv
<1>5. \A p, q, x : ~ Borne(p, q, x) /\ ~ Feared(p, q, x)
  BY <1>1 DEF Borne, Feared
<1>6. \A p : \A q \in Pkg : <<p, q>> \notin errors
  BY DEF BottomInv, Fatal
<1>7. ReplacedAreRemoved
  <2>1. \A p \in inset : p \in Settled
    <3>1. inset \subseteq gray
      BY <1>1 DEF IInv, Marks, PhaseInv, Trying
    <3> QED
      BY <1>1, <3>1 DEF Settled
  <2>2. ~ Stopped
    BY <1>1 DEF Trying
  <2> QED
    BY <2>1, <2>2 DEF ReplacedAreRemoved, IInv, ReplacedInv, ObsoletedBy, Stopped
<1>8. \A p \in inset, q \in inst \ unset : ~ Replaces(p, q)
  BY <1>7 DEF ReplacedAreRemoved, ObsoletedBy
<1>9. \A p, x : \A q \in inst \ unset : Handled(p, q, x) =>
         \/ x.rel # {} /\ Provided(inset, Opposite(x))
         \/ \E s \in inset : SeemsToObsolete(s, q)
  BY <1>1, <1>6, <1>8 DEF Handled, SeemsToObsolete
<1>10. \A p \in inset, q \in inst \ unset :
          Clash(p, q) \/ Clash(q, p) => \E s \in inset : SeemsToObsolete(s, q)
  BY <1>4, <1>5, <1>9 DEF Compared, Clash
<1>11. ASSUME ~ Particle, NEW p \in inset, NEW q \in hand \ {p}
       PROVE  ~ Clash(p, q)
  BY <1>1, <1>2, <1>4, <1>6, <1>11 DEF Compared, Clash
<1> QED
  BY <1>10, <1>11

(* Nothing reaches the package manager that poldek should have refused:    *)
(* neither an unmet requirement nor a conflict gets lost while packages    *)
(* are chosen, given up and upgraded (i3_error, i3_forget_error).          *)
THEOREM NothingGetsHidden == Spec => []NothingIsHidden
<1> DEFINE Inv == IInv /\ BottomInv /\ UnmetInv /\ ClashInv
<1>1. Init => Inv
  BY IInit, CallsInit
<1>2. Inv /\ [Next]_vars => Inv'
  BY IStep, BottomStep, UnmetStep, ClashStep
<1>3. Inv => NothingIsHidden
  BY UnmetKnown, ClashesKnown DEF NothingIsHidden
<1> QED
  BY <1>1, <1>2, <1>3, PTL DEF Spec

(* An upgrade takes no requirement away from an installed package that     *)
(* stays, unless the user is told (get_orphaned, process_orphan_req).      *)
THEOREM OrphansStayWhole == Spec => []OrphansKeptWhole
<1> DEFINE Inv == IInv /\ BottomInv /\ OrphanInv
<1>1. Init => Inv
  BY IInit, CallsInit
<1>2. Inv /\ [Next]_vars => Inv'
  BY IStep, BottomStep, OrphanInvStep
<1>3. Inv => OrphansKeptWhole
  <2> SUFFICES ASSUME Inv, phase = "install", black = {},
                      NEW o \in inst \ unset, NEW r \in db.reqs[o], r.rel # {}, Provided(inst, r)
               PROVE  \/ Provided(After, r) \/ <<o, r>> \in errors
                      \/ \E s \in inset : SeemsToSucceed(s, o)
    BY DEF OrphansKeptWhole
  <2>1. Trying /\ Len(stack) = 0 /\ \A j : j \notin 1..Len(stack)
    BY AllOver
  <2>2. Mended(o, r)
    BY <2>1 DEF OrphanInv
  <2>3. ASSUME NEW s \in inset, Replaces(s, o)
        PROVE  Provided(After, r)
    <3>1. CASE opts.upgrade
      <4>1. s \in Settled
        <5>1. inset \subseteq gray
          BY AllOver DEF IInv, Marks, PhaseInv, Trying
        <5> QED
          BY <2>1, <5>1 DEF Settled
      <4>2. ~ Stopped
        BY <2>1 DEF Trying
      <4> QED
        BY <2>3, <3>1, <4>1, <4>2 DEF IInv, ReplacedInv, Stopped
    <3>2. CASE ~ opts.upgrade
      BY <3>2 DEF BottomInv, After, Provided
    <3> QED
      BY <3>1, <3>2
  <2> QED
    BY <2>2, <2>3 DEF Mended, After, Provided
<1> QED
  BY <1>1, <1>2, <1>3, PTL DEF Spec

=============================================================================
