--------------------------- MODULE TransferProofs ---------------------------
(***************************************************************************)
(* What Transfer guarantees for every number of processes, files, versions *)
(* and attempts, and for every list of packages, one package twice in it   *)
(* included.                                                               *)
(***************************************************************************)
EXTENDS Transfer, SequenceTheorems, FiniteSetTheorems, TLAPS

-----------------------------------------------------------------------------
(* A process that fetches has the file it fetches at the head of the array *)
(* of its site; what it has fetched is of one site, and of that site there *)
(* is more to fetch until it is verified.                                  *)
Fetching == {"open", "stat", "attempt", "ask", "answer", "body", "close", "failed", "client"}

TaskInv(t, w) ==
    /\ t.at \in {"check", "discard"} => t.look # <<>> /\ t.fetched = <<>>
    /\ t.at \notin {"check", "discard"} => t.look = <<>> \/ t.interrupted
    /\ t.at = "verify" => t.fetched # <<>>
    /\ \A s \in Protocols : \A f \in ToSet(t.urls[s]) : w[f] = s
    /\ t.at \in {"next"} \union Fetching /\ t.fetched # <<>> => t.urls[w[Head(t.fetched)]] # <<>>
    /\ t.at = "done" /\ ~t.errors => ~t.interrupted /\ t.urls = NoUrls /\ t.fetched = <<>>

ReqInv(t, r, w) ==
    t.at \in Fetching =>
        /\ t.urls[w[r.file]] # <<>> /\ Head(t.urls[w[r.file]]) = r.file
        /\ t.fetched # <<>> => w[Head(t.fetched)] = w[r.file]

(* What is still to be fetched or to be verified.                          *)
InHand(t) == {f \in Files : \/ f \in ToSet(t.fetched)
                            \/ \E s \in Protocols : f \in ToSet(t.urls[s])}

(* Every package is accounted for unless an error was or will be reported. *)
Good(x) == x # NoFile /\ Whole(x.data)
Accounted(t, ws, d, D) ==
    t.at # "dead" /\ ~t.errors /\ ~t.interrupted =>
        /\ \A f \in t.verified : Good(d[f]) \/ f \in D \union InHand(t)
        /\ ToSet(ws) \subseteq t.verified \union InHand(t) \union ToSet(t.look)

(* The parts of what a process transfers by HTTP.                          *)
InOrder(data) == \A i \in 1..Len(data) : data[i][2] = i
VersionsIn(data) == {data[i][1] : i \in 1..Len(data)}

PartInv(a, r, n) ==
    /\ a = "stat" => r.tries = n
    /\ a \in {"attempt", "ask", "answer", "body", "close"} => r.tries \in 1..n
    /\ r.proto = "http" =>
        /\ a \in {"attempt", "ask", "answer", "body", "close"} => InOrder(r.data)
        /\ a \in {"attempt", "ask", "answer"} => Cardinality(VersionsIn(r.data)) + r.tries <= n
        /\ a = "body" => /\ r.pos = Len(r.data) + 1
                            /\ Cardinality(VersionsIn(r.data) \union {r.ver}) + r.tries <= 1 + n
        /\ a = "close" => Cardinality(VersionsIn(r.data)) + r.tries <= 1 + n

Each(p) == /\ TaskInv(task[p], site) /\ ReqInv(task[p], req[p], site)
           /\ Accounted(task[p], Wanted[p], dir, disturbed[p])
           /\ PartInv(task[p].at, req[p], Attempts[p])

IInv == TypeOK /\ \A p \in Proc : Each(p)

-----------------------------------------------------------------------------
(* Sequences and the sets of what is in them.                              *)
LEMMA Appended ==
    ASSUME NEW S, NEW s \in Seq(S), NEW x \in S
    PROVE  /\ Append(s, x) \in Seq(S) /\ Append(s, x) # <<>>
           /\ Len(Append(s, x)) = Len(s) + 1
           /\ \A i \in 1..Len(s) : Append(s, x)[i] = s[i]
           /\ Append(s, x)[Len(s) + 1] = x
           /\ ToSet(Append(s, x)) = ToSet(s) \union {x}
           /\ Head(Append(s, x)) = IF s = <<>> THEN x ELSE Head(s)
<1>1. /\ Append(s, x) \in Seq(S) /\ Append(s, x) # <<>>
      /\ Len(Append(s, x)) = Len(s) + 1
      /\ \A i \in 1..Len(s) : Append(s, x)[i] = s[i]
      /\ Append(s, x)[Len(s) + 1] = x
      /\ DOMAIN Append(s, x) = 1..(Len(s) + 1) /\ DOMAIN s = 1..Len(s)
  OBVIOUS
<1>2. 1..(Len(s) + 1) = (1..Len(s)) \union {Len(s) + 1}
  OBVIOUS
<1>3. ToSet(Append(s, x)) = ToSet(s) \union {x}
  BY <1>1, <1>2 DEF ToSet
<1> QED
  BY <1>1, <1>3

LEMMA HeadAndTail ==
    ASSUME NEW S, NEW s \in Seq(S), s # <<>>
    PROVE  /\ Head(s) \in S /\ Tail(s) \in Seq(S)
           /\ ToSet(s) = {Head(s)} \union ToSet(Tail(s))
<1>1. /\ Head(s) \in S /\ Tail(s) \in Seq(S) /\ Len(s) \in Nat /\ Len(s) > 0
      /\ Head(s) = s[1] /\ Len(Tail(s)) = Len(s) - 1
      /\ \A i \in 1..(Len(s) - 1) : Tail(s)[i] = s[i + 1]
      /\ DOMAIN s = 1..Len(s) /\ DOMAIN Tail(s) = 1..(Len(s) - 1)
  OBVIOUS
<1>2. ToSet(s) \subseteq {Head(s)} \union ToSet(Tail(s))
  <2> SUFFICES ASSUME NEW i \in 1..Len(s), i # 1
               PROVE  s[i] \in ToSet(Tail(s))
    BY <1>1 DEF ToSet
  <2>1. i - 1 \in 1..(Len(s) - 1) /\ Tail(s)[i - 1] = s[i]
    BY <1>1
  <2> QED
    BY <1>1, <2>1 DEF ToSet
<1>3. {Head(s)} \union ToSet(Tail(s)) \subseteq ToSet(s)
  <2>1. 1 \in DOMAIN s /\ \A i \in DOMAIN Tail(s) : i + 1 \in DOMAIN s
    BY <1>1
  <2> QED
    BY <1>1, <2>1 DEF ToSet
<1> QED
  BY <1>1, <1>2, <1>3

LEMMA SetOfSeq ==
    ASSUME NEW S, NEW s \in Seq(S)
    PROVE  /\ ToSet(s) \subseteq S
           /\ s # <<>> => Head(s) \in ToSet(s)
           /\ s = <<>> => ToSet(s) = {}
<1>1. ToSet(s) \subseteq S
  BY DEF ToSet
<1>2. s # <<>> => Head(s) \in ToSet(s)
  BY HeadAndTail
<1>3. ToSet(<<>>) = {}
  BY DEF ToSet
<1> QED
  BY <1>1, <1>2, <1>3

(* The versions in a file are finitely many.                               *)
LEMMA VersionsFinite ==
    ASSUME NEW data \in Data
    PROVE  /\ VersionsIn(data) \subseteq Versions \union {Page}
           /\ \A vs \in SUBSET (Versions \union {Page}), v \in Versions \union {Page} :
                 /\ IsFiniteSet(vs) /\ Cardinality(vs) \in Nat
                 /\ Cardinality(vs \union {v}) \in Nat
                 /\ Cardinality(vs \union {v}) <= Cardinality(vs) + 1
                 /\ Cardinality(vs) <= Cardinality(vs \union {v})
           /\ Cardinality(VersionsIn(<<>>)) = 0
<1>1. VersionsIn(data) \subseteq Versions \union {Page}
  <2>1. \A i \in 1..Len(data) : data[i] \in Part
    BY DEF Data
  <2>2. \A x \in Part : x[1] \in Versions \union {Page}
    BY DEF Part
  <2> QED
    BY <2>1, <2>2 DEF VersionsIn
<1>2. Versions \union {Page} = 0..Len(Size) /\ Len(Size) \in Nat
  <2>1. Size \in Seq(Nat \ {0})
    BY SizeAssumption
  <2>2. DOMAIN Size = 1..Len(Size) /\ Len(Size) \in Nat
    BY <2>1
  <2>3. (1..Len(Size)) \union {0} = 0..Len(Size)
    BY <2>2
  <2> QED
    BY <2>2, <2>3 DEF Versions, Page
<1>3. IsFiniteSet(Versions \union {Page})
  <2>1. 0 \in Int /\ Len(Size) \in Int
    BY <1>2
  <2>2. IsFiniteSet(0..Len(Size))
    BY <2>1, FS_Interval
  <2> QED
    BY <1>2, <2>2
<1>4. ASSUME NEW vs \in SUBSET (Versions \union {Page}), NEW v \in Versions \union {Page}
      PROVE  /\ IsFiniteSet(vs) /\ Cardinality(vs) \in Nat
             /\ Cardinality(vs \union {v}) \in Nat
             /\ Cardinality(vs \union {v}) <= Cardinality(vs) + 1
             /\ Cardinality(vs) <= Cardinality(vs \union {v})
  <2>1. IsFiniteSet(vs) /\ IsFiniteSet(vs \union {v})
    BY <1>3, <1>4, FS_Subset
  <2>2. Cardinality(vs) \in Nat /\ Cardinality(vs \union {v}) \in Nat
    BY <2>1, FS_CardinalityType
  <2> QED
    BY <2>1, <2>2, FS_AddElement
<1>5. Cardinality(VersionsIn(<<>>)) = 0
  <2>1. VersionsIn(<<>>) = {}
    BY DEF VersionsIn
  <2>2. Cardinality({}) = 0
    BY FS_EmptySet
  <2> QED
    BY <2>1, <2>2, Zenon
<1> QED
  BY <1>1, <1>4, <1>5

-----------------------------------------------------------------------------
(* The state packages_fetch begins with.                                   *)
LEMMA NoneTypes ==
    /\ NoUrls \in [Protocols -> Seq(Files)]
    /\ NoRequest \in Request
    /\ NoConnections \in [{"http", "ftp"} -> Connection]
<1>1. NoUrls \in [Protocols -> Seq(Files)]
  BY DEF NoUrls
<1>2. NoRequest \in Request
  <2>1. (CHOOSE f \in Files : TRUE) \in Files
    BY FilesAssumption
  <2> QED
    BY <2>1 DEF NoRequest, Request, Data, Page
<1>3. NoConnections \in [{"http", "ftp"} -> Connection]
  BY DEF NoConnections, Connection
<1> QED
  BY <1>1, <1>2, <1>3

LEMMA TInit == Init => IInv
<1> SUFFICES ASSUME Init PROVE IInv
  OBVIOUS
<1>1. 1 \in Versions /\ Size[1] \in Nat \ {0}
  BY SizeAssumption DEF Versions
<1>2. Earlier \subseteq File \union {NoFile}
  <2>1. ASSUME NEW n \in {1, Size[1]}
        PROVE  [i \in 1..n |-> <<1, i>>] \in Data
    BY <1>1 DEF Data, Part
  <2>2. ASSUME NEW n \in {1, Size[1]}
        PROVE  [data |-> [i \in 1..n |-> <<1, i>>], mtime |-> 1] \in File
    BY <2>1 DEF File
  <2> QED
    BY <2>2 DEF Earlier
<1>3. server \in [Files -> Versions \union {0}]
  BY <1>1 DEF Init
<1>4. dir \in [Files -> File \union {NoFile}]
  BY <1>2 DEF Init
<1>5. \A p \in Proc : Wanted[p] \in Seq(Files)
  BY WantedAssumption
<1>6. task \in [Proc -> Task]
  BY <1>5, NoneTypes DEF Init, Task, At
<1>7. TypeOK
  BY <1>3, <1>4, <1>6, NoneTypes DEF Init, TypeOK, Page
<1>8. ASSUME NEW p \in Proc PROVE Each(p)
  <2>1. /\ task[p].at = IF Wanted[p] = <<>> THEN "next" ELSE "check"
        /\ task[p].look = Wanted[p] /\ task[p].urls = NoUrls /\ task[p].fetched = <<>>
        /\ task[p].verified = {}
    BY DEF Init
  <2>2. TaskInv(task[p], site)
    <3>1. \A s \in Protocols : ToSet(task[p].urls[s]) = {}
      BY <2>1 DEF NoUrls, ToSet
    <3> QED
      BY <2>1, <3>1 DEF TaskInv
  <2>3. /\ ReqInv(task[p], req[p], site) /\ PartInv(task[p].at, req[p], Attempts[p])
        /\ Accounted(task[p], Wanted[p], dir, disturbed[p])
    BY <2>1 DEF ReqInv, PartInv, Accounted, Fetching
  <2> QED
    BY <2>2, <2>3 DEF Each
<1> QED
  BY <1>7, <1>8 DEF IInv

-----------------------------------------------------------------------------
(* A step of one process.  The others keep their requests, but for the     *)
(* name of a file that was unlinked, and learn what was done to files that *)
(* they had verified.                                                      *)
SameBut(r, o) ==
    /\ o.file = r.file /\ o.proto = r.proto /\ o.data = r.data
    /\ o.tries = r.tries /\ o.ver = r.ver /\ o.pos = r.pos

LEMMA OthersKeep ==
    ASSUME IInv, NEW q \in Proc, task'[q] = task[q], UNCHANGED site,
           SameBut(req[q], req'[q]), disturbed[q] \subseteq disturbed'[q],
           \A f \in task[q].verified : Good(dir[f]) => Good(dir'[f]) \/ f \in disturbed'[q]
    PROVE  Each(q)'
<1>1. Each(q)
  BY DEF IInv
<1>2. TaskInv(task[q], site) /\ ReqInv(task[q], req'[q], site)
  BY <1>1 DEF Each, ReqInv, SameBut
<1>3. Accounted(task[q], Wanted[q], dir', disturbed'[q])
  BY <1>1 DEF Each, Accounted
<1>4. PartInv(task[q].at, req'[q], Attempts[q])
  BY <1>1 DEF Each, PartInv, SameBut
<1> QED
  BY <1>2, <1>3, <1>4 DEF Each

(* What p does to the files: to those others had verified it is noted, or  *)
(* nothing that was whole was touched.                                     *)
Noted(p) == Disturbs(p) \/ (UNCHANGED disturbed /\ \A f \in Files : Good(dir[f]) => Good(dir'[f]))

LEMMA NotedKeeps ==
    ASSUME TypeOK, NEW p \in Proc, Noted(p)
    PROVE  /\ disturbed' \in [Proc -> SUBSET Files] /\ disturbed'[p] = disturbed[p]
           /\ \A q \in Proc \ {p} :
                /\ disturbed[q] \subseteq disturbed'[q]
                /\ \A f \in task[q].verified : Good(dir[f]) => Good(dir'[f]) \/ f \in disturbed'[q]
<1>1. /\ disturbed \in [Proc -> SUBSET Files] /\ \A q \in Proc : task[q].verified \subseteq Files
  BY DEF TypeOK, Task
<1>2. CASE Disturbs(p)
  BY <1>1, <1>2 DEF Disturbs
<1>3. CASE UNCHANGED disturbed /\ \A f \in Files : Good(dir[f]) => Good(dir'[f])
  BY <1>1, <1>3
<1> QED
  BY <1>2, <1>3 DEF Noted

(* The request of p becomes r.                                             *)
Requests(p, r) == \/ req' = [req EXCEPT ![p] = r]
                  \/ \E f \in Files : req' = [Orphaned(f) EXCEPT ![p] = r]

LEMMA RequestsKeep ==
    ASSUME TypeOK, NEW p \in Proc, NEW r \in Request, Requests(p, r)
    PROVE  /\ req' \in [Proc -> Request] /\ req'[p] = r
           /\ \A q \in Proc \ {p} : SameBut(req[q], req'[q])
<1>1. req \in [Proc -> Request]
  BY DEF TypeOK
<1>2. ASSUME NEW f \in Files
      PROVE  /\ Orphaned(f) \in [Proc -> Request]
             /\ \A q \in Proc : SameBut(req[q], Orphaned(f)[q])
  <2> SUFFICES ASSUME NEW q \in Proc
               PROVE  Orphaned(f)[q] \in Request /\ SameBut(req[q], Orphaned(f)[q])
    BY DEF Orphaned
  <2>1. [req[q] EXCEPT !.linked = FALSE] \in Request
    BY <1>1 DEF Request
  <2>2. SameBut(req[q], [req[q] EXCEPT !.linked = FALSE]) /\ SameBut(req[q], req[q])
    BY <1>1 DEF SameBut, Request
  <2> QED
    BY <1>1, <2>1, <2>2 DEF Orphaned
<1>3. CASE req' = [req EXCEPT ![p] = r]
  BY <1>1, <1>3 DEF SameBut
<1>4. CASE \E f \in Files : req' = [Orphaned(f) EXCEPT ![p] = r]
  <2>1. PICK f \in Files : req' = [Orphaned(f) EXCEPT ![p] = r]
    BY <1>4
  <2> QED
    BY <1>2, <2>1
<1> QED
  BY <1>3, <1>4 DEF Requests

LEMMA OneSteps ==
    ASSUME IInv, NEW p \in Proc, UNCHANGED <<site, server>>,
           dir' \in [Files -> File \union {NoFile}], lock' \in Proc \union {NoProc},
           conn' \in [Proc -> [{"http", "ftp"} -> Connection]],
           NEW t \in Task, task' = [task EXCEPT ![p] = t],
           NEW r \in Request, Requests(p, r), Noted(p),
           TaskInv(t, site), ReqInv(t, r, site), PartInv(t.at, r, Attempts[p]),
           Accounted(t, Wanted[p], dir', disturbed[p])
    PROVE  IInv'
<1>1. /\ task' \in [Proc -> Task] /\ task'[p] = t
      /\ \A q \in Proc \ {p} : task'[q] = task[q]
  BY DEF IInv, TypeOK
<1>2. TypeOK
  BY DEF IInv
<1>3. /\ req' \in [Proc -> Request] /\ req'[p] = r
      /\ \A q \in Proc \ {p} : SameBut(req[q], req'[q])
  BY <1>2, RequestsKeep
<1>4. /\ disturbed' \in [Proc -> SUBSET Files] /\ disturbed'[p] = disturbed[p]
      /\ \A q \in Proc \ {p} :
           /\ disturbed[q] \subseteq disturbed'[q]
           /\ \A f \in task[q].verified : Good(dir[f]) => Good(dir'[f]) \/ f \in disturbed'[q]
  BY <1>2, NotedKeeps
<1>5. TypeOK'
  BY <1>1, <1>2, <1>3, <1>4 DEF TypeOK
<1>6. Each(p)'
  BY <1>1, <1>3, <1>4 DEF Each
<1>7. ASSUME NEW q \in Proc \ {p} PROVE Each(q)'
  BY <1>1, <1>3, <1>4, OthersKeep
<1> QED
  BY <1>5, <1>6, <1>7 DEF IInv


-----------------------------------------------------------------------------
(* A step within the transfer of one file: that file is the only one it    *)
(* changes, and it is in hand.                                             *)
LEMMA HasInHand ==
    ASSUME IInv, NEW p \in Proc, task[p].at \in Fetching
    PROVE  /\ site[File_(p)] \in Protocols /\ File_(p) \in Files
           /\ task[p].urls[SiteOf(p)] \in Seq(Files) /\ task[p].urls[SiteOf(p)] # <<>>
           /\ Head(task[p].urls[SiteOf(p)]) = File_(p)
           /\ File_(p) \in ToSet(task[p].urls[SiteOf(p)])
           /\ File_(p) \in InHand(task[p])
<1>1. File_(p) \in Files /\ task[p].urls \in [Protocols -> Seq(Files)]
  BY DEF IInv, TypeOK, Request, Task, File_
<1>2. site[File_(p)] \in Protocols
  BY <1>1 DEF IInv, TypeOK
<1>3. /\ task[p].urls[SiteOf(p)] \in Seq(Files) /\ task[p].urls[SiteOf(p)] # <<>>
      /\ Head(task[p].urls[SiteOf(p)]) = File_(p)
  BY <1>1, <1>2 DEF IInv, Each, ReqInv, SiteOf, File_
<1>4. File_(p) \in ToSet(task[p].urls[SiteOf(p)])
  BY <1>3, SetOfSeq
<1> QED
  BY <1>1, <1>2, <1>3, <1>4 DEF InHand, SiteOf

LEMMA StaysFetching ==
    ASSUME IInv, NEW p \in Proc, UNCHANGED <<site, server>>,
           dir' \in [Files -> File \union {NoFile}], lock' \in Proc \union {NoProc},
           conn' \in [Proc -> [{"http", "ftp"} -> Connection]],
           task[p].at \in Fetching, NEW a \in Fetching, Goto(p, a),
           NEW r \in Request, r.file = File_(p), Requests(p, r), Noted(p),
           \A f \in Files \ {File_(p)} : dir'[f] = dir[f],
           PartInv(a, r, Attempts[p])
    PROVE  IInv'
<1> DEFINE t == [task[p] EXCEPT !.at = a]
<1>1. task[p] \in Task /\ Fetching \subseteq At
  BY DEF IInv, TypeOK, Fetching, At
<1>2. /\ t \in Task /\ t.at = a /\ t.look = task[p].look /\ t.urls = task[p].urls
      /\ t.fetched = task[p].fetched /\ t.verified = task[p].verified
      /\ t.errors = task[p].errors /\ t.interrupted = task[p].interrupted
  BY <1>1 DEF Task
<1>3. task' = [task EXCEPT ![p] = t]
  BY DEF Goto, IInv, TypeOK
<1> HIDE DEF t
<1>4. Each(p)
  BY DEF IInv
<1>5. TaskInv(t, site)
  BY <1>2, <1>4 DEF Each, TaskInv, Fetching
<1>6. ReqInv(t, r, site)
  BY <1>2, <1>4 DEF Each, ReqInv, File_
<1>7. Accounted(t, Wanted[p], dir', disturbed[p])
  <2>1. InHand(t) = InHand(task[p]) /\ File_(p) \in InHand(task[p])
    BY <1>2, HasInHand DEF InHand
  <2>2. task[p].at # "dead" /\ task[p].verified \subseteq Files
    BY <1>1 DEF Fetching, Task
  <2> QED
    BY <1>2, <1>4, <2>1, <2>2 DEF Each, Accounted
<1>8. PartInv(t.at, r, Attempts[p])
  BY <1>2
<1> QED
  BY <1>2, <1>3, <1>5, <1>6, <1>7, <1>8, OneSteps

LEMMA PoolTypes ==
    ASSUME TypeOK, NEW p \in Proc, NEW c \in Connection, Pool(p, c)
    PROVE  conn' \in [Proc -> [{"http", "ftp"} -> Connection]]
BY DEF TypeOK, Pool

(* The same for steps that change no file.                                 *)
LEMMA FetchesOn ==
    ASSUME IInv, NEW p \in Proc, UNCHANGED <<site, server, dir, lock, disturbed>>,
           conn' \in [Proc -> [{"http", "ftp"} -> Connection]],
           task[p].at \in Fetching, NEW a \in Fetching, Goto(p, a),
           NEW r \in Request, r.file = File_(p), req' = [req EXCEPT ![p] = r],
           PartInv(a, r, Attempts[p])
    PROVE  IInv'
<1>1. dir' \in [Files -> File \union {NoFile}] /\ lock' \in Proc \union {NoProc}
  BY DEF IInv, TypeOK
<1> QED
  BY <1>1, StaysFetching DEF Noted, Requests

(* What do_vfile_req does with a failed attempt.                           *)
Attempted(r, n) ==
    /\ r.tries \in 1..n
    /\ r.proto = "http" => InOrder(r.data) /\ Cardinality(VersionsIn(r.data)) + r.tries <= 1 + n

LEMMA AttemptFailed ==
    ASSUME IInv, NEW p \in Proc, NEW r \in Request, r.file = File_(p), NEW errno,
           AttemptFails(p, r, errno), Attempted(r, Attempts[p])
    PROVE  \E a \in {"failed", "attempt"}, o \in Request :
              /\ Goto(p, a) /\ o.file = File_(p) /\ req' = [req EXCEPT ![p] = o]
              /\ PartInv(a, o, Attempts[p])
<1> DEFINE over == errno \in GivesUp \/ r.foreign \/ r.tries = 1
           o == [r EXCEPT !.tries = @ - 1, !.redirects = 0]
<1>1. /\ req' = [req EXCEPT ![p] = IF over THEN r ELSE o]
      /\ Goto(p, IF over THEN "failed" ELSE "attempt")
  BY DEF AttemptFails
<1>2. Attempts[p] \in Nat /\ r.tries \in 1..Attempts[p] /\ r.data \in Data
  BY BoundsAssumption DEF Attempted, Request
<1>3. CASE over
  <2>1. PartInv("failed", r, Attempts[p])
    BY DEF PartInv
  <2> QED
    BY <1>1, <1>3, <2>1
<1>4. CASE ~over
  <2>0. r.tries - 1 \in 1..Attempts[p] /\ r.tries - 1 \in Nat
    BY <1>2, <1>4
  <2>1. /\ o \in Request /\ o.file = r.file /\ o.proto = r.proto /\ o.data = r.data
        /\ o.tries = r.tries - 1
    BY <2>0 DEF Request
  <2> HIDE DEF o
  <2>2. Cardinality(VersionsIn(r.data)) \in Nat
    BY <1>2, VersionsFinite
  <2>3. PartInv("attempt", o, Attempts[p])
    BY <1>2, <2>0, <2>1, <2>2 DEF PartInv, Attempted
  <2> QED
    BY <1>1, <1>4, <2>1, <2>3
<1> QED
  BY <1>3, <1>4

LEMMA FailedKeeps ==
    ASSUME IInv, NEW p \in Proc, UNCHANGED <<site, server, dir, lock, disturbed>>,
           conn' \in [Proc -> [{"http", "ftp"} -> Connection]], task[p].at \in Fetching,
           NEW r \in Request, r.file = File_(p), NEW errno,
           AttemptFails(p, r, errno), Attempted(r, Attempts[p])
    PROVE  IInv'
<1>1. PICK a \in {"failed", "attempt"}, o \in Request :
              /\ Goto(p, a) /\ o.file = File_(p) /\ req' = [req EXCEPT ![p] = o]
              /\ PartInv(a, o, Attempts[p])
  BY AttemptFailed
<1>2. a \in Fetching
  BY DEF Fetching
<1> QED
  BY <1>1, <1>2, FetchesOn

(* What is known of the request in an attempt.                             *)
LEMMA InAttempt ==
    ASSUME IInv, NEW p \in Proc
    PROVE  /\ req[p] \in Request /\ req[p].data \in Data /\ req[p].file = File_(p)
           /\ Attempts[p] \in Nat /\ PartInv(task[p].at, req[p], Attempts[p])
           /\ task[p].at \in {"attempt", "ask", "answer", "body"} =>
                 Attempted(req[p], Attempts[p])
           /\ VersionsIn(req[p].data) \subseteq Versions \union {Page}
           /\ Cardinality(VersionsIn(req[p].data)) \in Nat
<1>1. req[p] \in Request /\ PartInv(task[p].at, req[p], Attempts[p]) /\ Attempts[p] \in Nat
  BY BoundsAssumption DEF IInv, TypeOK, Each
<1>2. req[p].data \in Data /\ req[p].ver \in Versions \union {Page} /\ req[p].tries \in Nat
  BY <1>1 DEF Request
<1>3. /\ VersionsIn(req[p].data) \subseteq Versions \union {Page}
      /\ Cardinality(VersionsIn(req[p].data)) \in Nat
      /\ Cardinality(VersionsIn(req[p].data))
            <= Cardinality(VersionsIn(req[p].data) \union {req[p].ver})
      /\ Cardinality(VersionsIn(req[p].data) \union {req[p].ver}) \in Nat
  BY <1>2, VersionsFinite
<1> HIDE DEF Data
<1>4. ASSUME task[p].at \in {"attempt", "ask", "answer", "body"}
      PROVE  Attempted(req[p], Attempts[p])
  BY <1>1, <1>2, <1>3, <1>4 DEF Attempted, PartInv
<1> QED
  BY <1>1, <1>2, <1>3, <1>4 DEF File_

-----------------------------------------------------------------------------
(* The steps of vf_fetch and of its clients.                               *)
LEMMA OpenKeeps ==
    ASSUME IInv, NEW p \in Proc, Open(p)
    PROVE  IInv'
<1> DEFINE f == File_(p)
           empty == [data |-> <<>>, mtime |-> 0]
           data == IF dir[f] = NoFile THEN <<>> ELSE dir[f].data
           r == [req[p] EXCEPT !.data = data, !.linked = TRUE, !.tries = Attempts[p]]
           a == IF data = <<>> THEN "attempt" ELSE "stat"
<1>1. /\ req[p] \in Request /\ f \in Files /\ Attempts[p] \in Nat /\ Attempts[p] \in 1..Attempts[p]
      /\ task[p].at \in Fetching /\ UNCHANGED <<site, server, conn>>
      /\ lock' \in Proc \union {NoProc} /\ req[p].file = File_(p)
      /\ conn' \in [Proc -> [{"http", "ftp"} -> Connection]]
      /\ dir \in [Files -> File \union {NoFile}]
  <2>1. req[p] \in Request /\ req[p].file = File_(p) /\ Attempts[p] \in Nat \ {0}
    BY BoundsAssumption DEF IInv, TypeOK, File_
  <2> QED
    BY <2>1 DEF IInv, TypeOK, Open, At_, Fetching, Request
<1>2. CASE req[p].proto = "rsync"
  <2>1. UNCHANGED <<dir, disturbed>> /\ Goto(p, "client") /\ UNCHANGED req
    BY <1>2 DEF Open
  <2>2. req' = [req EXCEPT ![p] = req[p]]
    BY <2>1 DEF IInv, TypeOK
  <2>3. PartInv("client", req[p], Attempts[p]) /\ "client" \in Fetching
    BY <1>2 DEF PartInv, Fetching
  <2> QED
    BY <1>1, <2>1, <2>2, <2>3, StaysFetching DEF Noted, Requests
<1>3. CASE req[p].proto # "rsync"
  <2>1. /\ dir' = IF dir[f] = NoFile THEN [dir EXCEPT ![f] = empty] ELSE dir
        /\ req' = [req EXCEPT ![p] = r] /\ Goto(p, a) /\ UNCHANGED disturbed
    BY <1>3 DEF Open, Opened
  <2>2. data \in Data /\ empty \in File
    BY <1>1 DEF File, Data
  <2>3. /\ dir' \in [Files -> File \union {NoFile}]
        /\ \A x \in Files \ {f} : dir'[x] = dir[x]
        /\ \A x \in Files : Good(dir[x]) => Good(dir'[x])
    BY <1>1, <2>1, <2>2 DEF Good
  <2>4. r \in Request /\ r.file = req[p].file /\ r.data = data /\ r.tries = Attempts[p]
    BY <1>1, <2>2 DEF Request
  <2>5. PartInv(a, r, Attempts[p])
    <3>1. CASE data = <<>>
      <4>1. InOrder(<<>>)
        BY DEF InOrder
      <4>2. Cardinality(VersionsIn(<<>>)) = 0
        BY <2>2, VersionsFinite
      <4> HIDE DEF data, r
      <4> QED
        BY <1>1, <2>4, <3>1, <4>1, <4>2 DEF PartInv
    <3>2. CASE data # <<>>
      <4>1. a = "stat"
        BY <3>2
      <4> HIDE DEF data, r, a
      <4> QED
        BY <2>4, <4>1 DEF PartInv
    <3> QED
      BY <3>1, <3>2
  <2>6. a \in Fetching
    BY DEF Fetching
  <2> HIDE DEF data, r, a
  <2> QED
    BY <1>1, <2>1, <2>3, <2>4, <2>5, <2>6, StaysFetching DEF Noted, Requests
<1> QED
  BY <1>2, <1>3

LEMMA StartAfreshKeeps ==
    ASSUME IInv, NEW p \in Proc, StartAfresh(p)
    PROVE  IInv'
<1> DEFINE f == File_(p)
           r == [req[p] EXCEPT !.data = <<>>, !.linked = TRUE]
<1>1. /\ req[p] \in Request /\ f \in Files /\ Attempts[p] \in Nat /\ req[p].file = f
      /\ PartInv("stat", req[p], Attempts[p]) /\ task[p].at = "stat"
      /\ "stat" \in Fetching /\ "attempt" \in Fetching
      /\ dir \in [Files -> File \union {NoFile}] /\ lock \in Proc \union {NoProc}
  <2>1. task[p].at = "stat"
    BY DEF StartAfresh, At_
  <2>2. req[p] \in Request /\ req[p].file = f
    BY InAttempt
  <2> QED
    BY <2>1, <2>2, InAttempt DEF IInv, TypeOK, Request, Fetching
<1>2. /\ dir' = [dir EXCEPT ![f] = [data |-> <<>>, mtime |-> 0]]
      /\ req' = [Orphaned(f) EXCEPT ![p] = [@ EXCEPT !.data = <<>>, !.linked = TRUE]]
      /\ Goto(p, "attempt") /\ Disturbs(p) /\ UNCHANGED <<site, server, lock>>
  BY DEF StartAfresh
<1>3. PICK c \in {"used", "none", "astray"} : Pool(p, c)
  BY DEF StartAfresh
<1>4. conn' \in [Proc -> [{"http", "ftp"} -> Connection]]
  BY <1>3, PoolTypes DEF Connection, IInv
<1>5. [data |-> <<>>, mtime |-> 0] \in File
  BY DEF File, Data
<1>6. /\ dir' \in [Files -> File \union {NoFile}] /\ \A x \in Files \ {f} : dir'[x] = dir[x]
  BY <1>1, <1>2, <1>5
<1>7. [Orphaned(f)[p] EXCEPT !.data = <<>>, !.linked = TRUE] = r
  <2>1. Orphaned(f)[p] = [req[p] EXCEPT !.linked = FALSE]
    BY <1>1 DEF Orphaned, File_
  <2> QED
    BY <1>1, <2>1 DEF Request
<1>8. req' = [Orphaned(f) EXCEPT ![p] = r]
  BY <1>2, <1>7
<1>9. /\ r \in Request /\ r.file = f /\ r.data = <<>> /\ r.tries = req[p].tries
  <2>1. <<>> \in Data
    BY DEF Data
  <2> QED
    BY <1>1, <2>1 DEF Request
<1>10. PartInv("attempt", r, Attempts[p])
  <2>1. InOrder(<<>>)
    BY DEF InOrder
  <2>2. Cardinality(VersionsIn(<<>>)) = 0
    BY <1>1, VersionsFinite DEF Request
  <2>3. r.tries = Attempts[p] /\ Attempts[p] # 0
    BY <1>1, <1>9, BoundsAssumption DEF PartInv
  <2> HIDE DEF r
  <2> QED
    BY <1>1, <1>9, <2>1, <2>2, <2>3 DEF PartInv
<1> HIDE DEF r, f
<1>11. Requests(p, r) /\ Noted(p)
  BY <1>1, <1>2, <1>8 DEF Requests, Noted
<1> QED
  BY <1>1, <1>2, <1>4, <1>6, <1>9, <1>10, <1>11, StaysFetching DEF f

LEMMA AttemptKeeps ==
    ASSUME IInv, NEW p \in Proc, Attempt(p)
    PROVE  IInv'
<1>1. /\ TypeOK /\ conn \in [Proc -> [{"http", "ftp"} -> Connection]]
      /\ req' = req => req' = [req EXCEPT ![p] = req[p]]
      /\ "attempt" \in Fetching /\ "failed" \in Fetching
      /\ "ask" \in Fetching /\ "answer" \in Fetching
  BY DEF IInv, TypeOK, Fetching
<1>2. /\ req[p] \in Request /\ req[p].file = File_(p) /\ PartInv(task[p].at, req[p], Attempts[p])
      /\ task[p].at = "attempt" => Attempted(req[p], Attempts[p])
  BY InAttempt
<1>3. PartInv("failed", req[p], Attempts[p])
  BY DEF PartInv
<1>4. task[p].at = "attempt" => /\ PartInv("ask", req[p], Attempts[p])
                                /\ PartInv("answer", req[p], Attempts[p])
  BY <1>2 DEF PartInv
<1>5. CASE Stopped(p)
  BY <1>1, <1>2, <1>3, <1>5, FetchesOn DEF Stopped, At_
<1>6. CASE Reuse(p)
  <2>1. PICK c \in Connection : Pool(p, c)
    BY <1>6 DEF Reuse, Connection
  <2>2. conn' \in [Proc -> [{"http", "ftp"} -> Connection]]
    BY <1>1, <2>1, PoolTypes
  <2>3. PICK a \in {"ask", "answer"} : Goto(p, a)
    BY <1>6 DEF Reuse, Asks
  <2>4. task[p].at = "attempt" /\ UNCHANGED <<site, server, dir, lock, req, disturbed>>
    BY <1>6 DEF Reuse, At_
  <2>5. a \in Fetching /\ PartInv(a, req[p], Attempts[p])
    BY <1>1, <1>4, <2>3, <2>4
  <2> QED
    BY <1>1, <1>2, <2>2, <2>3, <2>4, <2>5, FetchesOn
<1>7. CASE Connect(p)
  <2>1. PICK c \in Connection : Pool(p, c)
    BY <1>7 DEF Connect, Connection
  <2>2. conn' \in [Proc -> [{"http", "ftp"} -> Connection]]
    BY <1>1, <2>1, PoolTypes
  <2>3. task[p].at = "attempt" /\ UNCHANGED <<site, server, dir, lock, disturbed>>
    BY <1>7 DEF Connect, At_
  <2>4. CASE Asks(p) /\ UNCHANGED req
    <3>1. PICK a \in {"ask", "answer"} : Goto(p, a)
      BY <2>4 DEF Asks
    <3>2. a \in Fetching /\ PartInv(a, req[p], Attempts[p])
      BY <1>1, <1>4, <2>3, <3>1
    <3> QED
      BY <1>1, <1>2, <2>2, <2>3, <2>4, <3>1, <3>2, FetchesOn
  <2>5. CASE AttemptFails(p, req[p], "ECONNREFUSED")
    BY <1>1, <1>2, <2>2, <2>3, <2>5, FailedKeeps
  <2> QED
    BY <1>7, <2>4, <2>5 DEF Connect
<1> QED
  BY <1>5, <1>6, <1>7 DEF Attempt

-----------------------------------------------------------------------------
(* The answers of the HTTP and the FTP client.                             *)
LEMMA HttpKeeps ==
    ASSUME IInv, NEW p \in Proc, Http(p)
    PROVE  IInv'
<1> DEFINE f == File_(p)
           v == server[f]
           off == Len(req[p].data)
           n == Attempts[p]
           C == Cardinality(VersionsIn(req[p].data))
<1>1. /\ TypeOK /\ conn \in [Proc -> [{"http", "ftp"} -> Connection]]
      /\ task[p].at = "answer" /\ req[p].proto = "http"
      /\ UNCHANGED <<site, server, lock>> /\ lock \in Proc \union {NoProc}
      /\ dir \in [Files -> File \union {NoFile}]
      /\ "answer" \in Fetching /\ "body" \in Fetching /\ "close" \in Fetching
      /\ "attempt" \in Fetching /\ "failed" \in Fetching
  BY DEF IInv, TypeOK, Fetching, Http, HttpBody, RangeRefused, HttpError, Redirected,
         RedirectedAway, At_
<1>2. /\ req[p] \in Request /\ req[p].file = f /\ f \in Files /\ req[p].data \in Data
      /\ n \in Nat /\ PartInv("answer", req[p], n) /\ Attempted(req[p], n)
      /\ VersionsIn(req[p].data) \subseteq Versions \union {Page} /\ C \in Nat
  BY <1>1, InAttempt DEF Request
<1>3. /\ req[p].tries \in 1..n /\ InOrder(req[p].data) /\ C + req[p].tries <= n
      /\ req[p].redirects \in Nat /\ off \in Nat
  BY <1>1, <1>2 DEF PartInv, Request, Data
<1>4. v \in Versions \union {Page} /\ (v # 0 => Size[v] \in Nat /\ v \in Versions)
  <2>1. v \in Versions \union {0}
    BY <1>2, <1>1 DEF TypeOK
  <2> QED
    BY <2>1, SizeAssumption DEF Versions, Page
<1>5. v \in Nat
  BY <1>4, SizeAssumption DEF Versions, Page
<1>6. ASSUME NEW w \in Versions \union {Page}, NEW total \in Nat, w \in Nat,
             req' = [req EXCEPT ![p] = Promised(@, w, total, off + 1)],
             Goto(p, "body"), UNCHANGED <<site, server, dir, lock, conn, disturbed>>
      PROVE  IInv'
  <2> DEFINE r == Promised(req[p], w, total, off + 1)
  <2>1. /\ r \in Request /\ r.file = f /\ r.data = req[p].data /\ r.tries = req[p].tries
        /\ r.ver = w /\ r.pos = off + 1
    <3>1. off + 1 \in Nat
      BY <1>3
    <3> QED
      BY <1>2, <1>6, <3>1 DEF Promised, Request
  <2>2. /\ Cardinality(VersionsIn(req[p].data) \union {w}) <= C + 1
        /\ Cardinality(VersionsIn(req[p].data) \union {w}) \in Nat
    BY <1>2, VersionsFinite
  <2>3. req' = [req EXCEPT ![p] = r]
    BY <1>6
  <2> HIDE DEF r
  <2>4. Cardinality(VersionsIn(req[p].data) \union {w}) + r.tries <= 1 + n
    <3> HIDE DEF C
    <3> QED
      BY <1>2, <1>3, <2>1, <2>2
  <2>5. PartInv("body", r, n)
    BY <1>3, <2>1, <2>4 DEF PartInv
  <2> QED
    BY <1>1, <1>6, <2>1, <2>3, <2>5, FetchesOn
<1>7. CASE HttpBody(p)
  <2>1. Goto(p, "body") /\ UNCHANGED <<site, server, dir, lock, conn, disturbed>>
    BY <1>7 DEF HttpBody
  <2>2. CASE v # 0 /\ req' = [req EXCEPT ![p] = Promised(@, v, Size[v], off + 1)]
    BY <1>4, <1>5, <1>6, <2>1, <2>2
  <2>3. CASE off = 0 /\ req' = [req EXCEPT ![p] = Promised(@, Page, 1, 1)]
    <3>1. Page \in Versions \union {Page} /\ Page \in Nat /\ off + 1 = 1
      BY <2>3 DEF Page
    <3> QED
      BY <1>6, <2>1, <2>3, <3>1
  <2> QED
    BY <1>7, <2>2, <2>3 DEF HttpBody
<1>8. CASE RangeRefused(p)
  <2>1. CASE /\ req' = [req EXCEPT ![p].mtime = v]
             /\ Goto(p, "close") /\ Pool(p, "astray") /\ UNCHANGED <<dir, disturbed>>
    <3> DEFINE r == [req[p] EXCEPT !.mtime = v]
    <3>1. /\ r \in Request /\ r.file = f /\ r.data = req[p].data /\ r.tries = req[p].tries
      BY <1>2, <1>5 DEF Request
    <3>2. req' = [req EXCEPT ![p] = r]
      BY <2>1
    <3> HIDE DEF r
    <3>3. PartInv("close", r, n)
      <4> HIDE DEF C
      <4>1. C + req[p].tries <= 1 + n
        BY <1>2, <1>3
      <4> QED
        BY <1>3, <3>1, <4>1 DEF PartInv, C
    <3>4. conn' \in [Proc -> [{"http", "ftp"} -> Connection]]
      BY <1>1, <2>1, PoolTypes DEF Connection
    <3> QED
      BY <1>1, <2>1, <3>1, <3>2, <3>3, <3>4, FetchesOn
  <2>2. CASE /\ dir' = IF req[p].linked THEN [dir EXCEPT ![f] = [data |-> <<>>, mtime |-> 0]]
                       ELSE dir
             /\ Disturbs(p) /\ Pool(p, "none")
             /\ AttemptFails(p, [req[p] EXCEPT !.data = <<>>], "EIO")
    <3> DEFINE r == [req[p] EXCEPT !.data = <<>>]
    <3>0. <<>> \in Data /\ [data |-> <<>>, mtime |-> 0] \in File
      BY DEF Data, File
    <3>1. /\ r \in Request /\ r.file = f /\ r.data = <<>> /\ r.tries = req[p].tries
      BY <1>2, <3>0 DEF Request
    <3>2. AttemptFails(p, r, "EIO")
      BY <2>2
    <3> HIDE DEF r
    <3>3. Attempted(r, n)
      <4>1. InOrder(<<>>) /\ Cardinality(VersionsIn(<<>>)) = 0
        BY <3>0, VersionsFinite DEF InOrder
      <4> QED
        BY <1>2, <1>3, <3>1, <4>1 DEF Attempted
    <3>4. PICK a \in {"failed", "attempt"}, o \in Request :
              /\ Goto(p, a) /\ o.file = File_(p) /\ req' = [req EXCEPT ![p] = o]
              /\ PartInv(a, o, Attempts[p])
      BY <3>1, <3>2, <3>3, AttemptFailed
    <3>5. conn' \in [Proc -> [{"http", "ftp"} -> Connection]]
      BY <1>1, <2>2, PoolTypes DEF Connection
    <3>6. /\ dir' \in [Files -> File \union {NoFile}] /\ \A x \in Files \ {f} : dir'[x] = dir[x]
      BY <1>1, <1>2, <2>2, <3>0
    <3>7. a \in Fetching
      BY <1>1
    <3> QED
      BY <1>1, <2>2, <3>4, <3>5, <3>6, <3>7, StaysFetching DEF Noted, Requests
  <2> QED
    BY <1>8, <2>1, <2>2 DEF RangeRefused
<1>9. CASE HttpError(p)
  <2>1. PICK errno : Fails(p, errno)
    BY <1>9 DEF HttpError
  <2>2. conn' \in [Proc -> [{"http", "ftp"} -> Connection]]
    BY <1>1, <2>1, PoolTypes DEF Connection, Fails
  <2> QED
    BY <1>1, <1>2, <1>9, <2>1, <2>2, FailedKeeps DEF HttpError, Fails
<1>10. CASE Redirected(p)
  <2>1. PICK c \in {"used", "astray", "none"} : Pool(p, c)
    BY <1>10 DEF Redirected
  <2>2. conn' \in [Proc -> [{"http", "ftp"} -> Connection]]
    BY <1>1, <2>1, PoolTypes DEF Connection
  <2>3. UNCHANGED <<site, server, dir, lock, disturbed>>
    BY <1>10 DEF Redirected
  <2>4. CASE req' = [req EXCEPT ![p].redirects = @ + 1] /\ Goto(p, "attempt")
    <3> DEFINE r == [req[p] EXCEPT !.redirects = @ + 1]
    <3>0. req[p].redirects + 1 \in Nat
      BY <1>3
    <3>1. /\ r \in Request /\ r.file = f /\ r.data = req[p].data /\ r.tries = req[p].tries
      BY <1>2, <3>0 DEF Request
    <3>2. req' = [req EXCEPT ![p] = r]
      BY <2>4
    <3> HIDE DEF r
    <3>3. PartInv("attempt", r, n)
      BY <1>3, <3>1 DEF PartInv
    <3> QED
      BY <1>1, <2>2, <2>3, <2>4, <3>1, <3>2, <3>3, FetchesOn
  <2>5. CASE AttemptFails(p, req[p], "EINVAL")
    BY <1>1, <1>2, <2>2, <2>3, <2>5, FailedKeeps
  <2> QED
    BY <1>10, <2>4, <2>5 DEF Redirected
<1>11. CASE RedirectedAway(p)
  <2> DEFINE r == [req[p] EXCEPT !.foreign = TRUE]
  <2>1. PICK c \in {"astray", "none"} : Pool(p, c)
    BY <1>11 DEF RedirectedAway
  <2>2. conn' \in [Proc -> [{"http", "ftp"} -> Connection]]
    BY <1>1, <2>1, PoolTypes DEF Connection
  <2>3. /\ AttemptFails(p, r, "EIO") /\ UNCHANGED <<site, server, dir, lock, disturbed>>
    BY <1>11 DEF RedirectedAway
  <2>4. /\ r \in Request /\ r.file = f /\ r.data = req[p].data /\ r.tries = req[p].tries
        /\ r.proto = req[p].proto
    BY <1>2 DEF Request
  <2> HIDE DEF r
  <2>5. Attempted(r, n)
    BY <1>2, <2>4 DEF Attempted
  <2> QED
    BY <1>1, <2>2, <2>3, <2>4, <2>5, FailedKeeps
<1> QED
  BY <1>7, <1>8, <1>9, <1>10, <1>11 DEF Http

LEMMA FtpFailsKeeps ==
    ASSUME IInv, NEW p \in Proc, NEW errno, FtpFails(p, errno),
           UNCHANGED <<site, server, dir, lock, disturbed>>,
           task[p].at \in {"ask", "answer", "body"}
    PROVE  IInv'
<1>1. PICK c \in {"astray", "none"} : Pool(p, c)
  BY DEF FtpFails
<1>2. conn' \in [Proc -> [{"http", "ftp"} -> Connection]]
  BY <1>1, PoolTypes DEF Connection, IInv
<1>3. /\ req[p] \in Request /\ req[p].file = File_(p) /\ Attempted(req[p], Attempts[p])
      /\ task[p].at \in Fetching
  BY InAttempt DEF Fetching
<1> QED
  BY <1>2, <1>3, FailedKeeps DEF FtpFails

LEMMA FtpKeeps ==
    ASSUME IInv, NEW p \in Proc, Ftp(p)
    PROVE  IInv'
<1> DEFINE f == File_(p)
           v == server[f]
           n == Attempts[p]
<1>1. /\ TypeOK /\ conn \in [Proc -> [{"http", "ftp"} -> Connection]]
      /\ task[p].at \in {"ask", "answer"} /\ task[p].at \in Fetching
      /\ "answer" \in Fetching /\ "body" \in Fetching
      /\ UNCHANGED <<site, server, dir, lock, disturbed>>
  BY DEF IInv, TypeOK, Fetching, Ftp, FtpAsk, FtpAnswer, FtpError, At_
<1>2. /\ req[p] \in Request /\ req[p].file = f /\ f \in Files
      /\ n \in Nat /\ PartInv(task[p].at, req[p], n) /\ Attempted(req[p], n)
  BY <1>1, InAttempt DEF Request
<1>3. v \in Versions \union {0} /\ v \in Nat /\ (v # 0 => Size[v] \in Nat)
  <2>1. v \in Versions \union {0}
    BY <1>2, <1>1 DEF TypeOK
  <2> QED
    BY <2>1, SizeAssumption DEF Versions
<1>4. CASE FtpAsk(p)
  <2>1. PICK w \in {v, 0} :
          req' = [req EXCEPT ![p].total = IF w = 0 THEN 0 ELSE Size[w], ![p].mtime = w]
    BY <1>4 DEF FtpAsk
  <2> DEFINE total == IF w = 0 THEN 0 ELSE Size[w]
             r == [req[p] EXCEPT !.total = total, !.mtime = w]
  <2>2. total \in Nat /\ w \in Nat
    BY <1>3
  <2>3. req' = [req EXCEPT ![p] = r]
    BY <1>1, <1>2, <2>1 DEF TypeOK
  <2> HIDE DEF total
  <2>4. /\ r \in Request /\ r.file = f /\ r.data = req[p].data /\ r.tries = req[p].tries
        /\ r.proto = req[p].proto
    BY <1>2, <2>2 DEF Request
  <2> HIDE DEF r
  <2>5. PartInv("answer", r, n) /\ Goto(p, "answer") /\ UNCHANGED conn
    <3>1. task[p].at = "ask" /\ Goto(p, "answer") /\ UNCHANGED conn
      BY <1>4 DEF FtpAsk, At_
    <3> QED
      BY <1>2, <2>4, <3>1 DEF PartInv
  <2> QED
    BY <1>1, <2>3, <2>4, <2>5, FetchesOn
<1>5. CASE FtpAnswer(p)
  <2>1. PICK first \in {Len(req[p].data) + 1, 1}, told \in {0, Size[v]} :
            req' = [req EXCEPT ![p].ver = v, ![p].pos = first,
                               ![p].total = IF @ = 0 THEN told ELSE @]
    BY <1>5 DEF FtpAnswer
  <2>2. v # 0 /\ req[p].proto = "ftp" /\ Goto(p, "body") /\ UNCHANGED conn
    BY <1>5 DEF FtpAnswer
  <2> DEFINE total == IF req[p].total = 0 THEN told ELSE req[p].total
             r == [req[p] EXCEPT !.ver = v, !.pos = first, !.total = total]
  <2>3. total \in Nat /\ first \in Nat
    BY <1>2, <1>3, <2>2 DEF Request, Data
  <2>4. req' = [req EXCEPT ![p] = r]
    BY <1>1, <1>2, <2>1 DEF TypeOK, Request
  <2> HIDE DEF total
  <2>5. /\ r \in Request /\ r.file = f /\ r.tries = req[p].tries /\ r.proto = "ftp"
    BY <1>2, <1>3, <2>2, <2>3 DEF Request
  <2> HIDE DEF r
  <2>6. PartInv("body", r, n)
    BY <1>2, <2>5 DEF PartInv, Attempted
  <2> QED
    BY <1>1, <2>2, <2>4, <2>5, <2>6, FetchesOn
<1>6. CASE FtpError(p)
  <2>1. CASE \E errno : FtpFails(p, errno)
    <3>1. PICK errno : FtpFails(p, errno)
      BY <2>1
    <3> QED
      BY <1>1, <3>1, FtpFailsKeeps
  <2>2. CASE Pool(p, "fresh") /\ AttemptFails(p, req[p], "ENOENT")
    <3>1. conn' \in [Proc -> [{"http", "ftp"} -> Connection]]
      BY <1>1, <2>2, PoolTypes DEF Connection
    <3> QED
      BY <1>1, <1>2, <2>2, <3>1, FailedKeeps
  <2> QED
    BY <1>6, <2>1, <2>2 DEF FtpError
<1> QED
  BY <1>4, <1>5, <1>6 DEF Ftp

-----------------------------------------------------------------------------
(* vfff_transfer_file.                                                     *)
LEMMA ReceiveKeeps ==
    ASSUME IInv, NEW p \in Proc, Receive(p)
    PROVE  IInv'
<1> DEFINE f == File_(p)
           n == Attempts[p]
           part == <<req[p].ver, req[p].pos>>
           data == Append(req[p].data, part)
           r == [req[p] EXCEPT !.data = data, !.pos = @ + 1]
<1>1. /\ TypeOK /\ task[p].at = "body" /\ "body" \in Fetching /\ task[p] \in Task
      /\ UNCHANGED <<site, server, lock, conn, task>> /\ lock \in Proc \union {NoProc}
      /\ dir \in [Files -> File \union {NoFile}] /\ Disturbs(p)
      /\ conn \in [Proc -> [{"http", "ftp"} -> Connection]]
  BY DEF IInv, TypeOK, Fetching, Receive, At_, Append_
<1>2. /\ req[p] \in Request /\ req[p].file = f /\ f \in Files /\ req[p].data \in Seq(Part)
      /\ n \in Nat /\ PartInv("body", req[p], n)
      /\ req[p].pos \in Nat /\ req[p].ver \in Versions \union {Page}
      /\ req[p].pos + 1 \in Nat
  BY <1>1, InAttempt DEF Request, Data
<1>3. part \in Part
  BY <1>2 DEF Part
<1>4. /\ data \in Data /\ Len(data) = Len(req[p].data) + 1
      /\ \A i \in 1..Len(req[p].data) : data[i] = req[p].data[i]
      /\ data[Len(req[p].data) + 1] = part
  BY <1>2, <1>3, Appended DEF Data
<1>5. /\ req' = [req EXCEPT ![p].data = data, ![p].pos = @ + 1]
      /\ dir' = IF req[p].linked THEN [dir EXCEPT ![f] = [data |-> data, mtime |-> 0]] ELSE dir
  BY DEF Receive, Append_
<1>6. req' = [req EXCEPT ![p] = r]
  BY <1>1, <1>2, <1>5 DEF TypeOK
<1> HIDE DEF data
<1>7. /\ r \in Request /\ r.file = f /\ r.data = data /\ r.pos = req[p].pos + 1
      /\ r.tries = req[p].tries /\ r.proto = req[p].proto /\ r.ver = req[p].ver
  BY <1>2, <1>4 DEF Request
<1>8. [data |-> data, mtime |-> 0] \in File
  BY <1>4 DEF File
<1>9. /\ dir' \in [Files -> File \union {NoFile}] /\ \A x \in Files \ {f} : dir'[x] = dir[x]
  BY <1>1, <1>2, <1>5, <1>8
<1>10. Goto(p, "body")
  BY <1>1 DEF Goto, TypeOK, Task
<1> HIDE DEF r
<1>11. PartInv("body", r, n)
  <2> SUFFICES ASSUME req[p].proto = "http"
               PROVE  /\ InOrder(data) /\ r.pos = Len(data) + 1
                      /\ VersionsIn(data) \union {req[p].ver}
                            = VersionsIn(req[p].data) \union {req[p].ver}
    BY <1>2, <1>7 DEF PartInv
  <2>1. InOrder(req[p].data) /\ req[p].pos = Len(req[p].data) + 1 /\ Len(req[p].data) \in Nat
    BY <1>2 DEF PartInv
  <2>2. part[1] = req[p].ver /\ part[2] = req[p].pos
    OBVIOUS
  <2>3. 1..Len(data) = (1..Len(req[p].data)) \union {Len(req[p].data) + 1}
    BY <1>4, <2>1
  <2> HIDE DEF part
  <2>4. InOrder(data)
    BY <1>4, <2>1, <2>2, <2>3 DEF InOrder
  <2>5. VersionsIn(data) = VersionsIn(req[p].data) \union {req[p].ver}
    BY <1>4, <2>2, <2>3 DEF VersionsIn
  <2> QED
    BY <1>4, <1>7, <2>1, <2>4, <2>5
<1>12. Requests(p, r) /\ Noted(p)
  BY <1>1, <1>6 DEF Requests, Noted
<1> QED
  BY <1>1, <1>7, <1>9, <1>10, <1>11, <1>12, StaysFetching

LEMMA TransferKeeps ==
    ASSUME IInv, NEW p \in Proc, Transfer(p)
    PROVE  IInv'
<1>1. CASE Receive(p)
  BY <1>1, ReceiveKeeps
<1>2. ASSUME EndOfBody(p) \/ BreaksOff(p)
      PROVE  /\ TypeOK /\ UNCHANGED <<site, server, dir, lock, disturbed>>
             /\ task[p].at = "body" /\ task[p].at \in Fetching /\ "close" \in Fetching
             /\ req[p] \in Request /\ req[p].file = File_(p) /\ Attempts[p] \in Nat
             /\ PartInv("body", req[p], Attempts[p]) /\ Attempted(req[p], Attempts[p])
             /\ req' = req => req' = [req EXCEPT ![p] = req[p]]
  <2>1. UNCHANGED <<site, server, dir, lock, disturbed>> /\ task[p].at = "body"
    BY <1>2 DEF EndOfBody, BreaksOff, At_
  <2>2. TypeOK /\ (req' = req => req' = [req EXCEPT ![p] = req[p]])
    BY DEF IInv, TypeOK
  <2> QED
    BY <2>1, <2>2, InAttempt DEF Fetching
<1>3. CASE EndOfBody(p)
  <2>1. CASE \E errno : FtpFails(p, errno)
    <3>1. PICK errno : FtpFails(p, errno)
      BY <2>1
    <3> QED
      BY <1>2, <1>3, <3>1, FtpFailsKeeps
  <2>2. CASE (\E c \in Connection : Pool(p, c)) /\ Goto(p, "close") /\ UNCHANGED req
    <3>1. conn' \in [Proc -> [{"http", "ftp"} -> Connection]]
      BY <1>2, <1>3, <2>2, PoolTypes
    <3>2. PartInv("close", req[p], Attempts[p])
      BY <1>2, <1>3 DEF PartInv, Attempted
    <3> QED
      BY <1>2, <1>3, <2>2, <3>1, <3>2, FetchesOn
  <2> QED
    BY <1>3, <2>1, <2>2 DEF EndOfBody, Connection
<1>4. CASE BreaksOff(p)
  <2>1. PICK errno : Fails(p, errno) \/ FtpFails(p, errno)
    BY <1>4 DEF BreaksOff
  <2>2. CASE FtpFails(p, errno)
    BY <1>2, <1>4, <2>2, FtpFailsKeeps
  <2>3. CASE Fails(p, errno)
    <3>1. conn' \in [Proc -> [{"http", "ftp"} -> Connection]]
      BY <1>2, <1>4, <2>3, PoolTypes DEF Connection, Fails
    <3> QED
      BY <1>2, <1>4, <2>3, <3>1, FailedKeeps DEF Fails
  <2> QED
    BY <2>1, <2>2, <2>3
<1> QED
  BY <1>1, <1>3, <1>4 DEF Transfer

-----------------------------------------------------------------------------
(* The steps of packages_fetch.                                            *)
LEMMA TaskTypes ==
    ASSUME IInv, NEW p \in Proc
    PROVE  /\ task[p] \in Task /\ task[p].at \in At /\ task[p].look \in Seq(Files)
           /\ task[p].urls \in [Protocols -> Seq(Files)] /\ task[p].fetched \in Seq(Files)
           /\ task[p].verified \subseteq Files
           /\ task[p].errors \in BOOLEAN /\ task[p].interrupted \in BOOLEAN
           /\ TaskInv(task[p], site) /\ ReqInv(task[p], req[p], site)
           /\ Accounted(task[p], Wanted[p], dir, disturbed[p])
           /\ site \in [Files -> Protocols] /\ dir \in [Files -> File \union {NoFile}]
           /\ lock \in Proc \union {NoProc}
           /\ conn \in [Proc -> [{"http", "ftp"} -> Connection]]
           /\ req \in [Proc -> Request] /\ (req' = req => req' = [req EXCEPT ![p] = req[p]])
<1>1. task[p] \in Task
  BY DEF IInv, TypeOK
<1> QED
  BY <1>1 DEF IInv, TypeOK, Task, Each

LEMMA FetchedKeeps ==
    ASSUME IInv, NEW p \in Proc, Fetched(p), task[p].at \in Fetching,
           UNCHANGED <<site, server>>,
           dir' \in [Files -> File \union {NoFile}],
           conn' \in [Proc -> [{"http", "ftp"} -> Connection]],
           Released(p), Noted(p), \A f \in Files \ {File_(p)} : dir'[f] = dir[f]
    PROVE  IInv'
<1> DEFINE f == File_(p)
           s == SiteOf(p)
           urls == task[p].urls[s]
           a == IF Tail(urls) = <<>> THEN "verify" ELSE "next"
           u == [task[p].urls EXCEPT ![s] = Tail(urls)]
           fetched == Append(task[p].fetched, f)
           t == [task[p] EXCEPT !.urls = u, !.fetched = fetched, !.at = a]
<1>1. /\ s \in Protocols /\ f \in Files /\ urls \in Seq(Files) /\ urls # <<>> /\ Head(urls) = f
      /\ site[f] = s
  BY HasInHand DEF SiteOf
<1>2. /\ Tail(urls) \in Seq(Files) /\ ToSet(urls) = {f} \union ToSet(Tail(urls))
  BY <1>1, HeadAndTail
<1>3. /\ task[p] \in Task /\ task[p].urls \in [Protocols -> Seq(Files)]
      /\ task[p].fetched \in Seq(Files) /\ task[p].verified \subseteq Files
      /\ TaskInv(task[p], site) /\ ReqInv(task[p], req[p], site)
      /\ Accounted(task[p], Wanted[p], dir, disturbed[p])
  BY TaskTypes
<1>4. task' = [task EXCEPT ![p] = t]
  <2> DEFINE e == [task[p] EXCEPT !.urls[s] = Tail(@), !.fetched = Append(@, Head(urls)),
                                  !.at = a]
  <2>1. task' = [task EXCEPT ![p] = e]
    BY DEF Fetched, Becomes
  <2>2. e = t
    BY <1>1, <1>3 DEF Task
  <2> HIDE DEF t, e
  <2> QED
    BY <2>1, <2>2
<1>5. /\ u \in [Protocols -> Seq(Files)] /\ u[s] = Tail(urls)
      /\ \A x \in Protocols \ {s} : u[x] = task[p].urls[x]
  BY <1>1, <1>2, <1>3
<1>6. /\ fetched \in Seq(Files) /\ fetched # <<>>
      /\ ToSet(fetched) = ToSet(task[p].fetched) \union {f}
      /\ Head(fetched) = IF task[p].fetched = <<>> THEN f ELSE Head(task[p].fetched)
  BY <1>1, <1>3, Appended
<1>7. a \in {"verify", "next"} /\ (a = "next" => Tail(urls) # <<>>)
  OBVIOUS
<1> HIDE DEF u, fetched, a
<1>8. /\ t \in Task /\ t.at = a /\ t.look = task[p].look /\ t.urls = u
      /\ t.fetched = fetched /\ t.verified = task[p].verified
      /\ t.errors = task[p].errors /\ t.interrupted = task[p].interrupted
  BY <1>3, <1>5, <1>6, <1>7 DEF Task, At
<1> HIDE DEF t
<1>9. TaskInv(t, site)
  <2>1. \A x \in Protocols : \A y \in ToSet(u[x]) : site[y] = x
    BY <1>1, <1>2, <1>3, <1>5 DEF TaskInv
  <2>2. t.at = "next" => site[Head(fetched)] = s /\ u[s] # <<>>
    BY <1>1, <1>3, <1>5, <1>6, <1>7, <1>8 DEF ReqInv, File_
  <2>3. task[p].look = <<>> \/ task[p].interrupted
    BY <1>3 DEF TaskInv, Fetching
  <2> HIDE DEF s, f, urls
  <2> QED
    BY <1>6, <1>7, <1>8, <2>1, <2>2, <2>3 DEF TaskInv, Fetching
<1>10. InHand(task[p]) \subseteq InHand(t) /\ f \in InHand(t)
  <2>1. \A x \in Protocols : ToSet(task[p].urls[x]) \subseteq ToSet(u[x]) \union {f}
    BY <1>2, <1>5
  <2> QED
    BY <1>1, <1>6, <1>8, <2>1 DEF InHand
<1>11. Accounted(t, Wanted[p], dir', disturbed[p])
  BY <1>3, <1>8, <1>10 DEF Accounted, Fetching
<1>12. ReqInv(t, NoRequest, site) /\ PartInv(t.at, NoRequest, Attempts[p])
  BY <1>7, <1>8 DEF ReqInv, PartInv, Fetching
<1>13. NoRequest \in Request /\ Requests(p, NoRequest) /\ lock' \in Proc \union {NoProc}
  BY NoneTypes DEF Requests, Released
<1> QED
  BY <1>4, <1>8, <1>9, <1>11, <1>12, <1>13, OneSteps

LEMMA UpToDateKeeps ==
    ASSUME IInv, NEW p \in Proc, UpToDate(p)
    PROVE  IInv'
<1>1. /\ TypeOK /\ task[p].at \in Fetching /\ UNCHANGED <<site, server, dir, disturbed>>
      /\ dir' \in [Files -> File \union {NoFile}] /\ Fetched(p) /\ Released(p)
  BY DEF IInv, TypeOK, UpToDate, At_, Fetching
<1>2. conn' \in [Proc -> [{"http", "ftp"} -> Connection]]
  BY <1>1, PoolTypes DEF UpToDate, Connection
<1> QED
  BY <1>1, <1>2, FetchedKeeps DEF Noted

LEMMA CloseKeeps ==
    ASSUME IInv, NEW p \in Proc, Close(p)
    PROVE  IInv'
<1> DEFINE f == File_(p)
<1>1. /\ TypeOK /\ task[p].at \in Fetching /\ UNCHANGED <<site, server, conn, disturbed>>
      /\ conn' \in [Proc -> [{"http", "ftp"} -> Connection]]
      /\ dir \in [Files -> File \union {NoFile}] /\ Fetched(p) /\ Released(p)
  BY DEF IInv, TypeOK, Close, At_, Fetching
<1>2. req[p].mtime \in Nat /\ f \in Files
  BY InAttempt DEF Request
<1>3. dir' = IF dir[f] # NoFile /\ req[p].mtime > 0
             THEN [dir EXCEPT ![f].mtime = req[p].mtime] ELSE dir
  BY DEF Close
<1> DEFINE x == [dir[f] EXCEPT !.mtime = req[p].mtime]
<1>4. dir[f] # NoFile => x \in File /\ x.data = dir[f].data
  BY <1>1, <1>2 DEF File
<1>5. dir' = IF dir[f] # NoFile /\ req[p].mtime > 0 THEN [dir EXCEPT ![f] = x] ELSE dir
  BY <1>1, <1>2, <1>3
<1> HIDE DEF x, f
<1>6. /\ dir' \in [Files -> File \union {NoFile}] /\ \A y \in Files \ {f} : dir'[y] = dir[y]
  BY <1>1, <1>2, <1>4, <1>5
<1>7. \A y \in Files : Good(dir[y]) => Good(dir'[y])
  <2>1. dir[f] # NoFile => x # NoFile
    BY <1>4, NoFileAssumption
  <2> QED
    BY <1>1, <1>2, <1>4, <1>5, <1>6, <2>1 DEF Good, f
<1> QED
  BY <1>1, <1>6, <1>7, FetchedKeeps DEF Noted, f

LEMMA GiveUpKeeps ==
    ASSUME IInv, NEW p \in Proc, GiveUp(p)
    PROVE  IInv'
<1> DEFINE f == File_(p)
           s == SiteOf(p)
<1>1. /\ task[p].at = "failed" /\ task[p].at \in Fetching /\ "open" \in Fetching
      /\ UNCHANGED <<site, server, conn>> /\ f \in Files /\ s \in Protocols
      /\ dir' = [dir EXCEPT ![f] = NoFile] /\ Noted(p)
  BY HasInHand DEF GiveUp, At_, Fetching, Noted, SiteOf
<1>2. /\ task[p] \in Task /\ task[p].urls \in [Protocols -> Seq(Files)]
      /\ task[p].look \in Seq(Files) /\ TaskInv(task[p], site)
      /\ dir \in [Files -> File \union {NoFile}] /\ lock \in Proc \union {NoProc}
      /\ conn' \in [Proc -> [{"http", "ftp"} -> Connection]]
  BY <1>1, TaskTypes
<1>3. /\ dir' \in [Files -> File \union {NoFile}] /\ \A x \in Files \ {f} : dir'[x] = dir[x]
  BY <1>1, <1>2
<1>4. CASE /\ req' = [Orphaned(f) EXCEPT ![p] = [NoRequest EXCEPT !.file = f, !.proto = "ftp"]]
           /\ Goto(p, "open") /\ UNCHANGED lock
  <2> DEFINE r == [NoRequest EXCEPT !.file = f, !.proto = "ftp"]
  <2>1. r \in Request /\ r.file = f
    BY <1>1, NoneTypes DEF Request
  <2>2. req' = [Orphaned(f) EXCEPT ![p] = r]
    BY <1>4
  <2> HIDE DEF r
  <2>3. Requests(p, r)
    BY <1>1, <2>2 DEF Requests
  <2>4. PartInv("open", r, Attempts[p])
    BY DEF PartInv
  <2>5. lock' \in Proc \union {NoProc}
    BY <1>2, <1>4
  <2> QED
    BY <1>1, <1>2, <1>3, <1>4, <2>1, <2>3, <2>4, <2>5, StaysFetching
<1>5. CASE /\ req' = [Orphaned(f) EXCEPT ![p] = NoRequest]
           /\ lock' = NoProc /\ SiteFails(p)
  <2> DEFINE u == [task[p].urls EXCEPT ![s] = <<>>]
             t == [task[p] EXCEPT !.urls = u, !.fetched = <<>>, !.errors = TRUE, !.at = "next"]
             e == [task[p] EXCEPT !.urls[s] = <<>>, !.fetched = <<>>, !.errors = TRUE,
                                  !.at = "next"]
  <2>1. task' = [task EXCEPT ![p] = t]
    <3>1. task' = [task EXCEPT ![p] = e]
      BY <1>5 DEF SiteFails, Becomes
    <3>2. e = t
      BY <1>1, <1>2 DEF Task
    <3> HIDE DEF t, e
    <3> QED
      BY <3>1, <3>2
  <2>2. /\ u \in [Protocols -> Seq(Files)]
        /\ \A x \in Protocols : ToSet(u[x]) \subseteq ToSet(task[p].urls[x])
    <3>1. ToSet(<<>>) = {} /\ <<>> \in Seq(Files)
      BY DEF ToSet
    <3> QED
      BY <1>1, <1>2, <3>1
  <2> HIDE DEF u
  <2>3. /\ t \in Task /\ t.at = "next" /\ t.look = task[p].look /\ t.urls = u
        /\ t.fetched = <<>> /\ t.errors /\ t.interrupted = task[p].interrupted
    <3>1. <<>> \in Seq(Files) /\ "next" \in At
      BY DEF At
    <3> QED
      BY <1>2, <2>2, <3>1 DEF Task
  <2> HIDE DEF t
  <2>4. TaskInv(t, site)
    BY <1>1, <1>2, <2>2, <2>3 DEF TaskInv, Fetching
  <2>5. /\ Accounted(t, Wanted[p], dir', disturbed[p]) /\ ReqInv(t, NoRequest, site)
        /\ PartInv(t.at, NoRequest, Attempts[p])
    BY <2>3 DEF Accounted, ReqInv, PartInv, Fetching
  <2>6. NoRequest \in Request /\ Requests(p, NoRequest) /\ lock' \in Proc \union {NoProc}
    BY <1>1, <1>5, NoneTypes DEF Requests
  <2> QED
    BY <1>1, <1>2, <1>3, <2>1, <2>3, <2>4, <2>5, <2>6, OneSteps
<1> QED
  BY <1>4, <1>5 DEF GiveUp

LEMMA Joined ==
    ASSUME NEW S, NEW s \in Seq(S), NEW t \in Seq(S)
    PROVE  /\ s \o t \in Seq(S) /\ ToSet(s \o t) = ToSet(s) \union ToSet(t)
           /\ t # <<>> => s \o t # <<>>
<1>1. /\ s \o t \in Seq(S) /\ Len(s \o t) = Len(s) + Len(t)
      /\ \A i \in 1..(Len(s) + Len(t)) :
            (s \o t)[i] = IF i <= Len(s) THEN s[i] ELSE t[i - Len(s)]
      /\ Len(s) \in Nat /\ Len(t) \in Nat /\ (t # <<>> => Len(t) > 0)
      /\ DOMAIN s = 1..Len(s) /\ DOMAIN t = 1..Len(t)
      /\ DOMAIN (s \o t) = 1..(Len(s) + Len(t))
  OBVIOUS
<1>2. ToSet(s \o t) \subseteq ToSet(s) \union ToSet(t)
  <2> SUFFICES ASSUME NEW i \in 1..(Len(s) + Len(t))
               PROVE  (s \o t)[i] \in ToSet(s) \union ToSet(t)
    BY <1>1 DEF ToSet
  <2>1. CASE i <= Len(s)
    BY <1>1, <2>1 DEF ToSet
  <2>2. CASE i > Len(s)
    <3>1. i - Len(s) \in 1..Len(t) /\ (s \o t)[i] = t[i - Len(s)]
      BY <1>1, <2>2
    <3> QED
      BY <1>1, <3>1 DEF ToSet
  <2> QED
    BY <1>1, <2>1, <2>2
<1>3. ToSet(s) \subseteq ToSet(s \o t)
  <2> SUFFICES ASSUME NEW i \in 1..Len(s)
               PROVE  s[i] \in ToSet(s \o t)
    BY <1>1 DEF ToSet
  <2>1. i \in 1..(Len(s) + Len(t)) /\ (s \o t)[i] = s[i]
    BY <1>1
  <2> QED
    BY <1>1, <2>1 DEF ToSet
<1>4. ToSet(t) \subseteq ToSet(s \o t)
  <2> SUFFICES ASSUME NEW i \in 1..Len(t)
               PROVE  t[i] \in ToSet(s \o t)
    BY <1>1 DEF ToSet
  <2>1. i + Len(s) \in 1..(Len(s) + Len(t)) /\ (s \o t)[i + Len(s)] = t[i]
    BY <1>1
  <2> QED
    BY <1>1, <2>1 DEF ToSet
<1>5. t # <<>> => s \o t # <<>>
  BY <1>1
<1> QED
  BY <1>1, <1>2, <1>3, <1>4, <1>5

LEMMA ClientKeeps ==
    ASSUME IInv, NEW p \in Proc, Client(p)
    PROVE  IInv'
<1> DEFINE s == SiteOf(p)
           fs == task[p].urls[s]
           outcome(f) == {dir[f]} \union
                         (IF server[f] = 0 THEN {} ELSE
                            {[data |-> [i \in 1..n |-> <<server[f], i>>], mtime |-> 0] :
                                n \in {1, Size[server[f]]}})
           u == [task[p].urls EXCEPT ![s] = <<>>]
<1>1. /\ task[p].at = "client" /\ task[p].at \in Fetching /\ s \in Protocols
      /\ UNCHANGED <<site, server, conn>> /\ Released(p) /\ Disturbs(p)
      /\ fs \in Seq(Files) /\ fs # <<>>
  <2>1. task[p].at = "client" /\ task[p].at \in Fetching
    BY DEF Client, At_, Fetching
  <2>2. fs \in Seq(Files) /\ fs # <<>> /\ s \in Protocols
    BY <2>1, HasInHand DEF SiteOf
  <2> QED
    BY <2>1, <2>2 DEF Client
<1>2. /\ task[p] \in Task /\ task[p].urls \in [Protocols -> Seq(Files)]
      /\ task[p].look \in Seq(Files) /\ TaskInv(task[p], site)
      /\ task[p].fetched \in Seq(Files) /\ task[p].verified \subseteq Files
      /\ dir \in [Files -> File \union {NoFile}]
      /\ Accounted(task[p], Wanted[p], dir, disturbed[p])
      /\ conn' \in [Proc -> [{"http", "ftp"} -> Connection]]
  BY <1>1, TaskTypes
<1>3. \A f \in Files : outcome(f) \subseteq File \union {NoFile}
  <2> SUFFICES ASSUME NEW f \in Files, server[f] # 0, NEW n \in {1, Size[server[f]]}
               PROVE  [data |-> [i \in 1..n |-> <<server[f], i>>], mtime |-> 0] \in File
    BY <1>2
  <2>1. server[f] \in Versions
    BY DEF IInv, TypeOK
  <2>2. n \in Nat
    BY <2>1, SizeAssumption DEF Versions
  <2>3. [i \in 1..n |-> <<server[f], i>>] \in Data
    BY <2>1, <2>2 DEF Data, Part
  <2> QED
    BY <2>3 DEF File
<1>4. /\ dir' \in [Files -> File \union {NoFile}]
      /\ \A f \in Files \ ToSet(fs) : dir'[f] = dir[f]
  <2>1. PICK new : /\ \A f \in ToSet(fs) : new[f] \in outcome(f)
                   /\ dir' = [f \in Files |-> IF f \in ToSet(fs) THEN new[f] ELSE dir[f]]
    BY DEF Client
  <2> HIDE DEF outcome
  <2>2. ToSet(fs) \subseteq Files
    BY <1>1, SetOfSeq
  <2> HIDE DEF fs
  <2> QED
    BY <1>2, <1>3, <2>1, <2>2
<1>5. /\ u \in [Protocols -> Seq(Files)] /\ u[s] = <<>> /\ ToSet(<<>>) = {}
      /\ \A x \in Protocols \ {s} : u[x] = task[p].urls[x]
  BY <1>1, <1>2 DEF ToSet
<1>6. /\ NoRequest \in Request /\ Requests(p, NoRequest) /\ lock' \in Proc \union {NoProc}
      /\ Noted(p)
  BY <1>1, NoneTypes DEF Requests, Released, Noted
<1>7. CASE SiteFails(p)
  <2> DEFINE t == [task[p] EXCEPT !.urls = u, !.fetched = <<>>, !.errors = TRUE, !.at = "next"]
             e == [task[p] EXCEPT !.urls[s] = <<>>, !.fetched = <<>>, !.errors = TRUE,
                                  !.at = "next"]
  <2>1. task' = [task EXCEPT ![p] = t]
    <3>1. task' = [task EXCEPT ![p] = e]
      BY <1>7 DEF SiteFails, Becomes
    <3>2. e = t
      BY <1>1, <1>2 DEF Task
    <3> HIDE DEF t, e
    <3> QED
      BY <3>1, <3>2
  <2> HIDE DEF u
  <2>3. /\ t \in Task /\ t.at = "next" /\ t.look = task[p].look /\ t.urls = u
        /\ t.fetched = <<>> /\ t.errors /\ t.interrupted = task[p].interrupted
    <3>1. <<>> \in Seq(Files) /\ "next" \in At
      BY DEF At
    <3> QED
      BY <1>2, <1>5, <3>1 DEF Task
  <2> HIDE DEF t
  <2>4. TaskInv(t, site)
    BY <1>1, <1>2, <1>5, <2>3 DEF TaskInv, Fetching
  <2>5. /\ Accounted(t, Wanted[p], dir', disturbed[p]) /\ ReqInv(t, NoRequest, site)
        /\ PartInv(t.at, NoRequest, Attempts[p])
    BY <2>3 DEF Accounted, ReqInv, PartInv, Fetching
  <2> QED
    BY <1>1, <1>2, <1>4, <1>6, <2>1, <2>3, <2>4, <2>5, OneSteps
<1>8. CASE Becomes(p, [task[p] EXCEPT !.urls[s] = <<>>, !.fetched = @ \o fs, !.at = "verify"])
  <2> DEFINE fetched == task[p].fetched \o fs
             t == [task[p] EXCEPT !.urls = u, !.fetched = fetched, !.at = "verify"]
             e == [task[p] EXCEPT !.urls[s] = <<>>, !.fetched = @ \o fs, !.at = "verify"]
  <2>1. task' = [task EXCEPT ![p] = t]
    <3>1. task' = [task EXCEPT ![p] = e]
      BY <1>8 DEF Becomes
    <3>2. e = t
      BY <1>1, <1>2 DEF Task
    <3> HIDE DEF t, e
    <3> QED
      BY <3>1, <3>2
  <2>2. /\ fetched \in Seq(Files) /\ fetched # <<>>
        /\ ToSet(fetched) = ToSet(task[p].fetched) \union ToSet(fs)
    BY <1>1, <1>2, Joined
  <2> HIDE DEF u, fetched
  <2>3. /\ t \in Task /\ t.at = "verify" /\ t.look = task[p].look /\ t.urls = u
        /\ t.fetched = fetched /\ t.errors = task[p].errors
        /\ t.interrupted = task[p].interrupted /\ t.verified = task[p].verified
    <3>1. "verify" \in At
      BY DEF At
    <3> QED
      BY <1>2, <1>5, <2>2, <3>1 DEF Task
  <2> HIDE DEF t
  <2>4. TaskInv(t, site)
    BY <1>1, <1>2, <1>5, <2>2, <2>3 DEF TaskInv, Fetching
  <2>5. InHand(task[p]) \subseteq InHand(t) /\ ToSet(fs) \cap Files \subseteq InHand(t)
    BY <1>1, <1>5, <2>2, <2>3 DEF InHand
  <2>6. Accounted(t, Wanted[p], dir', disturbed[p])
    BY <1>1, <1>2, <1>4, <2>3, <2>5 DEF Accounted
  <2>7. ReqInv(t, NoRequest, site) /\ PartInv(t.at, NoRequest, Attempts[p])
    BY <2>3 DEF ReqInv, PartInv, Fetching
  <2> QED
    BY <1>1, <1>2, <1>4, <1>6, <2>1, <2>3, <2>4, <2>6, <2>7, OneSteps
<1> QED
  BY <1>7, <1>8 DEF Client

(* A step that only changes how far p is with its packages.                *)
LEMMA TaskChanges ==
    ASSUME IInv, NEW p \in Proc, UNCHANGED <<site, server, dir, lock, conn, req, disturbed>>,
           NEW t \in Task, Becomes(p, t), t.at \notin Fetching,
           TaskInv(t, site), Accounted(t, Wanted[p], dir, disturbed[p])
    PROVE  IInv'
<1>1. /\ dir' \in [Files -> File \union {NoFile}] /\ lock' \in Proc \union {NoProc}
      /\ conn' \in [Proc -> [{"http", "ftp"} -> Connection]] /\ req[p] \in Request
      /\ req' = [req EXCEPT ![p] = req[p]]
  BY TaskTypes
<1>2. ReqInv(t, req[p], site) /\ PartInv(t.at, req[p], Attempts[p])
  BY DEF ReqInv, PartInv, Fetching
<1> QED
  BY <1>1, <1>2, OneSteps DEF Requests, Noted, Becomes

(* The first package that is looked for is to be fetched.                  *)
IsQueued(p, t) ==
    LET f == Head(task[p].look)
    IN  /\ Becomes(p, t) /\ TaskInv(t, site) /\ t.at \notin Fetching
        /\ InHand(task[p]) \subseteq InHand(t) /\ f \in InHand(t)
        /\ t.look = Tail(task[p].look) /\ t.interrupted = task[p].interrupted
        /\ t.errors = task[p].errors /\ t.verified = task[p].verified

LEMMA QueuedIs ==
    ASSUME IInv, NEW p \in Proc, task[p].at \in {"check", "discard"},
           Becomes(p, [task[p] EXCEPT !.look = Tail(@),
                                      !.urls[site[Head(task[p].look)]] =
                                          Append(@, Head(task[p].look)),
                                      !.at = Checked(task[p])])
    PROVE  \E t \in Task : IsQueued(p, t)
<1> DEFINE look == task[p].look
           f == Head(look)
           a == Checked(task[p])
           u == [task[p].urls EXCEPT ![site[f]] = Append(@, f)]
           t == [task[p] EXCEPT !.look = Tail(@), !.urls = u, !.at = a]
           e == [task[p] EXCEPT !.look = Tail(@), !.urls[site[f]] = Append(@, f), !.at = a]
<1>1. /\ task[p] \in Task /\ task[p].urls \in [Protocols -> Seq(Files)]
      /\ look \in Seq(Files) /\ TaskInv(task[p], site) /\ site \in [Files -> Protocols]
  BY TaskTypes
<1>2. look # <<>> /\ task[p].fetched = <<>>
  BY <1>1 DEF TaskInv
<1>3. f \in Files /\ Tail(look) \in Seq(Files)
  BY <1>1, <1>2, HeadAndTail
<1>4. a \in {"next", "check"} /\ (a = "check" => Tail(look) # <<>>)
                               /\ (a = "next" => Tail(look) = <<>>)
  BY DEF Checked
<1>5. Becomes(p, t)
  <2>1. e = t
    BY <1>1 DEF Task
  <2>2. Becomes(p, e)
    OBVIOUS
  <2> HIDE DEF t, e
  <2> QED
    BY <2>1, <2>2
<1>6. /\ u \in [Protocols -> Seq(Files)] /\ site[f] \in Protocols
      /\ \A s \in Protocols \ {site[f]} : u[s] = task[p].urls[s]
      /\ ToSet(u[site[f]]) = ToSet(task[p].urls[site[f]]) \union {f}
  <2>1. site[f] \in Protocols /\ task[p].urls[site[f]] \in Seq(Files)
    BY <1>1, <1>3
  <2>2. /\ Append(task[p].urls[site[f]], f) \in Seq(Files)
        /\ ToSet(Append(task[p].urls[site[f]], f)) = ToSet(task[p].urls[site[f]]) \union {f}
    BY <1>3, <2>1, Appended
  <2> QED
    BY <1>1, <2>1, <2>2
<1> HIDE DEF a, u
<1>7. /\ t \in Task /\ t.at = a /\ t.look = Tail(look) /\ t.urls = u
      /\ t.fetched = <<>> /\ t.interrupted = task[p].interrupted
      /\ t.errors = task[p].errors /\ t.verified = task[p].verified
  BY <1>1, <1>2, <1>3, <1>4, <1>6 DEF Task, At
<1> HIDE DEF t
<1>8. TaskInv(t, site) /\ t.at \notin Fetching
  <2>1. \A s \in Protocols : \A y \in ToSet(u[s]) : site[y] = s
    BY <1>1, <1>6 DEF TaskInv
  <2> HIDE DEF f, look
  <2> QED
    BY <1>2, <1>4, <1>7, <2>1 DEF TaskInv, Fetching, look
<1>9. InHand(task[p]) \subseteq InHand(t) /\ f \in InHand(t)
  <2>1. /\ \A s \in Protocols : ToSet(task[p].urls[s]) \subseteq ToSet(u[s])
        /\ f \in ToSet(u[site[f]])
    BY <1>6
  <2> QED
    BY <1>2, <1>3, <1>6, <1>7, <2>1 DEF InHand
<1> QED
  BY <1>5, <1>7, <1>8, <1>9 DEF IsQueued

LEMMA CheckCachedKeeps ==
    ASSUME IInv, NEW p \in Proc, CheckCached(p)
    PROVE  IInv'
<1> DEFINE look == task[p].look
           f == Head(look)
           a == Checked(task[p])
<1>1. /\ task[p].at = "check" /\ look # <<>> /\ task[p].fetched = <<>>
      /\ UNCHANGED <<site, server, dir, lock, conn, req, disturbed>>
  BY TaskTypes DEF CheckCached, At_, TaskInv
<1>2. /\ task[p] \in Task /\ task[p].urls \in [Protocols -> Seq(Files)]
      /\ look \in Seq(Files) /\ task[p].verified \subseteq Files /\ TaskInv(task[p], site)
      /\ Accounted(task[p], Wanted[p], dir, disturbed[p]) /\ site \in [Files -> Protocols]
      /\ task[p].interrupted \in BOOLEAN
  BY TaskTypes
<1>3. f \in Files /\ Tail(look) \in Seq(Files) /\ ToSet(look) = {f} \union ToSet(Tail(look))
  BY <1>1, <1>2, HeadAndTail
<1>4. a \in {"next", "check"} /\ (a = "check" => Tail(look) # <<>>)
                               /\ (a = "next" => Tail(look) = <<>>)
  BY DEF Checked
<1> HIDE DEF a
<1>5. CASE Becomes(p, [task[p] EXCEPT !.urls = NoUrls, !.at = "next"]) /\ Interrupted(p)
  <2> DEFINE t == [task[p] EXCEPT !.urls = NoUrls, !.at = "next"]
  <2>1. /\ t \in Task /\ t.at = "next" /\ t.look = look /\ t.urls = NoUrls
        /\ t.fetched = <<>> /\ t.interrupted
    BY <1>1, <1>2, <1>5, NoneTypes DEF Task, At, Interrupted
  <2>2. Becomes(p, t)
    BY <1>5
  <2> HIDE DEF t
  <2>3. \A s \in Protocols : ToSet(NoUrls[s]) = {}
    BY DEF NoUrls, ToSet
  <2>4. TaskInv(t, site)
    BY <2>1, <2>3 DEF TaskInv, Fetching
  <2>5. Accounted(t, Wanted[p], dir, disturbed[p]) /\ t.at \notin Fetching
    BY <2>1 DEF Accounted, Fetching
  <2> QED
    BY <1>1, <2>1, <2>2, <2>4, <2>5, TaskChanges
<1>6. CASE /\ Verified(f)
           /\ Becomes(p, [task[p] EXCEPT !.look = Tail(@), !.verified = @ \union {f}, !.at = a])
  <2> DEFINE verified == task[p].verified \union {f}
             t == [task[p] EXCEPT !.look = Tail(@), !.verified = verified, !.at = a]
  <2>1. /\ t \in Task /\ t.at = a /\ t.look = Tail(look) /\ t.urls = task[p].urls
        /\ t.fetched = <<>> /\ t.interrupted = task[p].interrupted
        /\ t.errors = task[p].errors /\ t.verified = verified
    BY <1>1, <1>2, <1>3, <1>4 DEF Task, At
  <2>2. Becomes(p, t)
    BY <1>6 DEF Becomes, IInv, TypeOK, Task
  <2> HIDE DEF t
  <2>3. TaskInv(t, site)
    BY <1>1, <1>2, <1>4, <2>1 DEF TaskInv, Fetching
  <2>4. InHand(t) = InHand(task[p])
    BY <1>1, <2>1 DEF InHand
  <2>5. Accounted(t, Wanted[p], dir, disturbed[p]) /\ t.at \notin Fetching
    BY <1>1, <1>2, <1>3, <1>4, <1>6, <2>1, <2>4 DEF Accounted, Fetching, Good, Verified
  <2> QED
    BY <1>1, <2>1, <2>2, <2>3, <2>5, TaskChanges
<1>7. CASE Becomes(p, [task[p] EXCEPT !.look = Tail(@), !.urls[site[f]] = Append(@, f), !.at = a])
  <2>1. PICK t \in Task : IsQueued(p, t)
    BY <1>1, <1>7, QueuedIs DEF a
  <2>2. Accounted(t, Wanted[p], dir, disturbed[p])
    BY <1>1, <1>2, <1>3, <2>1 DEF Accounted, IsQueued
  <2> QED
    BY <1>1, <2>1, <2>2, TaskChanges DEF IsQueued
<1>8. CASE Becomes(p, [task[p] EXCEPT !.at = "discard"])
  <2> DEFINE t == [task[p] EXCEPT !.at = "discard"]
  <2>1. /\ t \in Task /\ t.at = "discard" /\ t.look = look /\ t.urls = task[p].urls
        /\ t.fetched = <<>> /\ t.interrupted = task[p].interrupted
        /\ t.errors = task[p].errors /\ t.verified = task[p].verified
    BY <1>1, <1>2 DEF Task, At
  <2>2. Becomes(p, t)
    BY <1>8
  <2> HIDE DEF t
  <2>3. TaskInv(t, site)
    BY <1>1, <1>2, <2>1 DEF TaskInv, Fetching
  <2>4. InHand(t) = InHand(task[p])
    BY <1>1, <2>1 DEF InHand
  <2>5. Accounted(t, Wanted[p], dir, disturbed[p]) /\ t.at \notin Fetching
    BY <1>1, <1>2, <2>1, <2>4 DEF Accounted, Fetching
  <2> QED
    BY <1>1, <2>1, <2>2, <2>3, <2>5, TaskChanges
<1> QED
  BY <1>5, <1>6, <1>7, <1>8 DEF CheckCached, a

LEMMA DiscardKeeps ==
    ASSUME IInv, NEW p \in Proc, Discard(p)
    PROVE  IInv'
<1> DEFINE f == Head(task[p].look)
<1>1. /\ task[p].at = "discard" /\ UNCHANGED <<site, server, lock, conn>>
      /\ dir' = [dir EXCEPT ![f] = NoFile] /\ req' = Orphaned(f) /\ Noted(p)
  BY DEF Discard, At_, Noted
<1>2. /\ task[p].look \in Seq(Files) /\ task[p].look # <<>> /\ task[p].verified \subseteq Files
      /\ Accounted(task[p], Wanted[p], dir, disturbed[p])
      /\ dir \in [Files -> File \union {NoFile}] /\ lock' \in Proc \union {NoProc}
      /\ conn' \in [Proc -> [{"http", "ftp"} -> Connection]] /\ req \in [Proc -> Request]
  BY <1>1, TaskTypes DEF TaskInv
<1>3. f \in Files /\ ToSet(task[p].look) = {f} \union ToSet(Tail(task[p].look))
  BY <1>2, HeadAndTail
<1>4. PICK t \in Task : IsQueued(p, t)
  BY <1>1, QueuedIs DEF Discard
<1>5. Accounted(t, Wanted[p], dir', disturbed[p])
  <2>1. \A x \in Files \ {f} : dir'[x] = dir[x]
    BY <1>1, <1>2
  <2> QED
    BY <1>1, <1>2, <1>3, <1>4, <2>1 DEF Accounted, IsQueued
<1> DEFINE r == Orphaned(f)[p]
<1>6. r \in Request
  BY <1>2 DEF Orphaned, Request
<1>7. Requests(p, r)
  <2>1. req' = [Orphaned(f) EXCEPT ![p] = r]
    BY <1>1 DEF Orphaned
  <2> QED
    BY <1>3, <2>1 DEF Requests
<1> HIDE DEF r
<1>8. ReqInv(t, r, site) /\ PartInv(t.at, r, Attempts[p])
  BY <1>4 DEF IsQueued, ReqInv, PartInv, Fetching
<1>9. dir' \in [Files -> File \union {NoFile}]
  BY <1>1, <1>2
<1> QED
  BY <1>1, <1>2, <1>4, <1>5, <1>6, <1>7, <1>8, <1>9, OneSteps DEF IsQueued, Becomes

LEMMA NextFileKeeps ==
    ASSUME IInv, NEW p \in Proc, NextFile(p)
    PROVE  IInv'
<1>1. /\ task[p].at = "next" /\ UNCHANGED <<site, server, dir, lock, conn, disturbed>>
      /\ Goto(p, "open")
  BY DEF NextFile, At_
<1>2. PICK s \in Protocols :
        /\ task[p].urls[s] # <<>>
        /\ task[p].fetched # <<>> => s = site[Head(task[p].fetched)]
        /\ req' = [req EXCEPT ![p] = [@ EXCEPT !.file = Head(task[p].urls[s]), !.proto = s,
                                               !.redirects = 0, !.foreign = FALSE]]
  BY DEF NextFile
<1> DEFINE f == Head(task[p].urls[s])
           r == [req[p] EXCEPT !.file = f, !.proto = s, !.redirects = 0, !.foreign = FALSE]
           t == [task[p] EXCEPT !.at = "open"]
<1>3. /\ task[p] \in Task /\ task[p].urls[s] \in Seq(Files) /\ TaskInv(task[p], site)
      /\ Accounted(task[p], Wanted[p], dir, disturbed[p])
      /\ dir' \in [Files -> File \union {NoFile}] /\ lock' \in Proc \union {NoProc}
      /\ conn' \in [Proc -> [{"http", "ftp"} -> Connection]] /\ req[p] \in Request
      /\ task \in [Proc -> Task]
  BY <1>1, TaskTypes DEF IInv, TypeOK
<1>4. f \in Files /\ f \in ToSet(task[p].urls[s]) /\ site[f] = s
  <2>1. f \in Files /\ f \in ToSet(task[p].urls[s])
    BY <1>2, <1>3, HeadAndTail
  <2> QED
    BY <1>3, <2>1 DEF TaskInv
<1>5. s \in {"http", "ftp", "rsync"}
  BY ProtocolAssumption
<1>6. r \in Request /\ r.file = f
  BY <1>3, <1>4, <1>5 DEF Request
<1>7. req' = [req EXCEPT ![p] = r]
  BY <1>2
<1> HIDE DEF r
<1>8. /\ t \in Task /\ t.at = "open" /\ t.look = task[p].look /\ t.urls = task[p].urls
      /\ t.fetched = task[p].fetched /\ t.verified = task[p].verified
      /\ t.errors = task[p].errors /\ t.interrupted = task[p].interrupted
  BY <1>3 DEF Task, At
<1>9. task' = [task EXCEPT ![p] = t]
  BY <1>1, <1>3 DEF Goto
<1> HIDE DEF t
<1>10. TaskInv(t, site)
  BY <1>1, <1>3, <1>8 DEF TaskInv, Fetching
<1>11. ReqInv(t, r, site)
  BY <1>2, <1>4, <1>6, <1>8 DEF ReqInv
<1>12. Accounted(t, Wanted[p], dir', disturbed[p])
  <2>1. InHand(t) = InHand(task[p])
    BY <1>8 DEF InHand
  <2> QED
    BY <1>1, <1>3, <1>8, <2>1 DEF Accounted
<1>13. PartInv(t.at, r, Attempts[p]) /\ Requests(p, r) /\ Noted(p)
  BY <1>1, <1>7, <1>8 DEF PartInv, Requests, Noted
<1> QED
  BY <1>1, <1>3, <1>6, <1>8, <1>9, <1>10, <1>11, <1>12, <1>13, OneSteps

LEMMA NoMoreFilesKeeps ==
    ASSUME IInv, NEW p \in Proc, NoMoreFiles(p)
    PROVE  IInv'
<1> DEFINE t == [task[p] EXCEPT !.at = "done", !.errors = @ \/ Interrupted(p)]
<1>1. /\ task[p].at = "next" /\ UNCHANGED <<site, server, dir, lock, req, disturbed>>
      /\ task[p].urls = NoUrls \/ task[p].interrupted
      /\ task' = [task EXCEPT ![p].at = "done", ![p].errors = @ \/ Interrupted(p)]
      /\ conn' = [conn EXCEPT ![p] = NoConnections]
  BY DEF NoMoreFiles, At_, StopsHere, Interrupted
<1>2. /\ task[p] \in Task /\ TaskInv(task[p], site) /\ task[p].fetched \in Seq(Files)
      /\ task[p].interrupted \in BOOLEAN /\ task[p].errors \in BOOLEAN
      /\ Accounted(task[p], Wanted[p], dir, disturbed[p]) /\ site \in [Files -> Protocols]
      /\ dir' \in [Files -> File \union {NoFile}] /\ lock' \in Proc \union {NoProc}
      /\ req[p] \in Request /\ req' = [req EXCEPT ![p] = req[p]]
      /\ task \in [Proc -> Task] /\ conn \in [Proc -> [{"http", "ftp"} -> Connection]]
  <2>1. /\ task[p] \in Task /\ TaskInv(task[p], site) /\ task[p].fetched \in Seq(Files)
        /\ task[p].interrupted \in BOOLEAN /\ task[p].errors \in BOOLEAN
        /\ Accounted(task[p], Wanted[p], dir, disturbed[p])
    BY TaskTypes
  <2> QED
    BY <1>1, <2>1 DEF IInv, TypeOK
<1>3. /\ t \in Task /\ t.at = "done" /\ t.look = task[p].look /\ t.urls = task[p].urls
      /\ t.fetched = task[p].fetched /\ t.verified = task[p].verified
      /\ t.errors = (task[p].errors \/ task[p].interrupted)
      /\ t.interrupted = task[p].interrupted
  BY <1>2 DEF Task, At, Interrupted
<1>4. task' = [task EXCEPT ![p] = t]
  BY <1>1, <1>2 DEF Task
<1> HIDE DEF t
<1>5. task[p].urls = NoUrls => task[p].fetched = <<>>
  <2> SUFFICES ASSUME task[p].urls = NoUrls, task[p].fetched # <<>>
               PROVE  FALSE
    OBVIOUS
  <2>1. Head(task[p].fetched) \in Files
    BY <1>2, HeadAndTail
  <2>2. NoUrls[site[Head(task[p].fetched)]] = <<>>
    BY <1>2, <2>1 DEF NoUrls
  <2> QED
    BY <1>1, <1>2, <2>2 DEF TaskInv
<1>6. TaskInv(t, site)
  BY <1>1, <1>2, <1>3, <1>5 DEF TaskInv, Fetching
<1>7. InHand(t) = InHand(task[p])
  BY <1>3 DEF InHand
<1>8. Accounted(t, Wanted[p], dir', disturbed[p])
  BY <1>1, <1>2, <1>3, <1>7 DEF Accounted
<1>9. ReqInv(t, req[p], site) /\ PartInv(t.at, req[p], Attempts[p])
  BY <1>3 DEF ReqInv, PartInv, Fetching
<1>10. conn' \in [Proc -> [{"http", "ftp"} -> Connection]]
  BY <1>1, <1>2, NoneTypes
<1>11. Requests(p, req[p]) /\ Noted(p)
  BY <1>1, <1>2 DEF Requests, Noted
<1> QED
  BY <1>1, <1>2, <1>3, <1>4, <1>6, <1>8, <1>9, <1>10, <1>11, OneSteps

LEMMA VerifyKeeps ==
    ASSUME IInv, NEW p \in Proc, Verify(p)
    PROVE  IInv'
<1> DEFINE fetched == task[p].fetched
           f == Head(fetched)
           verified == IF Verified(f) THEN task[p].verified \union {f} ELSE task[p].verified
           errors == task[p].errors \/ ~Verified(f)
           a == IF Tail(fetched) = <<>> THEN "next" ELSE "verify"
           t == [task[p] EXCEPT !.fetched = Tail(fetched), !.verified = verified,
                                !.errors = errors, !.at = a]
           e == [task[p] EXCEPT !.fetched = Tail(@),
                                !.verified = IF Verified(f) THEN @ \union {f} ELSE @,
                                !.errors = @ \/ ~Verified(f), !.at = a]
<1>1. task[p].at = "verify" /\ UNCHANGED <<site, server, dir, lock, conn, req, disturbed>>
  BY DEF Verify, At_
<1>2. /\ task[p] \in Task /\ TaskInv(task[p], site) /\ fetched \in Seq(Files)
      /\ task[p].verified \subseteq Files /\ task[p].errors \in BOOLEAN
      /\ Accounted(task[p], Wanted[p], dir, disturbed[p])
  BY TaskTypes
<1>3. fetched # <<>>
  BY <1>1, <1>2 DEF TaskInv
<1>4. /\ f \in Files /\ Tail(fetched) \in Seq(Files)
      /\ ToSet(fetched) = {f} \union ToSet(Tail(fetched))
  BY <1>2, <1>3, HeadAndTail
<1>5. Becomes(p, t)
  <2>1. e = t
    BY <1>2 DEF Task
  <2>2. Becomes(p, e)
    BY DEF Verify
  <2> HIDE DEF t, e
  <2> QED
    BY <2>1, <2>2
<1>6. /\ a \in {"next", "verify"} /\ (a = "next" <=> Tail(fetched) = <<>>)
      /\ verified \subseteq Files /\ errors \in BOOLEAN
      /\ verified = (task[p].verified \union {x \in {f} : Verified(x)})
      /\ ~errors => Verified(f) /\ ~task[p].errors
  BY <1>2, <1>4 DEF Verified
<1> HIDE DEF a, verified, errors
<1>7. /\ t \in Task /\ t.at = a /\ t.look = task[p].look /\ t.urls = task[p].urls
      /\ t.fetched = Tail(fetched) /\ t.verified = verified /\ t.errors = errors
      /\ t.interrupted = task[p].interrupted
  BY <1>2, <1>4, <1>6 DEF Task, At
<1> HIDE DEF t
<1>8. TaskInv(t, site)
  BY <1>1, <1>2, <1>6, <1>7 DEF TaskInv, Fetching
<1>9. InHand(task[p]) \subseteq InHand(t) \union {f}
  BY <1>4, <1>7 DEF InHand
<1>10. Accounted(t, Wanted[p], dir, disturbed[p])
  BY <1>1, <1>2, <1>4, <1>6, <1>7, <1>9 DEF Accounted, Good, Verified
<1>11. t.at \notin Fetching
  BY <1>6, <1>7 DEF Fetching
<1> QED
  BY <1>1, <1>5, <1>7, <1>8, <1>10, <1>11, TaskChanges

LEMMA EndsKeeps ==
    ASSUME IInv, NEW p \in Proc, Ends(p)
    PROVE  IInv'
<1> DEFINE t == [task[p] EXCEPT !.at = "dead", !.look = <<>>, !.urls = NoUrls,
                                !.fetched = <<>>, !.interrupted = FALSE]
<1>1. /\ UNCHANGED <<site, server, dir, disturbed>> /\ req' = [req EXCEPT ![p] = NoRequest]
      /\ conn' = [conn EXCEPT ![p] = NoConnections] /\ task' = [task EXCEPT ![p] = t]
      /\ lock' \in Proc \union {NoProc}
  BY DEF Ends, IInv, TypeOK
<1>2. /\ task[p] \in Task /\ dir' \in [Files -> File \union {NoFile}]
      /\ conn \in [Proc -> [{"http", "ftp"} -> Connection]]
  BY <1>1, TaskTypes
<1>3. /\ t \in Task /\ t.at = "dead" /\ t.look = <<>> /\ t.urls = NoUrls /\ t.fetched = <<>>
  <2>1. <<>> \in Seq(Files) /\ "dead" \in At
    BY DEF At
  <2> QED
    BY <1>2, <2>1, NoneTypes DEF Task
<1> HIDE DEF t
<1>4. \A s \in Protocols : ToSet(NoUrls[s]) = {}
  BY DEF NoUrls, ToSet
<1>5. TaskInv(t, site)
  BY <1>3, <1>4 DEF TaskInv, Fetching
<1>6. /\ Accounted(t, Wanted[p], dir', disturbed[p]) /\ ReqInv(t, NoRequest, site)
      /\ PartInv(t.at, NoRequest, Attempts[p])
  BY <1>3 DEF Accounted, ReqInv, PartInv, Fetching
<1>7. conn' \in [Proc -> [{"http", "ftp"} -> Connection]]
  BY <1>1, <1>2, NoneTypes
<1>8. Requests(p, NoRequest) /\ Noted(p)
  BY <1>1 DEF Requests, Noted
<1> QED
  BY <1>1, <1>2, <1>3, <1>5, <1>6, <1>7, <1>8, NoneTypes, OneSteps

LEMMA InterruptKeeps ==
    ASSUME IInv, NEW p \in Proc, Interrupt(p)
    PROVE  IInv'
<1> DEFINE t == [task[p] EXCEPT !.interrupted = TRUE]
<1>1. /\ UNCHANGED <<site, server, dir, lock, conn, req, disturbed>> /\ task[p].at # "done"
      /\ task' = [task EXCEPT ![p].interrupted = TRUE]
  BY DEF Interrupt
<1>2. /\ task[p] \in Task /\ TaskInv(task[p], site) /\ ReqInv(task[p], req[p], site)
      /\ dir' \in [Files -> File \union {NoFile}] /\ lock' \in Proc \union {NoProc}
      /\ conn' \in [Proc -> [{"http", "ftp"} -> Connection]]
      /\ req[p] \in Request /\ req' = [req EXCEPT ![p] = req[p]]
  <2>1. task[p] \in Task /\ TaskInv(task[p], site) /\ ReqInv(task[p], req[p], site)
    BY TaskTypes
  <2> QED
    BY <1>1, <2>1 DEF IInv, TypeOK
<1>3. /\ t \in Task /\ t.at = task[p].at /\ t.look = task[p].look /\ t.urls = task[p].urls
      /\ t.fetched = task[p].fetched /\ t.interrupted
  BY <1>2 DEF Task
<1>4. task' = [task EXCEPT ![p] = t]
  BY <1>1
<1> HIDE DEF t
<1>5. TaskInv(t, site)
  BY <1>1, <1>2, <1>3 DEF TaskInv
<1>6. ReqInv(t, req[p], site) /\ Accounted(t, Wanted[p], dir', disturbed[p])
  BY <1>2, <1>3 DEF ReqInv, Accounted
<1>7. PartInv(t.at, req[p], Attempts[p]) /\ Requests(p, req[p]) /\ Noted(p)
  BY <1>1, <1>2, <1>3 DEF IInv, Each, Requests, Noted
<1> QED
  BY <1>1, <1>2, <1>3, <1>4, <1>5, <1>6, <1>7, OneSteps

LEMMA PublishKeeps ==
    ASSUME IInv, NEW f \in Files, Publish(f)
    PROVE  IInv'
<1>1. /\ server \in [Files -> Versions \union {0}]
      /\ \E v \in {0} \union Versions : server' = [server EXCEPT ![f] = v]
      /\ UNCHANGED <<site, dir, lock, conn, req, task, disturbed>>
  BY DEF IInv, TypeOK, Publish
<1>2. TypeOK'
  BY <1>1 DEF IInv, TypeOK
<1>3. \A p \in Proc : Each(p)'
  BY <1>1 DEF IInv, Each
<1> QED
  BY <1>2, <1>3 DEF IInv

LEMMA TNext == IInv /\ [Next]_vars => IInv'
<1> SUFFICES ASSUME IInv, [Next]_vars PROVE IInv'
  OBVIOUS
<1>1. CASE UNCHANGED vars
  <2>1. /\ UNCHANGED <<site, server, dir, lock, conn, req, task, disturbed>>
    BY <1>1 DEF vars
  <2>2. TypeOK'
    BY <2>1 DEF IInv, TypeOK
  <2>3. \A p \in Proc : Each(p)'
    BY <2>1 DEF IInv, Each
  <2> QED
    BY <2>2, <2>3 DEF IInv
<1>2. ASSUME NEW p \in Proc, Request_(p) PROVE IInv'
  BY <1>2, CheckCachedKeeps, DiscardKeeps, NextFileKeeps, NoMoreFilesKeeps, VerifyKeeps
     DEF Request_
<1>3. ASSUME NEW p \in Proc, Fetch(p) PROVE IInv'
  BY <1>3, OpenKeeps, UpToDateKeeps, StartAfreshKeeps, EndsKeeps, CloseKeeps, GiveUpKeeps,
     ClientKeeps DEF Fetch, StatRedirected
<1>4. ASSUME NEW p \in Proc, Step(p) PROVE IInv'
  BY <1>2, <1>3, <1>4, AttemptKeeps, HttpKeeps, FtpKeeps, TransferKeeps DEF Step
<1>5. ASSUME NEW p \in Proc, Interrupt(p) \/ Die(p) PROVE IInv'
  BY <1>5, InterruptKeeps, EndsKeeps DEF Die
<1> QED
  BY <1>1, <1>4, <1>5, PublishKeeps DEF Next, Finished

-----------------------------------------------------------------------------
LEMMA Invariance == Spec => []IInv
BY TInit, TNext, PTL DEF Spec

(* Requests, connections, arrays of urls and the files of the cache have   *)
(* the types the code gives them.                                          *)
THEOREM TypesCorrect == Spec => []TypeOK
<1>1. IInv => TypeOK
  BY DEF IInv
<1> QED
  BY <1>1, Invariance, PTL

(* packages_fetch (pkgfetch.c) that reports success has each of the        *)
(* packages it was asked for in the cache, whole, but for those that       *)
(* another process unlinked or changed after they had been verified:       *)
(* whatever was in the cache before, and whatever the servers, the         *)
(* connections and the other processes do in between.                      *)
THEOREM FetchedReally == Spec => []FetchedAreThere
<1>1. IInv => FetchedAreThere
  <2> SUFFICES ASSUME IInv, NEW p \in Proc, task[p].at = "done", ~task[p].errors,
                      NEW f \in ToSet(Wanted[p])
               PROVE  Verified(f) \/ f \in disturbed[p]
    BY DEF FetchedAreThere
  <2>1. /\ TaskInv(task[p], site) /\ Accounted(task[p], Wanted[p], dir, disturbed[p])
        /\ Wanted[p] \in Seq(Files)
    BY WantedAssumption DEF IInv, Each
  <2>2. /\ ~task[p].interrupted /\ task[p].urls = NoUrls /\ task[p].fetched = <<>>
        /\ task[p].look = <<>>
    BY <2>1 DEF TaskInv
  <2>3. ToSet(<<>>) = {} /\ \A s \in Protocols : ToSet(NoUrls[s]) = {}
    BY DEF ToSet, NoUrls
  <2>4. InHand(task[p]) = {}
    BY <2>2, <2>3 DEF InHand
  <2>5. f \in task[p].verified
    BY <2>1, <2>2, <2>3, <2>4 DEF Accounted
  <2> QED
    BY <2>1, <2>2, <2>4, <2>5 DEF Accounted, Good, Verified
<1> QED
  BY <1>1, Invariance, PTL

(* vhttp_vcn_retr (vfff/http.c) and do_vfn (vfffmod.c) append an answer    *)
(* only where the file ends, whatever the server made of the file since,   *)
(* and the parts come from no more versions than there were attempts.      *)
THEOREM PartsStayInPlace == Spec => []PartsInPlace
<1>1. IInv => PartsInPlace
  <2> SUFFICES ASSUME IInv, NEW p \in Proc, req[p].proto = "http",
                      task[p].at \in {"attempt", "answer", "body", "close"}
               PROVE  /\ InOrder(req[p].data)
                      /\ Cardinality(VersionsIn(req[p].data)) <= 1 + Attempts[p] - req[p].tries
    BY DEF PartsInPlace, InOrder, VersionsIn
  <2> DEFINE C == Cardinality(VersionsIn(req[p].data))
             D == Cardinality(VersionsIn(req[p].data) \union {req[p].ver})
  <2>1. /\ PartInv(task[p].at, req[p], Attempts[p]) /\ Attempts[p] \in Nat
        /\ req[p].data \in Data /\ C \in Nat
        /\ VersionsIn(req[p].data) \subseteq Versions \union {Page}
        /\ req[p].ver \in Versions \union {Page} /\ req[p].tries \in Nat
    BY InAttempt DEF Request
  <2>2. C <= D /\ D \in Nat
    BY <2>1, VersionsFinite
  <2>3. InOrder(req[p].data)
    BY <2>1 DEF PartInv
  <2>4. /\ task[p].at \in {"attempt", "answer"} => C + req[p].tries <= Attempts[p]
        /\ task[p].at = "body" => D + req[p].tries <= 1 + Attempts[p]
        /\ task[p].at = "close" => C + req[p].tries <= 1 + Attempts[p]
    BY <2>1 DEF PartInv
  <2> HIDE DEF C, D
  <2>5. C <= 1 + Attempts[p] - req[p].tries
    BY <2>1, <2>2, <2>4
  <2> QED
    BY <2>3, <2>5 DEF C
<1> QED
  BY <1>1, Invariance, PTL
=============================================================================
