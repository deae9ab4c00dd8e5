---------------------------- MODULE OrderProofs ----------------------------
(***************************************************************************)
(* What Order guarantees for every repository, however many packages it    *)
(* has and whatever they require.                                          *)
(***************************************************************************)
EXTENDS Order, SequenceTheorems, TLAPS

(* The packages on the stack, bottom first.                                *)
Path(s) == [i \in DOMAIN s |-> s[i].pkg]

-----------------------------------------------------------------------------
(* Sequences.                                                              *)

(* A sequence with one more element at its end.                            *)
LEMMA Appended ==
    ASSUME NEW S, NEW s \in Seq(S), NEW x \in S
    PROVE  /\ Append(s, x) \in Seq(S)
           /\ Len(s) \in Nat /\ DOMAIN s = 1..Len(s)
           /\ Len(Append(s, x)) = Len(s) + 1
           /\ DOMAIN Append(s, x) = 1..(Len(s) + 1)
           /\ \A i \in 1..Len(s) : Append(s, x)[i] = s[i]
           /\ Append(s, x)[Len(s) + 1] = x
           /\ ToSet(Append(s, x)) = ToSet(s) \union {x}
<1>1. /\ Append(s, x) \in Seq(S)
      /\ Len(s) \in Nat /\ DOMAIN s = 1..Len(s)
      /\ Len(Append(s, x)) = Len(s) + 1
      /\ DOMAIN Append(s, x) = 1..(Len(s) + 1)
      /\ \A i \in 1..Len(s) : Append(s, x)[i] = s[i]
      /\ Append(s, x)[Len(s) + 1] = x
  BY AppendProperties, LenProperties
<1>2. 1..(Len(s) + 1) = 1..Len(s) \union {Len(s) + 1}
  BY <1>1
<1>3. ToSet(Append(s, x)) = ToSet(s) \union {x}
  BY <1>1, <1>2 DEF ToSet
<1> QED
  BY <1>1, <1>3

(* A sequence of different elements stays one when a new element comes.    *)
LEMMA AppendedInjective ==
    ASSUME NEW S, NEW s \in Seq(S), NEW x \in S, IsInjective(s), x \notin ToSet(s)
    PROVE  IsInjective(Append(s, x))
  BY Appended DEF IsInjective, ToSet

(* The stack without its top.                                              *)
LEMMA BelowTop ==
    ASSUME NEW S, NEW s \in Seq(S), s # << >>
    PROVE  /\ Len(s) \in Nat \ {0} /\ DOMAIN s = 1..Len(s)
           /\ s[Len(s)] \in S
           /\ SubSeq(s, 1, Len(s) - 1) \in Seq(S)
           /\ Len(SubSeq(s, 1, Len(s) - 1)) = Len(s) - 1
           /\ DOMAIN SubSeq(s, 1, Len(s) - 1) = 1..(Len(s) - 1)
           /\ \A i \in 1..(Len(s) - 1) : SubSeq(s, 1, Len(s) - 1)[i] = s[i]
<1>1. Len(s) \in Nat \ {0} /\ DOMAIN s = 1..Len(s) /\ \A i \in 1..Len(s) : s[i] \in S
  BY EmptySeq, LenProperties, ElementOfSeq
<1>2. s[Len(s)] \in S
  BY <1>1
<1>3. ASSUME NEW n \in 0..Len(s)
      PROVE  /\ SubSeq(s, 1, n) \in Seq(S) /\ Len(SubSeq(s, 1, n)) = n
             /\ DOMAIN SubSeq(s, 1, n) = 1..n
             /\ \A i \in 1..n : SubSeq(s, 1, n)[i] = s[i]
  OBVIOUS
<1>4. Len(s) - 1 \in 0..Len(s)
  BY <1>1
<1> QED
  BY <1>1, <1>2, <1>3, <1>4, Zenon

(* The first element and the others.                                       *)
LEMMA HeadAndTail ==
    ASSUME NEW S, NEW s \in Seq(S), s # << >>
    PROVE  /\ Head(s) \in S /\ Tail(s) \in Seq(S)
           /\ ToSet(s) = {Head(s)} \union ToSet(Tail(s))
<1>1. /\ Len(s) \in Nat \ {0} /\ DOMAIN s = 1..Len(s)
      /\ Head(s) \in S /\ Tail(s) \in Seq(S)
      /\ DOMAIN Tail(s) = 1..(Len(s) - 1)
      /\ Head(s) = s[1] /\ \A i \in 1..(Len(s) - 1) : Tail(s)[i] = s[i + 1]
  BY EmptySeq, LenProperties, HeadTailProperties
<1>2. ToSet(s) \subseteq {Head(s)} \union ToSet(Tail(s))
  <2> SUFFICES ASSUME NEW i \in 1..Len(s), i # 1
               PROVE  s[i] \in ToSet(Tail(s))
    BY <1>1 DEF ToSet
  <2>1. i - 1 \in 1..(Len(s) - 1) /\ Tail(s)[i - 1] = s[i]
    BY <1>1
  <2> QED
    BY <1>1, <2>1 DEF ToSet
<1>3. {Head(s)} \union ToSet(Tail(s)) \subseteq ToSet(s)
  BY <1>1 DEF ToSet
<1> QED
  BY <1>1, <1>2, <1>3

(* Reversing keeps the elements and swaps their order.                     *)
LEMMA Reversed ==
    ASSUME NEW S, NEW s \in Seq(S)
    PROVE  /\ Reverse(s) \in Seq(S)
           /\ Len(s) \in Nat /\ DOMAIN s = 1..Len(s) /\ DOMAIN Reverse(s) = 1..Len(s)
           /\ \A i \in 1..Len(s) : /\ Len(s) - i + 1 \in 1..Len(s)
                                   /\ Reverse(s)[Len(s) - i + 1] = s[i]
                                   /\ Reverse(s)[i] = s[Len(s) - i + 1]
           /\ ToSet(Reverse(s)) = ToSet(s)
           /\ IsInjective(s) => IsInjective(Reverse(s))
<1>1. Len(s) \in Nat /\ DOMAIN s = 1..Len(s) /\ \A i \in 1..Len(s) : s[i] \in S
  BY LenProperties, ElementOfSeq
<1>2. \A i \in 1..Len(s) : /\ Len(s) - i + 1 \in 1..Len(s)
                           /\ Len(s) - (Len(s) - i + 1) + 1 = i
  BY <1>1
<1>3. Reverse(s) \in Seq(S)
  <2>1. Reverse(s) \in [1..Len(s) -> S]
    BY <1>1, <1>2 DEF Reverse
  <2> QED
    BY <1>1, <2>1, SeqDef
<1>4. /\ DOMAIN Reverse(s) = 1..Len(s)
      /\ \A i \in 1..Len(s) : Reverse(s)[i] = s[Len(s) - i + 1]
  BY DEF Reverse
<1>5. \A i \in 1..Len(s) : Reverse(s)[Len(s) - i + 1] = s[i]
  BY <1>2, <1>4
<1>6. ToSet(Reverse(s)) = ToSet(s)
  BY <1>1, <1>2, <1>4, <1>5 DEF ToSet
<1>7. IsInjective(s) => IsInjective(Reverse(s))
  BY <1>1, <1>2, <1>4 DEF IsInjective
<1> QED
  BY <1>1, <1>2, <1>3, <1>4, <1>5, <1>6, <1>7

-----------------------------------------------------------------------------
(* The stack.                                                              *)

(* The path of a stack, one package per call.                              *)
LEMMA PathType ==
    ASSUME NEW s \in Seq(Frame)
    PROVE  /\ Path(s) \in Seq(Pkg)
           /\ Len(s) \in Nat /\ Len(Path(s)) = Len(s)
           /\ DOMAIN s = 1..Len(s) /\ DOMAIN Path(s) = 1..Len(s)
           /\ \A i \in 1..Len(s) : s[i] \in Frame /\ Path(s)[i] = s[i].pkg
<1>1. Len(s) \in Nat /\ DOMAIN s = 1..Len(s) /\ \A i \in 1..Len(s) : s[i] \in Frame
  BY LenProperties, ElementOfSeq
<1>2. Path(s) \in [1..Len(s) -> Pkg]
  BY <1>1 DEF Path, Frame
<1>3. Path(s) \in Seq(Pkg)
  BY <1>1, <1>2, SeqDef
<1>4. Len(Path(s)) = Len(s)
  BY <1>1, <1>2, <1>3, LenProperties
<1> QED
  BY <1>1, <1>2, <1>3, <1>4 DEF Path

(* A new call is one more package at the end of the path.                  *)
LEMMA PathAppend ==
    ASSUME NEW s \in Seq(Frame), NEW f \in Frame
    PROVE  Append(s, f) \in Seq(Frame) /\ Path(Append(s, f)) = Append(Path(s), f.pkg)
<1>1. /\ Append(s, f) \in Seq(Frame) /\ Len(Append(s, f)) = Len(s) + 1
      /\ \A i \in 1..Len(s) : Append(s, f)[i] = s[i]
      /\ Append(s, f)[Len(s) + 1] = f
  BY Appended
<1>2. f.pkg \in Pkg
  BY DEF Frame
<1>3. /\ Append(Path(s), f.pkg) \in Seq(Pkg)
      /\ Len(Append(Path(s), f.pkg)) = Len(s) + 1
      /\ \A i \in 1..Len(s) : Append(Path(s), f.pkg)[i] = s[i].pkg
      /\ Append(Path(s), f.pkg)[Len(s) + 1] = f.pkg
  BY <1>2, PathType, Appended
<1>4. /\ Path(Append(s, f)) \in Seq(Pkg) /\ Len(Path(Append(s, f))) = Len(s) + 1
      /\ \A i \in 1..(Len(s) + 1) : Path(Append(s, f))[i] = Append(s, f)[i].pkg
  BY <1>1, PathType
<1>5. Len(s) \in Nat
  BY PathType
<1>6. \A i \in 1..(Len(s) + 1) : Path(Append(s, f))[i] = Append(Path(s), f.pkg)[i]
  <2> SUFFICES ASSUME NEW i \in 1..(Len(s) + 1)
               PROVE  Path(Append(s, f))[i] = Append(Path(s), f.pkg)[i]
    OBVIOUS
  <2>1. CASE i \in 1..Len(s)
    BY <1>1, <1>3, <1>4, <2>1
  <2>2. CASE i = Len(s) + 1
    BY <1>1, <1>3, <1>4, <2>2
  <2>3. i \in 1..Len(s) \/ i = Len(s) + 1
    BY <1>5
  <2> QED
    BY <2>1, <2>2, <2>3
<1> QED
  BY <1>1, <1>3, <1>4, <1>6, SeqEqual

(* What the steps do to the stack: the top returns, goes on, or goes on    *)
(* and calls.                                                              *)
LEMMA StackSteps ==
    ASSUME stack \in Seq(Frame), stack # << >>
    PROVE  /\ Len(stack) \in Nat \ {0} /\ Top \in Frame
           /\ Path(stack)[Len(stack)] = Top.pkg
           /\ Below \in Seq(Frame) /\ Len(Below) = Len(stack) - 1
           /\ \A i \in 1..(Len(stack) - 1) : Below[i] = stack[i]
           /\ Path(stack) = Append(Path(Below), Top.pkg)
           /\ \A f \in Frame : f.pkg = Top.pkg =>
                /\ Replace(f) \in Seq(Frame) /\ Len(Replace(f)) = Len(stack)
                /\ \A i \in 1..(Len(stack) - 1) : Replace(f)[i] = stack[i]
                /\ Replace(f)[Len(stack)] = f
                /\ Path(Replace(f)) = Path(stack)
<1>1. /\ Len(stack) \in Nat \ {0} /\ Top \in Frame
      /\ Below \in Seq(Frame) /\ Len(Below) = Len(stack) - 1
      /\ \A i \in 1..(Len(stack) - 1) : Below[i] = stack[i]
  BY BelowTop DEF Below, Top
<1>2. Path(stack)[Len(stack)] = Top.pkg
  BY <1>1, PathType DEF Top
<1>3. ASSUME NEW f \in Frame
      PROVE  /\ Replace(f) \in Seq(Frame) /\ Len(Replace(f)) = Len(stack)
             /\ \A i \in 1..(Len(stack) - 1) : Replace(f)[i] = stack[i]
             /\ Replace(f)[Len(stack)] = f
             /\ Path(Replace(f)) = Append(Path(Below), f.pkg)
  <2>1. /\ Replace(f) \in Seq(Frame) /\ Len(Replace(f)) = Len(Below) + 1
        /\ \A i \in 1..Len(Below) : Replace(f)[i] = Below[i]
        /\ Replace(f)[Len(Below) + 1] = f
    BY <1>1, Appended DEF Replace
  <2>2. Len(Below) + 1 = Len(stack)
    BY <1>1
  <2>3. Path(Replace(f)) = Append(Path(Below), f.pkg)
    BY <1>1, PathAppend DEF Replace
  <2> QED
    BY <1>1, <2>1, <2>2, <2>3
<1>4. Replace(Top) = stack
  <2>1. \A i \in 1..Len(stack) : Replace(Top)[i] = stack[i]
    BY <1>1, <1>3 DEF Top
  <2> QED
    BY <1>1, <1>3, <2>1, SeqEqual
<1>5. Path(stack) = Append(Path(Below), Top.pkg)
  BY <1>1, <1>3, <1>4
<1> QED
  BY <1>1, <1>2, <1>3, <1>5

-----------------------------------------------------------------------------
(* Types.                                                                  *)
TypeInv == TypeOK /\ repo \in Repositories

(* visit_install_order is called for a package.                            *)
LEMMA CalledType ==
    ASSUME TypeInv, NEW p \in Pkg
    PROVE  Called(p) \in Frame /\ Called(p).pkg = p /\ ~ Called(p).listed
<1>1. lists \in [Pkg -> SUBSET ReqPkg] /\ repo \in Repository
  BY RepositoriesAssumption DEF TypeInv, TypeOK
<1>2. repo.reqs[p] \in Seq(Req) /\ << >> \in Seq(Req) /\ lists[p] \subseteq ReqPkg
  BY <1>1, EmptySeq DEF Repository
<1> QED
  BY <1>2 DEF Called, Frame

(* The lists of required packages hold what pkgset-dep.c makes of the      *)
(* answers.                                                                *)
LEMMA ListTypes ==
    ASSUME TypeInv, stack # << >>
    PROVE  /\ \A list \in SUBSET ReqPkg : Edges(list) \subseteq Edge
           /\ \A list \in SUBSET ReqPkg : \A r \in Req : \A matches \in Seq(Pkg) :
                  Merged(list, r, matches) \subseteq SUBSET ReqPkg
           /\ Top.reqs # << >> =>
                  /\ Head(Top.reqs) \in Req /\ Tail(Top.reqs) \in Seq(Req)
                  /\ FindMatches(Top.pkg, Head(Top.reqs).key) \in Seq(Pkg)
           /\ \A e \in Edge : Visited(e) \in Frame /\ Visited(e).pkg = Top.pkg
<1>1. stack \in Seq(Frame) /\ lists \in [Pkg -> SUBSET ReqPkg] /\ repo \in Repository
  BY RepositoriesAssumption DEF TypeInv, TypeOK
<1>2. Top \in Frame
  BY <1>1, StackSteps
<1>3. ASSUME NEW list \in SUBSET ReqPkg
      PROVE  Edges(list) \subseteq Edge
  <2> SUFFICES ASSUME NEW rp \in list, NEW i \in DOMAIN rp.pkgs
               PROVE  [pkg |-> rp.pkgs[i], flags |-> IF i = 1 THEN rp.flags ELSE rp.rest] \in Edge
    BY DEF Edges
  <2>1. rp.pkgs \in Seq(Pkg) /\ rp.flags \subseteq Flag /\ rp.rest \subseteq Flag
    BY DEF ReqPkg
  <2>2. rp.pkgs[i] \in Pkg
    BY <2>1, ElementOfSeq, LenProperties
  <2> QED
    BY <2>1, <2>2 DEF Edge
<1>4. ASSUME NEW list \in SUBSET ReqPkg, NEW r \in Req, NEW matches \in Seq(Pkg),
             matches # << >>, NEW new \in Merged(list, r, matches)
      PROVE  new \subseteq ReqPkg
  <2>1. r.flags \subseteq Flag
    BY DEF Req
  <2>2. \A rest \in {r.flags, {}} :
            [pkgs |-> matches, flags |-> r.flags, rest |-> rest] \in ReqPkg
    BY <1>4, <2>1 DEF ReqPkg
  <2>3. \A rp \in ReqPkg : [rp EXCEPT !.flags = @ \union r.flags] \in ReqPkg
    BY <2>1 DEF ReqPkg
  <2> QED
    BY <1>4, <2>2, <2>3 DEF Merged
<1>5. \A list \in SUBSET ReqPkg : \A r \in Req : \A matches \in Seq(Pkg) :
          Merged(list, r, matches) \subseteq SUBSET ReqPkg
  <2> SUFFICES ASSUME NEW list \in SUBSET ReqPkg, NEW r \in Req, NEW matches \in Seq(Pkg)
               PROVE  Merged(list, r, matches) \subseteq SUBSET ReqPkg
    OBVIOUS
  <2>1. CASE matches = << >>
    BY <2>1 DEF Merged
  <2>2. CASE matches # << >>
    BY <1>4, <2>2
  <2> QED
    BY <2>1, <2>2
<1>6. ASSUME Top.reqs # << >>
      PROVE  /\ Head(Top.reqs) \in Req /\ Tail(Top.reqs) \in Seq(Req)
             /\ FindMatches(Top.pkg, Head(Top.reqs).key) \in Seq(Pkg)
  <2>1. Head(Top.reqs) \in Req /\ Tail(Top.reqs) \in Seq(Req)
    BY <1>2, <1>6, HeadAndTail DEF Frame
  <2>2. repo.sat[Head(Top.reqs).key] \in Seq(Pkg) /\ << >> \in Seq(Pkg)
    BY <1>1, <2>1, EmptySeq DEF Repository, Req
  <2> QED
    BY <2>1, <2>2 DEF FindMatches
<1>7. \A e \in Edge : Visited(e) \in Frame /\ Visited(e).pkg = Top.pkg
  BY <1>2 DEF Visited, Frame
<1> QED
  BY <1>3, <1>5, <1>6, <1>7

(* What the actions replace the top by is a call of the same package.      *)
LEMMA TopTypes ==
    ASSUME TypeInv, stack # << >>
    PROVE  /\ \A list \in SUBSET ReqPkg : Top.reqs # << >> =>
                LET f == [Top EXCEPT !.reqs = Tail(@), !.list = list]
                IN  f \in Frame /\ f.pkg = Top.pkg /\ f.listed = Top.listed /\ f.edges = Top.edges
           /\ LET f == [Top EXCEPT !.listed = TRUE, !.edges = Edges(Top.list)]
              IN  f \in Frame /\ f.pkg = Top.pkg /\ f.listed /\ f.edges = Edges(Top.list)
           /\ \A e \in Edge : /\ Visited(e) \in Frame /\ Visited(e).pkg = Top.pkg
                              /\ Visited(e).listed = Top.listed
                              /\ Visited(e).edges = Top.edges \ {e}
<1>1. Top \in Frame
  BY StackSteps DEF TypeInv, TypeOK
<1>2. Edges(Top.list) \subseteq Edge
  BY <1>1, ListTypes DEF Frame
<1>3. Top.reqs # << >> => Tail(Top.reqs) \in Seq(Req)
  BY ListTypes
<1> QED
  BY <1>1, <1>2, <1>3 DEF Visited, Frame

(* process_reqs looks at one more requirement of the package on top.        *)
LEMMA Processing ==
    ASSUME TypeInv, ProcessReq
    PROVE  /\ cache' \in [Key -> Seq(Pkg) \union {NotAsked}]
           /\ \E list \in SUBSET ReqPkg :
                  stack' = Replace([Top EXCEPT !.reqs = Tail(@), !.list = list])
<1> DEFINE r == Head(Top.reqs)
           matches == IF cache[r.key] = NotAsked THEN FindMatches(Top.pkg, r.key)
                      ELSE cache[r.key]
<1>1. /\ stack \in Seq(Frame) /\ stack # << >>
      /\ cache \in [Key -> Seq(Pkg) \union {NotAsked}]
  BY DEF TypeInv, TypeOK, ProcessReq
<1>2. r \in Req /\ FindMatches(Top.pkg, r.key) \in Seq(Pkg) /\ Top.list \in SUBSET ReqPkg
  BY <1>1, StackSteps, ListTypes DEF ProcessReq, Frame
<1>3. r.key \in Key /\ matches \in Seq(Pkg)
  BY <1>1, <1>2 DEF Req
<1>4. PICK list \in Merged(Top.list, r, matches) :
          stack' = Replace([Top EXCEPT !.reqs = Tail(@), !.list = list])
  BY DEF ProcessReq
<1>5. list \in SUBSET ReqPkg
  BY <1>1, <1>2, <1>3, <1>4, ListTypes
<1>6. cache' \in [Key -> Seq(Pkg) \union {NotAsked}]
  BY <1>1, <1>3 DEF ProcessReq
<1> QED
  BY <1>4, <1>5, <1>6

(* The types hold when do_packages_order starts.                           *)
LEMMA TypeInit == Init => TypeInv
<1> SUFFICES ASSUME Init PROVE TypeInv
  OBVIOUS
<1>1. repo \in Repository
  BY RepositoriesAssumption DEF Init
<1>2. << >> \in Seq(Pkg) /\ << >> \in Seq(Frame)
  BY EmptySeq
<1> QED
  BY <1>1, <1>2 DEF Init, TypeInv, TypeOK, Repository

(* Every step keeps the types.                                             *)
LEMMA TypeStep == TypeInv /\ [Next]_vars => TypeInv'
<1> SUFFICES ASSUME TypeInv, [Next]_vars
             PROVE  TypeInv'
  OBVIOUS
<1>1. /\ repo \in Repositories /\ type \in OrderTypes
      /\ pass \in {"requires", "prereqs", "done"}
      /\ todo \in Seq(Pkg) /\ ordered \in Seq(Pkg) /\ nloops \in Nat
      /\ color \in [Pkg -> {"none", "white", "gray", "black"}] /\ prereqed \subseteq Pkg
      /\ stack \in Seq(Frame)
      /\ cache \in [Key -> Seq(Pkg) \union {NotAsked}]
      /\ lists \in [Pkg -> SUBSET ReqPkg]
  BY DEF TypeInv, TypeOK
<1>2. todo # << >> => Head(todo) \in Pkg /\ Tail(todo) \in Seq(Pkg)
  BY <1>1, HeadAndTail
<1>3. ASSUME stack # << >>, NEW f \in Frame, f.pkg = Top.pkg
      PROVE  Replace(f) \in Seq(Frame)
  BY <1>1, <1>3, StackSteps
<1>4. << >> \in Seq(Frame) /\ << >> \in Seq(Pkg)
  BY EmptySeq
<1>5. CASE VisitPackage
  <2>1. Called(Head(todo)) \in Frame
    BY <1>2, <1>5, CalledType DEF VisitPackage
  <2>2. stack' \in Seq(Frame)
    <3> DEFINE x == Called(Head(todo))
    <3>1. stack' = << x >> /\ x \in Frame
      BY <1>5, <2>1 DEF VisitPackage
    <3> HIDE DEF x
    <3> QED
      BY <3>1
  <2> QED
    BY <1>1, <1>2, <1>5, <2>2 DEF VisitPackage, TypeInv, TypeOK, caches
<1>6. CASE SkipVisited
  BY <1>1, <1>2, <1>6 DEF SkipVisited, TypeInv, TypeOK, caches
<1>7. CASE ProcessReq
  <2>1. PICK list \in SUBSET ReqPkg :
            stack' = Replace([Top EXCEPT !.reqs = Tail(@), !.list = list])
    BY <1>7, Processing
  <2>2. stack' \in Seq(Frame)
    BY <1>3, <1>7, <2>1, TopTypes DEF ProcessReq
  <2> QED
    BY <1>1, <1>7, <2>2, Processing DEF ProcessReq, TypeInv, TypeOK
<1>8. CASE Listed
  <2>1. Top.pkg \in Pkg /\ Top.list \in SUBSET ReqPkg
    BY <1>1, <1>8, StackSteps DEF Listed, Frame
  <2>2. stack' \in Seq(Frame)
    BY <1>3, <1>8, TopTypes DEF Listed
  <2> QED
    BY <1>1, <1>8, <2>1, <2>2 DEF Listed, TypeInv, TypeOK
<1>9. ASSUME NEW e \in Edge, SkipRequired(e) \/ LeaveRequired(e) \/ CloseCycle(e)
      PROVE  TypeInv'
  <2>1. stack' \in Seq(Frame)
    BY <1>3, <1>9, TopTypes DEF SkipRequired, LeaveRequired, CloseCycle, Visiting
  <2>2. nloops' \in Nat /\ prereqed' \subseteq Pkg
    BY <1>1, <1>9 DEF SkipRequired, LeaveRequired, CloseCycle
  <2> QED
    BY <1>1, <1>9, <2>1, <2>2
       DEF SkipRequired, LeaveRequired, CloseCycle, TypeInv, TypeOK, caches
<1>10. ASSUME NEW e \in Edge, VisitRequired(e)
       PROVE  TypeInv'
  <2>1. e.pkg \in Pkg /\ Called(e.pkg) \in Frame
    BY CalledType DEF Edge
  <2>2. Replace(Visited(e)) \in Seq(Frame)
    BY <1>3, <1>10, TopTypes DEF VisitRequired, Visiting
  <2>3. stack' \in Seq(Frame)
    BY <1>10, <2>1, <2>2, PathAppend DEF VisitRequired
  <2> QED
    BY <1>1, <1>10, <2>1, <2>3 DEF VisitRequired, TypeInv, TypeOK, caches
<1>11. CASE PackageOrdered
  <2>1. Top.pkg \in Pkg /\ Below \in Seq(Frame)
    BY <1>1, <1>11, StackSteps DEF PackageOrdered, Frame
  <2>2. ordered' \in Seq(Pkg)
    BY <1>1, <1>11, <2>1, Appended DEF PackageOrdered
  <2> QED
    BY <1>1, <1>11, <2>1, <2>2 DEF PackageOrdered, TypeInv, TypeOK, caches
<1>12. CASE Preordered
  <2>1. color' \in [Pkg -> {"none", "white", "gray", "black"}]
    BY <1>1, <1>12 DEF Preordered, Cleaned
  <2> QED
    BY <1>1, <1>4, <1>12, <2>1 DEF Preordered, TypeInv, TypeOK, caches
<1>13. CASE Ordered
  <2>1. ordered' \in Seq(Pkg)
    BY <1>1, <1>13, Reversed DEF Ordered
  <2> QED
    BY <1>1, <1>13, <2>1 DEF Ordered, TypeInv, TypeOK, caches
<1>14. CASE UNCHANGED vars
  BY <1>14 DEF vars, TypeInv, TypeOK
<1> QED
  BY <1>5, <1>6, <1>7, <1>8, <1>9, <1>10, <1>11, <1>12, <1>13, <1>14 DEF Next, Finished

(* Every reachable state of the walks is well typed: the lists, the cached *)
(* answers and the stack hold what the functions are declared to use.      *)
THEOREM TypesCorrect == Spec => []TypeOK
<1>1. TypeInv => TypeOK
  BY DEF TypeInv
<1> QED
  BY TypeInit, TypeStep, <1>1, PTL DEF Spec

-----------------------------------------------------------------------------
(* Colors.  The GRAY packages are those on the stack, the BLACK ones those *)
(* in the result, each once; a WHITE one will still be started from.       *)
PathIsGray == IsInjective(Path(stack)) /\ ToSet(Path(stack)) = {p \in Pkg : color[p] = "gray"}
OrderedIsBlack == IsInjective(ordered) /\ ToSet(ordered) = {p \in Pkg : color[p] = "black"}
PoolIsColored == repo.pool = {p \in Pkg : color[p] # "none"}
WhiteIsTodo == {p \in Pkg : color[p] = "white"} \subseteq ToSet(todo)
DoneIsIdle == pass = "done" => stack = << >> /\ todo = << >>

ColorInv == PathIsGray /\ OrderedIsBlack /\ PoolIsColored /\ WhiteIsTodo /\ DoneIsIdle

(* The empty stack has no path.                                            *)
LEMMA NoPath == Path(<< >>) = << >> /\ ToSet(<< >>) = {} /\ IsInjective(<< >>)
<1>1. << >> \in Seq(Frame) /\ Len(<< >>) = 0 /\ << >> \in Seq(Pkg)
  BY EmptySeq
<1>2. Path(<< >>) \in Seq(Pkg) /\ Len(Path(<< >>)) = 0
  BY <1>1, PathType
<1>3. Path(<< >>) = << >>
  BY <1>2, EmptySeq
<1>4. DOMAIN << >> = {}
  OBVIOUS
<1> QED
  BY <1>3, <1>4 DEF ToSet, IsInjective

(* When a walk is over, all packages of the pool are in its result.        *)
LEMMA WalkOver ==
    ASSUME TypeInv, ColorInv, stack = << >>, todo = << >>
    PROVE  IsInjective(ordered) /\ ToSet(ordered) = repo.pool
<1>1. {p \in Pkg : color[p] = "gray"} = {} /\ {p \in Pkg : color[p] = "white"} = {}
  BY NoPath DEF ColorInv, PathIsGray, WhiteIsTodo
<1>2. color \in [Pkg -> {"none", "white", "gray", "black"}]
  BY DEF TypeInv, TypeOK
<1> QED
  BY <1>1, <1>2 DEF ColorInv, OrderedIsBlack, PoolIsColored

(* The packages on the stack are GRAY, and different.                      *)
LEMMA GrayPath ==
    ASSUME TypeInv, ColorInv
    PROVE  /\ Len(stack) \in Nat
           /\ \A i \in 1..Len(stack) : stack[i].pkg \in Pkg /\ color[stack[i].pkg] = "gray"
           /\ \A i, j \in 1..Len(stack) : stack[i].pkg = stack[j].pkg => i = j
<1>1. /\ Len(stack) \in Nat /\ DOMAIN Path(stack) = 1..Len(stack)
      /\ \A i \in 1..Len(stack) : stack[i] \in Frame /\ Path(stack)[i] = stack[i].pkg
  BY PathType DEF TypeInv, TypeOK
<1>2. \A i \in 1..Len(stack) : stack[i].pkg \in Pkg
  BY <1>1 DEF Frame
<1>3. \A i \in 1..Len(stack) : color[stack[i].pkg] = "gray"
  <2>1. \A i \in 1..Len(stack) : stack[i].pkg \in ToSet(Path(stack))
    BY <1>1 DEF ToSet
  <2> QED
    BY <2>1 DEF ColorInv, PathIsGray
<1>4. \A i, j \in 1..Len(stack) : stack[i].pkg = stack[j].pkg => i = j
  BY <1>1 DEF ColorInv, PathIsGray, IsInjective
<1> QED
  BY <1>1, <1>2, <1>3, <1>4

(* do_order has painted the pool WHITE when it starts.                     *)
LEMMA ColorInit == Init => ColorInv
<1> SUFFICES ASSUME Init PROVE ColorInv
  OBVIOUS
<1>1. repo.pool \subseteq Pkg /\ repo.pool = ToSet(repo.inpkgs)
  BY RepositoriesAssumption DEF Init, Repository
<1>2. \A p \in Pkg : color[p] = IF p \in repo.pool THEN "white" ELSE "none"
  BY DEF Init
<1>3. PathIsGray /\ OrderedIsBlack
  BY <1>2, NoPath DEF Init, PathIsGray, OrderedIsBlack
<1>4. PoolIsColored /\ WhiteIsTodo
  BY <1>1, <1>2 DEF Init, PoolIsColored, WhiteIsTodo
<1> QED
  BY <1>3, <1>4 DEF Init, ColorInv, DoneIsIdle

(* A package that turns GRAY comes on top of the path.                     *)
LEMMA ColorEnter ==
    ASSUME TypeInv, ColorInv, pass # "done",
           NEW p \in Pkg, color[p] = "white",
           color' = [color EXCEPT ![p] = "gray"],
           Path(stack') = Append(Path(stack), p),
           ToSet(todo) \subseteq ToSet(todo') \union {p},
           UNCHANGED <<repo, pass, ordered>>
    PROVE  ColorInv'
<1>1. color \in [Pkg -> {"none", "white", "gray", "black"}] /\ Path(stack) \in Seq(Pkg)
  BY PathType DEF TypeInv, TypeOK
<1>2. p \notin ToSet(Path(stack))
  BY DEF ColorInv, PathIsGray
<1>3. PathIsGray'
  <2>1. IsInjective(Path(stack'))
    BY <1>1, <1>2, AppendedInjective DEF ColorInv, PathIsGray
  <2>2. ToSet(Path(stack')) = ToSet(Path(stack)) \union {p}
    BY <1>1, Appended
  <2> QED
    BY <1>1, <2>1, <2>2 DEF ColorInv, PathIsGray
<1>4. OrderedIsBlack' /\ PoolIsColored' /\ WhiteIsTodo' /\ DoneIsIdle'
  BY <1>1 DEF ColorInv, OrderedIsBlack, PoolIsColored, WhiteIsTodo, DoneIsIdle
<1> QED
  BY <1>3, <1>4 DEF ColorInv

(* Every step keeps the colors right.                                      *)
LEMMA ColorStep == TypeInv /\ ColorInv /\ [Next]_vars => ColorInv'
<1> SUFFICES ASSUME TypeInv, ColorInv, [Next]_vars
             PROVE  ColorInv'
  OBVIOUS
<1>1. /\ stack \in Seq(Frame) /\ todo \in Seq(Pkg) /\ ordered \in Seq(Pkg)
      /\ color \in [Pkg -> {"none", "white", "gray", "black"}]
      /\ Path(stack) \in Seq(Pkg)
  BY PathType DEF TypeInv, TypeOK
<1>2. stack # << >> => pass # "done"
  BY DEF ColorInv, DoneIsIdle
<1>3. ASSUME stack # << >>, NEW f \in Frame, f.pkg = Top.pkg, stack' = Replace(f),
             UNCHANGED <<repo, pass, todo, color, ordered>>
      PROVE  ColorInv'
  <2>1. Path(stack') = Path(stack)
    BY <1>1, <1>3, StackSteps
  <2> QED
    BY <1>2, <1>3, <2>1
       DEF ColorInv, PathIsGray, OrderedIsBlack, PoolIsColored, WhiteIsTodo, DoneIsIdle
<1>4. CASE VisitPackage
  <2>1. Head(todo) \in Pkg /\ ToSet(todo) = {Head(todo)} \union ToSet(todo')
    BY <1>1, <1>4, HeadAndTail DEF VisitPackage
  <2>2. Path(stack') = Append(Path(stack), Head(todo))
    <3> DEFINE x == Called(Head(todo))
    <3>1. x \in Frame /\ x.pkg = Head(todo) /\ stack = << >> /\ stack' = << x >>
      BY <1>4, <2>1, CalledType DEF VisitPackage
    <3> HIDE DEF x
    <3>2. << x >> = Append(<< >>, x)
      OBVIOUS
    <3> QED
      BY <3>1, <3>2, EmptySeq, PathAppend
  <2> QED
    BY <1>4, <2>1, <2>2, ColorEnter DEF VisitPackage
<1>5. CASE SkipVisited
  <2>1. ToSet(todo) = {Head(todo)} \union ToSet(todo')
    BY <1>1, <1>5, HeadAndTail DEF SkipVisited
  <2> QED
    BY <1>5, <2>1
       DEF SkipVisited, ColorInv, PathIsGray, OrderedIsBlack, PoolIsColored, WhiteIsTodo, DoneIsIdle
<1>6. CASE ProcessReq
  <2>1. PICK list \in SUBSET ReqPkg :
            stack' = Replace([Top EXCEPT !.reqs = Tail(@), !.list = list])
    BY <1>6, Processing
  <2> QED
    BY <1>3, <1>6, <2>1, TopTypes DEF ProcessReq
<1>7. CASE Listed
  BY <1>3, <1>7, TopTypes DEF Listed
<1>8. ASSUME NEW e \in Edge, SkipRequired(e) \/ LeaveRequired(e) \/ CloseCycle(e)
      PROVE  ColorInv'
  BY <1>3, <1>8, TopTypes DEF SkipRequired, LeaveRequired, CloseCycle, Visiting
<1>9. ASSUME NEW e \in Edge, VisitRequired(e)
      PROVE  ColorInv'
  <2>1. e.pkg \in Pkg /\ Called(e.pkg) \in Frame /\ Called(e.pkg).pkg = e.pkg
    BY CalledType DEF Edge
  <2>2. Path(stack') = Append(Path(stack), e.pkg)
    <3>1. Replace(Visited(e)) \in Seq(Frame) /\ Path(Replace(Visited(e))) = Path(stack)
      BY <1>1, <1>9, StackSteps, TopTypes DEF VisitRequired, Visiting
    <3> QED
      BY <1>9, <2>1, <3>1, PathAppend DEF VisitRequired
  <2> QED
    BY <1>2, <1>9, <2>1, <2>2, ColorEnter DEF VisitRequired, Visiting
<1>10. CASE PackageOrdered
  <2>1. /\ Top.pkg \in Pkg /\ Below \in Seq(Frame) /\ stack' = Below
        /\ Path(stack) = Append(Path(Below), Top.pkg) /\ Path(Below) \in Seq(Pkg)
    BY <1>1, <1>10, StackSteps, PathType DEF PackageOrdered, Frame
  <2>2. /\ ToSet(Path(stack)) = ToSet(Path(Below)) \union {Top.pkg}
        /\ IsInjective(Path(Below)) /\ Top.pkg \notin ToSet(Path(Below))
    <3> DEFINE s == Path(Below)
    <3>1. /\ Len(s) \in Nat /\ DOMAIN s = 1..Len(s)
          /\ DOMAIN Append(s, Top.pkg) = 1..(Len(s) + 1)
          /\ \A i \in 1..Len(s) : Append(s, Top.pkg)[i] = s[i]
          /\ Append(s, Top.pkg)[Len(s) + 1] = Top.pkg
          /\ ToSet(Append(s, Top.pkg)) = ToSet(s) \union {Top.pkg}
      BY <2>1, Appended
    <3>2. IsInjective(Append(s, Top.pkg))
      BY <2>1 DEF ColorInv, PathIsGray
    <3>3. IsInjective(s) /\ Top.pkg \notin ToSet(s)
      BY <3>1, <3>2 DEF IsInjective, ToSet
    <3> QED
      BY <2>1, <3>1, <3>3
  <2>3. color[Top.pkg] = "gray"
    BY <2>1, <2>2 DEF ColorInv, PathIsGray
  <2>4. PathIsGray'
    BY <1>1, <1>10, <2>1, <2>2, <2>3 DEF PackageOrdered, ColorInv, PathIsGray
  <2>5. OrderedIsBlack'
    <3>1. Top.pkg \notin ToSet(ordered)
      BY <2>1, <2>3 DEF ColorInv, OrderedIsBlack
    <3>2. IsInjective(ordered') /\ ToSet(ordered') = ToSet(ordered) \union {Top.pkg}
      BY <1>1, <1>10, <2>1, <3>1, Appended, AppendedInjective
         DEF PackageOrdered, ColorInv, OrderedIsBlack
    <3> QED
      BY <1>1, <1>10, <2>1, <3>2 DEF PackageOrdered, ColorInv, OrderedIsBlack
  <2>6. PoolIsColored' /\ WhiteIsTodo' /\ DoneIsIdle'
    BY <1>1, <1>2, <1>10, <2>1, <2>3
       DEF PackageOrdered, ColorInv, PoolIsColored, WhiteIsTodo, DoneIsIdle
  <2> QED
    BY <2>4, <2>5, <2>6 DEF ColorInv
<1>11. CASE Preordered
  <2>1. ToSet(ordered) = repo.pool
    BY <1>11, WalkOver DEF Preordered
  <2>2. repo.pool = {p \in Pkg : color[p] # "none"} /\ {p \in Pkg : color[p] = "gray"} = {}
    BY <1>11, NoPath DEF Preordered, ColorInv, PoolIsColored, PathIsGray
  <2>3. \A p \in Pkg : color'[p] = IF p \in repo.pool THEN "white" ELSE color[p]
    BY <1>11, <2>1 DEF Preordered, Cleaned
  <2>4. PathIsGray' /\ OrderedIsBlack'
    BY <1>1, <1>11, <2>2, <2>3, NoPath DEF Preordered, PathIsGray, OrderedIsBlack
  <2>5. PoolIsColored' /\ WhiteIsTodo' /\ DoneIsIdle'
    BY <1>11, <2>1, <2>2, <2>3 DEF Preordered, PoolIsColored, WhiteIsTodo, DoneIsIdle
  <2> QED
    BY <2>4, <2>5 DEF ColorInv
<1>12. CASE Ordered
  <2>1. OrderedIsBlack'
    BY <1>1, <1>12, Reversed DEF Ordered, ColorInv, OrderedIsBlack
  <2> QED
    BY <1>12, <2>1 DEF Ordered, ColorInv, PathIsGray, PoolIsColored, WhiteIsTodo, DoneIsIdle
<1>13. CASE UNCHANGED vars
  BY <1>13
     DEF vars, ColorInv, PathIsGray, OrderedIsBlack, PoolIsColored, WhiteIsTodo, DoneIsIdle
<1> QED
  BY <1>4, <1>5, <1>6, <1>7, <1>8, <1>9, <1>10, <1>11, <1>12, <1>13 DEF Next, Finished

(* However the requirements run in circles, each walk ends with every      *)
(* package in its result, once: the assertion of do_order never fails.     *)
THEOREM PackagesComeOnce == Spec => []EveryPackageOnce
<1>1. TypeInv /\ ColorInv => EveryPackageOnce
  BY WalkOver DEF EveryPackageOnce
<1> QED
  BY TypeInit, TypeStep, ColorInit, ColorStep, <1>1, PTL DEF Spec

-----------------------------------------------------------------------------
(* Prerequisites.  While no loop is reported, the second walk comes to a   *)
(* package only as to a prerequisite (but where it starts), and the        *)
(* prerequisites it has looked at are in the result, or the next ones on   *)
(* the path.                                                               *)
Needed(e, p) == PreFlag \in e.flags /\ e.pkg \in repo.pool /\ e.pkg # p

PathIsPrereqed == \A i \in 2..Len(stack) : stack[i].pkg \in prereqed

VisitedInPlace ==
    \A i \in 1..Len(stack) : stack[i].listed =>
        \A e \in Edges(lists[stack[i].pkg]) \ stack[i].edges : Needed(e, stack[i].pkg) =>
            color[e.pkg] = "black" \/ (i < Len(stack) /\ stack[i + 1].pkg = e.pkg)

BlackInPlace ==
    \A p \in Pkg : color[p] = "black" =>
        \A e \in Edges(lists[p]) : Needed(e, p) => Precedes(e.pkg, p)

PrereqInv ==
    /\ pass = "prereqs" => PathIsPrereqed
    /\ pass = "prereqs" /\ nloops = 0 => VisitedInPlace /\ BlackInPlace
    /\ PrereqsFirst

(* A package that is added to the result comes after the others, which     *)
(* keep their order.                                                       *)
LEMMA PrecedesAppended ==
    ASSUME ordered \in Seq(Pkg), NEW x \in Pkg, ordered' = Append(ordered, x)
    PROVE  /\ \A p, q : Precedes(p, q) => Precedes(p, q)'
           /\ \A p \in ToSet(ordered) : Precedes(p, x)'
<1>1. /\ Len(ordered) \in Nat /\ DOMAIN ordered = 1..Len(ordered)
      /\ DOMAIN ordered' = 1..(Len(ordered) + 1)
      /\ \A i \in 1..Len(ordered) : ordered'[i] = ordered[i]
      /\ ordered'[Len(ordered) + 1] = x
  BY Appended
<1>2. \A i \in 1..Len(ordered) : i \in DOMAIN ordered' /\ i < Len(ordered) + 1
  BY <1>1
<1>3. Len(ordered) + 1 \in DOMAIN ordered'
  BY <1>1
<1>4. ASSUME NEW p, NEW q, Precedes(p, q)
      PROVE  Precedes(p, q)'
  <2>1. PICK i, j \in DOMAIN ordered : i < j /\ ordered[i] = p /\ ordered[j] = q
    BY <1>4 DEF Precedes
  <2> QED
    BY <1>1, <1>2, <2>1 DEF Precedes
<1>5. ASSUME NEW p \in ToSet(ordered)
      PROVE  Precedes(p, x)'
  <2>1. PICK i \in DOMAIN ordered : ordered[i] = p
    BY <1>5 DEF ToSet
  <2> QED
    BY <1>1, <1>2, <1>3, <2>1 DEF Precedes
<1> QED
  BY <1>4, <1>5

(* What the package on top is done with is in the result.                  *)
LEMMA TopInPlace ==
    ASSUME TypeInv, PrereqInv, stack # << >>, pass = "prereqs", nloops = 0, Top.listed,
           NEW e \in Edges(lists[Top.pkg]) \ Top.edges, Needed(e, Top.pkg)
    PROVE  color[e.pkg] = "black"
<1>1. Len(stack) \in Nat \ {0}
  BY StackSteps DEF TypeInv, TypeOK
<1>2. Len(stack) \in 1..Len(stack) /\ ~ (Len(stack) < Len(stack))
  BY <1>1
<1> QED
  BY <1>2 DEF PrereqInv, VisitedInPlace, Top

(* The package on top goes on with what it requires.                       *)
LEMMA PrereqStay ==
    ASSUME TypeInv, ColorInv, PrereqInv, stack # << >>,
           NEW f \in Frame, f.pkg = Top.pkg, stack' = Replace(f),
           UNCHANGED <<repo, type, pass, color, ordered>>,
           \A p \in prereqed : color[p] = "gray" => p \in prereqed',
           nloops' = 0 => nloops = 0,
           \A p \in Pkg : p # Top.pkg => lists'[p] = lists[p],
           pass = "prereqs" /\ nloops' = 0 /\ f.listed =>
               \A e \in Edges(lists'[Top.pkg]) \ f.edges :
                   Needed(e, Top.pkg) => color[e.pkg] = "black"
    PROVE  PrereqInv'
<1>1. /\ stack \in Seq(Frame) /\ Len(stack) \in Nat \ {0}
      /\ stack' \in Seq(Frame) /\ Len(stack') = Len(stack)
      /\ \A i \in 1..(Len(stack) - 1) : stack'[i] = stack[i]
      /\ stack'[Len(stack)] = f
      /\ stack[Len(stack)].pkg = Top.pkg /\ Top.pkg \in Pkg
  BY StackSteps DEF TypeInv, TypeOK, Frame, Top
<1>2. /\ \A i \in 1..Len(stack) : stack'[i].pkg = stack[i].pkg
      /\ \A i \in 1..Len(stack) : color[stack[i].pkg] = "gray"
      /\ \A i \in 1..(Len(stack) - 1) : stack[i].pkg # Top.pkg
  <2>1. \A i \in 1..Len(stack) : i \in 1..(Len(stack) - 1) \/ i = Len(stack)
    BY <1>1
  <2>2. \A i \in 1..Len(stack) : stack'[i].pkg = stack[i].pkg
    BY <1>1, <2>1
  <2>3. \A i \in 1..Len(stack) : color[stack[i].pkg] = "gray"
    BY GrayPath
  <2>4. \A i \in 1..(Len(stack) - 1) : stack[i].pkg # Top.pkg
    <3>1. \A i, j \in 1..Len(stack) : stack[i].pkg = stack[j].pkg => i = j
      BY GrayPath
    <3>2. /\ Len(stack) \in 1..Len(stack)
          /\ \A i \in 1..(Len(stack) - 1) : i \in 1..Len(stack) /\ i # Len(stack)
      BY <1>1
    <3> QED
      BY <1>1, <3>1, <3>2
  <2> QED
    BY <2>2, <2>3, <2>4
<1>3. Top.pkg \in Pkg /\ color[Top.pkg] = "gray"
  <2>1. Len(stack) \in 1..Len(stack)
    BY <1>1
  <2> QED
    BY <1>1, <1>2, <2>1
<1>4. pass # "done"
  BY DEF ColorInv, DoneIsIdle
<1>5. ASSUME pass = "prereqs"
      PROVE  PathIsPrereqed'
  BY <1>1, <1>2, <1>5 DEF PrereqInv, PathIsPrereqed
<1>6. ASSUME pass = "prereqs", nloops' = 0
      PROVE  VisitedInPlace'
  <2> SUFFICES ASSUME NEW i \in 1..Len(stack), stack'[i].listed,
                      NEW e \in Edges(lists'[stack'[i].pkg]) \ stack'[i].edges,
                      Needed(e, stack'[i].pkg)
               PROVE  color[e.pkg] = "black" \/ (i < Len(stack) /\ stack'[i + 1].pkg = e.pkg)
    BY <1>1 DEF VisitedInPlace, Needed, PreFlag
  <2>1. CASE i = Len(stack)
    BY <1>1, <1>6, <2>1
  <2>2. CASE i \in 1..(Len(stack) - 1)
    <3>1. stack'[i] = stack[i] /\ lists'[stack[i].pkg] = lists[stack[i].pkg]
      <4>1. i \in 1..Len(stack) /\ stack[i].pkg \in Pkg
        BY GrayPath
      <4> QED
        BY <1>1, <1>2, <2>2, <4>1
    <3>2. color[e.pkg] = "black" \/ (i < Len(stack) /\ stack[i + 1].pkg = e.pkg)
      BY <1>6, <3>1 DEF PrereqInv, VisitedInPlace
    <3>3. i + 1 \in 1..Len(stack)
      BY <1>1, <2>2
    <3> QED
      BY <1>2, <3>2, <3>3
  <2> QED
    BY <1>1, <2>1, <2>2
<1>7. ASSUME pass = "prereqs", nloops' = 0
      PROVE  BlackInPlace'
  <2>1. \A p \in Pkg : color[p] = "black" => lists'[p] = lists[p]
    BY <1>3
  <2> QED
    BY <1>7, <2>1 DEF PrereqInv, BlackInPlace, Needed, PreFlag, Precedes
<1> QED
  BY <1>4, <1>5, <1>6, <1>7 DEF PrereqInv, PrereqsFirst

(* Every step keeps the prerequisites in place.  When a prerequisite is on *)
(* the path already, all packages above it were reached as prerequisites,  *)
(* so that a loop is reported.                                             *)
LEMMA PrereqStep == TypeInv /\ ColorInv /\ PrereqInv /\ [Next]_vars => PrereqInv'
<1> SUFFICES ASSUME TypeInv, ColorInv, PrereqInv, [Next]_vars
             PROVE  PrereqInv'
  OBVIOUS
<1>1. /\ stack \in Seq(Frame) /\ ordered \in Seq(Pkg) /\ nloops \in Nat
      /\ pass \in {"requires", "prereqs", "done"} /\ type \in OrderTypes
      /\ color \in [Pkg -> {"none", "white", "gray", "black"}]
      /\ lists \in [Pkg -> SUBSET ReqPkg]
      /\ Len(stack) \in Nat
  BY GrayPath DEF TypeInv, TypeOK
<1>2. stack # << >> => /\ Top \in Frame /\ Top.pkg \in Pkg
                       /\ Len(stack) \in 1..Len(stack) /\ Top = stack[Len(stack)]
                       /\ color[Top.pkg] = "gray"
  <2> SUFFICES ASSUME stack # << >>
               PROVE  /\ Top \in Frame /\ Top.pkg \in Pkg
                      /\ Len(stack) \in 1..Len(stack) /\ Top = stack[Len(stack)]
                      /\ color[Top.pkg] = "gray"
    OBVIOUS
  <2>1. Top \in Frame /\ Len(stack) \in 1..Len(stack)
    BY <1>1, StackSteps
  <2> QED
    BY <2>1, GrayPath DEF Top
<1>3. stack # << >> => pass # "done"
  BY DEF ColorInv, DoneIsIdle
<1>4. CASE VisitPackage
  <2> DEFINE x == Called(Head(todo))
  <2>1. Head(todo) \in Pkg
    BY <1>4, HeadAndTail DEF VisitPackage, TypeInv, TypeOK
  <2>2. x \in Frame /\ ~ x.listed /\ stack' = << x >>
    BY <1>4, <2>1, CalledType DEF VisitPackage
  <2> HIDE DEF x
  <2>3. Len(stack') = 1 /\ stack'[1] = x
    BY <2>2
  <2>4. PathIsPrereqed' /\ VisitedInPlace'
    BY <2>2, <2>3 DEF PathIsPrereqed, VisitedInPlace
  <2>5. pass = "prereqs" /\ nloops = 0 => BlackInPlace'
    BY <1>1, <1>4, <2>1
       DEF VisitPackage, caches, PrereqInv, BlackInPlace, Needed, PreFlag, Precedes
  <2> QED
    BY <1>4, <2>4, <2>5 DEF VisitPackage, PrereqInv, PrereqsFirst
<1>5. CASE SkipVisited
  BY <1>5 DEF SkipVisited, caches, PrereqInv, PathIsPrereqed, VisitedInPlace, BlackInPlace,
              Needed, PreFlag, Precedes, PrereqsFirst
<1>6. CASE ProcessReq
  <2>1. PICK list \in SUBSET ReqPkg :
            stack' = Replace([Top EXCEPT !.reqs = Tail(@), !.list = list])
    BY <1>6, Processing
  <2> DEFINE f == [Top EXCEPT !.reqs = Tail(@), !.list = list]
  <2>2. f \in Frame /\ f.pkg = Top.pkg /\ f.listed = Top.listed /\ f.edges = Top.edges
    BY <1>6, TopTypes DEF ProcessReq
  <2> HIDE DEF f
  <2>3. pass = "prereqs" /\ nloops = 0 /\ f.listed =>
            \A e \in Edges(lists[Top.pkg]) \ f.edges :
                Needed(e, Top.pkg) => color[e.pkg] = "black"
    BY <1>6, <2>2, TopInPlace DEF ProcessReq
  <2> QED
    BY <1>6, <2>1, <2>2, <2>3, PrereqStay DEF ProcessReq, f
<1>7. CASE Listed
  <2> DEFINE f == [Top EXCEPT !.listed = TRUE, !.edges = Edges(Top.list)]
  <2>1. f \in Frame /\ f.pkg = Top.pkg /\ f.edges = Edges(Top.list) /\ stack' = Replace(f)
    BY <1>7, TopTypes DEF Listed
  <2> HIDE DEF f
  <2>2. lists'[Top.pkg] = Top.list /\ \A p \in Pkg : p # Top.pkg => lists'[p] = lists[p]
    BY <1>1, <1>2, <1>7 DEF Listed
  <2>3. Edges(lists'[Top.pkg]) \ f.edges = {}
    BY <2>1, <2>2
  <2> QED
    BY <1>7, <2>1, <2>2, <2>3, PrereqStay DEF Listed
<1>8. ASSUME NEW e \in Edge, SkipRequired(e) \/ LeaveRequired(e) \/ CloseCycle(e)
      PROVE  PrereqInv'
  <2>1. /\ stack # << >> /\ Top.listed /\ e \in Top.edges /\ stack' = Replace(Visited(e))
        /\ UNCHANGED <<repo, type, pass, color, ordered, lists>>
    BY <1>8 DEF SkipRequired, LeaveRequired, CloseCycle, Visiting, caches
  <2>2. /\ Visited(e) \in Frame /\ Visited(e).pkg = Top.pkg
        /\ Visited(e).edges = Top.edges \ {e}
    BY <2>1, TopTypes
  <2>3. \A p \in prereqed : color[p] = "gray" => p \in prereqed'
    BY <1>8 DEF SkipRequired, LeaveRequired, CloseCycle
  <2>4. nloops' = 0 => nloops = 0
    BY <1>1, <1>8 DEF SkipRequired, LeaveRequired, CloseCycle
  <2>5. ASSUME pass = "prereqs", nloops' = 0, Needed(e, Top.pkg)
        PROVE  color[e.pkg] = "black"
    <3>1. CASE SkipRequired(e)
      BY <2>5, <3>1 DEF SkipRequired, Needed, ColorInv, PoolIsColored
    <3>2. CASE LeaveRequired(e)
      BY <2>5, <3>2 DEF LeaveRequired, Needed, Flagged
    <3>3. CASE CloseCycle(e)
      <4>1. PathIsPrereqed /\ Flagged(e) /\ e.pkg # Top.pkg
        BY <2>5 DEF PrereqInv, Needed, Flagged
      <4>2. PrereqsAbove(e.pkg)
        <5> SUFFICES ASSUME NEW i \in 1..Len(stack), NEW j \in 1..(i - 1)
                     PROVE  stack[i].pkg \in prereqed
          BY <1>1, LenProperties DEF PrereqsAbove
        <5>1. i \in 2..Len(stack)
          BY <1>1
        <5> QED
          BY <4>1, <5>1 DEF PathIsPrereqed
      <4>3. nloops' = nloops + 1
        BY <3>3, <4>1, <4>2 DEF CloseCycle, IsLoop
      <4> QED
        BY <1>1, <2>5, <4>3
    <3> QED
      BY <1>8, <3>1, <3>2, <3>3
  <2>6. pass = "prereqs" /\ nloops' = 0 =>
            \A d \in Edges(lists'[Top.pkg]) \ Visited(e).edges :
                Needed(d, Top.pkg) => color[d.pkg] = "black"
    BY <2>1, <2>2, <2>4, <2>5, TopInPlace
  <2> QED
    BY <2>1, <2>2, <2>3, <2>4, <2>6, PrereqStay
<1>9. ASSUME NEW e \in Edge, VisitRequired(e)
      PROVE  PrereqInv'
  <2> DEFINE x == Called(e.pkg)
             n == Len(stack)
  <2>1. stack # << >> /\ e \in Top.edges /\ Top.listed /\ e.pkg \in Pkg
    BY <1>9 DEF VisitRequired, Visiting, Edge
  <2>2. x \in Frame /\ x.pkg = e.pkg /\ ~ x.listed
    BY <2>1, CalledType
  <2>3. Visited(e) \in Frame /\ Visited(e).pkg = Top.pkg /\ Visited(e).edges = Top.edges \ {e}
    BY <2>1, TopTypes
  <2>4. /\ Len(stack') = n + 1 /\ stack'[n + 1] = x /\ stack'[n] = Visited(e)
        /\ \A i \in 1..(n - 1) : stack'[i] = stack[i]
    <3>1. /\ Replace(Visited(e)) \in Seq(Frame) /\ Len(Replace(Visited(e))) = n
          /\ \A i \in 1..(n - 1) : Replace(Visited(e))[i] = stack[i]
          /\ Replace(Visited(e))[n] = Visited(e)
      BY <1>1, <2>1, <2>3, StackSteps
    <3>2. stack' = Append(Replace(Visited(e)), x)
      BY <1>9 DEF VisitRequired
    <3> HIDE DEF x
    <3>3. /\ Len(stack') = n + 1 /\ stack'[n + 1] = x
          /\ \A i \in 1..n : stack'[i] = Replace(Visited(e))[i]
      BY <2>2, <3>1, <3>2, Appended
    <3> QED
      BY <1>2, <2>1, <3>1, <3>3
  <2> HIDE DEF x
  <2>5. /\ \A i \in 1..n : stack'[i].pkg = stack[i].pkg
        /\ \A i \in 1..n : i \in 1..(n - 1) \/ i = n
        /\ \A i \in 1..(n + 1) : i \in 1..n \/ i = n + 1
    BY <1>1, <1>2, <2>1, <2>3, <2>4
  <2>6. ASSUME pass = "prereqs"
        PROVE  PathIsPrereqed'
    <3>1. Flagged(e) /\ prereqed' = prereqed \union {e.pkg}
      BY <1>9, <2>6 DEF VisitRequired
    <3>2. \A i \in 2..n : stack'[i].pkg \in prereqed
      BY <1>1, <2>5, <2>6 DEF PrereqInv, PathIsPrereqed
    <3>3. stack'[n + 1].pkg \in prereqed'
      BY <2>2, <2>4, <3>1
    <3>4. \A i \in 2..(n + 1) : i \in 2..n \/ i = n + 1
      BY <1>1
    <3> QED
      BY <2>4, <3>1, <3>2, <3>3, <3>4 DEF PathIsPrereqed
  <2>7. ASSUME pass = "prereqs", nloops = 0
        PROVE  VisitedInPlace'
    <3> SUFFICES ASSUME NEW i \in 1..(n + 1), stack'[i].listed,
                        NEW d \in Edges(lists[stack'[i].pkg]) \ stack'[i].edges,
                        Needed(d, stack'[i].pkg)
                 PROVE  color'[d.pkg] = "black" \/ (i < n + 1 /\ stack'[i + 1].pkg = d.pkg)
      BY <1>9, <2>4 DEF VisitedInPlace, Needed, PreFlag, VisitRequired, caches
    <3>1. CASE i = n + 1
      BY <2>2, <2>4, <3>1
    <3>2. CASE i = n
      <4>1. d = e \/ color[d.pkg] = "black"
        BY <2>1, <2>3, <2>4, <2>7, <3>2, TopInPlace
      <4>2. CASE d = e
        BY <1>1, <2>2, <2>4, <3>2, <4>2
      <4>3. CASE color[d.pkg] = "black"
        BY <1>1, <1>9, <4>3 DEF VisitRequired, Needed, ColorInv, PoolIsColored
      <4> QED
        BY <4>1, <4>2, <4>3
    <3>3. CASE i \in 1..(n - 1)
      <4>1. stack'[i] = stack[i] /\ i \in 1..n /\ i + 1 \in 1..n /\ i < n + 1
        BY <1>1, <2>4, <3>3
      <4>2. color[d.pkg] = "black" \/ stack[i + 1].pkg = d.pkg
        BY <2>7, <4>1 DEF PrereqInv, VisitedInPlace
      <4>3. color[d.pkg] = "black" => color'[d.pkg] = "black"
        BY <1>1, <1>9 DEF VisitRequired, Needed, ColorInv, PoolIsColored
      <4> QED
        BY <2>5, <4>1, <4>2, <4>3
    <3> QED
      BY <2>5, <3>1, <3>2, <3>3
  <2>8. ASSUME pass = "prereqs", nloops = 0
        PROVE  BlackInPlace'
    BY <1>1, <1>9, <2>1, <2>8
       DEF VisitRequired, caches, PrereqInv, BlackInPlace, Needed, PreFlag, Precedes
  <2> QED
    BY <1>3, <1>9, <2>1, <2>6, <2>7, <2>8 DEF VisitRequired, PrereqInv, PrereqsFirst
<1>10. CASE PackageOrdered
  <2> DEFINE n == Len(stack)
  <2>1. /\ stack # << >> /\ Top.listed /\ Top.edges = {}
        /\ stack' = Below /\ ordered' = Append(ordered, Top.pkg)
        /\ color' = [color EXCEPT ![Top.pkg] = "black"]
        /\ prereqed' = prereqed \ {Top.pkg}
        /\ UNCHANGED <<repo, type, pass, todo, nloops, cache, lists>>
    BY <1>10 DEF PackageOrdered, caches
  <2>2. /\ Len(stack') = n - 1 /\ \A i \in 1..(n - 1) : stack'[i] = stack[i]
        /\ n \in Nat \ {0}
    BY <1>1, <2>1, StackSteps
  <2>3. \A i \in 1..(n - 1) : i \in 1..n /\ i + 1 \in 1..n /\ stack[i].pkg # Top.pkg
    <3>1. \A i, j \in 1..n : stack[i].pkg = stack[j].pkg => i = j
      BY GrayPath
    <3>2. n \in 1..n /\ \A i \in 1..(n - 1) : i \in 1..n /\ i + 1 \in 1..n /\ i # n
      BY <2>2
    <3> QED
      BY <1>2, <2>1, <3>1, <3>2
  <2>4. ASSUME pass = "prereqs"
        PROVE  PathIsPrereqed'
    BY <2>1, <2>2, <2>3, <2>4 DEF PrereqInv, PathIsPrereqed
  <2>5. ASSUME pass = "prereqs", nloops = 0
        PROVE  VisitedInPlace'
    <3> SUFFICES ASSUME NEW i \in 1..(n - 1), stack[i].listed,
                        NEW e \in Edges(lists[stack[i].pkg]) \ stack[i].edges,
                        Needed(e, stack[i].pkg)
                 PROVE  color'[e.pkg] = "black" \/ (i < n - 1 /\ stack'[i + 1].pkg = e.pkg)
      <4>1. \A e, p : Needed(e, p)' <=> Needed(e, p)
        BY <2>1 DEF Needed, PreFlag
      <4> QED
        BY <2>1, <2>2, <4>1 DEF VisitedInPlace
    <3>1. color[e.pkg] = "black" \/ stack[i + 1].pkg = e.pkg
      BY <2>3, <2>5 DEF PrereqInv, VisitedInPlace
    <3>2. CASE color[e.pkg] = "black"
      BY <1>1, <2>1, <3>2 DEF Needed, ColorInv, PoolIsColored
    <3>3. CASE stack[i + 1].pkg = e.pkg /\ i + 1 = n
      BY <1>1, <1>2, <2>1, <3>3
    <3>4. CASE stack[i + 1].pkg = e.pkg /\ i + 1 # n
      <4>1. i + 1 \in 1..(n - 1) /\ i < n - 1
        BY <2>2, <3>4
      <4> QED
        BY <2>2, <3>4, <4>1
    <3> QED
      BY <3>1, <3>2, <3>3, <3>4
  <2>6. ASSUME pass = "prereqs", nloops = 0
        PROVE  BlackInPlace'
    <3> SUFFICES ASSUME NEW p \in Pkg, color'[p] = "black",
                        NEW e \in Edges(lists[p]), Needed(e, p)
                 PROVE  Precedes(e.pkg, p)'
      BY <2>1 DEF BlackInPlace, Needed, PreFlag
    <3>1. CASE p = Top.pkg
      <4>1. color[e.pkg] = "black"
        BY <2>1, <2>6, <3>1, TopInPlace
      <4>2. e.pkg \in ToSet(ordered)
        BY <4>1 DEF Needed, ColorInv, PoolIsColored, OrderedIsBlack
      <4> QED
        BY <1>1, <1>2, <2>1, <3>1, <4>2, PrecedesAppended
    <3>2. CASE p # Top.pkg
      <4>1. Precedes(e.pkg, p)
        BY <1>1, <2>1, <2>6, <3>2 DEF PrereqInv, BlackInPlace
      <4> QED
        BY <1>1, <1>2, <2>1, <4>1, PrecedesAppended
    <3> QED
      BY <3>1, <3>2
  <2> QED
    BY <1>3, <2>1, <2>4, <2>5, <2>6 DEF PrereqInv, PrereqsFirst
<1>11. CASE Preordered
  <2>1. stack' = << >> /\ Len(stack') = 0 /\ pass' = "prereqs"
    BY <1>11, EmptySeq DEF Preordered
  <2>2. PathIsPrereqed' /\ VisitedInPlace'
    BY <2>1 DEF PathIsPrereqed, VisitedInPlace
  <2>3. \A p \in Pkg : color'[p] # "black"
    <3>1. ColorInv' /\ ordered' = << >>
      BY <1>11, ColorStep DEF Preordered
    <3> QED
      BY <3>1, NoPath DEF ColorInv, OrderedIsBlack
  <2> QED
    BY <2>1, <2>2, <2>3 DEF PrereqInv, BlackInPlace, PrereqsFirst
<1>12. CASE Ordered
  <2>1. /\ pass = "prereqs" /\ pass' = "done" /\ UNCHANGED <<repo, type, nloops, lists>>
        /\ ordered' = IF type = "uninstall" THEN Reverse(ordered) ELSE ordered
    BY <1>12 DEF Ordered, caches
  <2>2. repo.pool \subseteq {p \in Pkg : color[p] = "black"}
    BY <1>12, WalkOver DEF Ordered, ColorInv, OrderedIsBlack
  <2> SUFFICES ASSUME nloops = 0, NEW p \in repo.pool, NEW q \in repo.pool, p # q,
                      PrereqEdge(p, q)
               PROVE  Before(q, p)'
    BY <2>1 DEF PrereqInv, PrereqsFirst, PrereqEdge, PreFlag
  <2>3. Precedes(q, p)
    <3>1. PICK e \in Edges(lists[p]) : e.pkg = q /\ PreFlag \in e.flags
      BY DEF PrereqEdge
    <3> QED
      BY <2>1, <2>2, <3>1 DEF PrereqInv, BlackInPlace, Needed
  <2>4. CASE type = "uninstall"
    <3>1. PICK i, j \in DOMAIN ordered : i < j /\ ordered[i] = q /\ ordered[j] = p
      BY <2>3 DEF Precedes
    <3>2. ordered' = Reverse(ordered)
      BY <2>1, <2>4
    <3> DEFINE ri == Len(ordered) - i + 1
               rj == Len(ordered) - j + 1
    <3>3. /\ Len(ordered) \in Nat /\ DOMAIN ordered = 1..Len(ordered)
          /\ DOMAIN ordered' = 1..Len(ordered)
          /\ ri \in 1..Len(ordered) /\ rj \in 1..Len(ordered)
          /\ ordered'[ri] = q /\ ordered'[rj] = p
      BY <1>1, <3>1, <3>2, Reversed
    <3>4. rj < ri
      BY <3>1, <3>3
    <3>5. Precedes(p, q)'
      BY <3>3, <3>4 DEF Precedes
    <3> QED
      BY <2>1, <2>4, <3>5 DEF Before
  <2>5. CASE type # "uninstall"
    BY <2>1, <2>3, <2>5 DEF Before, Precedes
  <2> QED
    BY <2>4, <2>5
<1>13. CASE UNCHANGED vars
  BY <1>13 DEF vars, PrereqInv, PathIsPrereqed, VisitedInPlace, BlackInPlace,
               Needed, PreFlag, Precedes, Before, PrereqEdge, PrereqsFirst
<1> QED
  BY <1>4, <1>5, <1>6, <1>7, <1>8, <1>9, <1>10, <1>11, <1>12, <1>13 DEF Next, Finished

(* There are no prerequisites to place before the second walk.             *)
LEMMA PrereqInit == Init => PrereqInv
  BY DEF Init, PrereqInv, PrereqsFirst

(* Unless a loop is reported, every prerequisite that pkgset-dep.c found   *)
(* in the pool is installed before the package that needs it, and removed  *)
(* after it, wherever the walks cut the other circles.                     *)
THEOREM PrerequisitesComeFirst == Spec => []PrereqsFirst
<1>1. PrereqInv => PrereqsFirst
  BY DEF PrereqInv
<1> QED
  BY TypeInit, TypeStep, ColorInit, ColorStep, PrereqInit, PrereqStep, <1>1, PTL DEF Spec

-----------------------------------------------------------------------------
(* Every flag of a list of required packages comes from a requirement.     *)
Asked(R, p, e, f) ==
    \E r \in ToSet(R.reqs[p]) : f \in r.flags /\ e.pkg \in ToSet(R.sat[r.key])

ListAsked(R, p, list) == \A e \in Edges(list) : \A f \in e.flags : Asked(R, p, e, f)

CallAsked(R, frame) ==
    /\ ListAsked(R, frame.pkg, frame.list)
    /\ ToSet(frame.reqs) \subseteq ToSet(R.reqs[frame.pkg])

(* What the functions of pkgset-dep.c keep between two calls: an answer is *)
(* empty or what satisfies the requirement.                                *)
AskedInv ==
    /\ \A k \in Key : cache[k] \in {NotAsked, << >>, repo.sat[k]}
    /\ \A p \in Pkg : ListAsked(repo, p, lists[p])
    /\ \A i \in 1..Len(stack) : CallAsked(repo, stack[i])

(* add_reqpkg and process_req add what the requirement asks for, whichever *)
(* entry the binary search finds.                                          *)
LEMMA MergedAsked ==
    ASSUME NEW p \in Pkg, NEW list \in SUBSET ReqPkg, ListAsked(repo, p, list),
           NEW r \in ToSet(repo.reqs[p]), NEW matches \in Seq(Pkg),
           ToSet(matches) \subseteq ToSet(repo.sat[r.key]),
           NEW new \in Merged(list, r, matches)
    PROVE  ListAsked(repo, p, new)
<1> DEFINE same == {rp \in list : rp.pkgs[1] = matches[1]}
           entry(rest) == [pkgs |-> matches, flags |-> r.flags, rest |-> rest]
           more(rp) == [rp EXCEPT !.flags = @ \union r.flags]
<1>1. \/ new = list
      \/ new = list \union {entry(r.flags)} \/ new = list \union {entry({})}
      \/ matches # << >> /\ \E rp \in same : new = (list \ {rp}) \union {more(rp)}
  BY DEF Merged
<1>2. ASSUME NEW rest \in {r.flags, {}}, new = list \union {entry(rest)}
      PROVE  ListAsked(repo, p, new)
  <2> SUFFICES ASSUME NEW e \in Edges(new), e \notin Edges(list), NEW f \in e.flags
               PROVE  Asked(repo, p, e, f)
    BY DEF ListAsked
  <2>1. PICK i \in DOMAIN matches :
            e = [pkg |-> matches[i], flags |-> IF i = 1 THEN r.flags ELSE rest]
    BY <1>2 DEF Edges
  <2>2. f \in r.flags /\ e.pkg \in ToSet(matches)
    BY <1>2, <2>1 DEF ToSet
  <2> QED
    BY <2>2 DEF Asked
<1>3. ASSUME matches # << >>, NEW rp \in same, new = (list \ {rp}) \union {more(rp)}
      PROVE  ListAsked(repo, p, new)
  <2> SUFFICES ASSUME NEW e \in Edges(new), e \notin Edges(list), NEW f \in e.flags
               PROVE  Asked(repo, p, e, f)
    BY DEF ListAsked
  <2>1. rp \in list /\ rp \in ReqPkg /\ rp.pkgs[1] = matches[1]
    OBVIOUS
  <2>2. /\ more(rp).pkgs = rp.pkgs /\ more(rp).flags = rp.flags \union r.flags
        /\ more(rp).rest = rp.rest
    BY <2>1 DEF ReqPkg
  <2>3. PICK i \in DOMAIN rp.pkgs :
            e = [pkg |-> rp.pkgs[i],
                 flags |-> IF i = 1 THEN rp.flags \union r.flags ELSE rp.rest]
    <3> HIDE DEF more
    <3>1. e \in Edges({more(rp)})
      BY <1>3 DEF Edges
    <3> QED
      BY <2>2, <3>1 DEF Edges
  <2>4. i = 1
    BY <2>1, <2>3 DEF Edges
  <2>5. CASE f \in r.flags
    <3>1. 1 \in DOMAIN matches
      BY <1>3, EmptySeq, LenProperties
    <3>2. e.pkg \in ToSet(matches)
      BY <2>1, <2>3, <2>4, <3>1 DEF ToSet
    <3> QED
      BY <2>5, <3>2 DEF Asked
  <2>6. CASE f \in rp.flags
    <3> DEFINE d == [pkg |-> rp.pkgs[1], flags |-> rp.flags]
    <3>1. d \in Edges(list)
      BY <2>1, <2>3, <2>4 DEF Edges
    <3>2. Asked(repo, p, d, f)
      BY <2>6, <3>1 DEF ListAsked
    <3> QED
      BY <2>3, <2>4, <3>2 DEF Asked
  <2> QED
    BY <2>3, <2>4, <2>5, <2>6
<1> QED
  BY <1>1, <1>2, <1>3

(* Nothing is cached, and nothing called, in the beginning.                *)
LEMMA AskedInit == Init => AskedInv
<1> SUFFICES ASSUME Init PROVE AskedInv
  OBVIOUS
<1>1. Edges({}) = {}
  BY DEF Edges
<1>2. \A p \in Pkg : ListAsked(repo, p, lists[p])
  BY <1>1 DEF Init, ListAsked
<1>3. Len(stack) = 0
  BY EmptySeq DEF Init
<1> QED
  BY <1>2, <1>3 DEF Init, AskedInv

(* No step makes up a flag.                                                *)
LEMMA AskedStep == TypeInv /\ AskedInv /\ [Next]_vars => AskedInv'
<1> SUFFICES ASSUME TypeInv, AskedInv, [Next]_vars
             PROVE  AskedInv'
  OBVIOUS
<1>1. /\ stack \in Seq(Frame) /\ Len(stack) \in Nat /\ repo \in Repository
      /\ cache \in [Key -> Seq(Pkg) \union {NotAsked}] /\ lists \in [Pkg -> SUBSET ReqPkg]
  BY PathType, RepositoriesAssumption DEF TypeInv, TypeOK
<1>2. ASSUME stack # << >>
      PROVE  Top \in Frame /\ Top.pkg \in Pkg /\ CallAsked(repo, Top)
  <2>1. Len(stack) \in 1..Len(stack)
    BY <1>1, <1>2, StackSteps
  <2> QED
    BY <1>1, <1>2, <2>1, StackSteps DEF AskedInv, Top, Frame
<1>3. ASSUME stack # << >>, NEW f \in Frame, f.pkg = Top.pkg, CallAsked(repo, f)
      PROVE  /\ Replace(f) \in Seq(Frame)
             /\ \A i \in 1..Len(Replace(f)) : CallAsked(repo, Replace(f)[i])
  <2>1. /\ Replace(f) \in Seq(Frame) /\ Len(Replace(f)) = Len(stack)
        /\ \A i \in 1..(Len(stack) - 1) : Replace(f)[i] = stack[i]
        /\ Replace(f)[Len(stack)] = f
    BY <1>1, <1>3, StackSteps
  <2>2. \A i \in 1..Len(stack) : i \in 1..(Len(stack) - 1) \/ i = Len(stack)
    BY <1>1
  <2> QED
    BY <1>3, <2>1, <2>2 DEF AskedInv
<1>4. ASSUME NEW p \in Pkg
      PROVE  Called(p) \in Frame /\ CallAsked(repo, Called(p))
  <2>1. ToSet(<< >>) = {} /\ ListAsked(repo, p, lists[p])
    BY NoPath DEF AskedInv
  <2> QED
    BY <2>1, CalledType DEF Called, CallAsked
<1>5. ASSUME stack # << >>, NEW f \in Frame, f.pkg = Top.pkg, CallAsked(repo, f),
             stack' = Replace(f), UNCHANGED <<repo, cache, lists>>
      PROVE  AskedInv'
  BY <1>3, <1>5 DEF AskedInv
<1>6. CASE VisitPackage
  <2> DEFINE x == Called(Head(todo))
  <2>1. Head(todo) \in Pkg
    BY <1>6, HeadAndTail DEF VisitPackage, TypeInv, TypeOK
  <2>2. x \in Frame /\ CallAsked(repo, x) /\ stack' = << x >>
    BY <1>4, <1>6, <2>1 DEF VisitPackage
  <2> HIDE DEF x
  <2>3. Len(stack') = 1 /\ stack'[1] = x
    BY <2>2
  <2> QED
    BY <1>6, <2>2, <2>3 DEF VisitPackage, caches, AskedInv
<1>7. CASE ProcessReq
  <2> DEFINE r == Head(Top.reqs)
             matches == IF cache[r.key] = NotAsked THEN FindMatches(Top.pkg, r.key)
                        ELSE cache[r.key]
  <2>1. stack # << >> /\ Top.reqs # << >> /\ cache' = [cache EXCEPT ![r.key] = matches]
        /\ UNCHANGED <<repo, lists>>
    BY <1>7 DEF ProcessReq
  <2>2. PICK list \in Merged(Top.list, r, matches) :
            stack' = Replace([Top EXCEPT !.reqs = Tail(@), !.list = list])
    BY <1>7 DEF ProcessReq
  <2>3. /\ r \in Req /\ r.key \in Key /\ Top.list \in SUBSET ReqPkg
        /\ ToSet(Top.reqs) = {r} \union ToSet(Tail(Top.reqs))
        /\ FindMatches(Top.pkg, r.key) \in Seq(Pkg)
    BY <1>2, <2>1, ListTypes, HeadAndTail DEF Frame, Req
  <2>4. /\ matches \in Seq(Pkg) /\ matches \in {<< >>, repo.sat[r.key]}
    BY <1>1, <2>3 DEF AskedInv, FindMatches
  <2>5. ToSet(matches) \subseteq ToSet(repo.sat[r.key])
    BY <2>4, NoPath
  <2>6. r \in ToSet(repo.reqs[Top.pkg])
    BY <1>2, <2>1, <2>3 DEF CallAsked
  <2>7. ListAsked(repo, Top.pkg, list)
    BY <1>2, <2>1, <2>2, <2>3, <2>4, <2>5, <2>6, MergedAsked DEF CallAsked
  <2> DEFINE f == [Top EXCEPT !.reqs = Tail(@), !.list = list]
  <2>8. f \in Frame /\ f.pkg = Top.pkg /\ f.list = list /\ f.reqs = Tail(Top.reqs)
    <3>1. list \in SUBSET ReqPkg
      BY <2>1, <2>2, <2>3, <2>4, ListTypes
    <3> QED
      BY <1>2, <2>1, <3>1, TopTypes DEF Frame
  <2>9. CallAsked(repo, f) /\ stack' = Replace(f)
    BY <1>2, <2>1, <2>2, <2>3, <2>7, <2>8 DEF CallAsked
  <2> HIDE DEF f
  <2>10. \A i \in 1..Len(stack') : CallAsked(repo, stack'[i])
    BY <1>3, <2>1, <2>8, <2>9
  <2>11. \A k \in Key : cache'[k] \in {NotAsked, << >>, repo.sat[k]}
    BY <1>1, <2>1, <2>3, <2>4 DEF AskedInv
  <2> QED
    BY <2>1, <2>10, <2>11 DEF AskedInv
<1>8. CASE Listed
  <2> DEFINE f == [Top EXCEPT !.listed = TRUE, !.edges = Edges(Top.list)]
  <2>1. /\ stack # << >> /\ stack' = Replace(f) /\ UNCHANGED <<repo, cache>>
        /\ lists' = [lists EXCEPT ![Top.pkg] = Top.list]
    BY <1>8 DEF Listed
  <2>2. f \in Frame /\ f.pkg = Top.pkg /\ CallAsked(repo, f)
    BY <1>2, <2>1, TopTypes DEF CallAsked, Frame
  <2> HIDE DEF f
  <2>3. \A i \in 1..Len(stack') : CallAsked(repo, stack'[i])
    BY <1>3, <2>1, <2>2
  <2>4. \A p \in Pkg : ListAsked(repo, p, lists'[p])
    BY <1>1, <1>2, <2>1 DEF AskedInv, CallAsked
  <2> QED
    BY <2>1, <2>3, <2>4 DEF AskedInv
<1>9. ASSUME NEW e \in Edge, stack # << >>
       PROVE  Visited(e) \in Frame /\ Visited(e).pkg = Top.pkg /\ CallAsked(repo, Visited(e))
  <2>1. Visited(e).list = Top.list /\ Visited(e).reqs = Top.reqs
    BY <1>2, <1>9 DEF Visited, Frame
  <2> QED
    BY <1>2, <1>9, <2>1, TopTypes DEF CallAsked
<1>10. ASSUME NEW e \in Edge, SkipRequired(e) \/ LeaveRequired(e) \/ CloseCycle(e)
       PROVE  AskedInv'
  BY <1>5, <1>9, <1>10 DEF SkipRequired, LeaveRequired, CloseCycle, Visiting, caches
<1>11. ASSUME NEW e \in Edge, VisitRequired(e)
       PROVE  AskedInv'
  <2> DEFINE s == Replace(Visited(e))
             x == Called(e.pkg)
  <2>1. stack # << >> /\ e.pkg \in Pkg /\ UNCHANGED <<repo, cache, lists>> /\ stack' = Append(s, x)
    BY <1>11 DEF VisitRequired, Visiting, Edge, caches
  <2>2. s \in Seq(Frame) /\ \A i \in 1..Len(s) : CallAsked(repo, s[i])
    BY <1>3, <1>9, <2>1
  <2>3. x \in Frame /\ CallAsked(repo, x)
    BY <1>4, <2>1
  <2> HIDE DEF s, x
  <2>4. /\ Len(s) \in Nat /\ Len(stack') = Len(s) + 1 /\ stack'[Len(s) + 1] = x
        /\ \A i \in 1..Len(s) : stack'[i] = s[i]
    BY <2>1, <2>2, <2>3, Appended
  <2>5. \A i \in 1..(Len(s) + 1) : i \in 1..Len(s) \/ i = Len(s) + 1
    BY <2>4
  <2>6. \A i \in 1..Len(stack') : CallAsked(repo, stack'[i])
    BY <2>1, <2>2, <2>3, <2>4, <2>5
  <2> QED
    BY <2>1, <2>6 DEF AskedInv
<1>12. CASE PackageOrdered
  <2>1. /\ Len(stack') = Len(stack) - 1 /\ UNCHANGED <<repo, cache, lists>>
        /\ \A i \in 1..(Len(stack) - 1) : i \in 1..Len(stack) /\ stack'[i] = stack[i]
    BY <1>1, <1>12, StackSteps DEF PackageOrdered, caches
  <2> QED
    BY <2>1 DEF AskedInv
<1>13. CASE SkipVisited \/ Preordered \/ Ordered \/ UNCHANGED vars
  <2>1. UNCHANGED <<repo, cache, lists, stack>>
    BY <1>13 DEF SkipVisited, Preordered, Ordered, vars, caches
  <2> QED
    BY <2>1 DEF AskedInv
<1> QED
  BY <1>6, <1>7, <1>8, <1>10, <1>11, <1>12, <1>13 DEF Next, Finished

(* Merging the entries of a list and sharing the answers between packages  *)
(* makes no prerequisite that the package's own requirements do not ask    *)
(* for.                                                                    *)
THEOREM PrereqsAreAsked == Spec => []NoInventedPrereqs
<1>1. AskedInv => NoInventedPrereqs
  BY DEF AskedInv, ListAsked, Asked, NoInventedPrereqs
<1> QED
  BY TypeInit, TypeStep, AskedInit, AskedStep, <1>1, PTL DEF Spec
-----------------------------------------------------------------------------
(* Loops.  A call that is listed has left to visit what is in the cached   *)
(* list, and a list that is cached stays: a package called again takes it  *)
(* as it is.  In the second walk each package of the path is called as a   *)
(* prerequisite of the one below.                                          *)
Kept(cached, frame) ==
    /\ cached[frame.pkg] = {} \/ (frame.reqs = << >> /\ cached[frame.pkg] = frame.list)
    /\ frame.listed => frame.edges \subseteq Edges(cached[frame.pkg])

PathIsLinked == \A i \in 1..(Len(stack) - 1) : PrereqEdge(stack[i].pkg, stack[i + 1].pkg)

LinkInv ==
    /\ \A i \in 1..Len(stack) : Kept(lists, stack[i])
    /\ pass = "prereqs" => PathIsLinked

(* A cached list is never replaced by another.                             *)
ListsKept == \A p \in Pkg : lists[p] = {} \/ lists'[p] = lists[p]

(* What is a prerequisite stays one.                                       *)
LEMMA EdgeKept ==
    ASSUME ListsKept, type' = type
    PROVE  \A p \in Pkg : \A q : PrereqEdge(p, q) => PrereqEdge(p, q)'
<1>1. Edges({}) = {}
  BY DEF Edges
<1> SUFFICES ASSUME NEW p \in Pkg, NEW q, PrereqEdge(p, q)
             PROVE  PrereqEdge(p, q)'
  OBVIOUS
<1>2. lists'[p] = lists[p]
  BY <1>1 DEF PrereqEdge, ListsKept
<1> QED
  BY <1>2 DEF PrereqEdge, PreFlag

(* What a call of a package has to look at is cached, or has yet to be.    *)
LEMMA CalledKept ==
    ASSUME TypeInv, NEW p \in Pkg
    PROVE  Kept(lists, Called(p))
  BY DEF Kept, Called

(* The package on top goes on with its list.                               *)
LEMMA LinkStay ==
    ASSUME TypeInv, ColorInv, LinkInv, stack # << >>,
           NEW f \in Frame, f.pkg = Top.pkg, stack' = Replace(f),
           UNCHANGED <<type, pass>>,
           \A p \in Pkg : p # Top.pkg => lists'[p] = lists[p],
           ListsKept, Kept(lists', f)
    PROVE  LinkInv'
<1>1. /\ stack \in Seq(Frame) /\ Len(stack) \in Nat \ {0}
      /\ Len(stack') = Len(stack)
      /\ \A i \in 1..(Len(stack) - 1) : stack'[i] = stack[i]
      /\ stack'[Len(stack)] = f
      /\ stack[Len(stack)].pkg = Top.pkg
  BY StackSteps DEF TypeInv, TypeOK, Top
<1>2. /\ \A i \in 1..Len(stack) : i \in 1..(Len(stack) - 1) \/ i = Len(stack)
      /\ \A i \in 1..(Len(stack) - 1) : /\ i \in 1..Len(stack) /\ i + 1 \in 1..Len(stack)
                                        /\ i # Len(stack)
      /\ Len(stack) \in 1..Len(stack)
  BY <1>1
<1>3. \A i \in 1..Len(stack) : stack'[i].pkg = stack[i].pkg /\ stack[i].pkg \in Pkg
  BY <1>1, <1>2, GrayPath
<1>4. \A i \in 1..(Len(stack) - 1) : stack[i].pkg # Top.pkg
  BY <1>1, <1>2, GrayPath
<1>5. ASSUME NEW i \in 1..Len(stack)
      PROVE  Kept(lists', stack'[i])
  <2>1. CASE i = Len(stack)
    BY <1>1, <2>1
  <2>2. CASE i \in 1..(Len(stack) - 1)
    <3>1. stack'[i] = stack[i] /\ lists'[stack[i].pkg] = lists[stack[i].pkg]
      BY <1>1, <1>3, <1>4, <2>2
    <3>2. Kept(lists, stack[i])
      BY DEF LinkInv
    <3> QED
      BY <3>1, <3>2 DEF Kept
  <2> QED
    BY <1>2, <2>1, <2>2
<1>6. ASSUME pass = "prereqs"
      PROVE  PathIsLinked'
  <2>1. \A i \in 1..(Len(stack) - 1) : PrereqEdge(stack[i].pkg, stack[i + 1].pkg)
    BY <1>6 DEF LinkInv, PathIsLinked
  <2>2. \A p \in Pkg : \A q : PrereqEdge(p, q) => PrereqEdge(p, q)'
    BY EdgeKept
  <2> SUFFICES ASSUME NEW i \in 1..(Len(stack) - 1)
               PROVE  PrereqEdge(stack[i].pkg, stack[i + 1].pkg)'
    BY <1>1 DEF PathIsLinked
  <2>3. stack'[i].pkg = stack[i].pkg /\ stack'[i + 1].pkg = stack[i + 1].pkg
    BY <1>2, <1>3
  <2>4. stack[i].pkg \in Pkg
    BY <1>2, <1>3
  <2> DEFINE p == stack[i].pkg
             q == stack[i + 1].pkg
  <2>5. \E e \in Edges(lists[p]) : e.pkg = q /\ PreFlag \in e.flags
    BY <2>1 DEF PrereqEdge
  <2>6. lists'[p] = lists[p]
    <3>1. Edges({}) = {}
      BY DEF Edges
    <3> QED
      BY <2>4, <2>5, <3>1 DEF ListsKept
  <2>7. PreFlag' = PreFlag
    BY DEF PreFlag
  <2>8. \E e \in Edges(lists'[p]) : e.pkg = q /\ PreFlag' \in e.flags
    BY <2>5, <2>6, <2>7
  <2> QED
    BY <2>3, <2>8 DEF PrereqEdge
<1> QED
  BY <1>1, <1>5, <1>6 DEF LinkInv

(* Nothing is called in the beginning.                                     *)
LEMMA LinkInit == Init => LinkInv
<1> SUFFICES ASSUME Init PROVE LinkInv
  OBVIOUS
<1>1. Len(stack) = 0
  BY EmptySeq DEF Init
<1> QED
  BY <1>1 DEF Init, LinkInv

(* pkgset_get_required_packages caches what is not cached yet; no other    *)
(* step changes the lists.                                                 *)
LEMMA ListsStay == TypeInv /\ LinkInv /\ [Next]_vars => ListsKept
<1> SUFFICES ASSUME TypeInv, LinkInv, [Next]_vars
             PROVE  ListsKept
  OBVIOUS
<1>1. CASE Listed
  <2>1. stack # << >> /\ lists' = [lists EXCEPT ![Top.pkg] = Top.list]
    BY <1>1 DEF Listed
  <2>2. lists \in [Pkg -> SUBSET ReqPkg] /\ stack \in Seq(Frame)
    BY DEF TypeInv, TypeOK
  <2>3. Len(stack) \in 1..Len(stack)
    BY <2>1, <2>2, StackSteps
  <2>4. lists[Top.pkg] = {} \/ lists[Top.pkg] = Top.list
    BY <2>3 DEF LinkInv, Kept, Top
  <2> QED
    BY <2>1, <2>2, <2>4 DEF ListsKept
<1>2. CASE ~ Listed
  <2>1. lists' = lists
    BY <1>2 DEF Next, VisitPackage, SkipVisited, ProcessReq, SkipRequired, VisitRequired,
                LeaveRequired, CloseCycle, PackageOrdered, Preordered, Ordered, Finished,
                vars, caches
  <2> QED
    BY <2>1 DEF ListsKept
<1> QED
  BY <1>1, <1>2

(* Every step keeps the calls linked.                                      *)
LEMMA LinkStep == TypeInv /\ ColorInv /\ LinkInv /\ [Next]_vars => LinkInv'
<1> SUFFICES ASSUME TypeInv, ColorInv, LinkInv, [Next]_vars
             PROVE  LinkInv'
  OBVIOUS
<1>1. /\ stack \in Seq(Frame) /\ Len(stack) \in Nat
      /\ lists \in [Pkg -> SUBSET ReqPkg]
  BY GrayPath DEF TypeInv, TypeOK
<1>2. ListsKept
  BY ListsStay
<1>3. stack # << >> => /\ Top \in Frame /\ Top.pkg \in Pkg /\ Kept(lists, Top)
                       /\ Len(stack) \in 1..Len(stack) /\ Top = stack[Len(stack)]
  <2> SUFFICES ASSUME stack # << >>
               PROVE  /\ Top \in Frame /\ Top.pkg \in Pkg /\ Kept(lists, Top)
                      /\ Len(stack) \in 1..Len(stack) /\ Top = stack[Len(stack)]
    OBVIOUS
  <2>1. Top \in Frame /\ Len(stack) \in 1..Len(stack)
    BY <1>1, StackSteps
  <2> QED
    BY <2>1 DEF LinkInv, Top, Frame
<1>4. CASE VisitPackage
  <2> DEFINE x == Called(Head(todo))
  <2>1. Head(todo) \in Pkg
    BY <1>4, HeadAndTail DEF VisitPackage, TypeInv, TypeOK
  <2>2. Kept(lists, x) /\ stack' = << x >>
    BY <1>4, <2>1, CalledKept DEF VisitPackage
  <2> HIDE DEF x
  <2>3. Len(stack') = 1 /\ stack'[1] = x
    BY <2>2
  <2> QED
    BY <1>4, <2>2, <2>3 DEF VisitPackage, caches, LinkInv, PathIsLinked
<1>5. CASE ProcessReq
  <2>1. PICK list \in SUBSET ReqPkg :
            stack' = Replace([Top EXCEPT !.reqs = Tail(@), !.list = list])
    BY <1>5, Processing
  <2> DEFINE f == [Top EXCEPT !.reqs = Tail(@), !.list = list]
  <2>2. f \in Frame /\ f.pkg = Top.pkg /\ f.listed = Top.listed /\ f.edges = Top.edges
    BY <1>5, TopTypes DEF ProcessReq
  <2> HIDE DEF f
  <2>3. Kept(lists', f)
    BY <1>3, <1>5, <2>2 DEF ProcessReq, Kept
  <2> QED
    BY <1>2, <1>5, <2>1, <2>2, <2>3, LinkStay DEF ProcessReq, f
<1>6. CASE Listed
  <2> DEFINE f == [Top EXCEPT !.listed = TRUE, !.edges = Edges(Top.list)]
  <2>1. /\ f \in Frame /\ f.pkg = Top.pkg /\ f.edges = Edges(Top.list) /\ stack' = Replace(f)
        /\ f.reqs = Top.reqs /\ f.list = Top.list
    BY <1>3, <1>6, TopTypes DEF Listed, Frame
  <2> HIDE DEF f
  <2>2. lists'[Top.pkg] = Top.list /\ \A p \in Pkg : p # Top.pkg => lists'[p] = lists[p]
    BY <1>1, <1>3, <1>6 DEF Listed
  <2>3. Kept(lists', f)
    BY <1>6, <2>1, <2>2 DEF Listed, Kept
  <2> QED
    BY <1>2, <1>6, <2>1, <2>2, <2>3, LinkStay DEF Listed
<1>7. ASSUME NEW e \in Edge, stack # << >>
      PROVE  Visited(e) \in Frame /\ Visited(e).pkg = Top.pkg /\ Kept(lists, Visited(e))
  <2>1. Visited(e).list = Top.list /\ Visited(e).reqs = Top.reqs
    BY <1>3, <1>7 DEF Visited, Frame
  <2>2. /\ Visited(e) \in Frame /\ Visited(e).pkg = Top.pkg
        /\ Visited(e).listed = Top.listed /\ Visited(e).edges = Top.edges \ {e}
    BY <1>7, TopTypes
  <2> QED
    BY <1>3, <1>7, <2>1, <2>2 DEF Kept
<1>8. ASSUME NEW e \in Edge, SkipRequired(e) \/ LeaveRequired(e) \/ CloseCycle(e)
      PROVE  LinkInv'
  <2>1. stack # << >> /\ stack' = Replace(Visited(e)) /\ UNCHANGED <<type, pass, lists>>
    BY <1>8 DEF SkipRequired, LeaveRequired, CloseCycle, Visiting, caches
  <2> QED
    BY <1>2, <1>7, <2>1, LinkStay
<1>9. ASSUME NEW e \in Edge, VisitRequired(e)
      PROVE  LinkInv'
  <2> DEFINE x == Called(e.pkg)
             s == Replace(Visited(e))
             n == Len(stack)
  <2>1. /\ stack # << >> /\ e \in Top.edges /\ Top.listed /\ e.pkg \in Pkg
        /\ stack' = Append(s, x) /\ UNCHANGED <<type, pass, lists>>
    BY <1>9 DEF VisitRequired, Visiting, Edge, caches
  <2>2. x \in Frame /\ x.pkg = e.pkg /\ Kept(lists, x)
    BY <2>1, CalledType, CalledKept
  <2>3. /\ s \in Seq(Frame) /\ Len(s) = n /\ s[n] = Visited(e)
        /\ \A i \in 1..(n - 1) : s[i] = stack[i]
    BY <1>1, <1>7, <2>1, StackSteps
  <2> HIDE DEF x, s
  <2>4. /\ Len(stack') = n + 1 /\ stack'[n + 1] = x /\ stack'[n] = Visited(e)
        /\ \A i \in 1..(n - 1) : stack'[i] = stack[i]
    <3>1. /\ Len(stack') = n + 1 /\ stack'[n + 1] = x
          /\ \A i \in 1..n : stack'[i] = s[i]
      BY <2>1, <2>2, <2>3, Appended
    <3> QED
      BY <1>1, <1>3, <2>1, <2>3, <3>1
  <2>5. /\ \A i \in 1..(n + 1) : i \in 1..(n - 1) \/ i = n \/ i = n + 1
        /\ \A i \in 1..n : i \in 1..(n - 1) \/ i = n
        /\ \A i \in 1..(n - 1) : i \in 1..n /\ i + 1 \in 1..n
    BY <1>1
  <2>6. \A i \in 1..n : stack'[i].pkg = stack[i].pkg
    BY <1>3, <1>7, <2>1, <2>4, <2>5
  <2>7. \A i \in 1..(n + 1) : Kept(lists', stack'[i])
    BY <1>7, <2>1, <2>2, <2>4, <2>5 DEF LinkInv
  <2>8. ASSUME pass = "prereqs"
        PROVE  PathIsLinked'
    <3>1. PreFlag \in e.flags
      BY <1>9, <2>8 DEF VisitRequired, Flagged
    <3>2. e \in Edges(lists[Top.pkg])
      BY <1>3, <2>1 DEF Kept
    <3>3. PrereqEdge(stack[n].pkg, e.pkg)
      BY <1>3, <2>1, <3>1, <3>2 DEF PrereqEdge
    <3>4. \A i \in 1..(n - 1) : PrereqEdge(stack[i].pkg, stack[i + 1].pkg)
      BY <2>8 DEF LinkInv, PathIsLinked
    <3>5. \A i \in 1..n : PrereqEdge(stack'[i].pkg, stack'[i + 1].pkg)
      <4> SUFFICES ASSUME NEW i \in 1..n
                   PROVE  PrereqEdge(stack'[i].pkg, stack'[i + 1].pkg)
        OBVIOUS
      <4>1. CASE i = n
        BY <2>2, <2>4, <2>6, <3>3, <4>1
      <4>2. CASE i \in 1..(n - 1)
        BY <2>5, <2>6, <3>4, <4>2
      <4> QED
        BY <2>5, <4>1, <4>2
    <3>6. Len(stack') - 1 = n
      BY <1>1, <2>4
    <3> QED
      BY <2>1, <3>5, <3>6 DEF PathIsLinked, PrereqEdge, PreFlag
  <2> QED
    BY <2>1, <2>4, <2>7, <2>8 DEF LinkInv
<1>10. CASE PackageOrdered
  <2>1. /\ Len(stack') = Len(stack) - 1 /\ UNCHANGED <<type, pass, lists>>
        /\ \A i \in 1..(Len(stack) - 1) : stack'[i] = stack[i]
        /\ Len(stack) \in Nat \ {0}
    BY <1>1, <1>10, StackSteps DEF PackageOrdered, caches
  <2>2. /\ \A i \in 1..(Len(stack) - 1) : i \in 1..Len(stack)
        /\ \A i \in 1..(Len(stack) - 2) : i \in 1..(Len(stack) - 1) /\ i + 1 \in 1..(Len(stack) - 1)
        /\ Len(stack') - 1 = Len(stack) - 2
    BY <2>1
  <2>3. ASSUME pass = "prereqs"
        PROVE  PathIsLinked'
    BY <2>1, <2>2, <2>3 DEF LinkInv, PathIsLinked, PrereqEdge, PreFlag
  <2> QED
    BY <2>1, <2>2, <2>3 DEF LinkInv
<1>11. CASE Preordered \/ Ordered
  <2>1. Len(stack') = 0
    BY <1>11, EmptySeq DEF Preordered, Ordered
  <2> QED
    BY <2>1 DEF LinkInv, PathIsLinked
<1>12. CASE SkipVisited \/ UNCHANGED vars
  <2>1. UNCHANGED <<type, pass, lists, stack>>
    BY <1>12 DEF SkipVisited, vars, caches
  <2> QED
    BY <2>1 DEF LinkInv, PathIsLinked, PrereqEdge, PreFlag
<1> QED
  BY <1>4, <1>5, <1>6, <1>8, <1>9, <1>10, <1>11, <1>12 DEF Next, Finished

(* The cycle that visit_install_order reports: the package on the path     *)
(* that the one on top has as a prerequisite, and those above it.          *)
LEMMA CycleIsLoop ==
    ASSUME TypeInv, ColorInv, LinkInv, NEW e \in Edge, CloseCycle(e), IsLoop(e)
    PROVE  \E loop \in SUBSET repo.pool :
               loop # {} /\ \A p \in loop : \E q \in loop \ {p} : PrereqEdge(p, q)
<1> DEFINE n == Len(stack)
<1>1. /\ stack # << >> /\ Top.listed /\ e \in Top.edges /\ color[e.pkg] = "gray"
      /\ pass = "prereqs" /\ PreFlag \in e.flags /\ e.pkg # Top.pkg /\ e.pkg \in Pkg
  BY DEF CloseCycle, Visiting, IsLoop, Flagged, Edge
<1>2. stack \in Seq(Frame) /\ n \in Nat \ {0} /\ n \in 1..n /\ Top = stack[n]
  BY <1>1, StackSteps DEF TypeInv, TypeOK, Top
<1>3. /\ \A i \in 1..n : stack[i].pkg \in repo.pool
      /\ \A i, j \in 1..n : stack[i].pkg = stack[j].pkg => i = j
  BY GrayPath DEF ColorInv, PoolIsColored
<1>4. PICK k \in 1..n : stack[k].pkg = e.pkg
  <2>1. e.pkg \in ToSet(Path(stack))
    BY <1>1 DEF ColorInv, PathIsGray
  <2> QED
    BY <1>2, <2>1, PathType DEF ToSet
<1>5. PrereqEdge(stack[n].pkg, e.pkg)
  <2>1. e \in Edges(lists[Top.pkg])
    BY <1>1, <1>2 DEF LinkInv, Kept
  <2> QED
    BY <1>1, <1>2, <2>1 DEF PrereqEdge
<1>6. \A i \in 1..(n - 1) : PrereqEdge(stack[i].pkg, stack[i + 1].pkg)
  BY <1>1 DEF LinkInv, PathIsLinked
<1> DEFINE loop == {stack[i].pkg : i \in k..n}
<1>7. k..n \subseteq 1..n /\ k \in k..n /\ \A i \in k..n : i = n \/ i + 1 \in k..n
  BY <1>2, <1>4
<1>8. loop \subseteq repo.pool /\ loop # {}
  BY <1>3, <1>7
<1>9. ASSUME NEW i \in k..n
      PROVE  \E q \in loop \ {stack[i].pkg} : PrereqEdge(stack[i].pkg, q)
  <2>1. CASE i = n
    BY <1>1, <1>2, <1>4, <1>5, <1>7, <2>1
  <2>2. CASE i # n
    <3>1. i + 1 \in k..n /\ i \in 1..(n - 1) /\ i + 1 \in 1..n /\ i \in 1..n /\ i # i + 1
      BY <1>2, <1>4, <2>2
    <3>2. stack[i + 1].pkg \in loop /\ stack[i + 1].pkg # stack[i].pkg
      BY <1>3, <3>1
    <3> QED
      BY <1>6, <3>1, <3>2
  <2> QED
    BY <2>1, <2>2
<1>10. \A p \in loop : \E q \in loop \ {p} : PrereqEdge(p, q)
  BY <1>9
<1> HIDE DEF loop
<1> QED
  BY <1>8, <1>10

(* A loop that is found stays one.                                         *)
LEMMA LoopStep ==
    TypeInv /\ ColorInv /\ LinkInv /\ LoopsAreReal /\ [Next]_vars => LoopsAreReal'
<1> SUFFICES ASSUME TypeInv, ColorInv, LinkInv, LoopsAreReal, [Next]_vars, (nloops > 0)'
             PROVE  \E loop \in SUBSET repo'.pool :
                        /\ loop # {}
                        /\ \A p \in loop : \E q \in loop \ {p} : PrereqEdge(p, q)'
  BY DEF LoopsAreReal
<1>1. type' = type /\ repo' = repo
  BY DEF Next, VisitPackage, SkipVisited, ProcessReq, Listed, SkipRequired, VisitRequired,
         LeaveRequired, CloseCycle, PackageOrdered, Preordered, Ordered, Finished, vars, caches
<1>2. ListsKept
  BY ListsStay
<1>3. nloops' = nloops \/ \E e \in Edge : CloseCycle(e) /\ IsLoop(e)
  <2>1. CASE Preordered
    BY <2>1 DEF Preordered
  <2>2. ASSUME NEW e \in Edge, CloseCycle(e)
        PROVE  nloops' = nloops \/ (CloseCycle(e) /\ IsLoop(e))
    BY <2>2 DEF CloseCycle
  <2>3. CASE \/ VisitPackage \/ SkipVisited \/ ProcessReq \/ Listed
             \/ PackageOrdered \/ Ordered \/ UNCHANGED vars
    BY <2>3 DEF VisitPackage, SkipVisited, ProcessReq, Listed, PackageOrdered, Ordered, vars
  <2>4. ASSUME NEW e \in Edge, SkipRequired(e) \/ VisitRequired(e) \/ LeaveRequired(e)
        PROVE  nloops' = nloops
    BY <2>4 DEF SkipRequired, VisitRequired, LeaveRequired
  <2> QED
    BY <2>1, <2>2, <2>3, <2>4 DEF Next, Finished
<1>4. PICK loop \in SUBSET repo.pool :
          loop # {} /\ \A p \in loop : \E q \in loop \ {p} : PrereqEdge(p, q)
  BY <1>3, CycleIsLoop DEF LoopsAreReal
<1>5. repo.pool \subseteq Pkg
  BY DEF ColorInv, PoolIsColored
<1>6. \A p \in loop : \E q \in loop \ {p} : PrereqEdge(p, q)'
  BY <1>1, <1>2, <1>4, <1>5, EdgeKept
<1> QED
  BY <1>1, <1>4, <1>6

(* When a loop is reported, there are packages in the pool each of which   *)
(* has another one of them as a prerequisite: pkgmark_verify_package_order *)
(* never fails for a cycle that is cut elsewhere.                          *)
THEOREM LoopsAreLoops == Spec => []LoopsAreReal
<1>1. Init => LoopsAreReal
  BY DEF Init, LoopsAreReal
<1> QED
  BY TypeInit, TypeStep, ColorInit, ColorStep, LinkInit, LinkStep, LoopStep, <1>1, PTL DEF Spec
=============================================================================
