----------------------------- MODULE PndirProofs -----------------------------
(***************************************************************************)
(* What the cached files of a pndir directory are worth: the index of      *)
(* packages that PndirUpdate fetches and patches, for every set of         *)
(* packages and every number of versions, and the index of directories     *)
(* beside it (DirIndex), for every number of processes and publications.   *)
(***************************************************************************)
EXTENDS PndirUpdate, DirIndex, SequenceTheorems, FiniteSetTheorems, WellFoundedInduction, TLAPS

-----------------------------------------------------------------------------
(* The end of a sequence holds elements of the sequence.                   *)
LEMMA Suffix ==
    ASSUME NEW S, NEW s \in Seq(S), NEW i \in 1..(Len(s) + 1)
    PROVE  /\ SubSeq(s, i, Len(s)) \in Seq(S)
           /\ \A k \in DOMAIN SubSeq(s, i, Len(s)) :
                 \E j \in DOMAIN s : SubSeq(s, i, Len(s))[k] = s[j]
<1>1. Len(s) \in Nat /\ DOMAIN s = 1..Len(s) /\ \A j \in 1..Len(s) : s[j] \in S
  BY LenProperties, ElementOfSeq
<1>2. SubSeq(s, i, Len(s)) = [k \in 1..(Len(s) - i + 1) |-> s[i + k - 1]]
  BY <1>1
<1>3. /\ Len(s) - i + 1 \in Nat
      /\ \A k \in 1..(Len(s) - i + 1) : i + k - 1 \in 1..Len(s)
  BY <1>1
<1>4. DOMAIN SubSeq(s, i, Len(s)) = 1..(Len(s) - i + 1)
  BY <1>2
<1>5. \A k \in 1..(Len(s) - i + 1) : SubSeq(s, i, Len(s))[k] = s[i + k - 1]
  BY <1>2
<1>6. SubSeq(s, i, Len(s)) \in Seq(S)
  BY <1>1, <1>2, <1>3, SeqDef
<1> QED
  BY <1>1, <1>3, <1>4, <1>5, <1>6

(* The toc with a line more, less the oldest.                              *)
LEMMA Vacuumed ==
    ASSUME NEW S, NEW s \in Seq(S), NEW x \in S,
           NEW i \in 1..Len(Append(s, x))
    PROVE  LET t == SubSeq(Append(s, x), i, Len(Append(s, x)))
           IN  /\ t \in Seq(S)
               /\ \A k \in DOMAIN t : t[k] = x \/ \E j \in DOMAIN s : t[k] = s[j]
<1> DEFINE all == Append(s, x)
<1>1. /\ all \in Seq(S) /\ Len(all) = Len(s) + 1 /\ Len(s) \in Nat
      /\ DOMAIN s = 1..Len(s) /\ DOMAIN all = 1..(Len(s) + 1)
      /\ \A j \in 1..Len(s) : all[j] = s[j]
      /\ all[Len(s) + 1] = x
  BY AppendProperties, LenProperties
<1>2. i \in 1..(Len(all) + 1)
  BY <1>1
<1>3. \A j \in DOMAIN all : all[j] = x \/ \E l \in DOMAIN s : all[j] = s[l]
  <2> TAKE j \in DOMAIN all
  <2>1. j \in 1..Len(s) \/ j = Len(s) + 1
    BY <1>1
  <2> QED
    BY <2>1, <1>1
<1> HIDE DEF all
<1>4. /\ SubSeq(all, i, Len(all)) \in Seq(S)
      /\ \A k \in DOMAIN SubSeq(all, i, Len(all)) :
            \E j \in DOMAIN all : SubSeq(all, i, Len(all))[k] = all[j]
  BY <1>1, <1>2, Suffix
<1>5. \A k \in DOMAIN SubSeq(all, i, Len(all)) :
          \/ SubSeq(all, i, Len(all))[k] = x
          \/ \E j \in DOMAIN s : SubSeq(all, i, Len(all))[k] = s[j]
  BY <1>3, <1>4
<1> QED
  BY <1>4, <1>5 DEF all

-----------------------------------------------------------------------------
(* What the client's variables hold at each point of a command.            *)
Opening == pc \in {"digest", "index"}

Steps ==
    /\ pc \in {"index", "compare", "compare_a", "toc", "patch", "save"} =>
          dg \in Contents /\ md = dg
    /\ pc \in {"compare", "toc", "patch", "save", "write", "write_digest"} =>
          held \in Loaded
    /\ pc \in {"toc", "patch", "save", "write", "write_digest"} =>
          remote \in Contents
    /\ pc \in {"save", "write", "write_digest"} => held.pkgs = remote
    /\ pc \in {"compare", "compare_a", "toc", "patch", "save", "write_digest", "updated"} =>
          idx \in Version
    /\ pc = "write_digest" => idx = held
    /\ Opening /\ opening.for = "stub" => idx \in Version /\ ~opening.refresh
    /\ Opening /\ opening.for \in {"whole", "instead"} => opening.refresh
    /\ Opening /\ opening.for = "load" => command = "load"

(* A mkidx that is about to write a patch knows what it is a patch of.      *)
Diffs == mkidx.stage = "diff" => mkidx.orig # None

TInv == TypeOK /\ Steps /\ Diffs

(* No index and no digest is mistaken for a missing or a broken one.       *)
LEMMA NoFile ==
    /\ None # Broken
    /\ \A v \in Version : v \in Loaded /\ v # None /\ v # Broken
    /\ \A f \in Loaded : f # None /\ f # Broken
    /\ \A c \in Contents : c # None /\ c # Broken
BY PndirAssumption DEF Version, Loaded, Contents

(* The state poldek and the repository begin with.                         *)
LEMMA TInit == Init => TInv
<1> SUFFICES ASSUME Init PROVE TInv
  OBVIOUS
<1>1. PICK pkgs \in Contents : /\ index = [pkgs |-> pkgs, ts |-> 1]
                               /\ digest = [pkgs |-> pkgs, brandnew |-> TRUE]
  BY DEF Init
<1>2. 1 \in Stamp
  BY PndirAssumption DEF Stamp
<1>3. <<>> \in Seq(Patch)
  BY EmptySeq
<1>4. TypeOK
  <2>1. index \in Version /\ digest \in [pkgs : Contents, brandnew : BOOLEAN]
    BY <1>1, <1>2 DEF Version
  <2>2. opening \in [for : {"load", "up", "upa", "whole", "instead", "stub"},
                     refresh : BOOLEAN]
    BY DEF Init, NotOpening
  <2> QED
    BY <1>3, <2>1, <2>2 DEF Init, TypeOK
<1>5. Steps
  BY DEF Init, Steps, Opening
<1> QED
  BY <1>4, <1>5 DEF TInv, Diffs, Init, NoMkidx

(* What a step of the repository keeps.                                    *)
LEMMA TRepository == TInv /\ Repository => TInv'
<1> SUFFICES ASSUME TInv, Repository PROVE TInv'
  OBVIOUS
<1>1. UNCHANGED <<md, idx, command, pc, opening, held, dg, remote, patches,
                  applied, dups, coherent>>
  BY DEF Repository, StartMkidx, WriteIndex, WriteDigest, WriteDiff, MkidxDies,
         cache, run, patching
<1>2. Steps'
  BY <1>1 DEF TInv, Steps, Opening
<1>3. /\ index' \in {None, Broken} \union Version
      /\ digest' \in [pkgs : Contents, brandnew : BOOLEAN]
      /\ mkidx' \in {NoMkidx} \union
            [stage : {"index", "digest", "diff"}, pkgs : Contents, ts : Stamp,
             orig : {None} \union Version]
      /\ published' \subseteq Version
  <2>1. CASE StartMkidx
    BY <2>1 DEF TInv, TypeOK, StartMkidx
  <2>2. CASE WriteIndex
    BY <2>2 DEF TInv, TypeOK, WriteIndex, Version, NoMkidx
  <2>3. CASE WriteDigest
    <3>1. HasDiff \in BOOLEAN
      BY DEF HasDiff
    <3> QED
      BY <2>3, <3>1 DEF TInv, TypeOK, WriteDigest, NoMkidx
  <2>4. CASE WriteDiff \/ MkidxDies
    BY <2>4 DEF TInv, TypeOK, WriteDiff, MkidxDies
  <2> QED
    BY <2>1, <2>2, <2>3, <2>4 DEF Repository
<1>4. toc' \in Seq(Patch)
  <2>1. CASE WriteDiff
    <3>1. Diff \in Patch
      <4>1. /\ mkidx.ts \in Stamp /\ mkidx.pkgs \in Contents
            /\ mkidx.orig \in Version
        BY <2>1 DEF WriteDiff, TInv, TypeOK, Diffs, NoMkidx
      <4> QED
        BY <4>1 DEF Diff, Patch, Version, Contents
    <3>2. PICK first \in 1..Len(Append(toc, Diff)) :
             toc' = SubSeq(Append(toc, Diff), first, Len(Append(toc, Diff)))
      BY <2>1 DEF WriteDiff
    <3> QED
      BY <3>1, <3>2, Vacuumed DEF TInv, TypeOK
  <2>2. CASE ~WriteDiff
    BY <2>2 DEF Repository, StartMkidx, WriteIndex, WriteDigest, MkidxDies, TInv, TypeOK
  <2> QED
    BY <2>1, <2>2
<1>5. Shown' \subseteq Contents
  BY <1>3 DEF Shown, Version
<1>6. seen' \subseteq Contents
  BY <1>5 DEF Repository, StartMkidx, WriteIndex, WriteDigest, WriteDiff, MkidxDies,
              See, TInv, TypeOK
<1>7. TypeOK'
  BY <1>1, <1>3, <1>4, <1>6 DEF TInv, TypeOK
<1>8. Diffs'
  BY DEF Repository, StartMkidx, WriteIndex, WriteDigest, WriteDiff, MkidxDies,
         TInv, TypeOK, Diffs, HasDiff, NoMkidx
<1> QED
  BY <1>2, <1>7, <1>8 DEF TInv

(* What the client leaves of the repository is in order.                   *)
LEMMA TKept ==
    ASSUME TInv, UNCHANGED repository
    PROVE  /\ index' \in {None, Broken} \union Version
           /\ digest' \in [pkgs : Contents, brandnew : BOOLEAN]
           /\ toc' \in Seq(Patch)
           /\ mkidx' \in {NoMkidx} \union
                 [stage : {"index", "digest", "diff"}, pkgs : Contents, ts : Stamp,
                  orig : {None} \union Version]
           /\ published' \subseteq Version
           /\ Diffs'
BY DEF TInv, TypeOK, Diffs, repository

(* Every way a command ends.                                               *)
LEMMA TEnd ==
    ASSUME TInv, End, UNCHANGED repository,
           md' \in {None, Broken} \union Contents,
           idx' \in {None, Broken} \union Version
    PROVE  TInv'
<1>1. opening' \in [for : {"load", "up", "upa", "whole", "instead", "stub"},
                    refresh : BOOLEAN]
  BY DEF End, NotOpening
<1>2. patches' \in Seq(Patch)
  BY EmptySeq DEF End
<1>3. TypeOK'
  BY <1>1, <1>2, TKept DEF TInv, TypeOK, End
<1>4. Steps'
  BY DEF End, Steps, Opening
<1> QED
  BY <1>3, <1>4, TKept DEF TInv

(* Every way an index comes to be opened.                                  *)
LEMMA TOpen ==
    ASSUME TInv, NEW for \in {"load", "up", "upa", "whole", "instead", "stub"},
           NEW refresh \in BOOLEAN, Open(for, refresh),
           UNCHANGED <<repository, patching>>,
           md' \in {None, Broken} \union Contents,
           idx' \in {None, Broken} \union Version,
           held' = held, dg' = dg,
           seen' \subseteq Contents, coherent' \in BOOLEAN,
           command' \in {"load", "up", "upa"},
           for = "stub" => idx' \in Version /\ ~refresh,
           for \in {"whole", "instead"} => refresh,
           for = "load" => command' = "load"
    PROVE  TInv'
<1>1. /\ pc' = "digest" /\ opening' = [for |-> for, refresh |-> refresh]
      /\ opening'.for = for /\ opening'.refresh = refresh
  BY DEF Open
<1>2. TypeOK'
  BY <1>1, TKept DEF TInv, TypeOK, patching
<1>3. Steps'
  BY <1>1 DEF Steps, Opening
<1> QED
  BY <1>2, <1>3, TKept DEF TInv

(* A command that starts.                                                  *)
LEMMA TStart == TInv /\ Start => TInv'
<1> SUFFICES ASSUME TInv, Start PROVE TInv'
  OBVIOUS
<1>1. Shown \subseteq Contents
  BY DEF Shown, TInv, TypeOK, Version
<1>2. command' \in {"load", "up", "upa"} /\ Open(command', FALSE)
  BY DEF Start
<1> QED
  BY <1>1, <1>2, TOpen DEF Start, TInv, TypeOK, cache

(* A pkgdir that could not be opened.                                      *)
LEMMA TOpenFails ==
    ASSUME TInv, Opening, OpenFails, UNCHANGED repository,
           md' \in {None, Broken} \union Contents,
           idx' \in {None, Broken} \union Version,
           opening.for = "stub" => idx' \in Version
    PROVE  TInv'
<1>1. CASE End
  BY <1>1, TEnd
<1>2. CASE /\ opening.for = "upa"
           /\ Open("whole", TRUE)
           /\ UNCHANGED <<command, held, dg, patching, history>>
  BY <1>2, TOpen DEF TInv, TypeOK, history
<1>3. CASE /\ opening.for = "stub"
           /\ pc' = "updated"
           /\ UNCHANGED <<command, opening, held, dg, patching, history>>
  <2>1. TypeOK'
    BY <1>3, TKept DEF TInv, TypeOK, patching, history
  <2>2. Steps'
    BY <1>3 DEF Steps, Opening
  <2> QED
    BY <2>1, <2>2, TKept DEF TInv
<1> QED
  BY <1>1, <1>2, <1>3 DEF OpenFails

(* The digest, cached or fetched.                                          *)
LEMMA TOpenDigest == TInv /\ OpenDigest => TInv'
<1> SUFFICES ASSUME TInv, OpenDigest PROVE TInv'
  OBVIOUS
<1>1. Opening /\ UNCHANGED repository /\ idx' = idx
  BY DEF OpenDigest, Opening
<1>2. md' \in {None, Broken} \union Contents
  BY DEF OpenDigest, TInv, TypeOK
<1>3. opening.for = "stub" => idx' \in Version
  BY <1>1 DEF TInv, Steps
<1>4. CASE md' \in {None, Broken}
  BY <1>1, <1>2, <1>3, <1>4, TOpenFails DEF OpenDigest, TInv, TypeOK
<1>5. CASE md' \notin {None, Broken}
  <2>1. /\ pc' = "index" /\ dg' = md' /\ dg' \in Contents
        /\ UNCHANGED <<command, opening, held, patching, history>>
    BY <1>2, <1>5 DEF OpenDigest
  <2>2. TypeOK'
    BY <1>1, <1>2, <2>1, TKept DEF TInv, TypeOK, patching, history
  <2>3. Steps'
    BY <1>1, <2>1 DEF TInv, Steps, Opening
  <2> QED
    BY <2>2, <2>3, <1>1, TKept DEF TInv
<1> QED
  BY <1>4, <1>5

(* The index, cached or fetched, and what follows for each caller.         *)
LEMMA TOpenIndex == TInv /\ OpenIndex => TInv'
<1> SUFFICES ASSUME TInv, OpenIndex PROVE TInv'
  OBVIOUS
<1>1. Opening /\ UNCHANGED repository /\ md' = md /\ pc = "index"
      /\ dg \in Contents /\ md = dg
  BY DEF OpenIndex, Opening, TInv, Steps
<1>2. idx' \in {None, Broken} \union Version
  BY DEF OpenIndex, TInv, TypeOK
<1>3. md' \in {None, Broken} \union Contents
  BY <1>1 DEF TInv, TypeOK
<1>4. opening.for = "stub" => IndexCached /\ idx \in Version /\ idx' \in Version
  BY <1>1, NoFile DEF TInv, Steps, IndexCached, OpenIndex
<1>5. CASE OpenFails
  BY <1>1, <1>2, <1>3, <1>4, <1>5, TOpenFails
<1>6. CASE Verified(idx') /\ Opened
  <2>1. idx' \in Version /\ idx' \in Loaded
    BY <1>6, NoFile DEF Verified
  <2>2. CASE /\ opening.for = "whole" \/ (opening.for = "upa" /\ ~IndexCached)
             /\ Open("stub", FALSE)
             /\ UNCHANGED <<command, held, dg, patching, history>>
    BY <2>2, <2>1, <1>1, <1>2, <1>3, TOpen DEF TInv, TypeOK, history
  <2>3. CASE ~ (opening.for = "whole" \/ (opening.for = "upa" /\ ~IndexCached))
    <3>1. /\ pc' \in {"compare", "compare_a", "updated"}
          /\ held' \in {held, idx'}
          /\ pc' = "compare" => held' \in Loaded
          /\ UNCHANGED <<command, opening, dg, patching, history>>
      BY <1>6, <2>1, <2>3 DEF Opened
    <3>2. TypeOK'
      BY <1>1, <1>2, <1>3, <2>1, <3>1, TKept DEF TInv, TypeOK, patching, history
    <3>3. Steps'
      BY <1>1, <2>1, <3>1 DEF Steps, Opening
    <3> QED
      BY <1>1, <3>2, <3>3, TKept DEF TInv
  <2> QED
    BY <1>6, <2>2, <2>3 DEF Opened
<1>7. CASE /\ idx' = Broken /\ IndexCached
           /\ Reopen
           /\ UNCHANGED <<command, held, dg, patching, history>>
  <2>1. opening.for # "stub"
    BY <1>4, <1>7, NoFile
  <2>2. /\ opening.for \in {"load", "up", "upa", "whole", "instead"}
        /\ opening.for = "load" => command' = "load"
    BY <1>1, <1>7, <2>1 DEF TInv, TypeOK, Steps
  <2> QED
    BY <1>1, <1>2, <1>3, <1>7, <2>1, <2>2, TOpen DEF Reopen, TInv, TypeOK, history
<1> QED
  BY <1>5, <1>6, <1>7 DEF OpenIndex

(* The end of a command in which nothing is fetched or written.            *)
LEMMA TFail == TInv /\ Fail => TInv'
BY TEnd DEF Fail, cache, TInv, TypeOK

(* The same, or on with the whole index.                                   *)
LEMMA TDesynchronized == TInv /\ Desynchronized => TInv'
<1> SUFFICES ASSUME TInv, Desynchronized PROVE TInv'
  OBVIOUS
<1>1. CASE Fail
  BY <1>1, TFail
<1>2. CASE /\ Open("upa", FALSE)
           /\ UNCHANGED <<repository, cache, command, held, dg, patching, history>>
  BY <1>2, TOpen DEF cache, history, TInv, TypeOK
<1> QED
  BY <1>1, <1>2 DEF Desynchronized

(* A step that changes no more than where the command is and what it works *)
(* on.                                                                     *)
LEMMA TWork ==
    ASSUME TInv, UNCHANGED <<repository, cache, command, opening, dg, history>>,
           held' \in {None} \union Loaded,
           remote' \in {None} \union Contents,
           patches' \in Seq(Patch), applied' \in BOOLEAN, dups' \subseteq Pkg,
           pc' \in {"compare", "toc", "patch", "save", "updated"},
           Steps'
    PROVE  TInv'
BY TKept DEF TInv, TypeOK, cache, history

(* is_uptodate() for --up.                                                 *)
LEMMA TCompare == TInv /\ Compare => TInv'
<1> SUFFICES ASSUME TInv, Compare PROVE TInv'
  OBVIOUS
<1>0. /\ pc = "compare" /\ dg \in Contents /\ md = dg /\ held \in Loaded
      /\ idx \in Version
  BY DEF Compare, TInv, Steps
<1>1. CASE Fail
  BY <1>1, TFail
<1>2. CASE /\ digest.pkgs = dg
           /\ pc' = "updated"
           /\ UNCHANGED <<repository, cache, command, opening, held, dg, patching, history>>
  <2>1. Steps'
    BY <1>0, <1>2 DEF Steps, Opening, cache
  <2> QED
    BY <1>2, <2>1, TWork DEF patching, TInv, TypeOK
<1>3. CASE Desynchronized
  BY <1>3, TDesynchronized
<1>4. CASE /\ digest.pkgs # dg /\ ~digest.brandnew
           /\ remote' = digest.pkgs
           /\ pc' = "toc"
           /\ UNCHANGED <<repository, cache, command, opening, held, dg,
                          patches, applied, dups, history>>
  <2>1. remote' \in Contents
    BY <1>4 DEF TInv, TypeOK
  <2>2. Steps'
    BY <1>0, <1>4, <2>1 DEF Steps, Opening, cache
  <2> QED
    BY <1>4, <2>1, <2>2, TWork DEF TInv, TypeOK
<1> QED
  BY <1>1, <1>2, <1>3, <1>4 DEF Compare

(* is_uptodate() for --upa.                                                *)
LEMMA TCompareA == TInv /\ CompareA => TInv'
<1> SUFFICES ASSUME TInv, CompareA PROVE TInv'
  OBVIOUS
<1>1. idx \in Version /\ UNCHANGED <<repository, cache, command, held, dg, patching, history>>
  BY DEF CompareA, TInv, Steps
<1>2. Open("stub", FALSE) \/ Open("whole", TRUE)
  BY DEF CompareA
<1> QED
  BY <1>1, <1>2, TOpen DEF cache, history, TInv, TypeOK

(* The toc, or the whole index in place of large patches.                  *)
LEMMA TFetchToc == TInv /\ FetchToc => TInv'
<1> SUFFICES ASSUME TInv, FetchToc PROVE TInv'
  OBVIOUS
<1>1. CASE Fail
  BY <1>1, TFail
<1>2. CASE /\ toc # <<>>
           /\ patches' = toc
           /\ pc' = "patch"
           /\ UNCHANGED <<repository, cache, command, opening, held, dg,
                          remote, applied, dups, history>>
  <2>1. Steps'
    BY <1>2 DEF FetchToc, TInv, Steps, Opening, cache
  <2> QED
    BY <1>2, <2>1, TWork DEF TInv, TypeOK
<1>3. CASE /\ Open("instead", TRUE)
           /\ UNCHANGED <<repository, cache, command, held, dg, patching, history>>
  BY <1>3, TOpen DEF cache, history, TInv, TypeOK
<1> QED
  BY <1>1, <1>2, <1>3 DEF FetchToc

(* A patch leaves an index in memory.                                      *)
LEMMA Patched ==
    ASSUME TInv, pc = "patch", NEW i \in NextPatches
    PROVE  /\ patches[i] \in Patch /\ i \in 1..Len(patches) /\ Len(patches) \in Nat
           /\ held \in Loaded
           /\ [held EXCEPT !.pkgs = (held.pkgs \ patches[i].minus) \union patches[i].plus,
                           !.ts = patches[i].ts] \in Loaded
           /\ SubSeq(patches, i + 1, Len(patches)) \in Seq(Patch)
<1>1. patches \in Seq(Patch) /\ i \in DOMAIN patches /\ held \in Loaded
  BY DEF TInv, TypeOK, Steps, NextPatches
<1>2. patches[i] \in Patch /\ i \in 1..Len(patches) /\ Len(patches) \in Nat
  BY <1>1, LenProperties, ElementOfSeq
<1>3. i + 1 \in 1..(Len(patches) + 1)
  BY <1>2
<1> QED
  BY <1>1, <1>2, <1>3, Suffix DEF Loaded, Patch

(* pkgdir_patch().                                                         *)
LEMMA TApplyPatch == TInv /\ ApplyPatch => TInv'
<1> SUFFICES ASSUME TInv, ApplyPatch PROVE TInv'
  OBVIOUS
<1>0. pc = "patch" /\ applied' = TRUE
      /\ UNCHANGED <<repository, cache, command, pc, opening, dg, remote, history>>
  BY DEF ApplyPatch
<1>1. PICK i \in NextPatches :
         /\ held' = [held EXCEPT !.pkgs = (held.pkgs \ patches[i].minus) \union patches[i].plus,
                                 !.ts = patches[i].ts]
         /\ dups' = (dups \ patches[i].minus)
                       \union ((held.pkgs \ patches[i].minus) \cap patches[i].plus)
         /\ patches' = SubSeq(patches, i + 1, Len(patches))
  BY DEF ApplyPatch
<1>2. held' \in Loaded /\ patches' \in Seq(Patch) /\ dups' \subseteq Pkg
  BY <1>0, <1>1, Patched DEF TInv, TypeOK, Loaded
<1>3. Steps'
  BY <1>0, <1>2 DEF TInv, Steps, Opening, cache
<1> QED
  BY <1>0, <1>2, <1>3, TWork DEF TInv, TypeOK

(* A patch that is missing, or no more patches.                            *)
LEMMA TPatchesEnd == TInv /\ (PatchMissing \/ PatchesApplied) => TInv'
<1> SUFFICES ASSUME TInv, PatchMissing \/ PatchesApplied PROVE TInv'
  OBVIOUS
<1>1. CASE Fail \/ Desynchronized
  BY <1>1, TFail, TDesynchronized
<1>2. CASE /\ pc = "patch" /\ SameDigest
           /\ pc' = "save"
           /\ UNCHANGED <<repository, cache, command, opening, held, dg, patching, history>>
  <2>1. Steps'
    BY <1>2 DEF TInv, Steps, Opening, SameDigest, cache, patching
  <2> QED
    BY <1>2, <2>1, TWork DEF patching, TInv, TypeOK
<1> QED
  BY <1>1, <1>2 DEF PatchMissing, PatchesApplied

(* Writing what has been patched.                                          *)
LEMMA TSave == TInv /\ (RemoveIndex \/ SaveIndex \/ SaveDigest) => TInv'
<1> SUFFICES ASSUME TInv, RemoveIndex \/ SaveIndex \/ SaveDigest PROVE TInv'
  OBVIOUS
<1>0. /\ held \in Loaded /\ remote \in Contents /\ held.pkgs = remote
      /\ held \in Version
      /\ UNCHANGED repository
  BY DEF RemoveIndex, SaveIndex, SaveDigest, TInv, Steps, Version, Loaded
<1>1. /\ md' \in {None, Broken} \union Contents
      /\ idx' \in {None, Broken} \union Version
  BY <1>0 DEF RemoveIndex, SaveIndex, SaveDigest, TInv, TypeOK
<1>2. CASE End
  BY <1>0, <1>1, <1>2, TEnd
<1>3. CASE UNCHANGED <<command, opening, held, dg, patching, history>>
  <2>1. pc' \in {"write", "write_digest", "updated", "idle"}
    BY DEF RemoveIndex, SaveIndex, SaveDigest, End
  <2>2. TypeOK'
    BY <1>0, <1>1, <1>3, <2>1, TKept DEF TInv, TypeOK, patching, history
  <2>3. Steps'
    BY <1>0, <1>3 DEF RemoveIndex, SaveIndex, SaveDigest, End, TInv, Steps, Opening, patching
  <2> QED
    BY <1>0, <2>2, <2>3, TKept DEF TInv
<1> QED
  BY <1>2, <1>3 DEF RemoveIndex, SaveIndex, SaveDigest

(* A command that ends or is killed.                                       *)
LEMMA TDie == TInv /\ (Succeed \/ Die) => TInv'
<1> SUFFICES ASSUME TInv, Succeed \/ Die PROVE TInv'
  OBVIOUS
<1>1. /\ End /\ UNCHANGED repository
      /\ md' \in {md, None, Broken} /\ idx' \in {idx, None, Broken}
  BY DEF Succeed, Die, cache
<1> QED
  BY <1>1, TEnd DEF TInv, TypeOK

(* Nothing happens.                                                        *)
LEMMA TStutter == TInv /\ UNCHANGED vars => TInv'
BY DEF TInv, TypeOK, Steps, Diffs, Opening, vars, repository, cache, run, patching, history

(* Every step keeps the types and what is known at each point.             *)
LEMMA TNext == TInv /\ [Next]_vars => TInv'
BY TRepository, TStart, TOpenDigest, TOpenIndex, TCompare, TCompareA, TFetchToc,
   TApplyPatch, TPatchesEnd, TSave, TDie, TStutter DEF Next, Step

(* The variables keep their types: in particular the cached index is never *)
(* one in the middle of being patched.                                     *)
THEOREM TypeCorrect == Spec => []TypeOK
<1>1. TInv => TypeOK
  BY DEF TInv
<1> QED
  BY TInit, TNext, <1>1, PTL DEF Spec

-----------------------------------------------------------------------------
(* The versions that have been published, and what is known of the lines   *)
(* of a toc: each leads to a published version, and leaves none out.       *)
Known(pkgs) == \E v \in published : v.pkgs = pkgs
Stamped(ts) == \E v \in published : v.ts = ts
Latest(ts) == \A v \in published : v.ts <= ts
Adjacent(older, newer) == \A v \in published : ~ (older < v.ts /\ v.ts < newer)
Steady(lines) ==
    \A i \in DOMAIN lines :
        Stamped(lines[i].ts) /\ Adjacent(lines[i].orig_ts, lines[i].ts)

(* The repository's files, whatever mkidx is about.                        *)
Publishing ==
    /\ index \in Version => index \in published /\ Latest(index.ts)
    /\ Known(digest.pkgs)
    /\ mkidx.stage = "index" =>
          /\ \A v \in published : v.ts < mkidx.ts
          /\ mkidx.orig # None => Latest(mkidx.orig.ts)
    /\ mkidx.stage \in {"digest", "diff"} =>
          /\ [pkgs |-> mkidx.pkgs, ts |-> mkidx.ts] \in published
          /\ mkidx.orig # None => Adjacent(mkidx.orig.ts, mkidx.ts)

(* What the client holds.                                                  *)
Authentic ==
    /\ held # None => Stamped(held.ts)
    /\ pc \in {"toc", "patch", "save", "write", "write_digest"} => Known(remote)
    /\ idx \in Version => Known(idx.pkgs) /\ Stamped(idx.ts)

AInv == Publishing /\ Steady(toc) /\ Steady(patches) /\ Authentic

(* Time stamps are numbers.                                                *)
LEMMA Numbers ==
    /\ Stamp \subseteq Int
    /\ TInv => \A v \in published : v.ts \in Stamp
    /\ TInv => \A i \in DOMAIN toc : toc[i].ts \in Stamp /\ toc[i].orig_ts \in Stamp
    /\ TInv => \A i \in DOMAIN patches :
                   patches[i].ts \in Stamp /\ patches[i].orig_ts \in Stamp
    /\ TInv /\ mkidx.stage \in {"index", "digest", "diff"} =>
          /\ mkidx.ts \in Stamp /\ mkidx.pkgs \in Contents
          /\ mkidx.orig = None \/ mkidx.orig \in Version
    /\ TInv /\ held # None => held.ts \in Stamp
<1>1. \A lines \in Seq(Patch) : \A i \in DOMAIN lines :
         lines[i].ts \in Stamp /\ lines[i].orig_ts \in Stamp
  <2> TAKE lines \in Seq(Patch)
  <2> TAKE i \in DOMAIN lines
  <2>1. lines[i] \in Patch
    BY ElementOfSeq, LenProperties
  <2> QED
    BY <2>1 DEF Patch
<1>2. Stamp \subseteq Int
  BY PndirAssumption DEF Stamp
<1>3. TInv => \A v \in published : v.ts \in Stamp
  BY DEF TInv, TypeOK, Version
<1>4. TInv /\ mkidx.stage \in {"index", "digest", "diff"} =>
         /\ mkidx.ts \in Stamp /\ mkidx.pkgs \in Contents
         /\ mkidx.orig = None \/ mkidx.orig \in Version
  BY DEF TInv, TypeOK, NoMkidx
<1>5. TInv /\ held # None => held.ts \in Stamp
  BY DEF TInv, TypeOK, Loaded
<1>6. TInv => toc \in Seq(Patch) /\ patches \in Seq(Patch)
  BY DEF TInv, TypeOK
<1> QED
  BY <1>1, <1>2, <1>3, <1>4, <1>5, <1>6

(* Init publishes what it shows.                                           *)
LEMMA AInit == Init => AInv
<1> SUFFICES ASSUME Init PROVE AInv
  OBVIOUS
<1>1. PICK pkgs \in Contents : /\ index = [pkgs |-> pkgs, ts |-> 1]
                               /\ digest = [pkgs |-> pkgs, brandnew |-> TRUE]
  BY DEF Init
<1>2. published = {index} /\ mkidx.stage = "idle" /\ toc = <<>> /\ patches = <<>>
      /\ held = None /\ idx = None /\ pc = "idle"
  BY DEF Init, NoMkidx
<1>3. Publishing
  BY <1>1, <1>2 DEF Publishing, Known, Latest
<1>4. Steady(toc) /\ Steady(patches)
  BY <1>2 DEF Steady
<1>5. Authentic
  BY <1>2, NoFile DEF Authentic
<1> QED
  BY <1>3, <1>4, <1>5 DEF AInv

(* Publishing one more version, later than all others, leaves the lines in *)
(* order.                                                                  *)
LEMMA MoreVersions ==
    ASSUME TInv, NEW v, published' = published \union {v},
           v.ts \in Stamp, \A w \in published : w.ts < v.ts,
           NEW lines, Steady(lines),
           \A i \in DOMAIN lines : lines[i].ts \in Stamp /\ lines[i].orig_ts \in Stamp
    PROVE  \A i \in DOMAIN lines :
              /\ \E w \in published' : w.ts = lines[i].ts
              /\ \A w \in published' : ~ (lines[i].orig_ts < w.ts /\ w.ts < lines[i].ts)
<1> TAKE i \in DOMAIN lines
<1>1. PICK u \in published : u.ts = lines[i].ts
  BY DEF Steady, Stamped
<1>2. lines[i].ts < v.ts
  BY <1>1
<1>3. ~ (lines[i].orig_ts < v.ts /\ v.ts < lines[i].ts)
  <2>1. v.ts \in Int /\ lines[i].ts \in Int
    BY Numbers
  <2> QED
    BY <1>2, <2>1
<1>4. \A w \in published : ~ (lines[i].orig_ts < w.ts /\ w.ts < lines[i].ts)
  BY DEF Steady, Adjacent
<1> QED
  BY <1>1, <1>3, <1>4

(* A step of the repository.                                               *)
LEMMA ARepository == TInv /\ AInv /\ Repository => AInv'
<1> SUFFICES ASSUME TInv, AInv, Repository PROVE AInv'
  OBVIOUS
<1>0. UNCHANGED <<idx, pc, held, remote, patches>>
  BY DEF Repository, StartMkidx, WriteIndex, WriteDigest, WriteDiff, MkidxDies,
         cache, run, patching
<1>1. CASE WriteIndex
  <2> DEFINE v == [pkgs |-> mkidx.pkgs, ts |-> mkidx.ts]
  <2>1. /\ published' = published \union {v} /\ index' = v
        /\ v.ts = mkidx.ts /\ v.ts \in Stamp
        /\ \A w \in published : w.ts < v.ts
        /\ toc' = toc /\ digest' = digest
        /\ mkidx'.stage = "digest" /\ mkidx'.pkgs = mkidx.pkgs
        /\ mkidx'.ts = mkidx.ts /\ mkidx'.orig = mkidx.orig
        /\ mkidx.orig # None => mkidx.orig \in Version /\ Latest(mkidx.orig.ts)
    <3>1. mkidx \in [stage : {"index", "digest", "diff"}, pkgs : Contents, ts : Stamp,
                     orig : {None} \union Version]
      BY <1>1 DEF WriteIndex, TInv, TypeOK, NoMkidx
    <3> QED
      BY <1>1, <3>1 DEF WriteIndex, AInv, Publishing
  <2> HIDE DEF v
  <2>2. Steady(toc)'
    BY <2>1, MoreVersions, Numbers DEF AInv, Steady, Stamped, Adjacent
  <2>3. Steady(patches)'
    BY <1>0, <2>1, MoreVersions, Numbers DEF AInv, Steady, Stamped, Adjacent
  <2>4. Authentic'
    BY <1>0, <2>1 DEF AInv, Authentic, Known, Stamped
  <2>5. \A w \in published' : w.ts <= mkidx.ts
    <3>1. mkidx.ts \in Int /\ \A w \in published : w.ts \in Int
      BY <2>1, Numbers
    <3> QED
      BY <2>1, <3>1
  <2>6. mkidx.orig # None =>
           \A w \in published' : ~ (mkidx.orig.ts < w.ts /\ w.ts < mkidx.ts)
    <3> SUFFICES ASSUME mkidx.orig # None, NEW w \in published',
                        mkidx.orig.ts < w.ts, w.ts < mkidx.ts
                 PROVE  FALSE
      OBVIOUS
    <3>0. mkidx.ts \in Int /\ v.ts \in Int
      BY <2>1, Numbers
    <3>1. w \in published
      BY <2>1, <3>0
    <3>2. w.ts <= mkidx.orig.ts /\ mkidx.orig.ts \in Stamp
      BY <2>1, <3>1 DEF Latest, Version
    <3>3. w.ts \in Int /\ mkidx.orig.ts \in Int
      BY <3>1, <3>2, Numbers
    <3> QED
      BY <3>2, <3>3
  <2>7. Publishing'
    <3>1. index' \in published' /\ Latest(index.ts)'
      BY <2>1, <2>5 DEF Latest
    <3>2. Known(digest.pkgs)'
      BY <2>1 DEF AInv, Publishing, Known
    <3>3. [pkgs |-> mkidx'.pkgs, ts |-> mkidx'.ts] \in published'
      BY <2>1 DEF v
    <3>4. mkidx'.orig # None => Adjacent(mkidx.orig.ts, mkidx.ts)'
      BY <2>1, <2>6 DEF Adjacent
    <3> QED
      BY <2>1, <3>1, <3>2, <3>3, <3>4 DEF Publishing
  <2> QED
    BY <2>2, <2>3, <2>4, <2>7 DEF AInv
<1>2. CASE ~WriteIndex
  <2>1. published' = published
    BY <1>2 DEF Repository, StartMkidx, WriteDigest, WriteDiff, MkidxDies
  <2>2. Steady(patches)' /\ Authentic'
    BY <1>0, <2>1 DEF AInv, Steady, Stamped, Adjacent, Authentic, Known
  <2>3. Steady(toc)'
    <3>1. CASE WriteDiff
      <4>1. /\ mkidx.stage = "diff" /\ mkidx.orig # None
            /\ mkidx.ts \in Stamp /\ mkidx.orig \in Version
            /\ [pkgs |-> mkidx.pkgs, ts |-> mkidx.ts] \in published
            /\ Adjacent(mkidx.orig.ts, mkidx.ts)
        BY <3>1, Numbers DEF WriteDiff, TInv, Diffs, AInv, Publishing
      <4>2. /\ Diff \in Patch /\ Diff.ts = mkidx.ts /\ Diff.orig_ts = mkidx.orig.ts
        BY <4>1, Numbers DEF Diff, Patch, Version, Contents
      <4>3. PICK first \in 1..Len(Append(toc, Diff)) :
               toc' = SubSeq(Append(toc, Diff), first, Len(Append(toc, Diff)))
        BY <3>1 DEF WriteDiff
      <4>4. \A k \in DOMAIN toc' : toc'[k] = Diff \/ \E j \in DOMAIN toc : toc'[k] = toc[j]
        BY <4>2, <4>3, Vacuumed DEF TInv, TypeOK
      <4>5. Stamped(Diff.ts) /\ Adjacent(Diff.orig_ts, Diff.ts)
        BY <4>1, <4>2 DEF Stamped
      <4> QED
        BY <2>1, <4>4, <4>5 DEF AInv, Steady, Stamped, Adjacent
    <3>2. CASE ~WriteDiff
      BY <1>2, <2>1, <3>2 DEF Repository, StartMkidx, WriteDigest, MkidxDies,
         AInv, Steady, Stamped, Adjacent
    <3> QED
      BY <3>1, <3>2
  <2>4. Publishing'
    <3>1. CASE StartMkidx
      <4>1. index' = Broken /\ digest' = digest
        BY <3>1 DEF StartMkidx
      <4>2. PICK pkgs \in Contents, ts \in Stamp, orig \in {index, None} :
               /\ \A v \in published : v.ts < ts
               /\ mkidx' = [stage |-> "index", pkgs |-> pkgs, ts |-> ts,
                            orig |-> IF orig = Broken THEN None ELSE orig]
        BY <3>1 DEF StartMkidx
      <4>3. mkidx'.orig # None => mkidx'.orig = index /\ index \in Version
        BY <4>2 DEF TInv, TypeOK
      <4>4. mkidx'.stage = "index" /\ \A v \in published : v.ts < mkidx'.ts
        BY <4>2
      <4> QED
        BY <2>1, <4>1, <4>3, <4>4, NoFile DEF AInv, Publishing, Known, Latest
    <3>2. CASE WriteDigest
      <4>1. mkidx \in [stage : {"index", "digest", "diff"}, pkgs : Contents, ts : Stamp,
                       orig : {None} \union Version]
        BY <3>2 DEF WriteDigest, TInv, TypeOK, NoMkidx
      <4>2. /\ index' = index /\ digest'.pkgs = mkidx.pkgs
            /\ mkidx' = NoMkidx \/ mkidx' = [mkidx EXCEPT !.stage = "diff"]
        BY <3>2 DEF WriteDigest
      <4>3. Known(mkidx.pkgs)
        BY <3>2 DEF WriteDigest, AInv, Publishing, Known
      <4> QED
        BY <2>1, <3>2, <4>1, <4>2, <4>3
        DEF WriteDigest, AInv, Publishing, Known, Latest, Adjacent, NoMkidx
    <3>3. CASE WriteDiff \/ MkidxDies
      BY <2>1, <3>3 DEF WriteDiff, MkidxDies, AInv, Publishing, Known, Latest, Adjacent, NoMkidx
    <3> QED
      BY <1>2, <3>1, <3>2, <3>3 DEF Repository
  <2> QED
    BY <2>2, <2>3, <2>4 DEF AInv
<1> QED
  BY <1>1, <1>2

(* A step of the client that takes what it holds from the repository, or   *)
(* from what it already held.                                              *)
LEMMA AClient ==
    ASSUME AInv, UNCHANGED repository,
           patches' \in {patches, toc, <<>>},
           held' = None \/ Stamped(held'.ts),
           pc' \in {"toc", "patch", "save", "write", "write_digest"} => Known(remote'),
           idx' \in Version => Known(idx'.pkgs) /\ Stamped(idx'.ts)
    PROVE  AInv'
<1>1. UNCHANGED <<index, digest, toc, mkidx, published>>
  BY DEF repository
<1>2. Publishing' /\ Steady(toc)'
  BY <1>1 DEF AInv, Publishing, Steady, Known, Stamped, Latest, Adjacent
<1>3. Steady(patches)'
  BY <1>1 DEF AInv, Steady, Stamped, Adjacent
<1>4. Authentic'
  BY <1>1 DEF Authentic, Known, Stamped
<1> QED
  BY <1>2, <1>3, <1>4 DEF AInv

(* Opening an index leaves one that was cached or is the repository's.     *)
LEMMA AOpened ==
    ASSUME TInv, AInv, OpenDigest \/ OpenIndex
    PROVE  AInv'
<1>1. /\ UNCHANGED repository
      /\ pc' \notin {"toc", "patch", "save", "write", "write_digest"}
      /\ patches' \in {patches, <<>>}
  BY DEF OpenDigest, OpenIndex, OpenFails, Opened, Reopen, Open, End, patching
<1>2. idx' \in {idx, index, None}
  BY DEF OpenDigest, OpenIndex
<1>3. idx' \in Version => Known(idx'.pkgs) /\ Stamped(idx'.ts)
  BY <1>2, NoFile DEF AInv, Publishing, Authentic, Known, Stamped
<1>4. held' \in {held, None} \/ (idx' \in Version /\ held' = idx')
  <2>1. CASE OpenFails
    BY <2>1 DEF OpenFails, End
  <2>2. CASE Verified(idx') /\ Opened
    BY <2>2 DEF Opened, Verified
  <2> QED
    BY <2>1, <2>2 DEF OpenDigest, OpenIndex
<1>5. held' = None \/ Stamped(held'.ts)
  BY <1>3, <1>4 DEF AInv, Authentic
<1> QED
  BY <1>1, <1>3, <1>5, AClient

(* The lines of the toc that are left after one is applied.                *)
LEMMA AApplyPatch ==
    ASSUME TInv, AInv, ApplyPatch
    PROVE  AInv'
<1>0. /\ pc = "patch" /\ UNCHANGED <<repository, cache, pc, remote>>
  BY DEF ApplyPatch
<1>1. PICK i \in NextPatches :
         /\ held' = [held EXCEPT !.pkgs = (held.pkgs \ patches[i].minus) \union patches[i].plus,
                                 !.ts = patches[i].ts]
         /\ patches' = SubSeq(patches, i + 1, Len(patches))
  BY DEF ApplyPatch
<1>2. /\ i \in DOMAIN patches /\ i \in 1..Len(patches) /\ Len(patches) \in Nat
      /\ held \in Loaded /\ patches \in Seq(Patch)
  BY <1>0, Patched DEF NextPatches, TInv, TypeOK
<1>3. held'.ts = patches[i].ts
  BY <1>1, <1>2 DEF Loaded
<1>4. \A k \in DOMAIN patches' : \E j \in DOMAIN patches : patches'[k] = patches[j]
  <2>1. i + 1 \in 1..(Len(patches) + 1)
    BY <1>2
  <2> QED
    BY <1>1, <1>2, <2>1, Suffix
<1>5. UNCHANGED <<index, digest, toc, mkidx, published, idx>>
  BY <1>0 DEF repository, cache
<1>6. Publishing' /\ Steady(toc)'
  BY <1>5 DEF AInv, Publishing, Steady, Known, Stamped, Latest, Adjacent
<1>7. Steady(patches)'
  BY <1>4, <1>5 DEF AInv, Steady, Stamped, Adjacent
<1>8. Stamped(patches[i].ts)
  BY <1>2 DEF AInv, Steady
<1>9. Authentic'
  BY <1>0, <1>3, <1>5, <1>8 DEF AInv, Authentic, Known, Stamped
<1> QED
  BY <1>6, <1>7, <1>9 DEF AInv

(* The other steps of a command.                                           *)
LEMMA AStep ==
    ASSUME TInv, AInv,
           Start \/ Compare \/ CompareA \/ FetchToc \/ PatchMissing \/ PatchesApplied
              \/ RemoveIndex \/ SaveIndex \/ SaveDigest \/ Succeed \/ Die
    PROVE  AInv'
<1>1. /\ UNCHANGED repository
      /\ patches' \in {patches, toc, <<>>}
      /\ held' \in {held, None}
  BY DEF Start, Compare, CompareA, FetchToc, PatchMissing, PatchesApplied, RemoveIndex,
         SaveIndex, SaveDigest, Succeed, Die, Desynchronized, Fail, End, Open, patching
<1>2. held' = None \/ Stamped(held'.ts)
  BY <1>1 DEF AInv, Authentic
<1>3. \/ pc' \notin {"toc", "patch", "save", "write", "write_digest"}
      \/ /\ pc \in {"toc", "patch", "save", "write", "write_digest"}
         /\ remote' = remote
      \/ remote' = digest.pkgs
  BY DEF Start, Compare, CompareA, FetchToc, PatchMissing, PatchesApplied, RemoveIndex,
         SaveIndex, SaveDigest, Succeed, Die, Desynchronized, Fail, End, Open, patching
<1>4. pc' \in {"toc", "patch", "save", "write", "write_digest"} => Known(remote')
  BY <1>3 DEF AInv, Publishing, Authentic
<1>5. idx' \in {idx, None, Broken} \/ (SaveIndex /\ idx' = held)
  BY DEF Start, Compare, CompareA, FetchToc, PatchMissing, PatchesApplied, RemoveIndex,
         SaveIndex, SaveDigest, Succeed, Die, Desynchronized, Fail, cache
<1>6. SaveIndex => held # None /\ Stamped(held.ts) /\ Known(held.pkgs)
  BY NoFile DEF SaveIndex, TInv, Steps, AInv, Authentic
<1>7. idx' \in Version => Known(idx'.pkgs) /\ Stamped(idx'.ts)
  BY <1>5, <1>6, NoFile DEF AInv, Authentic
<1> QED
  BY <1>1, <1>2, <1>4, <1>7, AClient

(* Every step keeps what is published and held authentic.                  *)
LEMMA ANext == TInv /\ AInv /\ [Next]_vars => AInv'
<1> SUFFICES ASSUME TInv, AInv, [Next]_vars PROVE AInv'
  OBVIOUS
<1>1. CASE UNCHANGED vars
  BY <1>1 DEF AInv, Publishing, Steady, Authentic, Known, Stamped, Latest, Adjacent,
              vars, repository, cache, run, patching
<1>2. CASE Next
  BY <1>2, ARepository, AOpened, AApplyPatch, AStep DEF Next, Step
<1> QED
  BY <1>1, <1>2

(* A cached index that can be read has the packages of a published version *)
(* and the time stamp of one, whatever was fetched, patched or left behind *)
(* by a death.                                                             *)
THEOREM CachedIsAuthentic == Spec => []CacheIsAuthentic
<1>1. TInv /\ AInv => CacheIsAuthentic
  BY DEF TInv, TypeOK, AInv, Authentic, CacheIsAuthentic, Known, Stamped
<1> QED
  BY TInit, TNext, AInit, ANext, <1>1, PTL DEF Spec

(* The assertions of pkgdir_patch() hold: a line that is later than the    *)
(* index in memory, whose time stamp is that of a published version, does  *)
(* not begin before it.                                                    *)
THEOREM AssertionsHold == Spec => []NoAssertionFails
<1>1. TInv /\ AInv => NoAssertionFails
  <2> SUFFICES ASSUME TInv, AInv, pc = "patch", NEW i \in NextPatches
               PROVE  patches[i].ts > held.ts /\ patches[i].orig_ts >= held.ts
    BY DEF NoAssertionFails
  <2>1. /\ i \in DOMAIN patches /\ patches[i].ts > held.ts
        /\ held # None /\ Stamped(held.ts)
        /\ Adjacent(patches[i].orig_ts, patches[i].ts)
    BY Patched, NoFile DEF NextPatches, Wanted, AInv, Authentic, Steady
  <2>2. patches[i].ts \in Int /\ patches[i].orig_ts \in Int /\ held.ts \in Int
    BY <2>1, Numbers
  <2>3. ~ (patches[i].orig_ts < held.ts /\ held.ts < patches[i].ts)
    BY <2>1 DEF Stamped, Adjacent
  <2> QED
    BY <2>1, <2>2, <2>3
<1> QED
  BY TInit, TNext, AInit, ANext, <1>1, PTL DEF Spec

-----------------------------------------------------------------------------
(* How an update comes to end with an index of its own time: the digest    *)
(* that is compared is that of the cached index, and what is fetched is    *)
(* what the repository shows.                                              *)
Current ==
    /\ ~Idle => Shown \subseteq seen
    /\ pc \in {"toc", "patch", "save", "write", "write_digest"} => remote \in seen
    /\ coherent /\ Opening /\ ~opening.refresh /\ opening.for \in {"up", "upa"}
          /\ idx \in Version => md = idx.pkgs
    /\ coherent /\ pc \in {"compare", "compare_a", "toc", "patch"} => md = idx.pkgs
    /\ coherent /\ Opening /\ opening.for = "stub" => idx.pkgs \in seen

CInv == Current /\ UpdatedIsCurrent

(* No command runs at the beginning.                                       *)
LEMMA CInit == Init => CInv
BY DEF Init, CInv, Current, UpdatedIsCurrent, Opening, Idle

(* What is published while a command runs is seen by it.                   *)
LEMMA CRepository == TInv /\ CInv /\ Repository => CInv'
<1> SUFFICES ASSUME TInv, CInv, Repository PROVE CInv'
  OBVIOUS
<1>1. UNCHANGED <<md, idx, command, pc, opening, remote, coherent>>
  BY DEF Repository, StartMkidx, WriteIndex, WriteDigest, WriteDiff, MkidxDies,
         cache, run, patching
<1>2. See
  BY DEF Repository, StartMkidx, WriteIndex, WriteDigest, WriteDiff, MkidxDies
<1>3. ~Idle => seen \subseteq seen' /\ Shown' \subseteq seen'
  BY <1>2 DEF See
<1>4. (~Idle)' <=> ~Idle
  BY <1>1 DEF Idle
<1> QED
  BY <1>1, <1>3, <1>4 DEF CInv, Current, UpdatedIsCurrent, Opening, Idle

(* A command that ends has nothing to answer for.                          *)
LEMMA CEnd == End => CInv'
BY DEF End, CInv, Current, UpdatedIsCurrent, Opening, Idle

(* Opening an index for the update of the stub, or anew, or with the       *)
(* digest of the cached one.                                               *)
LEMMA COpen ==
    ASSUME CInv, ~Idle, UNCHANGED <<repository, history>>,
           NEW for, NEW refresh \in BOOLEAN, Open(for, refresh),
           coherent /\ ~refresh /\ for \in {"up", "upa"} /\ idx' \in Version =>
               md' = idx'.pkgs,
           coherent /\ for = "stub" => idx'.pkgs \in seen
    PROVE  CInv'
<1>1. /\ pc' = "digest" /\ opening'.for = for /\ opening'.refresh = refresh
      /\ seen' = seen /\ coherent' = coherent /\ Shown' = Shown
  BY DEF Open, history, repository, Shown
<1> QED
  BY <1>1 DEF CInv, Current, UpdatedIsCurrent, Opening, Idle

(* A command that starts.                                                  *)
LEMMA CStart == TInv /\ CInv /\ Start => CInv'
<1> SUFFICES ASSUME TInv, CInv, Start PROVE CInv'
  OBVIOUS
<1>1. /\ pc' = "digest" /\ opening'.for = command' /\ opening'.refresh = FALSE
      /\ command' \in {"load", "up", "upa"}
      /\ seen' = Shown /\ Shown' = Shown
      /\ idx' = idx /\ md' = md
      /\ coherent' = (idx \in Version => md = idx.pkgs)
  BY DEF Start, Open, repository, cache, Shown
<1> QED
  BY <1>1 DEF CInv, Current, UpdatedIsCurrent, Opening, Idle

(* An index that was fetched is one the repository shows.                  *)
LEMMA COpenIndex == TInv /\ CInv /\ OpenIndex => CInv'
<1> SUFFICES ASSUME TInv, CInv, OpenIndex PROVE CInv'
  OBVIOUS
<1>0. /\ pc = "index" /\ Opening /\ ~Idle /\ UNCHANGED repository /\ md' = md
      /\ dg = md
      /\ Shown' = Shown /\ Shown \subseteq seen
  BY DEF OpenIndex, Opening, Idle, CInv, Current, TInv, Steps, Shown, repository
<1>1. /\ IndexCached => idx' = idx /\ ~opening.refresh
      /\ ~IndexCached /\ idx' \in Version => idx'.pkgs \in seen
  BY <1>0, NoFile DEF OpenIndex, IndexCached, Shown
<1>2. opening.for = "stub" => IndexCached
  BY <1>0, NoFile DEF TInv, Steps, IndexCached
<1>3. CASE OpenFails
  <2>1. CASE End
    BY <2>1, CEnd
  <2>2. CASE Open("whole", TRUE) /\ UNCHANGED history
    BY <1>0, <2>2, COpen
  <2>3. CASE /\ opening.for = "stub" /\ pc' = "updated"
             /\ UNCHANGED <<command, opening, held, dg, patching, history>>
    <3>1. idx' = idx /\ idx \in Version
      BY <1>0, <1>1, <1>2, <2>3 DEF TInv, Steps
    <3> QED
      BY <1>0, <2>3, <3>1 DEF CInv, Current, UpdatedIsCurrent, Opening, Idle, history
  <2> QED
    BY <1>3, <2>1, <2>2, <2>3 DEF OpenFails
<1>4. CASE Verified(idx') /\ Opened
  <2>0. idx' \in Version /\ UNCHANGED <<command, history>>
    BY <1>4 DEF Verified, Opened
  <2>1. coherent /\ IndexCached /\ opening.for \in {"up", "upa"} => md' = idx'.pkgs
    BY <1>0, <1>1, <2>0 DEF CInv, Current
  <2>2. CASE /\ opening.for = "whole" \/ (opening.for = "upa" /\ ~IndexCached)
             /\ Open("stub", FALSE)
    <3>1. ~IndexCached
      BY <1>0, <1>1, <2>2 DEF TInv, Steps
    <3> QED
      BY <1>0, <1>1, <2>0, <2>2, <3>1, COpen
  <2>3. CASE ~ (opening.for = "whole" \/ (opening.for = "upa" /\ ~IndexCached))
    <3>1. /\ \/ pc' = "compare" /\ opening.for = "up" /\ IndexCached
             \/ pc' = "compare_a" /\ opening.for = "upa" /\ IndexCached
             \/ /\ pc' = "updated"
                /\ opening.for \in {"load", "instead", "stub"}
                      \/ (opening.for = "up" /\ ~IndexCached)
          /\ UNCHANGED <<command, opening, history>>
      BY <1>4, <2>3 DEF Opened
    <3>2. CASE pc' \in {"compare", "compare_a"}
      BY <1>0, <2>0, <2>1, <3>1, <3>2 DEF CInv, Current, UpdatedIsCurrent, Opening, Idle, history
    <3>3. CASE pc' = "updated" /\ opening.for = "load"
      BY <1>0, <2>0, <3>1, <3>3 DEF CInv, Current, UpdatedIsCurrent, Opening, Idle,
         history, TInv, Steps
    <3>4. CASE pc' = "updated" /\ opening.for # "load"
      <4>1. coherent => idx'.pkgs \in seen
        BY <1>0, <1>1, <2>0, <3>1, <3>4 DEF CInv, Current, TInv, Steps
      <4> QED
        BY <1>0, <2>0, <3>1, <3>4, <4>1 DEF CInv, Current, UpdatedIsCurrent, Opening, Idle, history
    <3> QED
      BY <3>1, <3>2, <3>3, <3>4
  <2> QED
    BY <1>4, <2>2, <2>3 DEF Opened
<1>5. CASE idx' = Broken /\ IndexCached /\ Reopen /\ UNCHANGED history
  <2>1. opening.for # "stub"
    BY <1>0, <1>1, <1>5, NoFile DEF TInv, Steps
  <2> QED
    BY <1>0, <1>5, <2>1, COpen DEF Reopen
<1> QED
  BY <1>3, <1>4, <1>5 DEF OpenIndex

(* The digest is replaced only when there is none, or to fetch the index   *)
(* as well.                                                                *)
LEMMA COpenDigest == TInv /\ CInv /\ OpenDigest => CInv'
<1> SUFFICES ASSUME TInv, CInv, OpenDigest PROVE CInv'
  OBVIOUS
<1>0. /\ pc = "digest" /\ Opening /\ ~Idle /\ UNCHANGED repository /\ idx' = idx
      /\ Shown' = Shown
  BY DEF OpenDigest, Opening, Idle, Shown, repository
<1>1. coherent /\ ~opening.refresh /\ opening.for \in {"up", "upa"} /\ idx \in Version =>
         md' = idx.pkgs
  <2> SUFFICES ASSUME coherent, ~opening.refresh, opening.for \in {"up", "upa"},
                      idx \in Version
               PROVE  md' = idx.pkgs
    OBVIOUS
  <2>1. md = idx.pkgs /\ md \in Contents
    BY <1>0 DEF CInv, Current, Version
  <2>2. DigestCached
    BY <2>1, NoFile DEF DigestCached
  <2> QED
    BY <2>1, <2>2 DEF OpenDigest
<1>2. CASE OpenFails
  <2>1. CASE End
    BY <2>1, CEnd
  <2>2. CASE Open("whole", TRUE) /\ UNCHANGED history
    BY <1>0, <2>2, COpen
  <2>3. CASE /\ opening.for = "stub" /\ pc' = "updated"
             /\ UNCHANGED <<command, opening, held, dg, patching, history>>
    <3>1. idx \in Version
      BY <1>0, <2>3 DEF TInv, Steps
    <3> QED
      BY <1>0, <2>3, <3>1 DEF CInv, Current, UpdatedIsCurrent, Opening, Idle, history
  <2> QED
    BY <1>2, <2>1, <2>2, <2>3 DEF OpenFails
<1>3. CASE pc' = "index" /\ UNCHANGED <<command, opening, held, patching, history>>
  BY <1>0, <1>1, <1>3 DEF CInv, Current, UpdatedIsCurrent, Opening, Idle, history
<1> QED
  BY <1>2, <1>3 DEF OpenDigest

(* An update that fails, or goes on with --upa, from the same cache.       *)
LEMMA CDesynchronized ==
    ASSUME CInv, ~Idle, coherent => md = idx.pkgs, Fail \/ Desynchronized
    PROVE  CInv'
<1>1. CASE Fail
  BY <1>1, CEnd DEF Fail
<1>2. CASE Open("upa", FALSE) /\ UNCHANGED <<repository, cache, history>>
  <2>1. idx' = idx /\ md' = md
    BY <1>2 DEF cache
  <2> QED
    BY <1>2, <2>1, COpen
<1> QED
  BY <1>1, <1>2 DEF Desynchronized

(* The comparison of digests: equal ones were shown.                       *)
LEMMA CCompare == TInv /\ CInv /\ (Compare \/ CompareA) => CInv'
<1> SUFFICES ASSUME TInv, CInv, Compare \/ CompareA PROVE CInv'
  OBVIOUS
<1>0. /\ pc \in {"compare", "compare_a"} /\ ~Idle
      /\ dg = md /\ idx \in Version
      /\ coherent => md = idx.pkgs
      /\ Shown \subseteq seen /\ digest.pkgs \in seen
  BY DEF Compare, CompareA, Idle, TInv, Steps, CInv, Current, Shown
<1>1. CASE Fail \/ Desynchronized
  BY <1>0, <1>1, CDesynchronized
<1>2. CASE /\ digest.pkgs = dg
           /\ pc' = "updated"
           /\ UNCHANGED <<repository, cache, command, opening, held, dg, patching, history>>
  BY <1>0, <1>2 DEF CInv, Current, UpdatedIsCurrent, Opening, Idle, history, cache,
     repository, Shown
<1>3. CASE /\ remote' = digest.pkgs
           /\ pc' = "toc"
           /\ UNCHANGED <<repository, cache, command, opening, held, dg,
                          patches, applied, dups, history>>
  BY <1>0, <1>3 DEF CInv, Current, UpdatedIsCurrent, Opening, Idle, history, cache,
     repository, Shown
<1>4. CASE /\ (digest.pkgs = dg /\ Open("stub", FALSE)) \/ Open("whole", TRUE)
           /\ UNCHANGED <<repository, cache, command, held, dg, patching, history>>
  <2>1. idx' = idx
    BY <1>4 DEF cache
  <2> QED
    BY <1>0, <1>4, <2>1, COpen
<1> QED
  BY <1>1, <1>2, <1>3, <1>4 DEF Compare, CompareA

(* The patches, down to the comparison with the digest fetched before.     *)
LEMMA CPatches ==
    TInv /\ CInv /\ (FetchToc \/ ApplyPatch \/ PatchMissing \/ PatchesApplied) => CInv'
<1> SUFFICES ASSUME TInv, CInv, FetchToc \/ ApplyPatch \/ PatchMissing \/ PatchesApplied
             PROVE CInv'
  OBVIOUS
<1>0. /\ pc \in {"toc", "patch"} /\ ~Idle
      /\ coherent => md = idx.pkgs
      /\ remote \in seen
  BY DEF FetchToc, ApplyPatch, PatchMissing, PatchesApplied, Idle, CInv, Current
<1>1. CASE Fail \/ Desynchronized
  BY <1>0, <1>1, CDesynchronized
<1>2. CASE Open("instead", TRUE) /\ UNCHANGED <<repository, history>>
  BY <1>0, <1>2, COpen
<1>3. CASE /\ pc' \in {"patch", "save"} /\ remote' = remote
           /\ UNCHANGED <<repository, cache, command, opening, history>>
  BY <1>0, <1>3 DEF CInv, Current, UpdatedIsCurrent, Opening, Idle, history, cache,
     repository, Shown
<1> QED
  BY <1>1, <1>2, <1>3 DEF FetchToc, ApplyPatch, PatchMissing, PatchesApplied, patching

(* What is saved has the packages of that digest.                          *)
LEMMA CSave == TInv /\ CInv /\ (RemoveIndex \/ SaveIndex \/ SaveDigest) => CInv'
<1> SUFFICES ASSUME TInv, CInv, RemoveIndex \/ SaveIndex \/ SaveDigest PROVE CInv'
  OBVIOUS
<1>0. /\ pc \in {"save", "write", "write_digest"} /\ ~Idle /\ UNCHANGED repository
      /\ remote \in seen /\ held.pkgs = remote
      /\ pc = "write_digest" => idx = held /\ idx \in Version
  BY DEF RemoveIndex, SaveIndex, SaveDigest, Idle, TInv, Steps, CInv, Current
<1>1. CASE End
  BY <1>1, CEnd
<1>2. CASE ~End
  BY <1>0, <1>2 DEF RemoveIndex, SaveIndex, SaveDigest, CInv, Current, UpdatedIsCurrent,
     Opening, Idle, history, patching, repository, Shown
<1> QED
  BY <1>1, <1>2

(* Every step keeps the cache of its own time.                             *)
LEMMA CNext == TInv /\ CInv /\ [Next]_vars => CInv'
<1> SUFFICES ASSUME TInv, CInv, [Next]_vars PROVE CInv'
  OBVIOUS
<1>1. CASE UNCHANGED vars
  BY <1>1 DEF CInv, Current, UpdatedIsCurrent, Opening, Idle, Shown,
              vars, repository, cache, run, patching, history
<1>2. CASE Succeed \/ Die
  BY <1>2, CEnd DEF Succeed, Die
<1>3. CASE Next
  BY <1>2, <1>3, CRepository, CStart, COpenDigest, COpenIndex, CCompare, CPatches, CSave
  DEF Next, Step
<1> QED
  BY <1>1, <1>3

(* A --up or --upa that ends well, begun with a cached digest that was the *)
(* cached index's, leaves an index with contents the repository had while  *)
(* the command ran, whatever was published meanwhile.                      *)
THEOREM EndsUpToDate == Spec => []UpdatedIsCurrent
<1>1. CInv => UpdatedIsCurrent
  BY DEF CInv
<1> QED
  BY TInit, TNext, CInit, CNext, <1>1, PTL DEF Spec

-----------------------------------------------------------------------------
(* The index of directories: what is in the variables of DirIndex.         *)
Indices == [no : Seq(Keys), required : [Keys -> SUBSET Dir], owned : [Keys -> SUBSET Dir],
            at : [Dir -> SUBSET Nat], unread : SUBSET Keys]
IdMaps == UNION {[D -> Package] : D \in SUBSET Nat}
Tasks == [at : {"away", "opening", "loading", "waiting", "writing", "open"},
          then : {"none", "update", "reload", "again"},
          update : BOOLEAN, create : BOOLEAN, found : BOOLEAN,
          pkgs : Seq(Package), kept : SUBSET Package, index : Indices, idmap : IdMaps,
          opened : BOOLEAN, since : Nat, reqs : [Package -> SUBSET Dir], alone : BOOLEAN]
FileStates == [at : {"absent", "partial", "whole"}, by : Proc \union {Nobody}, mtime : Nat, index : Indices]

(* What an index says of a package it knows is what its files are, or      *)
(* nothing if they could not be read.                                      *)
Right(ix) ==
    /\ ix.unread \subseteq KeysOf(ix)
    /\ \A d \in Dir : ix.at[d] = {i \in DOMAIN ix.no : d \in ix.owned[ix.no[i]]}
    /\ \A q \in Package : Key[q] \in KeysOf(ix) =>
         IF Key[q] \in ix.unread THEN ix.required[Key[q]] = {} /\ ix.owned[Key[q]] = {}
         ELSE ix.required[Key[q]] = Required(q) /\ ix.owned[Key[q]] = Owned(q)

(* A task: an open index is one that lacks no package.                     *)
TaskOK(t) ==
    /\ t \in Tasks /\ t.kept \subseteq ToSet(t.pkgs) /\ Range(t.idmap) \subseteq t.kept
    /\ Right(t.index)
    /\ t.opened =>
         /\ t.at = "open" /\ Missing(t.index, t.kept) = {} /\ t.idmap = IdMap(t.index, t.kept)
         /\ t.reqs = [q \in Package |-> IF q \in t.kept THEN t.index.required[Key[q]] ELSE {}]

SourceInv == /\ source \in [at : 1..MaxTime, pkgs : Seq(Package), kept : SUBSET Package]
             /\ source.kept \subseteq ToSet(source.pkgs)
FileInv == /\ file \in FileStates /\ Right(file.index) /\ lock \in Proc \union {Nobody}
           /\ file.by # Nobody => file.at = "partial" /\ lock = file.by
TaskInv == /\ task \in [Proc -> Tasks]
           /\ \A p \in Proc : TaskOK(task[p]) /\ (task[p].at = "writing" <=> lock = p)

(* A process that is alone finds what it wrote.                            *)
Busy(p) == task[p].at \notin {"away", "open"}
Finds(t, p) ==
    /\ t.at \in {"opening", "loading", "waiting", "writing"} => t.kept # {}
    /\ t.at = "open" /\ t.create /\ t.kept # {} => t.opened
    /\ t.at = "writing" => file.by = p
    /\ t.at = "loading" /\ ~(t.then = "update" /\ t.found) =>
         file.at = "whole" /\ Missing(file.index, t.kept) = {}
Undisturbed(p) == task[p].alone => (Busy(p) => Others(p) = {}) /\ Finds(task[p], p)

IndexInv == SourceInv /\ FileInv /\ TaskInv /\ \A p \in Proc : Undisturbed(p)

-----------------------------------------------------------------------------
(* Any set of numbers that has a bound has a greatest member.              *)
LEMMA MaxExists ==
    ASSUME NEW n \in Nat, NEW S \in SUBSET (1..n), S # {}
    PROVE  Max(S) \in S
<1> DEFINE T == {x \in Nat : \E i \in S : x = n - i}
<1>1. T \subseteq Nat /\ T # {}
  <2>1. PICK i \in S : TRUE
    OBVIOUS
  <2>2. n - i \in Nat
    OBVIOUS
  <2> QED
    BY <2>2
<1>2. PICK x \in T : \A y \in T : <<y, x>> \notin OpToRel(<, Nat)
  <2> HIDE DEF T
  <2> QED
    BY <1>1, WFMin, NatLessThanWellFounded
<1>3. \A y \in T : ~(y < x)
  BY <1>2 DEF OpToRel
<1>4. PICK i \in S : x = n - i
  OBVIOUS
<1>5. \A j \in S : i >= j
  <2> SUFFICES ASSUME NEW j \in S PROVE i >= j
    OBVIOUS
  <2>1. n - j \in T
    OBVIOUS
  <2> QED
    BY <2>1, <1>3, <1>4
<1> QED
  BY <1>5 DEF Max

(* The number of a key is a number of this key.                            *)
LEMMA NumberIsOf ==
    ASSUME NEW ix \in Indices, NEW k \in KeysOf(ix)
    PROVE  NumberOf(ix, k) \in DOMAIN ix.no /\ ix.no[NumberOf(ix, k)] = k
<1> DEFINE S == {i \in DOMAIN ix.no : ix.no[i] = k}
<1>1. S \in SUBSET (1..Len(ix.no)) /\ Len(ix.no) \in Nat
  BY DEF Indices
<1>2. S # {}
  BY DEF KeysOf, ToSet
<1>3. Max(S) \in S
  <2> HIDE DEF S
  <2> QED
    BY <1>1, <1>2, MaxExists
<1> QED
  BY <1>3 DEF NumberOf

LEMMA FilesOf ==
    ASSUME FilesAssumption, NEW q \in Package
    PROVE  Owned(q) \subseteq Dir /\ Required(q) \subseteq Dir /\ Key[q] \in Keys
  BY DEF FilesAssumption, Owned, Required, Keys

LEMMA StoredIs ==
    ASSUME FilesAssumption, NEW prev \in Indices, NEW lost, NEW q \in Package
    PROVE  /\ Stored(prev, lost, q) \in [required : SUBSET Dir, owned : SUBSET Dir]
           /\ Key[q] \in KeysOf(prev) => /\ Stored(prev, lost, q).required = prev.required[Key[q]]
                                        /\ Stored(prev, lost, q).owned = prev.owned[Key[q]]
           /\ Key[q] \notin KeysOf(prev) /\ Key[q] \in lost =>
                Stored(prev, lost, q).required = {} /\ Stored(prev, lost, q).owned = {}
           /\ Key[q] \notin KeysOf(prev) /\ Key[q] \notin lost =>
                Stored(prev, lost, q).required = Required(q) /\ Stored(prev, lost, q).owned = Owned(q)
<1>1. prev.required[Key[q]] \subseteq Dir /\ prev.owned[Key[q]] \subseteq Dir
  BY FilesOf DEF Indices
<1>2. CASE Key[q] \in KeysOf(prev)
  BY <1>1, <1>2 DEF Stored
<1>3. CASE Key[q] \notin KeysOf(prev) /\ Key[q] \in lost
  BY <1>3 DEF Stored
<1>4. CASE Key[q] \notin KeysOf(prev) /\ Key[q] \notin lost
  BY <1>4, FilesOf DEF Stored
<1> QED
  BY <1>2, <1>3, <1>4

(* Packages of one key are stored alike.                                   *)
LEMMA StoredAlike ==
    ASSUME FilesAssumption, KeysAssumption, NEW prev \in Indices, NEW lost,
           NEW q \in Package, NEW r \in Package,
           Key[q] = Key[r]
    PROVE  Stored(prev, lost, q) = Stored(prev, lost, r)
<1>1. Owned(q) = Owned(r) /\ Required(q) = Required(r)
  BY DEF KeysAssumption, Owned, Required
<1> QED
  BY <1>1 DEF Stored

LEMMA MadeIs ==
    ASSUME FilesAssumption, NEW prev \in Indices, NEW lost \in SUBSET Keys, NEW pkgs \in Seq(Package)
    PROVE  /\ Made(pkgs, prev, lost) \in Indices
           /\ KeysOf(Made(pkgs, prev, lost)) = {Key[q] : q \in ToSet(pkgs)}
<1> DEFINE stored == [i \in DOMAIN pkgs |-> Stored(prev, lost, pkgs[i])]
           those(k) == {i \in DOMAIN pkgs : Key[pkgs[i]] = k}
           no == [i \in DOMAIN pkgs |-> Key[pkgs[i]]]
           required == [k \in Keys |-> UNION {stored[i].required : i \in those(k)}]
           owned == [k \in Keys |-> UNION {stored[i].owned : i \in those(k)}]
           at == [d \in Dir |-> {i \in DOMAIN pkgs : d \in stored[i].owned}]
           unread == (lost \union prev.unread) \intersect {Key[pkgs[i]] : i \in DOMAIN pkgs}
<1>1. \A i \in DOMAIN pkgs : pkgs[i] \in Package /\ i \in Nat
  OBVIOUS
<1>2. \A i \in DOMAIN pkgs : stored[i].required \subseteq Dir /\ stored[i].owned \subseteq Dir
  BY <1>1, StoredIs
<1>3. no \in Seq(Keys)
  BY <1>1, FilesOf
<1>4. required \in [Keys -> SUBSET Dir] /\ owned \in [Keys -> SUBSET Dir]
  BY <1>2
<1>5. at \in [Dir -> SUBSET Nat] /\ unread \in SUBSET Keys
  BY <1>1, FilesOf DEF Indices
<1>6. Made(pkgs, prev, lost) =
        [no |-> no, required |-> required, owned |-> owned, at |-> at, unread |-> unread]
  BY DEF Made
<1>7. ToSet(no) = {Key[q] : q \in ToSet(pkgs)}
  BY DEF ToSet
<1> HIDE DEF no, required, owned, at, unread
<1> QED
  BY <1>3, <1>4, <1>5, <1>6, <1>7 DEF Indices, KeysOf

(* What dirindex_create writes is right if what it read was, but for the   *)
(* lists that cannot be read.                                              *)
LEMMA MadeRight ==
    ASSUME FilesAssumption, KeysAssumption, NEW prev \in Indices, NEW lost \in SUBSET Keys,
           NEW pkgs \in Seq(Package), Right(prev), lost \intersect KeysOf(prev) = {}
    PROVE  Right(Made(pkgs, prev, lost))
<1> DEFINE m == Made(pkgs, prev, lost)
           st(q) == Stored(prev, lost, q)
<1>1. m \in Indices /\ KeysOf(m) = {Key[q] : q \in ToSet(pkgs)}
  BY MadeIs
<1>2. \A i \in DOMAIN pkgs : pkgs[i] \in Package /\ Key[pkgs[i]] \in Keys
  BY FilesOf
<1>3. DOMAIN m.no = DOMAIN pkgs /\ \A i \in DOMAIN pkgs : m.no[i] = Key[pkgs[i]]
  BY DEF Made
<1>4. \A q \in Package : Key[q] \in KeysOf(m) =>
        m.required[Key[q]] = st(q).required /\ m.owned[Key[q]] = st(q).owned
  <2> SUFFICES ASSUME NEW q \in Package, Key[q] \in KeysOf(m)
               PROVE  m.required[Key[q]] = st(q).required /\ m.owned[Key[q]] = st(q).owned
    OBVIOUS
  <2> DEFINE S == {i \in DOMAIN pkgs : Key[pkgs[i]] = Key[q]}
  <2>1. Key[q] \in Keys
    BY FilesOf
  <2>2. \A i \in S : Stored(prev, lost, pkgs[i]) = st(q)
    BY <1>2, StoredAlike
  <2>3. S # {}
    BY <1>1 DEF ToSet
  <2>4. m.required[Key[q]] = UNION {Stored(prev, lost, pkgs[i]).required : i \in S}
    BY <2>1 DEF Made
  <2>5. m.owned[Key[q]] = UNION {Stored(prev, lost, pkgs[i]).owned : i \in S}
    BY <2>1 DEF Made
  <2>6. {Stored(prev, lost, pkgs[i]).required : i \in S} = {st(q).required}
    BY <2>2, <2>3
  <2>7. {Stored(prev, lost, pkgs[i]).owned : i \in S} = {st(q).owned}
    BY <2>2, <2>3
  <2>8. \A x : UNION {x} = x
    OBVIOUS
  <2> HIDE DEF st, S, m
  <2> QED
    BY <2>4, <2>5, <2>6, <2>7, <2>8
<1>5. m.unread = (lost \union prev.unread) \intersect {Key[pkgs[i]] : i \in DOMAIN pkgs}
  BY DEF Made
<1>6. m.unread = (lost \union prev.unread) \intersect KeysOf(m)
  BY <1>1, <1>5 DEF ToSet
<1>7. \A d \in Dir : m.at[d] = {i \in DOMAIN m.no : d \in m.owned[m.no[i]]}
  <2> SUFFICES ASSUME NEW d \in Dir PROVE m.at[d] = {i \in DOMAIN m.no : d \in m.owned[m.no[i]]}
    OBVIOUS
  <2>1. m.at[d] = {i \in DOMAIN pkgs : d \in Stored(prev, lost, pkgs[i]).owned}
    BY DEF Made
  <2>2. \A i \in DOMAIN pkgs : m.owned[m.no[i]] = st(pkgs[i]).owned
    BY <1>1, <1>2, <1>3, <1>4 DEF ToSet
  <2> QED
    BY <2>1, <2>2, <1>3
<1>8. ASSUME NEW q \in Package, Key[q] \in KeysOf(m)
      PROVE  IF Key[q] \in m.unread THEN m.required[Key[q]] = {} /\ m.owned[Key[q]] = {}
             ELSE m.required[Key[q]] = Required(q) /\ m.owned[Key[q]] = Owned(q)
  <2> DEFINE Is(r, o) == m.required[Key[q]] = r /\ m.owned[Key[q]] = o
  <2>1. Is(st(q).required, st(q).owned)
    BY <1>4, <1>8
  <2>2. CASE Key[q] \in KeysOf(prev)
    <3>1. Is(prev.required[Key[q]], prev.owned[Key[q]])
      BY <2>1, <2>2, StoredIs
    <3>2. Key[q] \in m.unread <=> Key[q] \in prev.unread
      BY <1>6, <1>8, <2>2
    <3> QED
      BY <3>1, <3>2, <2>2 DEF Right
  <2>3. CASE Key[q] \notin KeysOf(prev) /\ Key[q] \in lost
    <3>1. Is({}, {})
      BY <2>1, <2>3, StoredIs
    <3> QED
      BY <3>1, <2>3, <1>6, <1>8
  <2>4. CASE Key[q] \notin KeysOf(prev) /\ Key[q] \notin lost
    <3>1. Is(Required(q), Owned(q))
      BY <2>1, <2>4, StoredIs
    <3>2. Key[q] \notin m.unread
      BY <2>4, <1>6 DEF Right
    <3> QED
      BY <3>1, <3>2
  <2> QED
    BY <2>2, <2>3, <2>4
<1> HIDE DEF m
<1>9. m.unread \subseteq KeysOf(m)
  BY <1>6
<1>10. \A q \in Package : Key[q] \in KeysOf(m) =>
         IF Key[q] \in m.unread THEN m.required[Key[q]] = {} /\ m.owned[Key[q]] = {}
         ELSE m.required[Key[q]] = Required(q) /\ m.owned[Key[q]] = Owned(q)
  BY <1>8
<1>11. Right(m)
  BY <1>7, <1>9, <1>10 DEF Right
<1> QED
  BY <1>11 DEF m

LEMMA NothingIs == Nothing \in Indices /\ Right(Nothing) /\ KeysOf(Nothing) = {}
<1>1. Nothing \in Indices /\ KeysOf(Nothing) = {}
  BY DEF Nothing, Indices, KeysOf, ToSet
<1>2. Nothing.unread = {} /\ Nothing.no = << >> /\ \A d \in Dir : Nothing.at[d] = {}
  BY DEF Nothing
<1>3. DOMAIN Nothing.no = {}
  BY <1>2
<1> QED
  BY <1>1, <1>2, <1>3 DEF Right

(* Who is in the map of an open index.                                     *)
LEMMA IdMapIs ==
    ASSUME NEW ix \in Indices, NEW kept \in SUBSET Package, Missing(ix, kept) = {}
    PROVE  /\ IdMap(ix, kept) \in IdMaps
           /\ Range(IdMap(ix, kept)) \subseteq kept
           /\ \A q \in kept : /\ NumberOf(ix, Key[q]) \in DOMAIN IdMap(ix, kept)
                              /\ NumberOf(ix, Key[q]) \in DOMAIN ix.no
                              /\ ix.no[NumberOf(ix, Key[q])] = Key[q]
           /\ \A i \in DOMAIN IdMap(ix, kept) :
                /\ i \in DOMAIN ix.no
                /\ IdMap(ix, kept)[i] \in kept /\ ix.no[i] = Key[IdMap(ix, kept)[i]]
<1> DEFINE D == {NumberOf(ix, Key[q]) : q \in kept}
           map == IdMap(ix, kept)
           number(q) == NumberOf(ix, Key[q])
<1>1. \A q \in kept : number(q) \in DOMAIN ix.no /\ ix.no[number(q)] = Key[q]
  BY NumberIsOf DEF Missing
<1>2. map = [i \in D |-> CHOOSE q \in kept : number(q) = i]
  BY DEF IdMap
<1>3. \A i \in D : map[i] \in kept /\ number(map[i]) = i
  BY <1>2
<1>4. D \in SUBSET Nat
  BY <1>1 DEF Indices
<1>5. DOMAIN map = D
  BY <1>2
<1> HIDE DEF map
<1>6. map \in [D -> Package]
  BY <1>2, <1>3
<1>7. map \in IdMaps
  BY <1>4, <1>6 DEF IdMaps
<1>8. Range(map) \subseteq kept
  BY <1>3, <1>5 DEF Range
<1> QED
  BY <1>1, <1>3, <1>5, <1>7, <1>8 DEF map

(* Whoever has a right index open gets right answers.                      *)
LEMMA RightAnswers ==
    ASSUME FilesAssumption, KeysAssumption,
           NEW t, TaskOK(t), t.opened
    PROVE  /\ \A d \in Dir : LET owners == {q \in t.kept : d \in Owned(q)}
                             IN  /\ Get(t, d) \subseteq owners /\ owners \ Doubtful(t) \subseteq Get(t, d)
                                 /\ \A q \in owners \ Doubtful(t) : HasPath(t, q, d) = {TRUE}
           /\ \A q \in t.kept : t.reqs[q] = Required(q) \/ (q \in Doubtful(t) /\ t.reqs[q] = {})
<1>1. t.index \in Indices /\ t.kept \in SUBSET Package /\ Right(t.index)
  BY DEF Tasks, TaskOK
<1>2. Missing(t.index, t.kept) = {} /\ t.idmap = IdMap(t.index, t.kept)
  BY DEF TaskOK
<1>3. \A q \in t.kept : Key[q] \in KeysOf(t.index) /\ q \in Package
  BY <1>1, <1>2 DEF Missing
<1>4. ASSUME NEW q \in t.kept PROVE t.reqs[q] = Required(q) \/ (q \in Doubtful(t) /\ t.reqs[q] = {})
  <2>1. t.reqs[q] = t.index.required[Key[q]]
    BY <1>3 DEF TaskOK
  <2> QED
    BY <2>1, <1>1, <1>3 DEF Right, Doubtful
<1>5. ASSUME NEW d \in Dir, NEW q \in Get(t, d) PROVE q \in t.kept /\ d \in Owned(q)
  <2>1. PICK i \in t.index.at[d] \intersect DOMAIN t.idmap : q = t.idmap[i]
    BY DEF Get
  <2>2. q \in t.kept /\ t.index.no[i] = Key[q]
    BY <1>1, <1>2, <2>1, IdMapIs
  <2>3. d \in t.index.owned[Key[q]]
    BY <1>1, <2>1, <2>2 DEF Right
  <2> QED
    BY <1>1, <1>3, <2>2, <2>3 DEF Right
<1>6. ASSUME NEW d \in Dir, NEW q \in t.kept, d \in Owned(q), q \notin Doubtful(t)
      PROVE  q \in Get(t, d)
  <2> DEFINE i == NumberOf(t.index, Key[q])
  <2>1. i \in DOMAIN t.idmap /\ i \in DOMAIN t.index.no /\ t.index.no[i] = Key[q]
    BY <1>1, <1>2, IdMapIs
  <2>2. d \in t.index.owned[Key[q]]
    BY <1>1, <1>3, <1>6 DEF Right, Doubtful
  <2>3. i \in t.index.at[d]
    BY <1>1, <2>1, <2>2 DEF Right
  <2>4. t.idmap[i] \in t.kept /\ Key[t.idmap[i]] = Key[q]
    BY <1>1, <1>2, <2>1, IdMapIs
  <2>5. t.idmap[i] = q
    BY <1>3, <1>6, <2>4 DEF KeysAssumption, Owned
  <2> HIDE DEF i
  <2> QED
    BY <2>1, <2>3, <2>5 DEF Get
<1>7. ASSUME NEW d \in Dir, NEW q \in t.kept, d \in Owned(q), q \notin Doubtful(t)
      PROVE  HasPath(t, q, d) = {TRUE}
  <2>1. q \in Get(t, d)
    BY <1>6, <1>7
  <2>2. t.index.at[d] # {}
    BY <2>1 DEF Get
  <2> QED
    BY <2>1, <2>2 DEF HasPath
<1> QED
  BY <1>4, <1>5, <1>6, <1>7

-----------------------------------------------------------------------------
(* The tasks that the actions make of a task.                              *)
LEMMA AwayIs == TaskOK(Away) /\ ~Away.opened /\ Away.at = "away" /\ Away.kept = {}
<1>1. << >> \in IdMaps /\ Range(<< >>) = {}
  <2>1. << >> \in [{} -> Package]
    OBVIOUS
  <2> QED
    BY <2>1 DEF IdMaps, Range
<1>2. Away \in Tasks /\ Away.kept = {} /\ Away.idmap = << >> /\ Away.index = Nothing /\ ~Away.opened
      /\ Away.at = "away"
  BY <1>1, NothingIs DEF Away, Tasks
<1> QED
  BY <1>1, <1>2, NothingIs DEF TaskOK

(* A task at which somebody is works on with the same packages.            *)
LEMMA GoesOn ==
    ASSUME NEW t, TaskOK(t), NEW u \in Tasks,
           u.pkgs = t.pkgs, u.kept = t.kept, u.idmap = t.idmap, ~u.opened, Right(u.index)
    PROVE  TaskOK(u)
  BY DEF TaskOK

LEMMA GaveUpIs ==
    ASSUME NEW t, TaskOK(t), t.at # "open"
    PROVE  /\ TaskOK(GaveUp(t)) /\ ~GaveUp(t).opened
           /\ GaveUp(t).at \in {"waiting", "away", "open"}
           /\ GaveUp(t).kept = t.kept /\ GaveUp(t).alone = t.alone /\ GaveUp(t).create = t.create
           /\ t.then = "update" /\ t.found /\ t.create => GaveUp(t).at = "waiting"
<1>1. t \in Tasks /\ ~t.opened
  BY DEF TaskOK
<1> DEFINE u == GaveUp(t)
<1>2. u \in Tasks /\ u.pkgs = t.pkgs /\ u.kept = t.kept /\ u.idmap = t.idmap /\ ~u.opened
      /\ u.index = Nothing /\ u.at \in {"waiting", "away", "open"} /\ u.alone = t.alone
      /\ u.create = t.create /\ (t.then = "update" /\ t.found /\ t.create => u.at = "waiting")
  BY <1>1, NothingIs DEF GaveUp, Tasks
<1>3. Right(u.index)
  BY <1>2, NothingIs
<1> HIDE DEF u
<1>4. TaskOK(u)
  BY <1>2, <1>3, GoesOn
<1> QED
  BY <1>2, <1>4 DEF u

LEMMA OpenedIs ==
    ASSUME FilesAssumption, FileInv, NEW t, TaskOK(t), t.at = "loading", Missing(file.index, t.kept) = {}
    PROVE  /\ TaskOK(OpenedTask(t)) /\ OpenedTask(t).at = "open" /\ OpenedTask(t).opened
           /\ OpenedTask(t).alone = t.alone
<1> DEFINE u == OpenedTask(t)
           map == IdMap(file.index, t.kept)
           reqs == [q \in Package |-> IF q \in t.kept THEN file.index.required[Key[q]] ELSE {}]
<1>1. file.index \in Indices /\ Right(file.index) /\ t \in Tasks /\ t.kept \subseteq Package
  BY DEF FileInv, FileStates, TaskOK, Tasks
<1>2. map \in IdMaps /\ Range(map) \subseteq t.kept
  BY <1>1, IdMapIs
<1>3. reqs \in [Package -> SUBSET Dir]
  BY <1>1, FilesOf DEF Indices
<1>4. u = [t EXCEPT !.at = "open", !.opened = TRUE, !.index = file.index, !.idmap = map, !.reqs = reqs]
  BY DEF OpenedTask
<1> HIDE DEF map, reqs, u
<1>5. u \in Tasks /\ u.at = "open" /\ u.opened /\ u.index = file.index /\ u.idmap = map /\ u.reqs = reqs
      /\ u.alone = t.alone /\ u.kept = t.kept /\ u.pkgs = t.pkgs
  BY <1>1, <1>2, <1>3, <1>4 DEF Tasks
<1>6. TaskOK(u)
  BY <1>1, <1>2, <1>5 DEF TaskOK, map, reqs
<1> QED
  BY <1>5, <1>6 DEF u

(* What a step of one process at work does to the invariant.               *)
LEMMA BecomeIs ==
    ASSUME TaskInv, NEW p \in Proc, NEW t, Become(p, t)
    PROVE  task'[p] = t /\ DOMAIN task' = Proc /\ \A o \in Proc \ {p} : task'[o] = task[o]
  BY DEF TaskInv, Become

LEMMA TasksKept ==
    ASSUME TaskInv, NEW p \in Proc, NEW t, TaskOK(t), Become(p, t),
           t.at = "writing" <=> lock' = p,
           \A o \in Proc \ {p} : lock' = o <=> lock = o
    PROVE  TaskInv'
<1>1. task'[p] = t /\ \A o \in Proc \ {p} : task'[o] = task[o]
  BY BecomeIs
<1>2. task' \in [Proc -> Tasks]
  BY DEF TaskInv, TaskOK, Become
<1> QED
  BY <1>1, <1>2 DEF TaskInv

LEMMA OthersUndisturbed ==
    ASSUME IndexInv, NEW p \in Proc, Busy(p), NEW t, Become(p, t)
    PROVE  /\ \A o \in Proc \ {p} : Undisturbed(o)'
           /\ task[p].alone => Others(p)' = {}
<1>1. task'[p] = t /\ \A o \in Proc \ {p} : task'[o] = task[o]
  BY BecomeIs DEF IndexInv
<1>2. Others(p)' = Others(p)
  BY <1>1 DEF Others
<1>3. ASSUME NEW o \in Proc \ {p}, task'[o].alone PROVE ~Busy(o)
  BY <1>1, <1>3 DEF IndexInv, Undisturbed, Others, Busy
<1>4. ASSUME NEW o \in Proc \ {p} PROVE Undisturbed(o)'
  <2> SUFFICES ASSUME task'[o].alone PROVE Undisturbed(o)'
    BY DEF Undisturbed
  <2>1. ~Busy(o) /\ Undisturbed(o) /\ task'[o] = task[o]
    BY <1>1, <1>3 DEF IndexInv
  <2>2. ~Busy(o)'
    BY <2>1 DEF Busy
  <2> QED
    BY <2>1, <2>2 DEF Undisturbed, Finds, Busy
<1> QED
  BY <1>2, <1>4 DEF IndexInv, Undisturbed, Busy

LEMMA OneStep ==
    ASSUME IndexInv, NEW p \in Proc, Busy(p), NEW t, TaskOK(t), Become(p, t), UNCHANGED source,
           t.at = "writing" <=> lock' = p,
           \A o \in Proc \ {p} : lock' = o <=> lock = o,
           FileInv', t.alone => task[p].alone /\ Finds(t, p)'
    PROVE  IndexInv'
<1>1. TaskInv'
  BY TasksKept DEF IndexInv
<1>2. SourceInv'
  BY DEF IndexInv, SourceInv
<1>3. task'[p] = t
  BY BecomeIs DEF IndexInv
<1>4. Undisturbed(p)'
  BY <1>3, OthersUndisturbed DEF Undisturbed, Finds
<1>5. \A o \in Proc : Undisturbed(o)'
  BY <1>4, OthersUndisturbed
<1> QED
  BY <1>1, <1>2, <1>5 DEF IndexInv

LEMMA AbsentIs == Absent \in FileStates /\ Right(Absent.index) /\ Absent.by = Nobody
  BY NothingIs DEF Absent, FileStates

-----------------------------------------------------------------------------
(* Every action keeps the invariant.                                       *)
LEMMA OpenIndexKeeps ==
    ASSUME IndexInv, NEW p \in Proc, OpenDirIndex(p)
    PROVE  IndexInv'
<1> DEFINE t == [task[p] EXCEPT !.found = file.at # "absent"]
<1>1. TaskOK(task[p]) /\ task[p] \in Tasks /\ Busy(p) /\ task[p].at = "opening" /\ lock # p
  BY DEF OpenDirIndex, IndexInv, TaskInv, TaskOK, Busy
<1>2. PICK u : /\ Become(p, u) /\ u \in Tasks /\ u.at \in {"loading", "waiting", "open"}
               /\ u.pkgs = task[p].pkgs /\ u.kept = task[p].kept /\ u.idmap = task[p].idmap
               /\ u.opened = task[p].opened /\ u.index = task[p].index /\ u.alone = task[p].alone
               /\ u.at = "loading" => u.then = "update" /\ u.found
               /\ u.at = "open" => ~u.create
  <2>1. CASE file.at # "absent" /\ Become(p, [t EXCEPT !.at = "loading", !.then = "update"])
    <3> DEFINE u == [t EXCEPT !.at = "loading", !.then = "update"]
    <3>1. u \in Tasks /\ u.at = "loading" /\ u.then = "update" /\ u.found
          /\ u.pkgs = task[p].pkgs /\ u.kept = task[p].kept /\ u.idmap = task[p].idmap
          /\ u.opened = task[p].opened /\ u.index = task[p].index /\ u.alone = task[p].alone
      BY <1>1, <2>1 DEF Tasks
    <3> HIDE DEF u
    <3> QED
      BY <2>1, <3>1 DEF u
  <2>2. CASE Become(p, [t EXCEPT !.at = "waiting", !.then = "update"])
    <3> DEFINE u == [t EXCEPT !.at = "waiting", !.then = "update"]
    <3>1. u \in Tasks /\ u.at = "waiting"
          /\ u.pkgs = task[p].pkgs /\ u.kept = task[p].kept /\ u.idmap = task[p].idmap
          /\ u.opened = task[p].opened /\ u.index = task[p].index /\ u.alone = task[p].alone
      BY <1>1 DEF Tasks
    <3> HIDE DEF u
    <3> QED
      BY <2>2, <3>1 DEF u
  <2>3. CASE ~t.create /\ Become(p, [t EXCEPT !.at = "open"])
    <3> DEFINE u == [t EXCEPT !.at = "open"]
    <3>1. u \in Tasks /\ u.at = "open" /\ ~u.create
          /\ u.pkgs = task[p].pkgs /\ u.kept = task[p].kept /\ u.idmap = task[p].idmap
          /\ u.opened = task[p].opened /\ u.index = task[p].index /\ u.alone = task[p].alone
      BY <1>1, <2>3 DEF Tasks
    <3> HIDE DEF u
    <3> QED
      BY <2>3, <3>1 DEF u
  <2> QED
    BY <2>1, <2>2, <2>3 DEF OpenDirIndex
<1>3. TaskOK(u)
  BY <1>1, <1>2, GoesOn DEF TaskOK
<1>4. FileInv' /\ UNCHANGED <<source, file, lock>>
  BY DEF OpenDirIndex, IndexInv, FileInv
<1>5. u.alone => task[p].alone /\ Finds(u, p)'
  BY <1>1, <1>2, <1>4 DEF IndexInv, Undisturbed, Finds
<1> QED
  BY <1>1, <1>2, <1>3, <1>4, <1>5, OneStep

(* A task that gives up, and with it the file.                             *)
LEMMA SettleKeeps ==
    ASSUME IndexInv, NEW p \in Proc, NEW t, TaskOK(t), t.at \in {"loading", "waiting"},
           Busy(p), lock # p, UNCHANGED <<source, lock>>, FileInv', Settle(p, GaveUp(t)),
           t.alone => task[p].alone /\ t.kept # {} /\ (~t.create \/ (t.then = "update" /\ t.found))
    PROVE  IndexInv'
<1> DEFINE u == IF GaveUp(t).at = "away" THEN Away ELSE GaveUp(t)
<1>1. Become(p, u)
  BY DEF Settle
<1>2. CASE GaveUp(t).at = "away"
  <2>1. Finds(Away, p)'
    BY AwayIs DEF Finds
  <2>2. Become(p, Away) /\ Away.at = "away" /\ TaskOK(Away)
    BY <1>1, <1>2, AwayIs
  <2>3. TaskInv'
    BY <2>2, TasksKept DEF IndexInv
  <2>4. Undisturbed(p)'
    BY <2>1, <2>2, BecomeIs DEF IndexInv, Undisturbed, Busy, Finds
  <2>5. SourceInv'
    BY DEF IndexInv, SourceInv
  <2> QED
    BY <2>2, <2>3, <2>4, <2>5, OthersUndisturbed DEF IndexInv
<1>3. CASE GaveUp(t).at # "away"
  <2>1. TaskOK(u) /\ u.at \in {"waiting", "open"} /\ u.alone = t.alone /\ u.kept = t.kept
        /\ u.create = t.create /\ (t.then = "update" /\ t.found /\ t.create => u.at = "waiting")
    BY <1>3, GaveUpIs
  <2>2. u.alone => Finds(u, p)'
    BY <2>1 DEF Finds
  <2> HIDE DEF u
  <2> QED
    BY <1>1, <2>1, <2>2, OneStep
<1> QED
  BY <1>2, <1>3

LEMMA BrokenKeeps ==
    ASSUME IndexInv, NEW p \in Proc, BrokenFound(p) \/ StillOutdated(p)
    PROVE  IndexInv'
<1>1. /\ TaskOK(task[p]) /\ Busy(p) /\ task[p].at = "loading" /\ lock # p
      /\ UNCHANGED <<source, lock>> /\ file' = Absent /\ Settle(p, GaveUp(task[p]))
  BY DEF BrokenFound, StillOutdated, IndexInv, TaskInv, Busy
<1>2. FileInv'
  BY <1>1, AbsentIs DEF IndexInv, FileInv
<1>3. task[p].alone => task[p].kept # {} /\ task[p].then = "update" /\ task[p].found
  BY <1>1 DEF BrokenFound, StillOutdated, IndexInv, Undisturbed, Finds
<1> QED
  BY <1>1, <1>2, <1>3, SettleKeeps

LEMMA OutdatedKeeps ==
    ASSUME IndexInv, NEW p \in Proc, Outdated(p)
    PROVE  IndexInv'
<1>0. PICK u : u = [task[p] EXCEPT !.at = "waiting", !.then = "reload", !.index = file.index]
  OBVIOUS
<1>1. /\ TaskOK(task[p]) /\ task[p] \in Tasks /\ ~task[p].opened /\ Busy(p) /\ task[p].at = "loading"
      /\ lock # p /\ UNCHANGED <<source, file, lock>> /\ file.index \in Indices /\ Right(file.index)
      /\ Become(p, u)
  BY <1>0 DEF Outdated, IndexInv, TaskInv, TaskOK, FileInv, FileStates, Busy
<1>2. /\ u \in Tasks /\ u.at = "waiting" /\ u.pkgs = task[p].pkgs /\ u.kept = task[p].kept
      /\ u.idmap = task[p].idmap /\ ~u.opened /\ u.index = file.index /\ u.alone = task[p].alone
  BY <1>0, <1>1 DEF Tasks
<1>3. TaskOK(u)
  BY <1>1, <1>2, GoesOn
<1>4. FileInv'
  BY <1>1 DEF IndexInv, FileInv
<1>5. u.alone => Finds(u, p)'
  BY <1>1, <1>2 DEF IndexInv, Undisturbed, Finds
<1> QED
  BY <1>1, <1>2, <1>3, <1>4, <1>5, OneStep

LEMMA CurrentKeeps ==
    ASSUME FilesAssumption, IndexInv, NEW p \in Proc, UpToDate(p)
    PROVE  IndexInv'
<1>1. /\ TaskOK(task[p]) /\ task[p] \in Tasks /\ Busy(p) /\ task[p].at = "loading"
      /\ lock # p /\ UNCHANGED <<source, lock>> /\ Missing(file.index, task[p].kept) = {}
  BY DEF UpToDate, IndexInv, TaskInv, TaskOK, Busy
<1>2. CASE task[p].update
  <2>1. Become(p, Away) /\ file' = [file EXCEPT !.mtime = task[p].since]
    BY <1>2 DEF UpToDate
  <2>2. FileInv'
    BY <1>1, <2>1 DEF IndexInv, FileInv, FileStates, Tasks
  <2>3. TaskInv'
    BY <1>1, <2>1, AwayIs, TasksKept DEF IndexInv
  <2>4. Undisturbed(p)'
    BY <2>1, AwayIs, BecomeIs DEF IndexInv, Undisturbed, Busy, Finds
  <2> QED
    BY <1>1, <2>1, <2>2, <2>3, <2>4, OthersUndisturbed DEF IndexInv, SourceInv
<1>3. CASE ~task[p].update
  <2>1. Become(p, OpenedTask(task[p])) /\ UNCHANGED file
    BY <1>3 DEF UpToDate
  <2>2. FileInv'
    BY <1>1, <2>1 DEF IndexInv, FileInv
  <2>3. PICK u : u = OpenedTask(task[p])
    OBVIOUS
  <2>4. TaskOK(u) /\ u.at = "open" /\ u.opened /\ u.alone = task[p].alone
    BY <1>1, <2>3, OpenedIs DEF IndexInv
  <2>5. Finds(u, p)'
    BY <2>4 DEF Finds
  <2> QED
    BY <1>1, <2>1, <2>2, <2>3, <2>4, <2>5, OneStep
<1> QED
  BY <1>2, <1>3

LEMMA CreateBeginsKeeps ==
    ASSUME NamesAssumption, IndexInv, NEW p \in Proc, CreateBegins(p)
    PROVE  IndexInv'
<1>0. PICK u : u = [task[p] EXCEPT !.at = "writing"]
  OBVIOUS
<1>1. /\ TaskOK(task[p]) /\ task[p] \in Tasks /\ ~task[p].opened /\ Busy(p) /\ task[p].at = "waiting"
      /\ lock = Nobody /\ lock' = p /\ UNCHANGED source /\ Become(p, u)
      /\ file' = [at |-> "partial", by |-> p, mtime |-> source.at, index |-> Nothing]
  BY <1>0 DEF CreateBegins, IndexInv, TaskInv, TaskOK, Busy
<1>2. /\ u \in Tasks /\ u.at = "writing" /\ u.pkgs = task[p].pkgs /\ u.kept = task[p].kept
      /\ u.idmap = task[p].idmap /\ ~u.opened /\ u.index = task[p].index /\ u.alone = task[p].alone
  BY <1>0, <1>1 DEF Tasks
<1>3. TaskOK(u)
  BY <1>1, <1>2, GoesOn DEF TaskOK
<1>4. FileInv'
  <2>1. source.at \in Nat
    BY DEF IndexInv, SourceInv
  <2> QED
    BY <1>1, <2>1, NothingIs DEF FileInv, FileStates
<1>5. u.alone => Finds(u, p)'
  BY <1>1, <1>2 DEF IndexInv, Undisturbed, Finds
<1> QED
  BY <1>1, <1>2, <1>3, <1>4, <1>5, OneStep DEF NamesAssumption

LEMMA CreateFailsKeeps ==
    ASSUME IndexInv, NEW p \in Proc, CreateFails(p)
    PROVE  IndexInv'
<1>0. PICK t, u : t = [task[p] EXCEPT !.alone = FALSE] /\ u = [t EXCEPT !.at = "loading"]
  OBVIOUS
<1>1. /\ TaskOK(task[p]) /\ task[p] \in Tasks /\ ~task[p].opened /\ Busy(p) /\ task[p].at = "waiting"
      /\ lock # p /\ UNCHANGED <<source, file, lock>>
      /\ IF t.then = "update" THEN Become(p, u) ELSE Settle(p, GaveUp(t))
  BY <1>0 DEF CreateFails, IndexInv, TaskInv, TaskOK, Busy
<1>2. FileInv'
  BY <1>1 DEF IndexInv, FileInv
<1>3. /\ t \in Tasks /\ t.at = "waiting" /\ t.pkgs = task[p].pkgs /\ t.kept = task[p].kept
      /\ t.idmap = task[p].idmap /\ ~t.opened /\ t.index = task[p].index /\ ~t.alone
  BY <1>0, <1>1 DEF Tasks
<1>4. /\ u \in Tasks /\ u.at = "loading" /\ u.pkgs = task[p].pkgs /\ u.kept = task[p].kept
      /\ u.idmap = task[p].idmap /\ ~u.opened /\ u.index = task[p].index /\ ~u.alone
  BY <1>0, <1>1 DEF Tasks
<1>5. TaskOK(t) /\ TaskOK(u)
  BY <1>1, <1>3, <1>4, GoesOn DEF TaskOK
<1>6. CASE Become(p, u)
  BY <1>1, <1>2, <1>4, <1>5, <1>6, OneStep
<1>7. CASE Settle(p, GaveUp(t))
  BY <1>1, <1>2, <1>3, <1>5, <1>7, SettleKeeps
<1> QED
  BY <1>1, <1>6, <1>7

LEMMA CreateEndsKeeps ==
    ASSUME NamesAssumption, FilesAssumption, KeysAssumption, IndexInv, NEW p \in Proc, CreateEnds(p)
    PROVE  IndexInv'
<1>1. PICK u, pkgs, kept, prev :
        /\ u = [task[p] EXCEPT !.at = "loading", !.index = Nothing]
        /\ pkgs = task[p].pkgs /\ kept = task[p].kept /\ prev = task[p].index
  OBVIOUS
<1>2. TaskOK(task[p]) /\ task[p] \in Tasks /\ lock = p /\ source.at \in Nat
  <2>1. task[p].at = "writing"
    BY DEF CreateEnds
  <2>2. source.at \in Nat
    BY DEF IndexInv, SourceInv
  <2> QED
    BY <2>1, <2>2 DEF IndexInv, TaskInv
<1>3. ~task[p].opened /\ Busy(p) /\ task[p].at = "writing" /\ UNCHANGED source /\ Become(p, u)
  BY <1>1, <1>2 DEF CreateEnds, TaskOK, Busy
<1>4. lock' = Nobody
  BY <1>2 DEF CreateEnds, ReleaseLock
<1>5. /\ pkgs \in Seq(Package) /\ prev \in Indices /\ Right(prev)
      /\ kept \subseteq ToSet(pkgs) /\ kept \subseteq Package
  BY <1>1, <1>2 DEF TaskOK, Tasks
<1>6. PICK lost \in SUBSET ({Key[q] : q \in ToSet(pkgs)} \ KeysOf(prev)) :
        file' = IF file.by = p
                THEN [at |-> "whole", by |-> Nobody, mtime |-> source.at, index |-> Made(pkgs, prev, lost)]
                ELSE file
  BY <1>1 DEF CreateEnds
<1>7. lost \in SUBSET Keys /\ lost \intersect KeysOf(prev) = {}
  BY <1>5 DEF ToSet, Keys
<1>8. PICK made : made = Made(pkgs, prev, lost)
  OBVIOUS
<1>9. made \in Indices /\ KeysOf(made) = {Key[q] : q \in ToSet(pkgs)} /\ Right(made)
  BY <1>5, <1>7, <1>8, MadeIs, MadeRight
<1>10. Missing(made, kept) = {}
  BY <1>5, <1>9 DEF Missing
<1>11. FileInv'
  BY <1>2, <1>4, <1>6, <1>8, <1>9 DEF IndexInv, FileInv, FileStates
<1>12. /\ u \in Tasks /\ u.at = "loading" /\ u.pkgs = pkgs /\ u.kept = kept
       /\ u.idmap = task[p].idmap /\ ~u.opened /\ u.index = Nothing /\ u.alone = task[p].alone
  BY <1>1, <1>2, <1>3, NothingIs DEF Tasks
<1>13. TaskOK(u)
  BY <1>1, <1>2, <1>12, NothingIs, GoesOn
<1>14. u.alone => Finds(u, p)'
  <2> SUFFICES ASSUME u.alone PROVE Finds(u, p)'
    OBVIOUS
  <2>1. file.by = p /\ kept # {}
    BY <1>1, <1>3, <1>12 DEF IndexInv, Undisturbed, Finds
  <2>2. file'.at = "whole" /\ file'.index = made
    BY <1>6, <1>8, <2>1
  <2> QED
    BY <1>10, <1>12, <2>1, <2>2 DEF Finds
<1> QED
  BY <1>2, <1>3, <1>4, <1>11, <1>12, <1>13, <1>14, OneStep DEF NamesAssumption

LEMMA CloseKeeps ==
    ASSUME NamesAssumption, IndexInv, NEW p \in Proc, Close(p)
    PROVE  IndexInv'
<1>1. Become(p, Away) /\ UNCHANGED <<source, file, lock>> /\ task[p].at = "open"
  BY DEF Close
<1>2. task'[p] = Away /\ \A o \in Proc \ {p} : task'[o] = task[o]
  BY <1>1, BecomeIs DEF IndexInv
<1>3. TaskInv'
  BY <1>1, AwayIs, TasksKept DEF IndexInv, TaskInv
<1>4. ASSUME NEW o \in Proc PROVE Undisturbed(o)'
  <2>1. Others(o)' \subseteq Others(o)
    BY <1>1, <1>2, AwayIs DEF Others
  <2>2. Undisturbed(o)
    BY DEF IndexInv
  <2>3. CASE o = p
    BY <1>2, <2>3, AwayIs DEF Undisturbed, Busy, Finds
  <2>4. CASE o # p
    BY <1>1, <1>2, <2>1, <2>2, <2>4 DEF Undisturbed, Busy, Finds
  <2> QED
    BY <2>3, <2>4
<1> QED
  BY <1>1, <1>3, <1>4 DEF IndexInv, SourceInv, FileInv

LEMMA DieKeeps ==
    ASSUME NamesAssumption, IndexInv, NEW p \in Proc, DieAtWork(p)
    PROVE  IndexInv'
<1>1. Become(p, Away) /\ UNCHANGED source /\ Busy(p)
      /\ lock' = (IF lock = p THEN Nobody ELSE lock)
      /\ file' = (IF file.by = p THEN [file EXCEPT !.by = Nobody] ELSE file)
  BY DEF DieAtWork, Busy
<1>2. task'[p] = Away
  BY <1>1, BecomeIs DEF IndexInv
<1>3. FileInv'
  BY <1>1 DEF NamesAssumption, IndexInv, FileInv, FileStates
<1>4. TaskInv'
  BY <1>1, AwayIs, TasksKept DEF IndexInv, NamesAssumption
<1>5. Undisturbed(p)'
  BY <1>2, AwayIs DEF Undisturbed, Busy, Finds
<1> QED
  BY <1>1, <1>3, <1>4, <1>5, OthersUndisturbed DEF IndexInv, SourceInv

(* A process that begins.                                                  *)
LEMMA BeginsKeeps ==
    ASSUME IndexInv, NEW p \in Proc, task[p].at = "away", NEW t, TaskOK(t), t.at \in {"open", "opening"},
           t.at = "open" => t.kept = {}, t.at = "opening" => t.kept # {}, ~t.opened,
           BeginTask(p, t), UNCHANGED <<source, file, lock>>
    PROVE  IndexInv'
<1>1. PICK u : u = [t EXCEPT !.alone = Others(p) = {}]
  OBVIOUS
<1>2. t \in Tasks /\ task \in [Proc -> Tasks] /\ lock # p
  BY DEF TaskOK, IndexInv, TaskInv
<1>3. task'[p] = u
  BY <1>1, <1>2 DEF BeginTask
<1>4. /\ u \in Tasks /\ u.at = t.at /\ u.pkgs = t.pkgs /\ u.kept = t.kept /\ u.idmap = t.idmap
      /\ ~u.opened /\ u.index = t.index /\ (u.alone <=> Others(p) = {})
  BY <1>1, <1>2 DEF Tasks
<1>5. ASSUME NEW o \in Proc \ {p}
      PROVE  /\ task'[o] \in Tasks /\ task'[o] = [task[o] EXCEPT !.alone = task[o].alone /\ o \notin Others(p)]
             /\ task'[o].alone <=> (task[o].alone /\ o \notin Others(p))
             /\ TaskOK(task'[o]) /\ task'[o].at = task[o].at
             /\ ~Busy(o) /\ task'[o].alone => Finds(task'[o], o)
  <2>1. PICK v, w : v = task[o] /\ w = [task[o] EXCEPT !.alone = task[o].alone /\ o \notin Others(p)]
    OBVIOUS
  <2>2. v \in Tasks /\ TaskOK(v)
    BY <2>1, <1>2 DEF IndexInv, TaskInv
  <2>3. task'[o] = w
    BY <2>1, <1>2, <1>5 DEF BeginTask
  <2>4. /\ w \in Tasks /\ w.at = v.at /\ w.pkgs = v.pkgs /\ w.kept = v.kept /\ w.idmap = v.idmap
        /\ w.opened = v.opened /\ w.index = v.index /\ w.reqs = v.reqs /\ w.create = v.create
        /\ (w.alone <=> (v.alone /\ o \notin Others(p)))
    BY <2>1, <2>2 DEF Tasks
  <2>5. TaskOK(w)
    BY <2>2, <2>4 DEF TaskOK
  <2>6. ~Busy(o) /\ w.alone => Finds(w, o)
    BY <2>1, <2>4 DEF IndexInv, Undisturbed, Busy, Finds
  <2> QED
    BY <2>1, <2>3, <2>4, <2>5, <2>6
<1>6. TaskOK(u)
  BY <1>4, GoesOn DEF TaskOK
<1>7. task' \in [Proc -> Tasks]
  <2>1. DOMAIN task' = Proc /\ task' = [o \in Proc |-> task'[o]]
    BY DEF BeginTask
  <2> QED
    BY <1>3, <1>4, <1>5, <2>1
<1>8. TaskInv'
  BY <1>2, <1>3, <1>4, <1>5, <1>6, <1>7 DEF IndexInv, TaskInv
<1>9. Undisturbed(p)'
  <2>1. Others(p)' = Others(p)
    BY <1>5 DEF Others
  <2> QED
    BY <1>3, <1>4, <2>1 DEF Undisturbed, Finds
<1>10. ASSUME NEW o \in Proc \ {p}, task'[o].alone PROVE ~Busy(o)
  BY <1>5, <1>10 DEF Others, Busy
<1>11. ASSUME NEW o \in Proc \ {p} PROVE Undisturbed(o)'
  <2> SUFFICES ASSUME task'[o].alone PROVE Undisturbed(o)'
    BY DEF Undisturbed
  <2>1. PICK w : w = task'[o]
    OBVIOUS
  <2>2. ~Busy(o) /\ w.at = task[o].at /\ Finds(w, o)
    BY <1>5, <1>10, <2>1
  <2>3. Finds(w, o)'
    BY <2>2 DEF Finds
  <2> QED
    BY <2>1, <2>2, <2>3 DEF Undisturbed, Busy, Finds
<1> QED
  BY <1>8, <1>9, <1>11 DEF IndexInv, SourceInv, FileInv

LEMMA LoadedIs ==
    ASSUME SourceInv
    PROVE  /\ LoadedTask \in Tasks /\ TaskOK(LoadedTask) /\ ~LoadedTask.opened /\ LoadedTask.kept = source.kept
           /\ LoadedTask.index = Nothing
<1>1. PICK u : u = LoadedTask
  OBVIOUS
<1>2. Away \in Tasks /\ TaskOK(Away)
  BY AwayIs DEF TaskOK
<1>3. u \in Tasks /\ u.pkgs = source.pkgs /\ u.kept = source.kept /\ u.idmap = Away.idmap /\ ~u.opened
      /\ u.index = Away.index
  BY <1>1, <1>2, AwayIs DEF LoadedTask, SourceInv, Tasks
<1>4. Range(Away.idmap) = {} /\ Away.index = Nothing
  BY DEF Away, Range
<1>5. TaskOK(u)
  BY <1>3, <1>4, NothingIs DEF TaskOK, SourceInv
<1> QED
  BY <1>1, <1>3, <1>4, <1>5

LEMMA LoadKeeps ==
    ASSUME BoundsAssumption, IndexInv, NEW p \in Proc, Load(p)
    PROVE  IndexInv'
<1>1. PICK create \in Creating :
        BeginTask(p, [LoadedTask EXCEPT !.at = IF source.kept = {} THEN "open" ELSE "opening",
                                    !.create = create])
  BY DEF Load
<1>2. PICK u, t : u = LoadedTask /\ t = [u EXCEPT !.at = IF source.kept = {} THEN "open" ELSE "opening",
                                              !.create = create]
  OBVIOUS
<1>3. u \in Tasks /\ TaskOK(u) /\ ~u.opened /\ u.kept = source.kept
  BY <1>2, LoadedIs DEF IndexInv
<1>4. create \in BOOLEAN
  BY DEF BoundsAssumption
<1>5. /\ t \in Tasks /\ t.at = (IF source.kept = {} THEN "open" ELSE "opening") /\ t.pkgs = u.pkgs
      /\ t.kept = u.kept /\ t.idmap = u.idmap /\ ~t.opened /\ t.index = u.index
  BY <1>2, <1>3, <1>4 DEF Tasks
<1>6. TaskOK(t)
  BY <1>3, <1>5, GoesOn DEF TaskOK
<1>7. BeginTask(p, t)
  BY <1>1, <1>2
<1> QED
  BY <1>3, <1>5, <1>6, <1>7, BeginsKeeps DEF Load

LEMMA UpdateKeeps ==
    ASSUME IndexInv, NEW p \in Proc, Update(p)
    PROVE  IndexInv'
<1>1. PICK u, t : u = LoadedTask /\ t = [u EXCEPT !.at = "opening", !.update = TRUE, !.create = TRUE,
                                              !.since = source.at]
  OBVIOUS
<1>2. u \in Tasks /\ TaskOK(u) /\ ~u.opened /\ u.kept = source.kept /\ source.at \in Nat
  BY <1>1, LoadedIs DEF IndexInv, SourceInv
<1>3. /\ t \in Tasks /\ t.at = "opening" /\ t.pkgs = u.pkgs
      /\ t.kept = u.kept /\ t.idmap = u.idmap /\ ~t.opened /\ t.index = u.index
  BY <1>1, <1>2 DEF Tasks
<1>4. TaskOK(t)
  BY <1>2, <1>3, GoesOn DEF TaskOK
<1>5. BeginTask(p, t)
  BY <1>1 DEF Update
<1> QED
  BY <1>2, <1>3, <1>4, <1>5, BeginsKeeps DEF Update

LEMMA PublishKeeps ==
    ASSUME BoundsAssumption, SourcesAssumption, IndexInv, Publish
    PROVE  IndexInv'
<1>1. PICK s \in Sources : source' = [at |-> source.at + 1, pkgs |-> s.pkgs, kept |-> s.kept]
  BY DEF Publish
<1>2. s.pkgs \in Seq(Package) /\ s.kept \subseteq ToSet(s.pkgs) /\ ToSet(s.pkgs) \subseteq Package
  BY DEF SourcesAssumption, ToSet
<1>3. source.at + 1 \in 1..MaxTime
  BY DEF Publish, BoundsAssumption, IndexInv, SourceInv
<1>4. SourceInv'
  BY <1>1, <1>2, <1>3 DEF SourceInv
<1> QED
  BY <1>4 DEF Publish, IndexInv, FileInv, TaskInv, Undisturbed, Busy, Others, Finds

LEMMA CleanKeeps ==
    ASSUME NamesAssumption, IndexInv, Clean
    PROVE  IndexInv'
<1>1. FileInv'
  BY AbsentIs DEF Clean, IndexInv, FileInv
<1>2. ASSUME NEW o \in Proc
      PROVE  /\ TaskOK(task'[o]) /\ task'[o].at = task[o].at
             /\ task'[o].alone => ~Busy(o) /\ Finds(task'[o], o)
  <2>1. PICK v, w : /\ v = task[o]
                    /\ w = [task[o] EXCEPT !.alone = task[o].alone /\ task[o].at \in {"away", "open"}]
    OBVIOUS
  <2>2. v \in Tasks /\ TaskOK(v)
    BY <2>1 DEF IndexInv, TaskInv
  <2>3. task'[o] = w
    BY <2>1, <1>2 DEF Clean
  <2>4. /\ w \in Tasks /\ w.at = v.at /\ w.pkgs = v.pkgs /\ w.kept = v.kept /\ w.idmap = v.idmap
        /\ w.opened = v.opened /\ w.index = v.index /\ w.reqs = v.reqs /\ w.create = v.create
        /\ (w.alone <=> (v.alone /\ v.at \in {"away", "open"}))
    BY <2>1, <2>2 DEF Tasks
  <2>5. TaskOK(w)
    BY <2>2, <2>4 DEF TaskOK
  <2>6. w.alone => ~Busy(o) /\ Finds(w, o)
    BY <2>1, <2>4 DEF IndexInv, Undisturbed, Busy, Finds
  <2> QED
    BY <2>1, <2>3, <2>4, <2>5, <2>6
<1>3. task' \in [Proc -> Tasks]
  <2>1. DOMAIN task' = Proc /\ task' = [o \in Proc |-> task'[o]]
    BY DEF Clean
  <2> QED
    BY <1>2, <2>1 DEF TaskOK
<1>4. TaskInv'
  BY <1>2, <1>3 DEF IndexInv, TaskInv, Clean
<1>5. ASSUME NEW o \in Proc PROVE Undisturbed(o)'
  <2> SUFFICES ASSUME task'[o].alone PROVE Undisturbed(o)'
    BY DEF Undisturbed
  <2>1. PICK w : w = task'[o]
    OBVIOUS
  <2>2. ~Busy(o) /\ w.at = task[o].at /\ Finds(w, o)
    BY <1>2, <2>1
  <2>3. Finds(w, o)'
    BY <2>2 DEF Finds, Busy
  <2> QED
    BY <2>1, <2>2, <2>3 DEF Undisturbed, Busy
<1> QED
  BY <1>1, <1>4, <1>5 DEF IndexInv, SourceInv, Clean

-----------------------------------------------------------------------------
(* What the constants are.                                                 *)
IndexAssumptions == /\ NamesAssumption /\ FilesAssumption /\ KeysAssumption
               /\ SourcesAssumption /\ BoundsAssumption

LEMMA IndexInitHolds == ASSUME IndexAssumptions, IndexInit PROVE IndexInv
<1>1. PICK s \in Sources : source = [at |-> 1, pkgs |-> s.pkgs, kept |-> s.kept]
  BY DEF IndexInit
<1>2. s.pkgs \in Seq(Package) /\ s.kept \subseteq ToSet(s.pkgs) /\ ToSet(s.pkgs) \subseteq Package
  BY DEF IndexAssumptions, SourcesAssumption, ToSet
<1>3. SourceInv
  BY <1>1, <1>2 DEF IndexAssumptions, BoundsAssumption, SourceInv
<1>4. FileInv
  BY AbsentIs DEF IndexInit, FileInv
<1>5. \A p \in Proc : task[p] = Away /\ task[p] \in Tasks
  BY AwayIs DEF IndexInit, TaskOK
<1>6. TaskInv
  BY <1>5, AwayIs DEF IndexInit, TaskInv, IndexAssumptions, NamesAssumption
<1>7. \A p \in Proc : Undisturbed(p)
  BY <1>5, AwayIs DEF Undisturbed, Busy, Finds
<1> QED
  BY <1>3, <1>4, <1>6, <1>7 DEF IndexInv

LEMMA IndexNextKeeps == ASSUME IndexAssumptions, IndexInv, [IndexNext]_indexVars PROVE IndexInv'
<1> USE DEF IndexAssumptions
<1>1. ASSUME NEW p \in Proc, IndexStep(p) PROVE IndexInv'
  BY <1>1, OpenIndexKeeps, BrokenKeeps, OutdatedKeeps, CurrentKeeps,
     CreateBeginsKeeps, CreateEndsKeeps DEF IndexStep
<1>2. ASSUME NEW p \in Proc, Load(p) \/ Update(p) \/ CreateFails(p) \/ Close(p) \/ DieAtWork(p) PROVE IndexInv'
  BY <1>2, LoadKeeps, UpdateKeeps, CreateFailsKeeps, CloseKeeps, DieKeeps
<1>3. CASE UNCHANGED indexVars
  BY <1>3 DEF indexVars, IndexInv, SourceInv, FileInv, TaskInv, Undisturbed, Busy, Others, Finds
<1> QED
  BY <1>1, <1>2, <1>3, PublishKeeps, CleanKeeps DEF IndexNext, Finished

LEMMA IndexInvariance == ASSUME IndexAssumptions PROVE IndexSpec => []IndexInv
<1>1. IndexInit => IndexInv
  BY IndexInitHolds
<1>2. IndexInv /\ [IndexNext]_indexVars => IndexInv'
  BY IndexNextKeeps
<1> QED
  BY <1>1, <1>2, PTL DEF IndexSpec

(* Every reachable state is well typed: the lock belongs to the one who    *)
(* writes (dirindex_create), for every number of processes and packages.   *)
THEOREM IndexTypesCorrect == ASSUME IndexAssumptions PROVE IndexSpec => []IndexTypeOK
<1>1. IndexInv => IndexTypeOK
  BY DEF IndexInv, SourceInv, FileInv, FileStates, TaskInv, TaskOK, Tasks, IndexTypeOK
<1> QED
  BY <1>1, IndexInvariance, PTL

(* What an open index answers is what the loaded packages say, whichever   *)
(* processes made it, from whichever earlier one, and whoever died over    *)
(* it: pkgdir_dirindex_get, pkgdir_dirindex_pkg_has_path.                  *)
THEOREM AnswersRight == ASSUME IndexAssumptions PROVE IndexSpec => []AnswersAreRight
<1>1. ASSUME IndexInv, NEW p \in Proc, task[p].opened
      PROVE  TaskOK(task[p]) /\ FilesAssumption /\ KeysAssumption
  BY <1>1 DEF IndexAssumptions, IndexInv, TaskInv
<1>2. IndexInv => AnswersAreRight
  BY <1>1, RightAnswers DEF AnswersAreRight
<1> QED
  BY <1>2, IndexInvariance, PTL

(* Whoever may make the index and is not disturbed ends with one, from     *)
(* whatever the dead have left (open_dirindex).                            *)
THEOREM OpensFind == ASSUME IndexAssumptions PROVE IndexSpec => []OpensFindIndex
<1>1. IndexInv => OpensFindIndex
  BY DEF IndexInv, Undisturbed, Finds, OpensFindIndex
<1> QED
  BY <1>1, IndexInvariance, PTL
==============================================================================
