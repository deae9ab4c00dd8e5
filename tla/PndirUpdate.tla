------------------------------ MODULE PndirUpdate ------------------------------
(***************************************************************************)
(* How poldek keeps its copy of a remote "pndir" index up to date          *)
(* (pkgdir/pndir/update.c, pndir.c, save.c, pkgdir/pkgdir.c).              *)
(*                                                                         *)
(* A repository is published as an index, a digest of the index's packages *)
(* and a list of patches (diff toc), each leading from one version of the  *)
(* index to a later one.  `poldek --mkidx' writes the three files one      *)
(* after another, and a client fetches them one after another: it may meet *)
(* any mixture of two versions.  The client keeps the index and its digest *)
(* in a cache.                                                             *)
(*                                                                         *)
(* The contents of an index are the set of its packages, and a digest is   *)
(* abstracted to the set it is the digest of: digests are equal just when  *)
(* the sets are.  Description files, languages, compression and cached     *)
(* patches are left out: opening descriptions, or a patch, may fail.  The  *)
(* stub and directory indexes, written when a command ends and not read by *)
(* an update, are no part of this module.                                  *)
(***************************************************************************)
EXTENDS Integers, Sequences

CONSTANTS
    Pkg,          \* packages (name, version, architecture) an index may list
    MaxTs,        \* bound: the last time stamp an index may carry
    None,         \* no file, no version
    Broken        \* a file that is there but not whole

Contents == (SUBSET Pkg) \ {{}}
Stamp == 1..MaxTs
Version == [pkgs : Contents, ts : Stamp]
Patch == [ts : Stamp, orig_ts : Stamp, md : Contents,
          plus : SUBSET Pkg, minus : SUBSET Pkg]
\* An index in the memory of the client, which patches may leave with any
\* packages.
Loaded == [pkgs : SUBSET Pkg, ts : Stamp]

ASSUME PndirAssumption ==
    /\ MaxTs \in Nat \ {0}
    /\ None # Broken
    /\ \A file \in Loaded \union SUBSET Pkg : file \notin {None, Broken}

VARIABLES
    \* the repository
    index, digest, toc, \* its files
    mkidx,              \* the mkidx that is running
    published,          \* every version ever published (history)
    \* the client's cache
    md, idx,            \* the digest and the index
    \* the client's running command
    command, pc,
    opening,            \* pkgdir_srcopen() in progress: flags, what follows
    held,               \* the pkgdir of pkgdir_update(), as patched so far
    dg,                 \* the digest of the pkgdir opened last
    remote,             \* dg_remote
    patches, applied,   \* the toc's lines left to read; npatch > 0
    dups,               \* packages listed twice in the patched pkgdir
    \* history of the running command
    seen,               \* contents the repository had meanwhile
    coherent            \* the cached digest was the cached index's

repository == <<index, digest, toc, mkidx, published>>
cache == <<md, idx>>
patching == <<remote, patches, applied, dups>>
run == <<command, pc, opening, held, dg, patching>>
history == <<seen, coherent>>
vars == <<repository, cache, run, history>>

Idle == pc = "idle"

-----------------------------------------------------------------------------
(***************************************************************************)
(* The repository: mkidx                                                   *)
(***************************************************************************)

NoMkidx == [stage |-> "idle", pkgs |-> {}, ts |-> 0, orig |-> None]

\* What a client of the repository may learn of its contents.
Shown == {digest.pkgs} \union (IF index \in Version THEN {index.pkgs} ELSE {})

\* A command that is running has seen what the repository shows now.
See == seen' = IF Idle THEN {} ELSE seen \union Shown'

\* mkidx scans the packages, loads the index there was unless deltas are
\* not wanted (--mo=nodiff) or it cannot be read, and begins to write the
\* index.  The new time stamp is later than any before: pkgdir_save_as()
\* corrects it after comparing indexes, and otherwise the clock is trusted.
StartMkidx ==
    /\ mkidx = NoMkidx
    /\ \E pkgs \in Contents, ts \in Stamp, orig \in {index, None} :
         /\ \A v \in published : v.ts < ts
         /\ mkidx' = [stage |-> "index", pkgs |-> pkgs, ts |-> ts,
                      orig |-> IF orig = Broken THEN None ELSE orig]
    /\ index' = Broken
    /\ UNCHANGED <<digest, toc, published, cache, run, coherent>>
    /\ See

WriteIndex ==
    /\ mkidx.stage = "index"
    /\ index' = [pkgs |-> mkidx.pkgs, ts |-> mkidx.ts]
    /\ published' = published \union {index'}
    /\ mkidx' = [mkidx EXCEPT !.stage = "digest"]
    /\ UNCHANGED <<digest, toc, cache, run, coherent>>
    /\ See

\* A patch is made when there was an index and it differs (pkgdir_diff).
HasDiff == mkidx.orig # None /\ mkidx.orig.pkgs # mkidx.pkgs

WriteDigest ==
    /\ mkidx.stage = "digest"
    /\ digest' = [pkgs |-> mkidx.pkgs, brandnew |-> ~HasDiff]
    /\ mkidx' = IF HasDiff THEN [mkidx EXCEPT !.stage = "diff"] ELSE NoMkidx
    /\ UNCHANGED <<index, toc, published, cache, run, coherent>>
    /\ See

Diff == [ts |-> mkidx.ts, orig_ts |-> mkidx.orig.ts, md |-> mkidx.orig.pkgs,
         plus |-> mkidx.pkgs \ mkidx.orig.pkgs,
         minus |-> mkidx.orig.pkgs \ mkidx.pkgs]

\* The patch is appended to the toc; if it brings packages the oldest lines
\* are dropped, until the patches are no larger than the index.
WriteDiff ==
    /\ mkidx.stage = "diff"
    /\ LET all == Append(toc, Diff)
       IN  \E first \in 1..Len(all) :
             /\ Diff.plus = {} => first = 1
             /\ toc' = SubSeq(all, first, Len(all))
    /\ mkidx' = NoMkidx
    /\ UNCHANGED <<index, digest, published, cache, run, coherent>>
    /\ See

\* mkidx is interrupted: the files stay as they are.
MkidxDies ==
    /\ mkidx # NoMkidx
    /\ mkidx' = NoMkidx
    /\ UNCHANGED <<index, digest, toc, published, cache, run, coherent>>
    /\ See

Repository == StartMkidx \/ WriteIndex \/ WriteDigest \/ WriteDiff \/ MkidxDies

-----------------------------------------------------------------------------
(***************************************************************************)
(* The client: commands                                                    *)
(***************************************************************************)

\* pkgdir_srcopen(src, refresh ? PKGDIR_OPEN_REFRESH : 0), and what it is for:
\*   "load", "up"   pkgset_load(), source_update()
\*   "upa"          pndir_m_update_a()
\*   "whole"        update_whole_idx(), called by pndir_m_update_a()
\*   "instead"      update_whole_idx(), called by pndir_m_update()
\*   "stub"         pkgdir_update_a(), to update the stub index
Open(for, refresh) ==
    /\ pc' = "digest"
    /\ opening' = [for |-> for, refresh |-> refresh]

NotOpening == [for |-> "load", refresh |-> FALSE]

\* The command ends.
End ==
    /\ pc' = "idle"
    /\ opening' = NotOpening
    /\ held' = None /\ dg' = None /\ remote' = None
    /\ patches' = <<>> /\ applied' = FALSE /\ dups' = {}
    /\ seen' = {} /\ coherent' = TRUE
    /\ UNCHANGED command

\* poldek starts and loads the index, or --up, or --upa.
Start ==
    /\ Idle
    /\ command' \in {"load", "up", "upa"}
    /\ Open(command', FALSE)
    /\ seen' = Shown
    /\ coherent' = (idx \in Version => md = idx.pkgs)
    /\ UNCHANGED <<repository, cache, held, dg, patching>>

\* The pkgdir could not be opened.
OpenFails ==
    \/ /\ opening.for \in {"load", "up", "whole", "instead"}
       /\ End
    \/ /\ opening.for = "upa"           \* broken cached copy
       /\ Open("whole", TRUE)
       /\ UNCHANGED <<command, held, dg, patching, history>>
    \/ /\ opening.for = "stub"
       /\ pc' = "updated"
       /\ UNCHANGED <<command, opening, held, dg, patching, history>>

\* The cached digest if there is one and it will do; otherwise it is removed
\* and fetched, which may fail.
DigestCached == ~opening.refresh /\ md # None

OpenDigest ==
    /\ pc = "digest"
    /\ md' \in IF DigestCached THEN {md} ELSE {digest.pkgs, None}
    /\ IF md' \in {None, Broken} THEN OpenFails
       ELSE /\ pc' = "index"
            /\ dg' = md'
            /\ UNCHANGED <<command, opening, held, patching, history>>
    /\ UNCHANGED <<repository, idx>>

IndexCachedAnyway == idx # None
IndexCached == ~opening.refresh /\ idx # None

\* An index that is found broken is opened again without the cache.
ReopenCached == Open(opening.for, FALSE)
Reopen == Open(opening.for, TRUE)

\* The pkgdir is open.  One that had to be fetched is up to date.
Opened ==
    \/ /\ opening.for \in {"load", "up"}
       /\ held' = idx'
       /\ pc' = IF opening.for = "up" /\ IndexCached THEN "compare" ELSE "updated"
       /\ UNCHANGED <<command, opening, dg, patching, history>>
    \/ /\ opening.for = "upa" /\ IndexCached
       /\ pc' = "compare_a"
       /\ UNCHANGED <<command, opening, held, dg, patching, history>>
    \/ /\ opening.for = "whole" \/ (opening.for = "upa" /\ ~IndexCached)
       /\ Open("stub", FALSE)
       /\ UNCHANGED <<command, held, dg, patching, history>>
    \/ /\ opening.for \in {"instead", "stub"}
       /\ pc' = "updated"
       /\ UNCHANGED <<command, opening, held, dg, patching, history>>

Verified(file) == file \in Version

\* What is fetched is the repository's file, which may be half written.
\* A cached index that fails verification is fetched anew, and the digest
\* with it; one whose header cannot be read is an error, as is a fresh one
\* that is broken, or a lack of its descriptions.
OpenIndex ==
    /\ pc = "index"
    /\ idx' \in IF IndexCached THEN {idx} ELSE {index, None}
    /\ \/ OpenFails
       \/ /\ Verified(idx')
          /\ Opened
       \/ /\ idx' = Broken /\ IndexCached
          /\ Reopen
          /\ UNCHANGED <<command, held, dg, patching, history>>
    /\ UNCHANGED <<repository, md>>

-----------------------------------------------------------------------------
(***************************************************************************)
(* The client: pndir_m_update() and pndir_m_update_a()                     *)
(***************************************************************************)

Fail == End /\ UNCHANGED <<repository, cache>>

\* PKGDIR_UPRC_ERR_DESYNCHRONIZED: pkgdir_update() goes on with --upa if the
\* source has the option "autoupa".
Desynchronized ==
    \/ /\ Open("upa", FALSE)
       /\ UNCHANGED <<repository, cache, command, held, dg, patching, history>>
    \/ Fail

\* is_uptodate(): the repository's digest is fetched and compared.
Compare ==
    /\ pc = "compare"
    /\ \/ Fail
       \/ /\ digest.pkgs = dg
          /\ pc' = "updated"
          /\ UNCHANGED <<repository, cache, command, opening, held, dg, patching, history>>
       \/ /\ digest.pkgs # dg /\ digest.brandnew
          /\ Desynchronized
       \/ /\ digest.pkgs # dg /\ ~digest.brandnew
          /\ remote' = digest.pkgs
          /\ pc' = "toc"
          /\ UNCHANGED <<repository, cache, command, opening, held, dg,
                         patches, applied, dups, history>>

\* The same for --upa, which fetches the index whatever is wrong.
CompareA ==
    /\ pc = "compare_a"
    /\ \/ /\ digest.pkgs = dg
          /\ Open("stub", FALSE)
       \/ Open("whole", TRUE)
    /\ UNCHANGED <<repository, cache, command, held, dg, patching, history>>

\* The toc is fetched, if there is one.  When the patches later than the
\* held index turn out larger than the index itself, the index is fetched
\* instead.
FetchToc ==
    /\ pc = "toc"
    /\ \/ Fail
       \/ /\ toc # <<>>
          /\ patches' = toc
          /\ pc' = "patch"
          /\ UNCHANGED <<repository, cache, command, opening, held, dg,
                         remote, applied, dups, history>>
       \/ /\ \E i \in DOMAIN toc : toc[i].ts > held.ts
          /\ Open("instead", TRUE)
          /\ UNCHANGED <<repository, cache, command, held, dg, patching, history>>

\* The lines of the toc that are passed over: older than the held index, or
\* before the first that applies to its digest.
WantedByDigest(patch) == applied \/ patch.md = dg
Wanted(patch) == patch.ts > held.ts /\ (applied \/ patch.md = dg)

NextPatches ==
    {i \in DOMAIN patches :
        Wanted(patches[i]) /\ \A j \in 1..(i - 1) : ~Wanted(patches[j])}

\* pkgdir_patch().  A package that is added twice is listed twice.
ApplyPatch ==
    /\ pc = "patch"
    /\ \E i \in NextPatches :
         LET patch == patches[i]
             kept == held.pkgs \ patch.minus
         IN  /\ held' = [held EXCEPT !.pkgs = kept \union patch.plus, !.ts = patch.ts]
             /\ dups' = (dups \ patch.minus) \union (kept \cap patch.plus)
             /\ patches' = SubSeq(patches, i + 1, Len(patches))
    /\ applied' = TRUE
    /\ UNCHANGED <<repository, cache, command, pc, opening, dg, remote, history>>

\* A patch cannot be fetched or read.
PatchMissing ==
    /\ pc = "patch"
    /\ NextPatches # {}
    /\ IF applied THEN Fail ELSE Desynchronized

\* The digest of the patched packages is the one fetched before the toc.
SameDigestAssumed == TRUE
SameDigest == held.pkgs = remote

\* All the patches there are have been applied.
PatchesApplied ==
    /\ pc = "patch"
    /\ NextPatches = {}
    /\ \/ /\ ~applied
          /\ Desynchronized
       \/ /\ applied /\ dups # {}
          /\ Fail
       \/ /\ applied /\ dups = {} /\ ~SameDigest
          /\ Desynchronized
       \/ /\ applied /\ dups = {} /\ SameDigest
          /\ pc' = "save"
          /\ UNCHANGED <<repository, cache, command, opening, held, dg, patching, history>>

-----------------------------------------------------------------------------
(***************************************************************************)
(* The client: pkgdir_save() and the end of an update                      *)
(***************************************************************************)

\* The cached index is removed and one is begun, if that can be.
RemoveIndex ==
    /\ pc = "save"
    /\ \/ /\ idx' = Broken
          /\ pc' = "write"
          /\ UNCHANGED <<command, opening, held, dg, patching, history>>
       \/ /\ idx' = None
          /\ End
    /\ UNCHANGED <<repository, md>>

SaveIndex ==
    /\ pc = "write"
    /\ idx' = held
    /\ pc' = "write_digest"
    /\ UNCHANGED <<repository, md, command, opening, held, dg, patching, history>>

SaveDigest ==
    /\ pc = "write_digest"
    /\ md' = held.pkgs
    /\ pc' = "updated"
    /\ UNCHANGED <<repository, idx, command, opening, held, dg, patching, history>>

\* The command succeeds.
Succeed ==
    /\ pc = "updated"
    /\ End
    /\ UNCHANGED <<repository, cache>>

\* poldek is killed.  What it was fetching or writing is gone or broken.
Die ==
    /\ ~Idle
    /\ End
    /\ md' \in {md} \union
          (IF pc = "digest" /\ ~DigestCached THEN {None, Broken}
           ELSE IF pc = "write_digest" THEN {None} ELSE {})
    /\ idx' \in {idx} \union
          (IF pc = "index" /\ ~IndexCached THEN {None, Broken} ELSE {})
    /\ UNCHANGED repository

Step ==
    \/ OpenDigest \/ OpenIndex
    \/ Compare \/ CompareA
    \/ FetchToc \/ ApplyPatch \/ PatchMissing \/ PatchesApplied
    \/ RemoveIndex \/ SaveIndex \/ SaveDigest
    \/ Succeed

-----------------------------------------------------------------------------
Init ==
    /\ \E pkgs \in Contents :
         /\ index = [pkgs |-> pkgs, ts |-> 1]
         /\ digest = [pkgs |-> pkgs, brandnew |-> TRUE]
    /\ toc = <<>>
    /\ mkidx = NoMkidx
    /\ published = {index}
    /\ md = None /\ idx = None
    /\ command = "load" /\ pc = "idle"
    /\ opening = NotOpening
    /\ held = None /\ dg = None /\ remote = None
    /\ patches = <<>> /\ applied = FALSE /\ dups = {}
    /\ seen = {} /\ coherent = TRUE

Next == Repository \/ Start \/ Step \/ Die

\* Commands run to their end; nobody has to run one, or to publish.
Spec == Init /\ [][Next]_vars /\ WF_vars(Step)

-----------------------------------------------------------------------------
TypeOK ==
    /\ index \in {None, Broken} \union Version
    /\ digest \in [pkgs : Contents, brandnew : BOOLEAN]
    /\ toc \in Seq(Patch) /\ patches \in Seq(Patch)
    /\ mkidx \in {NoMkidx} \union
          [stage : {"index", "digest", "diff"}, pkgs : Contents, ts : Stamp,
           orig : {None} \union Version]
    /\ published \subseteq Version
    /\ md \in {None, Broken} \union Contents
    /\ idx \in {None, Broken} \union Version
    /\ command \in {"load", "up", "upa"}
    /\ pc \in {"idle", "digest", "index", "compare", "compare_a", "toc",
               "patch", "save", "write", "write_digest", "updated"}
    /\ opening \in [for : {"load", "up", "upa", "whole", "instead", "stub"},
                    refresh : BOOLEAN]
    /\ held \in {None} \union Loaded
    /\ dg \in {None} \union Contents /\ remote \in {None} \union Contents
    /\ applied \in BOOLEAN /\ dups \subseteq Pkg
    /\ seen \subseteq Contents /\ coherent \in BOOLEAN

\* Whatever mixture of versions was fetched, patched or left behind by a
\* death, a cached index that can be read has the packages of a version the
\* repository published, and a published version's time stamp.
CacheIsAuthentic ==
    idx \notin {None, Broken} =>
        /\ \E v \in published : v.pkgs = idx.pkgs
        /\ \E v \in published : v.ts = idx.ts

\* n_assert(patch->ts > pkgdir->ts) and n_assert(patch->orig_ts >= pkgdir->ts)
\* of pkgdir_patch() hold for whatever the toc lists.
NoAssertionFails ==
    pc = "patch" => \A i \in NextPatches :
        patches[i].ts > held.ts /\ patches[i].orig_ts >= held.ts

\* A --up or --upa that ends well leaves an index with contents that the
\* repository had while the command ran, if the cached digest was that of
\* the cached index when it began.
UpdatedIsCurrent ==
    pc = "updated" /\ command # "load" /\ coherent =>
        idx \in Version /\ idx.pkgs \in seen

\* Every command ends.
CommandsEnd == ~Idle ~> Idle
================================================================================
