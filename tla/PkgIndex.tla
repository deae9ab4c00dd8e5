------------------------------ MODULE PkgIndex ------------------------------
(***************************************************************************)
(* How a set of packages is ordered and made unique (pkgcmp.c, pkguniq.c), *)
(* and the indexes it is searched with: capabilities and requirements by   *)
(* name (capreqidx.c), files by path (fileindex.c).                        *)
(*                                                                         *)
(* A package set is a record: of a package p, name[p] is its name, evr[p]  *)
(* its version, arch[p] how well its architecture fits (the less the       *)
(* better), pri[p] the priority of its source, caps[p] its capabilities,   *)
(* its own name with its version among them, and files[p] its paths.  A    *)
(* path is the sequence of its components; what names a file has its path  *)
(* for a name.                                                             *)
(***************************************************************************)
EXTENDS PkgDB, SequencesExt

CONSTANTS Paths,        \* paths, among Name, in the order of strcmp
          NameRank,     \* the place of a name in that order
          MultiLib,     \* poldek_conf_MULTILIB
          Skipped       \* names that indexable_cap() keeps out of the index

Path == ToSet(Paths)

ASSUME PathAssumption == Path \subseteq Name
ASSUME NameRankAssumption == /\ NameRank \in [Name -> Nat]
                             /\ \A m, n \in Name : NameRank[m] = NameRank[n] => m = n
ASSUME MultiLibAssumption == MultiLib \in BOOLEAN

-----------------------------------------------------------------------------
(* pkg_cmp_name_evr *)
SameNevr(set, p, q) == set.name[p] = set.name[q] /\ set.evr[p] = set.evr[q]

(* pkg_cmp_name_evr_arch_rev_srcpri: the newest, the best fitting and what *)
(* comes from the first source come first.                                 *)
Precedes(set, p, q) ==
    \/ NameRank[set.name[p]] < NameRank[set.name[q]]
    \/ set.name[p] = set.name[q] /\ set.evr[p] > set.evr[q]
    \/ SameNevr(set, p, q) /\ set.arch[p] < set.arch[q]
    \/ SameNevr(set, p, q) /\ set.arch[p] = set.arch[q] /\ set.pri[p] < set.pri[q]

Sorted(set, ps) ==
    [i \in 1..Cardinality(ps) |->
        CHOOSE p \in ps : Cardinality({q \in ps : Precedes(set, q, p)}) = i - 1]

(* pkg_cmp_uniq_name, pkg_cmp_uniq_name_evr: architectures count only when *)
(* several are installed side by side.                                     *)
Duplicate(set, names, p, q) ==
    \/ names /\ set.name[p] = set.name[q]
    \/ SameNevr(set, p, q) /\ (MultiLib => set.arch[p] = set.arch[q])

(* packages_uniq: of what is alike the first is left.                      *)
Uniq(set, names, pkgs) ==
    FoldLeft(LAMBDA kept, p : IF kept # << >> /\ Duplicate(set, names, Last(kept), p)
                              THEN kept ELSE Append(kept, p),
             << >>, pkgs)

-----------------------------------------------------------------------------
NothingIndexed == [n \in Name |-> << >>]

(* capreq_idx_add to the index of capabilities.  A package that provides a *)
(* name in several versions is entered once if it is found among the       *)
(* entries, which idx_ent_contains looks up by differences of unrelated    *)
(* pointers: found says whether it does.                                   *)
AddCap(idx, n, p, found) ==
    IF p \in ToSet(idx[n]) /\ (found \/ Len(idx[n]) = 1) THEN idx
    ELSE [idx EXCEPT ![n] = Append(idx[n], p)]

(* capreq_idx_add to those of requirements, obsoletes and conflicts.       *)
AddReq(idx, n, p) == IF n \in Skipped THEN idx ELSE [idx EXCEPT ![n] = Append(idx[n], p)]

(* capreq_idx_remove: every entry of the same name and version, but for    *)
(* the one that moves up into the place of another.                        *)
RemoveEntry(set, idx, n, p) ==
    LET Drop(s, q) == IF ~ s.moved /\ SameNevr(set, p, q) THEN [s EXCEPT !.moved = TRUE]
                      ELSE [kept |-> Append(s.kept, q), moved |-> FALSE]
    IN  [idx EXCEPT ![n] = FoldLeft(Drop, [kept |-> << >>, moved |-> FALSE], idx[n]).kept]

(* capreq_idx_lookup *)
Lookup(idx, n) == ToSet(idx[n])

(* file_index_add_basename, file_index_remove: the first entry of the same *)
(* name and version.                                                       *)
AddFile(files, path, p) == [files EXCEPT ![path] = Append(files[path], p)]
RemoveFile(set, files, path, p) ==
    LET i == SelectInSeq(files[path], LAMBDA q : SameNevr(set, p, q))
    IN  IF i = 0 THEN files ELSE [files EXCEPT ![path] = RemoveAt(files[path], i)]

(* file_index_lookup, findfile *)
Owners(files, path) == IF path \in Path THEN ToSet(files[path]) ELSE {}

-----------------------------------------------------------------------------
Names(crs) == {c.name : c \in crs}
NoFiles == [path \in Path |-> << >>]

(* index_package_caps: one entry for each capability, then the files.      *)
IndexCaps(set, idx, p, found) ==
    FoldSet(LAMBDA c, i : AddCap(i, c.name, p, found), idx, set.caps[p])
IndexFiles(set, files, p) == FoldSet(LAMBDA path, f : AddFile(f, path, p), files, set.files[p])

(* index_package_reqs, of the requirements, obsoletes or conflicts crs.    *)
IndexReqs(idx, p, crs) == FoldSet(LAMBDA r, i : AddReq(i, r.name, p), idx, crs)

(* pkgset_remove_package, of one index.                                    *)
Unindex(set, idx, p, crs) == FoldSet(LAMBDA c, i : RemoveEntry(set, i, c.name, p), idx, crs)
UnindexFiles(set, files, p) == FoldSet(LAMBDA path, f : RemoveFile(set, f, path, p),
                                       files, set.files[p])

(* pkgset__index_caps and pkgset__index_reqs, of all packages.             *)
AllCaps(set, pkgs, found) == FoldLeft(LAMBDA i, p : IndexCaps(set, i, p, found), NothingIndexed, pkgs)
AllFiles(set, pkgs) == FoldLeft(LAMBDA f, p : IndexFiles(set, f, p), NoFiles, pkgs)
AllReqs(crs, pkgs) == FoldLeft(LAMBDA i, p : IndexReqs(i, p, crs[p]), NothingIndexed, pkgs)
=============================================================================
