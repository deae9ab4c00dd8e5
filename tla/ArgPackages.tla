---------------------------- MODULE ArgPackages ----------------------------
(***************************************************************************)
(* What the words that name packages come to (arg_packages.c, poldek_ts.c  *)
(* 678-728): masks, packages of the lists given by --pset, capabilities.   *)
(*                                                                         *)
(* A package is its identifier; one given itself is a mask that only it    *)
(* fits.                                                                   *)
(***************************************************************************)
EXTENDS FiniteSetsExt, SequencesExt, TLC

CONSTANTS Available,    \* packages of the sources, in their order
          Installed,    \* those installed
          NameOf,       \* [package -> its name]
          Fits,         \* [pattern -> packages whose identifiers it fits]
          Provides,     \* [capability or file -> packages that have it]
          Lists         \* [file given by --pset -> its lines, or that it cannot be read]

At(f, x) == IF x \in DOMAIN f THEN f[x] ELSE {}
ByName(mask, pkgs) == {p \in pkgs : NameOf[p] = mask}
Matching(mask, pkgs) == ByName(mask, pkgs) \union {p \in pkgs : p = mask \/ p \in At(Fits, mask)}
(* resolve_bycap.                                                          *)
ByCap(cap) == At(Provides, cap)

(* prepare_file_pkgmask: a line gives a mask, a virtual package with a mask *)
(* for its default, or is skipped, as one that is optional or that cannot  *)
(* be read is.                                                             *)
AddLine(given, l) ==
    CASE l.kind = "mask"    -> [given EXCEPT !.masks = @ \union {l.mask}]
      [] l.kind = "virtual" -> [given EXCEPT !.virtuals = (l.name :> l.mask) @@ @]
      [] OTHER -> given
(* arg_packages_setup, arg_packages_load_list: done once; if a list cannot *)
(* be read it fails, with what the others say kept.                        *)
CannotBeRead == <<[kind |-> "unreadable"]>>
Readable(words) == \A w \in ToSet(words) \intersect DOMAIN Lists : Lists[w] # CannotBeRead
GivenBy(words) ==
    FoldLeft(LAMBDA given, w : IF w \in DOMAIN Lists THEN FoldLeft(AddLine, given, Lists[w])
                               ELSE [given EXCEPT !.masks = @ \union {w}],
             [masks |-> {}, virtuals |-> << >>], words)

-----------------------------------------------------------------------------
(* Mutant: a mask that matches nothing is passed over.                     *)
MasksPassedOver(masks, pkgs, flags) ==
    LET missing == {m \in masks : Matching(m, pkgs) = {}}
        bycap == {m \in missing : "caps" \in flags /\ ByCap(m) # {}}
    IN  [ok |-> TRUE, pkgs |-> UNION {Matching(m, pkgs) : m \in masks}, caps |-> bycap]
(* resolve_masks: a mask that matches nothing may be a capability; a name  *)
(* of more packages than one is refused only if exact ones are asked for.  *)
ResolveMasks(masks, pkgs, flags) ==
    LET missing == {m \in masks : Matching(m, pkgs) = {}}
        bycap == {m \in missing : "caps" \in flags /\ ByCap(m) # {}}
        ambiguous == {m \in masks : "exact" \in flags /\ Cardinality(ByName(m, pkgs)) > 1}
    IN  [ok |-> missing = bycap /\ ambiguous = {},
         pkgs |-> UNION {Matching(m, pkgs) : m \in masks}, caps |-> bycap]
(* resolve_pset_virtuals.                                                  *)
VirtualsFound(virtuals) == \A v \in DOMAIN virtuals : ByCap(v) # {}
(* verify_pakcage_caps: not those that a package taken has already.        *)
Wanted(caps, pkgs) == {c \in caps : ByCap(c) \intersect pkgs = {}}
(* resolve_resolved_caps: for each the default or that which drags the     *)
(* fewest others.  The default's mask is fitted by the identifier and not  *)
(* the other way round.                                                    *)
ForCap(cap, virtuals) ==
    LET default == IF cap \notin DOMAIN virtuals THEN {}
                   ELSE {p \in ByCap(cap) : NameOf[p] = virtuals[cap] \/ p = virtuals[cap]}
    IN  IF default # {} THEN default ELSE ByCap(cap)
Picks(caps, virtuals) ==
    {{pick[c] : c \in caps} : pick \in {f \in [caps -> UNION {ByCap(c) : c \in caps}] :
                                          \A c \in caps : f[c] \in ForCap(c, virtuals)}}

(* arg_packages_resolve: all that the words may come to; it fails if that  *)
(* is nothing.  All packages are taken for *, whatever else is said.       *)
Unmarked == [pkgs |-> {}, caps |-> {}]
Resolve(words, pkgs, flags) ==
    LET given == GivenBy(words)
        virtuals == IF "set" \in flags THEN given.virtuals ELSE << >>
        found == ResolveMasks(given.masks, pkgs, flags)
        taken == found.pkgs
        caps == Wanted(found.caps \union DOMAIN virtuals, taken)
    IN  IF "*" \in given.masks THEN {[pkgs |-> pkgs, caps |-> {}]}
        ELSE IF ~ found.ok \/ ~ VirtualsFound(virtuals) THEN {Unmarked}
        ELSE IF "inline" \in flags THEN {[pkgs |-> taken \union more, caps |-> caps] : more \in Picks(caps, virtuals)}
        ELSE {[pkgs |-> taken, caps |-> caps]}

(* ts_mark_arg_packages.                                                   *)
ResolveFor(type, words, on) ==
    Resolve(words, ToSet(Available), {"set"} \union (IF "caplookup" \in on THEN {"caps"} ELSE {})
                                             \union (IF type = "verify" THEN {"inline"} ELSE {}))
(* ts_prerun, ts_run_install, ts_run_verify: an upgrade of all that is     *)
(* installed has no need of words.                                         *)
MarkedFor(type, flags, words, on, setupdone) ==
    IF ~ (setupdone \/ Readable(words)) \/ type = "uninstall" \/ {"upgrade", "dist"} \subseteq flags THEN {Unmarked}
    ELSE IF type = "verify" /\ words = << >> THEN {[pkgs |-> ToSet(Available), caps |-> {}]}
    ELSE ResolveFor(type, words, on)
(* resolve_resolved_caps looks a capability up in the table of virtual     *)
(* packages, which is made only when a list names one (arg_packages.c:631, *)
(* 174): a lookup in a table that is not there.                            *)
AsksNoTable(type, words, on) ==
    /\ type = "verify" /\ Readable(words)
    /\ GivenBy(words).virtuals = << >>
    /\ \E marked \in ResolveFor(type, words, on) : marked.caps # {}

(* poldek_ts_validate_args_with_stubs: if there are names of all packages, *)
(* words that match none are refused, unless capabilities are asked for;   *)
(* and of what is found only what can be installed is kept, in place of    *)
(* the words.  Where a list is given nothing is looked at.                 *)
PackagesOf(words) ==
    {SelectSeq(Available, LAMBDA p : p \in kept) :
        kept \in SUBSET ResolveMasks(ToSet(words), ToSet(Available), {}).pkgs}
Checked(words, on) ==
    {[ok |-> TRUE, args |-> words]} \union
    (IF ToSet(words) \intersect DOMAIN Lists # {} THEN {}
     ELSE IF ~ ResolveMasks(ToSet(words), ToSet(Available), {}).ok THEN {[ok |-> "caplookup" \in on, args |-> words]}
     ELSE IF "freshen" \in on THEN {}
     ELSE {[ok |-> pkgs # << >> \/ "caplookup" \in on, args |-> pkgs] : pkgs \in PackagesOf(words)})

-----------------------------------------------------------------------------
(* What is marked for the words of a transaction is what they say: all a   *)
(* mask matches, else something that has it as a capability, for every one *)
(* of them, or nothing at all; and nothing besides.  A capability is left  *)
(* to be satisfied only if no package with it was named.                   *)
AnswersTo(marked, words) ==
    LET given == GivenBy(words)
        av == ToSet(Available)
        caps == DOMAIN given.virtuals \union given.masks
    IN  marked = Unmarked \/ "*" \in given.masks \/
          /\ \A m \in given.masks :
                Matching(m, av) \subseteq marked.pkgs
                /\ (Matching(m, av) = {} => m \in marked.caps \/ ByCap(m) \intersect marked.pkgs # {})
          /\ \A v \in DOMAIN given.virtuals : v \in marked.caps \/ ByCap(v) \intersect marked.pkgs # {}
          /\ \A p \in marked.pkgs : \/ \E m \in given.masks : p \in Matching(m, av)
                                     \/ \E c \in caps : p \in ByCap(c)
          /\ \A c \in marked.caps : ByCap(c) # {} /\ \A m \in given.masks : Matching(m, av) \intersect ByCap(c) = {}
=============================================================================
