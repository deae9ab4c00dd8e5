------------------------------- MODULE Store -------------------------------
(***************************************************************************)
(* How a package is stored in a pndir index and restored from it           *)
(* (pkgdir/pkg_store.c, pkg_restore.c, capreq.c, pkgfl.c).  A capability   *)
(* takes at most Max8 bytes, an array of them at most Max16: long names    *)
(* are split into parts, long arrays are continued under a tag of their    *)
(* own.  The list of files is stored in two: those in directories packages *)
(* are known to depend on, which are loaded, and the others.               *)
(*                                                                         *)
(* A capability is [rank, len, evr, self, bastard]: its place in the order *)
(* of names and versions, the length of its name, of its version in bytes, *)
(* is it the package itself, was it made up by poldek.  Name, version and  *)
(* architecture are in the key of the record and left out.                 *)
(***************************************************************************)
EXTENDS Integers, SequencesExt, FiniteSetsExt

CONSTANTS Max8, Max16,  \* UINT8_MAX, UINT16_MAX
          Pkgs,         \* packages that may be stored
          RecNo,        \* the field stored for installed packages only
          Options       \* how they are stored and loaded

ASSUME LimitsAssumption == Max8 \in Nat /\ Max16 \in Nat

Tags == <<"caps", "reqs", "sugs", "cnfls">>

VARIABLES pkg, opts,    \* what is stored, and how
          pc,
          todo,         \* tags not yet stored
          left,         \* of the array in hand
          text,         \* the record
          got,          \* what was restored of it
          hand          \* the capability being restored
vars == <<pkg, opts, pc, todo, left, text, got, hand>>

-----------------------------------------------------------------------------
(* capreq_store writes five bytes and a zero, the name, and the version.   *)
Header == 6
Item(kind, name, evr) == [kind |-> kind, name |-> name, evr |-> evr]
Size(item) == Header + item.evr + Len(item.name)
Occupied(items) == FoldLeft(LAMBDA n, item : n + 1 + Size(item), 0, items)

Name(c) == [i \in 1..c.len |-> <<c.rank, i>>]
Whole(c) == [name |-> Name(c), evr |-> c.evr]
Fits8(c) == Header + c.evr + c.len <= Max8

(* A bug: the zero before the name is not counted.                         *)
RoomPlusOne(c) == Max8 - (Header - 1) - c.evr

(* split_capreq leaves as much room for the version of a capability in     *)
(* each of its parts, though only the first has it.                        *)
Room(c) == Max8 - Header - c.evr
Chunks(c) ==
    [i \in 1..((c.len + Room(c) - 1) \div Room(c)) |->
        SubSeq(Name(c), (i - 1) * Room(c) + 1, Min({i * Room(c), c.len}))]

(* capreq_store.                                                           *)
Stored(c) ==
    IF Fits8(c) THEN <<Item("plain", Name(c), c.evr)>>
    ELSE [i \in DOMAIN Chunks(c) |->
            IF i = 1 THEN Item("split", Chunks(c)[1], c.evr) ELSE Item("part", Chunks(c)[i], 0)]

(* capreq_arr_store: the array begins with its size, a newline follows.    *)
Fits16(items) == 2 + Occupied(items) <= Max16 - 1

(* store_capreq_array leaves out what the package is itself, which is made *)
(* anew when it is loaded, and what poldek made up.                        *)
Kept(caps) ==
    SortSeq(SelectSeq(caps, LAMBDA c : ~c.self /\ ~c.bastard), LAMBDA c, d : c.rank < d.rank)

-----------------------------------------------------------------------------
Block(tag) == [tag |-> tag, count |-> 0, items |-> << >>, set |-> {}]
SetBlock(tag, set) == [Block(tag) EXCEPT !.set = set]
InHand == text[Len(text)]

TypeOK ==
    /\ pc \in {"fields", "arrays", "storing", "stuck", "restoring", "array", "parts", "loaded", "done"}
    /\ \A b \in ToSet(text) : b.tag \in ToSet(Tags) \union {"fields", "cont", "depfl", "fl"}
    /\ got.into \in ToSet(Tags) \union {"none"} /\ got.count \in Nat

Init ==
    /\ pkg \in Pkgs /\ opts \in Options
    /\ pc = "fields" /\ todo = Tags /\ left = << >> /\ text = << >>
    /\ got = [arrays |-> [t \in ToSet(Tags) |-> << >>], fields |-> {}, fl |-> {}, other |-> {},
              last |-> "none", into |-> "none", count |-> 0, items |-> << >>]
    /\ hand = [name |-> << >>, evr |-> 0]

(* pkg_store_fields.                                                       *)
StoreFields ==
    /\ pc = "fields" /\ pc' = "arrays"
    /\ text' = <<SetBlock("fields", {f \in pkg.fields : f = RecNo => opts.recno})>>
    /\ UNCHANGED <<pkg, opts, todo, left, got, hand>>

(* pkg_store, store_capreq_array.                                          *)
StoreArray ==
    /\ pc = "arrays" /\ todo # << >>
    /\ LET kept == Kept(pkg.arrays[Head(todo)])
       IN  IF kept = << >>
           THEN todo' = Tail(todo) /\ UNCHANGED <<pc, left, text>>
           ELSE /\ pc' = "storing" /\ left' = kept
                /\ text' = Append(text, Block(Head(todo)))
                /\ UNCHANGED todo
    /\ UNCHANGED <<pkg, opts, got, hand>>

StoreCap ==
    /\ pc = "storing" /\ left # << >>
    /\ Fits8(Head(left)) \/ Room(Head(left)) > 0
    /\ LET items == InHand.items \o Stored(Head(left))
       IN  /\ Fits16(items)
           /\ text' = [text EXCEPT ![Len(text)].items = items, ![Len(text)].count = @ + 1]
    /\ left' = Tail(left)
    /\ UNCHANGED <<pkg, opts, pc, todo, got, hand>>

(* The rest goes into a continuation.                                      *)
Continue ==
    /\ text' = Append(text, Block("cont"))
    /\ UNCHANGED <<pc, todo, left>>

(* A capability that no array can hold takes all behind it away.           *)
RollBack ==
    /\ text' = SubSeq(text, 1, Len(text) - 1) /\ left' = << >>
    /\ pc' = "arrays" /\ todo' = Tail(todo)

ArrayIsFull ==
    /\ pc = "storing" /\ left # << >>
    /\ Fits8(Head(left)) \/ Room(Head(left)) > 0
    /\ ~Fits16(InHand.items \o Stored(Head(left)))
    /\ IF InHand.count = 0 THEN RollBack ELSE Continue
    /\ UNCHANGED <<pkg, opts, got, hand>>

(* split_capreq never ends if a version leaves no room for a name.         *)
NeverSplit ==
    /\ pc = "storing" /\ left # << >>
    /\ ~Fits8(Head(left)) /\ Room(Head(left)) <= 0
    /\ pc' = "stuck"
    /\ UNCHANGED <<pkg, opts, todo, left, text, got, hand>>

ArrayStored ==
    /\ pc = "storing" /\ left = << >>
    /\ pc' = "arrays" /\ todo' = Tail(todo)
    /\ UNCHANGED <<pkg, opts, left, text, got, hand>>

(* pkg_store_fl, pkgfl_store: directories that somebody depends on are     *)
(* never excluded.                                                         *)
DepFiles == pkg.dirs \intersect opts.depdirs
OtherFiles == pkg.dirs \ (opts.depdirs \union opts.excluded)

StoreFiles ==
    /\ pc = "arrays" /\ todo = << >>
    /\ pc' = "restoring"
    /\ text' = text \o (IF opts.nofl \/ pkg.dirs = {} THEN << >>
                        ELSE <<SetBlock("depfl", DepFiles), SetBlock("fl", OtherFiles)>>)
    /\ UNCHANGED <<pkg, opts, todo, left, got, hand>>

-----------------------------------------------------------------------------
(* pkg_restore_st reads block after block.                                 *)
AtTag(tags) == pc = "restoring" /\ text # << >> /\ Head(text).tag \in tags
NextTag == text' = Tail(text) /\ UNCHANGED <<pkg, opts, todo, left, hand>>

RestoreFields ==
    /\ AtTag({"fields"}) /\ NextTag
    /\ got' = [got EXCEPT !.fields = Head(text).set, !.last = "fields"]
    /\ UNCHANGED pc

(* A bug: the tag of a continuation is taken for the last one.             *)
LastTagAny(tag) == tag

LastTag(tag) == IF tag = "cont" THEN got.last ELSE tag

(* capreq_arr_restore_st, restore_cont: a continuation is of the last tag. *)
RestoreArray ==
    /\ AtTag(ToSet(Tags) \union {"cont"}) /\ NextTag
    /\ LET block == Head(text)
           into == IF block.tag = "cont" THEN got.last ELSE block.tag
           last == LastTag(block.tag)
       IN  /\ pc' = IF into \in ToSet(Tags) THEN "array" ELSE "restoring"    \* "unknown continuation"
           /\ got' = [got EXCEPT !.into = into, !.count = block.count, !.items = block.items, !.last = last]

(* capreq_arr_restore, capreq_restore_na.                                  *)
Push(cap, items) ==
    got' = [got EXCEPT !.arrays[got.into] = Append(@, cap), !.count = @ - 1, !.items = items]

RestoreCap ==
    /\ pc = "array" /\ got.count > 0
    /\ LET item == Head(got.items)
           cap == [name |-> item.name, evr |-> item.evr]
       IN  \/ /\ item.kind # "split" /\ Push(cap, Tail(got.items))
              /\ UNCHANGED <<pc, hand>>
           \/ /\ item.kind = "split" /\ hand' = cap /\ pc' = "parts"
              /\ got' = [got EXCEPT !.items = Tail(@)]
    /\ UNCHANGED <<pkg, opts, todo, left, text>>

(* restore_parts.                                                          *)
MoreParts == got.items # << >> /\ Head(got.items).kind = "part"

RestorePart ==
    /\ pc = "parts" /\ MoreParts
    /\ hand' = [hand EXCEPT !.name = @ \o Head(got.items).name]
    /\ got' = [got EXCEPT !.items = Tail(@)]
    /\ UNCHANGED <<pkg, opts, pc, todo, left, text>>

(* The name is complete when another capability was read, or nothing.      *)
PartsRestored ==
    /\ pc = "parts" /\ ~MoreParts
    /\ Push(hand, got.items)
    /\ pc' = "array"
    /\ UNCHANGED <<pkg, opts, todo, left, text, hand>>

ArrayRestored ==
    /\ pc = "array" /\ got.count = 0
    /\ pc' = "restoring"
    /\ UNCHANGED <<pkg, opts, todo, left, text, got, hand>>

(* pkgdir_load: what requirements of any source name and the index was not *)
(* made for.                                                               *)
Foreign == IF opts.full THEN {} ELSE opts.wanted \ opts.depdirs

(* pkgfl_restore_st, with nothing chosen, and with directories others      *)
(* depend on or all if that was asked for.                                 *)
RestoreDepFiles ==
    /\ AtTag({"depfl"}) /\ NextTag
    /\ got' = [got EXCEPT !.fl = @ \union Head(text).set, !.last = "depfl"]
    /\ UNCHANGED pc

RestoreFiles ==
    /\ AtTag({"fl"}) /\ NextTag
    /\ got' = [got EXCEPT !.last = "fl", !.other = Head(text).set,
                  !.fl = @ \union {d \in Head(text).set : opts.full \/ d \in Foreign}]
    /\ UNCHANGED pc

(* pkg_ldtags.                                                             *)
Restored ==
    /\ pc = "restoring" /\ text = << >>
    /\ pc' = "loaded"
    /\ UNCHANGED <<pkg, opts, todo, left, text, got, hand>>

(* A bug: the other files are read without regard to what was loaded.      *)
OthersAgain(set) == set

(* pndir_load_nodep_fl.                                                    *)
Others(set) == set \ Foreign

(* pkg_get_flist: all files of a package, when somebody wants them.        *)
GetFiles ==
    /\ pc = "loaded" /\ pc' = "done"
    /\ got' = [got EXCEPT !.other = IF opts.full THEN {} ELSE Others(@)]
    /\ UNCHANGED <<pkg, opts, todo, left, text, hand>>

Finished == pc \in {"stuck", "done"} /\ UNCHANGED vars

Next ==
    \/ StoreFields \/ StoreArray \/ StoreCap \/ ArrayIsFull \/ NeverSplit \/ ArrayStored \/ StoreFiles
    \/ RestoreFields \/ RestoreArray \/ RestoreCap \/ RestorePart \/ PartsRestored \/ ArrayRestored
    \/ RestoreDepFiles \/ RestoreFiles \/ Restored \/ GetFiles \/ Finished

Spec == Init /\ [][Next]_vars

-----------------------------------------------------------------------------
(* The first capability that is too large for an array of its own takes    *)
(* away all behind it (pkg_store.c:170).                                   *)
TooLarge(c) == ~Fits16(Stored(c))
Comes(caps) ==
    LET kept == Kept(caps)
        large == {i \in DOMAIN kept : TooLarge(kept[i])}
        last == IF large = {} THEN Len(kept) ELSE Min(large) - 1
    IN  [i \in 1..last |-> Whole(kept[i])]

CapsComeBack ==
    /\ \A t \in ToSet(Tags) : got.arrays[t] = Comes(pkg.arrays[t])
    /\ got.fields = {f \in pkg.fields : f = RecNo => opts.recno}

(* Directories nobody's requirements name may be excluded.                 *)
Listed == pkg.dirs \ (opts.excluded \ opts.depdirs)

FilesComeOnce ==
    /\ got.fl \union got.other = Listed
    /\ got.fl \intersect got.other = {}
    /\ Listed \intersect (opts.depdirs \union opts.wanted) \subseteq got.fl

(* What is stored of a package comes back: its numbers; of each array the  *)
(* capabilities in their order, with whole names, however they were split  *)
(* and continued; its files, each once, those in directories anybody's     *)
(* requirements name at once, the others when somebody wants them          *)
(* (pkg_restore.c:192, capreq.c:944, pkg.c:1134).                          *)
PackageComesBack == pc = "done" => CapsComeBack /\ (opts.nofl \/ FilesComeOnce)

(* No capability is longer and no array of them larger than the number     *)
(* that says its size can hold (capreq.c:594, capreq.c:893), and no array  *)
(* is empty, which the loading asserts (pkg_restore.c:610).                *)
SizesFit ==
    \A b \in ToSet(text) :
        /\ \A item \in ToSet(b.items) : Size(item) <= Max8
        /\ 2 + Occupied(b.items) + 1 <= Max16
        /\ b.tag \in ToSet(Tags) \union {"cont"} /\ pc = "restoring" => b.count > 0
=============================================================================
