------------------------------ MODULE Sources ------------------------------
(***************************************************************************)
(* Which sources are used (lib_init.c 119-489, pkgdir/source.c): those     *)
(* given by a path, those of the configuration selected by name, by a      *)
(* group or, when nothing is asked for, all; their order and priorities.   *)
(***************************************************************************)
EXTENDS Conf, TLC

CONSTANTS Glob,         \* [pattern -> names it matches besides itself]
          PathSpec,     \* [what is written after -s or source = -> name, path, type and opts]
          DefaultType,
          Guess         \* [path -> the type of what is there]

Nameless == ""
NoPath == ""
NewSource(name, path, type) ==
    [name |-> name, path |-> path, type |-> type, guess |-> FALSE, no |-> 0, pri |-> 0,
     auto |-> TRUE, autoup |-> TRUE, group |-> "", prefix |-> ""]
Named(name) == NewSource(name, NoPath, DefaultType)

(* poldek_conf_get_int.                                                    *)
Number == "0" :> 0 @@ "1" :> 1 @@ "2" :> 2 @@ "-1" :> -1
(* source_options, get_subopt: what is not known or not a number is left   *)
(* out.                                                                    *)
SetSubopt(src, opt) ==
    CASE opt[1] = "noauto"   -> [src EXCEPT !.auto = FALSE]
      [] opt[1] = "noautoup" -> [src EXCEPT !.autoup = FALSE]
      [] opt[1] = "type"     -> [src EXCEPT !.type = opt[2], !.guess = FALSE]
      [] opt[1] = "group"    -> [src EXCEPT !.group = opt[2]]
      [] opt[1] = "pri" /\ opt[2] \in DOMAIN Number -> [src EXCEPT !.pri = Number[opt[2]]]
      [] OTHER -> src
WithSubopts(src, opts) == FoldLeft(SetSubopt, src, opts)
(* parse_cmdl_pathspec, source_new_pathspec: a type given apart goes before *)
(* the one in front of it, and an option type before both; where there is  *)
(* none it is guessed later.                                               *)
SpecType(type, s) == IF type # "" THEN type ELSE PathSpec[s].type
FromSpec(type, s) ==
    LET given == SpecType(type, s)
        src == NewSource(PathSpec[s].name, PathSpec[s].path, IF given = "" THEN DefaultType ELSE given)
    IN  WithSubopts([src EXCEPT !.guess = given = ""], PathSpec[s].opts)
WithDefaults(src) == [src EXCEPT !.type = IF src.guess THEN Guess[src.path] ELSE @]
IsNamed(src) == src.name # Nameless /\ src.path = NoPath
Matches(pattern, name) == pattern = name \/ (pattern \in DOMAIN Glob /\ name \in Glob[pattern])

(* sources_add.                                                            *)
AddSource(srcs, src) ==
    Append(srcs, [src EXCEPT !.no = IF @ = 0 THEN 60 * Len(srcs) ELSE @])

(* sources_score: those with no priority get one from their number.        *)
Scored(src, low) ==
    [src EXCEPT !.pri = IF @ # 0 THEN @ ELSE IF src.no + low + 1 < 0 THEN 0 ELSE src.no + low + 1]
Lowest(srcs) == CHOOSE low \in {s.pri : s \in srcs} : \A s \in srcs : low <= s.pri
Score(srcs) == {Scored(s, Lowest(srcs)) : s \in srcs}

-----------------------------------------------------------------------------
(* source_to_htconf, setup_legacy_sources: sources of the global section   *)
(* become sections; the priority of one is lost.                           *)
LegacySection(src, no) ==
    LET is(n, v) == n :> <<<<"is", v>>>>
    IN  is("name", IF src.name = Nameless THEN "lsrc" \o ToString(no) ELSE src.name)
        @@ is("path", src.path) @@ is("type", src.type)
        @@ (IF src.auto THEN << >> ELSE is("auto", "no"))
        @@ (IF src.autoup THEN << >> ELSE is("autoup", "no"))
        @@ (IF src.group = "" THEN << >> ELSE is("group", src.group))
(* new_legacy_source: one with no type of its own is a pndir.              *)
LegacySource(s) == LET src == FromSpec("", s) IN IF src.guess THEN [src EXCEPT !.type = "pndir"] ELSE src
WithLegacy(conf) ==
    LET old == ValuesOf(Global(conf), "source")
    IN  [conf EXCEPT !["source"] = @ \o
            [i \in DOMAIN old |-> [from |-> <<Main, 0>>,
                                   opts |-> LegacySection(LegacySource(old[i][2]), i - 1)]]]

(* source_new_htcnf: what a section says is written as a path with options *)
(* before it.  A source whose type is the one its index is made from is    *)
(* refused.                                                                *)
SuboptsOf(opts) ==
    LET said(n) == IF Has(opts, n) THEN <<<<n, Get(opts, n, "")>>>> ELSE << >>
        off(n) == IF Get(opts, "no" \o n, "no") = "yes" \/ Get(opts, n, "yes") = "no" THEN <<<<"no" \o n, "">>>>
                  ELSE << >>
    IN  said("type") \o said("pri") \o off("auto") \o off("autoup") \o said("group")
FromSection(opts) ==
    WithSubopts([NewSource(Get(opts, "name", Nameless), Get(opts, "path", NoPath), DefaultType) EXCEPT !.guess = TRUE],
                SuboptsOf(opts))
IsRefused(opts) == Has(opts, "original type") /\ Get(opts, "original type", "") = Get(opts, "type", DefaultType)

-----------------------------------------------------------------------------
(* expand_sources_group: a name of an old group, a section of the type     *)
(* group, is followed out by the names in it, and of a new one, whose      *)
(* sources have the option group, by theirs; an old group is taken once.   *)
IsOldGroup(opts) == Get(opts, "type", "") = "group" /\ ~ Has(opts, "group")
IsNewGroup(opts) == Has(opts, "group")
Member(name, no) == [Named(name) EXCEPT !.no = no]
(* Mutant: the last name of an old group is overlooked.                    *)
MembersButLast(s, opts, taken) ==
    IF IsNewGroup(opts)
    THEN IF Matches(s.name, Get(opts, "group", "")) THEN <<Member(Get(opts, "name", ""), s.no + 1)>>
         ELSE << >>
    ELSE IF ~ IsOldGroup(opts) \/ taken \/ ~ Matches(s.name, Get(opts, "name", "")) THEN << >>
    ELSE [i \in 1..(Len(opts["sources"]) - 1) |-> Member(opts["sources"][i][2], s.no + i)]
MembersBy(s, opts, taken) ==
    IF IsNewGroup(opts)
    THEN IF Matches(s.name, Get(opts, "group", "")) THEN <<Member(Get(opts, "name", ""), s.no + 1)>>
         ELSE << >>
    ELSE IF ~ IsOldGroup(opts) \/ taken \/ ~ Matches(s.name, Get(opts, "name", "")) THEN << >>
    ELSE [i \in DOMAIN opts["sources"] |-> Member(opts["sources"][i][2], s.no + i)]
ExpandGroups(named, sections) ==
    FoldLeft(LAMBDA acc, s :
                LET by == [j \in DOMAIN sections |-> MembersBy(s, sections[j].opts, j \in acc.taken)]
                    some == {j \in DOMAIN by : by[j] # << >>}
                IN  [list |-> acc.list \o FlattenSeq(by) \o <<s>>,
                     taken |-> acc.taken \union {j \in some : IsOldGroup(sections[j].opts)},
                     expanded |-> IF some = {} THEN acc.expanded ELSE acc.expanded \union {s.name}],
             [list |-> << >>, taken |-> {}, expanded |-> {}], named)
(* An assertion: what is in a group has a name.                            *)
Asserts(sections) ==
    \E j \in DOMAIN sections : LET opts == sections[j].opts
                               IN  (IsOldGroup(opts) \/ IsNewGroup(opts)) /\ ~ Has(opts, "name")

-----------------------------------------------------------------------------
(* Mutant: a source keeps the priority it has in the configuration.        *)
TakenAsConfigured(acc, src, list, all) ==
    LET by == {i \in DOMAIN list : Matches(list[i].name, src.name)}
        first == CHOOSE i \in by : \A k \in by : i <= k
    IN  IF all THEN [acc EXCEPT !.srcs = AddSource(@, src)]
        ELSE IF by = {} THEN acc
        ELSE [acc EXCEPT !.matches = [i \in DOMAIN list |-> IF i \in by THEN @[i] + 1 ELSE @[i]],
                         !.srcs = AddSource(@, [src EXCEPT !.auto = TRUE, !.autoup = TRUE, !.no = list[first].no + 1])]
(* do_source_new_htcnf, addsource: a section is taken for the first name   *)
(* it matches, and every name it matches counts it.  One without a name    *)
(* gets one, in the configuration too.                                     *)
Taken(acc, src, list, all) ==
    LET by == {i \in DOMAIN list : Matches(list[i].name, src.name)}
        first == CHOOSE i \in by : \A k \in by : i <= k
        matches == [i \in DOMAIN list |-> IF i \in by THEN acc.matches[i] + 1 ELSE acc.matches[i]]
    IN  IF all THEN [acc EXCEPT !.srcs = AddSource(@, src)]
        ELSE IF by = {} THEN acc
        ELSE [acc EXCEPT !.matches = matches,
                         !.srcs = AddSource(@, [src EXCEPT !.auto = TRUE, !.autoup = TRUE, !.pri = 0,
                                                           !.no = list[first].no + matches[first]])]
AutoName(opts, no) == IF Has(opts, "name") THEN opts
                      ELSE SetValues(opts, "name", <<<<"is", "src" \o (IF no < 10 THEN "0" ELSE "") \o ToString(no)>>>>)
TakeSection(acc, section, list, all) ==
    IF Get(section.opts, "type", "") = "group" THEN [acc EXCEPT !.sections = Append(@, section)]
    ELSE LET opts == AutoName(section.opts, Len(acc.srcs))
             next == [acc EXCEPT !.sections = Append(@, [section EXCEPT !.opts = opts])]
         IN  IF IsRefused(opts) THEN [next EXCEPT !.ok = FALSE]
             ELSE Taken(next, FromSection(opts), list, all)

(* get_conf_sources: to those given by a path.                             *)
FromConf(sections, paths, named) ==
    LET all == named = << >>
        x == IF all \/ sections = << >> THEN [list |-> named, expanded |-> {}]
             ELSE ExpandGroups(named, sections)
        acc == FoldLeft(LAMBDA a, section : TakeSection(a, section, x.list, all),
                        [srcs |-> paths, matches |-> [i \in DOMAIN x.list |-> 0], sections |-> << >>,
                         ok |-> TRUE],
                        sections)
        found == \A i \in DOMAIN x.list : acc.matches[i] > 0 \/ x.list[i].name \in x.expanded
    IN  [ok |-> acc.ok /\ found, sections |-> acc.sections,
         srcs |-> IF all /\ acc.ok THEN [i \in DOMAIN acc.srcs |-> [acc.srcs[i] EXCEPT !.no = i - 1]]
                  ELSE acc.srcs]

-----------------------------------------------------------------------------
(* n_array_uniq_ex by source_cmp_uniq after a sort by paths, which may put *)
(* sources of one path in any order: one whose type is that of the source  *)
(* before it is left out.                                                  *)
Unique(srcs) ==
    FoldLeft(LAMBDA kept, s : IF kept # << >> /\ Last(kept).type = s.type THEN kept ELSE Append(kept, s),
             << >>, srcs)
Uniques(srcs) ==
    {UNION {ToSet(Unique(SelectSeq(order, LAMBDA s : s.path = p))) : p \in {s.path : s \in srcs}}
        : order \in SetToSeqs(srcs)}

(* prepare_sources: what the asked ones become, in all ways.               *)
Prepare(conf, asked) ==
    LET srcs == IF asked = << >> THEN << >>
                ELSE [i \in DOMAIN asked |-> Scored(asked[i], Lowest(ToSet(asked)))]
        named == SelectSeq(srcs, IsNamed)
        paths == SelectSeq(srcs, LAMBDA s : ~ IsNamed(s))
        reads == conf # NoConf /\ (named # << >> \/ asked = << >>)
        with == IF reads THEN WithLegacy(conf) ELSE conf
        sections == with["source"]
        got == FromConf(sections, paths, named)
    IN  IF ~ reads THEN {[at |-> IF named = << >> THEN "ok" ELSE "failed", conf |-> conf,
                          srcs |-> Score(kept)] : kept \in Uniques(ToSet(paths))}
        ELSE IF named # << >> /\ Asserts(sections)
        THEN {[at |-> "dead", conf |-> conf, srcs |-> {}]}
        ELSE {[at |-> IF got.ok THEN "ok" ELSE "failed", conf |-> [with EXCEPT !["source"] = got.sections],
               srcs |-> Score(kept)] : kept \in Uniques(ToSet(got.srcs))}
=============================================================================
