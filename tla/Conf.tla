-------------------------------- MODULE Conf --------------------------------
(***************************************************************************)
(* Loading of a configuration (conf.c): a file, the files it includes and  *)
(* those they include, each read on its own with its own macros, and the   *)
(* merging of their sections into the configuration of the first one.      *)
(* Paths are absolute or relative to the includer's directory; all files   *)
(* are in one directory and the first is given by an absolute path.        *)
(***************************************************************************)
EXTENDS Integers, SequencesExt

CONSTANTS File,
          Main,         \* the file to be loaded
          Missing,      \* in place of lines: there is no such file
          SectionName,  \* those poldek knows and others
          Tag,          \* [known section -> [its option -> "one" or "many"]]
          Required,     \* [known section -> its required options]
          Macro,        \* names that begin with _
          Alias,        \* [other name -> option]
          MaxDepth      \* bound: files open at a time

ASSUME ConfAssumption == /\ Main \in File /\ "global" \in DOMAIN Tag
                         /\ DOMAIN Tag \subseteq SectionName

Known == DOMAIN Tag

VARIABLES text,         \* what the files say
          load          \* a loading
confVars == <<text, load>>

(* A value is as it is written, <<"is", v>>, or refers to a macro.         *)
NoOptions == [n \in {} |-> << >>]
NewSection(file, line) == [from |-> <<file, line>>, opts |-> NoOptions]
NoConf == [s \in SectionName |-> << >>]
NewConf(file) == [NoConf EXCEPT !["global"] = <<NewSection(file, 0)>>]

Whole(mode) == mode = "whole"               \* with what is included
Validates(mode) == mode # "unchecked"       \* POLDEK_LDCONF_NOVALIDATE

Frame(file, only) ==
    [file |-> file, next |-> 1, conf |-> NewConf(file), section |-> "global", index |-> 1,
     only |-> only, pending |-> << >>, expand |-> << >>, closing |-> FALSE]
Idle == [at |-> "idle", mode |-> "whole", stack |-> << >>,
         loaded |-> [f \in File |-> [at |-> "unread", only |-> {}, conf |-> NoConf]],
         conf |-> NoConf]

Top == Last(load.stack)
Lines == text[Top.file]
Line == Lines[Top.next]
Reading(kind) ==
    /\ load.at = "reading" /\ Top.pending = << >> /\ Top.next <= Len(Lines)
    /\ Line.kind = kind
BecomeTop(frame) == load' = [load EXCEPT !.stack = Append(Front(@), frame)]
Result(at, conf) == load' = [Idle EXCEPT !.at = at, !.loaded = load.loaded, !.conf = conf]
Fail == Result("failed", NoConf)

-----------------------------------------------------------------------------
(* add_param: an option that may be given once is forgotten when it is     *)
(* given again, even if with a wrong value (vals empty); one that may be   *)
(* given more than once or a list collects.  Unknown options are left out, *)
(* macros and what is not to be checked are not.                           *)
KindOf(s, n) == IF s \in Known /\ n \in DOMAIN Tag[s] THEN Tag[s][n]
                ELSE IF n \in Macro THEN "macro" ELSE "unknown"
ValuesOf(opts, n) == IF n \in DOMAIN opts THEN opts[n] ELSE << >>
SetValues(opts, n, vals) ==
    [m \in (DOMAIN opts \ {n}) \union (IF vals = << >> THEN {} ELSE {n}) |->
        IF m = n THEN vals ELSE opts[m]]
AddParam(opts, s, name, vals, validate) ==
    LET n == IF name \in DOMAIN Alias THEN Alias[name] ELSE name
        kind == KindOf(s, n)
    IN  IF kind = "unknown" /\ validate THEN opts
        ELSE SetValues(opts, n, CASE kind = "many" -> ValuesOf(opts, n) \o vals
                                  [] kind = "macro" /\ vals = << >> -> <<<<"is", "">>>>
                                  [] OTHER -> vals)

(* Mutant: a macro is taken for its name.                                  *)
LookupName(opts, val) == IF val[1] = "ref" /\ val[2] \in DOMAIN opts THEN <<"is", val[2]>> ELSE val
(* expand_macros, expand_value: up to five times, each time first from the *)
(* section and, if a macro is still left, from the global one.             *)
Lookup(opts, val) == IF val[1] = "ref" /\ val[2] \in DOMAIN opts THEN Head(opts[val[2]]) ELSE val
Rounds == <<1, 2, 3, 4, 5>>
Expand(val, opts, global) ==
    FoldLeft(LAMBDA v, i : Lookup(global, Lookup(opts, v)), val, Rounds)

(* expand_section_vars: option after option, in the order of a hash.       *)
Refers(opts) == {n \in DOMAIN opts : \E i \in DOMAIN opts[n] : opts[n][i][1] = "ref"}
ExpandAll(opts, global, order) ==
    FoldLeft(LAMBDA o, n : [o EXCEPT ![n] = [i \in DOMAIN @ |-> Expand(@[i], o, global)]],
             opts, order)

IsGroup(opts) == Contains(ValuesOf(opts, "type"), <<"is", "group">>)
(* verify_section: a group of sources needs no path.                       *)
Verified(s, opts) ==
    \A n \in Required[s] :
        \/ n \in DOMAIN opts
        \/ s = "source" /\ n = "path" /\ IsGroup(opts) /\ "sources" \in DOMAIN opts

-----------------------------------------------------------------------------
(* poldek_conf_load.                                                       *)
StartLoad(mode) ==
    load' = IF text[Main] = Missing THEN [Idle EXCEPT !.at = "failed"]
            ELSE [Idle EXCEPT !.at = "reading", !.mode = mode, !.stack = <<Frame(Main, {})>>,
                              !.loaded[Main].at = "open"]

(* Mutant: a known section is opened again whether it is multiple or not.  *)
ReopensAny(s) == Validates(load.mode) /\ Top.conf[s] # << >>
(* open_section_ht: a section that is not multiple is opened again, if it  *)
(* is known to be so: without validation nothing is.                       *)
Reopens(s) == Validates(load.mode) /\ s = "global" /\ Top.conf[s] # << >>
ReadSection ==
    /\ Reading("section")
    /\ LET s == Line.name
           next == [Top EXCEPT !.next = @ + 1, !.section = s]
       IN  IF Validates(load.mode) /\ s \notin Known THEN Fail
           ELSE IF Top.only # {} /\ s \notin Top.only THEN BecomeTop([next EXCEPT !.index = 0])
           ELSE IF Reopens(s) THEN BecomeTop([next EXCEPT !.index = 1])
           ELSE BecomeTop([next EXCEPT !.conf[s] = Append(@, NewSection(Top.file, Top.next)),
                                       !.index = Len(Top.conf[s]) + 1])
    /\ UNCHANGED text

ReadOption ==
    /\ Reading("option")
    /\ LET next == [Top EXCEPT !.next = @ + 1]
       IN  BecomeTop(IF Top.index = 0 THEN next
                     ELSE [next EXCEPT !.conf[Top.section][Top.index].opts =
                              AddParam(@, Top.section, Line.name, Line.vals, Validates(load.mode))])
    /\ UNCHANGED text

(* prepare_include_path: a macro of the current section; in a section that *)
(* is being skipped the look into it fails an assertion.                   *)
IncludedPath(path) == IF path[1] = "is" THEN path
                      ELSE Expand(path, Top.conf[Top.section][Top.index].opts, NoOptions)
ReadInclude ==
    /\ Reading("include")
    /\ IF ~ Whole(load.mode) THEN BecomeTop([Top EXCEPT !.next = @ + 1])
       ELSE IF Line.paths[1][1] = "ref" /\ Top.index = 0 THEN Result("dead", NoConf)
       ELSE BecomeTop([Top EXCEPT
                !.next = @ + 1,
                !.pending = [i \in DOMAIN Line.paths |->
                    [path |-> IncludedPath(Line.paths[i]), relative |-> Line.relative, only |-> Line.only]]])
    /\ UNCHANGED text

(* do_ldconf, afile_open: that a file is included twice is an error only   *)
(* if the path says where it is; if it is relative the file is read again. *)
(* When files include each other that way the process runs out of          *)
(* descriptors or of its stack.                                            *)
OpenIncluded ==
    /\ load.at = "reading" /\ Top.pending # << >>
    /\ LET x == Head(Top.pending)
           f == x.path[2]
       IN  IF \/ x.path[1] = "ref"
              \/ ~ x.relative /\ load.loaded[f].at # "unread"
              \/ text[f] = Missing
           THEN Fail
           ELSE IF Len(load.stack) = MaxDepth THEN Fail \/ Result("dead", NoConf)
           ELSE load' = [load EXCEPT
                    !.stack = Append(Append(Front(@), [Top EXCEPT !.pending = Tail(@)]),
                                     Frame(f, x.only)),
                    !.loaded[f].at = IF @ = "read" THEN @ ELSE "open"]
    /\ UNCHANGED text

Close(loaded) ==
    load' = IF Len(load.stack) > 1 THEN [load EXCEPT !.stack = Front(@), !.loaded = loaded]
            ELSE IF loaded[Main].at # "read" THEN [Idle EXCEPT !.at = "failed"]
            ELSE IF Whole(load.mode) THEN [load EXCEPT !.at = "merging", !.stack = << >>, !.loaded = loaded]
            ELSE [Idle EXCEPT !.at = "loaded", !.loaded = loaded, !.conf = loaded[Main].conf]

(* split_option_line: at a line without = the reading of the file ends,    *)
(* its sections are not kept, and it is no error.                          *)
ReadNonsense == Reading("nonsense") /\ Close(load.loaded) /\ UNCHANGED text

(* poldek_conf_postsetup at the end of a file.                             *)
ToExpand(conf) ==
    <<<<"global", 1>>>> \o
    SetToSeq(UNION {{<<s, i>> : i \in DOMAIN conf[s]} : s \in Known \ {"global"}})
EndOfFile ==
    /\ load.at = "reading" /\ Top.pending = << >> /\ Top.next > Len(Lines) /\ ~ Top.closing
    /\ BecomeTop([Top EXCEPT !.closing = TRUE, !.expand = ToExpand(Top.conf)])
    /\ UNCHANGED text

ExpandSection ==
    /\ load.at = "reading" /\ Top.closing /\ Top.expand # << >>
    /\ LET s == Head(Top.expand)[1]
           i == Head(Top.expand)[2]
           opts == Top.conf[s][i].opts
           global == IF s = "global" THEN NoOptions ELSE Top.conf["global"][1].opts
       IN  \/ /\ s # "global" /\ ~ Verified(s, opts) /\ Fail
           \/ /\ s = "global" \/ Verified(s, opts)
              /\ \E order \in SetToSeqs(Refers(opts)) :
                   BecomeTop([Top EXCEPT !.expand = Tail(@),
                                         !.conf[s][i].opts = ExpandAll(opts, global, order)])
    /\ UNCHANGED text

CloseFile ==
    /\ load.at = "reading" /\ Top.closing /\ Top.expand = << >>
    /\ Close([load.loaded EXCEPT ![Top.file] = [at |-> "read", only |-> Top.only, conf |-> Top.conf]])
    /\ UNCHANGED text

(* Mutant: sections of the first file that has such are lost to others.    *)
MergeOver(conf, other) ==
    [s \in SectionName |-> IF s = "global" \/ other[s] = << >> THEN conf[s] ELSE other[s]]
(* merge_htconf: the sections of the first file that has such go to the    *)
(* configuration as they are, those of later ones from the last.  Which is *)
(* first depends on a hash.                                                *)
MergeInto(conf, other) ==
    [s \in SectionName |->
        IF s = "global" THEN conf[s]
        ELSE IF conf[s] = << >> THEN other[s] ELSE conf[s] \o Reverse(other[s])]
Merge ==
    /\ load.at = "merging"
    /\ \E order \in SetToSeqs({f \in File \ {Main} : load.loaded[f].at = "read"}) :
         Result("loaded", FoldLeft(LAMBDA c, f : MergeInto(c, load.loaded[f].conf),
                                   load.loaded[Main].conf, order))
    /\ UNCHANGED text

LoadStep ==
    \/ ReadSection \/ ReadOption \/ ReadInclude \/ OpenIncluded \/ ReadNonsense
    \/ EndOfFile \/ ExpandSection \/ CloseFile \/ Merge

(* poldek_conf_addlines: lines of the command line, to the first global    *)
(* section, which is made if nothing was loaded.                           *)
AddLines(conf, lines) ==
    FoldLeft(LAMBDA c, l : [c EXCEPT !["global"][1].opts =
                               AddParam(@, "global", l.name, l.vals, TRUE)],
             IF conf = NoConf THEN NewConf(Main) ELSE conf, lines)

(* poldek_conf_get_section, poldek_conf_get: of the first such section.    *)
Global(conf) == IF conf["global"] = << >> THEN NoOptions ELSE Head(conf["global"]).opts
Has(opts, n) == n \in DOMAIN opts
Get(opts, n, default) == IF Has(opts, n) THEN Head(opts[n])[2] ELSE default

-----------------------------------------------------------------------------
(* What the files say: a section goes to the next one.                     *)
Headers(f, s) == {i \in DOMAIN text[f] : text[f][i].kind = "section" /\ text[f][i].name = s}
Body(f, i) ==
    {j \in DOMAIN text[f] :
        /\ i < j /\ text[f][j].kind = "option"
        /\ \A k \in (i + 1)..j : text[f][k].kind # "section"}
(* What they say of an option: the last word or, of many, all.             *)
Canonical(n) == IF n \in DOMAIN Alias THEN Alias[n] ELSE n
Said(f, js, s, n) ==
    LET about == {j \in js : Canonical(text[f][j].name) = n}
        all == FlattenSeq([i \in DOMAIN text[f] |->
                              IF i \in about THEN text[f][i].vals ELSE << >>])
        last == CHOOSE j \in about : \A k \in about : k <= j
    IN  IF about = {} THEN << >>
        ELSE IF KindOf(s, n) = "many" THEN all ELSE text[f][last].vals

(* A section of a file that was read to its end is in the configuration,   *)
(* once, with what is said in it and no other option, whatever was         *)
(* included on the way (conf.c:1019-1232); what poldek does not know is    *)
(* left out, and nothing comes from a file that was given up.              *)
Opened(f, s) == IF load.loaded[f].at = "read" /\ (load.loaded[f].only = {} \/ s \in load.loaded[f].only)
                THEN {<<f, i>> : i \in Headers(f, s)} ELSE {}
SectionsAreWhole ==
    load.at = "loaded" /\ load.mode = "whole" =>
        \A s \in Known \ {"global"} :
            LET found == load.conf[s]
            IN  /\ {found[x].from : x \in DOMAIN found} = UNION {Opened(f, s) : f \in File}
                /\ \A x, y \in DOMAIN found : found[x].from = found[y].from => x = y
                /\ \A x \in DOMAIN found :
                     LET f == found[x].from[1]
                         js == Body(f, found[x].from[2])
                         opts == found[x].opts
                     IN  \A n \in DOMAIN Tag[s] :
                            LET said == Said(f, js, s, n)
                            IN  /\ Len(ValuesOf(opts, n)) = Len(said)
                                /\ \A i \in DOMAIN said : said[i][1] = "is" => opts[n][i] = said[i]

(* A macro is what the file it is used in says it is (poldek.conf.xml,     *)
(* "Macros are local to file"), in the section itself or globally, and     *)
(* stays as it is written only if the file does not say.                   *)
Globally(f) == {j \in DOMAIN text[f] :
                  /\ text[f][j].kind = "option"
                  /\ LET hs == {k \in 1..j : text[f][k].kind = "section"}
                     IN  hs = {} \/ \E k \in hs : text[f][k].name = "global" /\ \A m \in hs : m <= k}
MacrosAreLocal ==
    load.at = "loaded" /\ load.mode = "whole" =>
        \A s \in Known \ {"global"} : \A x \in DOMAIN load.conf[s] :
            LET sect == load.conf[s][x]
                f == sect.from[1]
                js == Body(f, sect.from[2]) \union Globally(f)
                words == UNION {ToSet(text[f][j].vals) : j \in js} \union {<<"is", "">>}
                named == {Canonical(text[f][j].name) : j \in js}
            IN  \A n \in DOMAIN sect.opts : \A i \in DOMAIN sect.opts[n] :
                   LET v == sect.opts[n][i]
                   IN  v \in words /\ (v[1] = "ref" => v[2] \notin named)

(* What is loaded is what was written: the sections with their options,    *)
(* and their macros.                                                       *)
ConfAsWritten == SectionsAreWhole /\ MacrosAreLocal
=============================================================================
