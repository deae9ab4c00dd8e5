-------------------------------- MODULE Shell --------------------------------
(***************************************************************************)
(* Commands (cli/cmd_chain.c, cmd_pipe.c, alias.c, cli.c, shell.c): those  *)
(* of the command line once poldek is set up, or those typed in its shell, *)
(* line after line.  A line is parsed, aliases expanded, as a whole before *)
(* any of it is run.                                                       *)
(*                                                                         *)
(* A word of a line is a string; ; and | are words that separate.          *)
(***************************************************************************)
EXTENDS Setup

CONSTANTS Command,      \* [name -> flags]
          GlobalAlias,  \* aliases of cli.conf, [name -> line]
          LocalAlias,   \* those of the user's file
          Abbreviates,  \* [word -> names it is the beginning of]
          External,     \* [word that begins with ! -> the rest of it]
          Param,        \* [word of the form %N -> N]
          Typeable,     \* lines that may be typed in the shell
          MaxLines,     \* bound: lines typed in the shell
          MaxExpansions \* bound: aliases expanded in a line

VARIABLES known,        \* commands and aliases
          sh,           \* the line at hand
          did           \* commands run
shellVars == <<known, sh, did>>

NoPipe == [pkgs |-> << >>, text |-> << >>]
NewLine == [at |-> "ready", todo |-> << >>, expanded |-> 0, chain |-> << >>, queue |-> << >>, pipe |-> NoPipe,
            typed |-> << >>, from |-> 0, lines |-> 0, quit |-> FALSE]
Interactive == proc.at = "shell"

-----------------------------------------------------------------------------
(* init_commands, add_alias: an alias for a command of the shell alone is  *)
(* one too, if that is known by then.  None can take the place of a        *)
(* command, and a later one takes that of an earlier, whose flags it keeps.*)
IsSeparator(word) == word \in {";", "|"}
(* alias_to: of one with a pipe it is never known, as only commands of the *)
(* command line are looked for.                                            *)
AliasFlags(cmds, words) ==
    LET to == IF "|" \in ToSet(words) THEN "" ELSE words[1]
    IN  IF to \in DOMAIN External \union {"quit"} THEN {"interactive"}
        ELSE IF to \in DOMAIN cmds THEN cmds[to].flags \intersect {"interactive"} ELSE {}
AddAlias(cmds, name, words) ==
    LET flags == AliasFlags(cmds, words)
    IN  IF name \notin DOMAIN cmds THEN (name :> [flags |-> flags, alias |-> words]) @@ cmds
        ELSE IF cmds[name].alias = << >> THEN cmds
        ELSE [cmds EXCEPT ![name] = [flags |-> @.flags \union flags, alias |-> words]]
AddAliases(cmds, aliases, order) == FoldLeft(LAMBDA c, n : AddAlias(c, n, aliases[n]), cmds, order)
BuiltIn == [c \in DOMAIN Command \ {"quit"} |-> [flags |-> Command[c], alias |-> << >>]]

ShellInit ==
    /\ known \in {AddAliases(AddAliases(BuiltIn, GlobalAlias, global), LocalAlias, local) :
                    global \in SetToSeqs(DOMAIN GlobalAlias), local \in SetToSeqs(DOMAIN LocalAlias)}
    /\ SetUpInit
    /\ sh = NewLine
    /\ did = << >>

-----------------------------------------------------------------------------
(* a_argv_split: commands and separators in turn; a separator with nothing *)
(* before it is left out.                                                  *)
Unpacked(word) == IF word \in DOMAIN External THEN <<"!", External[word], "--">> ELSE <<word>>
Split(words) ==
    LET acc == FoldLeft(LAMBDA a, w :
                          IF ~ IsSeparator(w) THEN [a EXCEPT !.argv = @ \o Unpacked(w)]
                          ELSE IF a.argv = << >> THEN a
                          ELSE [list |-> a.list \o <<a.argv, <<w>>>>, argv |-> << >>],
                        [list |-> << >>, argv |-> << >>], words)
    IN  IF acc.argv = << >> THEN acc.list ELSE Append(acc.list, acc.argv)

(* find_command: by its name or, if it is the only one, by its beginning.  *)
(* Mutant: commands of the shell alone are found everywhere.               *)
SkippedInShell(name) == Interactive /\ "batch" \in known[name].flags
Skipped(name) == (IF Interactive THEN "batch" ELSE "interactive") \in known[name].flags
Meant(word) ==
    IF word \in DOMAIN known THEN {word} \ {n \in {word} : Skipped(n)}
    ELSE LET names == {n \in (IF word \in DOMAIN Abbreviates THEN Abbreviates[word] ELSE {}) \intersect DOMAIN known :
                          ~ Skipped(n)}
         IN  IF Cardinality(names) = 1 THEN names ELSE {}

(* apply_params, prepare_a_argv: the words an alias has a place for are    *)
(* put there; if there are others the alias is taken as it is written,     *)
(* with its places empty, and they are put after it.                       *)
Places(words) == {words[i] : i \in DOMAIN words} \intersect DOMAIN Param
AppliedParams(words, argv) ==
    [i \in DOMAIN words |-> IF words[i] \in DOMAIN Param THEN argv[Param[words[i]] + 1] ELSE words[i]]
LeftOver(words, argv) ==
    LET used == {Param[w] + 1 : w \in Places(words)}
    IN  [j \in 1..Cardinality(DOMAIN argv \ used) |->
            argv[CHOOSE i \in DOMAIN argv \ used : Cardinality({k \in DOMAIN argv \ used : k <= i}) = j]]
HasWords(words, argv) == \A w \in Places(words) : Param[w] + 1 \in DOMAIN argv
Expansion(words, argv) ==
    LET rest == LeftOver(words, argv)
    IN  IF Len(rest) > 1 THEN words \o Tail(rest) ELSE AppliedParams(words, argv)

StartLine(words, count) ==
    sh' = [sh EXCEPT !.at = "parsing", !.todo = Split(words), !.typed = words, !.from = Len(did), !.lines = @ + count]
(* main, do_poclidek_exec: the words of the command line are joined.       *)
FromCommandLine(args) == [i \in DOMAIN args |-> IF args[i][1] = "arg" THEN args[i][2] ELSE args[i][1]]
StartBatch ==
    /\ sh.at = "ready" /\ proc.at \in {"exec", "execline"}
    /\ StartLine(IF proc.at = "exec" THEN FromCommandLine(proc.words) ELSE proc.shcmd, 0)
    /\ UNCHANGED <<confVars, setupVars, known, did>>

(* poclidek_shell.                                                         *)
StartShell ==
    /\ sh.at = "ready" /\ Interactive
    /\ sh' = [sh EXCEPT !.at = "prompt"]
    /\ known' = known @@ ("quit" :> [flags |-> Command["quit"], alias |-> << >>])
    /\ UNCHANGED <<confVars, setupVars, did>>
TypeLine ==
    /\ sh.at = "prompt" /\ sh.lines < MaxLines
    /\ \E words \in Typeable : StartLine(words, 1)
    /\ UNCHANGED <<confVars, setupVars, known, did>>
(* At the end of the input.                                                *)
LeaveShell ==
    /\ sh.at = "prompt"
    /\ sh' = [sh EXCEPT !.at = "over"]
    /\ UNCHANGED <<confVars, setupVars, known, did>>

(* After quit the rest of its line is run.                                 *)
Ends == ~ Interactive \/ sh.quit
Nothing == [NewLine EXCEPT !.at = IF Ends THEN "over" ELSE "prompt", !.typed = sh.typed, !.lines = sh.lines,
                           !.from = sh.from]
(* Mutant: what is no command is left out.                                 *)
ParseWordsLeavingOut ==
    /\ sh.at = "parsing" /\ sh.todo # << >>
    /\ LET argv == Head(sh.todo)
           rest == Tail(sh.todo)
           meant == Meant(argv[1])
       IN  IF IsSeparator(argv[1]) THEN sh' = [sh EXCEPT !.todo = rest, !.chain = Append(@, argv)]
           ELSE IF meant = {} \/ known[CHOOSE n \in meant : TRUE].alias # << >> THEN sh' = [sh EXCEPT !.todo = rest]
           ELSE sh' = [sh EXCEPT !.todo = rest, !.chain = Append(@, <<CHOOSE n \in meant : TRUE>> \o Tail(argv))]
    /\ UNCHANGED <<confVars, setupVars, known, did>>

(* prepare_cmdline, prepare_a_argv, a command after another; an alias that *)
(* leads to itself ends in an exhausted stack.                             *)
ParseWords ==
    /\ sh.at = "parsing" /\ sh.todo # << >>
    /\ LET argv == Head(sh.todo)
           rest == Tail(sh.todo)
           meant == Meant(argv[1])
       IN  IF IsSeparator(argv[1])
           THEN sh' = [sh EXCEPT !.todo = rest, !.chain = Append(@, argv)]
           ELSE IF meant = {} THEN sh' = Nothing
           ELSE LET name == CHOOSE n \in meant : TRUE
                    words == known[name].alias
                IN  IF words = << >>
                    THEN sh' = [sh EXCEPT !.todo = rest, !.chain = Append(@, <<name>> \o Tail(argv))]
                    ELSE IF ~ HasWords(words, argv) THEN sh' = Nothing
                    ELSE IF sh.expanded = MaxExpansions THEN sh' = [Nothing EXCEPT !.at = "dead"]
                    ELSE sh' = [sh EXCEPT !.todo = Split(Expansion(words, argv)) \o rest, !.expanded = @ + 1]
    /\ UNCHANGED <<confVars, setupVars, known, did>>

(* divide_into_pipelines.  That commands can be followed by a pipe is asked*)
(* of the first of a pipeline only.                                        *)
Flags(argv) == known[argv[1]].flags
Divide(chain) ==
    LET acc == FoldLeft(LAMBDA a, argv :
                  CASE a.at # "ok" -> a
                    [] a.piped /\ IsSeparator(argv[1]) -> [a EXCEPT !.at = "dead"]
                    [] a.piped /\ "left" \notin Flags(argv) -> [a EXCEPT !.at = "error"]
                    [] a.piped -> [a EXCEPT !.lines = Append(Front(@), Append(Last(@), argv)), !.piped = FALSE]
                    [] argv[1] = ";" -> a
                    [] argv[1] = "|" -> IF a.lines = << >> THEN [a EXCEPT !.at = "dead"]
                                        ELSE IF "right" \notin Flags(Head(Last(a.lines))) THEN [a EXCEPT !.at = "error"]
                                        ELSE [a EXCEPT !.piped = TRUE]
                    [] OTHER -> [a EXCEPT !.lines = Append(@, <<argv>>)],
                [at |-> "ok", lines |-> << >>, piped |-> FALSE], chain)
    IN  IF acc.at = "ok" /\ acc.piped THEN [acc EXCEPT !.at = "error"] ELSE acc
RunLine ==
    /\ sh.at = "parsing" /\ sh.todo = << >>
    /\ LET divided == Divide(sh.chain)
       IN  sh' = CASE divided.at = "dead" -> [Nothing EXCEPT !.at = "dead"]
                   [] divided.at = "error" \/ sh.chain = << >> -> Nothing
                   [] OTHER -> [sh EXCEPT !.at = "running", !.queue = divided.lines, !.pipe = NoPipe]
    /\ UNCHANGED <<confVars, setupVars, known, did>>

-----------------------------------------------------------------------------
(* poclidek_exec_cmd_ent: a command of a pipeline after the first one is   *)
(* given what the one before it has written; if that is nothing the rest   *)
(* is not run.  Whether one fails the others do not care about.            *)
Argv == Head(Head(sh.queue))
Behind == sh.at = "piped"
Given == IF ~ Behind \/ "xargs" \notin Flags(Argv) THEN << >>
         ELSE IF sh.pipe.pkgs # << >> THEN sh.pipe.pkgs ELSE sh.pipe.text
(* Mutant: with nothing from its pipe a command is run on its own words.   *)
StarvedNever == FALSE
Starved == Behind /\ "xargs" \in Flags(Argv) /\ Given = << >>
Words == Tail(Argv) \o Given
Runs(names) == sh.at \in {"running", "piped"} /\ Argv[1] \in names /\ ~ Starved

NextPipeline(quit) ==
    sh' = IF Len(sh.queue) = 1 THEN [Nothing EXCEPT !.at = IF quit THEN "over" ELSE @]
          ELSE [sh EXCEPT !.at = "running", !.queue = Tail(@), !.pipe = NoPipe, !.quit = quit]
WithOutput(out) ==
    IF Len(Head(sh.queue)) = 1 THEN NextPipeline(sh.quit)
    ELSE sh' = [sh EXCEPT !.at = "piped", !.queue[1] = Tail(@), !.pipe = out]
Record(how, type, on, marked) ==
    did' = Append(did, [what |-> Argv[1], how |-> how, type |-> type, on |-> on, argv |-> Argv, given |-> Given,
                        piped |-> Behind, shell |-> Interactive, marked |-> marked])
RecordOnly(how) == Record(how, "", {}, Unmarked)

EmptyPipe ==
    /\ sh.at = "piped" /\ Starved
    /\ NextPipeline(sh.quit)
    /\ UNCHANGED <<confVars, setupVars, known, did>>

(* The transaction of the command line or, in the shell, one of its own.   *)
NewTs == [type |-> "", flags |-> {}, args |-> << >>, modes |-> << >>]
IsOption(word) == word \in DOMAIN OptionOp \union {"-t"}
Ts == LET ts == IF Interactive THEN NewTs ELSE cmd
      IN  [ts EXCEPT !.args = @ \o SelectSeq(Words, LAMBDA w : ~ IsOption(w))]
TsOps == FoldLeft(LAMBDA o, w : IF IsOption(w) THEN WithOption(o, w) ELSE o,
                  IF Interactive THEN [ops EXCEPT !.cmd = NewOps(ops.ctx)] ELSE ops, Words)
Keep(ts, o) == IF Interactive THEN ops' = [o EXCEPT !.cmd = ops.cmd] /\ UNCHANGED cmd
               ELSE ops' = o /\ cmd' = ts
(* ls: do_resolve; of those that some word matches, with nothing said all. *)
Listed(words) ==
    IF words = << >> \/ "*" \in ToSet(words) THEN Available
    ELSE SelectSeq(Available, LAMBDA p : \E m \in ToSet(words) : p \in Matching(m, {p}))
List ==
    /\ Runs({"ls"})
    /\ LET pkgs == Listed(Ts.args) IN WithOutput([pkgs |-> pkgs, text |-> pkgs])
    /\ RecordOnly(Ts.args)
    /\ Keep(Ts, TsOps)
    /\ UNCHANGED <<confVars, line, proc, srcopt, ctx, ran, known>>

(* external: a process and what it prints, of what it reads.               *)
RunExternal ==
    /\ Runs({"!"})
    /\ \E n \in 0..1 : LET read == IF Behind THEN sh.pipe.text ELSE Argv
                       IN  WithOutput([pkgs |-> << >>, text |-> SubSeq(read, 1, n)])
    /\ RecordOnly(Tail(Argv))
    /\ UNCHANGED <<confVars, setupVars, known>>

(* argp: these need words.  The type that was said first stays, and lists  *)
(* were read by the first transaction.                                     *)
Transacts(d) == d.type # ""
SetUpDone == ~ Interactive /\ \E i \in DOMAIN did : Transacts(did[i])
RunTs(ts, o) ==
    LET post == IF Interactive THEN o ELSE PostConf(o, ctx.conf)
    IN  /\ \E marked \in MarkedFor(ts.type, ts.flags, ts.args, post.cmd.on, SetUpDone) :
              Record(ts.args, ts.type, post.cmd.on, marked)
        /\ Keep(ts, post)
Refused(ts, o) == RecordOnly(<< >>) /\ Keep(ts, o)
NoWords == SelectSeq(Words, LAMBDA w : ~ IsOption(w)) = << >>
InstallCommand ==
    /\ Runs({"install"})
    /\ LET ts == Ts
           o == TsOps
       IN  \/ NoWords /\ Refused(ts, o)
           \/ /\ ~ NoWords
              /\ \E c \in Checked(ts.args, o.cmd.on) :
                   LET given == [ts EXCEPT !.args = c.args]
                       typed == SetType(given, "install")
                   IN  IF ~ c.ok THEN Refused(given, o)
                       ELSE RunTs([typed EXCEPT !.flags = @ \union (IF "install" \in @ THEN {} ELSE {"upgrade"})],
                                  TypeOps(o, ts, "install"))
    /\ WithOutput(NoPipe)
    /\ UNCHANGED <<confVars, line, proc, srcopt, ctx, ran, known>>
(* uninstall: of installed packages found by every word, in place of the   *)
(* words; lists are not read.                                              *)
InstalledFor(words) ==
    LET masks == SelectSeq(words, LAMBDA w : w \notin DOMAIN Lists)
        found == CHOOSE r \in Resolve(masks, ToSet(Installed), {"exact"}) : TRUE
    IN  SelectSeq(Installed, LAMBDA p : p \in found.pkgs)
UninstallCommand ==
    /\ Runs({"uninstall"})
    /\ LET ts == Ts
           o == TsOps
           found == [ts EXCEPT !.args = InstalledFor(@)]
       IN  IF NoWords \/ found.args = << >> THEN Refused(ts, o)
           ELSE RunTs(SetType(found, "uninstall"), TypeOps(o, ts, "uninstall"))
    /\ WithOutput(NoPipe)
    /\ UNCHANGED <<confVars, line, proc, srcopt, ctx, ran, known>>

OtherCommand ==
    /\ sh.at \in {"running", "piped"} /\ Argv[1] \notin {"ls", "!", "install", "uninstall", "quit"}
    /\ Runs({Argv[1]})
    /\ RecordOnly(Tail(Argv))
    /\ NextPipeline(sh.quit)
    /\ UNCHANGED <<confVars, setupVars, known>>
Quit ==
    /\ Runs({"quit"})
    /\ RecordOnly(<< >>)
    /\ NextPipeline(TRUE)
    /\ UNCHANGED <<confVars, setupVars, known>>

CommandStep ==
    \/ List \/ RunExternal \/ InstallCommand \/ UninstallCommand \/ OtherCommand \/ Quit \/ EmptyPipe
ShellStep ==
    \/ StartBatch \/ StartShell \/ TypeLine \/ LeaveShell \/ ParseWords \/ RunLine \/ CommandStep
ShellNext == (SetUpNext /\ UNCHANGED shellVars) \/ ShellStep

-----------------------------------------------------------------------------
(* In the shell a transaction is of the kind its command names, with the   *)
(* options given there, and about what was said in that command and what   *)
(* came through its pipe, which is something and all that was listed       *)
(* before it, and nothing else (cli.c:800-875).                            *)
OwnWords ==
    \A i \in DOMAIN did : did[i].shell /\ Transacts(did[i]) =>
        LET d == did[i]
            said == SelectSeq(Tail(d.argv) \o d.given, LAMBDA w : ~ IsOption(w))
        IN  /\ d.type = d.what /\ ("test" \in d.on <=> "-t" \in ToSet(Tail(d.argv) \o d.given))
            /\ said # << >>
            /\ IF d.what = "uninstall" THEN d.how = InstalledFor(said) /\ d.how # << >>
               ELSE d.how = said \/ (d.how # << >> /\ d.how \in PackagesOf(said))
            /\ d.piped => /\ d.given # << >>
                          /\ did[i - 1].what = "ls" => d.given = Listed(did[i - 1].how)

(* What is marked in the sources answers to the words of the transaction   *)
(* (arg_packages.c:485-790).                                               *)
AskedIsMarked ==
    /\ \A i \in DOMAIN ran : ran[i].what \in {"install", "verify"} =>
          \A words \in ran[i].how : words # << >> => AnswersTo(ran[i].marked, words)
    /\ \A i \in DOMAIN did : AnswersTo(did[i].marked, did[i].how)

(* Nothing of a line is run if some of it cannot be; else the first        *)
(* command of each pipeline is, in the order typed, whatever the others    *)
(* came to.  Nothing for the shell alone is run from the command line, by  *)
(* whatever alias, nor the other way round (cmd_chain.c:297-537).          *)
LineDone == SubSeq(did, sh.from + 1, Len(did))
IsPlain(argv) == argv[1] \in DOMAIN known /\ known[argv[1]].alias = << >>
HeadsOf(segs) ==
    LET is == SelectSeq([i \in DOMAIN segs |-> i],
                        LAMBDA i : ~ IsSeparator(segs[i][1]) /\ (i = 1 \/ segs[i - 1][1] # "|"))
    IN  [k \in DOMAIN is |-> segs[is[k]]]
AllOrNothing ==
    /\ sh.at \in {"prompt", "over"} =>
         LET segs == Split(sh.typed)
             commands == SelectSeq(segs, LAMBDA s : ~ IsSeparator(s[1]))
             heads == SelectSeq(LineDone, LAMBDA d : ~ d.piped)
         IN  IF \E i \in DOMAIN commands : Meant(commands[i][1]) = {} THEN LineDone = << >>
             ELSE LineDone # << >> /\ (\A i \in DOMAIN commands : IsPlain(commands[i])) =>
                     [k \in DOMAIN heads |-> heads[k].argv] = HeadsOf(segs)
    /\ \A i \in DOMAIN did :
         (IF did[i].shell THEN "batch" ELSE "interactive") \notin known[did[i].argv[1]].flags

(* A line does what was typed: it runs as a whole or not at all, its       *)
(* transactions on their own words, and what is marked answers to these    *)
(* (cmd_chain.c:297-537, cli.c:800-916, arg_packages.c:460-771).           *)
LinesAsTyped == OwnWords /\ AskedIsMarked /\ AllOrNothing
=============================================================================
