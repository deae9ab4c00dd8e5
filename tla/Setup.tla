------------------------------- MODULE Setup -------------------------------
(***************************************************************************)
(* From the start of poldek to its shell (cli/main.c, op*.c, lib_init.c):  *)
(* the switch to an ordinary user, the options in the order they are typed *)
(* in, the configuration, sources and package manager, and what groups of  *)
(* options ask for, one after another.                                     *)
(*                                                                         *)
(* An argument is <<option, value>>, or <<"arg", word>> if it is no option.*)
(***************************************************************************)
EXTENDS Sources, Options, ArgPackages

CONSTANTS Inputs,       \* what there may be: files, a command line, who runs it
          BadDirs,      \* directories that cannot be used as a cache
          Kinds         \* [type of a source -> how it is updated]

VARIABLES line,         \* the command line
          proc,         \* the process
          srcopt,       \* what options of sources have said
          ctx,          \* the library
          cmd,          \* the transaction of the command line
          ops,          \* options of both
          ran           \* what has been done
setupVars == <<line, proc, srcopt, ctx, cmd, ops, ran>>

SetUpInit ==
    /\ \E input \in Inputs :
         /\ text = input.text /\ line = input.line
         /\ proc = [at |-> "start", next |-> 1, root |-> input.root, user |-> IF input.root THEN "root" ELSE "user",
                    flags |-> {}, words |-> << >>, shcmd |-> << >>]
    /\ load = Idle
    /\ srcopt = [type |-> "", path |-> FALSE, last |-> "none", dt |-> "", dest |-> FALSE, flags |-> {}]
    /\ ctx = [cachedir |-> "none", vfdir |-> "none", cacheset |-> FALSE, lines |-> << >>, conf |-> NoConf,
              asked |-> << >>, askeddest |-> << >>, srcs |-> {}, dest |-> {}, pm |-> "rpm", hold |-> << >>]
    /\ cmd = [type |-> "", flags |-> {}, args |-> << >>, modes |-> << >>]
    /\ ops = [ctx |-> DefaultOps, cmd |-> NewOps(DefaultOps)]
    /\ ran = << >>

GoTo(at) == proc' = [proc EXCEPT !.at = at]
Exit == GoTo("exited")

-----------------------------------------------------------------------------
(* do_su: the options are only looked for; none of the configuration is    *)
(* checked.  If the user cannot be changed to that is the end.             *)
Typed(keys) == {i \in DOMAIN line : line[i][1] \in keys}
RunAs == CHOOSE i \in Typed({"--runas"}) : \A k \in Typed({"--runas"}) : i <= k
BecomeUser(user) ==
    IF user \in {"", "none"} THEN GoTo("options")
    ELSE proc' = [proc EXCEPT !.at = "options", !.user = user] \/ Exit

DoSu ==
    /\ proc.at = "start"
    /\ IF Typed({"--runas"}) # {}
       THEN /\ IF proc.root THEN BecomeUser(line[RunAs][2]) ELSE Exit
            /\ UNCHANGED load
       ELSE IF proc.root /\ Typed({"--mkidx", "--makeidx"}) = {}
       THEN StartLoad("unchecked") /\ GoTo("su")
       ELSE GoTo("options") /\ UNCHANGED load
    /\ UNCHANGED <<text, line, srcopt, ctx, cmd, ops, ran>>

Loaded(at) == proc.at = at /\ load.at \in {"loaded", "failed", "dead"}
Su ==
    /\ Loaded("su")
    /\ BecomeUser(IF load.at = "loaded" THEN Get(Global(load.conf), "run as", "") ELSE "")
    /\ load' = Idle
    /\ UNCHANGED <<text, line, srcopt, ctx, cmd, ops, ran>>

-----------------------------------------------------------------------------
(* parse_opt of the groups, argument after argument.                       *)
Key == line[proc.next][1]
Val == line[proc.next][2]
Parsing(keys) == proc.at = "options" /\ proc.next <= Len(line) /\ Key \in keys
Passed == [proc EXCEPT !.next = @ + 1]
Pass == proc' = Passed

(* op_source.c.  --st goes on until -P, and so does the type of --sdir.    *)
SourceFlag == "--up" :> {"update"} @@ "--clean-pkg" :> {"cleanpkg"}
              @@ "--clean" :> {"clean", "cleanpkg"} @@ "--clean-all" :> {"clean", "cleanpkg"}
Ask(asked, src) == AddSource(asked, src)
GivenType == IF Key = "--sdir" /\ srcopt.type = "" THEN "dir" ELSE srcopt.type
SourceByName ==
    /\ Parsing({"-n", "--dn"})
    /\ IF Key = "-n"
       THEN /\ ctx' = [ctx EXCEPT !.asked = Ask(@, Named(Val))]
            /\ srcopt' = [srcopt EXCEPT !.last = "named", !.flags = @ \union {"specified"}]
       ELSE /\ ctx' = [ctx EXCEPT !.askeddest = Ask(@, Named(Val)), !.pm = "pset"]
            /\ UNCHANGED srcopt
    /\ Pass
    /\ UNCHANGED <<confVars, line, cmd, ops, ran>>
SourceByPath ==
    /\ Parsing({"-s", "--sdir"})
    /\ srcopt' = [srcopt EXCEPT !.type = GivenType, !.path = TRUE, !.last = "path", !.flags = @ \union {"specified"}]
    /\ ctx' = [ctx EXCEPT !.asked = Ask(@, FromSpec(GivenType, Val))]
    /\ Pass
    /\ UNCHANGED <<confVars, line, cmd, ops, ran>>
SourceType ==
    /\ Parsing({"--st", "--dt"})
    /\ IF Key = "--st" THEN srcopt' = [srcopt EXCEPT !.type = Val] /\ Pass
       ELSE IF srcopt.dest THEN Exit /\ UNCHANGED srcopt
       ELSE srcopt' = [srcopt EXCEPT !.dt = Val] /\ Pass
    /\ UNCHANGED <<confVars, line, ctx, cmd, ops, ran>>
Destination ==
    /\ Parsing({"--destination"})
    /\ IF srcopt.dest THEN Exit /\ UNCHANGED <<srcopt, ctx>>
       ELSE /\ srcopt' = [srcopt EXCEPT !.dest = TRUE]
            /\ ctx' = [ctx EXCEPT !.askeddest = Ask(@, FromSpec(srcopt.dt, Val)), !.pm = "pset"]
            /\ Pass
    /\ UNCHANGED <<confVars, line, cmd, ops, ran>>
(* Without a type the look at it is a look at nothing.                     *)
Prefix ==
    /\ Parsing({"-P"})
    /\ IF ~ srcopt.path THEN Exit /\ UNCHANGED <<srcopt, ctx>>
       ELSE IF srcopt.type = "" THEN GoTo("dead") /\ UNCHANGED <<srcopt, ctx>>
       ELSE IF srcopt.type = "dir" \/ srcopt.last = "named" THEN Exit /\ UNCHANGED <<srcopt, ctx>>
       ELSE /\ srcopt' = [srcopt EXCEPT !.path = FALSE, !.type = ""]
            /\ ctx' = [ctx EXCEPT !.asked[Len(ctx.asked)].prefix = Val]
            /\ Pass
    /\ UNCHANGED <<confVars, line, cmd, ops, ran>>
SourceAction ==
    /\ Parsing(DOMAIN SourceFlag \union {"--upa"})
    /\ srcopt' = [srcopt EXCEPT !.flags = @ \union
           (IF Key # "--upa" THEN SourceFlag[Key]
            ELSE {"update", "whole"} \union (IF "update" \in @ THEN {"auto"} ELSE {}))]
    /\ Pass
    /\ UNCHANGED <<confVars, line, ctx, cmd, ops, ran>>

(* Mutant: every one is set up.                                            *)
SetCachedirAgain(c, dir) ==
    IF dir \in BadDirs THEN [c EXCEPT !.cachedir = "none"]
    ELSE [c EXCEPT !.cachedir = dir, !.vfdir = dir, !.cacheset = TRUE]
(* main.c.  A cache directory is set up at once, and only the first one.   *)
SetCachedir(c, dir) ==
    IF c.cacheset THEN [c EXCEPT !.cachedir = dir]
    ELSE IF dir \in BadDirs THEN [c EXCEPT !.cachedir = "none"]
    ELSE [c EXCEPT !.cachedir = dir, !.vfdir = dir, !.cacheset = TRUE]
TypedCachedir ==
    /\ Parsing({"--cachedir"})
    /\ ctx' = SetCachedir(ctx, Val)
    /\ IF SetCachedir(ctx, Val).cacheset THEN Pass ELSE Exit
    /\ UNCHANGED <<confVars, line, srcopt, cmd, ops, ran>>
(* add_param of the lines is done later.                                   *)
ConfigLine ==
    /\ Parsing({"-O"})
    /\ ctx' = [ctx EXCEPT !.lines = Append(@, Val)]
    /\ Pass
    /\ UNCHANGED <<confVars, line, srcopt, cmd, ops, ran>>
Asking(ts, val) == FoldSet(LAMBDA op, t : SetOp(t, op, val, TRUE), ts, Confirming)
MainOption ==
    /\ Parsing({"--ask", "--noask", "--pm", "--noconf", "--upconf", "--shell", "--shcmd", "--cmd", "--runas"})
    /\ ops' = CASE Key = "--ask" -> [ops EXCEPT !.ctx = Asking(@, 1)]
                [] Key = "--noask" -> [ops EXCEPT !.ctx = Asking(@, 0)]
                [] OTHER -> ops
    /\ ctx' = IF Key = "--pm" THEN [ctx EXCEPT !.pm = Val] ELSE ctx
    /\ proc' = CASE Key \in {"--noconf", "--upconf", "--shell"} -> [Passed EXCEPT !.flags = @ \union {Key}]
                 [] Key = "--shcmd" -> [Passed EXCEPT !.flags = @ \union {"--shell"}, !.shcmd = Val]
                 [] Key = "--cmd" -> [Passed EXCEPT !.flags = @ \union {"apt"}]
                 [] OTHER -> Passed
    /\ UNCHANGED <<confVars, line, srcopt, cmd, ran>>

(* install.c, uninstall.c, op_verify.c: what the command line is for.  The *)
(* first type stays, which of an uninstallation is greedy only if asked    *)
(* before or after.                                                        *)
Mode == "-i" :> <<"install", "install", "install", {"install"}>>
        @@ "-u" :> <<"install", "upgrade", "upgrade", {"upgrade"}>>
        @@ "--downgrade" :> <<"install", "upgrade", "downgrade", {"upgrade", "downgrade"}>>
        @@ "--upgrade-dist" :> <<"install", "upgrade-dist", "upgrade-dist", {"upgrade", "dist"}>>
        @@ "-e" :> <<"uninstall", "erase", "erase", {}>>
        @@ "--verify" :> <<"", "verify", "verify", {"verify"}>>
SetType(c, type) == IF c.type # "" THEN c ELSE [c EXCEPT !.type = type]
TypeOps(o, c, type) ==
    IF c.type = "" /\ type = "uninstall" /\ "greedy" \notin o.cmd.touched
    THEN SetCommandOp(o, "greedy", 0, TRUE) ELSE o
MajorMode ==
    /\ Parsing(DOMAIN Mode)
    /\ LET m == Mode[Key]
       IN  /\ cmd' = [SetType(cmd, m[1]) EXCEPT !.flags = @ \union m[4],
                                                !.modes = (m[2] :> m[3]) @@ @]
           /\ ops' = TypeOps(ops, cmd, m[1])
    /\ Pass
    /\ UNCHANGED <<confVars, line, srcopt, ctx, ran>>

OptionOp == "-G" :> <<"greedy", 1>> @@ "--greedy=yes" :> <<"greedy", 1>> @@ "--greedy=no" :> <<"greedy", 0>>
            @@ "--follow=yes" :> <<"follow", 1>> @@ "--follow=no" :> <<"follow", 0>>
            @@ "--promoteepoch" :> <<"promoteepoch", 1>> @@ "--nodeps" :> <<"nodeps", 1>>
            @@ "--caplookup" :> <<"caplookup", 1>> @@ "--force" :> <<"force", 1>> @@ "--mercy" :> <<"mercy", 1>>
            @@ "-F" :> <<"freshen", 1>> @@ "--justdb" :> <<"justdb", 1>> @@ "--nofetch" :> <<"nofetch", 1>>
            @@ "--fetch" :> <<"justfetch", 1>> @@ "--dump" :> <<"justprint", 1>>
WithOption(o, key) ==
    IF key = "-t" THEN SetCommandOp(o, IF "test" \in o.cmd.on THEN "rpmtest" ELSE "test", 1, TRUE)
    ELSE SetCommandOp(o, OptionOp[key][1], OptionOp[key][2], TRUE)
TransactionOption ==
    /\ Parsing(DOMAIN OptionOp \union {"-t"})
    /\ ops' = WithOption(ops, Key)
    /\ Pass
    /\ UNCHANGED <<confVars, line, srcopt, ctx, cmd, ran>>
HoldOption ==
    /\ Parsing({"--hold", "--nohold"})
    /\ IF Key = "--hold"
       THEN /\ ops' = [ops EXCEPT !.ctx = SetOp(@, "hold", 1, TRUE)]
            /\ ctx' = [ctx EXCEPT !.hold = Append(@, <<"is", Val>>)]
       ELSE /\ ops' = [SetCommandOp(ops, "hold", 0, TRUE) EXCEPT !.ctx = SetOp(@, "hold", 0, TRUE)]
            /\ UNCHANGED ctx
    /\ Pass
    /\ UNCHANGED <<confVars, line, srcopt, cmd, ran>>
MkidxOption ==
    /\ Parsing({"--mkidx"})
    /\ proc' = [Passed EXCEPT !.flags = @ \union {"mkidx"}]
    /\ UNCHANGED <<confVars, line, srcopt, ctx, cmd, ops, ran>>

(* ARGP_KEY_ARG: with no major mode yet the rest is a command.             *)
Argument ==
    /\ Parsing({"arg"})
    /\ IF "apt" \in proc.flags \/ cmd.modes = << >>
       THEN /\ proc' = [proc EXCEPT !.next = Len(line) + 1, !.flags = @ \union {"apt"},
                                    !.words = SubSeq(line, proc.next, Len(line))]
            /\ UNCHANGED cmd
       ELSE Pass /\ cmd' = [cmd EXCEPT !.args = Append(@, Val)]
    /\ UNCHANGED <<confVars, line, srcopt, ctx, ops, ran>>
ListOption ==
    /\ Parsing({"--pset"})
    /\ cmd' = [cmd EXCEPT !.args = Append(@, Val)]
    /\ Pass
    /\ UNCHANGED <<confVars, line, srcopt, ctx, ops, ran>>

(* poclidek_op_ctx_verify_major_mode: two modes are let through if they    *)
(* are two.                                                                *)
ModesAgree ==
    \/ Cardinality(DOMAIN cmd.modes) < 2
    \/ /\ Cardinality(DOMAIN cmd.modes) = 2
       /\ \E m, n \in DOMAIN cmd.modes : cmd.modes[m] # cmd.modes[n]
Parsed ==
    /\ proc.at = "options" /\ proc.next > Len(line)
    /\ IF ModesAgree THEN GoTo("config") ELSE Exit
    /\ UNCHANGED <<confVars, line, srcopt, ctx, cmd, ops, ran>>

-----------------------------------------------------------------------------
(* load_conf, do_load_conf.                                                *)
DefaultCachedir(c) == [c EXCEPT !.cachedir = "default", !.vfdir = "default"]
StartConfig ==
    /\ proc.at = "config"
    /\ IF "--noconf" \in proc.flags
       THEN GoTo(IF ctx.lines = << >> THEN "setup" ELSE "configure") /\ UNCHANGED load
       ELSE IF ctx.cacheset THEN StartLoad("whole") /\ GoTo("configure")
       ELSE StartLoad("first") /\ GoTo("peek")
    /\ UNCHANGED <<text, line, srcopt, ctx, cmd, ops, ran>>

(* The cache directory is needed before remote files are read.             *)
PeekedCachedir ==
    IF Has(Global(load.conf), "cachedir") THEN SetCachedir(ctx, Get(Global(load.conf), "cachedir", ""))
    ELSE DefaultCachedir(ctx)
Peek ==
    /\ Loaded("peek")
    /\ IF load.at = "failed" THEN GoTo("configure") /\ UNCHANGED <<load, ctx>>
       ELSE /\ ctx' = PeekedCachedir
            /\ GoTo("configure")
            /\ IF PeekedCachedir.cachedir = "none" THEN load' = [Idle EXCEPT !.at = "failed"] ELSE StartLoad("whole")
    /\ UNCHANGED <<text, line, srcopt, cmd, ops, ran>>

(* poldek_load_config: lines of the command line are a configuration even  *)
(* if there is no other.                                                   *)
ConfigWith(conf) == IF ctx.lines = << >> THEN conf ELSE AddLines(conf, ctx.lines)
LateCachedir(c, opts) ==
    IF c.cacheset \/ ~ Has(opts, "cachedir") THEN c ELSE SetCachedir(c, Get(opts, "cachedir", ""))
Configure ==
    /\ proc.at = "configure" /\ load.at \in {"idle", "loaded", "failed", "dead"}
    /\ LET conf == ConfigWith(load.conf)
       IN  IF load.at = "dead" THEN GoTo("dead") /\ UNCHANGED <<ctx, ops>>
           ELSE IF conf = NoConf THEN Exit /\ UNCHANGED <<ctx, ops>>
           ELSE /\ ops' = [ops EXCEPT !.ctx = Configured(@, Global(conf))]
                /\ ctx' = [LateCachedir(ctx, Global(conf)) EXCEPT
                               !.conf = conf,
                               !.hold = IF @ # << >> THEN @ ELSE ValuesOf(Global(conf), "hold")]
                /\ GoTo("setup")
    /\ UNCHANGED <<confVars, line, srcopt, cmd, ran>>

(* poldek_setup: cache directory, sources, those of the destination,       *)
(* package manager.                                                        *)
NumbersTie(srcs) == \E s, t \in srcs : s # t /\ s.no = t.no
PmFails(dest) == \/ ctx.pm = "pset" /\ dest = {}
                 \/ ctx.pm \notin {"rpm", "pset"}
SetUp ==
    /\ proc.at = "setup"
    /\ \E got \in Prepare(ctx.conf, ctx.asked) :
         IF got.at # "ok" THEN GoTo(IF got.at = "dead" THEN "dead" ELSE "exited") /\ UNCHANGED ctx
         ELSE \E to \in IF ctx.askeddest = << >> THEN {[got EXCEPT !.srcs = {}]}
                        ELSE Prepare(got.conf, ctx.askeddest) :
                IF to.at # "ok" THEN GoTo(IF to.at = "dead" THEN "dead" ELSE "exited") /\ UNCHANGED ctx
                ELSE /\ ctx' = [IF ctx.cacheset THEN ctx ELSE
                                IF ctx.cachedir = "none" THEN DefaultCachedir(ctx) ELSE ctx
                                   EXCEPT !.conf = to.conf, !.dest = to.srcs,
                                          !.srcs = {WithDefaults(s) : s \in got.srcs}]
                     /\ GoTo(IF ctx.pm = "pset" /\ NumbersTie(to.srcs) THEN "dead"
                             ELSE IF PmFails(to.srcs) THEN "exited" ELSE "sources")
    /\ UNCHANGED <<confVars, line, srcopt, cmd, ops, ran>>

-----------------------------------------------------------------------------
(* do_run: the groups in their order, to the first that fails.             *)
Did(what, how) == [what |-> what, how |-> how, ops |-> ops.cmd]
After(at, ok) == IF ok THEN GoTo(at) ELSE Exit

(* sources_update: those not to be updated by themselves are passed over.  *)
HowUpdated(src) ==
    CASE Kinds[src.type] = "whole" /\ "whole" \in srcopt.flags -> "whole"
      [] Kinds[src.type] = "parts" -> IF {"whole", "auto"} \intersect srcopt.flags = {"whole"} THEN "whole" ELSE "parts"
      [] OTHER -> "not"
Updating == {<<s.path, HowUpdated(s)>> : s \in {t \in ctx.srcs : t.autoup}}
(* sources_clean: everything is, unless sources were asked for.            *)
Cleaning ==
    IF "specified" \notin srcopt.flags
    THEN IF "test" \in ops.cmd.on THEN {} ELSE {<<"cachedir", "all">>}
    ELSE {<<s.path, IF "clean" \in srcopt.flags THEN "all" ELSE "packages">> : s \in ctx.srcs}
RunSources ==
    /\ proc.at = "sources"
    /\ \E ok \in BOOLEAN :
         /\ ok \/ "update" \in srcopt.flags
         /\ ok => "update" \notin srcopt.flags \/ \A u \in Updating : u[2] # "not"
         /\ ran' = ran
              \o (IF "cleanpkg" \in srcopt.flags THEN <<Did("clean", Cleaning)>> ELSE << >>)
              \o (IF "update" \in srcopt.flags THEN <<Did("update", Updating)>> ELSE << >>)
         /\ After("install", ok)
    /\ UNCHANGED <<confVars, line, srcopt, ctx, cmd, ops>>

(* poldek_ts_run: the options are only now put together; with a list that  *)
(* cannot be read it fails.                                                *)
Transaction(c, next) ==
    /\ ops' = PostConf(ops, ctx.conf)
    /\ \/ AsksNoTable(c.type, c.args, ops'.cmd.on) /\ GoTo("dead") /\ UNCHANGED ran
       \/ \E marked \in MarkedFor(c.type, c.flags, c.args, ops'.cmd.on, FALSE), ok \in BOOLEAN :
             /\ ok => Readable(c.args)
             /\ ran' = Append(ran, [what |-> c.type, how |-> {c.args}, ops |-> ops'.cmd, marked |-> marked])
             /\ After(next, ok)
RunInstall ==
    /\ proc.at = "install"
    /\ IF cmd.type # "install" THEN GoTo("uninstall") /\ UNCHANGED <<ops, ran>>
       ELSE IF cmd.args = << >> /\ ~ {"upgrade", "dist"} \subseteq cmd.flags THEN Exit /\ UNCHANGED <<ops, ran>>
       ELSE Transaction(cmd, "uninstall")
    /\ UNCHANGED <<confVars, line, srcopt, ctx, cmd>>
RunUninstall ==
    /\ proc.at = "uninstall"
    /\ IF cmd.type # "uninstall" THEN GoTo("mkidx") /\ UNCHANGED <<ops, ran>> ELSE Transaction(cmd, "mkidx")
    /\ UNCHANGED <<confVars, line, srcopt, ctx, cmd>>
RunMkidx ==
    /\ proc.at = "mkidx"
    /\ IF "mkidx" \notin proc.flags THEN GoTo("verify") /\ UNCHANGED ran
       ELSE /\ ran' = Append(ran, Did("mkidx", {s.path : s \in ctx.srcs}))
            /\ \E ok \in BOOLEAN : After("verify", ok /\ ctx.srcs # {})
    /\ UNCHANGED <<confVars, line, srcopt, ctx, cmd, ops>>
(* A transaction that has a type is run once more.                         *)
RunVerify ==
    /\ proc.at = "verify"
    /\ IF "verify" \notin cmd.flags THEN GoTo("finish") /\ UNCHANGED <<cmd, ops, ran>>
       ELSE cmd' = SetType(cmd, "verify") /\ Transaction(cmd', "finish")
    /\ UNCHANGED <<confVars, line, srcopt, ctx>>

(* main: a shell, or commands, unless something was done.                  *)
Finish ==
    /\ proc.at = "finish"
    /\ IF "--shell" \notin proc.flags /\ ((ran # << >> /\ proc.words = << >>) \/ "--upconf" \in proc.flags) THEN Exit
       ELSE IF "apt" \in proc.flags /\ proc.words # << >> THEN GoTo("exec")
       ELSE GoTo(IF proc.shcmd # << >> THEN "execline" ELSE "shell")
    /\ UNCHANGED <<confVars, line, srcopt, ctx, cmd, ops, ran>>

ReadConf == LoadStep /\ UNCHANGED setupVars
Parse ==
    \/ SourceByName \/ SourceByPath \/ SourceType \/ Destination \/ Prefix \/ SourceAction
    \/ TypedCachedir \/ ConfigLine \/ MainOption \/ MajorMode \/ TransactionOption \/ HoldOption
    \/ MkidxOption \/ Argument \/ ListOption \/ Parsed
SetUpNext ==
    \/ DoSu \/ Su \/ Parse \/ StartConfig \/ Peek \/ Configure \/ SetUp
    \/ RunSources \/ RunInstall \/ RunUninstall \/ RunMkidx \/ RunVerify \/ Finish
    \/ ReadConf

-----------------------------------------------------------------------------
(* What is said on the command line, up to where a command begins.         *)
Read == SubSeq(line, 1, Len(line) - Len(proc.words))
Says(keys) == SelectSeq(Read, LAMBDA a : a[1] \in keys)
LastSaid(keys) == Last(Says(keys))[1]
IsSetUp == proc.at \in {"sources", "install", "uninstall", "mkidx", "verify", "finish", "shell", "exec", "execline"}

(* An argument asks for a source: by its path or name, or by a group it is *)
(* in.                                                                     *)
Sections == {ctx.conf["source"][j].opts : j \in DOMAIN ctx.conf["source"]}
Reaches(name, src) ==
    \/ Matches(name, src)
    \/ \E opts \in Sections :
         \/ /\ IsOldGroup(opts) /\ Matches(name, Get(opts, "name", ""))
            /\ \E i \in DOMAIN opts["sources"] : Matches(opts["sources"][i][2], src)
         \/ /\ IsNewGroup(opts) /\ Matches(name, Get(opts, "group", ""))
            /\ Matches(Get(opts, "name", ""), src)
AsksFor(arg, s) ==
    \/ arg[1] = "-n" /\ s.name # Nameless /\ Reaches(arg[2], s.name)
    \/ arg[1] \in {"-s", "--sdir"} /\ PathSpec[arg[2]].path = s.path

(* What is used is what is asked for, or everything when nothing is; and   *)
(* nothing that is asked for is missing (lib_init.c:159-489).              *)
SelectionIsRight ==
    IsSetUp =>
        LET args == ToSet(Says({"-n", "-s", "--sdir"}))
            known == {FromSection(opts) : opts \in {o \in Sections : Get(o, "type", "") # "group"}}
            typed == {FromSpec("", a[2]) : a \in {b \in args : b[1] # "-n"}}
        IN  /\ {s.path : s \in ctx.srcs} =
                 {s.path : s \in IF args = {} THEN known
                                 ELSE typed \union {k \in known : \E a \in args : AsksFor(a, k)}}
            /\ \A a \in args : a[1] = "-n" =>
                   \/ \E s \in ctx.srcs : s.auto /\ AsksFor(a, s)
                   \/ \E k \in known, s \in ctx.srcs : AsksFor(a, k) /\ k.path = s.path
                   \/ \E opts \in Sections : (IsOldGroup(opts) \/ IsNewGroup(opts))
                                              /\ Matches(a[2], Get(opts, IF IsNewGroup(opts) THEN "group" ELSE "name", ""))

(* NEWS.xml:1092: sources are prioritized in the order they are passed,    *)
(* no matter what priority they have in the configuration; what is written *)
(* with one of its own keeps that.                                         *)
SaysPri(arg) == arg[1] # "-n" /\ FromSpec("", arg[2]).pri # 0
NamedInOrder ==
    IsSetUp =>
        LET args == Says({"-n", "-s", "--sdir"})
            by(s) == {i \in DOMAIN args : \/ AsksFor(args[i], s)
                                          \/ \E opts \in Sections :
                                                /\ Get(opts, "path", "") = s.path
                                                /\ AsksFor(args[i], FromSection(opts))}
            own(s) == \E i \in by(s) : SaysPri(args[i])
        IN  \A s, t \in ctx.srcs :
               /\ (\A i \in by(s), k \in by(t) : i < k) /\ by(s) # {} /\ by(t) # {} =>
                      s.pri < t.pri \/ own(s) \/ own(t)
               /\ \A i \in by(s) : SaysPri(args[i]) /\ by(s) = {i} => s.pri = FromSpec("", args[i][2]).pri

(* Those asked for, in the order in which they were.                       *)
SourcesAsAsked == SelectionIsRight /\ NamedInOrder

(* The directory files are cached in is the one typed, the one the main    *)
(* file says or that of a line given with -O, in this order, and the       *)
(* library and vfile agree on it unless it was typed twice                 *)
(* (lib_init.c:912-1021, 1498-1543).                                       *)
FileCachedir == LET said == Said(Main, Globally(Main), "global", "cachedir")
                IN  IF load.at = "loaded" /\ said # << >> THEN {Last(said)[2]} ELSE {}
LineCachedir == LET said == SelectSeq(ctx.lines, LAMBDA l : l.name = "cachedir")
                IN  IF said = << >> THEN {} ELSE {Last(said).vals[1][2]} \ BadDirs
CachedirAsAsked ==
    IsSetUp =>
        LET typed == Says({"--cachedir"})
        IN  /\ ctx.vfdir = IF typed # << >> THEN Head(typed)[2]
                           ELSE IF FileCachedir # {} THEN CHOOSE d \in FileCachedir : TRUE
                           ELSE IF LineCachedir # {} THEN CHOOSE d \in LineCachedir : TRUE
                           ELSE "default"
            /\ Len(typed) < 2 => ctx.cachedir = ctx.vfdir

(* A transaction of the command line runs under the options typed, where   *)
(* none was under the configured ones, and else under the defaults; greedy *)
(* never without follow, and an uninstallation greedy only when told to.   *)
ConfOrDefault(op) ==
    LET c == Configurable[CHOOSE i \in DOMAIN Configurable : Configurable[i].op = op]
    IN  BoolOf(Global(ctx.conf), c) = 1
OptionsWin ==
    \A i \in DOMAIN ran : ran[i].what \in {"install", "uninstall", "verify"} =>
        LET on(op) == op \in ran[i].ops.on
            walks == {"-G", "--greedy=yes", "--greedy=no", "--follow=yes", "--follow=no"}
            greedy == Says(walks \ {"--follow=yes"})
        IN  /\ \A op \in Confirming :
                 on(op) = IF Says({"--ask", "--noask"}) # << >> THEN LastSaid({"--ask", "--noask"}) = "--ask"
                          ELSE ConfOrDefault(op)
            /\ on("promoteepoch") = (Says({"--promoteepoch"}) # << >> \/ ConfOrDefault("promoteepoch"))
            /\ on("hold") = (Says({"--hold", "--nohold"}) = << >> \/ LastSaid({"--hold", "--nohold"}) = "--hold")
            /\ on("greedy") => on("follow")
            /\ greedy # << >> => on("greedy") = (Last(greedy)[1] \in {"-G", "--greedy=yes"})
            /\ greedy = << >> => on("greedy") = (ran[i].what # "uninstall" /\ ConfOrDefault("greedy"))
            /\ Says(walks) # << >> /\ LastSaid(walks) = "--follow=no" => ~ on("follow")

(* What is typed goes before what is configured and that before defaults.  *)
TypedFirst == CachedirAsAsked /\ OptionsWin

(* What a set-up comes to: the sources asked for and no others, in the     *)
(* order asked for (lib_init.c:119-489), and everything else as typed      *)
(* before as configured before as by default (lib_init.c:774-1051).        *)
SetUpAsAsked == SourcesAsAsked /\ TypedFirst
=============================================================================
