------------------------------- MODULE MCShell -------------------------------
(***************************************************************************)
(* Shell with the inputs that its runs start from: configurations of three *)
(* files, command lines, aliases and lines typed in the shell.             *)
(***************************************************************************)
EXTENDS Shell

Is(v) == <<"is", v>>
Ref(v) == <<"ref", v>>
Section(n) == [kind |-> "section", name |-> n]
Says1(n, v) == [kind |-> "option", name |-> n, vals |-> <<Is(v)>>]
SaysAll(n, vals) == [kind |-> "option", name |-> n, vals |-> vals]
Include(f, relative, only) == [kind |-> "include", paths |-> <<Is(f)>>, relative |-> relative, only |-> only]
IncludeMacro == [kind |-> "include", paths |-> <<Ref("_f")>>, relative |-> TRUE, only |-> {}]
Nonsense == [kind |-> "nonsense"]
Files(a, b) == [f \in {"a", "b", "c"} |->
                  CASE f = "a" -> a [] f = "b" -> b [] OTHER -> <<Section("source"), SaysAll("path", <<Ref("_m")>>)>>]

MCTag == [global |-> [follow |-> "one", greedy |-> "one", runas |-> "one", hold |-> "many", cachedir |-> "one",
                      source |-> "many", promoteepoch |-> "one"]
                     @@ ("confirm removal" :> "one") @@ ("confirm installation" :> "one"),
          source |-> [name |-> "one", path |-> "one", type |-> "one", sources |-> "many", group |-> "one",
                      auto |-> "one", pri |-> "one"] @@ ("original type" :> "one")]
MCRequired == [global |-> {}, source |-> {"path"}]
MCAlias == "run as" :> "runas"
MCGlob == "x*" :> {"x"}
MCSpec(name, path, type, opts) == [name |-> name, path |-> path, type |-> type, opts |-> opts]
MCPathSpec == [p |-> MCSpec("", "/p", "", << >>),
               old |-> MCSpec("o", "/o", "", <<<<"noauto", "">>, <<"pri", "2">>, <<"group", "og">>>>),
               q |-> MCSpec("q", "/x", "", <<<<"pri", "none">>, <<"noautoup", "">>, <<"lang", "pl">>>>),
               r |-> MCSpec("r", "/y", "pndir", <<<<"type", "pdir">>, <<"pri", "2">>>>)]
MCGuess == [f \in {"/p", "/o", "/x", "/y", "/u", "/z", "_m"} |->
              CASE f = "/x" -> "dir" [] f = "/y" -> "pdir" [] OTHER -> "pndir"]
MCKinds == "dir" :> "none" @@ "pndir" :> "parts" @@ "pdir" :> "whole"

-----------------------------------------------------------------------------
(* Configurations: every one of up to three of these lines, which may      *)
(* include another file or be no line at all, and some that say more.      *)
Pool == {Section("global"), Section("source"), Says1("name", "x"), SaysAll("path", <<Ref("_m")>>), Says1("_m", "/y"),
         Include("b", FALSE, {"source"}), Include("c", TRUE, {}), Nonsense}
Short == {Files(a, b) : a \in UNION {[1..n -> Pool] : n \in 0..3},
                        b \in {<<Section("source"), Says1("_m", "/z"), SaysAll("path", <<Ref("_m")>>), Section("global")>>,
                               Missing}}
Source(n, path) == <<Section("source"), Says1("name", n), Says1("path", path)>>
Group(n, members) == <<Section("source"), Says1("name", n), Says1("type", "group"), SaysAll("sources", members)>>
InGroup(n, path, g) == Source(n, path) \o <<Says1("group", g)>>
Grouped == Files(Source("x", "/x") \o Source("y", "/y") \o <<Says1("pri", "1")>> \o Group("g", <<Is("y"), Is("x*")>>),
                 << >>)
Global1 == Files(<<Says1("cachedir", "c1"), Says1("source", "old"), Says1("follow", "no"), Section("global"),
                   Says1("confirm removal", "no"), Says1("hold", "h")>>
                 \o InGroup("x", "/x", "g") \o InGroup("y", "/p", "g"), << >>)
Refuses == Source("z", "/z") \o <<Says1("original type", "dir")>>
User(b) == Files(<<Says1("run as", "me"), Says1("greedy", "no"), Says1("promoteepoch", "yes")>> \o Source("x", "/x")
                 \o <<Section("source"), Says1("path", "/u"), Says1("auto", "no"), Include("b", FALSE, {})>>, b)
Broken ==
    {<<Section("nosuch")>>, <<Section("source")>>, <<Include("a", TRUE, {})>>,
     <<Says1("_f", "c"), Says1("_m", "/u"), IncludeMacro>>, <<Section("global"), IncludeMacro>>,
     <<Section("other"), IncludeMacro>>, <<Says1("cachedir", "bad")>>,
     <<Section("source"), Says1("path", "/p"), Says1("hold", "h"), Says1("hold", "h"), SaysAll("name", << >>)>>}

-----------------------------------------------------------------------------
(* Command lines.                                                          *)
Opt(key) == <<key, "">>
With(key, val) == <<key, val>>
Arg(word) == <<"arg", word>>
Set(name, val) == <<"-O", [name |-> name, vals |-> <<Is(val)>>]>>
Input(t, l, root) == [text |-> t, line |-> l, root |-> root]
OnSources ==
    {<<With("-n", "x"), With("-s", "p"), Opt("--upconf")>>, <<With("-s", "p"), With("-n", "g"), Opt("--upconf")>>,
     <<With("-n", "x*"), With("-n", "y"), Opt("--up")>>, <<With("-n", "z")>>,
     <<With("--sdir", "q"), With("-n", "x"), With("-P", "w")>>, <<With("-s", "p"), With("-P", "w")>>,
     <<With("-P", "w")>>, <<With("--sdir", "q"), With("-P", "w")>>,
     <<With("--st", "pndir"), With("-s", "p"), With("-P", "w"), With("-s", "q"), Opt("--clean")>>,
     <<With("--dn", "g"), Opt("-i"), Arg("a")>>, <<With("-s", "r"), With("-n", "x"), With("-n", "y"), Opt("--up")>>,
     <<With("--dn", "x"), With("--dn", "y"), Opt("-i"), Arg("a"), Opt("--promoteepoch")>>,
     <<With("--dt", "dir"), With("--destination", "p"), With("--destination", "p")>>,
     <<With("--destination", "p"), With("--dt", "dir")>>, <<With("--dn", "z")>>}
OnModes ==
    {<<Opt("-u"), Opt("-e"), Arg("a"), Arg("b")>>, <<Opt("-i"), Opt("-e"), Opt("--verify")>>,
     <<Opt("-e"), Opt("--verify")>>, <<Opt("-e"), Opt("-G"), Opt("--follow=no"), Arg("a"), Opt("--noask"), Opt("-t")>>,
     <<Opt("-i"), Opt("-t"), Opt("-t"), Opt("--ask"), Opt("--greedy=no"), Opt("--greedy=yes"), Arg("a")>>,
     <<Set("cachedir", "c4"), Set("greedy", "no"), Opt("--upgrade-dist")>>, <<Opt("-i")>>,
     <<Opt("--downgrade"), With("--hold", "m"), Arg("a")>>,
     <<Opt("-i"), With("--hold", "m"), Opt("--nohold"), Arg("a")>>,
     <<Opt("-i"), Opt("--force"), Opt("--mercy"), Opt("-F"), Opt("--justdb"), Opt("--nofetch"), Opt("--fetch"),
       Opt("--dump"), Arg("a")>>}
OnPackages ==
    {<<Opt("-i"), With("--pset", l)>> : l \in {"l1", "l2", "l3", "l4"}}
    \union {<<Opt("--verify"), With("--pset", l), Arg("a")>> : l \in {"l1", "l2", "l3", "l4"}}
    \union {<<With("--pset", "l4"), With("--shcmd", <<"install", "b", ";", "install", "b">>)>>,
            <<Opt("-i"), Opt("--caplookup"), Arg("cap"), Arg("a")>>, <<Opt("-u"), Arg("*"), Arg("zz")>>,
            <<Opt("-i"), Opt("--caplookup"), Arg("cap"), Arg("b*"), Arg("b")>>, <<Opt("-i"), Arg("a"), Arg("zz")>>,
            <<Opt("--verify"), Opt("--caplookup"), Arg("mta"), Arg("cap")>>, <<Opt("--verify")>>,
            <<Opt("-i"), Opt("--caplookup"), Arg("cap"), Arg("c")>>}
OnOthers ==
    {<<With("--cachedir", "c2"), With("--cachedir", "c3"), Opt("--upa"), Opt("--up"), Opt("--upa")>>,
     <<With("--cachedir", "bad")>>, <<Opt("--noconf"), Set("cachedir", "bad"), With("-s", "p"), Opt("--mkidx")>>,
     <<Opt("--noconf"), With("-n", "x")>>, <<Opt("--noconf"), Opt("--mkidx")>>, <<Arg("pull"), Opt("-t")>>,
     <<Opt("--upconf")>>, <<With("--pm", "none")>>, <<With("--pm", "pset")>>, <<With("--runas", "u")>>}
OnGlobal ==
    {<<With("-n", "og"), Opt("--upconf")>>, <<Opt("-i"), Arg("a")>>, <<With("-s", "p"), With("-n", "y"), Opt("--upconf")>>,
     <<With("-n", "g"), Opt("-e"), Arg("a")>>, <<Set("cachedir", "c4"), Opt("--upconf")>>,
     <<With("--dn", "g"), Opt("-i"), Arg("a")>>}
OnUser == {<<Opt("--upconf")>>, <<With("--runas", "u"), Opt("--upconf")>>, <<Opt("--mkidx")>>,
           <<With("-n", "src01"), Opt("-u"), Arg("a"), Opt("--follow=yes")>>}

-----------------------------------------------------------------------------
(* Commands, aliases and lines.                                            *)
MCCommand ==
    "ls" :> {"left", "right", "xargs"} @@ "install" :> {"left", "xargs"} @@ "uninstall" :> {"left", "xargs"}
    @@ "!" :> {"left", "right", "interactive"} @@ "quit" :> {"interactive"} @@ "reload" :> {"interactive"}
    @@ "pull" :> {"batch"}
MCGlobalAlias == "upgrade" :> <<"install", "-t">> @@ "grep" :> <<"!grep">> @@ "mygrep" :> <<"grep", "x">>
                 @@ "both" :> <<"ls", "%1", "|", "install">>
MCLocalAlias == "listto" :> <<"ls", "|">> @@ "loop" :> <<"loop">> @@ "upgrade" :> <<"install", "-G">>
                @@ "ls" :> <<"install">>
MCAbbreviates == "u" :> {"uninstall", "upgrade"} @@ "unins" :> {"uninstall"} @@ "pu" :> {"pull"} @@ "rel" :> {"reload"}
                 @@ "gr" :> {"grep"}
MCExternal == "!grep" :> "grep"
MCParam == "%1" :> 1
MCAvailable == <<"a1", "a2", "b1", "c1">>
MCInstalled == <<"a1", "a2", "b1">>
MCNameOf == [p \in ToSet(MCAvailable) |-> CASE p \in {"a1", "a2"} -> "a" [] p = "b1" -> "b" [] OTHER -> "c"]
MCFits == "a*" :> {"a1", "a2"} @@ "*" :> ToSet(MCAvailable)
MCProvides == "cap" :> {"b1", "c1"} @@ "mta" :> {"a2", "c1"}
IsMask(m) == [kind |-> "mask", mask |-> m]
IsVirtual(n, m) == [kind |-> "virtual", name |-> n, mask |-> m]
MCLists == "l1" :> <<IsMask("b"), IsVirtual("mta", "c"), [kind |-> "optional"]>>
           @@ "l2" :> <<IsVirtual("mta", ""), IsVirtual("cap", "b1")>> @@ "l3" :> <<IsVirtual("none", "a1")>>
           @@ "l4" :> CannotBeRead
MCTypeable ==
    {<<"ls", "a*", "|", "install", "-t">>, <<"ls", "x", "|", "uninstall", "b", ";", "install", "b">>,
     <<"install", "b", ";", "uninstall", "a*">>, <<"u", "b">>, <<"unins", "b", "-G">>, <<"pu", ";", "ls">>, <<"rel">>,
     <<"gr", "x", ";", "ls">>, <<";", "|", "ls", "|", "grep", "|", "install", ";">>, <<"both", "a1">>,
     <<"both", "a1", "b">>, <<"both">>, <<"listto", ";", "ls">>, <<"listto", "install">>, <<"loop">>, <<"upgrade", "b">>,
     <<"quit", ";", "ls">>, <<"install", "zz", "--caplookup">>, <<"install", "-F", "a*">>,
     <<"install", "cap", "a1", "--caplookup">>, <<"uninstall", "a">>,
     <<"install">>, <<"uninstall", "zz">>, <<"install", "|", "ls">>, <<"ls", "|">>, <<"|">>,
     <<"ls", "|", "quit">>, <<"ls", "|", "install", "|", "ls">>, <<"ls", "b", "|", "uninstall", "|", "ls">>,
     <<"mygrep", "|", "install">>, <<"pull">>}
AsCommand(l) == <<Opt("--cmd")>> \o [i \in DOMAIN l |-> Arg(l[i])]

MCInputs ==
    {Input(t, <<Opt("--upconf")>>, FALSE) : t \in Short \union {Files(b, << >>) : b \in Broken}}
    \union {Input(Grouped, l, FALSE) : l \in OnSources \union OnPackages \union OnModes \union OnOthers \union {<< >>}}
    \union {Input(Global1, l, FALSE) : l \in OnGlobal \union {<<With("--shcmd", w)>> : w \in MCTypeable}
                                              \union {AsCommand(w) : w \in MCTypeable}}
    \union {Input(User(<< >>), l, TRUE) : l \in OnUser} \union {Input(User(Refuses), <<Opt("--upconf")>>, TRUE)}
    \union {Input(Files(Missing, << >>), <<Set("follow", "no"), Opt("--upconf")>>, TRUE),
            Input(Files(<<Include("b", FALSE, {"source"})>>, <<Section("global"), IncludeMacro>>), << >>, FALSE),
            Input(Files(<<Section("source")>>, << >>), <<Set("follow", "no"), Opt("--upconf")>>, FALSE),
            Input(Files(Source("x", "/x") \o <<Section("source"), Says1("path", "/u"), Says1("group", "g2")>>, << >>),
                  <<With("-n", "g2")>>, FALSE)}

-----------------------------------------------------------------------------
vars == <<confVars, setupVars, shellVars>>
(* The process has ended.                                                  *)
Over == (proc.at \in {"exited", "dead"} \/ sh.at \in {"over", "dead"}) /\ UNCHANGED vars
MCNext == ShellNext \/ Over
MCShellSpec == ShellInit /\ [][MCNext]_vars
=============================================================================
