------------------------------ MODULE MCConfig ------------------------------
(* Families of configurations: files that include each other,         *)
(* services that depend on each other, one service with every field at and  *)
(* next to its limits, and environments in layers.                          *)
EXTENDS ConfigLoad

MCHumanTime ==
    ("0ms" :> 0) @@ ("49ms" :> 49) @@ ("50ms" :> 50) @@ ("99ms" :> 99) @@ ("100ms" :> 100) @@
    ("999ms" :> 999) @@ ("1s" :> 1000) @@ ("31s" :> 31000) @@ ("1h" :> 3600000) @@
    ("1h1ms" :> 3600001) @@ ("1d" :> 86400000) @@ ("1d1ms" :> 86400001)
MCSizes ==
    ("1023" :> [number |-> 1023, unit |-> 0]) @@ ("1024" :> [number |-> 1024, unit |-> 0]) @@
    ("1TB" :> [number |-> 1, unit |-> 4]) @@ ("1073741824KB" :> [number |-> 1073741824, unit |-> 1]) @@
    ("1073741825KB" :> [number |-> 1073741825, unit |-> 1]) @@ ("1025GB" :> [number |-> 1025, unit |-> 3])
At(scheme, user, host, port) == [scheme |-> scheme, user |-> user, host |-> host, port |-> port]
MCAddresses ==
    ("http://h/" :> At("http", FALSE, "h", None)) @@ ("http://u@h/" :> At("http", TRUE, "h", 80)) @@
    ("https://h/" :> At("https", FALSE, "h", None)) @@ ("http://h:0/" :> At("http", FALSE, "h", 0)) @@
    ("h:0" :> At("", FALSE, "h", 0)) @@ ("h:65535" :> At("", FALSE, "h", 65535)) @@
    ("h:65536" :> At("", FALSE, "h", 65536)) @@ (":80" :> At("", FALSE, "", 80)) @@
    ("h" :> At("", FALSE, "h", None))

Service == [texts |-> <<>>, lists |-> ("command" :> <<Word("run")>>), numbers |-> <<>>,
            env |-> NoVars, health |-> FALSE, watch |-> FALSE, logs |-> "none",
            depends_on |-> <<>>, profiles |-> <<>>, autostart |-> TRUE, restart |-> "never",
            origin |-> ""]
Project == [name |-> "p", texts |-> <<>>, lists |-> <<>>, numbers |-> <<>>, env |-> NoVars,
            logs |-> FALSE]
File    == [kind |-> "toml", version |-> 0, project |-> FALSE, unknown |-> FALSE,
            include |-> <<>>, services |-> <<>>]
RootFile == [File EXCEPT !.version = 1, !.project = TRUE]

\* Pieces, and the values of one.
Piece(kind, of, word, span) == [kind |-> kind, of |-> of, word |-> word, span |-> span]
Says1(w)         == Piece("text", "", w, 0)
Escape           == Piece("escape", "", "", 0)
Bad              == Piece("malformed", "", "", 0)
TheVar(v)        == Piece("plain", v, "", 0)
Or(v, form, n)   == Piece(form, v, "", n)
Of(pieces)       == [word |-> "", pieces |-> pieces]
Ref(v)           == Of(<<TheVar(v)>>)
RefOrEmpty(v, w) == Of(<<Or(v, ":-", 1), Says1(w)>>)
RefOrUnset(v, w) == Of(<<Or(v, "-", 1), Says1(w)>>)

Lines1(word) == <<[kind |-> "assign", key |-> "K", value |-> word]>>

\* Two directories, each with a directory "sub", a file "file" and an env file ".env".
Disk(files, is, project) ==
    [root |-> "r", is |-> is, files |-> files, project |-> project,
     dir  |-> [p \in DOMAIN is |-> IF p = "b" THEN "e" ELSE "d"],
     fs   |-> <<>>,
     dirs |-> {"d", "e", "d/sub", "e/sub"},
     tree |-> (<<"d", "sub">> :> "d/sub") @@ (<<"e", "sub">> :> "e/sub") @@ (<<"d", "file">> :> "d/file")
              @@ (<<"d", ".env">> :> "d/.env") @@ (<<"e", ".env">> :> "e/.env")
              @@ (<<"d/sub", "src">> :> "d/sub/src") @@ (<<"d", "odd.env">> :> "d/odd.env"),
     envs |-> ("d/.env" :> (Lines1("first") \o Lines1("d"))) @@ ("e/.env" :> Lines1("e"))
              @@ ("d/odd.env" :> <<[kind |-> "assign", key |-> "bad", value |-> "x"]>>)]

Alone(services, project) == Disk(1 :> [RootFile EXCEPT !.services = services], "r" :> 1, project)
Case(d, env) == [disk |-> d, vars |-> env]

\* Three files; "c" is another way to the second.
Fragments == {File, [File EXCEPT !.kind = "absent"], [File EXCEPT !.kind = "garbled"],
              [File EXCEPT !.unknown = TRUE], [File EXCEPT !.version = 1], [File EXCEPT !.project = TRUE]}
Roots3 == {RootFile, [RootFile EXCEPT !.version = 2, !.unknown = TRUE], [RootFile EXCEPT !.version = 0],
           [RootFile EXCEPT !.unknown = TRUE], [RootFile EXCEPT !.kind = "absent"],
           [RootFile EXCEPT !.kind = "garbled"]}
Includes ==
    {Case(Disk((1 :> [rb[1] EXCEPT !.include = ri, !.services = 1 :> Service])
               @@ (2 :> [File EXCEPT !.include = ai, !.services = an])
               @@ (3 :> [rb[2] EXCEPT !.include = bi, !.services = bn]),
               ("r" :> 1) @@ ("a" :> 2) @@ ("b" :> 3) @@ ("c" :> 2), Project), NoVars) :
     rb \in ({RootFile} \X Fragments) \cup (Roots3 \X {File}), an \in {<<>>, 1 :> Service, 2 :> Service}, bn \in {2 :> Service, 3 :> Service},
     ri \in {<<>>, <<"a">>, <<"r">>, <<"a", "b">>, <<"b", "a">>, <<"a", "c">>},
     ai \in {<<>>, <<"b">>, <<"r">>, <<"c">>}, bi \in {<<>>, <<"a">>, <<"c">>}}

On(n, condition) == [on |-> n, condition |-> condition]
AsList(S) == LET s == SetToSortSeq(S, <) IN [i \in DOMAIN s |-> On(s[i], "")]

\* Every graph over four services, and profiles over the ones of three.
Graphs4 ==
    {Case(Alone([n \in 1..4 |-> [Service EXCEPT !.depends_on = AsList(g[n])]], Project), NoVars) :
     g \in {h \in [1..4 -> SUBSET (1..4)] : \A n \in 1..4 : n \notin h[n]}}
Profiled ==
    {Case(Alone([n \in 1..3 |-> [Service EXCEPT !.depends_on = AsList(g[n]), !.profiles = p[n],
                                                !.autostart = (n \in a)]], Project), NoVars) :
     g \in {h \in [1..3 -> SUBSET (1..3)] : \A n \in 1..3 : \A m \in h[n] : m < n},
     p \in [1..3 -> {<<>>, <<"dev">>, <<"dev", "test">>}], a \in {{}, {1}, {3}, {1, 2, 3}}}

Probed == [Service EXCEPT !.health = TRUE, !.texts = "health.tcp" :> Word("h:65535")]
Conditional ==
    {Case(Alone((1 :> [Service EXCEPT !.depends_on = ds])
                @@ (2 :> [t EXCEPT !.restart = p]), Project), NoVars) :
     t \in {Service, Probed, [Probed EXCEPT !.texts = <<>>]},
     p \in {"never", "on-failure", "always", "unless-stopped"},
     ds \in {<<On(2, c)>> : c \in Conditions \cup {"other"}}
            \cup {<<On(1, "")>>, <<On(3, "")>>, <<On(2, ""), On(2, "")>>}}

\* Values, with and without references: the forms, defaults in defaults, used or not
\* and with or without a fault, several pieces, escapes.
Env1 == ("A" :> "1s") @@ ("E" :> "")
Values(words) ==
    {Word(w) : w \in words}
    \cup {Ref("A"), Ref("U"), RefOrEmpty("E", "1h"), RefOrUnset("E", "1h"), RefOrUnset("U", "1h"),
          Of(<<Bad>>), Of(<<Or("A", ":-", 1), Bad>>), Of(<<Or("U", ":-", 1), Bad>>),
          Of(<<Or("E", "-", 1), TheVar("U"), TheVar("A")>>), Of(<<Or("U", ":-", 2), Or("E", ":-", 1), TheVar("A")>>),
          Of(<<Or("E", ":-", 1), TheVar("U"), TheVar("A")>>),
          [word |-> "1", pieces |-> <<Or("U", "-", 3), Or("A", ":-", 1), TheVar("U"), Says1("x"), Says1("s")>>],
          [word |-> "1", pieces |-> <<TheVar("E"), Says1("h"), Or("E", "-", 0)>>],
          Of(<<Or("U", ":-", 2), Escape, Says1("A}")>>)}
One1(t) == Case(Alone(1 :> t, Project), Env1)
Durations1 ==
    {One1([Service EXCEPT !.texts = f :> v, !.restart = "always"]) :
        f \in DOMAIN Limits, v \in Values(DOMAIN MCHumanTime \cup {"soon"})}
    \cup {One1([Service EXCEPT !.texts = ("restart_delay" :> v) @@ ("restart_max_delay" :> w)]) :
        v \in Values(DOMAIN MCHumanTime), w \in Values(DOMAIN MCHumanTime)}
Texts1 ==
    {One1([Service EXCEPT !.texts = ("cwd" :> v) @@ ("shutdown_signal" :> s)]) :
        v \in Values({"sub", "file", "gone"}), s \in Values({"term", "kill"})}
Health1 ==
    {One1([Probed EXCEPT !.texts = @ @@ (f :> v), !.numbers = "health.retries" :> k]) :
        k \in 0..1, f \in DOMAIN HealthLimits \cup {"health.on_unhealthy"},
        v \in Values(DOMAIN MCHumanTime \cup {"restart", "ignore"})}
    \cup {One1([Service EXCEPT !.health = TRUE, !.texts = f :> v]) :
        f \in {"health.http", "health.tcp"}, v \in Values(DOMAIN MCAddresses)}
    \cup {One1([Probed EXCEPT !.lists = @ @@ ("health.command" :> <<>>)])}
    \cup {One1([Service EXCEPT !.health = TRUE, !.lists = @ @@ ("health.command" :> c)]) :
        c \in {<<>>, <<Word("")>>, <<Word("x"), Word("nul")>>, <<Word("x"), Ref("U")>>, <<Ref("A")>>}}
Watch1 ==
    {One1([Service EXCEPT !.watch = TRUE, !.texts = ("cwd" :> Word("sub")) @@ (f :> v),
                          !.lists = @ @@ ("watch.paths" :> p) @@ ("watch.ignore" :> i)]) :
        f \in DOMAIN WatchLimits, v \in Values({"49ms", "50ms", "99ms", "100ms", "1h1ms"}),
        p \in {<<>>, <<Word("src")>>, <<Word("src"), Word("gone")>>, <<Word("")>>, <<Ref("U")>>},
        i \in {<<>>, <<Word("")>>, <<Word(".git"), Word("x"), Word("x")>>}}
Commands1 ==
    {Case(Alone(n :> [Service EXCEPT !.lists = l, !.profiles = p, !.logs = g], Project), Env1) :
        n \in {1, 9}, l \in {<<>>} \cup {"command" :> c : c \in
            {<<>>, <<Word("")>>, <<Word("nul")>>, <<Word("run"), Word("nul")>>, <<Ref("E")>>, <<Ref("A")>>}},
        p \in {<<>>, <<"bad">>, <<"dev", "dev">>}, g \in {"none", "on", "off"}}
Logs1 ==
    {Case(Alone(s, [Project EXCEPT !.name = n, !.logs = TRUE, !.numbers = k,
                    !.texts = ("dir" :> d) @@ ("max_size" :> z)]), Env1) :
        s \in {<<>>, 1 :> Service}, n \in {"p", "bad"},
        k \in {<<>>, "max_files" :> 100, "max_files" :> 101},
        d \in Values({"file", "sub", "gone"}), z \in Values(DOMAIN MCSizes \cup {"big"})}

\* Environments: the second file is in another directory.
EnvIn == {NoVars, "K" :> Word("nul"), "bad" :> Word("x"), "K" :> Ref("K"),
          "K" :> RefOrEmpty("K", "fall"), "K" :> RefOrUnset("K", "fall"), "K" :> Word("own"),
          "K" :> [word |-> "own", pieces |-> <<Or("K", ":-", 2), Escape, Says1("K}"), TheVar("K")>>]}
FilesIn == {<<>>, "env_file" :> <<Word(".env")>>, "env_file" :> <<Word(".env"), Word("gone")>>,
            "env_file" :> <<Word("odd.env"), Word(".env")>>}
Layers ==
    {Case(Disk((1 :> [RootFile EXCEPT !.include = <<"b">>])
               @@ (2 :> [File EXCEPT !.services = 1 :> [Service EXCEPT !.env = se, !.lists = @ @@ sf]]),
               ("r" :> 1) @@ ("b" :> 2), [Project EXCEPT !.env = pe, !.lists = pf]), v) :
        pe \in EnvIn, se \in EnvIn, pf \in FilesIn, sf \in FilesIn,
        v \in {NoVars, "K" :> "", "K" :> "process"}}

\* Commands of two projects, one of them too deep for a socket, from two directories,
\* with variables that name every kind of directory.
Abs(parts) == [absolute |-> TRUE, parts |-> parts]
Rel(parts) == [absolute |-> FALSE, parts |-> parts]
Stat(dir, ours, shared, len) == [dir |-> dir, ours |-> ours, shared |-> shared, len |-> len]
MCFs ==
    [real |-> (<<"p">> :> <<"p">>) @@ (<<"p", ".">> :> <<"p">>) @@ (<<"p", "..", "q">> :> <<"q">>)
              @@ (<<"q">> :> <<"q">>) @@ (<<"link">> :> <<"q">>) @@ (<<"q", "..", "p">> :> <<"p">>)
              @@ (<<"run">> :> <<"run">>) @@ (<<"p", "run">> :> <<"p", "run">>)
              @@ (<<"q", "run">> :> <<"q", "run">>) @@ (<<"tmp">> :> <<"tmp">>)
              @@ (<<"to-tmp">> :> <<"tmp">>) @@ (<<"theirs">> :> <<"theirs">>)
              @@ (<<"deep">> :> <<"deep">>) @@ (<<"file">> :> <<"file">>),
     stat |-> (<<"p">> :> Stat(TRUE, TRUE, TRUE, 84)) @@ (<<"q">> :> Stat(TRUE, TRUE, TRUE, 85))
              @@ (<<"link">> :> Stat(TRUE, TRUE, TRUE, 5)) @@ (<<"run">> :> Stat(TRUE, TRUE, FALSE, 75))
              @@ (<<"p", "run">> :> Stat(TRUE, TRUE, FALSE, 20))
              @@ (<<"q", "run">> :> Stat(TRUE, TRUE, FALSE, 20))
              @@ (<<"tmp">> :> Stat(TRUE, TRUE, TRUE, 4)) @@ (<<"theirs">> :> Stat(TRUE, FALSE, FALSE, 7))
              @@ (<<"deep">> :> Stat(TRUE, TRUE, FALSE, 76)) @@ (<<"file">> :> Stat(FALSE, TRUE, FALSE, 5))]
Variables1 == {Abs(<<"run">>), Abs(<<"deep">>), Abs(<<"tmp">>), Abs(<<"to-tmp">>), Abs(<<"theirs">>),
               Abs(<<"file">>), Abs(<<"gone">>), Rel(<<"run">>)}
MCHere ==
    {[cwd |-> at[1], parent |-> at[2], xdg |-> x, temp |-> t] :
     at \in {<<<<"p">>, Rel(<<>>)>>, <<<<"p">>, Rel(<<".">>)>>, <<<<"p">>, Rel(<<"..", "q">>)>>,
            <<<<"q">>, Rel(<<>>)>>, <<<<"q">>, Rel(<<"..", "p">>)>>, <<<<"q">>, Abs(<<"q">>)>>,
            <<<<"p">>, Abs(<<"link">>)>>},
     x \in Variables1 \cup {Unset}, t \in Variables1}
Located == {Case([Alone(1 :> Service, Project) EXCEPT !.fs = MCFs], NoVars)}

MCCases == <<Includes, Graphs4, Profiled, Conditional, Durations1, Texts1, Health1, Watch1, Commands1,
             Logs1, Layers, Located>>
MCSelections == {[services |-> {}, profiles |-> {}], [services |-> {}, profiles |-> {"dev"}],
                 [services |-> {}, profiles |-> {"test", "prod"}], [services |-> {2}, profiles |-> {}],
                 [services |-> {7}, profiles |-> {}]}
MCStopped == {{}, {1}, {2, 3}}
=============================================================================
