------------------------------ MODULE MCStartup ------------------------------
(* Instances of Startup for TLC: starts with every option once, in a file and on
   the command line, and with the combinations whose rules interact; and starts
   on several directory trees. *)
EXTENDS Startup

Numerals ==
  [x \in {"0", "1", "2", "5", "8", "9", "010", "16", "30", "35", "60", "100"} |->
     CASE x = "0" -> 0 [] x = "1" -> 1 [] x = "2" -> 2 [] x = "5" -> 5 [] x = "8" -> 8
       [] x = "9" -> 9 [] x = "010" -> 10 [] x = "16" -> 16 [] x = "30" -> 30
       [] x = "35" -> 35 [] x = "60" -> 60 [] OTHER -> 100]
Octals == [x \in {"010"} |-> 8]
Reprints == (<<"010">> :> <<"8">>) @@ (<<"2", ".", "0">> :> <<"2">>)
States == {[interval |-> 0, timeout |-> 0], [interval |-> 2, timeout |-> 45],
           [interval |-> 100, timeout |-> 0]}
SlashedKeys == {"/r/a"}
Globs == (<<"b", "*">> :> {<<"b">>, <<"bb">>})

-----------------------------------------------------------------------------
(* The file system: /r with a repository a that holds another, a directory b, a
   link to a and a link out of /r, and a second root /s; or /r and a directory w in the
   current one, each with a repository and a link to it, and a link to /r. *)
Plain ==
  (<<"r">> :> Dir) @@ (<<"r", "a">> :> Repo) @@ (<<"r", "b">> :> Dir)
Deep ==
  Plain @@ (<<"r", "a", "c">> :> Repo) @@ (<<"r", "f">> :> File)
  @@ (<<"s">> :> Dir) @@ (<<"s", "d">> :> Repo)
Linked ==
  Deep @@ (<<"r", "l">> :> Link(<<"r", "a">>)) @@ (<<"r", "out">> :> Link(<<"s", "d">>))
  @@ (<<"r", "gone">> :> Link(<<"r", "x">>))
Aliased ==
  (<<"r">> :> Dir) @@ (<<"r", "a">> :> Repo) @@ (<<"r", "l">> :> Link(<<"r", "a">>))
  @@ (<<"k">> :> Link(<<"r">>)) @@ (Here :> Dir) @@ (Here \o <<"w">> :> Dir)
  @@ (Here \o <<"w", "a">> :> Repo) @@ (Here \o <<"w", "l">> :> Link(Here \o <<"w", "a">>))
Empty == (<<"r">> :> Dir) @@ (<<"r", "b">> :> Dir)
Trees == {Plain, Linked, Empty}

-----------------------------------------------------------------------------
R == <<"/", "r">>
Yaml == <<"/", "etc", "/", "c.yaml">>
Json == <<"/", "etc", "/", "c.json">>
Auto == In(R, ".autogitpull.yaml")

FromYaml == <<LongIs("config-yaml", Yaml)>>
NoFiles == [f \in {} |-> Null]
OneFile(path, entries) == path :> Map(entries)

\* The values that are tried with every option, a fitting and a doubtful one.
Texts == {<<"true">>, <<>>, <<"5">>, <<"16", "M">>, <<"2", "Y">>, <<"35", "Y">>, <<"-", "5">>,
          <<"010">>, <<"2", ".", "0">>, <<"off">>, <<"alpha">>, <<"debug">>, <<"30", ",", "2">>,
          <<"5", ".", "9">>}

EveryOption ==
  {[args  |-> FromYaml \o <<Word(R), Long("confirm-mutant")>>,
    files |-> OneFile(Yaml, <<<<k, Scalar(t)>>>>), disk |-> Plain] : k \in Known, t \in Texts}

\* The same option in both places.
Twice ==
  {[args  |-> FromYaml \o <<LongIs(k, t), Word(R), Long("confirm-alert")>>,
    files |-> OneFile(Yaml, <<<<"all", Map(<<<<k, Scalar(u)>>>>)>>>>), disk |-> Plain] :
     k \in Known \ {"config-yaml", "config-json", "hard-reset"},
     t \in {<<"5">>, <<"true">>, <<"1", "M">>}, u \in {<<"16">>, <<"2", "m">>, <<"yes">>, <<"/", "s">>}}

\* The forms of a configuration file: nesting, repositories, what is refused.
Yes2 == Scalar(<<"yes">>)
Five == Scalar(<<"5">>)
Forms ==
  {<<<<"interval", Scalar(<<"60">>)>>, <<"ui", Map(<<<<"silent", Yes2>>, <<"interval", Scalar(<<"2", "m">>)>>>>)>>>>,
   <<<<"repositories", Map(<<<<"a", Map(<<<<"pull-timeout", Five>>, <<"force-pull", Yes2>>>>)>>, <<"b", Null>>>>)>>>>,
   <<<<"/r/a", Map(<<<<"exclude", Scalar(<<"YES">>)>>, <<"pull-ref", Scalar(<<"v">>)>>>>)>>,
     <<"repositories", Map(<<<<"/r/a", Null>>>>)>>>>,
   <<<<"repositories", Map(<<<<"a", Map(<<<<"cpu-limit", Scalar(<<"5", ".", "9">>)>>,
                                          <<"upload-limit", Scalar(<<"2", "K">>)>>>>)>>>>)>>>>,
   <<<<"repositories", Map(<<<<"a", Map(<<<<"pull-timeout", Scalar(<<"0">>)>>>>)>>>>)>>>>,
   <<<<"repositories", Map(<<<<"a", Five>>>>)>>>>,
   <<<<"repositories", Null>>>>, <<<<"root", List>>>>, <<<<"ui", Map(<<<<"silent", List>>>>)>>>>,
   <<<<"unheard-of", Five>>>>, <<<<"cli", Map(<<>>)>>>>,
   <<<<"auto-config", Yes2>>, <<"root", Scalar(R)>>>>}

InJson ==
  {<<<<"interval", Number(<<"2", ".", "0">>)>>>>, <<<<"cpu-cores", Scalar(<<"010">>)>>>>,
   <<<<"ui", Map(<<<<"max-depth", Number(<<"5">>)>>, <<"silent", Scalar(<<"true">>)>>>>)>>>>}

Configured ==
  {[args |-> words, files |-> file @@ (Auto :> Map(<<<<"interval", Scalar(<<"30">>)>>>>)),
    disk |-> Plain] :
     words \in {FromYaml \o <<Word(R)>>, <<LongIs("config-json", Json), Word(R)>>},
     file \in {OneFile(Yaml, f) : f \in Forms} \cup {OneFile(Json, f) : f \in Forms \cup InJson}
              \cup {Yaml :> Broken, Json :> Scalar(<<"5">>)}}

\* The forms of a command line.
CommandLines ==
  {<<Word(R)>>, <<Long("cli"), Word(R)>>, <<Word(R), Long("cli"), Short(<<"p">>)>>,
   <<Short(<<"i", "30">>), Word(R)>>, <<Short(<<"i">>), Word(<<"30">>), Word(R)>>,
   <<Short(<<"c", "s", "i">>), Word(<<"60">>), Word(R)>>, <<Short(<<"D", "-", "5">>), Word(R)>>,
   <<Short(<<"?">>), Word(R)>>, <<Long("unheard-of"), Word(R)>>, <<Long("interval")>>,
   <<LongIs("max-depth", <<"5">>), Long("max-depth"), Short(<<"5">>), LongIs("root", R)>>,
   <<LongIs("interval", <<>>), Word(R)>>, <<LongIs("interval", <<"010">>), Word(R)>>,
   <<LongIs("cpu-cores", <<"010">>), LongIs("mem-limit", <<"010">>), Word(R)>>, <<Long("auto-config"), Long("root"), Word(R)>>,
   <<Word(R), Long("auto-config")>>, <<Short(<<"o">>), Word(R), Long("persist")>>,
   <<Long("help")>>, <<Long("show-service")>>, <<LongIs("attach", <<"x">>)>>,
   <<LongIs("background", <<"x">>), Word(R)>>, <<LongIs("reattach", <<"x">>)>>,
   <<LongIs("root", <<"/", "no">>)>>, <<LongIs("config-yaml", Json), Word(R)>>,
   <<Word(R), Long("mutant"), Long("sudo-su")>>, <<Long("recover-mutant"), Long("confirm-mutant")>>,
   <<Word(R), Long("mutant")>>, <<Word(R), Long("hard-reset"), Long("confirm-reset")>>,
   <<Word(R), Long("enable-history"), LongIs("install-daemon", <<"x">>)>>,
   <<Short(<<"n">>), Word(<<"2">>), Short(<<"t">>), Word(<<"5">>), Word(R)>>,
   <<Short(<<"q">>), LongIs("threads", <<"5">>), Word(R)>>}

Spelling ==
  {[args |-> words, files |-> file, disk |-> Plain] :
     words \in CommandLines,
     file \in {NoFiles, Auto :> Map(<<<<"interval", Scalar(<<"35">>)>>, <<"all", Map(<<<<"silent", Null>>>>)>>>>),
               In(R, ".autogitpull.config") :> Broken}}

\* The lists.
Listing ==
  {[args |-> <<Word(R), Long("wait-empty")>> \o words, files |-> NoFiles, disk |-> tree] :
     words \in {<<>>, <<LongIs("recursive", <<"1">>)>>, <<Long("recursive"), LongIs("max-depth", <<"1">>)>>,
                <<Long("recursive"), LongIs("ignore", <<"a">>)>>, <<LongIs("ignore", <<"b", "*">>)>>,
                <<LongIs("ignore", <<"/", "r", "/", "a">>)>>, <<Long("single-repo")>>,
                <<LongIs("include-dir", <<"/", "s">>)>>, <<LongIs("include-dir", R)>>,
                <<LongIs("wait-empty", <<"2">>)>>},
     tree \in Trees}

\* Roots that are links or relative, or one directory under two names.
K == <<"/", "k">>
RootsSpelt ==
  {[args |-> where \o words, files |-> NoFiles, disk |-> Aliased] :
     where \in {<<Word(K)>>, <<Word(<<"w">>)>>, <<Word(R), LongIs("include-dir", K)>>,
                <<Word(<<"w">>), LongIs("include-dir", <<"/", "cwd", "/", "w">>)>>,
                <<Word(K), LongIs("include-dir", <<"/", "k", "/", "a">>)>>},
     words \in {<<>>, <<Long("recursive")>>, <<Long("single-repo")>>,
                <<Long("recursive"), LongIs("max-depth", <<"1">>)>>,
                <<Long("recursive"), LongIs("ignore", <<"/", "k", "/", "a">>)>>}}

\* A configuration that changes while it is watched.
Changes ==
  {Yaml :> Map(entries) :
     entries \in {<<<<"force-pull", Yes2>>>>, <<<<"root", Scalar(<<"/", "s">>)>>, <<"recursive", Yes2>>>>,
                  <<<<"interval", Scalar(<<"2", "m">>)>>, <<"ignore", Scalar(<<"a">>)>>>>,
                  <<<<"interval", Scalar(<<"0">>)>>>>}} \cup {Yaml :> Broken}

Reloads ==
  {[args |-> FromYaml \o words, files |-> file, disk |-> Linked] :
     words \in {<<Long("auto-reload-config"), LongIs("interval", <<"30">>), Word(R)>>,
                <<Word(R), Long("auto-reload-config"), Long("cli"), LongIs("ignore", <<"b">>)>>,
                <<LongIs("root", R), Long("auto-reload-config"), LongIs("wait-empty", <<"1">>)>>,
                <<Word(R), Long("auto-reload-config"), Long("mutant"), Long("sudo-su")>>},
     file \in Changes}

AllStarts == EveryOption \cup Twice \cup Configured \cup Spelling \cup Listing \cup RootsSpelt \cup Reloads
=============================================================================
