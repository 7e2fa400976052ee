------------------------------ MODULE Settings ------------------------------
(***************************************************************************)
(* parse_options (src/options.cpp and src/options/): what the program does *)
(* with a command line and the configuration files it finds.  Options are  *)
(* named without their dashes.  The code reads some hundred options with a *)
(* dozen rules; here every rule is written once, with the set of options   *)
(* that follow it.                                                         *)
(*                                                                         *)
(* parse_options only computes: it either returns all settings or throws,  *)
(* so the order in which errors are found does not show.                   *)
(***************************************************************************)
EXTENDS Args, Numbers, ConfigFile

CONSTANT Cores   \* std::thread::hardware_concurrency(), 0 if unknown

ASSUME CoresAssumption == Cores \in Nat

-----------------------------------------------------------------------------
(***************************************************************************)
(* The options and the rule each follows.                                  *)
(***************************************************************************)

\* On if named on the command line, or true in the configuration.
Switches ==
  {"cli", "single-run", "single-repo", "show-runtime", "show-repo-count",
   "keep-first-valid", "keep-first", "auto-config", "rerun-last", "save-args",
   "enable-hotkeys", "session-dates-only", "print-skipped", "show-pull-author",
   "censor-names", "silent", "recursive", "hard-reset", "confirm-reset",
   "confirm-alert", "sudo-su", "mutant", "recover-mutant", "confirm-mutant",
   "add-ignore", "remove-ignore", "clear-ignores", "find-ignores",
   "include-private", "show-skipped", "show-notgit", "show-version", "remove-lock",
   "ignore-lock", "check-only", "no-hash-check", "dry-run", "force-pull",
   "discard-dirty", "verbose", "single-thread", "no-cpu-tracker", "no-mem-tracker",
   "no-thread-tracker", "net-tracker", "debug-memory", "dump-state",
   "show-commit-date", "show-commit-author", "hide-date-time", "hide-header",
   "vmem", "no-colors", "json-log", "compress-logs", "syslog",
   "dont-skip-timeouts", "skip-accessible-errors", "dont-skip-unavailable",
   "retry-skipped", "reset-skipped", "exit-on-timeout", "install-daemon",
   "uninstall-daemon", "install-service", "uninstall-service", "service-status",
   "daemon-status", "show-service", "kill-all", "kill-on-sleep", "list-instances",
   "list-services", "list-daemons", "start-daemon", "stop-daemon",
   "restart-daemon", "start-service", "stop-service", "restart-service",
   "force-stop-daemon", "force-restart-daemon", "force-stop-service",
   "force-restart-service", "rescan-new", "wait-empty", "enable-history", "persist"}

\* On only if named on the command line.
CommandLineOnly == {"help", "version", "auto-reload-config"}

\* Two names of one setting, or a setting that brings another.
Synonyms ==
  [x \in {"keep-first", "discard-dirty", "list-daemons"} |->
     CASE x = "keep-first" -> "keep-first-valid"
       [] x = "discard-dirty" -> "force-pull"
       [] OTHER -> "list-services"]
Brings == {<<"single-run", "cli">>, <<"recover-mutant", "mutant">>}

\* A text, from the command line or else from the configuration: one that may
\* not be empty, and one that may.
RequiredTexts ==
  {"log-dir", "ssh-public-key", "ssh-private-key", "credential-file", "proxy",
   "post-pull-hook", "remote", "pull-ref", "censor-char", "attach", "background",
   "reattach", "root"}
OptionalTexts ==
  {"log-file", "color", "mutant-config", "daemon-config", "service-config",
   "service-name", "daemon-name"}
Words == {"log-level", "row-order"}

\* A number, from the command line or else from the configuration.
FallbackNumbers ==
  {"max-runtime", "respawn-limit", "respawn-delay", "updated-since", "depth",
   "max-log-size", "syslog-facility", "pull-timeout"}

\* A number that may follow a switch.
SwitchNumbers == {"rescan-new", "wait-empty"}

\* A number the configuration sets and the command line sets again.
LayeredNumbers ==
  {"max-threads", "cpu-percent", "cpu-cores", "mem-limit", "download-limit",
   "upload-limit", "disk-limit", "total-traffic-limit", "max-depth", "dump-large",
   "interval", "refresh-rate", "cpu-poll", "mem-poll", "thread-poll"}
ThreadNumbers == {"threads", "concurrency"}

Controls ==
  {"start-daemon", "stop-daemon", "restart-daemon", "start-service",
   "stop-service", "restart-service"}
DaemonControls == {"start-daemon", "stop-daemon", "restart-daemon"}

\* Known, but read only by the first parser, from the command line only, or for
\* one repository.
OtherOptions ==
  {"config-yaml", "config-json", "include-dir", "ignore", "exclude", "cpu-limit"}

Known ==
  Switches \cup CommandLineOnly \cup RequiredTexts \cup OptionalTexts \cup Words
  \cup FallbackNumbers \cup LayeredNumbers \cup ThreadNumbers \cup OtherOptions

ShortOptions ==
  [p |-> "include-private", k |-> "show-skipped", v |-> "show-version",
   V |-> "version", i |-> "interval", r |-> "refresh-rate", d |-> "log-dir",
   l |-> "log-file", y |-> "config-yaml", j |-> "config-json", c |-> "cli",
   s |-> "silent", D |-> "max-depth", h |-> "help", A |-> "attach",
   b |-> "background", B |-> "reattach", R |-> "remove-lock", f |-> "force-pull",
   L |-> "log-level", n |-> "concurrency", t |-> "threads", I |-> "ignore",
   g |-> "verbose", N |-> "no-hash-check", P |-> "persist", o |-> "root",
   u |-> "single-run", S |-> "single-repo", C |-> "no-colors",
   M |-> "max-threads", e |-> "recursive", H |-> "hide-header",
   T |-> "show-commit-date", U |-> "show-commit-author", x |-> "check-only",
   m |-> "debug-memory", w |-> "rescan-new", X |-> "no-cpu-tracker",
   O |-> "pull-timeout", q |-> "single-thread", E |-> "cpu-percent",
   Y |-> "mem-limit", W |-> "wait-empty", Z |-> "show-repo-count"]

\* What a number option has if nobody sets it.
DefaultNumber(k) ==
  CASE k = "interval" -> 30
    [] k = "refresh-rate" -> 250
    [] k \in {"cpu-poll", "mem-poll", "thread-poll", "rescan-new"} -> 5
    [] k = "depth" -> 2
    [] k = "respawn-delay" -> 1000
    [] OTHER -> 0

-----------------------------------------------------------------------------
(***************************************************************************)
(* What a number option makes of a text.                                   *)
(***************************************************************************)
Divided(r, d) == [ok |-> r.ok, n |-> r.n \div d]
WithoutPercent(t) == IF t # <<>> /\ Last(t) = "%" THEN Front(t) ELSE t
Commas(t) == {i \in 1..Len(t) : t[i] = ","}
FirstComma(t) == IF Commas(t) = {} THEN 0 ELSE Min(Commas(t))

\* "n" or "n,minutes"; the minutes are kept as respawn-window.
RespawnMax(t) ==
  LET comma == FirstComma(t)
  IN  parse_int(IF comma = 0 THEN t ELSE SubSeq(t, 1, comma - 1), 1, IntMax)
RespawnWindow(t) ==
  LET comma == FirstComma(t)
  IN  IF comma = 0 THEN Yes(10) ELSE parse_int(SubSeq(t, comma + 1, Len(t)), 1, IntMax)

PoolSize(t) == parse_size_t(t, 1)

ReadNumber(k, t) ==
  CASE k \in {"max-runtime", "pull-timeout", "interval"} ->
         Bounded(parse_duration(t), 1, IntMax)
    [] k \in {"cpu-poll", "mem-poll", "thread-poll"} ->
         Bounded(parse_duration(t), 1, UIntMax)
    [] k = "updated-since" -> parse_duration(t)
    [] k = "respawn-delay" -> Bounded(parse_time_ms(t), 0, 2^LongBits)
    [] k = "refresh-rate" -> Bounded(parse_time_ms(t), 1, 2^LongBits)
    [] k = "respawn-limit" -> IF RespawnWindow(t).ok THEN RespawnMax(t) ELSE No
    [] k \in SwitchNumbers -> parse_int(t, 1, IntMax)
    [] k = "syslog-facility" -> parse_int(t, 0, IntMax)
    [] k = "depth" -> parse_uint(t, 0, UIntMax)
    [] k = "cpu-percent" -> parse_double(WithoutPercent(t), 0, 100)
    [] k = "cpu-cores" -> parse_ull(t)
    [] k \in {"max-threads", "max-depth", "dump-large"} -> parse_size_t(t, 0)
    [] k \in ThreadNumbers -> PoolSize(t)
    [] k \in {"max-log-size", "total-traffic-limit"} -> parse_bytes(t)
    [] k = "mem-limit" -> Divided(parse_bytes(t), 2^20)
    [] k \in {"download-limit", "upload-limit", "disk-limit"} ->
         Divided(parse_bytes(t), 2^10)

LogLevels == {<<"DEBUG">>, <<"INFO">>, <<"WARN">>, <<"WARNING">>, <<"ERROR">>}
SortModes == {<<"alpha">>, <<"reverse">>, <<"updated">>}

\* toupper, tolower of the words the options know.
Upper(t) ==
  CASE t = <<"debug">> -> <<"DEBUG">> [] t = <<"info">> -> <<"INFO">>
    [] t = <<"error">> -> <<"ERROR">> [] OTHER -> t
Lower(t) ==
  CASE t = <<"TRUE">> -> <<"true">> [] t = <<"YES">> -> <<"yes">> [] OTHER -> t

-----------------------------------------------------------------------------
(***************************************************************************)
(* Looking an option up.  p is the parsed command line, cfg the            *)
(* configuration.                                                          *)
(***************************************************************************)
\* Mutation: an option without a value is not on.
FlagWithValue(cfg, k) ==
  k \in DOMAIN cfg /\ Lower(cfg[k]) \in {<<"1">>, <<"true">>, <<"yes">>}

cfg_flag(cfg, k) ==
  k \in DOMAIN cfg /\ Lower(cfg[k]) \in {<<>>, <<"1">>, <<"true">>, <<"yes">>}

OrElse(t, u) == IF t # <<>> THEN t ELSE u
cfg_opt(cfg, k) == IF k \in DOMAIN cfg THEN cfg[k] ELSE <<>>

IsOn(p, cfg, k) == has_flag(p, k) \/ cfg_flag(cfg, k)
Given(p, cfg, k) == has_flag(p, k) \/ k \in DOMAIN cfg

\* Mutation: the configuration comes first.
ConfigFirst(p, cfg, k) == OrElse(cfg_opt(cfg, k), get_option(p, k))

Fallback(p, cfg, k) == OrElse(get_option(p, k), cfg_opt(cfg, k))

-----------------------------------------------------------------------------
(***************************************************************************)
(* load_config_and_auto.  files gives the tree of every file that exists;  *)
(* a path is a text whose last atom is the file's name.                    *)
(***************************************************************************)
Cwd == <<"/", "cwd">>
ExeDir == <<"/", "bin">>
In(dir, name) == dir \o <<"/", name>>

\* A file named on the command line; an option without a value, or a file that
\* does not exist, is an error.
NamedConfig(p, k, files, acc) ==
  LET path == get_option(p, k)
  IN  IF ~has_flag(p, k) \/ ~acc.ok THEN acc
      ELSE IF path \notin DOMAIN files THEN [acc EXCEPT !.ok = FALSE]
      ELSE [file |-> path] @@
             load_config(files[path], IF k = "config-yaml" THEN "yaml" ELSE "json", acc)

\* Where --auto-config looks: the root it can see, the working directory, the
\* program's own.  This parser knows two options and one letter, so it takes the
\* value after any other letter for a path.
AutoParser(args) == ArgParser(args, {"root", "auto-config"}, [o |-> "root"])

RootHint(p, cfg) ==
  OrElse(IF has_flag(p, "root") THEN get_option(p, "root")
         ELSE IF p.positional # <<>> THEN Head(p.positional) ELSE <<>>,
         cfg_opt(cfg, "root"))

AutoPaths(hint) ==
  (IF hint = <<>> THEN <<>>
   ELSE <<In(hint, ".autogitpull.yaml"), In(hint, ".autogitpull.json")>>)
  \o <<In(Cwd, ".autogitpull.yaml"), In(Cwd, ".autogitpull.json"),
       In(ExeDir, ".autogitpull.yaml"), In(ExeDir, ".autogitpull.json")>>

FirstOf(found, files, acc) ==
  IF found = <<>> THEN acc
  ELSE [file |-> Head(found)] @@
         load_config(files[Head(found)],
                     IF Last(Head(found)) = ".autogitpull.yaml" THEN "yaml" ELSE "json", acc)

AutoConfig(p, files, acc) ==
  IF acc.ok /\ IsOn(p, acc.opts, "auto-config")
    THEN FirstOf(SelectSeq(AutoPaths(RootHint(p, acc.opts)), LAMBDA f : f \in DOMAIN files),
                 files, acc)
    ELSE acc

NamedConfigs(p, files) ==
  NamedConfig(p, "config-json", files,
    NamedConfig(p, "config-yaml", files, NoConfig @@ [file |-> <<>>]))

load_config_and_auto(args, files) ==
  AutoConfig(AutoParser(args), files,
             NamedConfigs(ArgParser(args, {"config-yaml", "config-json"},
                                    [y |-> "config-yaml", j |-> "config-json"]), files))

-----------------------------------------------------------------------------
(***************************************************************************)
(* The groups of settings parse_options returns.                           *)
(***************************************************************************)

\* The members that are Booleans, named by the option that changes them.
OnSwitches(p, cfg) ==
  LET named == {k \in Switches : IsOn(p, cfg, k)} \cup (CommandLineOnly \cap p.flags)
      all   == named \cup {b[2] : b \in {x \in Brings : x[1] \in named}}
  IN  {IF k \in DOMAIN Synonyms THEN Synonyms[k] ELSE k : k \in all}

ReadIf(said, k, t) == IF said THEN ReadNumber(k, t) ELSE Yes(DefaultNumber(k))

NumberOf(p, cfg, k) ==
  CASE k \in FallbackNumbers -> ReadIf(Given(p, cfg, k), k, Fallback(p, cfg, k))
    [] k \in SwitchNumbers ->
         ReadIf(IsOn(p, cfg, k) /\ Fallback(p, cfg, k) # <<>>, k, Fallback(p, cfg, k))
    [] k \in LayeredNumbers ->
         ReadIf(Given(p, cfg, k), k, IF has_flag(p, k) THEN get_option(p, k) ELSE cfg[k])

\* A layered value of the configuration is read, and may be refused, even where
\* the command line sets it again.
LayersReadable(cfg) ==
  \A k \in (LayeredNumbers \cup ThreadNumbers) \cap DOMAIN cfg : ReadNumber(k, cfg[k]).ok

\* Three options set the size of the pool; the last of these layers that is
\* there wins.
Concurrency(p, cfg) ==
  LET layers ==
        <<<<TRUE,                             Yes(IF Cores = 0 THEN 1 ELSE Cores)>>,
          <<"threads" \in DOMAIN cfg,         PoolSize(cfg_opt(cfg, "threads"))>>,
          <<cfg_flag(cfg, "single-thread"),   Yes(1)>>,
          <<"concurrency" \in DOMAIN cfg,     PoolSize(cfg_opt(cfg, "concurrency"))>>,
          <<has_flag(p, "threads"),           PoolSize(get_option(p, "threads"))>>,
          <<has_flag(p, "single-thread"),     Yes(1)>>,
          <<has_flag(p, "concurrency"),       PoolSize(get_option(p, "concurrency"))>>>>
  IN  layers[Max({i \in DOMAIN layers : layers[i][1]})][2]

DefaultText(k) ==
  CASE k = "remote" -> <<"origin">>
    [] k \in {"service-name", "daemon-name"} -> <<"autogitpull">>
    [] k = "censor-char" -> <<"*">>
    [] OTHER -> <<>>

\* The name an installation gives the service, from the command line only.
InstalledAs(p, cfg, k) ==
  LET by == IF k = "daemon-name" THEN <<"uninstall-daemon", "install-daemon">>
                                 ELSE <<"uninstall-service", "install-service">>
      named == {i \in DOMAIN by : IsOn(p, cfg, by[i]) /\ get_option(p, by[i]) # <<>>}
  IN  IF named = {} THEN DefaultText(k) ELSE get_option(p, by[Min(named)])

TextOf(p, cfg, k) ==
  IF k = "censor-char" /\ Fallback(p, cfg, k) # <<>> THEN <<Head(Fallback(p, cfg, k))>>
  ELSE IF Given(p, cfg, k) THEN Fallback(p, cfg, k)
  ELSE IF k \in {"service-name", "daemon-name"} THEN InstalledAs(p, cfg, k)
  ELSE DefaultText(k)

\* Which service a control is about.
ControlName(p, cfg, k) ==
  LET own == IF IsOn(p, cfg, k) THEN Fallback(p, cfg, k) ELSE <<>>
  IN  IF own # <<>> THEN own
      ELSE TextOf(p, cfg, IF k \in DaemonControls THEN "daemon-name" ELSE "service-name")

LogLevel(p, cfg) ==
  IF Given(p, cfg, "log-level") THEN Upper(Fallback(p, cfg, "log-level"))
  ELSE IF IsOn(p, cfg, "verbose") THEN <<"DEBUG">> ELSE <<"INFO">>

SortMode(p, cfg) ==
  IF Given(p, cfg, "row-order") THEN Fallback(p, cfg, "row-order") ELSE <<"updated">>

\* --root or its configured value; without either the first word that is not an
\* option.
Root(p, cfg) ==
  IF Given(p, cfg, "root") THEN Fallback(p, cfg, "root")
  ELSE IF p.positional # <<>> THEN Head(p.positional) ELSE <<>>

filename(path) == IF path = <<>> \/ Last(path) = "/" THEN <<>> ELSE <<Last(path)>>

\* The last of --attach, --background and --reattach names the status socket,
\* then mutant mode, then --persist.
AttachName(p, cfg) ==
  LET names == <<"reattach", "background", "attach">>
      said == {i \in DOMAIN names : Given(p, cfg, names[i])}
      persist == Fallback(p, cfg, "persist")
  IN  IF said # {} THEN Fallback(p, cfg, names[Min(said)])
      ELSE IF "mutant" \in OnSwitches(p, cfg) THEN <<"mutant">>
      ELSE IF ~IsOn(p, cfg, "persist") THEN <<>>
      ELSE IF persist # <<>> THEN persist ELSE filename(Root(p, cfg))

\* What keeps the process in the background or attaches it to another.
Service(p, cfg) ==
  LET on == OnSwitches(p, cfg)
      mutant == "mutant" \in on
      recover == mutant /\ "recover-mutant" \in on
  IN  [attach_name    |-> AttachName(p, cfg),
       run_background |-> Given(p, cfg, "background") \/ (mutant /\ ~recover),
       reattach       |-> Given(p, cfg, "reattach") \/ recover,
       persist        |-> mutant \/ IsOn(p, cfg, "persist")]

\* An enabled history is looked for beside the root, in the working directory
\* and beside the program, unless it was given a name.
HistoryFile(p, cfg, files) ==
  LET default == <<".autogitpull.config">>
      named == IF IsOn(p, cfg, "enable-history") /\ Fallback(p, cfg, "enable-history") # <<>>
                 THEN Fallback(p, cfg, "enable-history") ELSE default
      root  == IF Root(p, cfg) = <<>> THEN <<>> ELSE <<Root(p, cfg)>>
      found == SelectSeq(root \o <<Cwd, ExeDir>>,
                         LAMBDA dir : In(dir, ".autogitpull.config") \in DOMAIN files)
      wanted == \E k \in {"rerun-last", "save-args", "enable-history"} : IsOn(p, cfg, k)
  IN  IF wanted /\ named = default /\ found # <<>>
        THEN In(Head(found), ".autogitpull.config") ELSE named

-----------------------------------------------------------------------------
(***************************************************************************)
(* parse_repo_settings.                                                    *)
(***************************************************************************)
RepoNumbers ==
  {"download-limit", "upload-limit", "disk-limit", "cpu-limit", "max-runtime", "pull-timeout"}

RepoNumber(k, t) ==
  IF k = "cpu-limit" THEN parse_double(t, 0, 100) ELSE ReadNumber(k, t)

RepoReadable(values) ==
  /\ \A k \in RepoNumbers \cap DOMAIN values : RepoNumber(k, values[k]).ok
  /\ "pull-ref" \in DOMAIN values => values["pull-ref"] # <<>>

RepoSetting(values) ==
  LET on == {k \in {"force-pull", "discard-dirty", "exclude", "check-only"} : cfg_flag(values, k)}
  IN  [on      |-> {IF k = "discard-dirty" THEN "force-pull" ELSE k : k \in on},
       numbers |-> [k \in RepoNumbers \cap DOMAIN values |-> RepoNumber(k, values[k]).n],
       texts   |-> [k \in {"post-pull-hook", "pull-ref"} \cap DOMAIN values |-> values[k]]]

-----------------------------------------------------------------------------
(***************************************************************************)
(* parse_options.                                                          *)
(***************************************************************************)
Numerical == FallbackNumbers \cup SwitchNumbers \cup LayeredNumbers

Fail == [ok |-> FALSE]

\* A root is needed to monitor, not to ask, and not to attach to another process.
RootRequired(p, cfg) ==
  LET s == Service(p, cfg)
      attaches == s.reattach \/ Given(p, cfg, "attach") \/ s.run_background
  IN  /\ {"help", "version"} \cap p.flags = {}
      /\ ~IsOn(p, cfg, "show-service")
      /\ ~attaches \/ s.run_background \/ IsOn(p, cfg, "persist")

Refused(p, cfg, repos) ==
  \/ ~(DOMAIN cfg \subseteq Known)
  \/ \E path \in DOMAIN repos : ~(DOMAIN repos[path] \subseteq Known) \/ ~RepoReadable(repos[path])
  \/ p.unknown # {}
  \/ \E k \in RequiredTexts : Given(p, cfg, k) /\ Fallback(p, cfg, k) = <<>>
  \/ LogLevel(p, cfg) \notin LogLevels
  \/ SortMode(p, cfg) \notin SortModes
  \/ ~LayersReadable(cfg)
  \/ \E k \in Numerical : ~NumberOf(p, cfg, k).ok
  \/ \E k \in ThreadNumbers \cap p.flags : ~ReadNumber(k, get_option(p, k)).ok
  \/ /\ "mutant" \in OnSwitches(p, cfg)
     /\ {"confirm-mutant", "sudo-su"} \cap OnSwitches(p, cfg) = {}
  \/ Root(p, cfg) = <<>> /\ RootRequired(p, cfg)

\* Everything after the configuration was loaded.
Settled(p, cfg, config, files, args) ==
  IF ~config.ok \/ Refused(p, cfg, config.repos) THEN Fail
  ELSE [ok            |-> TRUE,
        on            |-> OnSwitches(p, cfg),
        numbers       |-> [k \in Numerical |-> NumberOf(p, cfg, k).n],
        respawn_window|-> RespawnWindow(IF Given(p, cfg, "respawn-limit")
                            THEN Fallback(p, cfg, "respawn-limit") ELSE <<>>).n,
        concurrency   |-> Concurrency(p, cfg).n,
        texts         |-> [k \in (RequiredTexts \cup OptionalTexts)
                                   \ {"attach", "background", "reattach", "root"} |->
                             TextOf(p, cfg, k)],
        controls      |-> [k \in Controls |-> ControlName(p, cfg, k)],
        log_level     |-> LogLevel(p, cfg),
        sort_mode     |-> SortMode(p, cfg),
        service       |-> Service(p, cfg),
        root          |-> Root(p, cfg),
        include_dirs  |-> get_all_options(p, "include-dir"),
        ignore_dirs   |-> get_all_options(p, "ignore"),
        ignored_repo  |-> [k \in {"add-ignore", "remove-ignore"} |->
                             IF k \in OnSwitches(p, cfg) THEN get_option(p, k) ELSE <<>>],
        history_file  |-> HistoryFile(p, cfg, files),
        repo_settings |-> [path \in DOMAIN config.repos |-> RepoSetting(config.repos[path])],
        config_file   |-> config.file,
        original_args |-> args]

Settle(args, config, files) ==
  Settled(ArgParser(args, Known, ShortOptions), config.opts, config, files, args)

parse_options(args, files) == Settle(args, load_config_and_auto(args, files), files)

\* main refuses to monitor with a short interval or with forced pulls unless that
\* was confirmed.
alerts_allowed(opts) ==
  \/ {"confirm-alert", "sudo-su"} \cap opts.on # {}
  \/ opts.numbers["interval"] >= 15 /\ "force-pull" \notin opts.on
=============================================================================
