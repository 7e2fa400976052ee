------------------------------ MODULE Startup ------------------------------
(***************************************************************************)
(* From the command line to a list of repositories and back: main          *)
(* (src/autogitpull.cpp) reads the options and picks what the process is   *)
(* for (src/cli_commands.cpp); a monitoring run (src/ui_loop.cpp) builds   *)
(* its list, waits for a first repository if it may, and reads its options *)
(* again when the configuration file changes.  Meanwhile the user edits    *)
(* files and directories.  What happens in a scan is Scanner's business,   *)
(* and when the loop looks at the change EventLoop's.                      *)
(***************************************************************************)
EXTENDS Settings, RepoTree

CONSTANTS
  Scenarios,   \* [args, files, disk]: what a start may find
  FileEdits,   \* the contents the configuration files may change to
  DiskEdits,   \* the trees the directories may change to
  Covers,      \* what each wildcard pattern of --ignore matches
  MutantStates,  \* [interval, timeout]: what the state file of mutant mode may say
  MaxEdits     \* bound: how often the user edits anything

ASSUME StartsAssumption ==
  /\ \A s \in Scenarios : IsCommandLine(s.args) /\ IsTree(s.disk)
  /\ \A tree \in DiskEdits : IsTree(tree)
  /\ MutantStates \subseteq [interval : 0..IntMax, timeout : Nat]
  /\ MaxEdits \in Nat

VARIABLES
  args, files, disk,   \* the command line and the file system
  phase,               \* "start", "opening", "waiting", "monitoring" or "ended"
  opts,                \* the options in force, Fail before they are read
  all_repos,           \* the list the loop scans
  attempts,            \* how often it was built in vain
  config_changed,      \* the watcher saw the configuration file change
  edits

vars == <<args, files, disk, phase, opts, all_repos, attempts, config_changed, edits>>

-----------------------------------------------------------------------------
(***************************************************************************)
(* What main makes of the options.                                         *)
(***************************************************************************)
AtLeast(n, min) == IF n < min THEN min ELSE n

\* apply_mutant_mode: what is positive in the state file of an earlier run replaces the
\* options.
IfPositive(n, otherwise) == IF n > 0 THEN n ELSE otherwise

apply_mutant_mode(o, state) ==
  IF ~o.ok \/ "mutant" \notin o.on THEN o
  ELSE [o EXCEPT
    !.numbers["interval"] = AtLeast(IfPositive(state.interval, @), 5),
    !.numbers["pull-timeout"] = IfPositive(state.timeout, IF @ = 0 THEN 30 ELSE @),
    !.numbers["updated-since"] = IF @ = 0 THEN 3600 ELSE @,
    !.on = @ \cup {"retry-skipped", "dont-skip-unavailable"}
             \cup (IF state.timeout > 0 \/ o.numbers["pull-timeout"] = 0
                     THEN {"dont-skip-timeouts"} ELSE {})]

\* The one-shot commands, in the order in which main looks for them.
OneShots ==
  <<"help", "version", "show-service", "list-services", "service-status",
    "daemon-status", "list-instances", "install-service", "uninstall-service",
    "start-service", "stop-service", "restart-service", "install-daemon",
    "uninstall-daemon", "start-daemon", "stop-daemon", "restart-daemon",
    "remove-lock", "kill-all", "hard-reset">>

Command(o) ==
  LET asked == SelectSeq(OneShots, LAMBDA k : k \in o.on)
  IN  IF asked # <<>> THEN Head(asked)
      ELSE IF alerts_allowed(o) THEN "monitor" ELSE "refuse"

\* root / path: an absolute path stays what it is.
Below(root, path) == IF path # <<>> /\ Head(path) = "/" THEN path ELSE root \o <<"/">> \o path

\* The history gains a line; of the file only its being there matters.
append_history(o) ==
  IF "enable-history" \in o.on THEN (Below(Cwd, o.history_file) :> Broken) @@ files ELSE files

\* perform_hard_reset: the files it removes, and the directory of the logs.
ResetRemoves(o, f) ==
  \/ f = Below(Cwd, o.texts["log-file"])
  \/ o.texts["log-dir"] # <<>> /\ IsPrefix(Below(Cwd, o.texts["log-dir"]) \o <<"/">>, f)
  \/ o.root # <<>> /\ f \in {In(o.root, ".autogitpull.yaml"), In(o.root, ".autogitpull.json"),
                             Below(o.root, o.history_file)}

\* What the commands leave of the files.  (What they do to services and to the
\* lock is not part of this module.)
AfterCommand(o, before) ==
  IF Command(o) = "hard-reset" /\ "confirm-reset" \in o.on
    THEN RestrictDomain(before, LAMBDA f : ~ResetRemoves(o, f))
    ELSE before

-----------------------------------------------------------------------------
(***************************************************************************)
(* The list.  The names of a path are the atoms of its text but "/", and   *)
(* first a "." if the text does not begin with one.                        *)
(***************************************************************************)
Names(t) == SelectSeq(t, LAMBDA atom : atom # "/")
PathOf(t) == IF t # <<>> /\ Head(t) = "/" THEN Names(t) ELSE <<".">> \o Names(t)

IgnorePattern(t) ==
  [whole  |-> \E i \in DOMAIN t : t[i] = "/",
   covers |-> IF t \in DOMAIN Covers THEN Covers[t]
              ELSE {IF \E i \in DOMAIN t : t[i] = "/" THEN PathOf(t) ELSE Names(t)}]

Prepared(o, tree) ==
  prepare_repos(tree, PathOf(o.root),
                [i \in DOMAIN o.include_dirs |-> PathOf(o.include_dirs[i])],
                "single-repo" \in o.on, "recursive" \in o.on,
                [i \in DOMAIN o.ignore_dirs |-> IgnorePattern(o.ignore_dirs[i])],
                o.numbers["max-depth"])

AnyValid(list, tree) == \E i \in DOMAIN list : IsRepo(tree, list[i])

\* Where a run that has just built its list for the n-th time in vain goes.
AfterList(o, list, n) ==
  IF AnyValid(list, disk) THEN "monitoring"
  ELSE IF /\ "wait-empty" \in o.on
          /\ o.numbers["wait-empty"] = 0 \/ n < o.numbers["wait-empty"]
         THEN "waiting"
         ELSE "ended"

-----------------------------------------------------------------------------
(***************************************************************************)
(* The actions.                                                            *)
(***************************************************************************)
Init ==
  /\ \E s \in Scenarios : args = s.args /\ files = s.files /\ disk = s.disk
  /\ phase = "start"
  /\ opts = Fail
  /\ all_repos = <<>>
  /\ attempts = 0
  /\ config_changed = FALSE
  /\ edits = 0

\* main, up to the monitoring run.
Start ==
  /\ phase = "start"
  /\ \E state \in MutantStates : opts' = apply_mutant_mode(parse_options(args, files), state)
  /\ phase' = IF opts'.ok /\ Command(opts') = "monitor" THEN "opening" ELSE "ended"
  /\ files' = IF opts'.ok THEN AfterCommand(opts', append_history(opts')) ELSE files
  /\ UNCHANGED <<args, disk, all_repos, attempts, config_changed, edits>>

\* A process that is only attached to another one shows what that one sends.
Attached(o) == o.service.reattach \/ (o.root = <<>> /\ o.service.attach_name # <<>>)

\* run_event_loop up to its first look at the list: it ends at once if it attaches
\* or the root is no directory.
Open ==
  /\ phase = "opening"
  /\ IF Attached(opts) \/ ~IsDirectory(disk, PathOf(opts.root))
       THEN /\ phase' = "ended"
            /\ UNCHANGED all_repos
       ELSE /\ all_repos' = Prepared(opts, disk)
            /\ phase' = AfterList(opts, all_repos', 0)
  /\ UNCHANGED <<args, files, disk, opts, attempts, config_changed, edits>>

\* One round of --wait-empty.
Retry ==
  /\ phase = "waiting"
  /\ all_repos' = Prepared(opts, disk)
  /\ attempts' = IF opts.numbers["wait-empty"] = 0 THEN 0 ELSE attempts + 1
  /\ phase' = AfterList(opts, all_repos', attempts + 1)
  /\ UNCHANGED <<args, files, disk, opts, config_changed, edits>>

\* Mutation: nobody asks whether the new options were refused.
ReloadUnchecked ==
  /\ phase = "monitoring"
  /\ config_changed
  /\ config_changed' = FALSE
  /\ opts' = parse_options(opts.original_args, files)
  /\ UNCHANGED <<args, files, disk, phase, all_repos, attempts, edits>>

\* Options that are refused leave the old ones in force.
Adopt(read) ==
  IF read.ok THEN opts' = read /\ all_repos' = Prepared(read, disk)
             ELSE UNCHANGED <<opts, all_repos>>

\* Mutation: only the configuration is read again.
ReloadConfigOnly ==
  /\ phase = "monitoring"
  /\ config_changed
  /\ config_changed' = FALSE
  /\ Adopt(parse_options(<<LongIs("config-yaml", opts.config_file), LongIs("root", opts.root)>>,
                         files))
  /\ UNCHANGED <<args, files, disk, phase, attempts, edits>>

\* The loop reads its options again, from the words it was started with.
Reload ==
  /\ phase = "monitoring"
  /\ config_changed
  /\ config_changed' = FALSE
  /\ Adopt(parse_options(opts.original_args, files))
  /\ UNCHANGED <<args, files, disk, phase, attempts, edits>>

\* The user edits a file or a directory while somebody will look at it again.  The
\* watcher reports a change of the configuration file, if the options ask for it;
\* it exists once the list is being built.
Watching ==
  /\ phase \in {"waiting", "monitoring"}
  /\ opts.config_file # <<>>
  /\ "auto-reload-config" \in opts.on

EditFiles ==
  /\ edits < MaxEdits
  /\ Watching
  /\ files' \in FileEdits
  /\ files' # files
  /\ edits' = edits + 1
  /\ config_changed' = TRUE
  /\ UNCHANGED <<args, disk, phase, opts, all_repos, attempts>>

EditDisk ==
  /\ edits < MaxEdits
  /\ Watching \/ phase = "waiting"
  /\ disk' \in DiskEdits
  /\ disk' # disk
  /\ edits' = edits + 1
  /\ UNCHANGED <<args, files, phase, opts, all_repos, attempts, config_changed>>

Monitoring == phase \in {"ended", "monitoring"} /\ UNCHANGED vars

Next == Start \/ Open \/ Retry \/ Reload \/ EditFiles \/ EditDisk \/ Monitoring

Spec == Init /\ [][Next]_vars

-----------------------------------------------------------------------------
(***************************************************************************)
(* Properties.                                                             *)
(***************************************************************************)

\* The numbers the loop divides and counts by are in their ranges.
InRange(o) ==
  /\ o.ok
  /\ o.numbers["interval"] \in 1..IntMax
  /\ o.numbers["refresh-rate"] > 0
  /\ o.numbers["cpu-poll"] \in 1..UIntMax
  /\ o.concurrency > 0

\* The type of the variables; a run that monitors has options in force, with numbers
\* in their ranges.
TypeOK ==
  /\ phase \in {"start", "opening", "waiting", "monitoring", "ended"}
  /\ phase \in {"opening", "waiting", "monitoring"} => InRange(opts)
  /\ all_repos \in Seq(Range(all_repos))
  /\ attempts \in Nat /\ edits \in 0..MaxEdits
  /\ config_changed \in BOOLEAN

Parser == ArgParser(args, Known, ShortOptions)
Config == load_config_and_auto(args, files)
WithoutKey(config, k) ==
  [ok |-> config.ok, opts |-> RestrictDomain(config.opts, LAMBDA x : x # k),
   repos |-> config.repos, file |-> config.file]

BothSame(with, without) == with.ok /\ without.ok => with = without
Outranked(p, config) ==
  \A k \in DOMAIN config.opts :
    get_option(p, k) # <<>> =>
      BothSame(Settle(args, config, files), Settle(args, WithoutKey(config, k), files))

\* A value given on the command line decides: whatever the configuration says of
\* the same option, as long as it is legal, changes no setting (readme.md: "CLI
\* flags override").
CommandLineWins ==
  phase \in {"opening", "monitoring"} => Outranked(Parser, Config)

\* These mean something else, or nothing, in a configuration file: names that are
\* only read from the command line, lists, requests, and the options whose order
\* of precedence is that of several options.
CommandLineValues ==
  {"install-daemon", "uninstall-daemon", "install-service", "uninstall-service",
   "add-ignore", "remove-ignore"}
NotInConfig == CommandLineOnly \cup CommandLineValues \cup {"include-dir", "ignore"}
PoolOptions == {"threads", "single-thread", "concurrency"}
TrueTexts == {<<>>, <<"1">>, <<"true">>, <<"yes">>, <<"YES">>}

\* What a loader may have printed for another text in the file.
Reprinted(k) == Range(Printed) \cup (IF k \in Switches THEN {} ELSE {<<"true">>, <<"false">>})

SameButWords(there, here) ==
  there.ok = here.ok
  /\ (there.ok => here = [there EXCEPT !.original_args = here.original_args])
Interchangeable(p, config) ==
  \A k \in DOMAIN config.opts \ (p.flags \cup NotInConfig) :
    \/ k \in Switches /\ config.opts[k] \notin TrueTexts
    \/ k \in PoolOptions /\ Cardinality(PoolOptions \cap (DOMAIN config.opts \cup p.flags)) > 1
    \/ config.opts[k] \in Reprinted(k)
    \/ SameButWords(Settle(args, config, files),
                    Settle(args \o <<LongIs(k, config.opts[k])>>, WithoutKey(config, k), files))

\* An option means the same in a configuration file as on the command line,
\* whichever of the files it comes from and however deep it is nested: moving it
\* from one to the other changes no setting, nor whether it is refused.  (A switch
\* that is false in the file has no counterpart on the command line, and a number that
\* the loader prints anew need not mean the same: 010 is 8 in YAML.)
ConfigMeansTheSame ==
  phase \in {"opening", "ended"} /\ Config.ok => Interchangeable(Parser, Config)

\* What a text means if it is a numeral with one of the units of the option:
\* the product, without a width.
DurationOptions ==
  {"max-runtime", "pull-timeout", "interval", "cpu-poll", "mem-poll", "thread-poll",
   "updated-since"}
ByteOptions ==
  {"max-log-size", "mem-limit", "download-limit", "upload-limit", "disk-limit",
   "total-traffic-limit"}
UnitsOf(k) ==
  CASE k \in DurationOptions -> Seconds
    [] k \in {"respawn-delay", "refresh-rate"} -> Milliseconds
    [] k \in ByteOptions -> [B |-> 1, K |-> 2^10, KB |-> 2^10, M |-> 2^20, MB |-> 2^20]
    [] OTHER -> [none |-> 1]
LeastOf(k) ==
  IF k \in (DurationOptions \ {"updated-since"})
             \cup {"refresh-rate", "rescan-new", "wait-empty", "respawn-limit"} \cup ThreadNumbers
    THEN 1 ELSE 0
MostOf(k) ==
  CASE k \in {"max-runtime", "pull-timeout", "interval", "respawn-limit", "syslog-facility"}
               \cup SwitchNumbers -> IntMax
    [] k \in {"cpu-poll", "mem-poll", "thread-poll", "depth"} -> UIntMax
    [] OTHER -> 2^(LongBits - 1) - 1
CountedIn(k) ==
  CASE k = "mem-limit" -> 2^20
    [] k \in {"download-limit", "upload-limit", "disk-limit"} -> 2^10
    [] OTHER -> 1

UnitIn(t, units) ==
  IF Len(t) = 2 /\ t[2] \in DOMAIN units THEN units[t[2]] ELSE IF Len(t) = 1 THEN 1 ELSE 0
Exactly(k, n) == IF n \in LeastOf(k)..MostOf(k) THEN Yes(n \div CountedIn(k)) ELSE No
ReadExactly(k, t, unit) ==
  /\ Len(t) \in {1, 2} /\ unit > 0 /\ IsNumeral(t[1])
  /\ k = "cpu-cores" => t[1] \notin DOMAIN BaseZero
  /\ NumeralValue[t[1]] <= (2^(LongBits - 1) - 1) \div unit
  => ReadNumber(k, t) = Exactly(k, NumeralValue[t[1]] * unit)
EachReadExactly(p, config) ==
  \A k \in (Numerical \cup ThreadNumbers) \ {"cpu-percent"} :
    \A t \in {get_option(p, k), cfg_opt(config.opts, k)} :
      ReadExactly(k, t, UnitIn(t, UnitsOf(k)))

\* A numeral with a unit that fits a signed integer is accepted exactly if it is
\* within the option's bounds, and then with exactly its value: no unit is taken
\* for another, nothing is cut off and nothing wraps.  (cpu-cores takes octal, too.)
ValuesAreExact == phase # "start" => EachReadExactly(Parser, Config)

\* What the command line says survives every reload, whatever the file has become.
\* (Mutant mode changes the options after they were read, and a reload does not.)
ReloadKeepsCommandLine ==
  [][phase = "monitoring" /\ opts' # opts /\ "mutant" \notin opts.on =>
       /\ \A k \in Parser.flags \cap opts.on : k \in opts'.on
       /\ \A k \in Numerical : get_option(Parser, k) # <<>> =>
            opts'.numbers[k] = opts.numbers[k]
       /\ get_option(Parser, "root") # <<>> => opts'.root = opts.root
       /\ opts'.ignore_dirs = opts.ignore_dirs]_vars

\* The roots that contain a place, wherever links take them.
RootsOf(p, roots, tree) == {i \in DOMAIN roots : IsPrefix(Real(tree, roots[i]), p)}
EachIsBelow(list, roots, tree) ==
  /\ \A i \in DOMAIN list :
       RootsOf(list[i].real, roots, tree) # {} /\ Kind(tree, list[i].real) = "dir"
  /\ \A i, j \in DOMAIN list :
       i # j /\ list[i].real = list[j].real =>
         \/ Cardinality(RootsOf(list[i].real, roots, tree)) > 1
         \/ \E p \in DOMAIN tree : tree[p] = Link(list[i].real)

\* The list names directories below those the roots lead to only, and one of them twice,
\* under one name or under two, only if a symbolic link leads to it or two of the roots
\* contain it.
ListIsSound ==
  phase \in {"opening", "waiting", "monitoring"} /\ "single-repo" \notin opts.on =>
    EachIsBelow(Prepared(opts, disk),
                <<PathOf(opts.root)>>
                \o [i \in DOMAIN opts.include_dirs |-> PathOf(opts.include_dirs[i])],
                disk)

\* Pulls that discard what the user changed are confirmed (docs/cli_options.md:
\* these flags "require explicit confirmation").
ForcedIsConfirmed ==
  phase = "monitoring" /\ "force-pull" \in opts.on =>
    {"confirm-alert", "sudo-su"} \cap opts.on # {}
=============================================================================
