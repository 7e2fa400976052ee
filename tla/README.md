# Formal verification of autogitpull

autogitpull watches every Git repository below a root directory and pulls each
of them again and again.  This directory holds TLA+ models of the parts of it
that are hard to test (a pool of worker threads, a main loop full of
countdowns, a lock file, an asynchronous logger, the pull itself, a process that
restarts its worker, state shared without a lock, a hundred options that may come
from five places), the TLC
configurations that check them on small instances, and proofs, checked by
TLAPS, of what holds for every instance.  `PROJECT.json` maps every definition
to the lines of the program it models (paths below are relative to `src/`).

Contents: [1 The system](#1-the-system) - [2 The models](#2-the-models) -
[3 The runs](#3-the-runs) - [4 Disagreements found](#4-disagreements-found) -
[5 The proofs](#5-the-proofs) - [6 What is not modelled](#6-what-is-not-modelled) -
[7 Plan](#7-plan) - [8 Running it](#8-running-it)

## 1 The system

One process has these threads: the main thread (`run_event_loop`), one scan
thread at a time (`scan_repos`), the scan's pool of workers, the log writer, and
the watcher of the configuration file.  A signal handler clears `running`.  A
monitor may restart the main thread's function when it returns.

| component | code | state | operations | what makes it correct |
|---|---|---|---|---|
| Scan engine | `src/scanner/scan.cpp`, `repo.cpp`, `pull.cpp` | `repo_infos` (under `mtx`), `skip_repos` (a `std::set`, no lock), `next_index` (atomic), `running`, `scanning_flag`, the status line | start a scan, claim an index, validate, decide, pull, run the hook, publish, join | one worker per repository; nothing published as PULLING that nobody pulls; every path handled once per scan; scans end; skipped paths stay skipped |
| Event loop | `src/ui_loop.cpp` | options, list, countdowns, the quit question, first cycle | reload, poll timeout, long pause, join, rescan, start, keys, sleep, leave | nothing a worker refers to changes or dies under it; scans recur; new repositories are found; every exit joins |
| Configuration reload | `src/file_watch.cpp`, `src/ui_loop.cpp:454` | `config_changed`, the file | notify, apply | every change is applied |
| Single-instance lock | `src/lock_utils_posix.cpp`, `src/ui_loop.cpp:299`, `src/cli_commands.cpp:140` | the lock file and its process ID | acquire, write, read, probe, remove stale, release; `--remove-lock`, `--kill-all` | one instance per root; a dead one's lock is taken over; nothing is left behind |
| Git operations | `src/git_utils.cpp` | the repository, its tracking branch, its working tree | `try_pull`, `clone_repo`, queries | a success is fresh; nobody's work is lost; every call returns |
| Logger | `src/logger.cpp` | queue, writer thread, file, rotated files | enqueue, batch, write, rotate, flush, init, shutdown | order, no loss on shutdown, rotation keeps the newest, no lost wakeup |
| Process monitor | `src/process_monitor.cpp` | start times, failure count | start, delay, restart | at most `respawn_max` starts per window; the worker comes back |
| Mutant mode | `src/mutant_mode.cpp` | commit times and timeout, a state file | load, decide, record, save | the next process goes on where the last one stopped |
| Repository list, ignore rules | `src/scanner/list.cpp`, `src/ignore_utils.cpp` | none | build the list | inside the roots, ignored ones never, a path twice only for a reason |
| Resource trackers | `src/resource_utils.cpp`, `time_utils.cpp` | cached samples | sample | limits are compared with recent values |
| Options, parsing, configuration | `src/options*.cpp`, `src/parse_utils.cpp`, `src/config_utils.cpp` | none | parse | the command line wins; an option means the same wherever it stands; values are exact or refused |
| Commands, history | `src/cli_commands.cpp`, `src/history_utils.cpp` | a history file | one-shot commands, record a start | the right command; nothing else is touched |
| Daemon, services, status socket | `src/*_daemon.cpp`, `src/windows_service.cpp` | unit files, a socket | create, start, stop | - |
| Terminal interface | `src/tui.cpp`, `src/help_text.cpp` | none | draw | - |

How they interact:

* The main thread **calls** `scan_repos` on a thread of its own, and passes
  references to its locals: the list, `repo_infos`, `skip_repos`, the options.
  They **share** `running`, `scanning_flag` and the status line, too.
* The workers **share** everything above with each other and with the scan thread.
* The watcher's callback **sets** `config_changed`; the signal handler and the
  hotkeys **clear** `running`.
* Runs of the program on one root **share** the lock file, and with them the
  commands that remove it.
* Every thread **enqueues** to the logger; `main` initialises it and shuts it down.
* The monitor **calls** `run_event_loop` again after it returns or throws.

What is hard: the unlocked set; checks and actions in different critical
sections; two looks at one flag in one iteration of the loop; four calls on a
file name that are not atomic; a batch that is neither on the queue nor in the
file; a working tree that is checked once and reset later.  The list of hazards
in `PROJECT.json` gives each at its line, with the properties that watch it.

## 2 The models

| module | models | kind |
|---|---|---|
| `Scanner` | the scan engine: pool, `process_repo`, `execute_pull`, and the three things the main thread does to a scan | state machine |
| `Rounds` | what the scan engine promises, whatever its threads are | abstract specification |
| `ScannerRounds` | the refinement mapping from `Scanner` to `Rounds` | refinement |
| `EventLoop` | the main loop, around `Scanner`'s workers and scan thread (it EXTENDS `Scanner` and replaces its main thread) | composition |
| `LockFile` | any number of runs on one root, and the commands | state machine |
| `Logger` | producers, writer thread, init and shutdown, flush, rotation | state machine |
| `Log` | what the logger promises: a queue that is kept in order while it is open | abstract specification |
| `LoggerLog` | the refinement mapping from `Logger` to `Log` | refinement |
| `TryPull` | one repository, its user, its server and `try_pull` | state machine |
| `Args` | the words of a command line | operators |
| `Numbers` | numerals with units, with their widths | operators |
| `ConfigFile` | from a YAML or JSON tree to option values | operators |
| `Settings` | `parse_options`: every option and the rule it follows | operators |
| `RepoTree` | the directory walk and the ignore patterns | operators |
| `Startup` | `main`, the first list, `--wait-empty` and reloads, over `Settings` and `RepoTree`, while the user edits files | state machine, composition |
| `ProcessMonitor` | `run_with_monitor` | state machine |
| `MutantMode` | the mutant state, its file and the threads that share them | state machine |
| `Service` | a process with both: `main`, the monitor, the worker's threads, death and the next process | composition |
| `ScannerProofs`, `ScannerRoundsProofs` | theorems about `Scanner`, and that it implements `Rounds` | proofs |
| `EventLoopProofs`, `LockFileProofs`, `LoggerProofs`, `TryPullProofs`, `ServiceProofs`, `StartupProofs` | theorems about the module of that name | proofs |
| `MCScanner`, `MCEventLoop`, `MCLockFile`, `MCLogger`, `MCStartup`, `MCService` | instances for TLC (`TryPull` has numbers only and needs none) | - |

Conventions.  A critical section is one step.  What Git, the file system or the
remote answers is a choice.  Definitions that model code keep its names
(`next_index`, `scanning`, `ClearStaleBusy` for "clearing stale busy state").
A definition that follows the word "Mutation" in its comment is a wrong version
of the one below it; it is used by nothing, and documents which slip in the code
the properties would notice.

### Scanner

A worker's stage `pc[w]` names where it is between two critical sections:
`loop` (the test of `running` at the head of the `while`), `fetch` (the atomic
increment of `next_index`), `skip_check` (the unlocked lookup),
`exclude`, `enter` (the unlocked check of `running`), `look` (the busy check under
the lock), `snapshot`,
`validate`, `decide`, `start_pull` (publishes PULLING), `pull`, `insert` and
`insert_pull` (inside `skip_repos.insert`), `hook`, `publish`, `after` (the
memory limit).  `ri[w]` is its local `RepoInfo`, of which only the status and
the flag `pulled` matter to control.

* `skip_repos` is a `std::set` without a lock.  A lookup that overlaps an insert
  may miss an element, and of two overlapping inserts one may be lost:
  `SkipLookup` and `Insert` have these outcomes.  That a torn tree may also end
  the process is not modelled.
* An exception that `process_repo` lets through ends the worker and clears
  `running` (`WorkerException`), at any stage that calls out.
* `unjoined`: the main thread reads `scanning_flag` before it joins and again
  before it starts a scan.  When the flag is cleared in between, the assignment
  to the `std::jthread` joins the previous thread after the new one was started.
* A stop reaches a worker only where it looks: one that has passed the test still
  takes an index, and one that has passed `enter` still works on its path.
* The pauses after RATE_LIMIT and TIMEOUT only take time and are left out.

### Rounds

A round hands every task out once, to one taker, and is over when everything came
back and nothing is left or somebody asked to stop.  A taker asks before it is handed a
task, and nobody asks after a stop: so those who had asked by then (`asking`) are handed
one task more at most, and nobody else is.  `ScannerRounds` maps the
indices of the list to tasks, those from `next_index` on to the ones left, and a
worker's claim to a taken task.  The mapping is where the atomic counter, the pool,
the exception handler and the join have to work together.  `SessionSpec` adds that the
tasks may be replaced while no round is open: that is what `EventLoop` implements.

### EventLoop

The variable `main` holds the stage of one iteration: `looping` (test of
`running`), `reload`, `timeout`, `pause`, `join`, `start`, `keys`, `sleep`; then
`leave`, `final`, `exited`.  Between any two of them workers, scan thread,
watcher and signals take their steps.  The configuration file holds one of the
option sets or something that does not parse (`Broken`).  Where the code sorts
the list, every order of it is possible (`Orders`).  What `prepare_repos` returns may
name a path twice (`Prepared`), and sorting keeps that; a rescan adds each new path once.

`getchar()` returns at once only from a terminal that was prepared, which happens only
when hotkeys are on at the start, or at the end of the input.  Otherwise it blocks the
loop until a key is pressed (`input_waits`, `WaitsForKey`): `Key` is a step of the world
outside, `NoKey` one of the loop.

### LockFile

`creator` is the run whose `open(O_CREAT|O_EXCL)` made the file that has the name
now, `pid` the process ID in it (an empty file parses as 0).  Creating and
writing are two steps, and the write goes to the file that was created, which may
no longer have the name.  Any `open` and the write may fail (`Fail`, fault `io_error`);
the code does not look at the result of the write, so the run goes on with an empty
file, and takes every failure to create for a lock that is there.  `failed` remembers
that this happened.  `taken` remembers whether a live owner's file was ever
removed by somebody else: the guarantees that survive crashes are those of
`~taken`.

### Logger

`batch` is what the writer took off the queue and has not written.  Sizes are
counted in messages.  `stop_log_thread` is `Call` and `Join`; what follows it in
`init_logger` is `Open`, in `shutdown_logger` `Close` and `Discard`.  `due`
remembers what was pending when a call began.  The messages of `Quiet` have a level that
may be too low: `muted` says that it is now, which `set_log_level` changes at any time,
and is asked when an entry is written, not when it is enqueued.

`Log` is one queue: entries are submitted at its end, and the oldest is kept, or lost
while the log is not keeping.  `LoggerLog` maps the batch and then the queue to what is
pending, and the open file to keeping.  An entry may be lost while the log is keeping only
if its level is too low at that moment.  So taking a batch must not be seen, a line that is
written or passed over is the oldest of all, and `shutdown_logger` may clear the queue only
because it closed the file first.

### TryPull

A commit is a number and `history` gives the commits it contains.  Every call of
libgit2 is a step of its own, and between two of them the user edits or commits
and others push, or replace the branch.  A target ref resolves to any commit the
repository has.

### Args, Numbers, ConfigFile, Settings

A text is a sequence of atoms (`<<"5", "h">>` is "5h"), so that what the parsers
look at, a dash, a numeral, a unit, a comma, is there and spelling is not.  The
code reads about a hundred options with a dozen rules, each written out once per
option; `Settings` writes each rule once and names the set of options that follow
it.  The rules: switches (on the command line, or true in the configuration),
texts and numbers with `Fallback` (the command line's value, else the
configuration's), layered numbers (read from both, the later one wins), the pool
size of three options, the name a control or an installation is about, the
service and its socket, the root.  `Printed` is what the loaders print for a number whose
text is another (`to_string_value`: YAML's 010 is printed as 8), and `BaseZero` what
`std::stoull` with base 0 reads an octal numeral as; both are constants.  `parse_options` only computes, and returns all
settings or `Fail`, so the order in which it finds errors does not show.

`load_config_and_auto` has its own parser, which knows two options only and thus
takes other options' values for paths (`RootHint`); the model keeps that, by running
`ArgParser` three times with different tables, as the code does.

Integers have a width: `LongBits` for `long long` and `size_t`, `IntMax` and
`UIntMax` for what values are narrowed to.  Products wrap.

### RepoTree

`disk` maps every path to a directory, a repository, a file, or a symbolic link with
the path it leads to in the end.  The list holds pairs
`[name, real]`, the spelling the code uses and the place it leads to.  A root may be
relative, or a link, or lie behind one: the iterator goes where it leads (`Real`) and
names what it meets after the root as it is spelt (`Named`), while a link inside it is
listed by its canonical path (`Shown`), so that one directory may come under two names.
`Entries` is what the iterator meets, `Listed` what `build_repo_list` keeps of it.  What a wildcard pattern matches is a constant.

### Startup

`Start` is `main` up to the command it picks or the monitoring run, `Open` and
`Retry` are `run_event_loop` up to its first list, `Reload` is the body of the
loop's first condition.  With mutant mode, a state file of an earlier run may be there
(`MutantStates`), whose settings replace those of the options.  `EditFiles` and `EditDisk` are the user.  `EventLoop` has
the same reload with the threads around it and without the texts.

### ProcessMonitor, MutantMode, Service

The monitor's times are ages that `Tick` advances; ages beyond the window are one.
A worker is a step that ends with 0 or 1; an exception counts as 1.

The threads of a scan share the mutant settings, the commit times and the state file
without a lock.  Saving is two steps: the file is emptied when it is opened (`Open`), and
filled, in parts, until it is closed (`Written`).  A save that fails, that is cut off by
the death of the process or that overlaps another leaves a file that is `Torn`: any of the
entries, and numbers that were cut, or put together from two, so that they are read as
ones nobody wrote (`Cut`, `Fragments`).  `whole` remembers whether the latest save is free
of all that, and `last` what the process that died knew.  A timeout is changed from the
value there is, or from the one the decision was made on (`Adjust`); of two inserts at
once one may be lost (`Record`).  In `Service` a process may die at any step, within a
save too, and another may be started.

## 3 The runs

| run | question | instance, and why it is enough |
|---|---|---|
| `Scanner_pool` | Is the pool right under every interleaving? `OneWorkerPerRepo`, `PullingIsOwned`, `ScanCoversList`, `ScanBoundaries`, `ImplementsRounds`, `PulledIsKept` | Two workers and a list of three, so that the list is longer than the pool, and every race is one of two workers. The third path is excluded, which keeps the run at 2.25 million states. Scan follows scan without a bound. |
| `Scanner_options` | Does every option keep its word, and is there progress? `SkippedAreNotPulled`, `EveryRepoIsRevisited` | Every option the scan reads, one or two at a time, with one worker; and two workers with all outcomes of a pull. |
| `EventLoop_loop` | Is the loop right around a scan? `NobodyAfterExit`, `ListStableDuringScan`, `StopsEventually`, `ScansRecur`, `NewReposAreListed` | A root and two paths, one worker, dry runs (few outcomes in a scan, all of them in the loop), three sets of loop options that together set every one, one change of the file or of the directory, countdowns of one turn: long enough for each to be zero and not zero at every stage. The input is a terminal, prepared or not, and one of the lists names a path twice. 743,000 states. |
| `LockFile_faults` | What does the lock guarantee with crashes and commands? `ExclusiveUntilTaken`, `LockNamesOwner`, `NoLockLeftBehind`, `OnlyStaleIsRemoved`, `StaleLockRecovered` | Three runs: one that dies or leaves, two that race for what it left. All faults: crashes, calls that fail, both commands. |
| `Logger_restart` | What reaches the file? `JoinDrains`, `ThreadOrder`, `RotationKeepsLatest`, `QueueIsEmptied`, `CallsReturn`, `ImplementsLog` | Two threads with two messages each, batches of two (so a queue may be longer than a batch), files of one message and one or two rotated files (so all of them fill up and the oldest is dropped), three calls of init or shutdown. One message is of a level that may be too low. |
| `TryPull_races` | `SuccessIsFresh`, `ExaminedEditsAreKept` | Three commits after the first, two edits, two calls: enough for a diverged branch, an edit before and one after the check, and a fetch left over from an earlier call. |
| `Startup_options` | Do options mean what they say, and lists contain what they should? `CommandLineWins`, `ConfigMeansTheSame`, `ValuesAreExact`, `ListIsSound`, `ReloadKeepsCommandLine` | Some 3600 starts. Every option is tried in a file with a dozen values (Boolean, empty, numeral, with units that fit and that overflow, negative, with a decimal), and in both places with values that differ; the forms of a configuration (nested, per repository, with a null, refused) and of a command line (short, joined, swallowed, positional, unknown) are listed; the trees have nested repositories, links inward, outward and to nothing, and one has roots that are links or lie behind one, which some starts also name relative to the current directory. Numerals that YAML or base 0 read otherwise (`010`) stand for all such. Two edits: one that breaks and one that repairs, or a root that moves and a file. Wide integers have 30 bits, so that a numeral times a year overflows, `int` 25. |
| `Service_respawn` | Does the process keep itself running, and its memory true? `RespawnLimit`, `SessionIsRecovered`, `WorkerComesBack` | A limit of two in a window of two, so that the third start decides and two of the window's edges are met; one failure with its doubled pause; two threads, two repositories (one whose path is not read back), two commit times, a timeout of eleven, which two threads may shorten at once, and one number that a cut one is read as: a known commit time, so that both kinds of mistake, a time forgotten and one nobody recorded, can happen. |
| `LockFile_single`, `EventLoop_config`, `TryPull_diverged`, `Startup_confirm` | Is what the documentation says true? It is not: see section 4 | the smallest instance that shows it |

The type invariant of each module is checked by the run that explores most of it
(those of `EventLoop` and `Service` are stated and left to the other properties).
Deadlock is checked
except in `Logger` and `TryPull`, where the bounds on messages, calls, commits
and edits make the system really stop.

**Bounds.**  `MaxThreads`, the lists and the option sets (Scanner);
`Interval`, `RescanInterval` and `MaxChanges` (EventLoop); `MaxMessages` and
`MaxCalls` (Logger); `MaxCommits`, `MaxEdits` and `MaxCalls` (TryPull);
`MaxEdits` (Startup); `MaxFails` and `MaxTimeout` (Service).
`next_index` needs none: a scan increments it at most once per path and worker.

**Fairness.**  Each worker, the scan thread, the main loop, the log writer and
each run of the program is weakly fair: they are threads or processes the
system schedules, and none of their steps waits for something that comes and
goes.  In `Scanner` and `Logger` this includes that outside calls return: a pull, the
hook, the writes of the log.  In `EventLoop` it does not: no timeout of a pull is set by
default, and no stop reaches one, so a worker may stay in `validate`, `decide`, `pull`
or `hook` for ever (`InCall`), and so may the main thread in `getchar()`.  The liveness
properties of the loop name these two conditions where they need them (`CallsReturn`,
`InputReturns`): `StopsEventually` says that a stop waits for nothing else.  Nothing
external is fair: nobody has to send a signal, press a key, edit a file, crash, log or
push.  `ScansRecur` and `NewReposAreListed` exclude the hotkeys, since a key that resets
the countdown, pressed for ever, puts scans off for ever.  `stop_log_thread`
waits until the queue is empty; that this happens is a consequence of the bound
on messages: producers that never pause would keep the writer, and so the
shutdown, busy for ever.  In `Service` the clock goes on and the monitor's thread is
scheduled: that the worker ends is not assumed.  `TryPull` and `Startup` state no
fairness, since no liveness is claimed of them.

## 4 Disagreements found

Each of these is a run that TLC must find violated, and a finding with quotes in
`PROJECT.json`.

* `LockFile_single` - two instances own the lock without any crash: a run whose
  `read_lock_pid` fails because the owner has just released takes the lock for
  stale, and removes the file another run has created meanwhile.
* `EventLoop_config` - a change of the configuration noticed during a scan is
  lost: the flag is consumed before `scanning` is looked at.
* `TryPull_diverged` - a "fast-forward" pull resets hard to the remote's commit
  and discards local commits when the branches have diverged.
* `Startup_confirm` - "these flags ... require explicit confirmation": only a start
  asks for it; a reload of a configuration that gained `force-pull` does not.

Others were seen while modelling, follow from a few lines of the code without any
interleaving, and have no run:

* Scans.  `--post-pull-hook` ("after successful pull", `docs/cli_options.md:35`) also
  runs after a pull that failed, once an earlier one of the session succeeded:
  `pull.cpp:123` looks at `ri.pulled`, which is inherited.  `--dont-skip-timeouts`
  has no effect: `execute_pull` does not name its `skip_timeout` parameter.  With
  `--single-run` a second scan may start, when the first ends between the two looks
  at `scanning_flag`.  A rescan adds no path twice; the first list and a reload may name one
  twice, and then two workers may meet on it.
* Logger.  `flush_logger` ("ensuring that earlier log calls are visible",
  `include/logger.hpp:64`) returns while the writer still holds a batch.
* Loop.  "Terminating worker due to poll timeout" only clears `running`: the final join
  waits for a pull that hangs.  Hotkeys that a reload turns on find a terminal that was not
  set up, and every turn of the loop waits for a key; a signal then shows only after one.
* Lock.  A process killed between creating the lock and writing its ID, or whose write
  fails, leaves an empty file, which parses as process 0, which `kill(0, 0)` finds alive, so that
  every later run is refused.  A reload that changes the root keeps the lock of the
  old one.
* Precedence.  `--verbose` on the command line is overridden by `log-level` in the
  configuration, and a positional root by a configured `root`, against readme.md's
  "CLI flags override".  `ignore` and `include-dir` in a configuration are accepted and
  ignored; the names for `install-*` come from the command line only.
* Switches with a value.  `rescan-new: true` and `wait-empty: true` are refused,
  `persist: true` and `start-daemon: true` use the name "true", and a number for any of
  these is not a Boolean, so the switch stays off.  `background` and `reattach` count as
  on if the key is there, even if it says false.
* Values.  `--respawn-limit 0` is refused, where readme.md:248 says 0 is no limit;
  `--respawn-delay` knows ms, s and m only, where `docs/cli_options.md:212` lists h, d,
  w, M and Y.  `parse_uint`, `parse_size_t` and `parse_ull` accept "-5", which wraps;
  sizes and durations may overflow.  A number in a
  configuration is printed anew: YAML's `010` means 8 and `0x10` 16, and 1e3 becomes 1000,
  which is not what these say on the command line; `--cpu-cores` alone takes octal and
  hexadecimal there.  `--theme` is read, but is not among the known
  options and always refused.  `--add-ignore`, `--remove-ignore`, `--clear-ignores`,
  `--find-ignores`, `--rerun-last` and `--save-args` are parsed and have no effect.
* List.  With a root that is a symbolic link, the directories below it are listed by
  the name of the link, and those that a link inside leads to by their canonical path: one
  repository may be listed twice, and `ignore` patterns with a slash see either name.
* Services.  An installed unit has no root, and a start without one is refused.
* Mutant mode.  Adaptive timeouts reach the pulls only after a respawn, since
  `run_event_loop` takes its options by value; a reload drops what mutant mode set;
  a pull that failed is not tried again before the next commit, since the commit was
  recorded before it; the file's interval overrides the command line's; a path with a
  space is not read back.  The state file is written in place: a process that dies within a
  save leaves one that is torn, and a number that was cut is read as a commit time nobody
  saw.  With three threads or more the timeout may shrink to zero, which means none, until
  the next start, which takes no such timeout from the file.
* Monitor.  A failing worker whose pauses outgrow the window before it reaches the
  limit is restarted for ever.  A signal ends the worker, not the process, and one that arrives during the
  pause is lost, with `g_running_ptr` still pointing into the worker that is gone.

## 5 The proofs

TLAPS checks these for every value of the constants: any set of paths, any pool
size, any lists and option sets; any number of runs on one root; any number of
logging threads, messages, batch sizes and limits; any number of commits, edits and
calls; any window, limit and number of processes; any command line, configuration
files and edits, and integers of any width.  The assumptions are the named
`ASSUME`s of the modules (`ScannerAssumption`, `LoopAssumption`, `LockAssumption`,
`LoggerAssumption`, `TryPullAssumption`, `MonitorAssumption`, `MutantAssumption`,
`NumbersAssumption`, `NumeralsAssumption`, `CoresAssumption`, `StartsAssumption`),
which TLC evaluates in the runs (and `QuietAssumption`).  `StartsAssumption` says what a process can be started with and
find: words in a row, each of one of the three forms, and finitely many paths, each a
directory, a repository, a file or a link.  The theorems that need a list without a path twice state
that themselves (`Unique`), inside the loop too, where a reload may bring one that is not.  The strengthened
invariants were checked by TLC first.

**`ScannerProofs`.**  `OneWorkerPerRepo` is not inductive: it says nothing of the
counter.  `ClaimInv` adds that every claimed index is below `next_index` and
within the list (`ClaimsInRange`), that claimed indices differ
(`ClaimsDistinct`), that no worker is outside a scan (`WorkersInsideScan`) and that
the flag follows the thread (`FlagFollowsThread`), without which the main thread
could start a scan over a running one.  `FetchClaims` is the step that matters: it
hands out the counter's old value, above every claimed index.  From it follow
`TypeCorrect`, `NoWorkerOutsideScan` and, if no list names a path twice,
`ExclusiveRepos`.

The second part of the module is about results.  `OthersUntouched` (a worker's step leaves the locals of
the others alone) and `WhoPublishes` (only `Exclude`, `StartPull` and `Publish`
write `repo_infos`) reduce every invariant to the worker that moves.

* `ResultInv`: who published PULLING is at a stage that ends in `publish` with
  another status, or an exception has stopped the run.  Gives `PullingOwned` and
  `IdleBetween`.
* `PulledIsKnown`: between `snapshot` and `publish` the local copy knows `pulled`;
  nobody else can publish on that path meanwhile (`ClaimsApart`).  Gives
  `PulledKept`: this is where the claim of an index, not the busy check, protects
  the read at `repo.cpp:183`.
* `ExcludedApart`: nobody is on a path that is excluded or NOT_GIT.  Gives
  `NotGitKept`.
* `ScanBoundariesHold` puts two of these together: between two scans no worker is left
  and the status line is Idle, for every pool, list and option set.
* `CoverInv`: an index below the counter is handled or in somebody's hands, and a
  worker leaves a run that goes on only at the end of the list.  Gives
  `ScanCovers`, for any outcome of the races on `skip_repos`.
* `SkipInv`, with `PoolInv` (no worker beyond the pool's size): what a pool of one
  found not to be skipped is not skipped until it has pulled, since nobody else
  inserts.  Gives `SkippedNotPulled`.

**`ScannerRoundsProofs`.**  `ScannerImplementsRounds` is the refinement, step by step.
The test of `running` is `Ask`, the increment of `next_index` that follows is `Take`, or
`Leave` at the end of the list.  Leaving an index in any way, the exception included, is
`Return`, the first critical section of a scan is `Begin`, the join of the pool is
`End`, and whatever clears `running` is `Stop`; every other step stutters.  `ClaimInv`
says that what is taken was left, and `AccountInv` (the part of `CoverInv` about the
workers) that `End` finds nothing left, or somebody asked to stop.

**`EventLoopProofs`.**  The loop replaces `Scanner`'s main thread, so the lemmas about
workers and scan thread are used as they are and only the stages of the loop are new.
`LoopInv` is `ClaimInv` with `LeaveInv` (the second look at `scanning_flag` may leave a
thread to be joined, but then the main thread is at its keys, so a loop that is left
finds none).  Gives `NobodyLeft` and `ListStable`: no stage that replaces options or list
is reached while a scan is at work.  `LoopExclusive` (whenever the list names no path
twice), `LoopPullingOwned` and `LoopSkippedNotPulled` are `Scanner`'s properties again, with reloads, rescans and keys around
the scans.

Three more of them do not hold inside the loop as `Scanner` states them, because a
reload forgets everything at any time between two scans, after a scan ended and before
it is joined included.  They are stated for what the loop does keep:

* `LoopScansCover`: the *step* that ends a scan finds every path of the list handled
  (`ScanCoversList`, a statement about the time after it, is false once a reload has made
  every path PENDING again).  `AccountInv`, `CoverInv` without that part, is kept by every
  step of the loop (`AsideAccount`).
* `LoopOnlyReloadForgets`: while the list names no path twice, `pulled` and NOT_GIT survive
  every step but a reload of a changed configuration with `scanning_flag` clear.
* `LoopImplementsSession`: the refinement of `Rounds` for the composed system.  The list
  changes between rounds here, so the abstract specification is `SessionSpec`, the rounds
  with a `Revise` of the tasks while none is open.  The stages of the loop map to `Stop`
  or a stutter during a round and to `Revise` between rounds; the steps of the scan are
  those of `ScannerImplementsRounds`.

No run lists these three; they rest on invariants and lemmas that the runs of `Scanner` and
`EventLoop` check.

**`LockFileProofs`.**  `OwnerInv`: until the file of a live owner is removed by
another, an owner is the creator of the file that is there, and the ID in it is
its own, or none: before it is written, when its creator died before that, or when the
system failed a call.  Two owners would be the creator of one file.
Gives `Exclusive` and `NamesOwner`, for any number of runs, with crashes and
commands.  `FileInv` holds whatever was taken: the creator of the file that is there
owns it or died (`LeftInv`), and an ID that was read names a run that had started, so
that what was found dead stays dead (`ReadInv`).  Gives `NothingLeftBehind` and
`RemovesOnlyStale`.

**`LoggerProofs`.**  A message moves from the queue to the batch to the file.  The types
(`LoggerTypeCorrect`) are proved only; no run lists them.

* `DrainInv`: while a call waits for the writer, what was pending when it began is in
  the file, on the queue or in the batch, and the writer only exits when the last two
  are empty (`StageInv`).  Gives `StopDrains`.
* `WakeInv`: the writer waits only with an empty queue and `running` set.  This is
  `NoLostWakeup`, the part of `QueueIsEmptied` that needs no fairness.
* `OrderInv`: of two messages of one thread, what is further along was sent earlier,
  and nothing is on its way that was not sent.  Gives `MessagesInOrder`, for every batch
  size, restart and discarded queue.
* `LoggerImplementsLog` is the refinement of `Log`, step by step: `Enqueue` is `Submit`,
  `WriteEntry` is `Keep`, or `Lose` when no file is open or the level is too low, `Discard` is `LoseAll`, `Open`, `Close` and `SetLogLevel` are
  `Switch`, and all else stutters.  `TakeBatch` does because a batch is only taken when
  the last is written (`StageInv`, `CutAndJoined`), and `Discard` needs `ClosedInv`.  It
  says of all threads together what `MessagesInOrder` says of each.
* `RotationInv` is stronger than `RotationKeepsLatest`: the stretches that the files hold
  end where the first unused file begins.  A rename that finds no file leaves the next one
  as it is, and that is only right because then the next one is not there either
  (`ShiftedIsPrevious`).  Gives `RotationLosesOldest`, for any limits, zero included.

**`TryPullProofs`.**  `FreshInv`: from the fetch on, the tracking branch is a value
the server had during the call.  `ExaminedInv`: an edit that was there when the
tree was found clean is not there any more, so a reset discards only what was
edited since.  Gives `SuccessFresh` and `ExaminedKept`.

**`ServiceProofs`.**

* `MonitorInv`: the starts of the window (`launches`, which the property counts) are the
  last of those the monitor remembers (`starts`), and those before them are too old;
  both are sorted by age.  So what `Pruned` removes at the next start is exactly what
  left the window, and the length that is compared with the limit is the right one.
  Gives `RespawnLimited`.
* `MutantInv`: when settings exist and threads are idle (`ModeInv`), and that a save which
  was whole left in the file what the process knows, from its end to the next change,
  which is followed by a save of its own, and over the death of the process, when it
  becomes what that one knew (`SavedInv`).  Gives `SessionRecovered`, for any number of
  threads, repositories and processes, and any numbers that cut ones may be read as.
* `ServiceTypeCorrect`: the pause doubles with every failure and so stays below the last
  one (`PauseBound`), what is pruned of ages are ages (`PrunedAges`), and a worker that
  ends leaves no visit behind.

**`StartupProofs`.**  Five arguments: about precedence, numbers, the list, the two places
of an option, and types.

* Two parsers with their configurations are `Alike` if every way the code looks an option
  up has the same result in both.  Every group of settings is then the same (one lemma for
  switches, numbers, texts and controls, root, service and history), and so is what
  `parse_options` returns (`AlikeSettled`).  Two configurations that differ only in keys
  to which the command line gives a value are alike (`AgreeAlike`): `CommandLineDecides`,
  for every command line and every content of the files.  The parser enters with one
  fact, `ParserValues`: an option that has a value is a flag.
* `OptionsInv`: outside mutant mode, the options are what `parse_options` made of the
  words `main` was given and of files the user had at some time, since a reload adopts
  all of the new options or none.  Gives `ReloadKeeps`.
* `ValuesExact`: what is read is exact, rule by rule (`ReadsExactly`).  A value that
  long long can hold does not wrap (`NoWrap`), so neither does its product with a
  unit of time (`ScaledExactly`); a shift drops no bit of it (`ShiftExactly`, which needs
  that powers of two are monotone and multiply: a power of two counts the subsets of a
  set).  The width of long long is any number of bits above one, that of int any from
  the 16 bits C++ guarantees, and `NumeralsAssumption` says that a numeral is no unit,
  sign or comma.  A numeral that `--cpu-cores` reads as octal is exempt.
* `ListSound`: what an order of the entries found below the places the roots lead to names,
  for any tree and roots, links and relative ones included.  An entry that is a link stands
  for what it leads to, which `Listed` keeps below its root (`FoundFacts`); two places of the list that lead to one directory are two pairs of a root
  and an entry, hence two roots, or two entries of which one is a link
  (`ListedIsBelow`).  This needs finitely many pairs to be put in an order
  (`FoundInOrder`), hence finitely many roots, hence that the values of `include-dir`
  are numbered from 1 on: `ListInv` keeps that of the options in force, and
  `AllOptionsInARow` derives it from the parser, through what `FlattenSeq` returns for
  rows of any length (`FlattenIsSequence`).
* `ConfigurationMeansTheSame`: the word `--k=v` after a command line leaves what its words
  say and which of them are read as they were (`OneMoreRead`, by induction along the
  words; `OneMoreSays`), so its parser knows that `k` is `v` and else what it knew
  (`KnowsOneMore`).  Without the key in the configuration everything is then looked up with the
  same result, in another place (`MovedAlike`), the pool takes its size from another layer
  with the same value (`MovedPool`), and the reasons to refuse are the same
  (`MovedRefused`).  The exemptions of the property are what this needs: a list would
  have one value more, of two options of the pool one would overtake the other, and a text that
  the loader prints anew, or one it may have printed, is another on the command line
  (`Reprinted`, for any `Printed`).
* `StartupTypeCorrect`: whichever layer a number comes from, it was accepted or is a
  default, so it is within the bounds its conversion checked (`NumbersInRange`); the pool
  takes the last layer that is there, and each of them is positive (`ConcurrencyInRange`);
  mutant mode raises the interval to 5 and leaves the others (`MutantInRange`).

Only model-checked:

* Liveness (`StopsEventually`, `EveryRepoIsRevisited`, `StaleLockRecovered`,
  `QueueIsEmptied`, `CallsReturn`, `ScansRecur`, `NewReposAreListed`, `WorkerComesBack`):
  neither fairness nor ENABLED is within reach of the prover.
* What the violation runs show, which is that something does not hold.

The library's rules for induction take a predicate as a parameter, which no installed
prover can be given.  Where induction was needed, it is done on a set of numbers
instead: the least number outside it, which `WFMin` provides, would have a predecessor in
it (`Induction`, `MinFacts`): what `FlattenSeq` returns (`FlattenEquation`) and which
words are read (`ReadEquation`) is proved that way for rows of any length.  Powers of two need none: they count subsets
(`PowerMonotone`).

Some definitions were restated so that they could be reasoned about, with the same
meaning: `Recent` (the starts of the window are the tail of an ordered sequence, where a
selection from it stood before), `RotationKeepsLatest` (through the positions where the
log is cut, `Stretches`, where the files were concatenated), the last value of an option
(`options` of a parser) and the layers of `Settings` (the largest index of those that say
something, where folds and selections stood), all the values of an option
(`get_all_options`, by their positions) and the list (`build_repo_list`, what is found put
in one order, where the lists of the roots were concatenated: the order is left open
either way).

## 6 What is not modelled

* **Undefined behaviour beyond its outcomes.**  The races on `skip_repos` are
  given the outcomes of a linked structure that survives; a crash is not among
  them.  `flush_logger` flushes the stream while the writer may use it.
* **The fallback of `thread_compat.hpp`** without `std::jthread`: assigning to an
  unjoined thread ends the process.
* **libgit2**, whose calls succeed or fail; its global timeout, which each
  worker sets for all; credentials, progress and throttling; cloning.
* **Reuse of process IDs** by other programs, and Windows' lock and service.
* **The status socket** in the loop, and everything that is drawn.
* **Failures of log renames and compression**, syslog.  `flush_logger`
  never returns when something was logged and the logger was never initialised:
  no fairness is claimed for `FlushReturns`.
* **Text.**  How YAML and JSON become trees, which text `to_string_value` prints for a number
  (`Printed` is any), what `fnmatch` makes of a pattern, the lines of the history.
* **Cached samples** of `resource_utils.cpp`: the memory limit is a choice of
  `AfterRepo`, which includes a late one.
* **A refused start of a persistent process**: a worker that ends with 1 stands for
  every reason.
* Services, daemonising, the terminal interface and help text: system calls and
  formatting, without state that anything else reads.  `read_ignore_file` and
  `write_ignore_file` are called by tests only.

## 7 Plan

Done: `Scanner` and what it implements (`Rounds`), `EventLoop` on top of it,
`LockFile`, `Logger`, `TryPull`, the parsers with `Settings` and `Startup`,
`RepoTree`, `ProcessMonitor` and `MutantMode` in `Service`; the proofs of the safety
properties of the runs, all of them, and of the three refinements (`ScannerImplementsRounds`,
`LoopImplementsSession`, `LoggerImplementsLog`).

Left, in order of importance:

1. `Service` around `LockFile`: the refused runs a monitor restarts.
2. The status socket: accept, broadcast and drop of clients.

## 8 Running it

    tlc -workers 2 -config Scanner_pool.cfg MCScanner.tla
    tlapm ScannerProofs.tla

The module of each configuration is given in `PROJECT.json` under `runs`.
