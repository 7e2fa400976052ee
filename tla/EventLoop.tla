------------------------------ MODULE EventLoop ------------------------------
(***************************************************************************)
(* The main loop of run_event_loop (src/ui_loop.cpp) around the scan       *)
(* engine of Scanner: reload of the configuration, poll timeout, long      *)
(* pauses, joining and starting scans, rescans for new repositories,       *)
(* hotkeys, sleep, and the way out.  Each stage of one iteration is a      *)
(* step, so that the scan thread may clear scanning_flag, and a signal may *)
(* clear running, between any two of them.                                 *)
(*                                                                         *)
(* This module replaces Scanner's MainThread and Stop; the workers and the *)
(* scan thread are Scanner's.  The order of all_repos is left open         *)
(* wherever the code sorts.                                                *)
(***************************************************************************)
EXTENDS Scanner, SequencesExt

CONSTANTS
  Root,              \* the root directory, which --single-repo monitors
  LoopOptionSets,    \* the options of the loop a configuration may set
  Inputs,            \* what standard input may be
  Broken,            \* the content of a configuration file that does not parse
  Interval,          \* the pause between scans, in turns of the loop
  RescanInterval,    \* the pause between rescans, in turns of the loop
  MaxChanges         \* bound: how often a file or directory changes

(***************************************************************************)
(* The fields of Options only the main thread reads; limits are Booleans.  *)
(***************************************************************************)
LoopOptions ==
  [auto_reload : BOOLEAN, rescan_new : BOOLEAN, keep_first_valid : BOOLEAN,
   sort_updated : BOOLEAN, exit_on_timeout : BOOLEAN, runtime_limit : BOOLEAN,
   kill_on_sleep : BOOLEAN, single_repo : BOOLEAN, hotkeys : BOOLEAN]

ASSUME LoopAssumption ==
  /\ Root \in Repos /\ <<Root>> \in Lists
  /\ LoopOptionSets \subseteq LoopOptions
  /\ Inputs \subseteq {"terminal", "pipe", "closed"}
  /\ Interval \in Nat \ {0} /\ RescanInterval \in Nat \ {0}
  /\ MaxChanges \in Nat
  /\ Broken \notin OptionSets \X LoopOptionSets

Configs == OptionSets \X LoopOptionSets

VARIABLES
  loop_opts,                  \* the other half of opts
  on_disk,                    \* the paths build_repo_list would find now
  config_file, edited,        \* what the file holds, an event of the watcher
  watching,                   \* the process has a FileWatcher
  config_changed,             \* the atomic flag its callback sets
  countdown, rescan_countdown,
  first_cycle, first_validated,
  confirm_quit, confirm_prev_action,
  input_waits,                \* getchar() waits for a key
  changes                     \* how often a file or directory changed

loopVars == <<loop_opts, countdown, rescan_countdown, first_cycle, first_validated,
              confirm_quit, confirm_prev_action, input_waits>>
fileVars == <<on_disk, config_file, edited, watching, changes>>
allVars == <<vars, loopVars, fileVars, config_changed>>

workerVars == <<next_index, unjoined, pc, idx, ri, was_accessible>>

\* How often a list names a path, and the lists that name each path so often.
Times(l, p) == Cardinality({i \in DOMAIN l : l[i] = p})
Orders(times) == {l \in Lists : \A p \in Repos : Times(l, p) = times[p]}

\* prepare_repos: build_repo_list may come upon a directory twice.
Prepared(single) ==
  IF single THEN {<<Root>>} ELSE {l \in Lists : ToSet(l) = on_disk}

\* TermGuard::setup makes a terminal return at once, if hotkeys are on when the
\* loop begins.  Anything else keeps waiting: a terminal that was not set up until
\* a key is pressed, an open pipe until something is written to it.
InputWaits(input, hotkeys) == input = "pipe" \/ (input = "terminal" /\ ~hotkeys)

RescanStart(rescan_new) == IF rescan_new THEN RescanInterval ELSE 0

LoopInit ==
  /\ Init
  /\ loop_opts \in LoopOptionSets
  /\ on_disk \in SUBSET (Repos \ {Root}) \ {{}}
  /\ all_repos \in Prepared(loop_opts.single_repo)
  /\ \E input \in Inputs : input_waits = InputWaits(input, loop_opts.hotkeys)
  /\ config_file = <<opts, loop_opts>>
  /\ edited = FALSE
  /\ watching = loop_opts.auto_reload
  /\ config_changed = FALSE
  /\ countdown = 0
  /\ rescan_countdown = RescanStart(loop_opts.rescan_new)
  /\ first_cycle = TRUE
  /\ first_validated = {}
  /\ confirm_quit = FALSE
  /\ confirm_prev_action = "Idle"
  /\ changes = 0

-----------------------------------------------------------------------------
(***************************************************************************)
(* What happens outside the process, and the two asynchronous writes to    *)
(* its flags: the watcher's callback and the signal handler.               *)
(***************************************************************************)
Change == changes < MaxChanges /\ changes' = changes + 1

\* A change nobody watches is never noticed, and left out.
EditConfig ==
  /\ watching
  /\ Change
  /\ config_file' \in (Configs \cup {Broken}) \ {config_file}
  /\ edited' = TRUE
  /\ UNCHANGED <<vars, loopVars, config_changed, on_disk, watching>>

Notify ==
  /\ edited
  /\ edited' = FALSE
  /\ config_changed' = TRUE
  /\ UNCHANGED <<vars, loopVars, on_disk, config_file, watching, changes>>

\* A directory appears below the root or goes away, and somebody will look.
ChangeDisk ==
  /\ loop_opts.rescan_new \/ watching
  /\ Change
  /\ \E p \in Repos \ {Root} :
       on_disk' = IF p \in on_disk THEN on_disk \ {p} ELSE on_disk \cup {p}
  /\ UNCHANGED <<vars, loopVars, config_changed, config_file, edited, watching>>

\* SIGINT or SIGTERM; the handler is installed before the loop.
Signal ==
  /\ running
  /\ running' = FALSE
  /\ UNCHANGED <<opts, all_repos, main, repo_infos, skip_repos, scanning, action,
                 scan_thread, workerVars, loopVars, fileVars, config_changed>>

-----------------------------------------------------------------------------
(***************************************************************************)
(* One iteration of the loop.                                              *)
(***************************************************************************)
\* Mutation: the loop never looks at `running`.
TestNothing ==
  /\ main = "looping"
  /\ main' = "reload"
  /\ UNCHANGED <<opts, all_repos, scanVars, loopVars, fileVars, config_changed>>

TestRunning ==
  /\ main = "looping"
  /\ main' = IF running THEN "reload" ELSE "leave"
  /\ UNCHANGED <<opts, all_repos, scanVars, loopVars, fileVars, config_changed>>

\* opts = new_opts, and everything known about the repositories is forgotten.
ApplyConfig ==
  /\ opts' = config_file[1]
  /\ loop_opts' = config_file[2]
  /\ all_repos' \in Prepared(loop_opts'.single_repo)
  /\ repo_infos' = [p \in Repos |-> Fresh]
  /\ skip_repos' = {}
  /\ first_validated' = {}
  /\ first_cycle' = TRUE
  /\ rescan_countdown' = RescanStart(loop_opts'.rescan_new)

\* Mutation: a scan in progress does not defer the reload.
ReloadAnytime ==
  /\ main = "reload"
  /\ config_changed' = FALSE
  /\ \/ config_changed /\ loop_opts.auto_reload /\ config_file # Broken /\ ApplyConfig
     \/ /\ ~(config_changed /\ loop_opts.auto_reload) \/ config_file = Broken
        /\ UNCHANGED <<opts, all_repos, repo_infos, skip_repos, loop_opts,
                       first_validated, first_cycle, rescan_countdown>>
  /\ main' = "timeout"
  /\ UNCHANGED <<running, scanning, action, scan_thread, workerVars, fileVars,
                 countdown, confirm_quit, confirm_prev_action, input_waits>>

\* config_changed.exchange(false) comes first in the condition, so the flag is
\* consumed whatever follows.
Reload ==
  /\ main = "reload"
  /\ config_changed' = FALSE
  /\ \/ /\ config_changed /\ loop_opts.auto_reload /\ ~scanning
        /\ config_file # Broken
        /\ ApplyConfig
     \/ /\ ~(config_changed /\ loop_opts.auto_reload /\ ~scanning) \/ config_file = Broken
        /\ UNCHANGED <<opts, all_repos, repo_infos, skip_repos, loop_opts,
                       first_validated, first_cycle, rescan_countdown>>
  /\ main' = "timeout"
  /\ UNCHANGED <<running, scanning, action, scan_thread, workerVars, fileVars,
                 countdown, confirm_quit, confirm_prev_action, input_waits>>

\* "Polling exceeded timeout; terminating worker"
PollTimeout ==
  /\ main = "timeout"
  /\ \/ /\ scanning /\ loop_opts.exit_on_timeout
        /\ running' = FALSE
        /\ main' = "leave"
     \/ /\ main' = "pause"
        /\ UNCHANGED running
  /\ UNCHANGED <<opts, all_repos, repo_infos, skip_repos, scanning, action,
                 scan_thread, workerVars, loopVars, fileVars, config_changed>>

\* "Detected long pause; resuming", and the runtime limit.
LongPause ==
  /\ main = "pause"
  /\ \/ /\ loop_opts.kill_on_sleep
        /\ main' = "leave"
        /\ UNCHANGED <<running, countdown>>
     \/ /\ main' = "join"
        /\ countdown' \in {countdown} \cup (IF loop_opts.kill_on_sleep THEN {} ELSE {0})
        /\ running' \in {running} \cup (IF loop_opts.runtime_limit THEN {FALSE} ELSE {})
  /\ UNCHANGED <<opts, all_repos, repo_infos, skip_repos, scanning, action,
                 scan_thread, workerVars, fileVars, config_changed, loop_opts,
                 rescan_countdown, first_cycle, first_validated, confirm_quit,
                 confirm_prev_action, input_waits>>

\* scan_thread.join() and what follows the first scan and every scan.
Join ==
  /\ scan_thread = "exited"
  /\ scan_thread' = "none"
  /\ first_cycle' = FALSE
  /\ first_validated' = first_validated \cup
       IF first_cycle /\ loop_opts.keep_first_valid
         THEN {p \in ToSet(all_repos) :
                 repo_infos[p].status \notin {"SKIPPED", "ERROR", "NOT_GIT"}}
         ELSE {}
  /\ IF loop_opts.sort_updated
       THEN all_repos' \in Orders([p \in Repos |-> Times(all_repos, p)])
       ELSE UNCHANGED all_repos
  /\ running' = (running /\ ~opts.single_run)

JoinIfDone ==
  /\ main = "join"
  /\ \/ ~scanning /\ Join
     \/ /\ scanning \/ scan_thread = "none"
        /\ UNCHANGED <<all_repos, running, scan_thread, first_cycle, first_validated>>
  /\ main' = "start"
  /\ UNCHANGED <<opts, repo_infos, skip_repos, scanning, action, workerVars, fileVars,
                 config_changed, loop_opts, countdown, rescan_countdown,
                 confirm_quit, confirm_prev_action, input_waits>>

\* Mutation: the paths that were found are not appended.
RescanInVain ==
  /\ UNCHANGED all_repos
  /\ rescan_countdown' =
       IF loop_opts.rescan_new /\ rescan_countdown = 0 THEN RescanInterval
                                                       ELSE rescan_countdown

\* Paths that appeared are appended, each once; none is ever taken off the list.
Rescan ==
  LET found == on_disk \cup IF loop_opts.keep_first_valid THEN first_validated ELSE {}
      new   == found \ ToSet(all_repos)
  IN
  \/ /\ loop_opts.rescan_new /\ rescan_countdown = 0
     /\ all_repos' \in Orders([p \in Repos |->
                                 IF p \in new THEN 1 ELSE Times(all_repos, p)])
     /\ rescan_countdown' = RescanInterval
  \/ /\ ~(loop_opts.rescan_new /\ rescan_countdown = 0)
     /\ UNCHANGED <<all_repos, rescan_countdown>>

StartIfDue ==
  /\ main = "start"
  /\ \/ /\ running /\ countdown = 0 /\ ~scanning
        /\ Rescan
        /\ ClearStaleBusy
        /\ scanning' = TRUE
        /\ scan_thread' = "reset"
        /\ unjoined' = (scan_thread = "finishing")
        /\ countdown' = Interval
     \/ /\ ~running \/ countdown > 0 \/ scanning
        /\ UNCHANGED <<all_repos, rescan_countdown, repo_infos, scanning, scan_thread,
                       unjoined, countdown>>
  /\ main' = "keys"
  /\ UNCHANGED <<opts, skip_repos, running, action, next_index, pc, idx, ri,
                 was_accessible, fileVars, config_changed, loop_opts, first_cycle,
                 first_validated, confirm_quit, confirm_prev_action, input_waits>>

\* current_action = confirm_prev_action, if a question was asked.
DropQuestion ==
  /\ confirm_quit' = FALSE
  /\ action' = IF confirm_quit THEN confirm_prev_action ELSE action

PressQ ==
  \/ /\ ~confirm_quit
     /\ confirm_quit' = TRUE
     /\ confirm_prev_action' = action
     /\ action' = "Press q again to quit"
     /\ UNCHANGED running
  \/ /\ confirm_quit
     /\ running' = FALSE
     /\ UNCHANGED <<confirm_quit, confirm_prev_action, action>>

\* The loop is inside a getchar() that returns only when a key is pressed: hotkeys
\* came on by a reload, or the input is no terminal.  A signal does not end it:
\* std::signal restarts the read.
WaitsForKey == main = "keys" /\ loop_opts.hotkeys /\ input_waits

\* What the loop goes on with after its look at the keyboard.  A thread that was
\* replaced unjoined is joined by the assignment, before this stage is reached.
KeysDone ==
  /\ main = "keys"
  /\ ~unjoined
  /\ main' = "sleep"
  /\ UNCHANGED <<opts, all_repos, repo_infos, skip_repos, scanning, scan_thread,
                 workerVars, fileVars, config_changed, loop_opts, first_cycle,
                 first_validated, input_waits>>

\* Hotkeys are off, or getchar() returns EOF.
NoKey ==
  /\ ~WaitsForKey
  /\ UNCHANGED <<running, action, countdown, rescan_countdown, confirm_quit,
                 confirm_prev_action>>
  /\ KeysDone

\* r, n, p or o, q, or any other key.
Key ==
  /\ loop_opts.hotkeys
  /\ \/ /\ \/ countdown' = 0 /\ UNCHANGED rescan_countdown
           \/ countdown' = 0 /\ rescan_countdown' = 0
           \/ countdown' = Interval /\ UNCHANGED rescan_countdown
        /\ UNCHANGED <<running, action, confirm_quit, confirm_prev_action>>
     \/ /\ PressQ
        /\ UNCHANGED <<countdown, rescan_countdown>>
     \/ /\ DropQuestion
        /\ UNCHANGED <<running, countdown, rescan_countdown, confirm_prev_action>>
  /\ KeysDone

Decrease(n) == IF n > 0 THEN n - 1 ELSE 0

\* Mutation: the countdown to the next scan stands still without rescans.
SleepRescansOnly ==
  /\ main = "sleep"
  /\ countdown' = IF loop_opts.rescan_new THEN Decrease(countdown) ELSE countdown
  /\ rescan_countdown' =
       IF loop_opts.rescan_new THEN Decrease(rescan_countdown) ELSE rescan_countdown
  /\ UNCHANGED <<confirm_quit, action>>
  /\ main' = "looping"
  /\ UNCHANGED <<opts, all_repos, repo_infos, skip_repos, running, scanning,
                 scan_thread, workerVars, fileVars, config_changed, loop_opts,
                 first_cycle, first_validated, confirm_prev_action, input_waits>>

\* sleep_for(refresh), the countdowns, and the end of the question's two seconds.
Sleep ==
  /\ main = "sleep"
  /\ countdown' = Decrease(countdown)
  /\ rescan_countdown' =
       IF loop_opts.rescan_new THEN Decrease(rescan_countdown) ELSE rescan_countdown
  /\ \/ confirm_quit /\ DropQuestion
     \/ UNCHANGED <<confirm_quit, action>>
  /\ main' = "looping"
  /\ UNCHANGED <<opts, all_repos, repo_infos, skip_repos, running, scanning,
                 scan_thread, workerVars, fileVars, config_changed, loop_opts,
                 first_cycle, first_validated, confirm_prev_action, input_waits>>

\* After the loop: running = false, and the last scan is joined.
LeaveMainLoop ==
  /\ main = "leave"
  /\ running' = FALSE
  /\ main' = "final"
  /\ UNCHANGED <<opts, all_repos, repo_infos, skip_repos, scanning, action,
                 scan_thread, workerVars, loopVars, fileVars, config_changed>>

\* Mutation: the last scan is not joined.
FinalDetach ==
  /\ main = "final"
  /\ main' = "exited"
  /\ UNCHANGED <<opts, all_repos, scanVars, loopVars, fileVars, config_changed>>

FinalJoin ==
  /\ main = "final"
  /\ scan_thread \in {"none", "exited"}
  /\ scan_thread' = "none"
  /\ main' = "exited"
  /\ UNCHANGED <<opts, all_repos, repo_infos, skip_repos, running, scanning, action,
                 workerVars, loopVars, fileVars, config_changed>>

-----------------------------------------------------------------------------
ScanSteps ==
  /\ (\E w \in Workers : Worker(w)) \/ ScanThread
  /\ UNCHANGED <<loopVars, fileVars, config_changed>>

LoopSteps ==
  \/ TestRunning \/ Reload \/ PollTimeout \/ LongPause \/ JoinIfDone \/ StartIfDue
  \/ NoKey \/ Sleep \/ LeaveMainLoop \/ FinalJoin

Outside == EditConfig \/ ChangeDisk \/ Signal \/ Key

LoopExited == main = "exited" /\ UNCHANGED allVars

LoopNext == ScanSteps \/ LoopSteps \/ Notify \/ Outside \/ LoopExited

(***************************************************************************)
(* Threads are scheduled; the watcher's thread wakes up every 200 ms.  A   *)
(* worker that asks the file system, the remote or a hook may wait for     *)
(* ever: there is no timeout unless one is set, and no stop reaches it.    *)
(* Nothing that happens outside must.                                      *)
(***************************************************************************)
InCall(w) == pc[w] \in {"validate", "decide", "pull", "hook"}

LoopSpec ==
  /\ LoopInit /\ [][LoopNext]_allVars
  /\ \A w \in Workers :
       WF_allVars(Worker(w) /\ ~InCall(w) /\ UNCHANGED <<loopVars, fileVars, config_changed>>)
  /\ WF_allVars(ScanThread /\ UNCHANGED <<loopVars, fileVars, config_changed>>)
  /\ WF_allVars(LoopSteps)
  /\ WF_allVars(Notify)

-----------------------------------------------------------------------------
\* The type of every variable; Scanner's TypeOK covers its own.
LoopTypeOK ==
  /\ TypeOK
  /\ loop_opts \in LoopOptionSets
  /\ on_disk \subseteq Repos
  /\ config_file \in Configs \cup {Broken}
  /\ {edited, watching, config_changed, first_cycle, confirm_quit, input_waits}
       \subseteq BOOLEAN
  /\ countdown \in 0..Interval
  /\ rescan_countdown \in 0..RescanInterval
  /\ first_validated \subseteq Repos
  /\ changes \in 0..MaxChanges
  /\ confirm_prev_action \in Actions

\* What the workers hold references to, or copies of, does not change under
\* them: neither a reload, nor a rescan, nor a sort runs during a scan.
ListStableDuringScan ==
  [][(scan_thread \in {"reset", "working"}) =>
       UNCHANGED <<opts, all_repos, loop_opts, first_validated>>]_allVars

\* Whichever way the loop ends, no thread is left that refers to its locals.
NobodyAfterExit ==
  main = "exited" =>
    /\ ~running /\ ~scanning /\ ~unjoined /\ scan_thread = "none"
    /\ \A w \in Workers : pc[w] = "off"

\* What the liveness properties assume: no worker stays in a call, nor the main
\* thread in getchar(), for ever.
CallsReturn == \A w \in Workers : []<>~InCall(w)
InputReturns == []<>~WaitsForKey

\* A process that was asked to stop exits, wherever it was and whatever it was
\* doing: the scan ends, threads are joined, and nothing on the way waits for
\* anything else than the calls that were under way.
StopsEventually == CallsReturn /\ InputReturns => (~running ~> main = "exited")

\* Unless someone stops the process, scans follow each other for ever, through
\* pauses, reloads and rescans.  (A key that resets the countdown, pressed
\* again and again, would put them off.)
ScansRecur ==
  CallsReturn => (<>[](running /\ ~loop_opts.hotkeys) => []<>scanning)

\* A path that stays on disk is listed in the end, where rescans are enabled.
NewReposAreListed ==
  CallsReturn =>
    \A p \in Repos \ {Root} :
      <>[](running /\ ~loop_opts.hotkeys /\ loop_opts.rescan_new /\ p \in on_disk)
        => []<>(p \in ToSet(all_repos))

\* "Reload config when the file changes": with a watcher running, a change of
\* the file to something that parses takes effect, unless it changes again.
ConfigApplied ==
  CallsReturn /\ InputReturns =>
    \A c \in Configs :
      config_file = c /\ watching /\ loop_opts.auto_reload
        ~> \/ <<opts, loop_opts>> = c
           \/ config_file # c
           \/ ~running
=============================================================================
