--------------------------- MODULE EventLoopProofs ---------------------------
(***************************************************************************)
(* Theorems about EventLoop: the scan engine inside the loop that reloads, *)
(* rescans, sorts and stops it, for every number of threads, every set of  *)
(* options and every order of the loop, its scan and a signal.             *)
(*                                                                         *)
(* The loop's own steps touch what a scan works on only while scanning_flag*)
(* is clear (LoopStaysAside), so what ScannerProofs shows of a worker's    *)
(* step is enough for the rest.                                            *)
(***************************************************************************)
EXTENDS EventLoop, ScannerRoundsProofs

\* Every other step: the main thread's, the watcher's and what happens outside.
Aside == LoopSteps \/ Notify \/ Outside \/ LoopExited \/ UNCHANGED allVars

\* An unjoined scan thread keeps the main thread before its keys; the loop is left
\* for good, and its end finds no scan thread.
LeaveInv ==
  /\ unjoined => main = "keys"
  /\ main \in {"final", "exited"} => ~running
  /\ main = "exited" => scan_thread = "none"

LoopInv == ClaimInv /\ LoopTypeOK /\ LeaveInv

-----------------------------------------------------------------------------
\* A configuration that parses is a pair of options.
LEMMA ConfigType ==
  ASSUME LoopTypeOK, config_file # Broken
  PROVE  config_file[1] \in OptionSets /\ config_file[2] \in LoopOptionSets
  BY DEF LoopTypeOK, Configs

\* What prepare_repos makes, and what a sort or a rescan makes of it, are lists.
LEMMA OrderType ==
  /\ \A times, l : l \in Orders(times) => l \in Lists
  /\ \A single, l : l \in Prepared(single) => l \in Lists
  BY LoopAssumption DEF Orders, Prepared

\* What the list names are paths.
LEMMA ListType ==
  ASSUME TypeOK
  PROVE  ToSet(all_repos) \subseteq Repos
<1>1. all_repos \in Seq(Repos)
  BY ScannerAssumption DEF TypeOK
<1> QED
  BY <1>1 DEF ToSet

\* run_event_loop begins with no thread, and with a list that prepare_repos made.
LEMMA InitLoopInv == LoopInit => LoopInv
<1> SUFFICES ASSUME LoopInit PROVE LoopInv
  OBVIOUS
<1>1. ClaimInv
  BY InitClaimInv DEF LoopInit
<1>3. LeaveInv
  BY DEF LoopInit, Init, LeaveInv
<1>4. LoopTypeOK
  <2>1. loop_opts.auto_reload \in BOOLEAN
    BY LoopAssumption DEF LoopInit, LoopOptions
  <2>2. rescan_countdown \in 0..RescanInterval
    BY LoopAssumption DEF LoopInit, RescanStart
  <2>3. config_file \in Configs
    BY DEF LoopInit, Init, Configs
  <2>4. on_disk \subseteq Repos /\ countdown \in 0..Interval /\ changes \in 0..MaxChanges
    BY LoopAssumption DEF LoopInit
  <2>5. {edited, watching, config_changed, first_cycle, confirm_quit, input_waits}
          \subseteq BOOLEAN
    BY <2>1 DEF LoopInit, InputWaits
  <2>6. first_validated \subseteq Repos /\ confirm_prev_action \in Actions
    BY DEF LoopInit, Actions
  <2> QED
    BY <1>1, <2>2, <2>3, <2>4, <2>5, <2>6 DEF LoopInit, LoopTypeOK, ClaimInv
<1> QED
  BY <1>1, <1>3, <1>4 DEF LoopInv

\* A long pause may bring the next scan forward, and the runtime limit may end
\* the run.
LEMMA PauseWrites ==
  ASSUME LongPause
  PROVE  /\ countdown' = countdown \/ countdown' = 0
         /\ running' = running \/ running' = FALSE
<1>1. CASE loop_opts.kill_on_sleep
  BY <1>1 DEF LongPause
<1>2. CASE ~loop_opts.kill_on_sleep
  <2>1. countdown' \in {countdown, 0}
    BY <1>2 DEF LongPause
  <2>2. CASE loop_opts.runtime_limit
    BY <1>2, <2>1, <2>2 DEF LongPause
  <2>3. CASE ~loop_opts.runtime_limit
    BY <1>2, <2>1, <2>3 DEF LongPause
  <2> QED
    BY <2>2, <2>3
<1> QED
  BY <1>1, <1>2

\* A key may end the run; none resumes it.
LEMMA KeysWrite ==
  ASSUME NoKey \/ Key
  PROVE  /\ countdown' = countdown \/ countdown' = 0 \/ countdown' = Interval
         /\ rescan_countdown' = rescan_countdown \/ rescan_countdown' = 0
         /\ running' = running \/ running' = FALSE
<1>1. CASE UNCHANGED <<countdown, rescan_countdown>> /\ UNCHANGED running
  BY <1>1
<1>2. CASE PressQ /\ UNCHANGED <<countdown, rescan_countdown>>
  BY <1>2 DEF PressQ
<1>3. CASE /\ UNCHANGED running
           /\ \/ countdown' = 0 /\ UNCHANGED rescan_countdown
              \/ countdown' = 0 /\ rescan_countdown' = 0
              \/ countdown' = Interval /\ UNCHANGED rescan_countdown
  BY <1>3
<1> QED
  BY <1>1, <1>2, <1>3 DEF NoKey, Key

-----------------------------------------------------------------------------
\* The loop's steps keep Scanner's types.
LEMMA LoopKeepsTypes ==
  ASSUME LoopInv, LoopSteps \/ Notify \/ Outside
  PROVE  TypeOK'
<1> USE DEF LoopInv, ClaimInv, TypeOK, scanVars, workerVars, vars, MainStages
<1>1. CASE TestRunning
  BY <1>1 DEF TestRunning
<1>2. CASE Reload
  <2>1. CASE ApplyConfig /\ config_file # Broken
    <3>1. opts' \in OptionSets
      BY <2>1, ConfigType DEF ApplyConfig
    <3>2. all_repos' \in Lists
      BY <2>1, OrderType DEF ApplyConfig
    <3>3. repo_infos' \in [Repos -> RepoInfo] /\ skip_repos' = {}
      BY <2>1, FreshType DEF ApplyConfig
    <3> QED
      BY <1>2, <3>1, <3>2, <3>3 DEF Reload
  <2>2. CASE UNCHANGED <<opts, all_repos, repo_infos, skip_repos>>
    BY <1>2, <2>2 DEF Reload
  <2> QED
    BY <1>2, <2>1, <2>2 DEF Reload
<1>3. CASE PollTimeout
  BY <1>3 DEF PollTimeout
<1>4. CASE LongPause
  BY <1>4 DEF LongPause
<1>5. CASE JoinIfDone
  <2>1. CASE Join
    <3>1. all_repos' \in Lists
      BY <2>1, OrderType DEF Join
    <3>2. running' \in BOOLEAN /\ scan_thread' \in ThreadStages
      BY <2>1 DEF Join, ThreadStages
    <3> QED
      BY <1>5, <3>1, <3>2 DEF JoinIfDone
  <2>2. CASE UNCHANGED <<all_repos, running, scan_thread>>
    BY <1>5, <2>2 DEF JoinIfDone
  <2> QED
    BY <1>5, <2>1, <2>2 DEF JoinIfDone
<1>6. CASE StartIfDue
  <2>1. CASE Rescan /\ ClearStaleBusy
    <3>1. all_repos' \in Lists
      BY <2>1, OrderType DEF Rescan
    <3>2. repo_infos' \in [Repos -> RepoInfo]
      BY <2>1 DEF ClearStaleBusy, RepoInfo, Statuses
    <3> QED
      BY <1>6, <3>1, <3>2 DEF StartIfDue, ThreadStages
  <2>2. CASE UNCHANGED <<all_repos, repo_infos, scanning, scan_thread, unjoined>>
    BY <1>6, <2>2 DEF StartIfDue
  <2> QED
    BY <1>6, <2>1, <2>2 DEF StartIfDue
<1>7. CASE NoKey \/ Key
  <2>1. action' \in Actions
    BY <1>7 DEF NoKey, Key, PressQ, DropQuestion, Actions, LoopTypeOK
  <2>2. KeysDone
    BY <1>7 DEF NoKey, Key
  <2> QED
    BY <1>7, <2>1, <2>2, KeysWrite DEF KeysDone
<1>8. CASE Sleep
  <2>1. action' \in Actions
    BY <1>8 DEF Sleep, DropQuestion, LoopTypeOK
  <2> QED
    BY <1>8, <2>1 DEF Sleep
<1>9. CASE LeaveMainLoop \/ FinalJoin
  BY <1>9 DEF LeaveMainLoop, FinalJoin, ThreadStages
<1>10. CASE Notify \/ EditConfig \/ ChangeDisk \/ Signal
  BY <1>10 DEF Notify, EditConfig, ChangeDisk, Signal
<1> QED
  BY <1>1, <1>2, <1>3, <1>4, <1>5, <1>6, <1>7, <1>8, <1>9, <1>10 DEF LoopSteps, Outside

\* And the types of the loop's own variables.
LEMMA LoopKeepsOwnTypes ==
  ASSUME LoopInv, LoopSteps \/ Notify \/ Outside
  PROVE  LoopTypeOK'
<1> DEFINE T == TypeOK
<1>t. T'
  BY LoopKeepsTypes
<1> USE LoopAssumption DEF LoopInv, LoopTypeOK, loopVars, fileVars
<1>1. CASE TestRunning
  BY <1>t, <1>1 DEF TestRunning
<1>2. CASE Reload
  <2>1. CASE ApplyConfig /\ config_file # Broken
    <3>1. loop_opts' \in LoopOptionSets
      BY <2>1, ConfigType DEF ApplyConfig
    <3>2. rescan_countdown' \in 0..RescanInterval
      BY <2>1 DEF ApplyConfig, RescanStart
    <3> QED
      BY <1>t, <1>2, <2>1, <3>1, <3>2 DEF Reload, ApplyConfig
  <2>2. CASE UNCHANGED <<loop_opts, first_validated, first_cycle, rescan_countdown>>
    BY <1>t, <1>2, <2>2 DEF Reload
  <2> QED
    BY <1>2, <2>1, <2>2 DEF Reload
<1>3. CASE PollTimeout
  BY <1>t, <1>3 DEF PollTimeout
<1>4. CASE LongPause
  <2>1. countdown' \in 0..Interval
    BY <1>4, PauseWrites
  <2> QED
    BY <1>t, <1>4, <2>1 DEF LongPause
<1>5. CASE JoinIfDone
  <2>1. first_validated' \subseteq Repos /\ first_cycle' \in BOOLEAN
    <3>1. CASE Join
      BY <3>1, ListType DEF Join
    <3>2. CASE UNCHANGED <<first_cycle, first_validated>>
      BY <3>2
    <3> QED
      BY <1>5, <3>1, <3>2 DEF JoinIfDone
  <2> QED
    BY <1>t, <1>5, <2>1 DEF JoinIfDone
<1>6. CASE StartIfDue
  BY <1>t, <1>6 DEF StartIfDue, Rescan
<1>7. CASE NoKey \/ Key
  <2>1. countdown' \in 0..Interval /\ rescan_countdown' \in 0..RescanInterval
    <3>1. /\ countdown' = countdown \/ countdown' = 0 \/ countdown' = Interval
          /\ rescan_countdown' = rescan_countdown \/ rescan_countdown' = 0
      BY <1>7, KeysWrite
    <3> QED
      BY <3>1
  <2>2. confirm_quit' \in BOOLEAN
    BY <1>7 DEF NoKey, Key, PressQ, DropQuestion
  <2>3. confirm_prev_action' \in Actions
    BY <1>7 DEF NoKey, Key, PressQ, DropQuestion, TypeOK
  <2>4. KeysDone
    BY <1>7 DEF NoKey, Key
  <2> QED
    BY <1>t, <2>1, <2>2, <2>3, <2>4 DEF KeysDone
<1>8. CASE Sleep
  <2>1. countdown' \in 0..Interval /\ rescan_countdown' \in 0..RescanInterval
    BY <1>8 DEF Sleep, Decrease
  <2> QED
    BY <1>t, <1>8, <2>1 DEF Sleep, DropQuestion
<1>9. CASE LeaveMainLoop \/ FinalJoin
  BY <1>t, <1>9 DEF LeaveMainLoop, FinalJoin
<1>10. CASE Notify
  BY <1>t, <1>10 DEF Notify
<1>11. CASE EditConfig \/ ChangeDisk \/ Signal
  <2>1. CASE EditConfig
    BY <1>t, <2>1 DEF EditConfig, Change
  <2>2. CASE ChangeDisk
    BY <1>t, <2>2 DEF ChangeDisk, Change
  <2>3. CASE Signal
    BY <1>t, <2>3 DEF Signal
  <2> QED
    BY <1>11, <2>1, <2>2, <2>3
<1> QED
  BY <1>1, <1>2, <1>3, <1>4, <1>5, <1>6, <1>7, <1>8, <1>9, <1>10, <1>11
     DEF LoopSteps, Outside

-----------------------------------------------------------------------------
\* What the loop does while a scan may be under way: nothing of what the scan
\* works on changes, no scan begins its work, and nobody resumes.
LEMMA LoopStaysAside ==
  ASSUME LoopInv, Aside
  PROVE  /\ UNCHANGED <<next_index, pc, idx, ri, was_accessible>>
         /\ scan_thread' = "working" <=> scan_thread = "working"
         /\ scan_thread \in {"reset", "working"} =>
              UNCHANGED <<opts, all_repos, repo_infos, skip_repos, loop_opts,
                          first_validated>>
         /\ running' => running
         /\ \A p \in Repos : repo_infos'[p].status = "PULLING" =>
                               repo_infos[p].status = "PULLING"
<1> USE DEF LoopInv, ClaimInv, FlagFollowsThread, workerVars, vars, scanVars, loopVars
<1>1. CASE TestRunning
  BY <1>1 DEF TestRunning
<1>2. CASE Reload
  <2>1. CASE ApplyConfig /\ ~scanning
    BY <1>2, <2>1 DEF Reload, ApplyConfig, Fresh
  <2>2. CASE UNCHANGED <<opts, all_repos, repo_infos, skip_repos, loop_opts, first_validated>>
    BY <1>2, <2>2 DEF Reload
  <2> QED
    BY <1>2, <2>1, <2>2 DEF Reload
<1>3. CASE PollTimeout
  BY <1>3 DEF PollTimeout
<1>4. CASE LongPause
  <2>1. running' => running
    <3>1. running' = running \/ running' = FALSE
      BY <1>4, PauseWrites
    <3> QED
      BY <3>1
  <2> QED
    BY <1>4, <2>1 DEF LongPause
<1>5. CASE JoinIfDone
  BY <1>5 DEF JoinIfDone, Join, TypeOK
<1>6. CASE StartIfDue
  BY <1>6 DEF StartIfDue, ClearStaleBusy, TypeOK, RepoInfo
<1>7. CASE NoKey \/ Key
  <2>1. running' => running
    <3>1. running' = running \/ running' = FALSE
      BY <1>7, KeysWrite
    <3> QED
      BY <3>1
  <2>2. KeysDone
    BY <1>7 DEF NoKey, Key
  <2> QED
    BY <2>1, <2>2 DEF KeysDone
<1>8. CASE Sleep
  BY <1>8 DEF Sleep
<1>9. CASE LeaveMainLoop \/ FinalJoin
  BY <1>9 DEF LeaveMainLoop, FinalJoin
<1>10. CASE Notify \/ EditConfig \/ ChangeDisk \/ Signal
  BY <1>10 DEF Notify, EditConfig, ChangeDisk, Signal
<1>11. CASE LoopExited \/ UNCHANGED allVars
  BY <1>11 DEF LoopExited, allVars
<1> QED
  BY <1>1, <1>2, <1>3, <1>4, <1>5, <1>6, <1>7, <1>8, <1>9, <1>10, <1>11
     DEF Aside, LoopSteps, Outside

\* The flag goes with the thread in the loop's steps, too.
LEMMA LoopKeepsFlag ==
  ASSUME LoopInv, Aside
  PROVE  FlagFollowsThread' /\ LeaveInv'
<1> USE DEF LoopInv, ClaimInv, TypeOK, FlagFollowsThread, LeaveInv, workerVars, vars,
            scanVars
<1>1. CASE TestRunning \/ Reload \/ PollTimeout
  BY <1>1 DEF TestRunning, Reload, PollTimeout
<1>2. CASE LongPause
  BY <1>2 DEF LongPause
<1>3. CASE JoinIfDone
  BY <1>3 DEF JoinIfDone, Join
<1>4. CASE StartIfDue
  BY <1>4 DEF StartIfDue
<1>5. CASE NoKey \/ Key \/ Sleep
  <2>1. CASE NoKey \/ Key
    <3>1. KeysDone
      BY <2>1 DEF NoKey, Key
    <3> QED
      BY <2>1, <3>1, KeysWrite DEF KeysDone
  <2>2. CASE Sleep
    BY <2>2 DEF Sleep
  <2> QED
    BY <1>5, <2>1, <2>2
<1>6. CASE LeaveMainLoop \/ FinalJoin
  BY <1>6 DEF LeaveMainLoop, FinalJoin
<1>7. CASE Notify \/ EditConfig \/ ChangeDisk \/ Signal
  BY <1>7 DEF Notify, EditConfig, ChangeDisk, Signal
<1>8. CASE LoopExited \/ UNCHANGED allVars
  BY <1>8 DEF LoopExited, allVars
<1> QED
  BY <1>1, <1>2, <1>3, <1>4, <1>5, <1>6, <1>7, <1>8 DEF Aside, LoopSteps, Outside

\* What the loop does beside a scan (pauses, keys, reloads, joins: src/ui_loop.cpp)
\* keeps the invariant.
LEMMA AsideLoopInv ==
  ASSUME LoopInv, Aside
  PROVE  LoopInv'
<1>1. TypeOK' /\ LoopTypeOK'
  <2>1. CASE LoopSteps \/ Notify \/ Outside
    BY <2>1, LoopKeepsTypes, LoopKeepsOwnTypes
  <2>2. CASE LoopExited \/ UNCHANGED allVars
    BY <2>2 DEF LoopExited, allVars, vars, scanVars, loopVars, fileVars, LoopInv,
                LoopTypeOK, TypeOK
  <2> QED
    BY <2>1, <2>2 DEF Aside
<1>2. FlagFollowsThread' /\ LeaveInv'
  BY LoopKeepsFlag
<1>3. /\ UNCHANGED <<next_index, pc, idx>>
      /\ scan_thread' = "working" <=> scan_thread = "working"
      /\ scan_thread = "working" => UNCHANGED all_repos
  BY LoopStaysAside
<1>4. WorkersInsideScan' /\ ClaimsInRange' /\ ClaimsDistinct'
  <2>1. CASE scan_thread = "working"
    BY <1>3, <2>1 DEF LoopInv, ClaimInv, WorkersInsideScan, ClaimsInRange,
                      ClaimsDistinct, Claimed
  <2>2. CASE scan_thread # "working"
    BY <1>3, <2>2 DEF LoopInv, ClaimInv, WorkersInsideScan, ClaimsInRange,
                      ClaimsDistinct, Claimed
  <2> QED
    BY <2>1, <2>2
<1> QED
  BY <1>1, <1>2, <1>3, <1>4 DEF LoopInv, ClaimInv

-----------------------------------------------------------------------------
\* A step of a worker leaves the loop alone, and so does one of the scan thread,
\* but that it is joined when it was replaced.
LEMMA ScanLeavesLoop ==
  ASSUME ClaimInv, ScanSteps
  PROVE  /\ UNCHANGED <<opts, all_repos, main, loopVars, fileVars, config_changed>>
         /\ unjoined' => unjoined
         /\ running' => running
         /\ scan_thread = "none" => scan_thread' = "none"
<1>1. UNCHANGED <<loopVars, fileVars, config_changed>>
  BY DEF ScanSteps
<1>2. ASSUME NEW w \in Workers, Worker(w)
      PROVE  /\ UNCHANGED <<opts, all_repos, main, scan_thread, unjoined>>
             /\ running' => running
  BY <1>2, OthersUntouched, WorkerNeverResumes
<1>3. CASE ScanThread
  BY <1>1, <1>3 DEF ScanThread, BeginScan, EndScan, GoIdle, ClaimInv, TypeOK
<1> QED
  BY <1>1, <1>2, <1>3 DEF ScanSteps

\* So do the steps of scan_repos and its workers (src/scanner/scan.cpp).
LEMMA ScanLoopInv ==
  ASSUME LoopInv, ScanSteps
  PROVE  LoopInv'
<1>1. ClaimInv'
  <2>1. ASSUME NEW w \in Workers, Worker(w) PROVE [Next]_vars
    BY <2>1 DEF Next
  <2>2. CASE ScanThread
    BY <2>2, NextClaimInv DEF Next, LoopInv
  <2> QED
    BY <2>1, <2>2, NextClaimInv DEF LoopInv, ScanSteps
<1>2. /\ UNCHANGED <<opts, all_repos, main, loopVars, fileVars, config_changed>>
      /\ unjoined' => unjoined
      /\ running' => running
      /\ scan_thread = "none" => scan_thread' = "none"
  BY ScanLeavesLoop DEF LoopInv
<1>3. LoopTypeOK'
  BY <1>1, <1>2 DEF LoopInv, ClaimInv, LoopTypeOK, loopVars, fileVars
<1>4. LeaveInv'
  BY <1>2 DEF LoopInv, LeaveInv
<1> QED
  BY <1>1, <1>3, <1>4 DEF LoopInv

\* The invariant of the composed system.
THEOREM LoopInvariant == LoopSpec => []LoopInv
<1>1. LoopInv /\ [LoopNext]_allVars => LoopInv'
  BY AsideLoopInv, ScanLoopInv DEF LoopNext, Aside
<1> QED
  BY <1>1, InitLoopInv, PTL DEF LoopSpec

\* Every variable of the loop and of the scan engine keeps its type.
THEOREM LoopTypeCorrect == LoopSpec => []LoopTypeOK
<1>1. LoopInv => LoopTypeOK
  BY DEF LoopInv
<1> QED
  BY <1>1, LoopInvariant, PTL

\* When run_event_loop returns, no thread is left that refers to its locals:
\* whether it left for a signal, a key, a limit or a pause, and even if a scan
\* thread had been replaced while it was still to be joined.
THEOREM NobodyLeft == LoopSpec => []NobodyAfterExit
<1>1. LoopInv => NobodyAfterExit
  BY DEF LoopInv, LeaveInv, ClaimInv, FlagFollowsThread, WorkersInsideScan,
         NobodyAfterExit, TypeOK
<1> QED
  BY <1>1, LoopInvariant, PTL

\* The options and the list of paths, to which the workers hold references, never
\* change while a scan is at work.
THEOREM ListStable == LoopSpec => ListStableDuringScan
<1>1. LoopInv /\ [LoopNext]_allVars =>
        [(scan_thread \in {"reset", "working"}) =>
           UNCHANGED <<opts, all_repos, loop_opts, first_validated>>]_allVars
  <2> SUFFICES ASSUME LoopInv, [LoopNext]_allVars, scan_thread \in {"reset", "working"}
               PROVE  UNCHANGED <<opts, all_repos, loop_opts, first_validated>>
    OBVIOUS
  <2>1. CASE ScanSteps
    BY <2>1, ScanLeavesLoop DEF LoopInv, loopVars
  <2>2. CASE Aside
    BY <2>2, LoopStaysAside
  <2> QED
    BY <2>1, <2>2 DEF LoopNext, Aside
<1> QED
  BY <1>1, LoopInvariant, PTL DEF LoopSpec, ListStableDuringScan

-----------------------------------------------------------------------------
(***************************************************************************)
(* What Scanner guarantees on its own, its scans also guarantee inside the *)
(* loop, which changes the options and the list between them.              *)
(***************************************************************************)

\* As long as the list names no path twice, no two threads are on the same
\* repository: reloads, rescans and sorts replace the list, and none of them while a
\* worker has an index of it.  (A list that prepare_repos made may name a path twice,
\* and then two workers may meet there.)
THEOREM LoopExclusive == LoopSpec => [](Unique(all_repos) => OneWorkerPerRepo)
<1>1. LoopInv => (Unique(all_repos) => OneWorkerPerRepo)
  BY ClaimsApart DEF LoopInv, OneWorkerPerRepo
<1> QED
  BY <1>1, LoopInvariant, PTL

\* "Clearing stale busy state" before a scan never has anything to clear, nor has
\* a reload anything to interrupt.
THEOREM LoopPullingOwned == LoopSpec => []PullingIsOwned
<1>1. LoopInit => BusyInv
  BY InitResultInv DEF LoopInit, ResultInv, BusyInv
<1>2. LoopInv /\ BusyInv /\ [LoopNext]_allVars => BusyInv'
  <2> SUFFICES ASSUME LoopInv, BusyInv, [LoopNext]_allVars PROVE BusyInv'
    OBVIOUS
  <2>1. CASE ScanSteps
    BY <2>1, WorkerBusyInv, ScanBusyInv DEF ScanSteps, LoopInv
  <2>2. CASE Aside
    <3>1. /\ UNCHANGED <<pc, idx, ri>>
          /\ running' => running
          /\ scan_thread = "working" => UNCHANGED all_repos
          /\ \A p \in Repos : repo_infos'[p].status = "PULLING" =>
                                repo_infos[p].status = "PULLING"
      BY <2>2, LoopStaysAside
    <3>2. ResultsAreFinal'
      BY <3>1 DEF BusyInv, ResultsAreFinal
    <3>3. CASE scan_thread = "working"
      BY <3>1, <3>2, <3>3 DEF BusyInv, PullingHasPuller, repo
    <3>4. CASE scan_thread # "working"
      <4>1. \A w \in Workers : pc[w] = "off"
        BY <3>4 DEF LoopInv, ClaimInv, WorkersInsideScan
      <4> QED
        BY <3>1, <3>2, <4>1 DEF BusyInv, PullingHasPuller
    <3> QED
      BY <3>3, <3>4
  <2> QED
    BY <2>1, <2>2 DEF LoopNext, Aside
<1>3. BusyInv => PullingIsOwned
  BY DEF BusyInv, PullingHasPuller, PullingIsOwned, Claimed
<1> QED
  BY <1>1, <1>2, <1>3, LoopInvariant, PTL DEF LoopSpec

\* A path on skip_repos is not pulled by a pool of one, across reloads that change
\* the pool or forget the paths.
THEOREM LoopSkippedNotPulled == LoopSpec => []SkippedAreNotPulled
<1>1. LoopInit => PoolInv /\ SkipInv
  BY DEF LoopInit, Init, PoolInv, SkipInv
<1>2. LoopInv /\ PoolInv /\ SkipInv /\ [LoopNext]_allVars => PoolInv' /\ SkipInv'
  <2> SUFFICES ASSUME LoopInv, PoolInv, SkipInv, [LoopNext]_allVars
               PROVE  PoolInv' /\ SkipInv'
    OBVIOUS
  <2>1. CASE ScanSteps
    BY <2>1, WorkerSkipInv, ControlSkipInv DEF ScanSteps, LoopInv
  <2>2. CASE Aside
    <3>1. /\ UNCHANGED <<pc, idx>>
          /\ scan_thread = "working" => UNCHANGED <<opts, all_repos, skip_repos>>
      BY <2>2, LoopStaysAside
    <3>2. CASE scan_thread = "working"
      BY <3>1, <3>2 DEF PoolInv, SkipInv, PoolSize, repo
    <3>3. CASE scan_thread # "working"
      <4>1. \A w \in Workers : pc[w] = "off"
        BY <3>3 DEF LoopInv, ClaimInv, WorkersInsideScan
      <4> QED
        BY <3>1, <4>1 DEF PoolInv, SkipInv
    <3> QED
      BY <3>2, <3>3
  <2> QED
    BY <2>1, <2>2 DEF LoopNext, Aside
<1>3. SkipInv => SkippedAreNotPulled
  BY DEF SkipInv, SkippedAreNotPulled
<1> QED
  BY <1>1, <1>2, <1>3, LoopInvariant, PTL DEF LoopSpec

-----------------------------------------------------------------------------
(***************************************************************************)
(* What a scan has handled, and what is known about a path, hold inside    *)
(* the loop too, but for the reload: it forgets everything, so these are   *)
(* statements about the step that ends a scan, and about every step but    *)
(* that one.                                                               *)
(***************************************************************************)

\* When the pool of a scan is gone in a run that goes on, every path of the list
\* was handled: what is still PENDING is on skip_repos.
ScansCoverTheirLists ==
  [][scan_thread = "working" /\ scan_thread' # "working" /\ running =>
       \A i \in DOMAIN all_repos : Handled(i)]_allVars

\* While the list names no path twice, a path that was pulled, or found not to be a
\* repository, stays so, unless the configuration changed and is reloaded between
\* two scans.
OnlyReloadForgets ==
  [][\/ ~Unique(all_repos)
     \/ \A p \in Repos :
          /\ repo_infos[p].pulled => repo_infos'[p].pulled
          /\ repo_infos[p].status = "NOT_GIT" => repo_infos'[p].status = "NOT_GIT"
     \/ main = "reload" /\ main' # main /\ config_changed /\ ~scanning]_allVars

\* What the loop does beside a scan leaves its account alone: the main thread
\* neither claims an index nor changes what is known of a path meanwhile.
LEMMA AsideAccount ==
  ASSUME LoopInv, AccountInv, Aside
  PROVE  AccountInv'
<1>1. /\ UNCHANGED <<next_index, pc, idx, ri>>
      /\ scan_thread' = "working" <=> scan_thread = "working"
      /\ scan_thread = "working" => UNCHANGED <<opts, all_repos, repo_infos, skip_repos>>
      /\ running' => running
  BY LoopStaysAside
<1>2. ResultsAreDecided'
  BY <1>1 DEF AccountInv, ResultsAreDecided
<1>3. CASE scan_thread = "working"
  BY <1>1, <1>2, <1>3 DEF AccountInv, ClaimsAreHandled, PoolStaysToTheEnd, Handled,
                          Claimed, PoolSize
<1>4. CASE scan_thread # "working"
  BY <1>1, <1>2, <1>4 DEF AccountInv, ClaimsAreHandled, PoolStaysToTheEnd
<1> QED
  BY <1>3, <1>4

\* The account of a scan under way is kept by every step of the composed system.
THEOREM LoopAccount == LoopSpec => []AccountInv
<1>1. LoopInit => AccountInv
  BY DEF LoopInit, Init, AccountInv, ClaimsAreHandled, PoolStaysToTheEnd, ResultsAreDecided
<1>2. LoopInv /\ AccountInv /\ [LoopNext]_allVars => AccountInv'
  BY WorkerAccount, ScanAccount, AsideAccount DEF LoopInv, LoopNext, Aside, ScanSteps
<1> QED
  BY <1>1, <1>2, LoopInvariant, PTL DEF LoopSpec

\* Every scan of the loop covers its list, whatever was reloaded, appended or
\* sorted before it, and whatever the main thread does while it runs.
THEOREM LoopScansCover == LoopSpec => ScansCoverTheirLists
<1>1. LoopInv /\ AccountInv /\ [LoopNext]_allVars =>
        [scan_thread = "working" /\ scan_thread' # "working" /\ running =>
           \A i \in DOMAIN all_repos : Handled(i)]_allVars
  <2> SUFFICES ASSUME LoopInv, AccountInv, [LoopNext]_allVars,
                      scan_thread = "working", scan_thread' # "working", running
               PROVE  \A i \in DOMAIN all_repos : Handled(i)
    OBVIOUS
  <2>1. CASE \E w \in Workers : Worker(w)
    BY <2>1, OthersUntouched DEF LoopInv
  <2>2. CASE ScanThread
    <3>1. EndScan
      BY <2>2 DEF ScanThread, BeginScan, GoIdle
    <3> QED
      BY <3>1, EndIsHandled DEF LoopInv
  <2>3. CASE Aside
    BY <2>3, LoopStaysAside
  <2> QED
    BY <2>1, <2>2, <2>3 DEF LoopNext, Aside, ScanSteps
<1> QED
  BY <1>1, LoopInvariant, LoopAccount, PTL DEF LoopSpec, ScansCoverTheirLists

\* Every step beside a scan but a reload keeps what is known of the paths.
LEMMA AsideForgetsOnReload ==
  ASSUME LoopInv, Aside
  PROVE  \/ /\ UNCHANGED opts
            /\ \A p \in Repos :
                 /\ repo_infos'[p].pulled = repo_infos[p].pulled
                 /\ repo_infos'[p].status = "NOT_GIT" <=> repo_infos[p].status = "NOT_GIT"
         \/ /\ main = "reload" /\ main' # main /\ config_changed /\ ~scanning
            /\ repo_infos' = [p \in Repos |-> Fresh]
<1> USE DEF LoopInv, ClaimInv, TypeOK, workerVars, vars, scanVars
<1>1. CASE TestRunning \/ PollTimeout \/ LongPause
  BY <1>1 DEF TestRunning, PollTimeout, LongPause
<1>2. CASE Reload
  BY <1>2 DEF Reload, ApplyConfig
<1>3. CASE JoinIfDone
  BY <1>3 DEF JoinIfDone
<1>4. CASE StartIfDue
  <2>1. UNCHANGED opts
    BY <1>4 DEF StartIfDue
  <2>2. ClearStaleBusy \/ UNCHANGED repo_infos
    BY <1>4 DEF StartIfDue
  <2>3. CASE ClearStaleBusy
    BY <2>1, <2>3 DEF ClearStaleBusy, RepoInfo
  <2> QED
    BY <2>1, <2>2, <2>3
<1>5. CASE NoKey \/ Key \/ Sleep
  BY <1>5 DEF NoKey, Key, KeysDone, Sleep
<1>6. CASE LeaveMainLoop \/ FinalJoin
  BY <1>6 DEF LeaveMainLoop, FinalJoin
<1>7. CASE Notify \/ EditConfig \/ ChangeDisk \/ Signal
  BY <1>7 DEF Notify, EditConfig, ChangeDisk, Signal
<1>8. CASE LoopExited \/ UNCHANGED allVars
  BY <1>8 DEF LoopExited, allVars
<1> QED
  BY <1>1, <1>2, <1>3, <1>4, <1>5, <1>6, <1>7, <1>8 DEF Aside, LoopSteps, Outside

\* What the workers know of the paths they are on survives the loop's steps.
LEMMA AsideKnowledge ==
  ASSUME LoopInv, KnowledgeInv, Aside
  PROVE  KnowledgeInv'
<1> USE DEF KnowledgeInv, PulledIsKnown, NotGitApart, ExcludedApart, Examining
<1>1. /\ UNCHANGED <<pc, idx, ri>>
      /\ scan_thread = "working" => UNCHANGED <<opts, all_repos, repo_infos>>
  BY LoopStaysAside
<1>2. CASE scan_thread = "working"
  BY <1>1, <1>2 DEF repo
<1>3. CASE scan_thread # "working"
  <2>1. \A w \in Workers : pc'[w] = "off"
    BY <1>1, <1>3 DEF LoopInv, ClaimInv, WorkersInsideScan
  <2>2. \A p \in Repos : repo_infos'[p].status = "NOT_GIT" => p \notin opts'.exclude
    BY AsideForgetsOnReload DEF Fresh
  <2> QED
    BY <2>1, <2>2
<1> QED
  BY <1>2, <1>3

\* Nothing known of a path is lost in the loop, but by a reload, or where two workers
\* meet on a path that the list names twice.
THEOREM LoopOnlyReloadForgets == LoopSpec => OnlyReloadForgets
<1> DEFINE Kept == \A p \in Repos :
                     /\ repo_infos[p].pulled => repo_infos'[p].pulled
                     /\ repo_infos[p].status = "NOT_GIT" => repo_infos'[p].status = "NOT_GIT"
           Reloads == main = "reload" /\ main' # main /\ config_changed /\ ~scanning
<1>1. LoopInit => KnowledgeInv
  BY DEF LoopInit, Init, KnowledgeInv, PulledIsKnown, NotGitApart, ExcludedApart,
         Examining, Fresh
<1>2. LoopInv /\ KnowledgeInv /\ [LoopNext]_allVars =>
        KnowledgeInv' /\ [~Unique(all_repos) \/ Kept \/ Reloads]_allVars
  <2> SUFFICES ASSUME LoopInv, KnowledgeInv, [LoopNext]_allVars
               PROVE  KnowledgeInv' /\ (~Unique(all_repos) \/ Kept \/ Reloads)
    OBVIOUS
  <2> USE DEF KnowledgeInv
  <2>0. ClaimInv
    BY DEF LoopInv
  <2>1. CASE \E w \in Workers : Worker(w)
    <3>1. PICK w \in Workers : Worker(w)
      BY <2>1
    <3>2. UNCHANGED all_repos
      BY <2>0, <3>1, OthersUntouched
    <3>3. ExcludedApart'
      BY <2>0, <3>1, WorkerExcludedApart
    <3>4. Unique(all_repos) => PulledIsKnown' /\ NotGitApart'
      BY <2>0, <3>1, WorkerPulledIsKnown, WorkerNotGitApart
    <3>5. Unique(all_repos) => Kept
      BY <2>0, <3>1, WorkerKeepsPulled, WorkerKeepsNotGit
    <3> QED
      BY <3>2, <3>3, <3>4, <3>5
  <2>2. CASE ScanThread
    <3>1. UNCHANGED all_repos
      BY <2>2 DEF ScanThread, BeginScan, EndScan, GoIdle
    <3> QED
      BY <2>0, <2>2, <3>1, ControlKeepsPulled, ControlExcludedApart
  <2>3. CASE Aside
    BY <2>3, AsideKnowledge, AsideForgetsOnReload
  <2> QED
    BY <2>1, <2>2, <2>3 DEF LoopNext, Aside, ScanSteps
<1> QED
  BY <1>1, <1>2, LoopInvariant, PTL DEF LoopSpec, OnlyReloadForgets

-----------------------------------------------------------------------------
(***************************************************************************)
(* The loop with its scans implements Rounds: a session of rounds, each    *)
(* with the list there is when it begins.                                  *)
(***************************************************************************)

\* A step of the session, which may stutter.
SessionStep == [Abstract!RoundNext \/ Abstract!Revise]_(Abstract!roundVars)

\* What the loop does while a scan works is to ask it to stop, or nothing the
\* session sees; between scans it may replace the list.
LEMMA AsideSession ==
  ASSUME LoopInv, Aside
  PROVE  SessionStep
<1>1. /\ UNCHANGED <<next_index, pc, idx>>
      /\ Open' = Open
      /\ Open => UNCHANGED all_repos
      /\ running' => running
  BY LoopStaysAside DEF Open
<1>2. Taken' = Taken
  BY <1>1, SameClaims DEF Claimed
<1>3. Left' = Left /\ Asking' = Asking
  BY <1>1, SameAsking DEF Left
<1>4. CASE ~Open
  BY <1>1, <1>2, <1>3, <1>4 DEF SessionStep, Abstract!Revise
<1>5. CASE Open /\ ~running'
  BY <1>1, <1>2, <1>3, <1>5 DEF SessionStep, Abstract!RoundNext, Abstract!Stop
<1>6. CASE Open /\ running'
  <2>1. running' = running
    BY <1>1, <1>6, AsideLoopInv DEF LoopInv, ClaimInv, TypeOK
  <2> QED
    BY <1>1, <1>2, <1>3, <1>6, <2>1 DEF SessionStep, Abstract!roundVars
<1> QED
  BY <1>4, <1>5, <1>6

\* Round after round the loop hands every entry of the list there then is to one
\* worker, exactly once, and ends the round when they are all back and the list is
\* through or the process was asked to stop: with reloads and rescans between the
\* rounds, and a main thread that goes on during them.
THEOREM LoopImplementsSession == LoopSpec => ImplementsSession
<1>1. LoopInit => Abstract!RoundInit
  BY InitRound DEF LoopInit
<1>2. LoopInv /\ AccountInv /\ [LoopNext]_allVars => SessionStep
  <2> SUFFICES ASSUME LoopInv, AccountInv, [LoopNext]_allVars
               PROVE  SessionStep
    OBVIOUS
  <2>1. CASE ScanSteps
    <3>1. RoundStep
      BY <2>1, FetchTakes, TestAsks, WorkerReturns, BeginScanBegins, EndScanEnds, MainStops
         DEF ScanSteps, ScanThread, LoopInv
    <3> QED
      BY <3>1 DEF RoundStep, SessionStep
  <2>2. CASE Aside
    BY <2>2, AsideSession
  <2> QED
    BY <2>1, <2>2 DEF LoopNext, Aside
<1> QED
  BY <1>1, <1>2, LoopInvariant, LoopAccount, PTL
     DEF LoopSpec, ImplementsSession, Abstract!SessionSpec, SessionStep
=============================================================================
