------------------------------- MODULE Scanner -------------------------------
(***************************************************************************)
(* The scan engine: scan_repos (src/scanner/scan.cpp) starts a pool of     *)
(* worker threads; each worker claims an index of all_repos and runs       *)
(* process_repo (src/scanner/repo.cpp) on that path, which may run         *)
(* execute_pull (src/scanner/pull.cpp).  The workers share                 *)
(*                                                                         *)
(*   repo_infos   the published result of every path, under mtx            *)
(*   skip_repos   the paths not to retry, a std::set used WITHOUT a mutex  *)
(*   next_index   an atomic counter, local to one scan                     *)
(*   running      an atomic flag that asks every thread to stop            *)
(*   action       the status line, under action_mtx                        *)
(*                                                                         *)
(* A critical section on mtx is one step.  What git, the file system and   *)
(* the remote answer is a nondeterministic choice.  The main thread        *)
(* appears here only through the three things it does to a scan: start     *)
(* it, ask it to stop, join it.                                            *)
(***************************************************************************)
EXTENDS Naturals, Sequences, FiniteSets

CONSTANTS
  Repos,        \* the paths that may be monitored
  MaxThreads,   \* the largest pool any option set asks for
  Lists,        \* the values all_repos may have
  OptionSets    \* the option records a process may be started with

(***************************************************************************)
(* The fields of Options and of RepoOptions the scan reads.  A limit or a  *)
(* filter is the Boolean "it is set"; a per-repository override is the     *)
(* set of the paths it holds for.                                          *)
(***************************************************************************)
Options ==
  [retry_skipped : BOOLEAN, reset_skipped : BOOLEAN, skip_unavailable : BOOLEAN,
   skip_accessible_errors : BOOLEAN, skip_timeout : BOOLEAN,
   include_private : BOOLEAN, hash_check : BOOLEAN, dry_run : BOOLEAN,
   updated_since : BOOLEAN, mem_limit : BOOLEAN, single_run : BOOLEAN,
   concurrency : 0..MaxThreads,
   exclude : SUBSET Repos, check_only : SUBSET Repos, force_pull : SUBSET Repos]

ASSUME ScannerAssumption ==
  /\ MaxThreads \in Nat \ {0}
  /\ Lists \subseteq Seq(Repos)
  /\ OptionSets \subseteq Options

Workers == 1..MaxThreads

Statuses ==
  {"PENDING", "UP_TO_DATE", "PULLING", "PULL_OK", "ERROR", "SKIPPED", "NOT_GIT",
   "HEAD_PROBLEM", "DIRTY", "TIMEOUT", "RATE_LIMIT", "REMOTE_AHEAD", "TEMPFAIL"}

RepoInfo == [status : Statuses, pulled : BOOLEAN]

(***************************************************************************)
(* Where a worker is: "off" outside its thread function, "loop" at the     *)
(* head of the while, then the stages of one iteration.                    *)
(***************************************************************************)
Stages ==
  {"off", "loop", "fetch", "skip_check", "exclude", "enter", "look", "snapshot",
   "validate", "decide", "start_pull", "pull", "insert", "insert_pull", "hook",
   "publish", "after"}

(***************************************************************************)
(* The thread that runs scan_repos: "none" before it is started and after  *)
(* it was joined, "reset" at the first critical section, "working" while   *)
(* it waits for the pool, "finishing" once scanning_flag is cleared,       *)
(* "exited" when it can be joined.                                         *)
(*                                                                         *)
(* The main thread looks twice at scanning_flag in one iteration: before   *)
(* it joins and before it starts.  When the flag is cleared in between, it *)
(* assigns a new thread to the unjoined one: the new thread runs, and the  *)
(* assignment waits for the old one (`unjoined`), which may still have to  *)
(* write "Idle".  That is std::jthread; the fallback of thread_compat.hpp  *)
(* ends the process there, which is not modelled.                          *)
(***************************************************************************)
ThreadStages == {"none", "reset", "working", "finishing", "exited"}

\* The status line, and where the main thread is: "looping" while it may look
\* at the scan, "exited" at its end; the stages between are those of EventLoop.
Actions == {"Idle", "Checking", "Pulling", "Press q again to quit"}
MainStages ==
  {"looping", "reload", "timeout", "pause", "join", "start", "keys", "sleep",
   "leave", "final", "exited"}

VARIABLES
  opts, all_repos,                              \* fixed while this module runs
  repo_infos, skip_repos, next_index, running, scanning, action, \* shared
  scan_thread, unjoined, main,                  \* the scan and the main thread
  pc, idx, ri, was_accessible                   \* the locals of each worker

scanVars == <<repo_infos, skip_repos, next_index, running, scanning, action,
              scan_thread, unjoined, pc, idx, ri, was_accessible>>
vars == <<opts, all_repos, main, scanVars>>

-----------------------------------------------------------------------------
repo(w) == all_repos[idx[w]]

\* Mutation: the pool is not at least one worker.
PoolUnclamped ==
  IF opts.concurrency < Len(all_repos) THEN opts.concurrency ELSE Len(all_repos)

\* std::min(max(1, concurrency), all_repos.size())
PoolSize ==
  LET wanted == IF opts.concurrency = 0 THEN 1 ELSE opts.concurrency
  IN  IF wanted < Len(all_repos) THEN wanted ELSE Len(all_repos)

\* Mutation: an entry that nothing initialised.
FreshUnset == [status |-> "UNSET", pulled |-> FALSE]

Fresh == [status |-> "PENDING", pulled |-> FALSE]

Init ==
  /\ opts \in OptionSets
  /\ all_repos \in Lists
  /\ repo_infos = [p \in Repos |-> Fresh]
  /\ skip_repos = {}
  /\ next_index = 1
  /\ running = TRUE
  /\ scanning = FALSE
  /\ action = "Idle"
  /\ scan_thread = "none"
  /\ unjoined = FALSE
  /\ main = "looping"
  /\ pc = [w \in Workers |-> "off"]
  /\ idx = [w \in Workers |-> 1]
  /\ ri = [w \in Workers |-> Fresh]
  /\ was_accessible = [w \in Workers |-> FALSE]

-----------------------------------------------------------------------------
(***************************************************************************)
(* The main thread's part.                                                 *)
(***************************************************************************)

\* "Manually clearing stale busy state" before a scan thread is created.
ClearStaleBusy ==
  repo_infos' = [p \in Repos |->
    IF repo_infos[p].status = "PULLING"
      THEN [repo_infos[p] EXCEPT !.status = "PENDING"]
      ELSE repo_infos[p]]

StartScan ==
  /\ main = "looping"
  /\ running
  /\ ~scanning
  /\ ~unjoined
  /\ ClearStaleBusy
  /\ scanning' = TRUE
  /\ scan_thread' = "reset"
  /\ unjoined' = (scan_thread = "finishing")
  /\ UNCHANGED <<opts, all_repos, main, skip_repos, next_index, running, action,
                 pc, idx, ri, was_accessible>>

\* A signal, the q hotkey, the runtime limit or the poll timeout.
Stop ==
  /\ running
  /\ running' = FALSE
  /\ UNCHANGED <<opts, all_repos, main, unjoined, repo_infos, skip_repos, next_index,
                 scanning, action, scan_thread, pc, idx, ri, was_accessible>>

JoinScan ==
  /\ ~scanning
  /\ ~unjoined
  /\ scan_thread = "exited"
  /\ scan_thread' = "none"
  /\ running' = (running /\ ~opts.single_run)
  /\ UNCHANGED <<opts, all_repos, main, unjoined, repo_infos, skip_repos, next_index,
                 scanning, action, pc, idx, ri, was_accessible>>

Exit ==
  /\ main = "looping"
  /\ ~running
  /\ scan_thread = "none"
  /\ ~unjoined
  /\ main' = "exited"
  /\ UNCHANGED <<opts, all_repos, scanVars>>

-----------------------------------------------------------------------------
(***************************************************************************)
(* scan_repos outside its workers.                                         *)
(***************************************************************************)

\* The first critical section: statuses go back to PENDING, except NOT_GIT
\* and, unless an option says otherwise, those of skipped repositories.
ResetStatuses ==
  repo_infos' = [p \in Repos |->
    IF /\ repo_infos[p].status # "NOT_GIT"
       /\ p \in skip_repos => opts.reset_skipped \/ opts.retry_skipped
      THEN [repo_infos[p] EXCEPT !.status = "PENDING"]
      ELSE repo_infos[p]]

\* Mutation: the counter is not local to the scan and keeps its value.
BeginScanCounting ==
  /\ scan_thread = "reset"
  /\ ResetStatuses
  /\ skip_repos' = IF opts.retry_skipped THEN {} ELSE skip_repos
  /\ pc' = [w \in Workers |-> IF w <= PoolSize THEN "loop" ELSE "off"]
  /\ idx' = [w \in Workers |-> 1]
  /\ scan_thread' = "working"
  /\ UNCHANGED <<opts, all_repos, main, unjoined, running, scanning, action, ri,
                 next_index, was_accessible>>

BeginScan ==
  /\ scan_thread = "reset"
  /\ ResetStatuses
  /\ skip_repos' = IF opts.retry_skipped THEN {} ELSE skip_repos
  /\ next_index' = 1
  /\ pc' = [w \in Workers |-> IF w <= PoolSize THEN "loop" ELSE "off"]
  /\ idx' = [w \in Workers |-> 1]
  /\ scan_thread' = "working"
  /\ UNCHANGED <<opts, all_repos, main, unjoined, running, scanning, action, ri,
                 was_accessible>>

\* Mutation: the pool is detached, not joined.
EndScanDetached ==
  /\ scan_thread = "working"
  /\ scanning' = FALSE
  /\ scan_thread' = "finishing"
  /\ UNCHANGED <<opts, all_repos, main, unjoined, repo_infos, skip_repos, next_index, running,
                 action, pc, idx, ri, was_accessible>>

\* Every worker was joined.
EndScan ==
  /\ scan_thread = "working"
  /\ \A w \in Workers : pc[w] = "off"
  /\ scanning' = FALSE
  /\ scan_thread' = "finishing"
  /\ UNCHANGED <<opts, all_repos, main, unjoined, repo_infos, skip_repos, next_index, running,
                 action, pc, idx, ri, was_accessible>>

\* Mutation: the status line keeps what a worker wrote.
GoNowhere ==
  /\ scan_thread = "finishing"
  /\ scan_thread' = "exited"
  /\ UNCHANGED <<opts, all_repos, main, unjoined, repo_infos, skip_repos, next_index,
                 running, scanning, action, pc, idx, ri, was_accessible>>

GoIdle ==
  /\ \/ /\ scan_thread = "finishing"
        /\ scan_thread' = "exited"
        /\ UNCHANGED unjoined
     \/ /\ unjoined
        /\ unjoined' = FALSE
        /\ UNCHANGED scan_thread
  /\ action' = "Idle"
  /\ UNCHANGED <<opts, all_repos, main, repo_infos, skip_repos, next_index, running,
                 scanning, pc, idx, ri, was_accessible>>

-----------------------------------------------------------------------------
(***************************************************************************)
(* skip_repos is read and written by the workers without a lock.  A worker *)
(* at "insert" is inside std::set::insert; a lookup that overlaps it may   *)
(* miss an element, and of two overlapping inserts one may be lost.  (That *)
(* such a race may also crash the process is not modelled.)                *)
(***************************************************************************)
Inserting(w) == pc[w] \in {"insert", "insert_pull"}

Raced(w) == \E v \in Workers \ {w} : Inserting(v)

\* Mutation: nobody looks.
SkipNothing(w) == {FALSE}

SkipLookup(w) == {repo(w) \in skip_repos} \cup (IF Raced(w) THEN {FALSE} ELSE {})

\* The condition under which an error puts the repository on skip_repos.
SkipsErrors(w) ==
  \/ opts.skip_unavailable /\ ~was_accessible[w]
  \/ opts.skip_accessible_errors

Goto(w, stage) == pc' = [pc EXCEPT ![w] = stage]

\* The local RepoInfo gets its final status and is published next.
Decided(w, status) ==
  /\ ri' = [ri EXCEPT ![w].status = status]
  /\ Goto(w, "publish")

\* The same for an error: skip_repos.insert(p), or a pause of a second.
Failed(w, insert, otherwise) ==
  /\ ri' = [ri EXCEPT ![w].status = "ERROR"]
  /\ Goto(w, IF SkipsErrors(w) THEN insert ELSE otherwise)

\* process_repo returns: its locals go out of scope.
Forget(w) ==
  /\ ri' = [ri EXCEPT ![w] = Fresh]
  /\ was_accessible' = [was_accessible EXCEPT ![w] = FALSE]

sharedVars == <<opts, all_repos, main, scanning, scan_thread, unjoined>>

-----------------------------------------------------------------------------
(***************************************************************************)
(* The worker's loop in scan_repos.                                        *)
(***************************************************************************)

\* Mutation: the counter is loaded and stored, and an increment may be lost.
FetchNotAtomic(w) ==
  /\ pc[w] = "fetch"
  /\ next_index' \in {next_index, next_index + 1}
  /\ next_index <= Len(all_repos) + 1
  /\ idx' = [idx EXCEPT ![w] = next_index]
  /\ Goto(w, IF next_index <= Len(all_repos) THEN "skip_check" ELSE "off")
  /\ UNCHANGED <<sharedVars, repo_infos, skip_repos, running, action, ri,
                 was_accessible>>

\* while (running): a stop may come between this look and the fetch.
CheckRunning(w) ==
  /\ pc[w] = "loop"
  /\ Goto(w, IF running THEN "fetch" ELSE "off")
  /\ UNCHANGED <<sharedVars, repo_infos, skip_repos, next_index, running, action,
                 idx, ri, was_accessible>>

\* idx = next_index.fetch_add(1); if (idx >= all_repos.size()) break;
FetchIndex(w) ==
  /\ pc[w] = "fetch"
  /\ next_index' = next_index + 1
  /\ \/ /\ next_index <= Len(all_repos)
        /\ idx' = [idx EXCEPT ![w] = next_index]
        /\ Goto(w, "skip_check")
     \/ /\ next_index > Len(all_repos)
        /\ Goto(w, "off")
        /\ UNCHANGED idx
  /\ UNCHANGED <<sharedVars, repo_infos, skip_repos, running, action, ri,
                 was_accessible>>

SkipCheck(w) ==
  /\ pc[w] = "skip_check"
  /\ \E skipped \in (IF opts.retry_skipped THEN {FALSE} ELSE SkipLookup(w)) :
       Goto(w, IF skipped THEN "loop"
               ELSE IF repo(w) \in opts.exclude THEN "exclude" ELSE "enter")
  /\ UNCHANGED <<sharedVars, repo_infos, skip_repos, next_index, running, action,
                 idx, ri, was_accessible>>

Exclude(w) ==
  /\ pc[w] = "exclude"
  /\ repo_infos' = [repo_infos EXCEPT ![repo(w)].status = "SKIPPED"]
  /\ Goto(w, "loop")
  /\ UNCHANGED <<sharedVars, skip_repos, next_index, running, action, idx, ri,
                 was_accessible>>

\* The memory limit is looked at after every call of process_repo.
AfterRepo(w) ==
  /\ pc[w] = "after"
  /\ \/ /\ opts.mem_limit
        /\ running' = FALSE
        /\ Goto(w, "off")
     \/ /\ Goto(w, "loop")
        /\ UNCHANGED running
  /\ UNCHANGED <<sharedVars, repo_infos, skip_repos, next_index, action, idx, ri,
                 was_accessible>>

\* Mutation: the exception ends the worker, and the run goes on.
WorkerExceptionIgnored(w) ==
  /\ pc[w] \in {"validate", "decide", "pull", "hook"}
  /\ Goto(w, "off")
  /\ Forget(w)
  /\ UNCHANGED <<sharedVars, repo_infos, skip_repos, next_index, running, action, idx>>

\* An exception that process_repo does not catch ends the worker and the run.
WorkerException(w) ==
  /\ pc[w] \in {"validate", "decide", "pull", "hook"}
  /\ running' = FALSE
  /\ Goto(w, "off")
  /\ Forget(w)
  /\ UNCHANGED <<sharedVars, repo_infos, skip_repos, next_index, action, idx>>

-----------------------------------------------------------------------------
(***************************************************************************)
(* process_repo.                                                           *)
(***************************************************************************)

\* if (!running) return; without a lock: a stop that comes after it lets the
\* worker go on to the end of this repository.
Enter(w) ==
  /\ pc[w] = "enter"
  /\ Goto(w, IF running THEN "look" ELSE "after")
  /\ UNCHANGED <<sharedVars, repo_infos, skip_repos, next_index, running, action,
                 idx, ri, was_accessible>>

\* The first critical section, which only looks.
Look(w) ==
  /\ pc[w] = "look"
  /\ Goto(w, IF repo_infos[repo(w)].status \in {"NOT_GIT", "PULLING"}
               THEN "after" ELSE "snapshot")
  /\ UNCHANGED <<sharedVars, repo_infos, skip_repos, next_index, running, action,
                 idx, ri, was_accessible>>

\* Mutation: the new result does not inherit `pulled`.
SnapshotFresh(w) ==
  LET known == repo_infos[repo(w)] IN
  /\ pc[w] = "snapshot"
  /\ ri' = [ri EXCEPT ![w] = Fresh]
  /\ was_accessible' =
       [was_accessible EXCEPT ![w] = known.status \notin {"ERROR", "SKIPPED"}]
  /\ action' = "Checking"
  /\ Goto(w, "validate")
  /\ UNCHANGED <<sharedVars, repo_infos, skip_repos, next_index, running, idx>>

\* The second critical section, and the status line.  (The pause that follows a
\* RATE_LIMIT or TIMEOUT found there only takes time.)
Snapshot(w) ==
  LET known == repo_infos[repo(w)] IN
  /\ pc[w] = "snapshot"
  /\ ri' = [ri EXCEPT ![w] = [status |-> "PENDING", pulled |-> known.pulled]]
  /\ was_accessible' =
       [was_accessible EXCEPT ![w] = known.status \notin {"ERROR", "SKIPPED"}]
  /\ action' = "Checking"
  /\ Goto(w, "validate")
  /\ UNCHANGED <<sharedVars, repo_infos, skip_repos, next_index, running, idx>>

\* validate_repo.  prev_pulled is ri.pulled: both were copied by Snapshot.
Validate(w) ==
  /\ pc[w] = "validate"
  /\ \/ Decided(w, "ERROR")                             \* missing
     \/ Failed(w, "insert", "publish")                  \* filesystem_error
     \/ \E skipped \in SkipLookup(w) :
          \/ skipped /\ Decided(w, "SKIPPED")
          \/ /\ ~skipped
             /\ \/ Decided(w, "NOT_GIT")
                \/ ~opts.include_private /\ Decided(w, "SKIPPED")
                \/ /\ ~opts.include_private             \* remote not accessible
                   /\ Decided(w, IF ri[w].pulled THEN "TEMPFAIL" ELSE "SKIPPED")
                \/ /\ ri' = [ri EXCEPT ![w].status = "HEAD_PROBLEM"]
                   /\ Goto(w, "insert")
                \/ Goto(w, "decide") /\ UNCHANGED ri
  /\ UNCHANGED <<sharedVars, repo_infos, skip_repos, next_index, running, action,
                 idx, was_accessible>>

\* The updated_since filter, determine_pull_action and the dry run.
Decide(w) ==
  /\ pc[w] = "decide"
  /\ \/ opts.updated_since /\ Decided(w, "SKIPPED")     \* older than the limit
     \/ opts.hash_check /\ Failed(w, "insert", "publish")
     \/ opts.hash_check /\ Decided(w, "UP_TO_DATE")     \* the hashes agree
     \/ /\ opts.dry_run \/ repo(w) \in opts.check_only
        /\ Decided(w, "REMOTE_AHEAD")
     \/ /\ ~opts.dry_run /\ repo(w) \notin opts.check_only
        /\ ri' = [ri EXCEPT ![w].status = "PULLING"]
        /\ Goto(w, "start_pull")
  /\ UNCHANGED <<sharedVars, repo_infos, skip_repos, next_index, running, action,
                 idx, was_accessible>>

\* skip_repos.insert(p), not atomic with respect to the other workers.
Insert(w) ==
  /\ Inserting(w)
  /\ \/ skip_repos' = skip_repos \cup {repo(w)}
     \/ Raced(w) /\ UNCHANGED skip_repos
  /\ Goto(w, IF pc[w] = "insert_pull" /\ ri[w].pulled THEN "hook" ELSE "publish")
  /\ UNCHANGED <<sharedVars, repo_infos, next_index, running, action, idx, ri,
                 was_accessible>>

\* The critical section that ends every path through process_repo.
Publish(w) ==
  /\ pc[w] = "publish"
  /\ repo_infos' = [repo_infos EXCEPT ![repo(w)] = ri[w]]
  /\ Goto(w, "after")
  /\ Forget(w)
  /\ UNCHANGED <<sharedVars, skip_repos, next_index, running, action, idx>>

-----------------------------------------------------------------------------
(***************************************************************************)
(* execute_pull.                                                           *)
(***************************************************************************)
StartPull(w) ==
  /\ pc[w] = "start_pull"
  /\ action' = "Pulling"
  /\ repo_infos' = [repo_infos EXCEPT ![repo(w)] = ri[w]]
  /\ Goto(w, "pull")
  /\ UNCHANGED <<sharedVars, skip_repos, next_index, running, idx, ri,
                 was_accessible>>

\* What follows the switch on try_pull's code: the hook if `pulled` is set.
PullEnded(w, status, pulled) ==
  /\ ri' = [ri EXCEPT ![w] = [status |-> status, pulled |-> pulled]]
  /\ Goto(w, IF pulled THEN "hook" ELSE "publish")

Pull(w) ==
  /\ pc[w] = "pull"
  /\ \/ PullEnded(w, "PULL_OK", TRUE)                               \* code 0
     \/ /\ repo(w) \notin opts.force_pull
        /\ PullEnded(w, "DIRTY", ri[w].pulled)                      \* code 3
     \/ \E status \in {"TIMEOUT", "RATE_LIMIT"} : PullEnded(w, status, ri[w].pulled)
     \/ Failed(w, "insert_pull", IF ri[w].pulled THEN "hook" ELSE "publish")
  /\ UNCHANGED <<sharedVars, repo_infos, skip_repos, next_index, running, action,
                 idx, was_accessible>>

\* run_post_pull_hook: fork, exec and wait.
Hook(w) ==
  /\ pc[w] = "hook"
  /\ Goto(w, "publish")
  /\ UNCHANGED <<sharedVars, repo_infos, skip_repos, next_index, running, action,
                 idx, ri, was_accessible>>

-----------------------------------------------------------------------------
Worker(w) ==
  \/ CheckRunning(w) \/ FetchIndex(w) \/ SkipCheck(w) \/ Exclude(w) \/ AfterRepo(w)
  \/ WorkerException(w)
  \/ Enter(w) \/ Look(w) \/ Snapshot(w) \/ Validate(w) \/ Decide(w) \/ Insert(w) \/ Publish(w)
  \/ StartPull(w) \/ Pull(w) \/ Hook(w)

ScanThread == BeginScan \/ EndScan \/ GoIdle

MainThread == StartScan \/ JoinScan \/ Exit

\* The process ended: nothing is left to do.
Exited == main = "exited" /\ UNCHANGED vars

Next ==
  \/ \E w \in Workers : Worker(w)
  \/ ScanThread
  \/ MainThread
  \/ Stop
  \/ Exited

(***************************************************************************)
(* Threads are scheduled and the calls they make return: every pull ends   *)
(* (it has a timeout or the transport gives up), the hook ends, and the    *)
(* loop of the main thread never blocks.  Nothing obliges anyone to stop.  *)
(***************************************************************************)
Spec ==
  /\ Init /\ [][Next]_vars
  /\ \A w \in Workers : WF_vars(Worker(w))
  /\ WF_vars(ScanThread) /\ WF_vars(MainThread)

-----------------------------------------------------------------------------
(***************************************************************************)
(* Properties.                                                             *)
(***************************************************************************)

\* The type of every variable.
TypeOK ==
  /\ opts \in OptionSets
  /\ all_repos \in Lists
  /\ repo_infos \in [Repos -> RepoInfo]
  /\ skip_repos \subseteq Repos
  /\ next_index \in Nat \ {0}
  /\ running \in BOOLEAN
  /\ scanning \in BOOLEAN
  /\ action \in Actions
  /\ scan_thread \in ThreadStages
  /\ unjoined \in BOOLEAN
  /\ main \in MainStages
  /\ pc \in [Workers -> Stages]
  /\ idx \in [Workers -> Nat \ {0}]
  /\ ri \in [Workers -> RepoInfo]
  /\ was_accessible \in [Workers -> BOOLEAN]

\* The worker owns a claimed index.
Claimed(w) == pc[w] \notin {"off", "loop", "fetch", "after"}

\* No two workers are ever on the same repository, if the list names it once: the
\* atomic counter of scan_repos hands every index out once.  (process_repo's "busy" check alone
\* would not do it: it looks and acts in different critical sections.)
OneWorkerPerRepo ==
  \A v, w \in Workers : v # w /\ Claimed(v) /\ Claimed(w) => repo(v) # repo(w)

\* Why it holds: the claimed indices are below the counter, and distinct.
ClaimsInRange ==
  \A w \in Workers : Claimed(w) => idx[w] < next_index /\ idx[w] <= Len(all_repos)

ClaimsDistinct ==
  \A v, w \in Workers : v # w /\ Claimed(v) /\ Claimed(w) => idx[v] # idx[w]

\* No worker outlives the scan that started it, so joining the scan thread
\* leaves nobody that touches all_repos, repo_infos or skip_repos.
WorkersInsideScan == scan_thread # "working" => \A w \in Workers : pc[w] = "off"

\* scanning_flag is set exactly while the scan thread is before its line 168:
\* what the main thread reads there is what the thread is doing.
FlagFollowsThread == scanning <=> scan_thread \in {"reset", "working"}

\* The inductive invariant of ScannerProofs: types, and exclusive claims.
ClaimInv ==
  /\ TypeOK
  /\ FlagFollowsThread
  /\ WorkersInsideScan
  /\ ClaimsInRange
  /\ ClaimsDistinct

\* A repository is published as PULLING only while a worker is on it, or after
\* an exception made the whole process stop; so "clearing stale busy state"
\* before a scan never has anything to clear.
PullingIsOwned ==
  \A p \in Repos : repo_infos[p].status = "PULLING" =>
    \/ \E w \in Workers : Claimed(w) /\ repo(w) = p
    \/ ~running

\* Why that holds: what a worker is about to publish is not PULLING any more,
\* and who published PULLING is on its way to publishing something else.
ResultsAreFinal ==
  \A w \in Workers :
    pc[w] \in {"insert", "insert_pull", "hook", "publish"} => ri[w].status # "PULLING"

PullingHasPuller ==
  \A p \in Repos : repo_infos[p].status = "PULLING" =>
    \/ \E w \in Workers :
         pc[w] \in {"pull", "insert_pull", "hook", "publish"} /\ repo(w) = p
    \/ ~running

\* Why the status line is "Idle" between scans: nobody is left to write it.
IdleOnceEnded == scan_thread \in {"exited", "none"} => action = "Idle"

\* The second inductive invariant of ScannerProofs, on top of ClaimInv.
ResultInv == ResultsAreFinal /\ PullingHasPuller /\ IdleOnceEnded

\* When a scan ends and nobody asked the process to stop, every path of the
\* list was handled: what is still PENDING is on skip_repos.
ScanCoversList ==
  scan_thread \in {"finishing", "exited"} /\ running =>
    \A i \in DOMAIN all_repos :
      repo_infos[all_repos[i]].status = "PENDING" => all_repos[i] \in skip_repos

\* Why it holds: a path below the counter is handled or in somebody's hands, and
\* a worker of the pool leaves a run that goes on only at the end of the list.
Handled(i) ==
  repo_infos[all_repos[i]].status # "PENDING" \/ all_repos[i] \in skip_repos

ClaimsAreHandled ==
  scan_thread = "working" /\ running =>
    \A i \in DOMAIN all_repos :
      i < next_index => Handled(i) \/ \E w \in Workers : Claimed(w) /\ idx[w] = i

PoolStaysToTheEnd ==
  scan_thread = "working" /\ running =>
    \A w \in Workers : w <= PoolSize /\ pc[w] = "off" => next_index > Len(all_repos)

ResultsAreDecided ==
  \A w \in Workers :
    pc[w] \in {"start_pull", "insert", "insert_pull", "hook", "publish"} =>
      ri[w].status # "PENDING"

CoverInv == ClaimsAreHandled /\ PoolStaysToTheEnd /\ ResultsAreDecided /\ ScanCoversList

\* The status line is "Idle" whenever no scan thread exists, whatever the
\* order in which the workers wrote it.
IdleBetweenScans == scan_thread = "none" => action = "Idle"

\* Between two scans nothing is left of a scan: no worker outlives its pool, and
\* the line it wrote to the status is gone.
ScanBoundaries == WorkersInsideScan /\ IdleBetweenScans

\* A repository on skip_repos is not pulled, unless skipped ones are retried.
\* That takes a pool of one: with two workers a lookup may race with an insert
\* and miss the path.
SkippedAreNotPulled ==
  ~opts.retry_skipped /\ PoolSize = 1 =>
    \A w \in Workers : pc[w] \in {"start_pull", "pull"} => repo(w) \notin skip_repos

\* The pulled flag survives every later result of the session (repo.hpp calls
\* it "Pulled during this session").
PulledIsKept ==
  [][\A p \in Repos : repo_infos[p].pulled => repo_infos'[p].pulled]_vars

\* A path once found not to be a repository keeps that status, and is never
\* looked at again, for as long as repo_infos lives.
NotGitIsFinal ==
  [][\A p \in Repos : repo_infos[p].status = "NOT_GIT" =>
       repo_infos'[p].status = "NOT_GIT"]_vars

\* A list that names no path twice.  (Directories found twice make another.)
Unique(l) == \A i, j \in DOMAIN l : l[i] = l[j] => i = j

\* Why both hold, if no list names a path twice: between Snapshot and Publish a
\* worker knows of `pulled` what is published, and is on no path that is
\* excluded or known not to be a repository.
Examining(w) ==
  pc[w] \in {"validate", "decide", "start_pull", "pull", "insert", "insert_pull",
            "hook", "publish"}

PulledIsKnown ==
  \A w \in Workers : Examining(w) /\ repo_infos[repo(w)].pulled => ri[w].pulled

NotGitApart ==
  \A w \in Workers :
    pc[w] = "snapshot" \/ Examining(w) => repo_infos[repo(w)].status # "NOT_GIT"

ExcludedApart ==
  /\ \A p \in Repos : repo_infos[p].status = "NOT_GIT" => p \notin opts.exclude
  /\ \A w \in Workers :
       /\ pc[w] = "exclude" => repo(w) \in opts.exclude
       /\ pc[w] \in {"enter", "look", "snapshot"} \/ Examining(w) => repo(w) \notin opts.exclude
       /\ pc[w] = "start_pull" => ri[w].status = "PULLING"

KnowledgeInv ==
  /\ ExcludedApart
  /\ Unique(all_repos) => PulledIsKnown /\ NotGitApart

\* As long as nobody stops the process, every path of the list is validated
\* again and again, unless it is excluded, on skip_repos or known not to be a
\* repository.
EveryRepoIsRevisited ==
  \A p \in Repos :
    []running => []<>(\/ p \in skip_repos \cup opts.exclude
                      \/ repo_infos[p].status = "NOT_GIT"
                      \/ \E w \in Workers : pc[w] = "validate" /\ repo(w) = p)
=============================================================================
