---------------------------- MODULE ScannerProofs ----------------------------
(***************************************************************************)
(* Theorems about Scanner, for every set of paths, every pool size, every  *)
(* list and every set of options.                                          *)
(***************************************************************************)
EXTENDS Scanner, TLAPS

USE DEF Workers

\* Statuses, stages and records a step writes are of the right type.
LEMMA FreshType == Fresh \in RepoInfo
  BY DEF Fresh, RepoInfo, Statuses

\* The path of a claimed index is a path of the list.
LEMMA RepoType ==
  ASSUME TypeOK, ClaimsInRange, NEW w \in Workers, Claimed(w)
  PROVE  repo(w) \in Repos
<1>1. all_repos \in Seq(Repos)
  BY ScannerAssumption DEF TypeOK
<1>2. idx[w] \in 1..Len(all_repos)
  BY <1>1 DEF TypeOK, ClaimsInRange
<1> QED
  BY <1>1, <1>2 DEF repo

\* The size of the pool is a number.
LEMMA PoolType ==
  ASSUME TypeOK
  PROVE  PoolSize \in Nat
<1>1. opts.concurrency \in Nat
  BY ScannerAssumption DEF TypeOK, Options
<1>2. Len(all_repos) \in Nat
  BY ScannerAssumption DEF TypeOK
<1> QED
  BY <1>1, <1>2 DEF PoolSize

-----------------------------------------------------------------------------
\* The initial states satisfy the invariant.
LEMMA InitClaimInv == Init => ClaimInv
<1> SUFFICES ASSUME Init PROVE ClaimInv
  OBVIOUS
<1>1. TypeOK
  <2>1. /\ repo_infos \in [Repos -> RepoInfo]
        /\ ri \in [Workers -> RepoInfo]
    BY FreshType DEF Init
  <2>2. was_accessible \in [Workers -> BOOLEAN]
    BY DEF Init
  <2>3. pc \in [Workers -> Stages] /\ scan_thread \in ThreadStages
    BY DEF Init, Stages, ThreadStages
  <2>4. idx \in [Workers -> Nat \ {0}] /\ next_index \in Nat \ {0}
    BY DEF Init
  <2> QED
    BY <2>1, <2>2, <2>3, <2>4 DEF Init, TypeOK, Actions, MainStages
<1>2. FlagFollowsThread /\ WorkersInsideScan /\ ClaimsInRange /\ ClaimsDistinct
  BY DEF Init, FlagFollowsThread, WorkersInsideScan, ClaimsInRange, ClaimsDistinct, Claimed
<1> QED
  BY <1>1, <1>2 DEF ClaimInv

\* The main thread and the scan thread keep the types.
LEMMA ControlType ==
  ASSUME ClaimInv, MainThread \/ ScanThread \/ Stop
  PROVE  TypeOK'
<1> USE DEF ClaimInv, TypeOK, ThreadStages
<1>1. CASE StartScan
  BY <1>1 DEF StartScan, ClearStaleBusy, RepoInfo, Statuses
<1>2. CASE JoinScan
  BY <1>2 DEF JoinScan
<1>3. CASE Exit
  BY <1>3 DEF Exit, scanVars, MainStages
<1>4. CASE BeginScan
  <2>1. repo_infos' \in [Repos -> RepoInfo]
    BY <1>4 DEF BeginScan, ResetStatuses, RepoInfo, Statuses
  <2>2. pc' \in [Workers -> Stages]
    BY <1>4, PoolType DEF BeginScan, Stages
  <2> QED
    BY <1>4, <2>1, <2>2 DEF BeginScan
<1>5. CASE EndScan
  BY <1>5 DEF EndScan
<1>6. CASE GoIdle
  BY <1>6 DEF GoIdle, Actions
<1>7. CASE Stop
  BY <1>7 DEF Stop
<1> QED
  BY <1>1, <1>2, <1>3, <1>4, <1>5, <1>6, <1>7 DEF MainThread, ScanThread

\* The steps of a worker keep the types.
LEMMA WorkerType ==
  ASSUME ClaimInv, NEW w \in Workers, Worker(w)
  PROVE  TypeOK'
<1> USE DEF ClaimInv, TypeOK, sharedVars
<1>r. ASSUME Claimed(w) PROVE repo(w) \in Repos
  BY <1>r, RepoType
<1>1. CASE FetchIndex(w)
  BY <1>1 DEF FetchIndex, Goto, Stages
<1>2. CASE CheckRunning(w)
  BY <1>2 DEF CheckRunning, Goto, Stages
<1>3. CASE SkipCheck(w)
  <2>1. pc' \in [Workers -> Stages]
    BY <1>3 DEF SkipCheck, Goto, Stages
  <2> QED
    BY <1>3, <2>1 DEF SkipCheck
<1>4. CASE Exclude(w)
  BY <1>4 DEF Exclude, Goto, Stages, RepoInfo, Statuses
<1>5. CASE AfterRepo(w)
  BY <1>5 DEF AfterRepo, Goto, Stages
<1>6. CASE WorkerException(w)
  BY <1>6, FreshType DEF WorkerException, Goto, Forget, Stages
<1>7. CASE Enter(w) \/ Look(w)
  BY <1>7 DEF Enter, Look, Goto, Stages
<1>8. CASE Snapshot(w)
  <2>1. repo(w) \in Repos
    BY <1>8, <1>r DEF Snapshot, Claimed
  <2>2. ri' \in [Workers -> RepoInfo]
    BY <1>8, <2>1 DEF Snapshot, RepoInfo, Statuses
  <2>3. pc' \in [Workers -> Stages]
    BY <1>8 DEF Snapshot, Goto, Stages
  <2>4. was_accessible' \in [Workers -> BOOLEAN]
    BY <1>8 DEF Snapshot
  <2> QED
    BY <1>8, <2>2, <2>3, <2>4 DEF Snapshot, Actions
<1>9. CASE Validate(w)
  <2>1. pc' \in [Workers -> Stages]
    BY <1>9 DEF Validate, Decided, Failed, Goto, Stages
  <2>2. ri' \in [Workers -> RepoInfo]
    BY <1>9 DEF Validate, Decided, Failed, RepoInfo, Statuses
  <2> QED
    BY <1>9, <2>1, <2>2 DEF Validate
<1>10. CASE Decide(w)
  <2>1. pc' \in [Workers -> Stages]
    BY <1>10 DEF Decide, Decided, Failed, Goto, Stages
  <2>2. ri' \in [Workers -> RepoInfo]
    BY <1>10 DEF Decide, Decided, Failed, RepoInfo, Statuses
  <2> QED
    BY <1>10, <2>1, <2>2 DEF Decide
<1>11. CASE Insert(w)
  <2>1. skip_repos' \subseteq Repos
    BY <1>11, <1>r DEF Insert, Inserting, Claimed
  <2>2. pc' \in [Workers -> Stages]
    BY <1>11 DEF Insert, Goto, Stages
  <2> QED
    BY <1>11, <2>1, <2>2 DEF Insert
<1>12. CASE Publish(w)
  BY <1>12, FreshType DEF Publish, Goto, Forget, Stages
<1>13. CASE StartPull(w)
  BY <1>13 DEF StartPull, Goto, Stages, Actions
<1>14. CASE Pull(w)
  <2>1. pc' \in [Workers -> Stages]
    BY <1>14 DEF Pull, PullEnded, Failed, Goto, Stages
  <2>2. ri' \in [Workers -> RepoInfo]
    <3>1. ASSUME NEW s \in Statuses, NEW pulled \in BOOLEAN, PullEnded(w, s, pulled)
          PROVE  ri' \in [Workers -> RepoInfo]
      BY <3>1 DEF PullEnded, RepoInfo
    <3>2. ri[w].pulled \in BOOLEAN
      BY DEF RepoInfo
    <3>3. CASE \E s \in Statuses, pulled \in BOOLEAN : PullEnded(w, s, pulled)
      BY <3>1, <3>3
    <3>4. CASE \E next : Failed(w, "insert_pull", next)
      BY <3>4 DEF Failed, RepoInfo, Statuses
    <3> QED
      BY <1>14, <3>2, <3>3, <3>4 DEF Pull, Statuses
  <2> QED
    BY <1>14, <2>1, <2>2 DEF Pull
<1>15. CASE Hook(w)
  BY <1>15 DEF Hook, Goto, Stages
<1> QED
  BY <1>1, <1>2, <1>3, <1>4, <1>5, <1>6, <1>7, <1>8, <1>9, <1>10, <1>11, <1>12,
     <1>13, <1>14, <1>15 DEF Worker

-----------------------------------------------------------------------------
\* Every step of a worker but FetchIndex keeps the counter and the indices,
\* and a worker that owns an index after the step owned it before.
LEMMA WorkerKeepsClaim ==
  ASSUME ClaimInv, NEW w \in Workers, Worker(w), ~FetchIndex(w)
  PROVE  /\ UNCHANGED <<all_repos, scanning, scan_thread, next_index, idx>>
         /\ \A v \in Workers : Claimed(v)' => Claimed(v)
         /\ \A v \in Workers : pc[v] = "off" => pc'[v] = "off"
<1> USE DEF ClaimInv, TypeOK, Goto, Claimed, sharedVars
<1>1. CASE CheckRunning(w)
  BY <1>1 DEF CheckRunning
<1>2. CASE SkipCheck(w)
  BY <1>2 DEF SkipCheck
<1>3. CASE Exclude(w)
  BY <1>3 DEF Exclude
<1>4. CASE AfterRepo(w)
  BY <1>4 DEF AfterRepo
<1>5. CASE WorkerException(w)
  BY <1>5 DEF WorkerException
<1>6. CASE Enter(w) \/ Look(w)
  BY <1>6 DEF Enter, Look
<1>7. CASE Snapshot(w)
  BY <1>7 DEF Snapshot
<1>8. CASE Validate(w)
  BY <1>8 DEF Validate, Decided, Failed
<1>9. CASE Decide(w)
  BY <1>9 DEF Decide, Decided, Failed
<1>10. CASE Insert(w)
  BY <1>10 DEF Insert, Inserting
<1>11. CASE Publish(w)
  BY <1>11 DEF Publish
<1>12. CASE StartPull(w)
  BY <1>12 DEF StartPull
<1>13. CASE Pull(w)
  BY <1>13 DEF Pull, PullEnded, Failed
<1>14. CASE Hook(w)
  BY <1>14 DEF Hook
<1> QED
  BY <1>1, <1>2, <1>3, <1>4, <1>5, <1>6, <1>7, <1>8, <1>9, <1>10, <1>11, <1>12,
     <1>13, <1>14 DEF Worker

\* FetchIndex hands out an index nobody has: the counter's old value.
LEMMA FetchClaims ==
  ASSUME ClaimInv, NEW w \in Workers, FetchIndex(w)
  PROVE  (FlagFollowsThread /\ WorkersInsideScan /\ ClaimsInRange /\ ClaimsDistinct)'
<1> USE DEF ClaimInv, TypeOK, FetchIndex, Goto, Claimed, sharedVars
<1>0. Len(all_repos) \in Nat /\ next_index \in Nat
  BY ScannerAssumption
<1>1. FlagFollowsThread' /\ WorkersInsideScan'
  BY DEF FlagFollowsThread, WorkersInsideScan
<1>2. CASE next_index <= Len(all_repos)
  <2>1. /\ idx' = [idx EXCEPT ![w] = next_index]
        /\ pc' = [pc EXCEPT ![w] = "skip_check"]
        /\ next_index' = next_index + 1 /\ all_repos' = all_repos
    BY <1>0, <1>2
  <2>2. ClaimsInRange'
    BY <1>0, <1>2, <2>1 DEF ClaimsInRange
  <2>3. ClaimsDistinct'
    BY <1>0, <2>1 DEF ClaimsInRange, ClaimsDistinct
  <2> QED
    BY <1>1, <2>2, <2>3
<1>3. CASE next_index > Len(all_repos)
  <2>1. /\ idx' = idx /\ pc' = [pc EXCEPT ![w] = "off"]
        /\ next_index' = next_index + 1 /\ all_repos' = all_repos
    BY <1>0, <1>3
  <2>2. ClaimsInRange'
    BY <1>0, <2>1 DEF ClaimsInRange
  <2>3. ClaimsDistinct'
    BY <2>1 DEF ClaimsDistinct
  <2> QED
    BY <1>1, <2>2, <2>3
<1> QED
  BY <1>0, <1>2, <1>3

\* The main thread and the scan thread only act on claims when there are none.
LEMMA ControlClaims ==
  ASSUME ClaimInv, MainThread \/ ScanThread \/ Stop
  PROVE  (FlagFollowsThread /\ WorkersInsideScan /\ ClaimsInRange /\ ClaimsDistinct)'
<1> USE DEF ClaimInv, TypeOK, FlagFollowsThread, WorkersInsideScan, ClaimsInRange,
            ClaimsDistinct, Claimed
<1>1. CASE StartScan
  BY <1>1 DEF StartScan
<1>2. CASE JoinScan
  BY <1>2 DEF JoinScan
<1>3. CASE Exit
  BY <1>3 DEF Exit, scanVars
<1>4. CASE BeginScan
  BY <1>4 DEF BeginScan
<1>5. CASE EndScan
  BY <1>5 DEF EndScan
<1>6. CASE GoIdle
  BY <1>6 DEF GoIdle
<1>7. CASE Stop
  BY <1>7 DEF Stop
<1> QED
  BY <1>1, <1>2, <1>3, <1>4, <1>5, <1>6, <1>7 DEF MainThread, ScanThread

-----------------------------------------------------------------------------
\* Every step keeps the invariant.
LEMMA NextClaimInv == ClaimInv /\ [Next]_vars => ClaimInv'
<1> SUFFICES ASSUME ClaimInv, [Next]_vars PROVE ClaimInv'
  OBVIOUS
<1>1. ASSUME NEW w \in Workers, Worker(w) PROVE ClaimInv'
  <2>1. TypeOK'
    BY <1>1, WorkerType
  <2>2. CASE FetchIndex(w)
    BY <2>1, <2>2, FetchClaims DEF ClaimInv
  <2>3. CASE ~FetchIndex(w)
    <3>1. /\ UNCHANGED <<all_repos, scanning, scan_thread, next_index, idx>>
          /\ \A v \in Workers : Claimed(v)' => Claimed(v)
          /\ \A v \in Workers : pc[v] = "off" => pc'[v] = "off"
      BY <1>1, <2>3, WorkerKeepsClaim
    <3>2. FlagFollowsThread' /\ WorkersInsideScan'
      BY <3>1 DEF ClaimInv, FlagFollowsThread, WorkersInsideScan
    <3>3. ClaimsInRange' /\ ClaimsDistinct'
      BY <3>1 DEF ClaimInv, ClaimsInRange, ClaimsDistinct
    <3> QED
      BY <2>1, <3>2, <3>3 DEF ClaimInv
  <2> QED
    BY <2>2, <2>3
<1>2. CASE MainThread \/ ScanThread \/ Stop
  BY <1>2, ControlType, ControlClaims DEF ClaimInv
<1>3. CASE UNCHANGED vars
  BY <1>3 DEF vars, scanVars, ClaimInv, TypeOK, FlagFollowsThread, WorkersInsideScan,
              ClaimsInRange, ClaimsDistinct, Claimed
<1> QED
  BY <1>1, <1>2, <1>3 DEF Next, Exited

\* The inductive invariant holds in every reachable state.
THEOREM ClaimInvariant == Spec => []ClaimInv
<1> QED
  BY InitClaimInv, NextClaimInv, PTL DEF Spec

\* Every variable keeps its type.
THEOREM TypeCorrect == Spec => []TypeOK
<1>1. ClaimInv => TypeOK
  BY DEF ClaimInv
<1> QED
  BY <1>1, ClaimInvariant, PTL

\* No worker runs outside a scan (scan_repos joins its pool before it returns).
THEOREM NoWorkerOutsideScan == Spec => []WorkersInsideScan
<1>1. ClaimInv => WorkersInsideScan
  BY DEF ClaimInv
<1> QED
  BY <1>1, ClaimInvariant, PTL

\* If no list names a path twice, no two workers are ever on the same
\* repository, whatever the pool size and the order of their steps.
THEOREM ExclusiveRepos ==
  ASSUME \A l \in Lists : \A i, j \in DOMAIN l : l[i] = l[j] => i = j
  PROVE  Spec => []OneWorkerPerRepo
<1>1. ClaimInv => OneWorkerPerRepo
  <2> SUFFICES ASSUME ClaimInv, NEW v \in Workers, NEW w \in Workers, v # w,
                      Claimed(v), Claimed(w)
               PROVE  repo(v) # repo(w)
    BY DEF OneWorkerPerRepo
  <2>1. all_repos \in Lists /\ all_repos \in Seq(Repos)
    BY ScannerAssumption DEF ClaimInv, TypeOK
  <2>2. idx[v] \in DOMAIN all_repos /\ idx[w] \in DOMAIN all_repos
    BY <2>1 DEF ClaimInv, TypeOK, ClaimsInRange
  <2>3. idx[v] # idx[w]
    BY DEF ClaimInv, ClaimsDistinct
  <2> QED
    BY <2>1, <2>2, <2>3 DEF repo
<1> QED
  BY <1>1, ClaimInvariant, PTL

-----------------------------------------------------------------------------
(***************************************************************************)
(* What the workers publish, on top of ClaimInv.                           *)
(***************************************************************************)
HIDE DEF Workers

\* A step of a worker leaves the locals of the others, the options, the list
\* and the scan alone.
LEMMA OthersUntouched ==
  ASSUME ClaimInv, NEW w \in Workers, Worker(w)
  PROVE  /\ UNCHANGED <<opts, all_repos, main, scanning, scan_thread, unjoined>>
         /\ \A v \in Workers \ {w} :
              pc'[v] = pc[v] /\ idx'[v] = idx[v] /\ ri'[v] = ri[v]
<1> USE DEF ClaimInv, TypeOK, Goto, sharedVars
<1>1. CASE FetchIndex(w)
  BY <1>1 DEF FetchIndex
<1>2. CASE CheckRunning(w)
  BY <1>2 DEF CheckRunning
<1>3. CASE SkipCheck(w)
  BY <1>3 DEF SkipCheck
<1>4. CASE Exclude(w)
  BY <1>4 DEF Exclude
<1>5. CASE AfterRepo(w)
  BY <1>5 DEF AfterRepo
<1>6. CASE WorkerException(w)
  BY <1>6 DEF WorkerException, Forget
<1>7. CASE Enter(w) \/ Look(w)
  BY <1>7 DEF Enter, Look
<1>8. CASE Snapshot(w)
  BY <1>8 DEF Snapshot
<1>9. CASE Validate(w)
  BY <1>9 DEF Validate, Decided, Failed
<1>10. CASE Decide(w)
  BY <1>10 DEF Decide, Decided, Failed
<1>11. CASE Insert(w)
  BY <1>11 DEF Insert
<1>12. CASE Publish(w)
  BY <1>12 DEF Publish, Forget
<1>13. CASE StartPull(w)
  BY <1>13 DEF StartPull
<1>14. CASE Pull(w)
  BY <1>14 DEF Pull, PullEnded, Failed
<1>15. CASE Hook(w)
  BY <1>15 DEF Hook
<1> QED
  BY <1>1, <1>2, <1>3, <1>4, <1>5, <1>6, <1>7, <1>8, <1>9, <1>10, <1>11, <1>12,
     <1>13, <1>14, <1>15 DEF Worker

-----------------------------------------------------------------------------
(***************************************************************************)
(* The status line, and who owns a status of PULLING.                      *)
(***************************************************************************)

\* A worker only steps while its scan waits for it.
LEMMA WorkerInScan ==
  ASSUME ClaimInv, NEW w \in Workers, Worker(w)
  PROVE  scan_thread = "working"
<1>1. pc[w] # "off"
  BY DEF Worker, FetchIndex, CheckRunning, SkipCheck, Exclude, AfterRepo, WorkerException,
         Enter, Look, Snapshot, Validate, Decide, Insert, Inserting, Publish, StartPull,
         Pull, Hook
<1> QED
  BY <1>1 DEF ClaimInv, WorkersInsideScan

\* The part of ResultInv about a status of PULLING.
BusyInv == ResultsAreFinal /\ PullingHasPuller

\* What the worker itself is about to publish after its step.
LEMMA OwnResultFinal ==
  ASSUME ClaimInv, BusyInv, NEW w \in Workers, Worker(w),
         pc'[w] \in {"insert", "insert_pull", "hook", "publish"}
  PROVE  ri'[w].status # "PULLING"
<1> USE DEF ClaimInv, TypeOK, RepoInfo, Goto, BusyInv, ResultsAreFinal
<1>1. CASE Validate(w)
  BY <1>1 DEF Validate, Decided, Failed
<1>2. CASE Decide(w)
  BY <1>2 DEF Decide, Decided, Failed
<1>3. CASE Insert(w)
  BY <1>3 DEF Insert, Inserting
<1>4. CASE Pull(w)
  BY <1>4 DEF Pull, PullEnded, Failed
<1>5. CASE Hook(w)
  BY <1>5 DEF Hook
<1>6. CASE FetchIndex(w) \/ CheckRunning(w) \/ SkipCheck(w) \/ Exclude(w) \/ AfterRepo(w)
  BY <1>6 DEF FetchIndex, CheckRunning, SkipCheck, Exclude, AfterRepo
<1>7. CASE WorkerException(w) \/ Enter(w) \/ Look(w) \/ Snapshot(w) \/ Publish(w) \/ StartPull(w)
  BY <1>7 DEF WorkerException, Enter, Look, Snapshot, Publish, StartPull
<1> QED
  BY <1>1, <1>2, <1>3, <1>4, <1>5, <1>6, <1>7 DEF Worker

\* A worker that pulls goes on to publish, or its exception stops the run.
LEMMA PullerGoesOn ==
  ASSUME ClaimInv, NEW w \in Workers, Worker(w), ~Publish(w),
         pc[w] \in {"pull", "insert_pull", "hook", "publish"}
  PROVE  \/ /\ pc'[w] \in {"pull", "insert_pull", "hook", "publish"}
            /\ UNCHANGED <<idx, repo_infos>>
         \/ ~running' /\ UNCHANGED repo_infos
<1> USE DEF ClaimInv, TypeOK, Goto, sharedVars
<1>1. CASE Insert(w)
  BY <1>1 DEF Insert
<1>2. CASE Pull(w)
  BY <1>2 DEF Pull, PullEnded, Failed
<1>3. CASE Hook(w)
  BY <1>3 DEF Hook
<1>4. CASE WorkerException(w)
  BY <1>4 DEF WorkerException
<1>5. CASE FetchIndex(w) \/ CheckRunning(w) \/ SkipCheck(w) \/ Exclude(w) \/ AfterRepo(w)
  BY <1>5 DEF FetchIndex, CheckRunning, SkipCheck, Exclude, AfterRepo
<1>6. CASE Enter(w) \/ Look(w) \/ Snapshot(w) \/ Validate(w) \/ Decide(w) \/ StartPull(w)
  BY <1>6 DEF Enter, Look, Snapshot, Validate, Decide, StartPull
<1> QED
  BY <1>1, <1>2, <1>3, <1>4, <1>5, <1>6 DEF Worker

\* The steps that write repo_infos, and what they leave of it.
LEMMA WhoPublishes ==
  ASSUME ClaimInv, NEW w \in Workers, Worker(w)
  PROVE  \/ UNCHANGED repo_infos
         \/ /\ Exclude(w)
            /\ repo_infos' = [repo_infos EXCEPT ![repo(w)].status = "SKIPPED"]
         \/ /\ StartPull(w) \/ Publish(w)
            /\ repo_infos' = [repo_infos EXCEPT ![repo(w)] = ri[w]]
<1>1. CASE Exclude(w)
  BY <1>1 DEF Exclude
<1>2. CASE StartPull(w) \/ Publish(w)
  BY <1>2 DEF StartPull, Publish
<1>3. CASE FetchIndex(w) \/ CheckRunning(w) \/ SkipCheck(w) \/ AfterRepo(w)
  BY <1>3 DEF FetchIndex, CheckRunning, SkipCheck, AfterRepo
<1>4. CASE WorkerException(w) \/ Enter(w) \/ Look(w) \/ Snapshot(w) \/ Validate(w) \/ Decide(w)
  BY <1>4 DEF WorkerException, Enter, Look, Snapshot, Validate, Decide
<1>5. CASE Insert(w) \/ Pull(w) \/ Hook(w)
  BY <1>5 DEF Insert, Pull, Hook
<1> QED
  BY <1>1, <1>2, <1>3, <1>4, <1>5 DEF Worker

\* No worker sets `running`.
LEMMA WorkerNeverResumes ==
  ASSUME ClaimInv, NEW w \in Workers, Worker(w), ~running
  PROVE  ~running'
<1>1. CASE FetchIndex(w) \/ CheckRunning(w) \/ SkipCheck(w) \/ Exclude(w) \/ AfterRepo(w)
  BY <1>1 DEF FetchIndex, CheckRunning, SkipCheck, Exclude, AfterRepo
<1>2. CASE WorkerException(w) \/ Enter(w) \/ Look(w) \/ Snapshot(w) \/ Validate(w) \/ Decide(w)
  BY <1>2 DEF WorkerException, Enter, Look, Snapshot, Validate, Decide
<1>3. CASE Insert(w) \/ Publish(w) \/ StartPull(w) \/ Pull(w) \/ Hook(w)
  BY <1>3 DEF Insert, Publish, StartPull, Pull, Hook
<1> QED
  BY <1>1, <1>2, <1>3 DEF Worker

\* A worker's step keeps it.
LEMMA WorkerBusyInv ==
  ASSUME ClaimInv, BusyInv, NEW w \in Workers, Worker(w)
  PROVE  BusyInv'
<1>0. /\ UNCHANGED <<opts, all_repos, main, scanning, scan_thread, unjoined>>
      /\ \A v \in Workers \ {w} :
           pc'[v] = pc[v] /\ idx'[v] = idx[v] /\ ri'[v] = ri[v]
  BY OthersUntouched
<1>1. ResultsAreFinal'
  BY <1>0, OwnResultFinal DEF BusyInv, ResultsAreFinal
<1>2. ASSUME NEW p \in Repos, repo_infos'[p].status = "PULLING", running'
      PROVE  \E v \in Workers :
               pc'[v] \in {"pull", "insert_pull", "hook", "publish"} /\ repo(v)' = p
  <2>0. running
    BY <1>2, WorkerNeverResumes
  <2>1. CASE StartPull(w) /\ repo(w) = p
    BY <1>0, <2>1 DEF StartPull, Goto, repo, ClaimInv, TypeOK
  <2>2. CASE Publish(w) /\ repo(w) = p
    <3>1. repo_infos'[p] = ri[w]
      BY <2>2 DEF Publish, ClaimInv, TypeOK
    <3> QED
      BY <1>2, <2>2, <3>1 DEF Publish, BusyInv, ResultsAreFinal
  <2>3. CASE ~((StartPull(w) \/ Publish(w)) /\ repo(w) = p)
    <3>1. repo_infos[p].status = "PULLING"
      BY <1>2, <2>3, WhoPublishes DEF ClaimInv, TypeOK, RepoInfo
    <3>2. PICK v \in Workers :
            pc[v] \in {"pull", "insert_pull", "hook", "publish"} /\ repo(v) = p
      BY <2>0, <3>1 DEF BusyInv, PullingHasPuller
    <3>3. CASE v # w
      BY <1>0, <3>2, <3>3 DEF repo
    <3>4. CASE v = w
      BY <1>0, <1>2, <2>3, <3>2, <3>4, PullerGoesOn DEF repo
    <3> QED
      BY <3>3, <3>4
  <2> QED
    BY <2>1, <2>2, <2>3
<1>3. PullingHasPuller'
  BY <1>2 DEF PullingHasPuller
<1> QED
  BY <1>1, <1>3 DEF BusyInv

\* So does a step of the scan thread: a scan only begins, and ends, when nobody
\* is about to publish.
LEMMA ScanBusyInv ==
  ASSUME ClaimInv, BusyInv, ScanThread
  PROVE  BusyInv'
<1> USE DEF ClaimInv, TypeOK, WorkersInsideScan, BusyInv, ResultsAreFinal,
            PullingHasPuller
<1>1. CASE BeginScan
  <2>1. \A w \in Workers : pc[w] = "off"
    BY <1>1 DEF BeginScan
  <2>2. \A w \in Workers : pc'[w] \in {"loop", "off"}
    BY <1>1 DEF BeginScan
  <2>3. \A p \in Repos : repo_infos'[p].status = "PULLING" => repo_infos[p].status = "PULLING"
    BY <1>1 DEF BeginScan, ResetStatuses, RepoInfo
  <2>4. UNCHANGED running /\ scan_thread' = "working"
    BY <1>1 DEF BeginScan
  <2> QED
    BY <2>1, <2>2, <2>3, <2>4
<1>2. CASE EndScan
  BY <1>2 DEF EndScan, repo
<1>3. CASE GoIdle
  BY <1>3 DEF GoIdle, repo
<1> QED
  BY <1>1, <1>2, <1>3 DEF ScanThread

\* A worker's step keeps ResultInv.
LEMMA WorkerResultInv ==
  ASSUME ClaimInv, ResultInv, NEW w \in Workers, Worker(w)
  PROVE  ResultInv'
<1>1. BusyInv'
  BY WorkerBusyInv DEF ResultInv, BusyInv
<1>2. IdleOnceEnded'
  BY OthersUntouched, WorkerInScan DEF IdleOnceEnded
<1> QED
  BY <1>1, <1>2 DEF ResultInv, BusyInv

\* The main thread and the scan thread keep ResultInv: whoever publishes is
\* inside the scan, and a scan only begins once everybody has left the last.
LEMMA ControlResultInv ==
  ASSUME ClaimInv, ResultInv, MainThread \/ ScanThread \/ Stop
  PROVE  ResultInv'
<1> USE DEF ClaimInv, TypeOK, WorkersInsideScan, ResultInv, ResultsAreFinal,
            PullingHasPuller, IdleOnceEnded
<1>1. CASE StartScan
  BY <1>1 DEF StartScan, ClearStaleBusy, RepoInfo
<1>2. CASE JoinScan
  BY <1>2 DEF JoinScan, repo
<1>3. CASE Exit
  BY <1>3 DEF Exit, scanVars, repo
<1>4. CASE ScanThread
  <2>1. BusyInv'
    BY <1>4, ScanBusyInv DEF BusyInv
  <2>2. IdleOnceEnded'
    BY <1>4 DEF ScanThread, BeginScan, EndScan, GoIdle
  <2> QED
    BY <2>1, <2>2 DEF BusyInv
<1>5. CASE Stop
  BY <1>5 DEF Stop, repo
<1> QED
  BY <1>1, <1>2, <1>3, <1>4, <1>5 DEF MainThread

\* At first no scan is running and nobody is about to publish.
LEMMA InitResultInv == Init => ResultInv
  BY DEF Init, ResultInv, ResultsAreFinal, PullingHasPuller, IdleOnceEnded, Fresh

\* Every step keeps it.
LEMMA NextResultInv == ClaimInv /\ ResultInv /\ [Next]_vars => ResultInv'
<1> SUFFICES ASSUME ClaimInv, ResultInv, [Next]_vars PROVE ResultInv'
  OBVIOUS
<1>1. CASE \E w \in Workers : Worker(w)
  BY <1>1, WorkerResultInv
<1>2. CASE MainThread \/ ScanThread \/ Stop
  BY <1>2, ControlResultInv
<1>3. CASE UNCHANGED vars
  BY <1>3 DEF vars, scanVars, ResultInv, ResultsAreFinal, PullingHasPuller,
              IdleOnceEnded, repo
<1> QED
  BY <1>1, <1>2, <1>3 DEF Next, Exited

\* What is published of a path in repo_infos fits what its worker does, and the status
\* line what the scan does, in every reachable state (process_repo in
\* src/scanner/repo.cpp, scan_repos in src/scanner/scan.cpp).
THEOREM ResultInvariant == Spec => []ResultInv
<1> QED
  BY ClaimInvariant, InitResultInv, NextResultInv, PTL DEF Spec

\* A path is published as PULLING only while a worker is on it, or in a run that
\* is being stopped, so clearing stale busy state never has anything to clear.
THEOREM PullingOwned == Spec => []PullingIsOwned
<1>1. ResultInv => PullingIsOwned
  BY DEF ResultInv, PullingHasPuller, PullingIsOwned, Claimed
<1> QED
  BY <1>1, ResultInvariant, PTL

\* The status line says "Idle" when no scan thread exists.
THEOREM IdleBetween == Spec => []IdleBetweenScans
<1>1. ResultInv => IdleBetweenScans
  BY DEF ResultInv, IdleOnceEnded, IdleBetweenScans
<1> QED
  BY <1>1, ResultInvariant, PTL

\* A scan leaves nothing of itself: no worker is left outside it, and the status
\* line says so.
THEOREM ScanBoundariesHold == Spec => []ScanBoundaries
<1>1. WorkersInsideScan /\ IdleBetweenScans => ScanBoundaries
  BY DEF ScanBoundaries
<1> QED
  BY <1>1, NoWorkerOutsideScan, IdleBetween, PTL

-----------------------------------------------------------------------------
(***************************************************************************)
(* What is known of a path: `pulled` and NOT_GIT, if no list names a path  *)
(* twice.  The other workers are then on other paths (OneWorkerPerRepo).   *)
(***************************************************************************)
\* Claimed indices name different paths.
LEMMA ClaimsApart ==
  ASSUME ClaimInv, Unique(all_repos),
         NEW v \in Workers, NEW w \in Workers, v # w, Claimed(v), Claimed(w)
  PROVE  repo(v) # repo(w)
<1>1. idx[v] \in DOMAIN all_repos /\ idx[w] \in DOMAIN all_repos
  BY ScannerAssumption DEF ClaimInv, TypeOK, ClaimsInRange
<1>2. idx[v] # idx[w]
  BY DEF ClaimInv, ClaimsDistinct
<1> QED
  BY <1>1, <1>2 DEF repo, Unique

\* A worker that examines a path after its step did so before, or has just read
\* what is published; and it never forgets that the path was pulled.
LEMMA PulledNotForgotten ==
  ASSUME ClaimInv, NEW w \in Workers, Worker(w), Examining(w)'
  PROVE  /\ idx'[w] = idx[w]
         /\ \/ Examining(w) /\ (ri[w].pulled => ri'[w].pulled)
            \/ Snapshot(w) /\ ri'[w].pulled = repo_infos[repo(w)].pulled
<1> USE DEF ClaimInv, TypeOK, RepoInfo, Goto, Examining
<1>1. CASE Snapshot(w)
  BY <1>1 DEF Snapshot
<1>2. CASE Validate(w)
  BY <1>2 DEF Validate, Decided, Failed
<1>3. CASE Decide(w)
  BY <1>3 DEF Decide, Decided, Failed
<1>4. CASE Insert(w)
  BY <1>4 DEF Insert, Inserting
<1>5. CASE Pull(w)
  <2>1. pc[w] = "pull" /\ UNCHANGED idx
    BY <1>5 DEF Pull
  <2>2. ri[w].pulled => ri'[w].pulled
    BY <1>5 DEF Pull, PullEnded, Failed
  <2> QED
    BY <2>1, <2>2
<1>6. CASE Hook(w) \/ StartPull(w)
  BY <1>6 DEF Hook, StartPull
<1>7. CASE FetchIndex(w) \/ CheckRunning(w) \/ SkipCheck(w)
  BY <1>7 DEF FetchIndex, CheckRunning, SkipCheck
<1>8. CASE Exclude(w) \/ AfterRepo(w)
  BY <1>8 DEF Exclude, AfterRepo
<1>9. CASE WorkerException(w) \/ Enter(w) \/ Look(w) \/ Publish(w)
  BY <1>9 DEF WorkerException, Enter, Look, Publish
<1> QED
  BY <1>1, <1>2, <1>3, <1>4, <1>5, <1>6, <1>7, <1>8, <1>9 DEF Worker

\* Whoever publishes has claimed the path.
LEMMA PublisherClaims ==
  ASSUME NEW w \in Workers, Exclude(w) \/ StartPull(w) \/ Publish(w)
  PROVE  Claimed(w) /\ (pc[w] = "exclude" \/ Examining(w))
  BY DEF Exclude, StartPull, Publish, Claimed, Examining

\* The step of another worker changes nothing of a path that is claimed.
LEMMA OthersPathUntouched ==
  ASSUME ClaimInv, Unique(all_repos),
         NEW w \in Workers, Worker(w), NEW v \in Workers, v # w, Claimed(v)
  PROVE  repo_infos'[repo(v)] = repo_infos[repo(v)]
<1>1. CASE UNCHANGED repo_infos
  BY <1>1
<1>2. CASE Exclude(w) \/ StartPull(w) \/ Publish(w)
  <2>1. repo(v) # repo(w)
    BY <1>2, ClaimsApart, PublisherClaims
  <2>2. repo(v) \in Repos
    BY RepoType DEF ClaimInv
  <2> QED
    BY <1>2, <2>1, <2>2, WhoPublishes DEF ClaimInv, TypeOK
<1> QED
  BY <1>1, <1>2, WhoPublishes

\* `pulled` after a step of a worker: no path loses it.
LEMMA WorkerKeepsPulled ==
  ASSUME ClaimInv, PulledIsKnown, NEW w \in Workers, Worker(w), NEW p \in Repos,
         repo_infos[p].pulled
  PROVE  repo_infos'[p].pulled
<1> USE DEF ClaimInv, TypeOK, RepoInfo
<1>1. CASE UNCHANGED repo_infos
  BY <1>1
<1>2. CASE Exclude(w) /\ repo_infos' = [repo_infos EXCEPT ![repo(w)].status = "SKIPPED"]
  BY <1>2
<1>3. CASE (StartPull(w) \/ Publish(w)) /\ repo_infos' = [repo_infos EXCEPT ![repo(w)] = ri[w]]
  BY <1>3, PublisherClaims DEF PulledIsKnown, StartPull, Publish, Examining
<1> QED
  BY <1>1, <1>2, <1>3, WhoPublishes

\* A worker that is on a path that was pulled knows it: its step keeps that.
LEMMA WorkerPulledIsKnown ==
  ASSUME ClaimInv, Unique(all_repos), PulledIsKnown, NEW w \in Workers, Worker(w)
  PROVE  PulledIsKnown'
<1> SUFFICES ASSUME NEW v \in Workers, Examining(v)', repo_infos'[repo(v)'].pulled
             PROVE  ri'[v].pulled
  BY DEF PulledIsKnown
<1>0. /\ UNCHANGED all_repos
      /\ \A u \in Workers \ {w} :
           pc'[u] = pc[u] /\ idx'[u] = idx[u] /\ ri'[u] = ri[u]
  BY OthersUntouched
<1>1. CASE v # w
  <2>1. Examining(v) /\ Claimed(v) /\ repo(v)' = repo(v) /\ ri'[v] = ri[v]
    BY <1>0, <1>1 DEF Examining, Claimed, repo
  <2>2. repo_infos'[repo(v)] = repo_infos[repo(v)]
    BY <1>1, <2>1, OthersPathUntouched
  <2> QED
    BY <2>1, <2>2 DEF PulledIsKnown
<1>2. CASE v = w
  <2>1. repo(w)' = repo(w)
    BY <1>0, <1>2, PulledNotForgotten DEF repo
  <2>2. CASE Snapshot(w) /\ ri'[w].pulled = repo_infos[repo(w)].pulled
    BY <1>2, <2>1, <2>2 DEF Snapshot
  <2>3. CASE Examining(w) /\ (ri[w].pulled => ri'[w].pulled)
    <3>1. CASE StartPull(w)
      <4>1. repo(w) \in Repos
        BY <3>1, RepoType, PublisherClaims DEF ClaimInv
      <4> QED
        BY <1>2, <2>1, <3>1, <4>1 DEF StartPull, ClaimInv, TypeOK
    <3>2. CASE ~StartPull(w)
      <4>1. ~Publish(w) /\ ~Exclude(w)
        BY <1>2 DEF Publish, Exclude, Goto, Examining, ClaimInv, TypeOK
      <4> QED
        BY <1>2, <2>1, <2>3, <3>2, <4>1, WhoPublishes DEF PulledIsKnown
    <3> QED
      BY <3>1, <3>2
  <2> QED
    BY <1>2, <2>2, <2>3, PulledNotForgotten
<1> QED
  BY <1>1, <1>2

\* The main thread and the scan thread never forget that a path was pulled.
LEMMA ControlKeepsPulled ==
  ASSUME ClaimInv, PulledIsKnown, MainThread \/ ScanThread \/ Stop \/ UNCHANGED vars
  PROVE  PulledIsKnown' /\ \A p \in Repos : repo_infos[p].pulled => repo_infos'[p].pulled
<1> USE DEF ClaimInv, TypeOK, RepoInfo, WorkersInsideScan, PulledIsKnown, Examining
<1>1. CASE StartScan
  BY <1>1 DEF StartScan, ClearStaleBusy, FlagFollowsThread
<1>2. CASE BeginScan
  <2>1. \A p \in Repos : repo_infos'[p].pulled = repo_infos[p].pulled
    BY <1>2 DEF BeginScan, ResetStatuses
  <2>2. \A w \in Workers : pc'[w] \in {"loop", "off"}
    BY <1>2 DEF BeginScan
  <2> QED
    BY <2>1, <2>2
<1>3. CASE JoinScan \/ Exit \/ EndScan \/ GoIdle \/ Stop \/ UNCHANGED vars
  BY <1>3 DEF JoinScan, Exit, EndScan, GoIdle, Stop, scanVars, vars, repo
<1> QED
  BY <1>1, <1>2, <1>3 DEF MainThread, ScanThread

\* The pulled flag of a path survives every later result of the session.
THEOREM PulledKept ==
  ASSUME \A l \in Lists : Unique(l)
  PROVE  Spec => PulledIsKept
<1>1. Init => PulledIsKnown
  BY DEF Init, PulledIsKnown, Examining
<1>2. ClaimInv /\ PulledIsKnown /\ [Next]_vars =>
        PulledIsKnown' /\ [\A p \in Repos : repo_infos[p].pulled => repo_infos'[p].pulled]_vars
  <2> SUFFICES ASSUME ClaimInv, PulledIsKnown, [Next]_vars
               PROVE  PulledIsKnown' /\ \A p \in Repos : repo_infos[p].pulled => repo_infos'[p].pulled
    OBVIOUS
  <2>1. Unique(all_repos)
    BY DEF ClaimInv, TypeOK
  <2>2. CASE \E w \in Workers : Worker(w)
    BY <2>1, <2>2, WorkerPulledIsKnown, WorkerKeepsPulled
  <2>3. CASE MainThread \/ ScanThread \/ Stop \/ UNCHANGED vars
    BY <2>3, ControlKeepsPulled
  <2> QED
    BY <2>2, <2>3 DEF Next, Exited
<1> QED
  BY <1>1, <1>2, ClaimInvariant, PTL DEF Spec, PulledIsKept
-----------------------------------------------------------------------------
(***************************************************************************)
(* A path found not to be a repository.                                    *)
(***************************************************************************)

\* Where a worker comes from that is on a path after its step, and what it knew.
LEMMA ApartStep ==
  ASSUME ClaimInv, ExcludedApart, NEW w \in Workers, Worker(w)
  PROVE  /\ pc'[w] = "exclude" => repo(w) \in opts.exclude /\ idx'[w] = idx[w]
         /\ pc'[w] \in {"enter", "look", "snapshot"} \/ Examining(w)' =>
              repo(w) \notin opts.exclude /\ idx'[w] = idx[w]
         /\ NotGitApart /\ (pc'[w] = "snapshot" \/ Examining(w)') =>
              repo_infos[repo(w)].status # "NOT_GIT"
         /\ pc'[w] = "start_pull" => ri'[w].status = "PULLING"
<1> USE DEF ClaimInv, TypeOK, RepoInfo, Goto, Examining, ExcludedApart, NotGitApart
<1>1. CASE SkipCheck(w)
  BY <1>1 DEF SkipCheck
<1>2. CASE Enter(w) \/ Look(w)
  BY <1>2 DEF Enter, Look
<1>3. CASE Snapshot(w)
  BY <1>3 DEF Snapshot
<1>4. CASE Validate(w)
  BY <1>4 DEF Validate, Decided, Failed
<1>5. CASE Decide(w)
  BY <1>5 DEF Decide, Decided, Failed
<1>6. CASE Insert(w)
  BY <1>6 DEF Insert, Inserting
<1>7. CASE Pull(w)
  BY <1>7 DEF Pull, PullEnded, Failed
<1>8. CASE Hook(w) \/ StartPull(w)
  BY <1>8 DEF Hook, StartPull
<1>9. CASE FetchIndex(w) \/ CheckRunning(w) \/ Exclude(w) \/ AfterRepo(w)
  BY <1>9 DEF FetchIndex, CheckRunning, Exclude, AfterRepo
<1>10. CASE WorkerException(w) \/ Publish(w)
  BY <1>10 DEF WorkerException, Publish
<1> QED
  BY <1>1, <1>2, <1>3, <1>4, <1>5, <1>6, <1>7, <1>8, <1>9, <1>10 DEF Worker

\* A step of a worker puts NOT_GIT on no path that is excluded, and takes it off
\* none, if nobody is on a path that has it.
LEMMA WorkerKeepsNotGit ==
  ASSUME ClaimInv, ExcludedApart, NEW w \in Workers, Worker(w), NEW p \in Repos
  PROVE  /\ NotGitApart /\ repo_infos[p].status = "NOT_GIT" =>
              repo_infos'[p].status = "NOT_GIT"
         /\ repo_infos'[p].status = "NOT_GIT" => p \notin opts.exclude
<1> USE DEF ClaimInv, TypeOK, RepoInfo
<1>1. CASE UNCHANGED repo_infos
  BY <1>1 DEF ExcludedApart
<1>2. CASE Exclude(w) /\ repo_infos' = [repo_infos EXCEPT ![repo(w)].status = "SKIPPED"]
  BY <1>2 DEF Exclude, ExcludedApart
<1>3. CASE (StartPull(w) \/ Publish(w)) /\ repo_infos' = [repo_infos EXCEPT ![repo(w)] = ri[w]]
  BY <1>3 DEF StartPull, Publish, ExcludedApart, NotGitApart, Examining
<1> QED
  BY <1>1, <1>2, <1>3, WhoPublishes

\* A worker that passed the ignore list is on no path of it: the step of a worker keeps that.
LEMMA WorkerExcludedApart ==
  ASSUME ClaimInv, ExcludedApart, NEW w \in Workers, Worker(w)
  PROVE  ExcludedApart'
<1>0. /\ UNCHANGED <<opts, all_repos>>
      /\ \A u \in Workers \ {w} :
           pc'[u] = pc[u] /\ idx'[u] = idx[u] /\ ri'[u] = ri[u]
  BY OthersUntouched
<1>1. \A p \in Repos : repo_infos'[p].status = "NOT_GIT" => p \notin opts'.exclude
  BY <1>0, WorkerKeepsNotGit
<1>2. ASSUME NEW v \in Workers
      PROVE  /\ pc'[v] = "exclude" => repo(v)' \in opts'.exclude
             /\ pc'[v] \in {"enter", "look", "snapshot"} \/ Examining(v)' => repo(v)' \notin opts'.exclude
             /\ pc'[v] = "start_pull" => ri'[v].status = "PULLING"
  <2>1. CASE v # w
    BY <1>0, <2>1 DEF repo, Examining, ExcludedApart
  <2>2. CASE v = w
    <3>1. idx'[w] = idx[w] => repo(w)' = repo(w)
      BY <1>0 DEF repo
    <3> QED
      BY <1>0, <2>2, <3>1, ApartStep
  <2> QED
    BY <2>1, <2>2
<1> QED
  BY <1>1, <1>2 DEF ExcludedApart

\* A worker that has looked is on no path known not to be a repository, and nobody
\* else finds that out about a path the list names once.
LEMMA WorkerNotGitApart ==
  ASSUME ClaimInv, Unique(all_repos), ExcludedApart, NotGitApart,
         NEW w \in Workers, Worker(w)
  PROVE  NotGitApart'
<1>0. /\ UNCHANGED <<opts, all_repos>>
      /\ \A u \in Workers \ {w} :
           pc'[u] = pc[u] /\ idx'[u] = idx[u] /\ ri'[u] = ri[u]
  BY OthersUntouched
<1>1. ASSUME NEW v \in Workers, pc'[v] = "snapshot" \/ Examining(v)'
      PROVE  repo_infos'[repo(v)'].status # "NOT_GIT"
  <2>1. CASE v # w
    <3>1. (pc[v] = "snapshot" \/ Examining(v)) /\ repo(v)' = repo(v)
      BY <1>0, <1>1, <2>1 DEF repo, Examining
    <3>2. Claimed(v)
      BY <3>1 DEF Examining, Claimed
    <3>3. repo_infos'[repo(v)] = repo_infos[repo(v)]
      BY <2>1, <3>2, OthersPathUntouched
    <3> QED
      BY <3>1, <3>3 DEF NotGitApart
  <2>2. CASE v = w
    <3>1. repo_infos[repo(w)].status # "NOT_GIT" /\ idx'[w] = idx[w]
      BY <1>1, <2>2, ApartStep
    <3>2. repo(w)' = repo(w)
      BY <1>0, <3>1 DEF repo
    <3>3. CASE StartPull(w)
      <4>1. repo(w) \in Repos
        BY <3>3, RepoType, PublisherClaims DEF ClaimInv
      <4> QED
        BY <2>2, <3>2, <3>3, <4>1 DEF StartPull, ExcludedApart, ClaimInv, TypeOK
    <3>4. CASE Publish(w) \/ Exclude(w)
      BY <1>1, <2>2, <3>4 DEF Publish, Exclude, Goto, Examining, ClaimInv, TypeOK
    <3>5. CASE UNCHANGED repo_infos
      BY <2>2, <3>1, <3>2, <3>5
    <3> QED
      BY <3>3, <3>4, <3>5, WhoPublishes
  <2> QED
    BY <2>1, <2>2
<1> QED
  BY <1>1 DEF NotGitApart

\* So do the main thread and the scan thread; what is NOT_GIT stays so.
LEMMA ControlExcludedApart ==
  ASSUME ClaimInv, ExcludedApart, MainThread \/ ScanThread \/ Stop \/ UNCHANGED vars
  PROVE  /\ ExcludedApart' /\ (NotGitApart => NotGitApart')
         /\ \A p \in Repos : repo_infos[p].status = "NOT_GIT" => repo_infos'[p].status = "NOT_GIT"
<1> USE DEF ClaimInv, TypeOK, RepoInfo, WorkersInsideScan, ExcludedApart, NotGitApart, Examining
<1>1. CASE StartScan
  <2>1. \A p \in Repos : repo_infos'[p].status = "NOT_GIT" <=> repo_infos[p].status = "NOT_GIT"
    BY <1>1 DEF StartScan, ClearStaleBusy
  <2>2. \A w \in Workers : pc'[w] = "off"
    BY <1>1 DEF StartScan, FlagFollowsThread
  <2>3. UNCHANGED opts
    BY <1>1 DEF StartScan
  <2> QED
    BY <2>1, <2>2, <2>3
<1>2. CASE BeginScan
  <2>1. \A p \in Repos : repo_infos'[p].status = "NOT_GIT" <=> repo_infos[p].status = "NOT_GIT"
    BY <1>2 DEF BeginScan, ResetStatuses
  <2>2. \A w \in Workers : pc'[w] \in {"loop", "off"}
    BY <1>2 DEF BeginScan
  <2>3. UNCHANGED opts
    BY <1>2 DEF BeginScan
  <2> QED
    BY <2>1, <2>2, <2>3
<1>3. CASE JoinScan \/ Exit \/ EndScan \/ GoIdle \/ Stop \/ UNCHANGED vars
  BY <1>3 DEF JoinScan, Exit, EndScan, GoIdle, Stop, scanVars, vars, repo
<1> QED
  BY <1>1, <1>2, <1>3 DEF MainThread, ScanThread

\* A path once found not to be a repository keeps that status.
THEOREM NotGitKept ==
  ASSUME \A l \in Lists : Unique(l)
  PROVE  Spec => NotGitIsFinal
<1>1. Init => ExcludedApart /\ NotGitApart
  BY DEF Init, ExcludedApart, NotGitApart, Examining, Fresh
<1>2. ClaimInv /\ ExcludedApart /\ NotGitApart /\ [Next]_vars =>
        /\ ExcludedApart' /\ NotGitApart'
        /\ [\A p \in Repos : repo_infos[p].status = "NOT_GIT" =>
              repo_infos'[p].status = "NOT_GIT"]_vars
  <2> SUFFICES ASSUME ClaimInv, ExcludedApart, NotGitApart, [Next]_vars
               PROVE  /\ ExcludedApart' /\ NotGitApart'
                      /\ \A p \in Repos : repo_infos[p].status = "NOT_GIT" =>
                           repo_infos'[p].status = "NOT_GIT"
    OBVIOUS
  <2>1. Unique(all_repos)
    BY DEF ClaimInv, TypeOK
  <2>2. CASE \E w \in Workers : Worker(w)
    BY <2>1, <2>2, WorkerExcludedApart, WorkerNotGitApart, WorkerKeepsNotGit
  <2>3. CASE MainThread \/ ScanThread \/ Stop \/ UNCHANGED vars
    BY <2>3, ControlExcludedApart
  <2> QED
    BY <2>2, <2>3 DEF Next, Exited
<1> QED
  BY <1>1, <1>2, ClaimInvariant, PTL DEF Spec, NotGitIsFinal
-----------------------------------------------------------------------------
(***************************************************************************)
(* What a scan that was not stopped has handled.                           *)
(***************************************************************************)

\* What a worker is about to publish after its step is a decision.
LEMMA OwnResultDecided ==
  ASSUME ClaimInv, ResultsAreDecided, NEW w \in Workers, Worker(w),
         pc'[w] \in {"start_pull", "insert", "insert_pull", "hook", "publish"}
  PROVE  ri'[w].status # "PENDING"
<1> USE DEF ClaimInv, TypeOK, RepoInfo, Goto, ResultsAreDecided
<1>1. CASE Validate(w)
  BY <1>1 DEF Validate, Decided, Failed
<1>2. CASE Decide(w)
  BY <1>2 DEF Decide, Decided, Failed
<1>3. CASE Insert(w)
  BY <1>3 DEF Insert, Inserting
<1>4. CASE Pull(w)
  BY <1>4 DEF Pull, PullEnded, Failed
<1>5. CASE Hook(w)
  BY <1>5 DEF Hook
<1>6. CASE FetchIndex(w) \/ CheckRunning(w) \/ SkipCheck(w) \/ Exclude(w) \/ AfterRepo(w)
  BY <1>6 DEF FetchIndex, CheckRunning, SkipCheck, Exclude, AfterRepo
<1>7. CASE WorkerException(w) \/ Enter(w) \/ Look(w) \/ Snapshot(w) \/ Publish(w) \/ StartPull(w)
  BY <1>7 DEF WorkerException, Enter, Look, Snapshot, Publish, StartPull
<1> QED
  BY <1>1, <1>2, <1>3, <1>4, <1>5, <1>6, <1>7 DEF Worker

\* skip_repos only grows during a scan, and a handled path stays handled.
LEMMA HandledStays ==
  ASSUME ClaimInv, ResultsAreDecided, NEW w \in Workers, Worker(w),
         NEW i \in DOMAIN all_repos, Handled(i)
  PROVE  Handled(i)'
<1>0. all_repos' = all_repos
  BY OthersUntouched
<1>1. skip_repos \subseteq skip_repos'
  <2>1. CASE Insert(w)
    BY <2>1 DEF Insert
  <2>2. CASE FetchIndex(w) \/ CheckRunning(w) \/ SkipCheck(w) \/ Exclude(w) \/ AfterRepo(w)
    BY <2>2 DEF FetchIndex, CheckRunning, SkipCheck, Exclude, AfterRepo
  <2>3. CASE WorkerException(w) \/ Enter(w) \/ Look(w) \/ Snapshot(w) \/ Validate(w) \/ Decide(w)
    BY <2>3 DEF WorkerException, Enter, Look, Snapshot, Validate, Decide
  <2>4. CASE Publish(w) \/ StartPull(w) \/ Pull(w) \/ Hook(w)
    BY <2>4 DEF Publish, StartPull, Pull, Hook
  <2> QED
    BY <2>1, <2>2, <2>3, <2>4 DEF Worker
<1>2. ASSUME NEW p \in Repos, repo_infos[p].status # "PENDING"
      PROVE  repo_infos'[p].status # "PENDING"
  <2> USE DEF ClaimInv, TypeOK, RepoInfo
  <2>1. CASE UNCHANGED repo_infos
    BY <1>2, <2>1
  <2>2. CASE repo_infos' = [repo_infos EXCEPT ![repo(w)].status = "SKIPPED"]
    BY <1>2, <2>2
  <2>3. CASE (StartPull(w) \/ Publish(w)) /\ repo_infos' = [repo_infos EXCEPT ![repo(w)] = ri[w]]
    BY <1>2, <2>3 DEF StartPull, Publish, ResultsAreDecided
  <2> QED
    BY <2>1, <2>2, <2>3, WhoPublishes
<1>3. all_repos[i] \in Repos
  BY ScannerAssumption DEF ClaimInv, TypeOK
<1> QED
  BY <1>0, <1>1, <1>2, <1>3 DEF Handled

\* A worker gives its index up only when the path is handled or the run stops.
LEMMA ClaimEndsHandled ==
  ASSUME ClaimInv, ResultsAreDecided, NEW w \in Workers, Worker(w), Claimed(w), running',
         NEW i, idx[w] = i
  PROVE  (Claimed(w)' /\ idx'[w] = i) \/ Handled(i)'
<1> USE DEF ClaimInv, TypeOK, RepoInfo, Goto, Claimed, sharedVars
<1>0. repo(w) \in Repos
  BY RepoType
<1>1. CASE SkipCheck(w)
  <2>1. CASE repo(w) \in skip_repos
    BY <1>1, <2>1 DEF SkipCheck, Handled, repo
  <2>2. CASE repo(w) \notin skip_repos
    BY <1>1, <2>2 DEF SkipCheck, SkipLookup
  <2> QED
    BY <2>1, <2>2
<1>2. CASE Exclude(w)
  <2>1. repo_infos'[repo(w)].status = "SKIPPED" /\ UNCHANGED all_repos
    BY <1>0, <1>2 DEF Exclude
  <2> QED
    BY <2>1 DEF Handled, repo
<1>3. CASE Enter(w) \/ Look(w)
  BY <1>3 DEF Enter, Look, Handled, repo
<1>4. CASE Publish(w)
  <2>1. repo_infos'[repo(w)] = ri[w] /\ ri[w].status # "PENDING" /\ UNCHANGED all_repos
    BY <1>0, <1>4 DEF Publish, ResultsAreDecided
  <2> QED
    BY <2>1 DEF Handled, repo
<1>5. CASE FetchIndex(w) \/ CheckRunning(w) \/ AfterRepo(w) \/ WorkerException(w)
  BY <1>5 DEF FetchIndex, CheckRunning, AfterRepo, WorkerException
<1>6. CASE Snapshot(w) \/ StartPull(w) \/ Hook(w) \/ Insert(w)
  BY <1>6 DEF Snapshot, StartPull, Hook, Insert
<1>7. CASE Validate(w) \/ Decide(w)
  BY <1>7 DEF Validate, Decide, Decided, Failed
<1>8. CASE Pull(w)
  BY <1>8 DEF Pull, PullEnded, Failed
<1> QED
  BY <1>1, <1>2, <1>3, <1>4, <1>5, <1>6, <1>7, <1>8 DEF Worker

\* Who leaves a run that goes on has seen the end of the list.
LEMMA LeavesAtEnd ==
  ASSUME ClaimInv, NEW w \in Workers, Worker(w), pc'[w] = "off", running'
  PROVE  next_index' > Len(all_repos)
<1> USE DEF ClaimInv, TypeOK, Goto, sharedVars
<1>1. CASE FetchIndex(w)
  <2>1. Len(all_repos) \in Nat /\ next_index \in Nat
    BY ScannerAssumption
  <2> QED
    BY <1>1, <2>1 DEF FetchIndex
<1>2. CASE CheckRunning(w) \/ AfterRepo(w) \/ WorkerException(w)
  BY <1>2 DEF CheckRunning, AfterRepo, WorkerException
<1>3. CASE SkipCheck(w) \/ Exclude(w) \/ Enter(w) \/ Look(w) \/ Snapshot(w)
  BY <1>3 DEF SkipCheck, Exclude, Enter, Look, Snapshot
<1>4. CASE Validate(w) \/ Decide(w)
  BY <1>4 DEF Validate, Decide, Decided, Failed
<1>5. CASE Insert(w) \/ Publish(w) \/ StartPull(w) \/ Pull(w) \/ Hook(w)
  BY <1>5 DEF Insert, Publish, StartPull, Pull, PullEnded, Failed, Hook
<1> QED
  BY <1>1, <1>2, <1>3, <1>4, <1>5 DEF Worker
\* A pool has a worker if there is a path to work on.
LEMMA PoolNotEmpty ==
  ASSUME ClaimInv, Len(all_repos) > 0
  PROVE  1 \in Workers /\ 1 <= PoolSize
<1>1. opts.concurrency \in Nat /\ Len(all_repos) \in Nat /\ MaxThreads \in Nat \ {0}
  BY ScannerAssumption DEF ClaimInv, TypeOK, Options
<1> QED
  BY <1>1 DEF PoolSize, Workers

\* The account of a scan under way: the part of CoverInv that is about the workers.
AccountInv == ClaimsAreHandled /\ PoolStaysToTheEnd /\ ResultsAreDecided

\* A worker's step keeps the account of what it has examined.
LEMMA WorkerAccount ==
  ASSUME ClaimInv, AccountInv, NEW w \in Workers, Worker(w)
  PROVE  AccountInv'
<1> USE DEF AccountInv
<1>0. /\ UNCHANGED <<opts, all_repos, main, scanning, scan_thread, unjoined>>
      /\ \A v \in Workers \ {w} :
           pc'[v] = pc[v] /\ idx'[v] = idx[v] /\ ri'[v] = ri[v]
  BY OthersUntouched
<1>1. running' => running
  BY WorkerNeverResumes DEF ClaimInv, TypeOK
<1>2. ResultsAreDecided'
  BY <1>0, OwnResultDecided DEF ResultsAreDecided
<1>3. ASSUME running', NEW i \in DOMAIN all_repos, i < next_index'
      PROVE  Handled(i)' \/ \E v \in Workers : Claimed(v)' /\ idx'[v] = i
  <2>0. i \in Nat /\ next_index \in Nat /\ Len(all_repos) \in Nat /\ i <= Len(all_repos)
    BY ScannerAssumption DEF ClaimInv, TypeOK
  <2>1. CASE FetchIndex(w) /\ i = next_index
    <3>1. idx'[w] = i /\ pc'[w] = "skip_check"
      BY <2>0, <2>1 DEF FetchIndex, Goto, ClaimInv, TypeOK
    <3> QED
      BY <3>1 DEF Claimed
  <2>2. CASE i < next_index
    <3>1. Handled(i) \/ \E v \in Workers : Claimed(v) /\ idx[v] = i
      BY <1>1, <1>3, <2>2, WorkerInScan DEF ClaimsAreHandled
    <3>2. CASE Handled(i)
      BY <3>2, HandledStays
    <3>3. ASSUME NEW v \in Workers, Claimed(v), idx[v] = i
          PROVE  Handled(i)' \/ \E u \in Workers : Claimed(u)' /\ idx'[u] = i
      <4>1. CASE v = w
        BY <1>3, <3>3, <4>1, ClaimEndsHandled
      <4>2. CASE v # w
        BY <1>0, <3>3, <4>2 DEF Claimed
      <4> QED
        BY <4>1, <4>2
    <3> QED
      BY <3>1, <3>2, <3>3
  <2>3. CASE ~FetchIndex(w)
    <3>1. next_index' = next_index
      BY <2>3, WorkerKeepsClaim
    <3> QED
      BY <1>3, <2>2, <3>1
  <2>4. FetchIndex(w) => next_index' = next_index + 1
    BY DEF FetchIndex
  <2> QED
    BY <1>3, <2>0, <2>1, <2>2, <2>3, <2>4
<1>4. ClaimsAreHandled'
  BY <1>0, <1>3 DEF ClaimsAreHandled
<1>5. PoolStaysToTheEnd'
  <2>1. next_index' >= next_index /\ next_index \in Nat /\ next_index' \in Nat
    BY WorkerKeepsClaim DEF FetchIndex, ClaimInv, TypeOK
  <2>2. ASSUME running', NEW v \in Workers, v <= PoolSize, pc'[v] = "off"
        PROVE  next_index' > Len(all_repos)
    <3>1. CASE v = w
      BY <2>2, <3>1, LeavesAtEnd
    <3>2. CASE v # w
      <4>1. next_index > Len(all_repos)
        BY <1>0, <1>1, <2>2, <3>2, WorkerInScan DEF PoolStaysToTheEnd
      <4>2. Len(all_repos) \in Nat
        BY ScannerAssumption DEF ClaimInv, TypeOK
      <4> QED
        BY <2>1, <4>1, <4>2
    <3> QED
      BY <3>1, <3>2
  <2>3. PoolSize' = PoolSize
    BY <1>0 DEF PoolSize
  <2> QED
    BY <1>0, <2>2, <2>3 DEF PoolStaysToTheEnd
<1> QED
  BY <1>2, <1>4, <1>5

\* The scan thread opens the account with an empty one, and closes it.
LEMMA ScanAccount ==
  ASSUME ClaimInv, AccountInv, ScanThread
  PROVE  AccountInv'
<1> USE DEF AccountInv, ClaimInv, TypeOK, WorkersInsideScan, ResultsAreDecided
<1>1. CASE BeginScan
  <2>1. /\ next_index' = 1 /\ UNCHANGED <<opts, all_repos>>
        /\ pc' = [w \in Workers |-> IF w <= PoolSize THEN "loop" ELSE "off"]
    BY <1>1 DEF BeginScan
  <2>2. ClaimsAreHandled'
    <3>1. \A i \in DOMAIN all_repos : ~(i < 1)
      BY ScannerAssumption
    <3> QED
      BY <2>1, <3>1 DEF ClaimsAreHandled
  <2>3. PoolStaysToTheEnd'
    BY <2>1 DEF PoolStaysToTheEnd, PoolSize
  <2> QED
    BY <2>1, <2>2, <2>3
<1>2. CASE EndScan
  BY <1>2 DEF EndScan, ClaimsAreHandled, PoolStaysToTheEnd
<1>3. CASE GoIdle
  BY <1>3 DEF GoIdle, ClaimsAreHandled, PoolStaysToTheEnd, Handled, Claimed, PoolSize
<1> QED
  BY <1>1, <1>2, <1>3 DEF ScanThread

\* A scan whose pool is gone, in a run that goes on, has handled its list.
LEMMA EndIsHandled ==
  ASSUME ClaimInv, AccountInv, EndScan, running
  PROVE  \A i \in DOMAIN all_repos : Handled(i)
<1> SUFFICES ASSUME NEW i \in DOMAIN all_repos PROVE Handled(i)
  OBVIOUS
<1>1. scan_thread = "working" /\ \A w \in Workers : pc[w] = "off"
  BY DEF EndScan
<1>2. Len(all_repos) \in Nat /\ i \in 1..Len(all_repos) /\ next_index \in Nat
  BY ScannerAssumption DEF ClaimInv, TypeOK
<1>3. 1 \in Workers /\ 1 <= PoolSize
  BY <1>2, PoolNotEmpty
<1>4. next_index > Len(all_repos)
  BY <1>1, <1>3 DEF AccountInv, PoolStaysToTheEnd
<1>5. i < next_index
  BY <1>2, <1>4
<1> QED
  BY <1>1, <1>5 DEF AccountInv, ClaimsAreHandled, Claimed

\* What a scan that ended has handled stays handled until the next one begins: the
\* steps of the workers and of the scan thread keep CoverInv,
LEMMA ScanStepCoverInv ==
  ASSUME ClaimInv, CoverInv, ScanThread \/ \E w \in Workers : Worker(w)
  PROVE  CoverInv'
<1>0. AccountInv
  BY DEF CoverInv, AccountInv
<1>1. ASSUME NEW w \in Workers, Worker(w) PROVE CoverInv'
  <2>1. AccountInv'
    BY <1>0, <1>1, WorkerAccount
  <2>2. ScanCoversList'
    BY <1>1, WorkerInScan, OthersUntouched DEF ScanCoversList
  <2> QED
    BY <2>1, <2>2 DEF AccountInv, CoverInv
<1>2. CASE ScanThread
  <2>1. AccountInv'
    BY <1>0, <1>2, ScanAccount
  <2>2. ScanCoversList'
    <3>1. CASE BeginScan
      BY <3>1 DEF BeginScan, ScanCoversList
    <3>2. CASE EndScan
      <4>1. UNCHANGED <<running, all_repos, repo_infos, skip_repos>>
        BY <3>2 DEF EndScan
      <4>2. running => \A i \in DOMAIN all_repos : Handled(i)
        BY <1>0, <3>2, EndIsHandled
      <4> QED
        BY <4>1, <4>2 DEF ScanCoversList, Handled
    <3>3. CASE GoIdle
      BY <3>3 DEF GoIdle, ScanCoversList, CoverInv
    <3> QED
      BY <1>2, <3>1, <3>2, <3>3 DEF ScanThread
  <2> QED
    BY <2>1, <2>2 DEF AccountInv, CoverInv
<1> QED
  BY <1>1, <1>2

\* and so does the main thread.
LEMMA MainCoverInv ==
  ASSUME ClaimInv, CoverInv, MainThread \/ Stop \/ UNCHANGED vars
  PROVE  CoverInv'
<1> USE DEF CoverInv, ClaimInv, TypeOK, WorkersInsideScan, FlagFollowsThread,
            ResultsAreDecided, ClaimsAreHandled, PoolStaysToTheEnd, ScanCoversList
<1>1. CASE StartScan
  BY <1>1 DEF StartScan
<1>2. CASE JoinScan \/ Stop
  BY <1>2 DEF JoinScan, Stop, Handled, Claimed, PoolSize
<1>3. CASE Exit \/ UNCHANGED vars
  BY <1>3 DEF Exit, vars, scanVars, Handled, Claimed, PoolSize
<1> QED
  BY <1>1, <1>2, <1>3 DEF MainThread

\* The parts of CoverInv hold together in every reachable state.
THEOREM CoverInvariant == Spec => []CoverInv
<1>1. Init => CoverInv
  BY DEF Init, CoverInv, ClaimsAreHandled, PoolStaysToTheEnd, ResultsAreDecided,
         ScanCoversList
<1>2. ClaimInv /\ CoverInv /\ [Next]_vars => CoverInv'
  BY ScanStepCoverInv, MainCoverInv DEF Next, Exited
<1> QED
  BY <1>1, <1>2, ClaimInvariant, PTL DEF Spec

\* When a scan ends in a run that goes on, every path of the list was handled:
\* whatever the pool size, the order of the workers and the races on skip_repos.
THEOREM ScanCovers == Spec => []ScanCoversList
<1>1. CoverInv => ScanCoversList
  BY DEF CoverInv
<1> QED
  BY <1>1, CoverInvariant, PTL

-----------------------------------------------------------------------------
(***************************************************************************)
(* With a pool of one a path on skip_repos is not pulled: no insert can    *)
(* overlap a lookup, and between the lookup of validate_repo and the pull  *)
(* the only worker inserts nothing.                                        *)
(***************************************************************************)
PoolInv == \A w \in Workers : pc[w] # "off" => w <= PoolSize

\* What the only worker found not to be skipped stays so until it has pulled.
SkipInv ==
  ~opts.retry_skipped /\ PoolSize = 1 =>
    \A w \in Workers :
      pc[w] \in {"decide", "start_pull", "pull"} => repo(w) \notin skip_repos

\* In a pool of one nobody races with the worker for skip_repos.
LEMMA OnlyOneNoRace ==
  ASSUME TypeOK, PoolInv, PoolSize = 1, NEW w \in Workers, pc[w] # "off"
  PROVE  ~Raced(w) /\ \A v \in Workers \ {w} : pc[v] = "off"
<1>1. \A v \in Workers : pc[v] # "off" => v = 1
  BY ScannerAssumption DEF PoolInv, Workers
<1> QED
  BY <1>1 DEF Raced, Inserting

\* The only worker leaves "decide" and what follows it before it inserts.
LEMMA OwnPathNotSkipped ==
  ASSUME ClaimInv, PoolInv, SkipInv, NEW w \in Workers, Worker(w),
         ~opts.retry_skipped, PoolSize = 1,
         pc'[w] \in {"decide", "start_pull", "pull"}
  PROVE  repo(w)' \notin skip_repos'
<1> USE DEF ClaimInv, TypeOK, Goto, sharedVars, repo
<1>1. CASE Validate(w)
  <2>1. ~Raced(w)
    BY <1>1, OnlyOneNoRace DEF Validate
  <2>2. repo(w) \notin skip_repos
    BY <1>1, <2>1 DEF Validate, Decided, Failed, SkipLookup
  <2> QED
    BY <1>1, <2>2 DEF Validate
<1>2. CASE Decide(w) \/ StartPull(w)
  BY <1>2 DEF Decide, Decided, Failed, StartPull, SkipInv
<1>3. CASE Insert(w) \/ Publish(w) \/ Hook(w) \/ Enter(w) \/ Look(w) \/ Snapshot(w)
  BY <1>3 DEF Insert, Publish, Hook, Enter, Look, Snapshot
<1>4. CASE Pull(w)
  BY <1>4 DEF Pull, PullEnded, Failed
<1>5. CASE FetchIndex(w) \/ CheckRunning(w) \/ SkipCheck(w) \/ Exclude(w)
  BY <1>5 DEF FetchIndex, CheckRunning, SkipCheck, Exclude
<1>6. CASE AfterRepo(w) \/ WorkerException(w)
  BY <1>6 DEF AfterRepo, WorkerException
<1> QED
  BY <1>1, <1>2, <1>3, <1>4, <1>5, <1>6 DEF Worker

\* A worker's step keeps it off the paths of skip_repos.
LEMMA WorkerSkipInv ==
  ASSUME ClaimInv, PoolInv, SkipInv, NEW w \in Workers, Worker(w)
  PROVE  PoolInv' /\ SkipInv'
<1>0. /\ UNCHANGED <<opts, all_repos, main, scanning, scan_thread, unjoined>>
      /\ \A v \in Workers \ {w} :
           pc'[v] = pc[v] /\ idx'[v] = idx[v] /\ ri'[v] = ri[v]
  BY OthersUntouched
<1>1. PoolSize' = PoolSize
  BY <1>0 DEF PoolSize
<1>2. pc[w] # "off"
  BY DEF Worker, FetchIndex, CheckRunning, SkipCheck, Exclude, AfterRepo, WorkerException,
         Enter, Look, Snapshot, Validate, Decide, Insert, Inserting, Publish, StartPull,
         Pull, Hook
<1>3. PoolInv'
  BY <1>0, <1>1, <1>2 DEF PoolInv
<1>4. ASSUME ~opts.retry_skipped, PoolSize = 1, NEW v \in Workers,
             pc'[v] \in {"decide", "start_pull", "pull"}
      PROVE  repo(v)' \notin skip_repos'
  <2>1. v = w
    BY <1>0, <1>2, <1>4, OnlyOneNoRace DEF ClaimInv
  <2> QED
    BY <1>4, <2>1, OwnPathNotSkipped
<1>5. SkipInv'
  BY <1>0, <1>1, <1>4 DEF SkipInv
<1> QED
  BY <1>3, <1>5

\* So do the main thread and the scan thread.
LEMMA ControlSkipInv ==
  ASSUME ClaimInv, PoolInv, SkipInv,
         MainThread \/ ScanThread \/ Stop \/ UNCHANGED vars
  PROVE  PoolInv' /\ SkipInv'
<1>1. CASE BeginScan
  <2>1. /\ UNCHANGED <<opts, all_repos>>
        /\ pc' = [w \in Workers |-> IF w <= PoolSize THEN "loop" ELSE "off"]
    BY <1>1 DEF BeginScan
  <2> QED
    BY <2>1 DEF PoolInv, SkipInv, PoolSize
<1>2. CASE ~BeginScan
  <2>1. UNCHANGED <<opts, all_repos, skip_repos, pc, idx>>
    BY <1>2 DEF MainThread, StartScan, JoinScan, Exit, ScanThread, EndScan, GoIdle, Stop,
                vars, scanVars
  <2> QED
    BY <2>1 DEF PoolInv, SkipInv, PoolSize, repo
<1> QED
  BY <1>1, <1>2

\* A path on skip_repos is not pulled by a pool of one, whatever the list and the
\* other options, unless skipped paths are retried.
THEOREM SkippedNotPulled == Spec => []SkippedAreNotPulled
<1>1. Init => PoolInv /\ SkipInv
  BY DEF Init, PoolInv, SkipInv
<1>2. ClaimInv /\ PoolInv /\ SkipInv /\ [Next]_vars => PoolInv' /\ SkipInv'
  BY WorkerSkipInv, ControlSkipInv DEF Next, Exited
<1>3. SkipInv => SkippedAreNotPulled
  BY DEF SkipInv, SkippedAreNotPulled
<1> QED
  BY <1>1, <1>2, <1>3, ClaimInvariant, PTL DEF Spec
=============================================================================
