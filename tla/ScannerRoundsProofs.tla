------------------------- MODULE ScannerRoundsProofs -------------------------
(***************************************************************************)
(* The scan engine implements Rounds, for every pool size, list and set of *)
(* options.  The initial states map to RoundInit; seeing `running` set is  *)
(* Ask, claiming an index is Take, finding the end of the list is Leave,   *)
(* giving an index up in any way is Return, the first critical section of  *)
(* a scan is Begin, joining the pool is End, and whatever clears `running` *)
(* is Stop; every other step stutters.  Each needs ClaimInv, and End needs *)
(* AccountInv besides: the pool was joined only because nothing was left   *)
(* or the process was asked to stop.                                       *)
(***************************************************************************)
EXTENDS ScannerProofs, ScannerRounds

\* The step of the abstract specification, which may stutter.
RoundStep == [Abstract!RoundNext]_(Abstract!roundVars)

\* A step that keeps who has claimed what keeps Taken.
LEMMA SameClaims ==
  ASSUME \A v \in Workers : /\ Claimed(v)' <=> Claimed(v)
                            /\ Claimed(v) => idx'[v] = idx[v]
  PROVE  Taken' = Taken
  BY DEF Taken

\* A step that brings nobody to the fetch, and nobody away from it, keeps Asking.
LEMMA SameAsking ==
  ASSUME \A v \in Workers : pc'[v] = "fetch" <=> pc[v] = "fetch"
  PROVE  Asking' = Asking
  BY DEF Asking

\* The indices that are taken are indices of the list.
LEMMA TakenInList ==
  ASSUME ClaimInv, NEW w \in Workers, Claimed(w)
  PROVE  idx[w] \in DOMAIN all_repos /\ idx[w] \in Taken
<1>1. all_repos \in Seq(Repos)
  BY ScannerAssumption DEF ClaimInv, TypeOK
<1>2. idx[w] \in 1..Len(all_repos)
  BY <1>1 DEF ClaimInv, TypeOK, ClaimsInRange
<1> QED
  BY <1>1, <1>2 DEF Taken

\* The initial states map to initial states of Rounds.
LEMMA InitRound == Init => Abstract!RoundInit
  BY DEF Init, Abstract!RoundInit, Open, Left, Asking, Taken, Claimed

-----------------------------------------------------------------------------
\* Claiming an index takes the task; at the end of the list the worker leaves.
LEMMA FetchTakes ==
  ASSUME ClaimInv, NEW w \in Workers, FetchIndex(w)
  PROVE  RoundStep
<1> USE DEF ClaimInv, TypeOK
<1>0. /\ all_repos \in Seq(Repos) /\ Len(all_repos) \in Nat
      /\ DOMAIN all_repos = 1..Len(all_repos)
      /\ next_index \in Nat /\ next_index >= 1
  BY ScannerAssumption
<1>1. /\ scan_thread = "working" /\ pc[w] = "fetch" /\ pc'[w] # "fetch"
      /\ UNCHANGED <<all_repos, scan_thread, running>>
      /\ next_index' = next_index + 1
      /\ \A v \in Workers \ {w} : pc'[v] = pc[v] /\ idx'[v] = idx[v]
      /\ ~Claimed(w)
  BY DEF FetchIndex, Goto, sharedVars, WorkersInsideScan, Claimed
<1>a. w \in Asking /\ Asking' = Asking \ {w}
  BY <1>1 DEF Asking
<1>2. CASE next_index <= Len(all_repos)
  <2>1. idx'[w] = next_index /\ pc'[w] = "skip_check"
    BY <1>0, <1>2 DEF FetchIndex, Goto
  <2>2. next_index \in Left /\ next_index \in DOMAIN all_repos
    BY <1>0, <1>1, <1>2 DEF Left, Open
  <2>3. Left' = Left \ {next_index}
    BY <1>0, <1>1 DEF Left, Open
  <2>4. Taken' = Taken \cup {next_index}
    <3>1. \A v \in Workers \ {w} : Claimed(v)' <=> Claimed(v)
      BY <1>1 DEF Claimed
    <3>2. Claimed(w)'
      BY <2>1 DEF Claimed
    <3> QED
      BY <1>1, <2>1, <3>1, <3>2 DEF Taken
  <2>5. Abstract!Take(w, next_index)
    BY <1>1, <1>a, <2>2, <2>3, <2>4 DEF Abstract!Take, Open
  <2> QED
    BY <2>2, <2>5 DEF RoundStep, Abstract!RoundNext
<1>3. CASE next_index > Len(all_repos)
  <2>1. pc'[w] = "off" /\ idx' = idx
    BY <1>0, <1>3 DEF FetchIndex, Goto
  <2>2. Left = {} /\ Left' = {}
    BY <1>0, <1>1, <1>3 DEF Left, Open
  <2>3. Taken' = Taken
    BY <1>1, <2>1, SameClaims DEF Claimed
  <2> QED
    BY <1>1, <1>a, <2>2, <2>3 DEF RoundStep, Abstract!RoundNext, Abstract!Leave, Open
<1> QED
  BY <1>0, <1>2, <1>3

\* Only the look at `running` brings a worker to the fetch, and only the fetch
\* takes it away.
LEMMA OnlyTestAsks ==
  ASSUME ClaimInv, NEW w \in Workers, Worker(w), ~FetchIndex(w), ~CheckRunning(w)
  PROVE  Asking' = Asking
<1> USE DEF ClaimInv, TypeOK, Goto
<1>1. pc'[w] # "fetch" /\ pc[w] # "fetch"
  <2>1. CASE SkipCheck(w) \/ Exclude(w) \/ AfterRepo(w) \/ WorkerException(w)
    BY <2>1 DEF SkipCheck, Exclude, AfterRepo, WorkerException
  <2>2. CASE Enter(w) \/ Look(w) \/ Snapshot(w)
    BY <2>2 DEF Enter, Look, Snapshot
  <2>3. CASE Validate(w) \/ Decide(w)
    BY <2>3 DEF Validate, Decide, Decided, Failed
  <2>4. CASE Insert(w) \/ Publish(w) \/ StartPull(w) \/ Pull(w) \/ Hook(w)
    BY <2>4 DEF Insert, Inserting, Publish, StartPull, Pull, PullEnded, Failed, Hook
  <2> QED
    BY <2>1, <2>2, <2>3, <2>4 DEF Worker
<1> QED
  BY <1>1, OthersUntouched, SameAsking

\* The look at `running`: a worker that sees it set asks for a task, and one that
\* does not leaves the scan.
LEMMA TestAsks ==
  ASSUME ClaimInv, NEW w \in Workers, CheckRunning(w)
  PROVE  RoundStep
<1>1. /\ Open /\ UNCHANGED <<all_repos, scan_thread, next_index, idx, running>>
      /\ pc[w] = "loop" /\ pc' = [pc EXCEPT ![w] = IF running THEN "fetch" ELSE "off"]
  BY DEF CheckRunning, Goto, sharedVars, Open, ClaimInv, WorkersInsideScan
<1>2. Open' = Open /\ Left' = Left
  BY <1>1 DEF Open, Left
<1>3. Taken' = Taken
  BY <1>1, SameClaims DEF Claimed, ClaimInv, TypeOK
<1>4. CASE running
  <2>1. Asking' = Asking \cup {w}
    BY <1>1, <1>4 DEF Asking, ClaimInv, TypeOK
  <2> QED
    BY <1>1, <1>2, <1>3, <1>4, <2>1 DEF RoundStep, Abstract!RoundNext, Abstract!Ask
<1>5. CASE ~running
  <2>1. Asking' = Asking
    BY <1>1, <1>5 DEF Asking, ClaimInv, TypeOK
  <2> QED
    BY <1>1, <1>2, <1>3, <2>1 DEF RoundStep, Abstract!roundVars
<1> QED
  BY <1>4, <1>5

\* The other steps of a worker: it gives its index back, or clears `running`
\* after it did, or changes nothing the abstract specification sees.
LEMMA WorkerReturns ==
  ASSUME ClaimInv, NEW w \in Workers, Worker(w), ~FetchIndex(w), ~CheckRunning(w)
  PROVE  RoundStep
<1>0. Asking' = Asking
  BY OnlyTestAsks
<1>1. /\ UNCHANGED <<all_repos, scan_thread, next_index, idx>>
      /\ \A v \in Workers : Claimed(v)' => Claimed(v)
      /\ \A v \in Workers \ {w} : Claimed(v)' <=> Claimed(v)
  BY WorkerKeepsClaim, OthersUntouched DEF Claimed
<1>2. Open' = Open /\ Left' = Left
  BY <1>1 DEF Open, Left
<1>3. ~running => ~running'
  BY WorkerNeverResumes
<1>4. CASE Claimed(w) /\ ~Claimed(w)'
  <2>1. Taken' = Taken \ {idx[w]}
    BY <1>1, <1>4 DEF Taken, ClaimInv, ClaimsDistinct
  <2>2. idx[w] \in DOMAIN all_repos /\ idx[w] \in Taken
    BY <1>4, TakenInList
  <2>3. Abstract!Return(idx[w])
    BY <1>0, <1>1, <1>2, <1>3, <2>1, <2>2 DEF Abstract!Return
  <2> QED
    BY <2>2, <2>3 DEF RoundStep, Abstract!RoundNext
<1>5. CASE Claimed(w) <=> Claimed(w)'
  <2>1. Taken' = Taken
    BY <1>1, <1>5, SameClaims
  <2>2. CASE running' = running
    BY <1>0, <1>1, <1>2, <2>1, <2>2 DEF RoundStep, Abstract!roundVars
  <2>3. CASE ~running'
    BY <1>0, <1>1, <1>2, <2>1, <2>3 DEF RoundStep, Abstract!RoundNext, Abstract!Stop
  <2>4. running \in BOOLEAN /\ running' \in BOOLEAN
    BY WorkerType DEF ClaimInv, TypeOK
  <2> QED
    BY <1>3, <2>2, <2>3, <2>4
<1> QED
  BY <1>1, <1>4, <1>5

-----------------------------------------------------------------------------
\* A scan begins with the whole list left.
LEMMA BeginScanBegins ==
  ASSUME ClaimInv, BeginScan
  PROVE  RoundStep
<1>1. /\ ~Open /\ Open' /\ next_index' = 1
      /\ UNCHANGED <<all_repos, running>>
      /\ \A w \in Workers : pc[w] = "off" /\ pc'[w] \in {"loop", "off"}
  BY DEF BeginScan, Open, ClaimInv, WorkersInsideScan
<1>2. Left' = DOMAIN all_repos
  <2>1. \A i \in DOMAIN all_repos : i >= 1
    BY ScannerAssumption DEF ClaimInv, TypeOK
  <2> QED
    BY <1>1, <2>1 DEF Left
<1>3. Taken' = Taken /\ Asking' = Asking
  BY <1>1 DEF Taken, Asking, Claimed
<1> QED
  BY <1>1, <1>2, <1>3 DEF RoundStep, Abstract!RoundNext, Abstract!Begin

\* When every worker was joined, nothing is taken; and nothing is left, or the
\* process was asked to stop: in a run that goes on worker 1 belongs to the pool
\* of a list that is not empty, and only left at the end of the list.
LEMMA EndScanEnds ==
  ASSUME ClaimInv, AccountInv, EndScan
  PROVE  RoundStep
<1>1. /\ Open /\ ~Open' /\ UNCHANGED <<all_repos, running, pc, idx>>
      /\ scan_thread = "working"
      /\ \A w \in Workers : pc[w] = "off"
  BY DEF EndScan, Open
<1>2. Taken = {} /\ Taken' = {} /\ Asking = {} /\ Asking' = {}
  BY <1>1 DEF Taken, Asking, Claimed
<1>3. Left' = {}
  BY <1>1 DEF Left
<1>4. ASSUME running PROVE Left = {}
  <2>1. /\ Len(all_repos) \in Nat /\ DOMAIN all_repos = 1..Len(all_repos)
        /\ next_index \in Nat
    BY ScannerAssumption DEF ClaimInv, TypeOK
  <2>2. CASE Len(all_repos) = 0
    BY <2>1, <2>2 DEF Left
  <2>3. CASE Len(all_repos) > 0
    <3>1. next_index > Len(all_repos)
      BY <1>1, <1>4, <2>3, PoolNotEmpty DEF AccountInv, PoolStaysToTheEnd
    <3> QED
      BY <2>1, <3>1 DEF Left
  <2> QED
    BY <2>1, <2>2, <2>3
<1>5. Abstract!End
  BY <1>1, <1>2, <1>3, <1>4 DEF Abstract!End
<1> QED
  BY <1>5 DEF RoundStep, Abstract!RoundNext

\* The main thread and the signals stop the work or change nothing of it.
LEMMA MainStops ==
  ASSUME ClaimInv, MainThread \/ GoIdle \/ Stop \/ UNCHANGED vars
  PROVE  RoundStep
<1>1. /\ UNCHANGED <<all_repos, next_index, idx, pc>>
      /\ running' = running \/ ~running'
      /\ Open' = Open
  <2> USE DEF Open, ClaimInv, TypeOK
  <2>1. CASE StartScan
    BY <2>1 DEF StartScan, FlagFollowsThread
  <2>2. CASE JoinScan
    BY <2>2 DEF JoinScan
  <2>3. CASE Exit \/ UNCHANGED vars
    BY <2>3 DEF Exit, vars, scanVars
  <2>4. CASE GoIdle
    BY <2>4 DEF GoIdle
  <2>5. CASE Stop
    BY <2>5 DEF Stop
  <2> QED
    BY <2>1, <2>2, <2>3, <2>4, <2>5 DEF MainThread
<1>2. Left' = Left
  BY <1>1 DEF Left
<1>3. Taken' = Taken /\ Asking' = Asking
  BY <1>1, SameClaims, SameAsking DEF Claimed
<1>4. CASE running' = running
  BY <1>1, <1>2, <1>3, <1>4 DEF RoundStep, Abstract!roundVars
<1>5. CASE ~running'
  BY <1>1, <1>2, <1>3, <1>5 DEF RoundStep, Abstract!RoundNext, Abstract!Stop
<1> QED
  BY <1>1, <1>4, <1>5

\* Every step maps to a step of Rounds or to a stutter.
LEMMA NextRound == ClaimInv /\ CoverInv /\ [Next]_vars => RoundStep
<1> SUFFICES ASSUME ClaimInv, CoverInv, [Next]_vars PROVE RoundStep
  OBVIOUS
<1>1. ASSUME NEW w \in Workers, Worker(w) PROVE RoundStep
  BY <1>1, FetchTakes, TestAsks, WorkerReturns
<1>2. CASE ScanThread
  BY <1>2, BeginScanBegins, EndScanEnds, MainStops DEF ScanThread, CoverInv, AccountInv
<1>3. CASE MainThread \/ Stop \/ UNCHANGED vars
  BY <1>3, MainStops
<1> QED
  BY <1>1, <1>2, <1>3 DEF Next, Exited

\* A scan hands every entry of the list to one worker, exactly once; it ends when
\* they are all back and the list is through or the process was asked to stop; and
\* a worker that had not looked at `running` by then takes no other: for every
\* pool, list and option set.
THEOREM ScannerImplementsRounds == Spec => ImplementsRounds
<1> QED
  BY InitRound, NextRound, ClaimInvariant, CoverInvariant, PTL
     DEF Spec, ImplementsRounds, Abstract!RoundSpec, RoundStep
=============================================================================
