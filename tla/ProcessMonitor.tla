--------------------------- MODULE ProcessMonitor ---------------------------
(***************************************************************************)
(* run_with_monitor (src/process_monitor.cpp): with --persist the worker   *)
(* (run_event_loop) is started again whenever it ends, however it ends,    *)
(* after a pause that doubles with every failure, and not more often than  *)
(* --respawn-limit allows.                                                 *)
(*                                                                         *)
(* Times are kept as ages, which Tick advances; nothing tells ages beyond  *)
(* the window apart.                                                       *)
(***************************************************************************)
EXTENDS Naturals, SequencesExt, FiniteSetsExt

CONSTANTS
  RespawnMax,      \* service.respawn_max; 0 is no limit
  RespawnWindow,   \* service.respawn_window
  RespawnDelay,    \* service.respawn_delay
  MaxFails         \* bound: how many failures in a row are looked at

ASSUME MonitorAssumption ==
  /\ RespawnMax \in Nat /\ RespawnWindow \in Nat
  /\ RespawnDelay \in Nat /\ MaxFails \in Nat

VARIABLES
  persist,      \* service.persist
  phase,        \* "launching", "running", "sleeping" or "returned"
  starts,       \* the ages of the starts the monitor remembers, oldest first
  fail_count,
  pause,        \* what is left of the pause before the next start
  launches      \* the ages of all workers started within the window, to state properties

monitorVars == <<persist, phase, starts, fail_count, pause, launches>>

Older(age) == IF age > RespawnWindow THEN age ELSE age + 1
Young(age) == age <= RespawnWindow

MonitorInit ==
  /\ phase = "launching"
  /\ starts = <<>>
  /\ fail_count = 0
  /\ pause = 0
  /\ launches = <<>>

\* Mutation: a start that is exactly as old as the window is forgotten.
PrunedEarly(ages) ==
  LET young == {i \in DOMAIN ages : ages[i] < RespawnWindow \/ i = Len(ages)}
  IN  SubSeq(ages, Min(young), Len(ages))

\* The starts that are too old are taken from the front.
Pruned(ages) ==
  LET young == {i \in DOMAIN ages : Young(ages[i])}
  IN  SubSeq(ages, Min(young), Len(ages))

\* One round of the monitor's loop, up to the call of the worker.
Launch ==
  /\ phase = "launching"
  /\ starts' = IF persist THEN Pruned(Append(starts, 0)) ELSE starts
  /\ IF persist /\ RespawnMax > 0 /\ Len(starts') > RespawnMax
       THEN phase' = "returned" /\ UNCHANGED launches
       ELSE phase' = "running" /\ launches' = Append(launches, 0)
  /\ UNCHANGED <<persist, fail_count, pause>>

\* The worker returns, because somebody ended it (0) or it could not go on (1), or
\* throws, which counts as 1.  The pause is that of the failures before this one.
WorkerEnds(rc) ==
  /\ phase = "running"
  /\ IF persist
       THEN /\ phase' = "sleeping"
            /\ pause' = RespawnDelay * 2^fail_count
            /\ fail_count' = IF rc # 0 THEN fail_count + 1 ELSE 0
       ELSE phase' = "returned" /\ UNCHANGED <<pause, fail_count>>
  /\ UNCHANGED <<persist, starts, launches>>

\* Mutation: only a worker that failed is started again.
WakeAfterFailure ==
  /\ phase = "sleeping"
  /\ pause = 0 /\ fail_count > 0
  /\ phase' = "launching"
  /\ UNCHANGED <<persist, starts, fail_count, pause, launches>>

Wake ==
  /\ phase = "sleeping"
  /\ pause = 0
  /\ phase' = "launching"
  /\ UNCHANGED <<persist, starts, fail_count, pause, launches>>

\* Of ages, oldest first, those of the window.
Recent(ages) ==
  LET young == {i \in DOMAIN ages : Young(ages[i])}
  IN  IF young = {} THEN <<>> ELSE SubSeq(ages, Min(young), Len(ages))

\* Time passes.  A pause may last longer than it was asked to.
Tick ==
  /\ phase \in {"running", "sleeping"}
  /\ starts' = [i \in DOMAIN starts |-> Older(starts[i])]
  /\ launches' = Recent([i \in DOMAIN launches |-> Older(launches[i])])
  /\ pause' = IF pause > 0 THEN pause - 1 ELSE 0
  /\ UNCHANGED <<persist, phase, fail_count>>

-----------------------------------------------------------------------------
(***************************************************************************)
(* Properties.                                                             *)
(***************************************************************************)
MonitorTypeOK ==
  /\ persist \in BOOLEAN
  /\ phase \in {"launching", "running", "sleeping", "returned"}
  /\ starts \in Seq(0..RespawnWindow + 1)
  /\ launches \in Seq(0..RespawnWindow)
  /\ fail_count \in 0..MaxFails
  /\ pause \in 0..RespawnDelay * 2^MaxFails

\* Within any stretch of time as long as the window no more workers are started
\* than --respawn-limit allows, and the monitor gives up only when that many were:
\* it neither forgets a start too early nor counts one twice.
RespawnLimit ==
  persist /\ RespawnMax > 0 =>
    /\ Len(launches) <= RespawnMax
    /\ phase = "returned" => Len(launches) = RespawnMax
=============================================================================
