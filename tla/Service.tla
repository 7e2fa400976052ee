------------------------------ MODULE Service ------------------------------
(***************************************************************************)
(* A process that keeps itself running: main (src/autogitpull.cpp) applies *)
(* mutant mode, the monitor starts the worker again and again, and the     *)
(* worker's threads adapt and record what the next worker, and after the   *)
(* process died the next process, will find.  A signal, q, --max-runtime   *)
(* or a timeout end the worker and not the process; whoever installed the  *)
(* service, or the user, starts a process that is gone again.              *)
(* What the worker does else is the business of EventLoop and Scanner.     *)
(***************************************************************************)
EXTENDS ProcessMonitor, MutantMode

VARIABLES
  mutant,    \* opts.mutant_mode
  process    \* "down", "main" while mutant mode is applied, or "up"

vars == <<mutant, process, monitorVars, mutantVars>>

Init ==
  /\ mutant \in BOOLEAN /\ persist \in BOOLEAN
  /\ mutant => persist
  /\ process = "down"
  /\ MonitorInit
  /\ MutantInit

Start ==
  /\ process = "down"
  /\ IF mutant THEN process' = "main" /\ apply_mutant_mode
               ELSE process' = "up" /\ UNCHANGED mutantVars
  /\ UNCHANGED <<mutant, monitorVars>>

MainSaved ==
  /\ process = "main"
  /\ process' = "up"
  /\ save_settings
  /\ UNCHANGED <<mutant, monitorVars>>

\* The process is killed, or exits after the monitor returned.
Die ==
  /\ process # "down"
  /\ process' = "down"
  /\ phase' = "launching" /\ starts' = <<>> /\ fail_count' = 0 /\ pause' = 0 /\ launches' = <<>>
  /\ Lost(process = "main")
  /\ UNCHANGED <<mutant, persist>>

\* The worker ends between scans.  A scan takes no time on the monitor's clock,
\* which counts minutes.
MonitorStep ==
  /\ process = "up"
  /\ \/ Launch
     \/ \E rc \in {0, 1} : AllIdle /\ (rc # 0 => fail_count < MaxFails) /\ WorkerEnds(rc)
     \/ Wake
     \/ AllIdle /\ Tick
  /\ UNCHANGED <<mutant, process, mutantVars>>

Visiting ==
  /\ process = "up" /\ phase = "running" /\ mutant
  /\ \E w \in Workers : VisitStep(w)
  /\ UNCHANGED <<mutant, process, monitorVars>>

Next == Start \/ MainSaved \/ Die \/ MonitorStep \/ Visiting

\* The clock goes on and the monitor's thread is scheduled; nothing else is assumed.
Fairness ==
  /\ WF_vars(process = "up" /\ Launch /\ UNCHANGED <<mutant, process, mutantVars>>)
  /\ WF_vars(process = "up" /\ Wake /\ UNCHANGED <<mutant, process, mutantVars>>)
  /\ WF_vars(process = "up" /\ AllIdle /\ Tick /\ UNCHANGED <<mutant, process, mutantVars>>)

Spec == Init /\ [][Next]_vars /\ Fairness

-----------------------------------------------------------------------------
\* The types of both parts; a worker visits only in a process that is up, and the
\* settings are those of a process.
TypeOK ==
  /\ MonitorTypeOK /\ MutantTypeOK
  /\ mutant \in BOOLEAN /\ process \in {"down", "main", "up"}
  /\ settings # None <=> mutant /\ process # "down"
  /\ (\E w \in Workers : visit[w] # NoVisit) => phase = "running"

\* Whenever the worker of a persistent process ends, with or without an error, it
\* is started again, or the limit is reached, or the process is gone (readme.md:
\* "automatically restart autogitpull whenever the main worker exits").
WorkerComesBack ==
  phase = "sleeping" ~> \/ phase = "running" \/ process = "down"
                        \/ phase = "returned" /\ RespawnMax > 0
=============================================================================
