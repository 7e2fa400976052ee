---------------------------- MODULE ScannerRounds ----------------------------
(***************************************************************************)
(* The scan engine implements Rounds: the tasks are the indices of         *)
(* all_repos, those from next_index on are left, a worker has taken the    *)
(* index it claimed, and has asked for one once it saw `running` set.      *)
(***************************************************************************)
EXTENDS Scanner

Open == scan_thread = "working"
Left == IF Open THEN {i \in DOMAIN all_repos : i >= next_index} ELSE {}
Taken == {idx[w] : w \in {v \in Workers : Claimed(v)}}
Asking == {w \in Workers : pc[w] = "fetch"}

Abstract ==
  INSTANCE Rounds WITH Takers <- Workers, tasks <- DOMAIN all_repos, open <- Open,
                       left <- Left, asking <- Asking, taken <- Taken,
                       stopped <- ~running

\* A scan hands every entry of the list to one worker, exactly once; it ends when
\* they are all back and the list is through or the process was asked to stop; and
\* a worker that had not yet looked at `running` by then takes no other.
ImplementsRounds == Abstract!RoundSpec

\* The same of the rounds of a session, between which the list may be replaced.
ImplementsSession == Abstract!SessionSpec
=============================================================================
