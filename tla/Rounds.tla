------------------------------- MODULE Rounds -------------------------------
(***************************************************************************)
(* What the scan engine promises, whatever its threads are: work is done   *)
(* in rounds.  A round hands every task out once, to one taker; it is over *)
(* when everything handed out was given back, nobody asks for more and     *)
(* either nothing is left or somebody asked to stop.  Once that was asked  *)
(* nobody may ask for a task any more: each taker that was asking then     *)
(* gets at most one, and that is all.                                      *)
(***************************************************************************)
CONSTANT Takers

VARIABLES
  tasks,     \* what there is to do
  open,      \* a round is under way
  left,      \* what it has not handed out
  asking,    \* the takers that may be handed one task
  taken,     \* what was handed out and not given back
  stopped    \* somebody asked to stop

roundVars == <<tasks, open, left, asking, taken, stopped>>

RoundInit ==
  /\ ~open /\ ~stopped
  /\ left = {} /\ asking = {} /\ taken = {}

\* A round that was asked for before the stop may still begin, and then hands out
\* nothing.
Begin ==
  /\ ~open
  /\ open' = TRUE
  /\ left' = tasks
  /\ UNCHANGED <<tasks, asking, taken, stopped>>

Ask(w) ==
  /\ open /\ ~stopped
  /\ asking' = asking \cup {w}
  /\ UNCHANGED <<tasks, open, left, taken, stopped>>

Take(w, t) ==
  /\ w \in asking
  /\ t \in left
  /\ asking' = asking \ {w}
  /\ left' = left \ {t}
  /\ taken' = taken \cup {t}
  /\ UNCHANGED <<tasks, open, stopped>>

\* Nothing is left for this taker.
Leave(w) ==
  /\ left = {}
  /\ asking' = asking \ {w}
  /\ UNCHANGED <<tasks, open, left, taken, stopped>>

\* The task is given back; a taker may fail, and stops everything.
Return(t) ==
  /\ t \in taken
  /\ taken' = taken \ {t}
  /\ stopped => stopped'
  /\ UNCHANGED <<tasks, open, left, asking>>

End ==
  /\ open
  /\ asking = {} /\ taken = {}
  /\ left = {} \/ stopped
  /\ open' = FALSE
  /\ left' = {}
  /\ UNCHANGED <<tasks, asking, taken, stopped>>

Stop ==
  /\ stopped' = TRUE
  /\ UNCHANGED <<tasks, open, left, asking, taken>>

RoundNext ==
  \/ Begin \/ End \/ Stop
  \/ \E w \in Takers : Ask(w) \/ Leave(w) \/ \E t \in tasks : Take(w, t)
  \/ \E t \in tasks : Return(t)

RoundSpec == RoundInit /\ [][RoundNext]_roundVars

\* Between two rounds the tasks may be replaced, and the stop asked for with it.
Revise ==
  /\ ~open
  /\ stopped => stopped'
  /\ UNCHANGED <<open, left, asking, taken>>

\* A session of rounds, each with the tasks there are when it begins.
SessionSpec == RoundInit /\ [][RoundNext \/ Revise]_roundVars
=============================================================================
