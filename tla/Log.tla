--------------------------------- MODULE Log ---------------------------------
(***************************************************************************)
(* What the logger promises, whatever its threads are: a queue that keeps  *)
(* what was submitted in the order in which it was submitted.  While it is *)
(* keeping, every entry that leaves the queue is kept, the oldest first,   *)
(* but for a quiet one while it is muted.  Any other entry is lost only    *)
(* while it is not keeping, and then it is the oldest again, or all there  *)
(* is.                                                                     *)
(***************************************************************************)
EXTENDS Sequences

CONSTANTS Entries, Quiet

VARIABLES pending, kept, keeping, muted

logVars == <<pending, kept, keeping, muted>>

LogInit == pending = <<>> /\ kept = <<>> /\ ~keeping /\ ~muted

Submit(entry) ==
  /\ pending' = Append(pending, entry)
  /\ UNCHANGED <<kept, keeping, muted>>

Unheard(entry) == muted /\ entry \in Quiet

Keep ==
  /\ keeping
  /\ pending # <<>>
  /\ ~Unheard(Head(pending))
  /\ kept' = Append(kept, Head(pending))
  /\ pending' = Tail(pending)
  /\ UNCHANGED <<keeping, muted>>

Lose ==
  /\ pending # <<>>
  /\ ~keeping \/ Unheard(Head(pending))
  /\ pending' = Tail(pending)
  /\ UNCHANGED <<kept, keeping, muted>>

LoseAll ==
  /\ ~keeping
  /\ pending' = <<>>
  /\ UNCHANGED <<kept, keeping, muted>>

Switch ==
  /\ keeping' \in BOOLEAN /\ muted' \in BOOLEAN
  /\ UNCHANGED <<pending, kept>>

LogNext ==
  \/ \E entry \in Entries : Submit(entry)
  \/ Keep \/ Lose \/ LoseAll \/ Switch

LogSpec == LogInit /\ [][LogNext]_logVars
=============================================================================
