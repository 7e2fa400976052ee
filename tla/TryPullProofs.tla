----------------------------- MODULE TryPullProofs -----------------------------
(***************************************************************************)
(* Theorems about TryPull, for any number of commits, edits and calls.     *)
(***************************************************************************)
EXTENDS TryPull, TLAPS

\* The invariant holds before the first call.
LEMMA InitPullInv == Init => PullInv
<1> SUFFICES ASSUME Init PROVE PullInv
  OBVIOUS
<1>1. 0 \in Commits /\ {0} \subseteq Commits
  BY TryPullAssumption DEF Commits
<1>2. history \in [Commits -> SUBSET Commits]
  BY <1>1 DEF Init
<1>3. TypeOK
  <2>1. {remote, tracking, head, desired} \subseteq Commits
    BY <1>1 DEF Init
  <2>2. made \in 0..MaxEdits /\ calls \in 0..MaxCalls
    BY TryPullAssumption DEF Init
  <2>3. stage \in Stages /\ result \in Codes /\ {force, use_target} \subseteq BOOLEAN
    BY DEF Init, Stages, Codes
  <2>4. edits \subseteq Edits /\ seen \subseteq Commits /\ examined \subseteq Edits
        /\ lost \subseteq Edits
    BY DEF Init
  <2> QED
    BY <1>2, <2>1, <2>2, <2>3, <2>4 DEF TypeOK
<1> QED
  BY <1>3 DEF Init, PullInv, FreshInv, ExaminedInv

\* What the user and the server do.
LEMMA WorldStep ==
  ASSUME PullInv, Edit \/ CommitEdits \/ Push
  PROVE  PullInv'
<1> USE TryPullAssumption DEF PullInv, TypeOK, FreshInv, ExaminedInv, callVars
<1>1. CASE Edit
  <2>1. made' = made + 1 /\ made' \in 0..MaxEdits /\ edits' = edits \cup {made'}
    BY <1>1 DEF Edit
  <2>2. edits' \subseteq Edits
    BY <2>1 DEF Edits
  <2>3. made' \notin examined
    BY <2>1
  <2>4. UNCHANGED <<history, remote, tracking, head, stage, force, use_target, calls,
                    desired, result, seen, examined, lost>>
    BY <1>1 DEF Edit
  <2>5. TypeOK'
    BY <2>1, <2>2, <2>4
  <2>6. \A e \in examined' : e <= made'
    BY <2>1, <2>4 DEF Edits
  <2>7. stage' = "reset" => edits' \cap examined' = {}
    BY <2>1, <2>3, <2>4
  <2> QED
    BY <2>4, <2>5, <2>6, <2>7
<1>2. ASSUME NEW c \in Commits \ {0}, NEW base \in Commits, NewCommit(c, base)
      PROVE  history' \in [Commits -> SUBSET Commits]
  BY <1>2 DEF NewCommit
<1>3. CASE CommitEdits
  <2>1. history' \in [Commits -> SUBSET Commits] /\ head' \in Commits
    BY <1>2, <1>3 DEF CommitEdits
  <2> QED
    BY <1>3, <2>1 DEF CommitEdits
<1>4. CASE Push
  <2>1. 0 \in Commits
    BY DEF Commits
  <2>2. history' \in [Commits -> SUBSET Commits] /\ remote' \in Commits
    BY <1>2, <1>4, <2>1 DEF Push
  <2> QED
    BY <1>4, <2>2 DEF Push
<1> QED
  BY <1>1, <1>3, <1>4

\* The steps of a pull.
LEMMA PullStep ==
  ASSUME PullInv, Call \/ TryPull
  PROVE  PullInv'
<1> USE TryPullAssumption DEF PullInv, TypeOK, FreshInv, ExaminedInv, callVars, worldVars,
        Quiet, Return, Stages, Codes
<1>1. CASE Call
  BY <1>1 DEF Call
<1>2. CASE OpenRepo
  BY <1>2 DEF OpenRepo
<1>3. CASE Fetch
  BY <1>3 DEF Fetch, Fetched
<1>4. CASE Refetch
  BY <1>4 DEF Refetch, Fetched
<1>5. CASE Compare
  BY <1>5 DEF Compare, Resolved
<1>6. CASE CheckTree
  <2>1. 1..made \subseteq Edits /\ \A e \in 1..made : e <= made
    BY DEF Edits
  <2> QED
    BY <1>6, <2>1 DEF CheckTree
<1>7. CASE Reset
  BY <1>7 DEF Reset
<1> QED
  BY <1>1, <1>2, <1>3, <1>4, <1>5, <1>6, <1>7 DEF TryPull

\* Every step of the pull, of the user and of the server keeps the invariant.
LEMMA NextPullInv == PullInv /\ [Next]_vars => PullInv'
<1> SUFFICES ASSUME PullInv, [Next]_vars PROVE PullInv'
  OBVIOUS
<1>1. CASE UNCHANGED vars
  BY <1>1 DEF vars, worldVars, callVars, PullInv, TypeOK, FreshInv, ExaminedInv
<1> QED
  BY <1>1, WorldStep, PullStep DEF Next

\* What a pull has read of the repository, and what it may still do with it, agree in
\* every reachable state (try_pull in src/git_utils.cpp): whatever the user and the
\* server do between its steps.
THEOREM PullInvariant == Spec => []PullInv
<1> QED
  BY InitPullInv, NextPullInv, PTL DEF Spec

\* Every variable keeps its type.
THEOREM PullTypeCorrect == Spec => []TypeOK
<1>1. PullInv => TypeOK
  BY DEF PullInv
<1> QED
  BY <1>1, PullInvariant, PTL

\* The user and the server end no call.
LEMMA WorldEndsNoCall ==
  ASSUME Edit \/ CommitEdits \/ Push \/ UNCHANGED vars
  PROVE  stage' = stage
  BY DEF Edit, CommitEdits, Push, vars

\* A success without a target leaves HEAD at a commit the server had meanwhile.
THEOREM SuccessFresh == Spec => SuccessIsFresh
<1>1. ASSUME PullInv, [Next]_vars, stage # "idle", stage' = "idle",
             result' = "SUCCESS", ~use_target
      PROVE  desired' \in seen /\ head' = desired'
  <2> USE <1>1 DEF Return, PullInv, TypeOK, FreshInv, Quiet, callVars
  <2>1. CASE OpenRepo
    BY <2>1 DEF OpenRepo
  <2>2. CASE Fetch \/ Refetch
    BY <2>2 DEF Fetch, Refetch, Fetched
  <2>3. CASE Compare
    BY <2>3 DEF Compare, Resolved
  <2>4. CASE CheckTree
    BY <2>4 DEF CheckTree
  <2>5. CASE Reset
    BY <2>5 DEF Reset
  <2>6. CASE Call
    BY <2>6 DEF Call
  <2> QED
    BY <2>1, <2>2, <2>3, <2>4, <2>5, <2>6, WorldEndsNoCall DEF Next, TryPull
<1>2. PullInv /\ [Next]_vars =>
        [stage # "idle" /\ stage' = "idle" /\ result' = "SUCCESS" /\ ~use_target =>
           desired' \in seen /\ head' = desired']_vars
  BY <1>1
<1> QED
  BY <1>2, PullInvariant, PTL DEF Spec, SuccessIsFresh

\* An edit that was there when the working tree was looked at is not discarded.
THEOREM ExaminedKept == Spec => ExaminedEditsAreKept
<1>1. ASSUME PullInv, [Next]_vars, stage = "reset", stage' = "idle"
      PROVE  (lost' \ lost) \cap examined = {}
  <2>1. Reset
    BY <1>1, WorldEndsNoCall DEF Next, TryPull, Call, OpenRepo, Fetch, Refetch, Compare, CheckTree
  <2> QED
    BY <1>1, <2>1 DEF Reset, PullInv, ExaminedInv
<1>2. PullInv /\ [Next]_vars =>
        [stage = "reset" /\ stage' = "idle" => (lost' \ lost) \cap examined = {}]_vars
  BY <1>1
<1> QED
  BY <1>2, PullInvariant, PTL DEF Spec, ExaminedEditsAreKept
=============================================================================
