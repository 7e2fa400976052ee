-------------------------------- MODULE TryPull -------------------------------
(***************************************************************************)
(* git::try_pull (src/git_utils.cpp) on one repository: fetch, with one    *)
(* retry when the remote limits the rate, compare HEAD with the fetched    *)
(* branch or with a target ref, look for uncommitted changes, reset hard.  *)
(* Meanwhile the user edits files and commits, and others push to the      *)
(* remote, or rewrite its history.                                         *)
(*                                                                         *)
(* A commit is a number; `history` gives the commits it contains.  The     *)
(* calls of libgit2 are external: they succeed or fail.  An edit is one of *)
(* a tracked file: a hard reset leaves untracked files alone.              *)
(***************************************************************************)
EXTENDS Naturals

CONSTANTS
  MaxCommits,  \* bound: commits after the first
  MaxEdits,    \* bound: edits of the user
  MaxCalls     \* bound: calls of try_pull

ASSUME TryPullAssumption ==
  MaxCommits \in Nat /\ MaxEdits \in Nat /\ MaxCalls \in Nat

Commits == 0..MaxCommits
Edits == 1..MaxEdits

\* What try_pull returns.
Codes == {"SUCCESS", "FAILURE", "DIRTY", "TIMEOUT", "RATE_LIMIT"}

Stages == {"idle", "open", "fetch", "refetch", "compare", "check", "reset"}

VARIABLES
  history,                 \* of every commit made so far
  remote, tracking, head,  \* the server's branch, refs/remotes/..., HEAD
  edits, made,             \* uncommitted edits; how many were ever made
  stage, force, use_target, desired, result, calls,
  seen, examined, lost     \* history: the values of the server's branch during
                           \* the call; the edits made before the working tree
                           \* was found clean; the edits a reset discarded

worldVars == <<history, remote, edits, made>>
callVars == <<force, use_target, calls>>
vars == <<worldVars, tracking, head, stage, callVars, desired, result, seen, examined, lost>>

Init ==
  /\ history = [c \in Commits |-> IF c = 0 THEN {0} ELSE {}]
  /\ remote = 0 /\ tracking = 0 /\ head = 0
  /\ edits = {} /\ made = 0
  /\ stage = "idle" /\ force = FALSE /\ use_target = FALSE
  /\ desired = 0 /\ result = "FAILURE" /\ calls = 0
  /\ seen = {} /\ examined = {} /\ lost = {}

Made(c) == history[c] # {}

\* The next commit, on top of `base`.
NewCommit(c, base) ==
  /\ ~Made(c) /\ Made(c - 1)
  /\ history' = [history EXCEPT ![c] = history[base] \cup {c}]

-----------------------------------------------------------------------------
(***************************************************************************)
(* The user and the server.                                                *)
(***************************************************************************)
Edit ==
  /\ made < MaxEdits
  /\ made' = made + 1
  /\ edits' = edits \cup {made'}
  /\ UNCHANGED <<history, remote, tracking, head, stage, callVars, desired, result,
                 seen, examined, lost>>

CommitEdits ==
  /\ edits # {}
  /\ \E c \in Commits \ {0} : NewCommit(c, head) /\ head' = c
  /\ edits' = {}
  /\ UNCHANGED <<remote, made, tracking, stage, callVars, desired, result,
                 seen, examined, lost>>

\* Somebody pushes a commit, or replaces the branch by one.
Push ==
  /\ \E c \in Commits \ {0}, base \in {0, remote} : NewCommit(c, base) /\ remote' = c
  /\ seen' = seen \cup {remote'}
  /\ UNCHANGED <<edits, made, tracking, head, stage, callVars, desired, result,
                 examined, lost>>

-----------------------------------------------------------------------------
(***************************************************************************)
(* try_pull.                                                               *)
(***************************************************************************)
Return(code) == stage' = "idle" /\ result' = code

\* What a step of try_pull leaves alone, besides what the user and the server own.
Quiet == UNCHANGED <<history, remote, made, callVars, seen>>

Call ==
  /\ stage = "idle"
  /\ calls < MaxCalls /\ calls' = calls + 1
  /\ force' \in BOOLEAN /\ use_target' \in BOOLEAN
  /\ stage' = "open"
  /\ seen' = {remote}
  /\ UNCHANGED <<worldVars, tracking, head, desired, result, examined, lost>>

\* The repository, its branch, the remote; then git_remote_fetch.
OpenRepo ==
  /\ stage = "open"
  /\ \/ stage' = "fetch" /\ UNCHANGED result
     \/ Return("FAILURE")
  /\ Quiet /\ UNCHANGED <<edits, tracking, head, desired, examined, lost>>

Fetched == tracking' = remote /\ stage' = "compare" /\ UNCHANGED result

\* Mutation: a fetch that fails leaves the tracking branch to compare with.
FetchIgnored ==
  /\ stage = "fetch"
  /\ \/ Fetched
     \/ UNCHANGED <<tracking, result>> /\ stage' \in {"refetch", "compare"}
  /\ Quiet /\ UNCHANGED <<edits, head, desired, examined, lost>>

\* Mutation: the error of libgit2 is handed on.
FetchRaw ==
  /\ stage = "fetch"
  /\ \/ Fetched
     \/ Return("GIT_ERROR") /\ UNCHANGED tracking
  /\ Quiet /\ UNCHANGED <<edits, head, desired, examined, lost>>

Fetch ==
  /\ stage = "fetch"
  /\ \/ Fetched
     \/ /\ stage' = "refetch"                  \* "rate limit" or "429"
        /\ UNCHANGED <<tracking, result>>
     \/ /\ \E code \in {"TIMEOUT", "FAILURE"} : Return(code)
        /\ UNCHANGED tracking
  /\ Quiet /\ UNCHANGED <<edits, head, desired, examined, lost>>

\* The only retry, two seconds later.
Refetch ==
  /\ stage = "refetch"
  /\ \/ Fetched
     \/ /\ \E code \in {"TIMEOUT", "RATE_LIMIT", "FAILURE"} : Return(code)
        /\ UNCHANGED tracking
  /\ Quiet /\ UNCHANGED <<edits, head, desired, examined, lost>>

\* resolve_target_oid finds some commit the repository has.
Resolved(c) ==
  IF use_target THEN c \in history[tracking] \cup history[head] ELSE c = tracking

\* "Already up to date", or there is something to do; no remote branch, no HEAD.
Compare ==
  /\ stage = "compare"
  /\ \/ Return("FAILURE") /\ UNCHANGED desired
     \/ /\ \E c \in Commits : Resolved(c) /\ desired' = c
        /\ \/ desired' = head /\ Return("SUCCESS")
           \/ desired' # head /\ stage' = "check" /\ UNCHANGED result
  /\ Quiet /\ UNCHANGED <<edits, tracking, head, examined, lost>>

\* Mutation: nobody looks.
CheckNothing ==
  /\ stage = "check"
  /\ stage' = "reset" /\ examined' = 1..made
  /\ UNCHANGED result
  /\ Quiet /\ UNCHANGED <<edits, tracking, head, desired, lost>>

\* has_uncommitted_changes, which is not asked under --force-pull, and which
\* takes a working tree it cannot read for a clean one.
CheckTree ==
  /\ stage = "check"
  /\ \/ /\ ~force /\ edits = {}
        /\ stage' = "reset" /\ examined' = 1..made
        /\ UNCHANGED result
     \/ /\ stage' = "reset" /\ examined' = {}
        /\ UNCHANGED result
     \/ /\ ~force /\ edits # {}
        /\ Return("DIRTY")
        /\ UNCHANGED examined
  /\ Quiet /\ UNCHANGED <<edits, tracking, head, desired, lost>>

\* git_reset(GIT_RESET_HARD), whatever happened since the working tree was looked
\* at; when it fails, it may have written over files already.
Reset ==
  /\ stage = "reset"
  /\ \/ head' = desired /\ edits' = {} /\ Return("SUCCESS")
     \/ head' = head /\ edits' \in {edits, {}} /\ Return("FAILURE")
  /\ lost' = lost \cup (edits \ edits')
  /\ Quiet /\ UNCHANGED <<tracking, desired, examined>>

-----------------------------------------------------------------------------
TryPull ==
  OpenRepo \/ Fetch \/ Refetch \/ Compare \/ CheckTree \/ Reset

Next == Edit \/ CommitEdits \/ Push \/ Call \/ TryPull

Spec == Init /\ [][Next]_vars

-----------------------------------------------------------------------------
\* The type of every variable.
TypeOK ==
  /\ history \in [Commits -> SUBSET Commits]
  /\ {remote, tracking, head, desired} \subseteq Commits
  /\ edits \subseteq Edits /\ made \in 0..MaxEdits
  /\ stage \in Stages /\ result \in Codes /\ calls \in 0..MaxCalls
  /\ {force, use_target} \subseteq BOOLEAN
  /\ seen \subseteq Commits /\ examined \subseteq Edits /\ lost \subseteq Edits

\* A pull without a target that reports success left HEAD at a commit the server
\* had while the pull ran, never at what an earlier fetch had brought.
SuccessIsFresh ==
  [][stage # "idle" /\ stage' = "idle" /\ result' = "SUCCESS" /\ ~use_target =>
       desired' \in seen /\ head' = desired']_vars

\* "skipped by default to avoid losing work" (readme.md): an edit that was there
\* when the working tree was looked at is not discarded; one made since may be.
ExaminedEditsAreKept ==
  [][stage = "reset" /\ stage' = "idle" => (lost' \ lost) \cap examined = {}]_vars

\* Why both hold: what was fetched is a value the server had during the call, and
\* an edit that was there when the tree was found clean is not there any more.
FreshInv ==
  /\ stage # "idle" => remote \in seen
  /\ stage \in {"compare", "check", "reset"} => tracking \in seen
  /\ stage \in {"check", "reset"} /\ ~use_target => desired \in seen

ExaminedInv ==
  /\ \A e \in examined : e <= made
  /\ stage = "reset" => edits \cap examined = {}

PullInv == TypeOK /\ FreshInv /\ ExaminedInv

\* "Fast-forward pull from a remote" (git_utils.cpp): without --force-pull and
\* without a target no commit of the branch is taken off it.
OnlyFastForwards ==
  [][stage = "reset" /\ head' # head /\ ~force /\ ~use_target =>
       head \in history[head']]_vars
=============================================================================
