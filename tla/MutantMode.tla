----------------------------- MODULE MutantMode -----------------------------
(***************************************************************************)
(* Mutant mode (src/mutant_mode.cpp): settings that adapt to what the      *)
(* pulls take, the commit time of every repository that was looked at, and *)
(* the file that keeps both for the next run.  The workers of a scan call  *)
(* it without a lock (src/scanner/repo.cpp:213, 252).                      *)
(*                                                                         *)
(* The file is what load_config would make of it: [settings, times], with  *)
(* the settings None if there are none to read and the times None if a     *)
(* part of them is missing or another's.  It is emptied when it is opened  *)
(* and written in parts, the last when it is closed; a path that contains  *)
(* a space is not read back.                                               *)
(***************************************************************************)
EXTENDS Integers, FiniteSets

CONSTANTS
  Repos,         \* the repositories a scan takes
  Workers,       \* the threads of the pool
  CommitTimes,   \* positive: 0 is a time nobody knows
  Fragments,     \* the numbers that parts of written ones may be read as
  Spaced,        \* the repositories whose path contains a space
  Given,         \* the settings the options may give: [interval, timeout]
  MaxTimeout,    \* bound: no timeout grows beyond it
  None

Times == [Repos -> CommitTimes \cup Fragments \cup {None}]

ASSUME MutantAssumption ==
  /\ CommitTimes \subseteq Nat \ {0} /\ Fragments \subseteq Nat \ {0}
  /\ Spaced \subseteq Repos
  /\ Given \subseteq [interval : Nat \ {0}, timeout : Nat]
  /\ MaxTimeout \in Nat
  /\ None \notin Times
  /\ None \notin CommitTimes \cup Fragments \cup {0} \cup [interval : Nat \ {0}, timeout : Int]

VARIABLES
  settings,     \* what current_opts points to: [interval, timeout]
  repo_times,   \* the commit time recorded for every repository, or None
  file,         \* the file cfg_path names
  visit,        \* what each worker is at: [at, repo], and the change of the timeout it
                \* makes: [seen, by]
  whole,        \* the latest save had the file for itself and did not fail
  last          \* [settings, times] of the process that died, until the next starts, or
                \* None, to state properties

mutantVars == <<settings, repo_times, file, visit, whole, last>>

NoTimes == [r \in Repos |-> None]
Emptied == [settings |-> None, times |-> NoTimes]
NoVisit == [at |-> "idle", repo |-> None, seen |-> 0, by |-> 0]

MutantInit ==
  /\ settings = None
  /\ repo_times = NoTimes
  /\ file \in {Emptied} \cup
       {[settings |-> [interval |-> g.interval, timeout |-> g.timeout], times |-> NoTimes] :
          g \in {x \in Given : x.timeout > 0}}
  /\ visit = [w \in Workers |-> NoVisit]
  /\ whole = TRUE
  /\ last = None

-----------------------------------------------------------------------------
(***************************************************************************)
(* The start of the process: the file is read and emptied, and then        *)
(* written.                                                                *)
(***************************************************************************)
AtLeast(n, min) == IF n < min THEN min ELSE n

\* The beginning of save_config, which returns if the file cannot be opened.
Opened == {Emptied, file}

\* What stands in the file when it was written whole, and what if it was not: the first
\* line may be cut, too, in its second number or in its first.
Memory == [settings |-> settings, times |-> repo_times]
Cut(s) ==
  {[interval |-> s.interval, timeout |-> part] : part \in Fragments \cup {0}}
    \cup {[interval |-> part, timeout |-> 0] : part \in Fragments}
Torn ==
  {[settings |-> s, times |-> None] :
     s \in {settings, file.settings, None} \cup (IF settings = None THEN {} ELSE Cut(settings))}

\* load_config: what is not positive is not taken.
Loaded(given) ==
  IF file.settings = None THEN given
  ELSE [interval |-> file.settings.interval,
        timeout  |-> IF file.settings.timeout > 0 THEN file.settings.timeout ELSE given.timeout]

\* Of a file that was not written whole each entry is there or not, and a number that
\* was cut, or put together from two, is read as one that nobody wrote.
LoadedTimes ==
  {t \in Times : \A r \in Repos :
     IF r \in Spaced THEN t[r] = None ELSE file.times # None => t[r] = file.times[r]}

apply_mutant_mode ==
  /\ \E given \in Given :
       LET l == Loaded(given)
       IN  settings' = [interval |-> AtLeast(l.interval, 5),
                        timeout  |-> IF l.timeout = 0 THEN 30 ELSE l.timeout]
  /\ repo_times' \in LoadedTimes
  /\ file' \in Opened
  /\ whole' = TRUE
  /\ last' = None
  /\ UNCHANGED visit

\* The end of save_config.  An error goes unnoticed, and if another thread had the
\* file open too, their parts overlay each other.
Written ==
  \/ whole /\ file' = Memory /\ UNCHANGED whole
  \/ file' \in Torn /\ whole' = FALSE

save_settings ==
  /\ Written
  /\ UNCHANGED <<settings, repo_times, visit, last>>

-----------------------------------------------------------------------------
(***************************************************************************)
(* The visit of worker w to a repository.                                  *)
(***************************************************************************)
Free(w, r) == visit[w].at = "idle" /\ \A v \in Workers : visit[v].repo # r

Saving(w) == visit[w].at \in {"saving", "adjusted"}

\* The thread of worker w opens the file, while others may have it open.
Open(w) ==
  /\ file' \in Opened
  /\ whole' = \A v \in Workers \ {w} : ~Saving(v)

\* repo_times[repo] = ct.  Two threads that insert at once may lose an entry.
Record(w, r, time) ==
  repo_times' \in {[repo_times EXCEPT ![r] = time]}
                    \cup (IF \E v \in Workers \ {w} : visit[v].at = "saving"
                            THEN {repo_times} ELSE {})

\* mutant_should_pull lets the repository through: its newest commit, of the
\* remote or else its own, is recent and not the recorded one.  It is recorded
\* before anything is done about it.  (Otherwise nothing changes.)
mutant_should_pull(w, r, time) ==
  /\ Free(w, r)
  /\ repo_times[r] # time
  /\ Record(w, r, time)
  /\ Open(w)
  /\ visit' = [visit EXCEPT ![w] = [NoVisit EXCEPT !.at = "saving", !.repo = r]]
  /\ UNCHANGED <<settings, last>>

Saved(w) ==
  /\ visit[w].at = "saving"
  /\ Written
  /\ visit' = [visit EXCEPT ![w].at = "pulling"]
  /\ UNCHANGED <<settings, repo_times, last>>

\* What a visit comes to: no pull was needed or allowed, or the pull ended with
\* "timeout", a success that took as long as the timeout ("slow") or less than half
\* of it ("quick"), or anything else.
Outcomes == {"none", "timeout", "slow", "quick", "other"}

\* The change mutant_record_result decides on, from the timeout it reads.
Change(outcome, timeout) ==
  CASE outcome \in {"timeout", "slow"} -> 5
    [] outcome = "quick" /\ timeout > 10 -> -5
    [] OTHER -> 0

VisitEnds(w, outcome) ==
  LET by == Change(outcome, settings.timeout)
  IN  /\ visit[w].at = "pulling"
      /\ settings.timeout + by <= MaxTimeout
      /\ visit' = [visit EXCEPT ![w] =
                     IF by = 0 THEN NoVisit
                     ELSE [@ EXCEPT !.at = "adjusting", !.seen = settings.timeout, !.by = by]]
      /\ UNCHANGED <<settings, repo_times, file, whole, last>>

\* timeout += 5 or -= 5: without a lock, and so from the timeout there is or from
\* the one the decision was made on.
Changed(w) ==
  {[settings EXCEPT !.timeout = from + visit[w].by] : from \in {settings.timeout, visit[w].seen}}

\* Mutation: a timeout that changed is not saved.
AdjustUnsaved(w) ==
  /\ visit[w].at = "adjusting"
  /\ settings' \in Changed(w)
  /\ visit' = [visit EXCEPT ![w] = NoVisit]
  /\ UNCHANGED <<repo_times, file, whole, last>>

Adjust(w) ==
  /\ visit[w].at = "adjusting"
  /\ settings' \in Changed(w)
  /\ Open(w)
  /\ visit' = [visit EXCEPT ![w] = [@ EXCEPT !.at = "adjusted", !.seen = 0, !.by = 0]]
  /\ UNCHANGED <<repo_times, last>>

Adjusted(w) ==
  /\ visit[w].at = "adjusted"
  /\ Written
  /\ visit' = [visit EXCEPT ![w] = NoVisit]
  /\ UNCHANGED <<settings, repo_times, last>>

\* The process dies, in the middle of a save or not.
Lost(starting) ==
  /\ settings' = None
  /\ repo_times' = NoTimes
  /\ visit' = [w \in Workers |-> NoVisit]
  /\ last' = IF settings = None THEN last ELSE Memory
  /\ IF starting \/ \E w \in Workers : Saving(w)
       THEN file' \in Torn /\ whole' = FALSE
       ELSE UNCHANGED <<file, whole>>

VisitStep(w) ==
  \/ \E r \in Repos, time \in CommitTimes : mutant_should_pull(w, r, time)
  \/ Saved(w)
  \/ \E outcome \in Outcomes : VisitEnds(w, outcome)
  \/ Adjust(w)
  \/ Adjusted(w)

\* The worker ends after its threads were joined.
AllIdle == visit = [w \in Workers |-> NoVisit]

-----------------------------------------------------------------------------
(***************************************************************************)
(* Properties.                                                             *)
(***************************************************************************)
Setting == [interval : Nat \ {0}, timeout : Int]

MutantTypeOK ==
  /\ settings \in {None} \cup Setting
  /\ repo_times \in Times
  /\ file \in [settings : {None} \cup Setting, times : Times \cup {None}]
  /\ visit \in [Workers -> [at   : {"idle", "saving", "pulling", "adjusting", "adjusted"},
                            repo : Repos \cup {None},
                            seen : Int, by : {-5, 0, 5}]]
  /\ whole \in BOOLEAN
  /\ last \in {None} \cup [settings : Setting, times : Times]

\* A process in mutant mode goes on where the one before it was, at whatever step that
\* one died, if it was not within a save, no save had failed, and no two had overlapped
\* since the last that did not: with its settings, if the threads left a positive
\* timeout, and with every commit time it had recorded (but those of paths that contain
\* a space).  Whatever it finds, it starts with a timeout, though three threads that
\* lower it at once may have left none.
SessionIsRecovered ==
  [][settings = None /\ settings' # None =>
       /\ settings'.timeout > 0
       /\ whole /\ last # None =>
            /\ last.settings.timeout > 0 => settings' = last.settings
            /\ \A r \in Repos \ Spaced : repo_times'[r] = last.times[r]]_mutantVars
=============================================================================
