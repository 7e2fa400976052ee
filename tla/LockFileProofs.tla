--------------------------- MODULE LockFileProofs ---------------------------
(***************************************************************************)
(* Theorems about LockFile, for every set of runs and every set of faults. *)
(* The invariant is OwnerInv: while nobody removed the file of another     *)
(* run, an owner is the creator of the file that is there.  Two owners     *)
(* would both be its creator.  Its other part says whom the file names.    *)
(* What outlives the runs and what they remember of each other rests on a  *)
(* second invariant, of LeftInv and ReadInv below.                         *)
(***************************************************************************)
EXTENDS LockFile, TLAPS

LockInv == TypeOK /\ OwnerInv

\* Before the first run there is no lock file, so nobody owns one.
LEMMA InitLockInv == Init => LockInv
<1> SUFFICES ASSUME Init PROVE LockInv
  OBVIOUS
<1>1. TypeOK
  BY DEF Init, TypeOK, Stages
<1>2. OwnerInv
  BY DEF Init, OwnerInv, Owns, Present
<1> QED
  BY <1>1, <1>2 DEF LockInv

\* A step of one run.
LEMMA RunStep ==
  ASSUME LockInv, NEW p \in Procs, Start(p) \/ Steps(p) \/ Crash(p)
  PROVE  LockInv'
<1> USE LockAssumption DEF LockInv, TypeOK, OwnerInv, Owns, Goto, UnchangedFile,
        UnchangedTool, Stages
<1>1. CASE Start(p)
  BY <1>1 DEF Start, Present
<1>2. ASSUME NEW otherwise \in {"read", "refused"}, CreateFile(p, otherwise),
             pc[p] \in {"acquire", "reacquire"},
             UNCHANGED <<seen, taken, tool, tool_seen>>
      PROVE  LockInv'
  <2>1. CASE /\ ~Present /\ creator' = p /\ pid' = None /\ UNCHANGED failed
             /\ pc' = [pc EXCEPT ![p] = "write"]
    <3>1. ~taken => \A q \in Procs : ~Owns(q)
      BY <2>1 DEF Present
    <3> QED
      BY <1>2, <2>1, <3>1 DEF Present
  <2>2. CASE /\ (Present /\ UNCHANGED failed) \/ (~Present /\ Fail)
             /\ UNCHANGED <<creator, pid>>
             /\ pc' = [pc EXCEPT ![p] = otherwise]
    BY <1>2, <2>2 DEF Present, Fail
  <2> QED
    BY <1>2, <2>1, <2>2 DEF CreateFile
<1>3. CASE Acquire(p)
  BY <1>2, <1>3 DEF Acquire
<1>4. CASE Reacquire(p)
  BY <1>2, <1>4 DEF Reacquire
<1>5. CASE WritePid(p)
  BY <1>5 DEF WritePid, Fail, Present
<1>6. CASE ReadPid(p)
  BY <1>6 DEF ReadPid, Fail, Present
<1>7. CASE Probe(p)
  BY <1>7 DEF Probe, Present
<1>8. CASE RemoveStale(p)
  BY <1>8 DEF RemoveStale, TakeFile, RemoveFile, Present
<1>9. CASE EnterLoop(p)
  BY <1>9 DEF EnterLoop, Present
<1>10. CASE LeaveLoop(p)
  BY <1>10 DEF LeaveLoop, Present
<1>11. CASE Release(p)
  BY <1>11 DEF Release, RemoveFile, Present
<1>12. CASE Crash(p)
  BY <1>12 DEF Crash, Present
<1> QED
  BY <1>1, <1>3, <1>4, <1>5, <1>6, <1>7, <1>8, <1>9, <1>10, <1>11, <1>12 DEF Steps

\* A step of a command.
LEMMA CommandStep ==
  ASSUME LockInv, RemoveLock \/ KillAll
  PROVE  LockInv'
<1> USE LockAssumption DEF LockInv, TypeOK, OwnerInv, Owns, Goto, UnchangedFile,
        UnchangedTool, TakeFile, RemoveFile, Present
<1>1. CASE RemoveLock
  BY <1>1 DEF RemoveLock
<1>2. CASE KillRead
  BY <1>2 DEF KillRead
<1>3. CASE KillProbe
  BY <1>3 DEF KillProbe
<1>4. CASE KillSignal
  BY <1>4 DEF KillSignal, Alive, Stages
<1>5. CASE KillRemove
  BY <1>5 DEF KillRemove
<1> QED
  BY <1>1, <1>2, <1>3, <1>4, <1>5 DEF KillAll

\* Every step of a run or of a command (src/lock_utils_posix.cpp) keeps the invariant.
LEMMA NextLockInv == LockInv /\ [Next]_vars => LockInv'
<1> SUFFICES ASSUME LockInv, [Next]_vars PROVE LockInv'
  OBVIOUS
<1>1. CASE \E p \in Procs : Start(p) \/ Steps(p) \/ Crash(p)
  BY <1>1, RunStep
<1>2. CASE RemoveLock \/ KillAll
  BY <1>2, CommandStep
<1>3. CASE UNCHANGED vars
  BY <1>3 DEF vars, LockInv, TypeOK, OwnerInv, Owns, Present
<1> QED
  BY <1>1, <1>2, <1>3 DEF Next, AllEnded

\* An owner's file is its own, as long as nobody removed another run's file; and
\* the file names its creator, or nobody.
THEOREM OwnersOwnTheFile == Spec => []LockInv
<1> QED
  BY InitLockInv, NextLockInv, PTL DEF Spec

\* Every variable keeps its type.
THEOREM LockTypeCorrect == Spec => []TypeOK
<1>1. LockInv => TypeOK
  BY DEF LockInv
<1> QED
  BY <1>1, OwnersOwnTheFile, PTL

\* open(O_CREAT|O_EXCL) makes the lock exclusive among any number of runs, in
\* spite of crashes and of takeovers of dead locks,
\* until a run or a command removes the file of a live owner.
THEOREM Exclusive == Spec => []ExclusiveUntilTaken
<1>1. LockInv => ExclusiveUntilTaken
  BY DEF LockInv, OwnerInv, ExclusiveUntilTaken, SingleInstance
<1> QED
  BY <1>1, OwnersOwnTheFile, PTL

\* Whatever fails, crashes or is removed, the file never names another run than
\* the one that created it, and names nobody only while it is written, after a
\* crash in between or after a failed write; until a live owner's file is removed,
\* that of a running instance is there.
THEOREM NamesOwner == Spec => []LockNamesOwner
<1>1. LockInv => LockNamesOwner
  BY DEF LockInv, OwnerInv, LockNamesOwner, Owns
<1> QED
  BY <1>1, OwnersOwnTheFile, PTL

-----------------------------------------------------------------------------
(***************************************************************************)
(* A file is left behind only by a crash: its creator removes it with      *)
(* whatever file has its name, when it stops.                              *)
(***************************************************************************)
LeftInv == Present => Owns(creator) \/ pc[creator] = "dead"

\* A process ID that was read names a run that had started, so once it ended
\* it stays ended: what Probe found dead is dead when the file is removed.
ReadInv ==
  /\ \A p \in Procs : pc[p] \in {"new", "acquire", "read"} => seen[p] = None
  /\ pid # None => pc[pid] # "new"
  /\ \A p \in Procs : seen[p] # None =>
        /\ pc[seen[p]] # "new"
        /\ pc[p] = "remove" => ~Alive(seen[p])

FileInv == LeftInv /\ ReadInv

\* Before the first run no file was left and no ID was read.
LEMMA InitFileInv == Init => FileInv
BY LockAssumption DEF Init, FileInv, LeftInv, ReadInv, Present

\* A step of one run keeps both.
LEMMA RunFileInv ==
  ASSUME TypeOK, FileInv, NEW p \in Procs, Start(p) \/ Steps(p) \/ Crash(p)
  PROVE  FileInv'
<1> USE LockAssumption DEF TypeOK, FileInv, LeftInv, ReadInv, Owns, Alive, Ended,
        Goto, UnchangedFile, UnchangedTool, Present, Stages
<1>1. CASE Start(p)
  BY <1>1 DEF Start
<1>2. CASE Acquire(p)
  BY <1>2 DEF Acquire, CreateFile, Fail
<1>3. CASE Reacquire(p)
  BY <1>3 DEF Reacquire, CreateFile, Fail
<1>4. CASE WritePid(p)
  BY <1>4 DEF WritePid
<1>5. CASE ReadPid(p)
  BY <1>5 DEF ReadPid
<1>6. CASE Probe(p)
  BY <1>6 DEF Probe, ProcessRunning
<1>7. CASE RemoveStale(p)
  BY <1>7 DEF RemoveStale, TakeFile, RemoveFile
<1>8. CASE EnterLoop(p)
  BY <1>8 DEF EnterLoop
<1>9. CASE LeaveLoop(p)
  BY <1>9 DEF LeaveLoop
<1>10. CASE Release(p)
  BY <1>10 DEF Release, RemoveFile
<1>11. CASE Crash(p)
  BY <1>11 DEF Crash
<1> QED
  BY <1>1, <1>2, <1>3, <1>4, <1>5, <1>6, <1>7, <1>8, <1>9, <1>10, <1>11 DEF Steps

\* So does a step of a command.
LEMMA CommandFileInv ==
  ASSUME TypeOK, FileInv, RemoveLock \/ KillAll
  PROVE  FileInv'
<1> USE LockAssumption DEF TypeOK, FileInv, LeftInv, ReadInv, Owns, Alive, Ended,
        Goto, UnchangedFile, UnchangedTool, TakeFile, RemoveFile, Present, Stages
<1>1. CASE RemoveLock
  BY <1>1 DEF RemoveLock
<1>2. CASE KillRead
  BY <1>2 DEF KillRead
<1>3. CASE KillProbe
  BY <1>3 DEF KillProbe
<1>4. CASE KillSignal
  BY <1>4 DEF KillSignal
<1>5. CASE KillRemove
  BY <1>5 DEF KillRemove
<1> QED
  BY <1>1, <1>2, <1>3, <1>4, <1>5 DEF KillAll

\* Every step of a run, of a command and of a crash keeps FileInv.
LEMMA NextFileInv == TypeOK /\ FileInv /\ [Next]_vars => FileInv'
<1> SUFFICES ASSUME TypeOK, FileInv, [Next]_vars PROVE FileInv'
  OBVIOUS
<1>1. CASE \E p \in Procs : Start(p) \/ Steps(p) \/ Crash(p)
  BY <1>1, RunFileInv
<1>2. CASE RemoveLock \/ KillAll
  BY <1>2, CommandFileInv
<1>3. CASE UNCHANGED vars
  BY <1>3 DEF vars, FileInv, LeftInv, ReadInv, Owns, Alive, Ended, Present
<1> QED
  BY <1>1, <1>2, <1>3 DEF Next, AllEnded

\* A file's creator owns it or is dead, and IDs that were read name runs that
\* had started.
THEOREM FileInvariant == Spec => []FileInv
<1> QED
  BY InitFileInv, NextFileInv, LockTypeCorrect, PTL DEF Spec

\* However many runs and commands take the file from each other: when all runs
\* ended by themselves, no lock file is left.
THEOREM NothingLeftBehind == Spec => []NoLockLeftBehind
<1>1. TypeOK /\ FileInv => NoLockLeftBehind
  BY DEF TypeOK, FileInv, LeftInv, Owns, Present, NoLockLeftBehind
<1> QED
  BY <1>1, FileInvariant, LockTypeCorrect, PTL

\* The file a run read and then removes, if it still is that file, is one whose
\* creator has ended by the time it is removed, not just when it was probed.
THEOREM RemovesOnlyStale == Spec => OnlyStaleIsRemoved
<1>1. TypeOK /\ FileInv /\ [Next]_vars =>
        [\A p \in Procs :
           pc[p] = "remove" /\ pc'[p] = "reacquire" /\ Present /\ creator = seen[p]
             => ~Alive(creator)]_vars
  BY DEF FileInv, ReadInv, Present
<1> QED
  BY <1>1, FileInvariant, LockTypeCorrect, PTL DEF Spec, OnlyStaleIsRemoved
=============================================================================
