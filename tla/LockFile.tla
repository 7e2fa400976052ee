------------------------------ MODULE LockFile ------------------------------
(***************************************************************************)
(* The single-instance lock `<root>/.autogitpull.lock`:                    *)
(* src/lock_utils_posix.cpp, its use at the start of run_event_loop        *)
(* (src/ui_loop.cpp), and the commands that remove the file from outside   *)
(* (src/cli_commands.cpp).  Each member of Procs is one run of the program *)
(* on the same root, identified by its process ID.                         *)
(*                                                                         *)
(* The file is created by open(O_CREAT|O_EXCL) and its process ID is       *)
(* written by a later call, to the file that was created: if that was      *)
(* removed in the meantime, the write reaches no file.  Opening may fail   *)
(* and so may the write, which nobody notices; removing a file that is     *)
(* there succeeds.                                                         *)
(***************************************************************************)
EXTENDS Naturals

CONSTANTS
  Procs,    \* runs of the program
  None,     \* no creator (no file), or no process ID: an empty file parses as 0
  Faults    \* which of "crash", "io_error", "remove_lock", "kill_all" happen

ASSUME LockAssumption == None \notin Procs

Stages ==
  {"new", "acquire", "write", "read", "probe", "remove", "reacquire",
   "setup", "running", "stopping", "done", "refused", "dead"}

VARIABLES
  creator, pid,     \* the lock file: who created it, the process ID in it
  pc, seen,         \* each run's stage, and the process ID it read
  tool, tool_seen,  \* a --kill-all command
  taken,            \* history: the file was removed while its creator owned it,
                    \* by another run or by a command
  failed            \* history: the system refused to open or to write the file

vars == <<creator, pid, pc, seen, tool, tool_seen, taken, failed>>

Present == creator # None

\* The runs whose acquire_lock_file returned, or will return, true.
Owns(p) == pc[p] \in {"write", "setup", "running", "stopping"}

Ended(p) == pc[p] \in {"new", "done", "refused", "dead"}

Alive(q) == q \in Procs /\ ~Ended(q)

\* Mutation: no process is found running.
ProcessNeverFound(q) == FALSE

\* process_running: kill(pid, 0); for pid 0 it is the caller's own group.
ProcessRunning(q) == q = None \/ Alive(q)

Init ==
  /\ creator = None /\ pid = None
  /\ pc = [p \in Procs |-> "new"]
  /\ seen = [p \in Procs |-> None]
  /\ tool = "idle" /\ tool_seen = None
  /\ taken = FALSE /\ failed = FALSE

-----------------------------------------------------------------------------
Goto(p, stage) == pc' = [pc EXCEPT ![p] = stage]
UnchangedFile == UNCHANGED <<creator, pid>>
UnchangedTool == UNCHANGED <<tool, tool_seen>>

\* The system refuses a call.
Fail == "io_error" \in Faults /\ failed' = TRUE

RemoveFile == creator' = None /\ pid' = None

\* The same by somebody who is not the file's creator.
TakeFile ==
  /\ RemoveFile
  /\ taken' = (taken \/ (Present /\ Owns(creator)))

\* Mutation: open without O_EXCL.
CreateOrTruncate(p, otherwise) ==
  creator' = p /\ pid' = None /\ Goto(p, "write") /\ UNCHANGED failed

\* open(path, O_RDWR | O_CREAT | O_EXCL), which may fail for other reasons than
\* a file that is there.
CreateFile(p, otherwise) ==
  \/ /\ ~Present
     /\ creator' = p /\ pid' = None
     /\ Goto(p, "write")
     /\ UNCHANGED failed
  \/ /\ (Present /\ UNCHANGED failed) \/ (~Present /\ Fail)
     /\ Goto(p, otherwise)
     /\ UnchangedFile

Start(p) ==
  /\ pc[p] = "new"
  /\ Goto(p, "acquire")
  /\ UNCHANGED <<seen, taken, failed>> /\ UnchangedFile /\ UnchangedTool

\* The constructor of LockFileGuard.
Acquire(p) ==
  /\ pc[p] = "acquire"
  /\ CreateFile(p, "read")
  /\ UNCHANGED <<seen, taken>> /\ UnchangedTool

\* Mutation: the file stays empty.
WriteNothing(p) ==
  /\ pc[p] = "write"
  /\ Goto(p, "setup")
  /\ UNCHANGED <<creator, pid, seen, taken, failed>> /\ UnchangedTool

\* The write that ends acquire_lock_file, whose result is not looked at.
WritePid(p) ==
  /\ pc[p] = "write"
  /\ \/ pid' = (IF creator = p THEN p ELSE pid) /\ UNCHANGED failed
     \/ UNCHANGED pid /\ Fail
  /\ Goto(p, "setup")
  /\ UNCHANGED <<creator, seen, taken>> /\ UnchangedTool

\* Mutation: the ID is not initialised when the file cannot be opened.
ReadUninitialised(p) ==
  /\ pc[p] = "read"
  /\ \/ Present /\ seen' = [seen EXCEPT ![p] = pid]
     \/ ~Present /\ seen' = [seen EXCEPT ![p] = "garbage"]
  /\ Goto(p, "probe")
  /\ UNCHANGED <<taken, failed>> /\ UnchangedFile /\ UnchangedTool

\* read_lock_pid: false only if the file cannot be opened.
ReadPid(p) ==
  /\ pc[p] = "read"
  /\ \/ /\ Present
        /\ seen' = [seen EXCEPT ![p] = pid]
        /\ Goto(p, "probe")
        /\ UNCHANGED failed
     \/ /\ (~Present /\ UNCHANGED failed) \/ (Present /\ Fail)
        /\ Goto(p, "remove")
        /\ UNCHANGED seen
  /\ UNCHANGED taken /\ UnchangedFile /\ UnchangedTool

\* Mutation: a lock file is enough to be refused.
ProbeNothing(p) ==
  /\ pc[p] = "probe"
  /\ Goto(p, "refused")
  /\ UNCHANGED <<seen, taken, failed>> /\ UnchangedFile /\ UnchangedTool

\* process_running(pid): "Another instance is already running", or stale.
Probe(p) ==
  /\ pc[p] = "probe"
  /\ Goto(p, IF ProcessRunning(seen[p]) THEN "refused" ELSE "remove")
  /\ UNCHANGED <<seen, taken, failed>> /\ UnchangedFile /\ UnchangedTool

\* "Stale lock file found. Removing and continuing..."
RemoveStale(p) ==
  /\ pc[p] = "remove"
  /\ TakeFile
  /\ Goto(p, "reacquire")
  /\ UNCHANGED <<seen, failed>> /\ UnchangedTool

Reacquire(p) ==
  /\ pc[p] = "reacquire"
  /\ CreateFile(p, "refused")
  /\ UNCHANGED <<seen, taken>> /\ UnchangedTool

\* The signal handlers are installed and the loop is entered, or the run ends
\* before that ("No valid repositories found").
EnterLoop(p) ==
  /\ pc[p] = "setup"
  /\ \E stage \in {"running", "stopping"} : Goto(p, stage)
  /\ UNCHANGED <<seen, taken, failed>> /\ UnchangedFile /\ UnchangedTool

LeaveLoop(p) ==
  /\ pc[p] = "running"
  /\ Goto(p, "stopping")
  /\ UNCHANGED <<seen, taken, failed>> /\ UnchangedFile /\ UnchangedTool

\* Mutation: the guard leaves the file behind.
ReleaseNothing(p) ==
  /\ pc[p] = "stopping"
  /\ Goto(p, "done")
  /\ UNCHANGED <<seen, taken, failed>> /\ UnchangedFile /\ UnchangedTool

\* The destructor of LockFileGuard removes whatever file has that name.
Release(p) ==
  /\ pc[p] = "stopping"
  /\ RemoveFile
  /\ Goto(p, "done")
  /\ UNCHANGED <<seen, taken, failed>> /\ UnchangedTool

\* The process is killed: nothing is cleaned up.
Crash(p) ==
  /\ "crash" \in Faults
  /\ ~Ended(p)
  /\ Goto(p, "dead")
  /\ UNCHANGED <<seen, taken, failed>> /\ UnchangedFile /\ UnchangedTool

-----------------------------------------------------------------------------
(***************************************************************************)
(* handle_hard_reset: --remove-lock, and --kill-all in its three calls.    *)
(***************************************************************************)
RemoveLock ==
  /\ "remove_lock" \in Faults
  /\ Present
  /\ TakeFile
  /\ UNCHANGED <<pc, seen, failed>> /\ UnchangedTool

KillRead ==
  /\ "kill_all" \in Faults
  /\ tool = "idle"
  /\ Present
  /\ tool' = "probe" /\ tool_seen' = pid
  /\ UNCHANGED <<pc, seen, taken, failed>> /\ UnchangedFile

KillProbe ==
  /\ tool = "probe"
  /\ tool' = IF ProcessRunning(tool_seen) THEN "signal" ELSE "idle"
  /\ UNCHANGED <<pc, seen, tool_seen, taken, failed>> /\ UnchangedFile

\* SIGTERM sets `running` to false once the handler is installed and kills
\* before that.  Sent to pid 0 it reaches the command itself.
KillSignal ==
  /\ tool = "signal"
  /\ \/ /\ Alive(tool_seen)
        /\ Goto(tool_seen, IF pc[tool_seen] \in {"running", "stopping"}
                             THEN "stopping" ELSE "dead")
        /\ tool' = "remove"
     \/ /\ ~Alive(tool_seen)
        /\ tool' = "idle"
        /\ UNCHANGED pc
  /\ UNCHANGED <<seen, tool_seen, taken, failed>> /\ UnchangedFile

KillRemove ==
  /\ tool = "remove"
  /\ TakeFile
  /\ tool' = "idle"
  /\ UNCHANGED <<pc, seen, tool_seen, failed>>

-----------------------------------------------------------------------------
Steps(p) ==
  \/ Acquire(p) \/ WritePid(p) \/ ReadPid(p) \/ Probe(p) \/ RemoveStale(p)
  \/ Reacquire(p) \/ EnterLoop(p) \/ LeaveLoop(p) \/ Release(p)

KillAll == KillRead \/ KillProbe \/ KillSignal \/ KillRemove

\* Every run ended and no command is under way.
AllEnded ==
  /\ \A p \in Procs : pc[p] \in {"done", "refused", "dead"}
  /\ tool = "idle"
  /\ UNCHANGED vars

Next ==
  \/ \E p \in Procs : Start(p) \/ Steps(p) \/ Crash(p)
  \/ RemoveLock \/ KillAll
  \/ AllEnded

\* Runs take their steps; nobody must start, crash or type a command.
Spec == Init /\ [][Next]_vars /\ \A p \in Procs : WF_vars(Steps(p))

-----------------------------------------------------------------------------
\* The type of every variable.
TypeOK ==
  /\ creator \in Procs \cup {None}
  /\ pid \in Procs \cup {None}
  /\ pc \in [Procs -> Stages]
  /\ seen \in [Procs -> Procs \cup {None}]
  /\ tool \in {"idle", "probe", "signal", "remove"}
  /\ tool_seen \in Procs \cup {None}
  /\ {taken, failed} \subseteq BOOLEAN

\* lock_utils.hpp: the guard ensures "single-instance semantics".
SingleInstance == \A p, q \in Procs : Owns(p) /\ Owns(q) => p = q

\* As long as nobody removed the file of a live owner, it is exclusive: crashes
\* and the takeover of a lock whose process is dead do no harm.
ExclusiveUntilTaken == ~taken => SingleInstance

\* A run removes the file it has read only if the process named in it is dead;
\* what it may remove by mistake is a file created since.
OnlyStaleIsRemoved ==
  [][\A p \in Procs :
       pc[p] = "remove" /\ pc'[p] = "reacquire" /\ Present /\ creator = seen[p]
         => ~Alive(creator)]_vars

\* What --kill-all and the next run read: the file names its creator or, as an empty
\* one does, nobody; it is empty only while it is written, after a crash in
\* between, or if the write failed.  The file of a running instance is there, and
\* is its own, as long as nobody removed it.
LockNamesOwner ==
  /\ Present => pid \in {creator, None}
  /\ Present /\ pid = None => failed \/ pc[creator] \in {"write", "dead"}
  /\ ~taken => \A p \in Procs : pc[p] \in {"setup", "running", "stopping"} => creator = p

\* Why both hold: an owner's file is its own, as long as nobody removed it; and a
\* file carries an ID as soon as its creator is past the write.
OwnerInv ==
  /\ ~taken => \A p \in Procs : Owns(p) => creator = p
  /\ Present => pid \in {creator, None}
  /\ Present /\ pid = None => failed \/ pc[creator] \in {"write", "dead"}

\* Runs that all ended by themselves leave no lock file, whatever they and the
\* commands took from each other.
NoLockLeftBehind ==
  (\A p \in Procs : pc[p] \in {"new", "done", "refused"}) => ~Present

\* A run that meets a lock whose process died takes it over, if it is alone and
\* the system lets it.
StaleLockRecovered ==
  \A p \in Procs :
    /\ pc[p] = "acquire" /\ pid \in Procs /\ pc[pid] = "dead"
    /\ \A q \in Procs \ {p} : pc[q] = "dead"
    ~> pc[p] \in {"running", "stopping", "dead"} \/ failed
=============================================================================
