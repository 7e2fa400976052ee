-------------------------------- MODULE Logger --------------------------------
(***************************************************************************)
(* The asynchronous logger, src/logger.cpp.  Any thread enqueues messages; *)
(* one writer thread takes them off the queue in batches and appends them  *)
(* to the file, which is rotated when it grows too long; init_logger and   *)
(* shutdown_logger stop and restart the writer, one call at a time         *)
(* (g_init_mtx); flush_logger may be called at any time.                   *)
(*                                                                         *)
(* A critical section on g_queue_mtx, with the notification that follows   *)
(* it, is one step: a notification that comes later only wakes the writer  *)
(* later.  The minimum level is looked at when a message is written, too:  *)
(* it may have been raised since the message was enqueued, and a message   *)
(* that comes with data is enqueued whatever its level.  One that is       *)
(* dropped before the queue is no message here.  Sizes are counted in      *)
(* messages.  Failures of the file system other than that of opening the   *)
(* file are not modelled; the compressed files are renamed along the same  *)
(* chain as the plain ones.                                                *)
(***************************************************************************)
EXTENDS Naturals, Sequences, SequencesExt

CONSTANTS
  Threads,     \* the threads that log
  BatchSize,   \* 16 in log_worker
  Limits,      \* the pairs of g_max_size (0 for no rotation) and g_max_files
  Quiet,       \* the messages <<thread, number>> of a level that may be too low
  MaxMessages, \* bound: messages of each thread
  MaxCalls     \* bound: calls of init_logger and shutdown_logger

ASSUME LoggerAssumption ==
  /\ BatchSize \in Nat \ {0}
  /\ Limits \subseteq Nat \X Nat
  /\ MaxMessages \in Nat /\ MaxCalls \in Nat

Messages == Threads \X (1..MaxMessages)

ASSUME QuietAssumption == Quiet \subseteq Messages

VARIABLES
  limits,                      \* chosen at the start
  queue, running, open,        \* g_log_queue, g_running, g_log_ofs.is_open()
  muted,                       \* g_min_level is above the level of Quiet
  writer, batch,               \* the writer thread
  file, rotated,               \* the log file, and log.1, log.2, ...; <<>> for none
  call, calls,                 \* the call of init_logger or shutdown_logger
  flushing,                    \* a call of flush_logger
  sent,                        \* how many messages each thread has logged
  written, due                 \* history: what was written, in order; what was
                               \* pending when a call began

queueVars == <<queue, sent>>
fileVars == <<limits, file, rotated, written>>
callVars == <<call, calls, due>>
vars == <<queueVars, fileVars, callVars, flushing, running, open, muted, writer, batch>>

MaxSize == limits[1]
MaxFiles == limits[2]

Pending == ToSet(queue) \cup ToSet(batch)

Init ==
  /\ limits \in Limits
  /\ queue = <<>> /\ running = FALSE /\ open = FALSE /\ muted = FALSE
  /\ writer = "none" /\ batch = <<>>
  /\ file = <<>> /\ rotated = [i \in 1..MaxFiles |-> <<>>]
  /\ call = "none" /\ calls = 0
  /\ flushing = FALSE
  /\ sent = [t \in Threads |-> 0]
  /\ written = <<>> /\ due = {}

-----------------------------------------------------------------------------
\* g_queue_cv.notify_one or notify_all: the writer tests its predicate again.
Notify == writer' = IF writer = "waiting" THEN "test" ELSE writer

\* Mutation: nobody is notified.
EnqueueQuietly(t) ==
  /\ sent[t] < MaxMessages
  /\ sent' = [sent EXCEPT ![t] = @ + 1]
  /\ queue' = Append(queue, <<t, sent'[t]>>)
  /\ UNCHANGED <<fileVars, callVars, flushing, running, open, batch, writer, muted>>

\* Whether or not the logger was initialised.
Enqueue(t) ==
  /\ sent[t] < MaxMessages
  /\ sent' = [sent EXCEPT ![t] = @ + 1]
  /\ queue' = Append(queue, <<t, sent'[t]>>)
  /\ Notify
  /\ UNCHANGED <<fileVars, callVars, flushing, running, open, batch, muted>>

-----------------------------------------------------------------------------
(***************************************************************************)
(* The writer: "test" at its wait, "waiting" in it, "write" with a batch.  *)
(***************************************************************************)
\* Mutation: from the back of the queue.
TakeLatest ==
  LET rest == IF BatchSize < Len(queue) THEN Len(queue) - BatchSize ELSE 0 IN
  /\ writer = "test"
  /\ queue # <<>>
  /\ batch' = SubSeq(queue, rest + 1, Len(queue))
  /\ queue' = SubSeq(queue, 1, rest)
  /\ writer' = "write"
  /\ UNCHANGED <<sent, fileVars, callVars, flushing, running, open, muted>>

TakeBatch ==
  LET n == IF BatchSize < Len(queue) THEN BatchSize ELSE Len(queue) IN
  /\ writer = "test"
  /\ queue # <<>>
  /\ batch' = SubSeq(queue, 1, n)
  /\ queue' = SubSeq(queue, n + 1, Len(queue))
  /\ writer' = "write"
  /\ UNCHANGED <<sent, fileVars, callVars, flushing, running, open, muted>>

\* Mutation: the predicate is the queue alone.
WaitAnyway ==
  /\ writer = "test"
  /\ queue = <<>>
  /\ writer' = "waiting"
  /\ UNCHANGED <<queueVars, fileVars, callVars, flushing, running, open, batch, muted>>

Wait ==
  /\ writer = "test"
  /\ queue = <<>> /\ running
  /\ writer' = "waiting"
  /\ UNCHANGED <<queueVars, fileVars, callVars, flushing, running, open, batch, muted>>

\* Mutation: the queue is not drained first.
ExitAtOnce ==
  /\ writer = "test"
  /\ ~running
  /\ writer' = "exited"
  /\ UNCHANGED <<queueVars, fileVars, callVars, flushing, running, open, batch, muted>>

ExitWriter ==
  /\ writer = "test"
  /\ queue = <<>> /\ ~running
  /\ writer' = "exited"
  /\ UNCHANGED <<queueVars, fileVars, callVars, flushing, running, open, batch, muted>>

\* Mutation: log.1 is overwritten, never renamed.
ShiftedNowhere(i) == rotated[i]

\* What log.i holds after the renames, from the highest number down: the last
\* is removed first, and a rename of a file that is not there changes nothing.
Shifted(i) ==
  IF rotated[i - 1] # <<>> THEN rotated[i - 1]
  ELSE IF i = MaxFiles THEN <<>> ELSE rotated[i]

TooLow(m) == muted /\ m \in Quiet

\* write_log_entry: rotation comes after the line that made the file too long.
WriteEntry ==
  LET grown == Append(file, Head(batch))
      full == MaxSize > 0 /\ Len(grown) > MaxSize
  IN
  /\ writer = "write"
  /\ batch' = Tail(batch)
  /\ writer' = IF batch' = <<>> THEN "test" ELSE "write"
  /\ \/ /\ open /\ ~TooLow(Head(batch))
        /\ written' = Append(written, Head(batch))
        /\ file' = IF full THEN <<>> ELSE grown
        /\ rotated' = IF full
                        THEN [i \in 1..MaxFiles |-> IF i = 1 THEN grown ELSE Shifted(i)]
                        ELSE rotated
        /\ UNCHANGED limits
     \/ (~open \/ TooLow(Head(batch))) /\ UNCHANGED fileVars
  /\ UNCHANGED <<queueVars, callVars, flushing, running, open, muted>>

Writer == TakeBatch \/ Wait \/ ExitWriter \/ WriteEntry

-----------------------------------------------------------------------------
(***************************************************************************)
(* init_logger and shutdown_logger, both of which call stop_log_thread.    *)
(***************************************************************************)
Call(name) ==
  /\ call = "none"
  /\ calls < MaxCalls /\ calls' = calls + 1
  /\ call' = name
  /\ running' = FALSE
  /\ Notify
  /\ due' = IF writer = "none" THEN {} ELSE Pending
  /\ UNCHANGED <<queueVars, fileVars, flushing, open, batch, muted>>

Join ==
  /\ call \in {"init", "shutdown"}
  /\ writer \in {"none", "exited"}
  /\ writer' = "none"
  /\ call' = IF call = "init" THEN "open" ELSE "close"
  /\ UNCHANGED <<queueVars, fileVars, flushing, calls, due, running, open, batch, muted>>

\* The file is opened for append, or the previous one again, or neither.
Open ==
  /\ call = "open"
  /\ open' \in BOOLEAN /\ muted' \in BOOLEAN
  /\ running' = TRUE
  /\ writer' = "test"
  /\ call' = "none"
  /\ UNCHANGED <<queueVars, fileVars, flushing, calls, due, batch>>

\* Mutation: the file is still open when the queue is thrown away.
CloseNothing ==
  /\ call = "close"
  /\ call' = "discard"
  /\ UNCHANGED <<queueVars, fileVars, flushing, calls, due, open, running, writer, batch, muted>>

Close ==
  /\ call = "close"
  /\ open' = FALSE
  /\ call' = "discard"
  /\ UNCHANGED <<queueVars, fileVars, flushing, calls, due, running, writer, batch, muted>>

\* What was enqueued since the writer stopped is thrown away.
Discard ==
  /\ call = "discard"
  /\ queue' = <<>>
  /\ call' = "none"
  /\ UNCHANGED <<sent, fileVars, flushing, calls, due, running, open, writer, batch, muted>>

\* stop_log_thread is left only when the writer is gone.
Control == Join \/ Open \/ Close \/ Discard

-----------------------------------------------------------------------------
\* flush_logger polls until the queue is empty.
Flush ==
  /\ ~flushing
  /\ flushing' = TRUE
  /\ UNCHANGED <<queueVars, fileVars, callVars, running, open, writer, batch, muted>>

FlushReturns ==
  /\ flushing
  /\ queue = <<>>
  /\ flushing' = FALSE
  /\ UNCHANGED <<queueVars, fileVars, callVars, running, open, writer, batch, muted>>

-----------------------------------------------------------------------------
SetLogLevel ==
  /\ muted' = ~muted
  /\ UNCHANGED <<queueVars, fileVars, callVars, flushing, running, open, writer, batch>>

Next ==
  \/ \E t \in Threads : Enqueue(t)
  \/ Writer
  \/ Call("init") \/ Call("shutdown") \/ Control
  \/ Flush \/ FlushReturns \/ SetLogLevel

\* The writer and a call under way take their steps; nobody has to log or call.
Spec == Init /\ [][Next]_vars /\ WF_vars(Writer) /\ WF_vars(Control)

-----------------------------------------------------------------------------
\* The type of every variable.
TypeOK ==
  /\ limits \in Limits
  /\ {queue, batch, file, written} \subseteq Seq(Messages)
  /\ rotated \in [1..MaxFiles -> Seq(Messages)]
  /\ {running, open, muted, flushing} \subseteq BOOLEAN
  /\ writer \in {"none", "test", "waiting", "write", "exited"}
  /\ call \in {"none", "init", "shutdown", "open", "close", "discard"}
  /\ calls \in 0..MaxCalls
  /\ sent \in [Threads -> 0..MaxMessages]
  /\ due \subseteq Messages

\* stop_log_thread returns only when everything that was enqueued before it was
\* called is in the file, but for what may be of too low a level: neither a shutdown
\* nor a second init_logger loses it.
JoinDrains == call \in {"open", "close"} /\ open => due \ Quiet \subseteq ToSet(written)

\* Messages of one thread reach the file in the order it logged them, each at
\* most once, through any number of restarts of the writer.
ThreadOrder ==
  \A i, j \in DOMAIN written :
    i < j /\ written[i][1] = written[j][1] => written[i][2] < written[j][2]

\* cut[0] messages come before those of log, cut[i] before those of log.i.
Stretches(cut) ==
  /\ file = SubSeq(written, cut[0] + 1, Len(written))
  /\ \A i \in 1..MaxFiles :
       /\ cut[i] <= cut[i - 1]
       /\ rotated[i] = SubSeq(written, cut[i] + 1, cut[i - 1])

\* Rotation loses nothing but the oldest messages, and those only when every
\* file it may keep is in use: log holds the last of what was written, log.1 what
\* comes before, and so on, without a gap.
RotationKeepsLatest ==
  \E cut \in [0..MaxFiles -> 0..Len(written)] :
    /\ Stretches(cut)
    /\ cut[MaxFiles] > 0 => \A i \in 1..MaxFiles : rotated[i] # <<>>

\* No wakeup is lost: while the logger is running, or being stopped, no message
\* stays on the queue.
QueueIsEmptied ==
  \A m \in Messages :
    m \in ToSet(queue) /\ writer \notin {"none", "exited"} ~> m \notin ToSet(queue)

\* init_logger and shutdown_logger return.
CallsReturn == call # "none" ~> call = "none"

=============================================================================
