----------------------------- MODULE LoggerProofs -----------------------------
(***************************************************************************)
(* Theorems about Logger, for every set of threads, batch size and limits, *)
(* and any number of messages and calls.                                   *)
(*                                                                         *)
(* A message moves from the queue to the batch to the file.  The order of  *)
(* a thread's messages is kept because what is further along was sent      *)
(* earlier (OrderInv); nothing is lost by a stop because the writer, which *)
(* a call waits for, only exits when queue and batch are empty (DrainInv). *)
(***************************************************************************)
EXTENDS LoggerLog, SequenceTheorems, TLAPS

\* Each message of s was sent before each message of the same thread in r.
Before(s, r) ==
  \A i \in DOMAIN s, j \in DOMAIN r : s[i][1] = r[j][1] => s[i][2] < r[j][2]

Ordered(s) ==
  \A i, j \in DOMAIN s : i < j /\ s[i][1] = s[j][1] => s[i][2] < s[j][2]

\* No message is on its way that no thread sent.
Sent(s) == \A i \in DOMAIN s : s[i][2] <= sent[s[i][1]]

OrderInv ==
  /\ Ordered(written) /\ Ordered(batch) /\ Ordered(queue)
  /\ Before(written, batch) /\ Before(written, queue) /\ Before(batch, queue)
  /\ Sent(written) /\ Sent(batch) /\ Sent(queue)

-----------------------------------------------------------------------------
(***************************************************************************)
(* The sequence operators of the model, element by element.                *)
(***************************************************************************)
\* The head of a sequence and its tail, element by element.
LEMMA TailFacts ==
  ASSUME NEW S, NEW s \in Seq(S), s # <<>>
  PROVE  /\ 1 \in DOMAIN s /\ Head(s) = s[1] /\ Head(s) \in S
         /\ Tail(s) \in Seq(S)
         /\ \A i \in DOMAIN Tail(s) : i \in Nat /\ i + 1 \in DOMAIN s /\ Tail(s)[i] = s[i + 1]
         /\ ToSet(s) = {Head(s)} \cup ToSet(Tail(s))
<1>1. /\ Tail(s) \in Seq(S) /\ Len(Tail(s)) = Len(s) - 1
      /\ \A i \in 1..Len(Tail(s)) : Tail(s)[i] = s[i + 1]
  BY HeadTailProperties
<1>2. Len(s) \in Nat \ {0} /\ DOMAIN s = 1..Len(s) /\ DOMAIN Tail(s) = 1..(Len(s) - 1)
  BY <1>1, EmptySeq
<1>3. Head(s) = s[1] /\ Head(s) \in S
  BY <1>2
<1>4. \A i \in DOMAIN Tail(s) : i \in Nat /\ i + 1 \in DOMAIN s /\ Tail(s)[i] = s[i + 1]
  BY <1>1, <1>2
<1>5. ToSet(s) = {Head(s)} \cup ToSet(Tail(s))
  <2>1. \A i \in DOMAIN s : i = 1 \/ (i - 1 \in DOMAIN Tail(s) /\ s[i] = Tail(s)[i - 1])
    BY <1>1, <1>2
  <2>2. ASSUME NEW x \in ToSet(s) PROVE x = Head(s) \/ x \in ToSet(Tail(s))
    BY <1>3, <2>1 DEF ToSet
  <2>3. ASSUME NEW x \in ToSet(Tail(s)) PROVE x \in ToSet(s)
    BY <1>4 DEF ToSet
  <2>4. Head(s) \in ToSet(s)
    BY <1>2, <1>3 DEF ToSet
  <2> QED
    BY <2>2, <2>3, <2>4
<1> QED
  BY <1>1, <1>2, <1>3, <1>4, <1>5

\* How long the rest is when n elements are taken.
LEMMA RestLength ==
  ASSUME NEW k \in Nat, NEW n \in Nat, n <= k
  PROVE  (IF n + 1 <= k THEN k - (n + 1) + 1 ELSE 0) = k - n
  OBVIOUS

\* A sequence that is cut after n elements: each element is in one of the two parts.
LEMMA SplitFacts ==
  ASSUME NEW S, NEW s \in Seq(S), NEW n \in 0..Len(s),
         NEW front, front = SubSeq(s, 1, n), NEW rest, rest = SubSeq(s, n + 1, Len(s))
  PROVE  /\ front \in Seq(S) /\ rest \in Seq(S)
         /\ n > 0 => front # <<>>
         /\ \A i \in DOMAIN front : i \in DOMAIN s /\ i \in Nat /\ i <= n /\ front[i] = s[i]
         /\ \A i \in DOMAIN rest :
              i \in Nat /\ i > 0 /\ n + i \in DOMAIN s /\ rest[i] = s[n + i]
         /\ \A i \in DOMAIN s :
              \/ i \in DOMAIN front /\ front[i] = s[i]
              \/ i - n \in DOMAIN rest /\ rest[i - n] = s[i]
<1>0. /\ Len(s) \in Nat /\ DOMAIN s = 1..Len(s) /\ \A i \in DOMAIN s : s[i] \in S
      /\ n \in Nat /\ n <= Len(s)
  OBVIOUS
<1>1. /\ front \in Seq(S) /\ Len(front) = n
      /\ \A i \in 1..n : front[i] = s[i]
  BY <1>0, SubSeqProperties
<1>2. /\ rest \in Seq(S) /\ Len(rest) = Len(s) - n
      /\ \A i \in 1..(Len(s) - n) : rest[i] = s[n + i]
  <2>1. \A i \in (n + 1)..Len(s) : s[i] \in S
    BY <1>0
  <2>2. /\ rest \in Seq(S)
        /\ Len(rest) = IF n + 1 <= Len(s) THEN Len(s) - (n + 1) + 1 ELSE 0
        /\ \A i \in 1..(Len(s) - (n + 1) + 1) : rest[i] = s[(n + 1) + i - 1]
    BY <1>0, <2>1, SubSeqProperties
  <2>3. Len(s) - (n + 1) + 1 = Len(s) - n
    BY <1>0
  <2>4. ASSUME NEW i \in 1..(Len(s) - n) PROVE rest[i] = s[n + i]
    <3>1. (n + 1) + i - 1 = n + i
      BY <1>0
    <3> QED
      BY <2>2, <2>3, <3>1
  <2>5. Len(rest) = Len(s) - n
    BY <1>0, <2>2, RestLength
  <2> QED
    BY <2>2, <2>4, <2>5
<1>3. DOMAIN front = 1..n /\ DOMAIN rest = 1..(Len(s) - n)
  <2>1. DOMAIN front = 1..Len(front)
    BY <1>1, LenProperties
  <2>2. DOMAIN rest = 1..Len(rest)
    BY <1>2, LenProperties
  <2> QED
    BY <1>1, <1>2, <2>1, <2>2
<1>4. \A i \in DOMAIN front : i \in DOMAIN s /\ i \in Nat /\ i <= n /\ front[i] = s[i]
  BY <1>0, <1>1, <1>3
<1>5. \A i \in DOMAIN rest : i \in Nat /\ i > 0 /\ n + i \in DOMAIN s /\ rest[i] = s[n + i]
  <2>1. ASSUME NEW i \in 1..(Len(s) - n)
        PROVE  i \in Nat /\ i > 0 /\ n + i \in DOMAIN s
    BY <1>0
  <2> QED
    BY <1>2, <1>3, <2>1
<1>6. ASSUME NEW i \in DOMAIN s
      PROVE  \/ i \in DOMAIN front /\ front[i] = s[i]
             \/ i - n \in DOMAIN rest /\ rest[i - n] = s[i]
  <2>1. CASE i <= n
    BY <1>0, <1>1, <1>3, <2>1
  <2>2. CASE i > n
    <3>1. i - n \in 1..(Len(s) - n) /\ n + (i - n) = i
      BY <1>0, <2>2
    <3> QED
      BY <1>2, <1>3, <3>1
  <2> QED
    BY <1>0, <2>1, <2>2
<1>7. n > 0 => front # <<>>
  BY <1>1
<1> QED
  BY <1>1, <1>2, <1>4, <1>5, <1>6, <1>7

\* A sequence with one more element, element by element.
LEMMA AppendFacts ==
  ASSUME NEW S, NEW s \in Seq(S), NEW e \in S
  PROVE  /\ Append(s, e) \in Seq(S)
         /\ \A i \in DOMAIN Append(s, e) :
              \/ i \in DOMAIN s /\ Append(s, e)[i] = s[i]
              \/ i = Len(s) + 1 /\ Append(s, e)[i] = e
         /\ \A i \in DOMAIN s : i \in Nat /\ i < Len(s) + 1
<1>1. /\ Append(s, e) \in Seq(S) /\ Len(Append(s, e)) = Len(s) + 1
      /\ \A i \in 1..Len(s) : Append(s, e)[i] = s[i]
      /\ Append(s, e)[Len(s) + 1] = e
  BY AppendProperties
<1>2. Len(s) \in Nat /\ DOMAIN s = 1..Len(s) /\ DOMAIN Append(s, e) = 1..(Len(s) + 1)
  BY <1>1
<1> QED
  BY <1>1, <1>2

\* And as a set.
LEMMA AppendSet ==
  ASSUME NEW S, NEW s \in Seq(S), NEW e \in S
  PROVE  ToSet(Append(s, e)) = ToSet(s) \cup {e}
<1>1. /\ Append(s, e) \in Seq(S) /\ Len(Append(s, e)) = Len(s) + 1
      /\ \A i \in 1..Len(s) : Append(s, e)[i] = s[i]
      /\ Append(s, e)[Len(s) + 1] = e
  BY AppendProperties
<1>2. Len(s) \in Nat /\ DOMAIN s = 1..Len(s) /\ DOMAIN Append(s, e) = 1..(Len(s) + 1)
  BY <1>1
<1>3. /\ \A i \in DOMAIN Append(s, e) : Append(s, e)[i] \in ToSet(s) \cup {e}
      /\ \A i \in DOMAIN s : i \in DOMAIN Append(s, e) /\ s[i] = Append(s, e)[i]
      /\ Len(s) + 1 \in DOMAIN Append(s, e) /\ e = Append(s, e)[Len(s) + 1]
  BY <1>1, <1>2 DEF ToSet
<1> QED
  BY <1>3 DEF ToSet

-----------------------------------------------------------------------------
(***************************************************************************)
(* Types.                                                                  *)
(***************************************************************************)
LEMMA MessageType == \A m \in Messages : m[1] \in Threads /\ m[2] \in Nat
  BY LoggerAssumption DEF Messages

\* The limits of the rotation are numbers.
LEMMA LimitType ==
  ASSUME TypeOK
  PROVE  MaxFiles \in Nat /\ MaxSize \in Nat
  BY LoggerAssumption DEF TypeOK, MaxFiles, MaxSize

\* Before init_logger every variable has its type.
LEMMA InitType == Init => TypeOK
<1> SUFFICES ASSUME Init PROVE TypeOK
  OBVIOUS
<1>1. <<>> \in Seq(Messages)
  BY EmptySeq
<1>2. {queue, batch, file, written} \subseteq Seq(Messages)
  BY <1>1 DEF Init
<1>3. rotated \in [1..MaxFiles -> Seq(Messages)]
  BY <1>1 DEF Init
<1>4. calls \in 0..MaxCalls /\ sent \in [Threads -> 0..MaxMessages]
  BY LoggerAssumption DEF Init
<1> QED
  BY <1>2, <1>3, <1>4 DEF Init, TypeOK

\* What a thread logs is a message, and goes to the end of the queue.
LEMMA EnqueueAppends ==
  ASSUME TypeOK, NEW t \in Threads, Enqueue(t)
  PROVE  /\ <<t, sent[t] + 1>> \in Messages
         /\ queue' = Append(queue, <<t, sent[t] + 1>>)
         /\ sent' = [sent EXCEPT ![t] = sent[t] + 1]
         /\ sent' \in [Threads -> 0..MaxMessages]
         /\ UNCHANGED <<batch, written>>
<1>1. sent[t] \in 0..MaxMessages /\ sent[t] < MaxMessages
  BY DEF TypeOK, Enqueue
<1>2. sent' = [sent EXCEPT ![t] = sent[t] + 1] /\ sent'[t] = sent[t] + 1
  BY DEF TypeOK, Enqueue
<1>3. sent[t] + 1 \in 1..MaxMessages
  BY <1>1, LoggerAssumption
<1> QED
  BY <1>2, <1>3 DEF TypeOK, Enqueue, Messages, fileVars

\* The batch is the front of the queue.
LEMMA BatchIsFront ==
  ASSUME TypeOK, TakeBatch
  PROVE  \E n \in 0..Len(queue) :
           /\ n > 0
           /\ batch' = SubSeq(queue, 1, n)
           /\ queue' = SubSeq(queue, n + 1, Len(queue))
<1>1. Len(queue) \in Nat \ {0}
  BY EmptySeq DEF TypeOK, TakeBatch
<1>2. CASE BatchSize < Len(queue)
  BY <1>1, <1>2, LoggerAssumption DEF TakeBatch
<1>3. CASE ~(BatchSize < Len(queue))
  BY <1>1, <1>3 DEF TakeBatch
<1> QED
  BY <1>2, <1>3

\* A batch is taken from the queue (the writer thread in src/logger.cpp): it is not
\* empty, and nothing that was pending is lost.
LEMMA TakeType ==
  ASSUME TypeOK, TakeBatch
  PROVE  /\ queue' \in Seq(Messages) /\ batch' \in Seq(Messages) /\ batch' # <<>>
         /\ Pending' = ToSet(queue)
<1>1. PICK n \in 0..Len(queue) :
         /\ n > 0
         /\ batch' = SubSeq(queue, 1, n)
         /\ queue' = SubSeq(queue, n + 1, Len(queue))
  BY BatchIsFront
<1>2. queue \in Seq(Messages)
  BY DEF TypeOK
<1>3. PICK front, rest :
         /\ front = SubSeq(queue, 1, n) /\ rest = SubSeq(queue, n + 1, Len(queue))
         /\ batch' = front /\ queue' = rest
  BY <1>1
<1>4. front \in Seq(Messages) /\ rest \in Seq(Messages) /\ front # <<>>
  BY <1>1, <1>2, <1>3, SplitFacts
<1>5. ToSet(queue) = ToSet(front) \cup ToSet(rest)
  <2>1. /\ \A i \in DOMAIN front : i \in DOMAIN queue /\ front[i] = queue[i]
        /\ \A i \in DOMAIN rest : n + i \in DOMAIN queue /\ rest[i] = queue[n + i]
        /\ \A i \in DOMAIN queue :
             \/ i \in DOMAIN front /\ front[i] = queue[i]
             \/ i - n \in DOMAIN rest /\ rest[i - n] = queue[i]
    BY <1>1, <1>2, <1>3, SplitFacts
  <2>2. ASSUME NEW m \in ToSet(queue) PROVE m \in ToSet(front) \/ m \in ToSet(rest)
    BY <2>1 DEF ToSet
  <2>3. ASSUME NEW m, m \in ToSet(front) \/ m \in ToSet(rest) PROVE m \in ToSet(queue)
    BY <2>1, <2>3 DEF ToSet
  <2> QED
    BY <2>2, <2>3
<1> QED
  BY <1>3, <1>4, <1>5 DEF Pending, ToSet

\* A line goes to the file, and a file that is full to log.1.
LEMMA WriteType ==
  ASSUME TypeOK, WriteEntry, batch # <<>>
  PROVE  TypeOK'
<1> DEFINE grown == Append(file, Head(batch))
<1>1. /\ Head(batch) \in Messages /\ Tail(batch) \in Seq(Messages)
  BY TailFacts DEF TypeOK
<1>2. grown \in Seq(Messages) /\ Append(written, Head(batch)) \in Seq(Messages)
  BY <1>1, AppendFacts DEF TypeOK
<1>3. <<>> \in Seq(Messages)
  BY EmptySeq
<1>4. file' \in Seq(Messages) /\ written' \in Seq(Messages) /\ UNCHANGED limits
  BY <1>2, <1>3 DEF WriteEntry, TypeOK, fileVars
<1>5. rotated' \in [1..MaxFiles -> Seq(Messages)]
  <2>1. ASSUME NEW i \in 1..MaxFiles, i # 1
        PROVE  Shifted(i) \in Seq(Messages)
    <3>1. i - 1 \in 1..MaxFiles
      BY <2>1, LimitType
    <3> QED
      BY <1>3, <3>1 DEF Shifted, TypeOK
  <2>2. [i \in 1..MaxFiles |-> IF i = 1 THEN grown ELSE Shifted(i)]
          \in [1..MaxFiles -> Seq(Messages)]
    BY <1>2, <2>1
  <2>3. \/ rotated' = rotated
        \/ rotated' = [i \in 1..MaxFiles |-> IF i = 1 THEN grown ELSE Shifted(i)]
    BY DEF WriteEntry, fileVars
  <2> QED
    BY <2>2, <2>3 DEF TypeOK
<1>6. /\ batch' = Tail(batch) /\ writer' \in {"test", "write"}
      /\ UNCHANGED <<queueVars, callVars, flushing, running, open, muted>>
  BY DEF WriteEntry
<1>7. UNCHANGED <<queue, sent, call, calls, due>>
  BY <1>6 DEF queueVars, callVars
<1>8. {queue, batch, file, written}' \subseteq Seq(Messages)
  BY <1>1, <1>4, <1>6, <1>7 DEF TypeOK
<1>9. rotated' \in [1..MaxFiles' -> Seq(Messages)]
  BY <1>4, <1>5 DEF MaxFiles
<1> QED
  BY <1>4, <1>6, <1>7, <1>8, <1>9 DEF TypeOK

-----------------------------------------------------------------------------
(***************************************************************************)
(* What the writer's stage, and that of a call, say of the batch and of    *)
(* what was pending when the call began.                                   *)
(***************************************************************************)
StageInv ==
  /\ writer = "write" <=> batch # <<>>
  /\ call \in {"open", "close", "discard"} => writer = "none"
  /\ call = "none" => writer # "exited" /\ (writer # "none" => running)

\* Until the writer has exited, what was pending is in the file or on its way, but
\* for what may be of too low a level.
DrainInv ==
  /\ call \in {"init", "shutdown"} /\ open =>
       due \ Quiet \subseteq ToSet(written) \cup
                     (IF writer \in {"none", "exited"} THEN {} ELSE Pending)
  /\ JoinDrains

\* The writer waits only for what will notify it.
WakeInv == writer = "waiting" => queue = <<>> /\ running

LoggerInv == TypeOK /\ StageInv /\ DrainInv /\ WakeInv

\* Every step of a thread, of the writer or of init_logger and shutdown_logger keeps
\* the types.
LEMMA NextType ==
  ASSUME TypeOK, StageInv, [Next]_vars
  PROVE  TypeOK'
<1> USE DEF queueVars, fileVars, callVars
<1>1. ASSUME NEW t \in Threads, Enqueue(t) PROVE TypeOK'
  <2>1. /\ <<t, sent[t] + 1>> \in Messages
        /\ queue' = Append(queue, <<t, sent[t] + 1>>)
        /\ sent' \in [Threads -> 0..MaxMessages]
    BY <1>1, EnqueueAppends
  <2>2. queue' \in Seq(Messages)
    BY <2>1, AppendFacts DEF TypeOK
  <2> QED
    BY <1>1, <2>1, <2>2 DEF Enqueue, Notify, TypeOK, MaxFiles
<1>2. CASE TakeBatch
  BY <1>2, TakeType DEF TakeBatch, TypeOK, MaxFiles
<1>3. CASE Wait \/ ExitWriter
  BY <1>3 DEF Wait, ExitWriter, TypeOK, MaxFiles
<1>4. CASE WriteEntry
  BY <1>4, WriteType DEF WriteEntry, StageInv
<1>5. ASSUME NEW name \in {"init", "shutdown"}, Call(name) PROVE TypeOK'
  <2>1. due' \subseteq Messages
    BY <1>5 DEF Call, Pending, TypeOK, ToSet
  <2>2. calls' \in 0..MaxCalls
    BY <1>5, LoggerAssumption DEF Call, TypeOK
  <2> QED
    BY <1>5, <2>1, <2>2 DEF Call, Notify, TypeOK, MaxFiles
<1>6. CASE Join \/ Open \/ Close
  BY <1>6 DEF Join, Open, Close, TypeOK, MaxFiles
<1>7. CASE Discard
  BY <1>7, EmptySeq DEF Discard, TypeOK, MaxFiles
<1>8. CASE Flush \/ FlushReturns \/ UNCHANGED vars
  BY <1>8 DEF Flush, FlushReturns, vars, TypeOK, MaxFiles
<1>9. CASE SetLogLevel
  BY <1>9 DEF SetLogLevel, TypeOK, MaxFiles
<1> QED
  BY <1>1, <1>2, <1>3, <1>4, <1>5, <1>6, <1>7, <1>8, <1>9 DEF Next, Writer, Control

\* The writer is where its batch and the call that waits for it say, and waits only
\* for what will notify it.
LEMMA NextStage ==
  ASSUME TypeOK, StageInv, WakeInv, [Next]_vars
  PROVE  StageInv' /\ WakeInv'
<1> USE DEF queueVars, fileVars, callVars, StageInv, WakeInv, TypeOK
<1>1. ASSUME NEW t \in Threads, Enqueue(t) PROVE StageInv' /\ WakeInv'
  BY <1>1 DEF Enqueue, Notify
<1>2. CASE TakeBatch
  BY <1>2, TakeType DEF TakeBatch
<1>3. CASE Wait \/ ExitWriter
  BY <1>3 DEF Wait, ExitWriter
<1>4. CASE WriteEntry
  BY <1>4 DEF WriteEntry
<1>5. ASSUME NEW name \in {"init", "shutdown"}, Call(name) PROVE StageInv' /\ WakeInv'
  BY <1>5 DEF Call, Notify
<1>6. CASE Control
  BY <1>6 DEF Control, Join, Open, Close, Discard
<1>7. CASE Flush \/ FlushReturns \/ SetLogLevel \/ UNCHANGED vars
  BY <1>7 DEF Flush, FlushReturns, SetLogLevel, vars
<1> QED
  BY <1>1, <1>2, <1>3, <1>4, <1>5, <1>6, <1>7 DEF Next, Writer

\* What was pending when a thread called stop_log_thread stays pending or written.
LEMMA NextDrain ==
  ASSUME TypeOK, StageInv, DrainInv, [Next]_vars
  PROVE  DrainInv'
<1> USE DEF queueVars, fileVars, callVars, StageInv, DrainInv, JoinDrains
<1>1. ASSUME NEW t \in Threads, Enqueue(t) PROVE DrainInv'
  <2>1. Pending \subseteq Pending'
    <3> DEFINE m == <<t, sent[t] + 1>>
    <3>1. m \in Messages /\ queue' = Append(queue, m) /\ UNCHANGED batch
      BY <1>1, EnqueueAppends
    <3>2. queue \in Seq(Messages)
      BY DEF TypeOK
    <3> HIDE DEF m
    <3>3. ToSet(queue) \subseteq ToSet(Append(queue, m))
      BY <3>1, <3>2, AppendSet
    <3> QED
      BY <3>1, <3>3 DEF Pending, ToSet
  <2>2. UNCHANGED <<call, open, due, written>>
    BY <1>1 DEF Enqueue
  <2>3. writer' \in {"none", "exited"} <=> writer \in {"none", "exited"}
    BY <1>1 DEF Enqueue, Notify
  <2>4. JoinDrains'
    BY <2>2
  <2> QED
    BY <2>1, <2>2, <2>3, <2>4
<1>2. CASE TakeBatch
  <2>1. batch = <<>> /\ Pending = ToSet(queue)
    BY <1>2 DEF TakeBatch, Pending, ToSet
  <2> QED
    BY <1>2, <2>1, TakeType DEF TakeBatch
<1>3. CASE Wait
  BY <1>3 DEF Wait, Pending
<1>4. CASE ExitWriter
  <2>1. Pending = {}
    BY <1>4 DEF ExitWriter, Pending, ToSet
  <2> QED
    BY <1>4, <2>1 DEF ExitWriter
<1>5. CASE WriteEntry
  <2>1. batch \in Seq(Messages) /\ batch # <<>> /\ batch' = Tail(batch)
    BY <1>5 DEF WriteEntry, TypeOK
  <2>2. /\ ToSet(batch) = {Head(batch)} \cup ToSet(batch')
        /\ Head(batch) \in Messages
    BY <2>1, TailFacts
  <2>3. open => ToSet(written) \cup {Head(batch)} \subseteq ToSet(written') \cup Quiet
    <3>1. written \in Seq(Messages)
      BY DEF TypeOK
    <3>2. ToSet(Append(written, Head(batch))) = ToSet(written) \cup {Head(batch)}
      BY <2>2, <3>1, AppendSet
    <3>3. CASE open /\ ~TooLow(Head(batch))
      <4>1. written' = Append(written, Head(batch))
        BY <1>5, <3>3 DEF WriteEntry
      <4> QED
        BY <3>2, <4>1 DEF ToSet
    <3>4. CASE TooLow(Head(batch))
      <4>1. UNCHANGED written /\ Head(batch) \in Quiet
        BY <1>5, <3>4 DEF WriteEntry, TooLow
      <4> QED
        BY <4>1 DEF ToSet
    <3> QED
      BY <3>3, <3>4
  <2>4. ToSet(written) \cup Pending \subseteq ToSet(written') \cup Pending' \cup Quiet \/ ~open
    <3>1. UNCHANGED queue
      BY <1>5 DEF WriteEntry
    <3>2. /\ Pending = ToSet(queue) \cup ToSet(batch)
          /\ Pending' = ToSet(queue) \cup ToSet(batch')
      BY <3>1 DEF Pending, ToSet
    <3> QED
      BY <2>2, <2>3, <3>2
  <2>5. UNCHANGED <<call, open, due>> /\ writer = "write" /\ writer' \in {"test", "write"}
    BY <1>5 DEF WriteEntry
  <2> QED
    BY <2>4, <2>5
<1>6. ASSUME NEW name \in {"init", "shutdown"}, Call(name) PROVE DrainInv'
  <2>1. UNCHANGED <<queue, batch, written>> /\ Pending' = Pending
    BY <1>6 DEF Call, Pending
  <2>2. writer # "none" => writer' \notin {"none", "exited"}
    BY <1>6 DEF Call, Notify
  <2>3. call' \in {"init", "shutdown"}
    BY <1>6 DEF Call
  <2> QED
    BY <1>6, <2>1, <2>2, <2>3 DEF Call
<1>7. CASE Join
  BY <1>7 DEF Join
<1>8. CASE Open \/ Close \/ Discard
  BY <1>8 DEF Open, Close, Discard
<1>9. CASE Flush \/ FlushReturns \/ SetLogLevel \/ UNCHANGED vars
  BY <1>9 DEF Flush, FlushReturns, SetLogLevel, vars, Pending
<1> QED
  BY <1>1, <1>2, <1>3, <1>4, <1>5, <1>6, <1>7, <1>8, <1>9 DEF Next, Writer, Control

\* Types, stages, what is due and whom the writer waits for agree in every reachable
\* state of src/logger.cpp: for any number of threads and messages and any batch size,
\* through restarts of the logger.
THEOREM LoggerInvariant == Spec => []LoggerInv
<1>1. Init => LoggerInv
  BY InitType DEF Init, LoggerInv, StageInv, DrainInv, JoinDrains, WakeInv
<1>2. LoggerInv /\ [Next]_vars => LoggerInv'
  BY NextType, NextStage, NextDrain DEF LoggerInv
<1> QED
  BY <1>1, <1>2, PTL DEF Spec

\* Every variable keeps its type.
THEOREM LoggerTypeCorrect == Spec => []TypeOK
<1>1. LoggerInv => TypeOK
  BY DEF LoggerInv
<1> QED
  BY <1>1, LoggerInvariant, PTL

\* stop_log_thread returns only when everything that was pending when it was called
\* is in the file, but for what may be of too low a level: for any batch size, whatever is logged meanwhile and however
\* often the logger was restarted before.
THEOREM StopDrains == Spec => []JoinDrains
<1>1. LoggerInv => JoinDrains
  BY DEF LoggerInv, DrainInv
<1> QED
  BY <1>1, LoggerInvariant, PTL

\* The writer never waits while there is a message to write or a call that waits
\* for it to exit: the safety half of QueueIsEmptied.
THEOREM NoLostWakeup == Spec => []WakeInv
<1>1. LoggerInv => WakeInv
  BY DEF LoggerInv
<1> QED
  BY <1>1, LoggerInvariant, PTL
-----------------------------------------------------------------------------
(***************************************************************************)
(* The order of a thread's messages.                                       *)
(***************************************************************************)
\* A message that comes after all of its thread in s may follow s.
LEMMA OrderedAppend ==
  ASSUME NEW S, NEW s \in Seq(S), NEW m \in S, Ordered(s),
         \A i \in DOMAIN s : s[i][1] = m[1] => s[i][2] < m[2]
  PROVE  Ordered(Append(s, m))
<1> SUFFICES ASSUME NEW i \in DOMAIN Append(s, m), NEW j \in DOMAIN Append(s, m),
                    i < j, Append(s, m)[i][1] = Append(s, m)[j][1]
             PROVE  Append(s, m)[i][2] < Append(s, m)[j][2]
  BY DEF Ordered
<1>1. DOMAIN Append(s, m) = 1..(Len(s) + 1) /\ Len(s) \in Nat
  BY AppendProperties
<1>2. i \in DOMAIN s /\ Append(s, m)[i] = s[i]
  BY <1>1, AppendFacts
<1>3. CASE j \in DOMAIN s /\ Append(s, m)[j] = s[j]
  BY <1>2, <1>3 DEF Ordered
<1>4. CASE Append(s, m)[j] = m
  BY <1>2, <1>4
<1> QED
  BY <1>3, <1>4, AppendFacts

\* enqueue_message puts the message of a thread behind all its others.
LEMMA EnqueueOrder ==
  ASSUME TypeOK, OrderInv, NEW t \in Threads, Enqueue(t)
  PROVE  OrderInv'
<1> DEFINE m == <<t, sent[t] + 1>>
<1>1. /\ m \in Messages /\ queue' = Append(queue, m)
      /\ UNCHANGED <<batch, written>>
  BY EnqueueAppends
<1>2. /\ sent \in [Threads -> Nat]
      /\ \A u \in Threads : sent'[u] = IF u = t THEN sent[t] + 1 ELSE sent[u]
  <2>1. sent \in [Threads -> 0..MaxMessages] /\ sent' = [sent EXCEPT ![t] = sent[t] + 1]
    BY EnqueueAppends DEF TypeOK
  <2>2. 0..MaxMessages \subseteq Nat
    BY LoggerAssumption
  <2> QED
    BY <2>1, <2>2
<1>3. {written, batch, queue} \subseteq Seq(Messages)
  BY DEF TypeOK
\* Whatever was on its way was sent before m, and stays counted.
<1>4. ASSUME NEW s \in Seq(Messages), Sent(s)
      PROVE  /\ \A i \in DOMAIN s : s[i][2] <= sent'[s[i][1]]
             /\ \A i \in DOMAIN s : s[i][1] = t => s[i][2] < sent[t] + 1
  <2>1. ASSUME NEW i \in DOMAIN s
        PROVE  s[i][2] <= sent'[s[i][1]] /\ (s[i][1] = t => s[i][2] < sent[t] + 1)
    <3>1. s[i] \in Messages /\ s[i][2] <= sent[s[i][1]]
      BY <1>4 DEF Sent
    <3>2. s[i][1] \in Threads /\ s[i][2] \in Nat
      BY <3>1, MessageType
    <3> QED
      BY <1>2, <3>1, <3>2
  <2> QED
    BY <2>1
<1>5. ASSUME NEW i \in DOMAIN queue'
      PROVE  \/ i \in DOMAIN queue /\ queue'[i] = queue[i]
             \/ queue'[i] = m
  BY <1>1, <1>3, AppendFacts
<1>6. Ordered(queue')
  <2>1. \A i \in DOMAIN queue : queue[i][1] = m[1] => queue[i][2] < m[2]
    BY <1>3, <1>4 DEF OrderInv
  <2> QED
    BY <1>1, <1>3, <2>1, OrderedAppend DEF OrderInv
<1>7. ASSUME NEW s \in {written, batch}
      PROVE  Before(s, queue')
  <2>1. /\ Before(s, queue)
        /\ \A i \in DOMAIN s : s[i][1] = t => s[i][2] < sent[t] + 1
    BY <1>3, <1>4 DEF OrderInv
  <2> QED
    BY <1>5, <2>1 DEF Before
<1>8. ASSUME NEW i \in DOMAIN queue'
      PROVE  queue'[i][2] <= sent'[queue'[i][1]]
  <2>1. CASE i \in DOMAIN queue /\ queue'[i] = queue[i]
    BY <1>3, <1>4, <2>1 DEF OrderInv, Sent
  <2>2. CASE queue'[i] = m
    BY <1>2, <2>2
  <2> QED
    BY <1>5, <2>1, <2>2
<1>9. Sent(written)' /\ Sent(batch)'
  BY <1>1, <1>3, <1>4 DEF OrderInv, Sent
<1> QED
  BY <1>1, <1>6, <1>7, <1>8, <1>9 DEF OrderInv, Sent, Ordered, Before

\* A batch is the front of the queue, so its order is that of the queue.
LEMMA TakeOrder ==
  ASSUME TypeOK, OrderInv, TakeBatch
  PROVE  OrderInv'
<1>1. PICK n \in 0..Len(queue) :
         /\ batch' = SubSeq(queue, 1, n)
         /\ queue' = SubSeq(queue, n + 1, Len(queue))
  BY BatchIsFront
<1>2. queue \in Seq(Messages) /\ n \in Nat
  BY DEF TypeOK
<1>3. PICK front, rest :
         /\ front = SubSeq(queue, 1, n) /\ rest = SubSeq(queue, n + 1, Len(queue))
         /\ batch' = front /\ queue' = rest
  BY <1>1
<1>4. /\ \A i \in DOMAIN front : i \in DOMAIN queue /\ i \in Nat /\ i <= n /\ front[i] = queue[i]
      /\ \A i \in DOMAIN rest :
           i \in Nat /\ i > 0 /\ n + i \in DOMAIN queue /\ rest[i] = queue[n + i]
  <2>1. /\ queue \in Seq(Messages) /\ n \in 0..Len(queue)
        /\ front = SubSeq(queue, 1, n) /\ rest = SubSeq(queue, n + 1, Len(queue))
    BY <1>1, <1>2, <1>3
  <2> QED
    BY <2>1, SplitFacts
<1>5. UNCHANGED <<written, sent>>
  BY DEF TakeBatch, fileVars
<1>6. Ordered(front) /\ Ordered(rest)
  <2>1. Ordered(queue)
    BY DEF OrderInv
  <2>2. Ordered(front)
    BY <1>4, <2>1 DEF Ordered
  <2>3. ASSUME NEW i \in DOMAIN rest, NEW j \in DOMAIN rest, i < j
        PROVE  n + i < n + j
    BY <1>2, <1>4, <2>3
  <2>4. Ordered(rest)
    BY <1>4, <2>1, <2>3 DEF Ordered
  <2> QED
    BY <2>2, <2>4
<1>7. Before(front, rest)
  BY <1>2, <1>4 DEF OrderInv, Ordered, Before
<1>8. Before(written, front) /\ Before(written, rest)
  BY <1>4 DEF OrderInv, Before
<1>9. Sent(front) /\ Sent(rest)
  BY <1>4 DEF OrderInv, Sent
<1> QED
  BY <1>3, <1>5, <1>6, <1>7, <1>8, <1>9 DEF OrderInv, Sent, Ordered, Before

\* The first of the batch goes behind all that is written.
LEMMA WriteOrder ==
  ASSUME TypeOK, OrderInv, WriteEntry, batch # <<>>
  PROVE  OrderInv'
<1> DEFINE m == Head(batch)
<1>1. /\ m \in Messages /\ m = batch[1] /\ 1 \in DOMAIN batch
      /\ \A i \in DOMAIN Tail(batch) :
           i \in Nat /\ i + 1 \in DOMAIN batch /\ Tail(batch)[i] = batch[i + 1]
  BY TailFacts DEF TypeOK
<1>2. /\ batch' = Tail(batch) /\ UNCHANGED <<queue, sent>>
      /\ written' \in {written, Append(written, m)}
  BY DEF WriteEntry, queueVars, fileVars
<1>3. Ordered(Tail(batch)) /\ Sent(Tail(batch)) /\ Before(Tail(batch), queue)
  BY <1>1 DEF OrderInv, Ordered, Sent, Before
<1>4. Before(written, Tail(batch))
  BY <1>1 DEF OrderInv, Before
<1>5. \A i \in DOMAIN Tail(batch) : Tail(batch)[i][1] = m[1] => m[2] < Tail(batch)[i][2]
  <2> SUFFICES ASSUME NEW i \in DOMAIN Tail(batch), Tail(batch)[i][1] = m[1]
               PROVE  m[2] < Tail(batch)[i][2]
    OBVIOUS
  <2>1. i \in Nat /\ i + 1 \in DOMAIN batch /\ Tail(batch)[i] = batch[i + 1]
    BY <1>1
  <2>2. 1 < i + 1
    <3>1. DOMAIN Tail(batch) = 1..Len(Tail(batch))
      BY TailFacts, LenProperties, <1>1 DEF TypeOK
    <3> QED
      BY <2>1, <3>1
  <2> QED
    BY <1>1, <2>1, <2>2 DEF OrderInv, Ordered
<1>6. DEFINE w == Append(written, m)
<1>7. \A i \in DOMAIN w : (i \in DOMAIN written /\ w[i] = written[i]) \/ w[i] = m
  BY <1>1, AppendFacts DEF TypeOK
<1>8. Ordered(w)
  <2>1. \A i \in DOMAIN written : written[i][1] = m[1] => written[i][2] < m[2]
    BY <1>1 DEF OrderInv, Before
  <2>2. written \in Seq(Messages) /\ Ordered(written)
    BY DEF TypeOK, OrderInv
  <2> QED
    BY <1>1, <2>1, <2>2, OrderedAppend
<1> HIDE DEF m, w
<1>9. Before(w, Tail(batch))
  BY <1>4, <1>5, <1>7 DEF Before
<1>10. Before(w, queue) /\ Sent(w)
  BY <1>1, <1>7 DEF OrderInv, Before, Sent
<1>11. /\ Ordered(written') /\ Before(written', Tail(batch))
       /\ Before(written', queue) /\ Sent(written')
  BY <1>2, <1>4, <1>8, <1>9, <1>10 DEF OrderInv, w
<1> QED
  BY <1>2, <1>3, <1>11 DEF OrderInv, Ordered, Sent, Before

\* Every step keeps the order of each thread's messages in file, batch and queue.
LEMMA NextOrder ==
  ASSUME TypeOK, StageInv, OrderInv, [Next]_vars
  PROVE  OrderInv'
<1>1. ASSUME NEW t \in Threads, Enqueue(t) PROVE OrderInv'
  BY <1>1, EnqueueOrder
<1>2. CASE TakeBatch
  BY <1>2, TakeOrder
<1>3. CASE WriteEntry
  BY <1>3, WriteOrder DEF WriteEntry, StageInv
<1>4. CASE Discard
  <2>1. queue' = <<>> /\ UNCHANGED <<batch, written, sent>>
    BY <1>4 DEF Discard, fileVars
  <2> QED
    BY <2>1 DEF OrderInv, Ordered, Before, Sent
<1>5. CASE UNCHANGED <<queue, batch, written, sent>>
  BY <1>5 DEF OrderInv, Ordered, Before, Sent
<1>6. \/ \E t \in Threads : Enqueue(t)
      \/ TakeBatch \/ WriteEntry \/ Discard
      \/ UNCHANGED <<queue, batch, written, sent>>
  BY DEF Next, Writer, Control, Wait, ExitWriter, Call, Join, Open, Close, Flush,
         FlushReturns, SetLogLevel, vars, queueVars, fileVars
<1> QED
  BY <1>1, <1>2, <1>3, <1>4, <1>5, <1>6

\* The messages of a thread reach the file in the order it logged them, each at
\* most once: for any number of threads and messages, however they are batched and
\* however often the writer is restarted or the queue thrown away.
THEOREM MessagesInOrder == Spec => []ThreadOrder
<1>1. Init => OrderInv
  BY DEF Init, OrderInv, Ordered, Before, Sent
<1>2. LoggerInv /\ OrderInv /\ [Next]_vars => OrderInv'
  BY NextOrder DEF LoggerInv
<1>3. OrderInv => ThreadOrder
  BY DEF OrderInv, Ordered, ThreadOrder
<1> QED
  BY <1>1, <1>2, <1>3, LoggerInvariant, PTL DEF Spec
-----------------------------------------------------------------------------
(***************************************************************************)
(* Rotation.  The files that are in use are the first: what was cut off    *)
(* after log.k has filled log.1 to log.k.                                  *)
(***************************************************************************)
Cuts(cut) ==
  /\ cut \in [0..MaxFiles -> 0..Len(written)]
  /\ Stretches(cut)
  /\ \A k \in 1..MaxFiles : cut[k] > 0 => \A i \in 1..k : rotated[i] # <<>>

RotationInv == \E cut \in [0..MaxFiles -> 0..Len(written)] : Cuts(cut)

\* The stretch from the a-th element to the b-th, without the a-th.
LEMMA StretchFacts ==
  ASSUME NEW S, NEW s \in Seq(S), NEW a \in Nat, NEW b \in Nat, a <= b, b <= Len(s),
         NEW part, part = SubSeq(s, a + 1, b)
  PROVE  /\ part \in Seq(S) /\ Len(part) = b - a
         /\ \A i \in 1..(b - a) : part[i] = s[a + i]
<1>1. Len(s) \in Nat /\ \A i \in (a + 1)..b : s[i] \in S
  OBVIOUS
<1>2. /\ part \in Seq(S)
      /\ Len(part) = IF a + 1 <= b THEN b - (a + 1) + 1 ELSE 0
      /\ \A i \in 1..(b - (a + 1) + 1) : part[i] = s[(a + 1) + i - 1]
  BY <1>1, SubSeqProperties
<1>3. (IF a + 1 <= b THEN b - (a + 1) + 1 ELSE 0) = b - a
  OBVIOUS
<1>4. ASSUME NEW i \in 1..(b - a) PROVE part[i] = s[a + i]
  <2>1. i \in 1..(b - (a + 1) + 1) /\ (a + 1) + i - 1 = a + i
    OBVIOUS
  <2> QED
    BY <1>2, <2>1
<1> QED
  BY <1>2, <1>3, <1>4

\* What is appended to a sequence changes none of its stretches, and the last one
\* grows with it.
LEMMA StretchOfAppend ==
  ASSUME NEW S, NEW s \in Seq(S), NEW e \in S, NEW a \in Nat, NEW b \in Nat,
         a <= b, b <= Len(s)
  PROVE  SubSeq(Append(s, e), a + 1, b) = SubSeq(s, a + 1, b)
<1>1. PICK more, old, new :
         more = Append(s, e) /\ old = SubSeq(s, a + 1, b) /\ new = SubSeq(more, a + 1, b)
  OBVIOUS
<1>2. /\ more \in Seq(S) /\ Len(more) = Len(s) + 1 /\ Len(s) \in Nat
      /\ \A i \in 1..Len(s) : more[i] = s[i]
  BY <1>1, AppendProperties
<1>3. /\ old \in Seq(S) /\ Len(old) = b - a
      /\ \A i \in 1..(b - a) : old[i] = s[a + i]
  BY <1>1, StretchFacts
<1>4. /\ new \in Seq(S) /\ Len(new) = b - a
      /\ \A i \in 1..(b - a) : new[i] = more[a + i]
  <2>1. b <= Len(more)
    BY <1>2
  <2> QED
    BY <1>1, <1>2, <2>1, StretchFacts
<1>5. ASSUME NEW i \in 1..(b - a) PROVE new[i] = old[i]
  <2>1. a + i \in 1..Len(s)
    BY <1>2
  <2> QED
    BY <1>2, <1>3, <1>4, <2>1
<1>6. new = old
  BY <1>3, <1>4, <1>5, SeqEqual
<1> QED
  BY <1>1, <1>6

\* The last stretch of a sequence grows with it.
LEMMA LastOfAppend ==
  ASSUME NEW S, NEW s \in Seq(S), NEW e \in S, NEW a \in Nat, a <= Len(s)
  PROVE  SubSeq(Append(s, e), a + 1, Len(s) + 1) = Append(SubSeq(s, a + 1, Len(s)), e)
<1>1. PICK more, old, new, last :
         /\ more = Append(s, e) /\ old = SubSeq(s, a + 1, Len(s))
         /\ new = Append(old, e) /\ last = SubSeq(more, a + 1, Len(s) + 1)
  OBVIOUS
<1>2. /\ more \in Seq(S) /\ Len(more) = Len(s) + 1 /\ Len(s) \in Nat
      /\ \A i \in 1..Len(s) : more[i] = s[i]
      /\ more[Len(s) + 1] = e
  BY <1>1, AppendProperties
<1>3. /\ old \in Seq(S) /\ Len(old) = Len(s) - a
      /\ \A i \in 1..(Len(s) - a) : old[i] = s[a + i]
  BY <1>1, <1>2, StretchFacts
<1>4. /\ new \in Seq(S) /\ Len(new) = (Len(s) - a) + 1
      /\ \A i \in 1..(Len(s) - a) : new[i] = old[i]
      /\ new[(Len(s) - a) + 1] = e
  <2>1. /\ new \in Seq(S) /\ Len(new) = Len(old) + 1
        /\ \A i \in 1..Len(old) : new[i] = old[i]
        /\ new[Len(old) + 1] = e
    BY <1>1, <1>3, AppendProperties
  <2> QED
    BY <1>3, <2>1
<1>5. /\ last \in Seq(S) /\ Len(last) = (Len(s) + 1) - a
      /\ \A i \in 1..((Len(s) + 1) - a) : last[i] = more[a + i]
  <2>1. Len(s) + 1 \in Nat /\ a <= Len(s) + 1 /\ Len(s) + 1 <= Len(more)
    BY <1>2
  <2> QED
    BY <1>1, <1>2, <2>1, StretchFacts, SMTT(30)
<1>6. ASSUME NEW i \in 1..((Len(s) + 1) - a) PROVE last[i] = new[i]
  <2>1. CASE i = (Len(s) - a) + 1
    <3>1. a + i = Len(s) + 1
      BY <1>2, <2>1
    <3> QED
      BY <1>2, <1>4, <1>5, <2>1, <3>1
  <2>2. CASE i # (Len(s) - a) + 1
    <3>1. i \in 1..(Len(s) - a) /\ a + i \in 1..Len(s)
      BY <1>2, <2>2
    <3> QED
      BY <1>2, <1>3, <1>4, <1>5, <3>1
  <2> QED
    BY <2>1, <2>2
<1>7. Len(last) = Len(new)
  BY <1>2, <1>4, <1>5
<1>8. last = new
  BY <1>4, <1>5, <1>6, <1>7, SeqEqual
<1> QED
  BY <1>1, <1>8

\* Nothing precedes the first message.
LEMMA EmptyStretch ==
  ASSUME NEW S, NEW s \in Seq(S), NEW a \in Nat, a <= Len(s)
  PROVE  SubSeq(s, a + 1, a) = <<>>
<1>1. PICK part : part = SubSeq(s, a + 1, a)
  OBVIOUS
<1>2. part \in Seq(S) /\ Len(part) = 0
  <2>1. a <= a /\ a - a = 0
    OBVIOUS
  <2> QED
    BY <1>1, <2>1, StretchFacts
<1> QED
  BY <1>1, <1>2, EmptySeq

\* A line that leaves the file short enough makes the last stretch longer.
LEMMA GrowCuts ==
  ASSUME TypeOK, NEW m \in Messages, RotationInv, UNCHANGED <<limits, rotated>>,
         written' = Append(written, m), file' = Append(file, m)
  PROVE  RotationInv'
<1>1. PICK cut \in [0..MaxFiles -> 0..Len(written)] : Cuts(cut)
  BY DEF RotationInv
<1>2. /\ written \in Seq(Messages) /\ Len(written) \in Nat /\ MaxFiles \in Nat
      /\ Len(written') = Len(written) + 1 /\ MaxFiles' = MaxFiles
  BY LimitType, AppendProperties DEF TypeOK, MaxFiles
<1>3. \A i \in 0..MaxFiles : cut[i] \in Nat /\ cut[i] <= Len(written)
  BY <1>1, <1>2
<1>4. cut \in [0..MaxFiles' -> 0..Len(written')]
  <2>1. 0..Len(written) \subseteq 0..Len(written')
    BY <1>2
  <2> QED
    BY <1>1, <1>2, <2>1
<1>5. file' = SubSeq(written', cut[0] + 1, Len(written'))
  <2>1. cut[0] \in Nat /\ cut[0] <= Len(written)
    BY <1>2, <1>3
  <2>2. file = SubSeq(written, cut[0] + 1, Len(written))
    BY <1>1 DEF Cuts, Stretches
  <2>3. PICK a \in Nat : a = cut[0] /\ a <= Len(written)
    BY <2>1
  <2>4. SubSeq(Append(written, m), a + 1, Len(written) + 1)
          = Append(SubSeq(written, a + 1, Len(written)), m)
    BY <1>2, <2>3, LastOfAppend
  <2> QED
    BY <1>2, <2>2, <2>3, <2>4
<1>6. ASSUME NEW i \in 1..MaxFiles
      PROVE  cut[i] <= cut[i - 1] /\ rotated'[i] = SubSeq(written', cut[i] + 1, cut[i - 1])
  <2>1. i \in 0..MaxFiles /\ i - 1 \in 0..MaxFiles
    BY <1>2
  <2>2. cut[i] <= cut[i - 1] /\ rotated[i] = SubSeq(written, cut[i] + 1, cut[i - 1])
    BY <1>1 DEF Cuts, Stretches
  <2>3. cut[i] \in Nat /\ cut[i - 1] \in Nat /\ cut[i - 1] <= Len(written)
    BY <1>3, <2>1
  <2>4. PICK a \in Nat, b \in Nat : a = cut[i] /\ b = cut[i - 1]
    BY <2>3
  <2>5. a <= b /\ b <= Len(written)
    BY <2>2, <2>3, <2>4
  <2>6. SubSeq(Append(written, m), a + 1, b) = SubSeq(written, a + 1, b)
    BY <1>2, <2>5, StretchOfAppend
  <2> QED
    BY <2>2, <2>4, <2>6
<1>7. \A k \in 1..MaxFiles : cut[k] > 0 => \A i \in 1..k : rotated'[i] # <<>>
  BY <1>1 DEF Cuts
<1>8. Cuts(cut)'
  BY <1>2, <1>4, <1>5, <1>6, <1>7 DEF Cuts, Stretches
<1> QED
  BY <1>4, <1>8 DEF RotationInv

\* Where the rotated files are used from the first on, every rename moves what is
\* there, and where the one before is not there, nothing is.
LEMMA ShiftedIsPrevious ==
  ASSUME TypeOK, NEW cut \in [0..MaxFiles -> 0..Len(written)], Cuts(cut),
         NEW i \in 1..MaxFiles, i # 1
  PROVE  Shifted(i) = rotated[i - 1]
<1>1. MaxFiles \in Nat /\ i - 1 \in 1..MaxFiles /\ i \in 0..MaxFiles
  BY LimitType
<1>2. CASE rotated[i - 1] = <<>>
  <2>1. cut[i] \in Nat /\ cut[i - 1] \in Nat /\ cut[i] <= cut[i - 1]
    <3>1. i - 1 \in 0..MaxFiles /\ Len(written) \in Nat
      BY <1>1 DEF TypeOK
    <3>2. cut[i] <= cut[i - 1]
      BY DEF Cuts, Stretches
    <3>3. cut[i] \in 0..Len(written) /\ cut[i - 1] \in 0..Len(written)
      BY <1>1, <3>1
    <3> QED
      BY <3>1, <3>2, <3>3
  <2>2. ~(cut[i - 1] > 0)
    <3>1. i - 1 \in 1..(i - 1)
      BY <1>1
    <3> QED
      BY <1>1, <1>2, <3>1 DEF Cuts
  <2>3. cut[i] = 0 /\ cut[i - 1] = 0
    BY <2>1, <2>2
  <2>4. rotated[i] = SubSeq(written, 0 + 1, 0)
    BY <2>3 DEF Cuts, Stretches
  <2>5. SubSeq(written, 0 + 1, 0) = <<>>
    <3>1. written \in Seq(Messages) /\ 0 <= Len(written)
      BY DEF TypeOK
    <3> QED
      BY <3>1, EmptyStretch
  <2> QED
    BY <1>2, <2>4, <2>5 DEF Shifted
<1>3. CASE rotated[i - 1] # <<>>
  BY <1>3 DEF Shifted
<1> QED
  BY <1>2, <1>3

\* A line that makes the file too long makes it the first rotated file, and each
\* stretch moves on by one file.
LEMMA ShiftCuts ==
  ASSUME TypeOK, NEW m \in Messages, RotationInv, UNCHANGED limits,
         written' = Append(written, m), file' = <<>>,
         rotated' = [i \in 1..MaxFiles |-> IF i = 1 THEN Append(file, m) ELSE Shifted(i)]
  PROVE  RotationInv'
<1>1. PICK cut \in [0..MaxFiles -> 0..Len(written)] : Cuts(cut)
  BY DEF RotationInv
<1>2. /\ written \in Seq(Messages) /\ written' \in Seq(Messages)
      /\ Len(written) \in Nat /\ MaxFiles \in Nat
      /\ Len(written') = Len(written) + 1 /\ MaxFiles' = MaxFiles
  BY LimitType, AppendProperties DEF TypeOK, MaxFiles
<1>3. \A i \in 0..MaxFiles : cut[i] \in Nat /\ cut[i] <= Len(written)
  BY <1>1, <1>2
<1>0. PICK next :
         next = [i \in 0..MaxFiles |-> IF i = 0 THEN Len(written) + 1 ELSE cut[i - 1]]
  OBVIOUS
<1>4. /\ next[0] = Len(written) + 1
      /\ \A i \in 1..MaxFiles : next[i] = cut[i - 1] /\ i - 1 \in 0..MaxFiles
  BY <1>0, <1>2
<1>5. next \in [0..MaxFiles' -> 0..Len(written')]
  <2>1. ASSUME NEW i \in 0..MaxFiles
        PROVE  (IF i = 0 THEN Len(written) + 1 ELSE cut[i - 1]) \in 0..(Len(written) + 1)
    <3>1. CASE i = 0
      BY <1>2, <3>1
    <3>2. CASE i # 0
      <4>1. i - 1 \in 0..MaxFiles
        BY <1>2, <3>2
      <4>2. cut[i - 1] \in Nat /\ cut[i - 1] <= Len(written)
        BY <1>3, <4>1
      <4> QED
        BY <1>2, <3>2, <4>2
    <3> QED
      BY <3>1, <3>2
  <2> QED
    BY <1>0, <1>2, <2>1
<1>6. file' = SubSeq(written', next[0] + 1, Len(written'))
  <2>1. SubSeq(written', Len(written') + 1, Len(written')) = <<>>
    BY <1>2, EmptyStretch
  <2> QED
    BY <1>2, <1>4, <2>1
<1>7. ASSUME 1 \in 1..MaxFiles
      PROVE  /\ next[1] <= next[0] /\ rotated'[1] # <<>>
             /\ rotated'[1] = SubSeq(written', next[1] + 1, next[0])
  <2>1. cut[0] \in Nat /\ cut[0] <= Len(written) /\ next[1] = cut[0]
    BY <1>2, <1>3, <1>4, <1>7
  <2>2. rotated'[1] = Append(file, m)
    BY <1>7
  <2>3. file = SubSeq(written, cut[0] + 1, Len(written))
    BY <1>1 DEF Cuts, Stretches
  <2>4. SubSeq(written', cut[0] + 1, Len(written) + 1) = Append(file, m)
    <3>1. PICK a \in Nat : a = cut[0] /\ a <= Len(written)
      BY <2>1
    <3>2. SubSeq(Append(written, m), a + 1, Len(written) + 1)
            = Append(SubSeq(written, a + 1, Len(written)), m)
      BY <1>2, <3>1, LastOfAppend
    <3> QED
      BY <2>3, <3>1, <3>2
  <2>5. Append(file, m) # <<>>
    <3>1. file \in Seq(Messages)
      BY DEF TypeOK
    <3>2. Len(Append(file, m)) = Len(file) + 1
      BY <3>1, AppendProperties
    <3> QED
      BY <3>1, <3>2, EmptySeq
  <2>6. next[1] <= next[0]
    BY <1>2, <1>4, <2>1
  <2> QED
    BY <1>4, <2>1, <2>2, <2>4, <2>5, <2>6
<1>8. ASSUME NEW i \in 1..MaxFiles, i # 1
      PROVE  /\ i - 1 \in 1..MaxFiles
             /\ next[i] = cut[i - 1] /\ next[i - 1] = cut[(i - 1) - 1]
             /\ cut[i - 1] <= cut[(i - 1) - 1]
             /\ rotated'[i] = rotated[i - 1]
             /\ rotated'[i] = SubSeq(written', next[i] + 1, next[i - 1])
  <2>1. i - 1 \in 1..MaxFiles /\ i - 1 \in 0..MaxFiles /\ (i - 1) - 1 \in 0..MaxFiles
    BY <1>2, <1>8
  <2>2. next[i] = cut[i - 1] /\ next[i - 1] = cut[(i - 1) - 1]
    BY <1>4, <2>1
  <2>3. /\ cut[i - 1] <= cut[(i - 1) - 1]
        /\ rotated[i - 1] = SubSeq(written, cut[i - 1] + 1, cut[(i - 1) - 1])
    BY <1>1, <2>1 DEF Cuts, Stretches
  <2>4. rotated'[i] = rotated[i - 1]
    BY <1>1, <1>8, ShiftedIsPrevious
  <2>5. /\ cut[i - 1] \in Nat /\ cut[(i - 1) - 1] \in Nat
        /\ cut[(i - 1) - 1] <= Len(written)
    BY <1>3, <2>1
  <2>6. PICK a \in Nat, b \in Nat : a = cut[i - 1] /\ b = cut[(i - 1) - 1]
    BY <2>5
  <2>7. a <= b /\ b <= Len(written)
    BY <2>3, <2>5, <2>6
  <2>8. SubSeq(Append(written, m), a + 1, b) = SubSeq(written, a + 1, b)
    BY <1>2, <2>7, StretchOfAppend
  <2> QED
    BY <2>1, <2>2, <2>3, <2>4, <2>6, <2>8
<1>9. ASSUME NEW i \in 1..MaxFiles
      PROVE  next[i] <= next[i - 1] /\ rotated'[i] = SubSeq(written', next[i] + 1, next[i - 1])
  <2>1. CASE i = 1
    <3>1. i - 1 = 0
      BY <2>1
    <3> QED
      BY <1>7, <2>1, <3>1
  <2>2. CASE i # 1
    BY <1>8, <2>2
  <2> QED
    BY <2>1, <2>2
<1>10. ASSUME NEW k \in 1..MaxFiles, next[k] > 0, NEW i \in 1..k
       PROVE  rotated'[i] # <<>>
  <2>1. i \in 1..MaxFiles
    BY <1>2
  <2>2. CASE i = 1
    BY <1>7, <2>1, <2>2
  <2>3. CASE i # 1
    <3>1. k # 1 /\ i - 1 \in 1..(k - 1)
      BY <2>3
    <3>2. k - 1 \in 1..MaxFiles /\ cut[k - 1] > 0
      BY <1>8, <1>10, <3>1
    <3>3. rotated[i - 1] # <<>>
      BY <1>1, <3>1, <3>2 DEF Cuts
    <3> QED
      BY <1>8, <2>1, <2>3, <3>3
  <2> QED
    BY <2>2, <2>3
<1>11. Cuts(next)'
  BY <1>2, <1>5, <1>6, <1>9, <1>10 DEF Cuts, Stretches
<1> QED
  BY <1>5, <1>11 DEF RotationInv

\* Every step keeps the files stretches of what was written, one after the other.
LEMMA NextRotation ==
  ASSUME TypeOK, StageInv, RotationInv, [Next]_vars
  PROVE  RotationInv'
<1>1. CASE UNCHANGED fileVars
  <2>1. UNCHANGED <<limits, file, rotated, written>>
    BY <1>1 DEF fileVars
  <2> QED
    BY <2>1, ZenonT(30) DEF RotationInv, Cuts, Stretches, MaxFiles
<1>2. CASE WriteEntry /\ open /\ ~TooLow(Head(batch))
  <2>1. Head(batch) \in Messages
    BY <1>2, TailFacts DEF WriteEntry, StageInv, TypeOK
  <2>2. UNCHANGED limits /\ written' = Append(written, Head(batch))
    BY <1>2 DEF WriteEntry
  <2>3. \/ file' = Append(file, Head(batch)) /\ UNCHANGED rotated
        \/ /\ file' = <<>>
           /\ rotated' = [i \in 1..MaxFiles |->
                            IF i = 1 THEN Append(file, Head(batch)) ELSE Shifted(i)]
    BY <1>2 DEF WriteEntry
  <2> QED
    BY <2>1, <2>2, <2>3, GrowCuts, ShiftCuts
<1>3. UNCHANGED fileVars \/ (WriteEntry /\ open /\ ~TooLow(Head(batch)))
  BY DEF Next, Writer, Control, Enqueue, TakeBatch, Wait, ExitWriter, WriteEntry, Call,
         Join, Open, Close, Discard, Flush, FlushReturns, SetLogLevel, vars
<1> QED
  BY <1>1, <1>2, <1>3

\* Before the first line all stretches are empty.
LEMMA InitRotation == Init => RotationInv
<1> SUFFICES ASSUME Init PROVE RotationInv
  OBVIOUS
<1> DEFINE cut == [i \in 0..MaxFiles |-> 0]
<1>1. /\ written \in Seq(Messages) /\ written = <<>> /\ Len(written) = 0
      /\ file = <<>> /\ rotated = [i \in 1..MaxFiles |-> <<>>]
      /\ MaxFiles \in Nat
  BY InitType, LimitType, EmptySeq DEF Init, TypeOK
<1>2. SubSeq(written, 0 + 1, 0) = <<>>
  <2>1. 0 \in Nat /\ 0 <= Len(written)
    BY <1>1
  <2> QED
    BY <1>1, <2>1, EmptyStretch
<1>3. cut \in [0..MaxFiles -> 0..Len(written)] /\ cut[0] = 0
  BY <1>1
<1>4. \A i \in 1..MaxFiles : cut[i] = 0 /\ cut[i - 1] = 0
  BY <1>1
<1> HIDE DEF cut
<1>5. Cuts(cut)
  BY <1>1, <1>2, <1>3, <1>4 DEF Cuts, Stretches
<1> QED
  BY <1>3, <1>5 DEF RotationInv

\* Rotation loses nothing but the oldest messages, and those only when every file it
\* may keep is in use: for any limits, none at all and no rotated file included.
THEOREM RotationLosesOldest == Spec => []RotationKeepsLatest
<1>1. LoggerInv /\ RotationInv /\ [Next]_vars => RotationInv'
  BY NextRotation DEF LoggerInv
<1>2. LoggerInv /\ RotationInv => RotationKeepsLatest
  <2> SUFFICES ASSUME TypeOK, RotationInv PROVE RotationKeepsLatest
    BY DEF LoggerInv
  <2>1. PICK cut \in [0..MaxFiles -> 0..Len(written)] : Cuts(cut)
    BY DEF RotationInv
  <2>2. cut[MaxFiles] > 0 => \A i \in 1..MaxFiles : rotated[i] # <<>>
    <3>1. CASE MaxFiles = 0
      BY <3>1
    <3>2. CASE MaxFiles # 0
      <4>1. MaxFiles \in 1..MaxFiles
        BY <3>2, LimitType
      <4> QED
        BY <2>1, <4>1 DEF Cuts
    <3> QED
      BY <3>1, <3>2
  <2> QED
    BY <2>1, <2>2 DEF Cuts, RotationKeepsLatest
<1> QED
  BY <1>1, <1>2, InitRotation, LoggerInvariant, PTL DEF Spec

-----------------------------------------------------------------------------
(***************************************************************************)
(* The logger implements Log, step by step.  Enqueueing is Submit; a line  *)
(* of the batch is Keep when the file is open and the level not too low,   *)
(* else Lose; what shutdown_logger throws away is LoseAll, after Close;    *)
(* opening, closing and a change of the level are Switch; every other      *)
(* step, that of taking a batch included, stutters.                        *)
(***************************************************************************)
\* The step of the abstract specification, which may stutter.
LogStep == [Abstract!LogNext]_(Abstract!logVars)

\* shutdown_logger throws the queue away only after it has closed the file.
ClosedInv == call = "discard" => ~open

\* The front of two sequences put together, if the first is not empty.
LEMMA FrontOfBoth ==
  ASSUME NEW S, NEW s \in Seq(S), NEW r \in Seq(S), s # <<>>
  PROVE  s \o r # <<>> /\ Head(s \o r) = Head(s) /\ Tail(s \o r) = Tail(s) \o r
<1>1. /\ Len(s) \in Nat /\ Len(s) > 0 /\ Len(r) \in Nat
      /\ s \o r \in Seq(S) /\ Len(s \o r) = Len(s) + Len(r)
      /\ \A i \in 1..(Len(s) + Len(r)) :
           (s \o r)[i] = IF i <= Len(s) THEN s[i] ELSE r[i - Len(s)]
  BY ConcatProperties, EmptySeq
<1>2. s \o r # <<>>
  BY <1>1
<1>3. Head(s \o r) = Head(s)
  BY <1>1, <1>2, HeadTailProperties
<1>4. Tail(s \o r) = Tail(s) \o r
  <2>1. /\ Tail(s) \in Seq(S) /\ Len(Tail(s)) = Len(s) - 1
        /\ \A i \in 1..Len(Tail(s)) : Tail(s)[i] = s[i + 1]
    BY HeadTailProperties
  <2>2. /\ Tail(s \o r) \in Seq(S) /\ Len(Tail(s \o r)) = Len(s) + Len(r) - 1
        /\ \A i \in 1..(Len(s) + Len(r) - 1) : Tail(s \o r)[i] = (s \o r)[i + 1]
    BY <1>1, <1>2, HeadTailProperties
  <2>3. /\ Tail(s) \o r \in Seq(S) /\ Len(Tail(s) \o r) = (Len(s) - 1) + Len(r)
        /\ \A i \in 1..((Len(s) - 1) + Len(r)) :
             (Tail(s) \o r)[i] = IF i <= Len(s) - 1 THEN Tail(s)[i] ELSE r[i - (Len(s) - 1)]
    BY <2>1, ConcatProperties
  <2>4. Len(s) + Len(r) - 1 = (Len(s) - 1) + Len(r)
    BY <1>1
  <2>5. ASSUME NEW i \in 1..Len(Tail(s \o r))
        PROVE  Tail(s \o r)[i] = (Tail(s) \o r)[i]
    <3>1. i \in Nat /\ i >= 1 /\ i + 1 \in 1..(Len(s) + Len(r)) /\ i \in 1..((Len(s) - 1) + Len(r))
      BY <1>1, <2>2, <2>4
    <3>2. CASE i <= Len(s) - 1
      <4>1. i + 1 <= Len(s) /\ i \in 1..Len(Tail(s))
        BY <1>1, <2>1, <3>1, <3>2
      <4> QED
        BY <1>1, <2>1, <2>2, <2>3, <2>4, <3>1, <3>2, <4>1
    <3>3. CASE ~(i <= Len(s) - 1)
      <4>1. ~(i + 1 <= Len(s)) /\ i + 1 - Len(s) = i - (Len(s) - 1)
        BY <1>1, <3>1, <3>3
      <4> QED
        BY <1>1, <2>2, <2>3, <2>4, <3>1, <3>3, <4>1
    <3> QED
      BY <3>2, <3>3
  <2> QED
    BY <2>2, <2>3, <2>4, <2>5, SeqEqual
<1> QED
  BY <1>2, <1>3, <1>4

\* A sequence that is cut in two, put together again.
LEMMA CutAndJoined ==
  ASSUME NEW S, NEW s \in Seq(S), NEW n \in 0..Len(s)
  PROVE  SubSeq(s, 1, n) \o SubSeq(s, n + 1, Len(s)) = s
<1>1. /\ Len(s) \in Nat /\ n \in Nat /\ 1 \in 1..(Len(s) + 1)
      /\ n \in (1 - 1)..Len(s) /\ Len(s) \in n..Len(s)
  OBVIOUS
<1>2. SubSeq(s, 1, n) \o SubSeq(s, n + 1, Len(s)) = SubSeq(s, 1, Len(s))
  BY <1>1, ConcatAdjacentSubSeq
<1> QED
  BY <1>2, SubSeqFull

\* Taking a batch moves the front of the queue and keeps the order of all.
LEMMA TakeKeepsTheWay ==
  ASSUME LoggerInv, TakeBatch
  PROVE  OnTheWay' = OnTheWay
<1> DEFINE n == IF BatchSize < Len(queue) THEN BatchSize ELSE Len(queue)
<1>1. queue \in Seq(Messages) /\ batch = <<>>
  BY DEF LoggerInv, TypeOK, StageInv, TakeBatch
<1>2. n \in 0..Len(queue)
  BY <1>1, LoggerAssumption
<1>3. batch' = SubSeq(queue, 1, n) /\ queue' = SubSeq(queue, n + 1, Len(queue))
  BY DEF TakeBatch
<1> HIDE DEF n
<1>4. batch' \o queue' = queue
  BY <1>1, <1>2, <1>3, CutAndJoined
<1> QED
  BY <1>1, <1>4, ConcatEmptySeq DEF OnTheWay

\* The initial states map to the initial state of Log.
LEMMA InitLog == Init => Abstract!LogInit /\ ClosedInv
<1>1. <<>> \o <<>> = <<>>
  BY ConcatEmptySeq
<1> QED
  BY <1>1 DEF Init, Abstract!LogInit, OnTheWay, ClosedInv

\* Every step maps to a step of Log or to a stutter.
LEMMA NextLog ==
  ASSUME LoggerInv, ClosedInv, [Next]_vars
  PROVE  LogStep /\ ClosedInv'
<1> USE DEF queueVars, fileVars, callVars, ClosedInv
<1>t. /\ queue \in Seq(Messages) /\ batch \in Seq(Messages)
      /\ open \in BOOLEAN /\ muted \in BOOLEAN
  BY DEF LoggerInv, TypeOK
<1>1. ASSUME NEW t \in Threads, Enqueue(t) PROVE LogStep /\ ClosedInv'
  <2>1. <<t, sent[t] + 1>> \in Messages /\ queue' = Append(queue, <<t, sent[t] + 1>>)
    BY <1>1, EnqueueAppends DEF LoggerInv
  <2>2. UNCHANGED <<batch, open, muted, written, call>>
    BY <1>1 DEF Enqueue
  <2>3. OnTheWay' = Append(OnTheWay, <<t, sent[t] + 1>>)
    BY <1>t, <2>1, <2>2 DEF OnTheWay
  <2>4. Abstract!Submit(<<t, sent[t] + 1>>)
    BY <2>2, <2>3 DEF Abstract!Submit
  <2> QED
    BY <2>1, <2>2, <2>4 DEF LogStep, Abstract!LogNext
<1>2. CASE TakeBatch
  BY <1>2, TakeKeepsTheWay DEF TakeBatch, LogStep, Abstract!logVars
<1>3. CASE WriteEntry
  <2>1. batch # <<>> /\ batch' = Tail(batch) /\ UNCHANGED <<queue, open, muted, call>>
    BY <1>3 DEF WriteEntry, LoggerInv, StageInv
  <2>2. /\ OnTheWay # <<>> /\ OnTheWay' = Tail(OnTheWay)
        /\ Head(OnTheWay) = Head(batch)
    BY <1>t, <2>1, FrontOfBoth DEF OnTheWay
  <2>3. CASE open /\ ~TooLow(Head(batch)) /\ written' = Append(written, Head(batch))
    BY <2>1, <2>2, <2>3 DEF LogStep, Abstract!LogNext, Abstract!Keep, Abstract!Unheard, TooLow
  <2>4. CASE (~open \/ TooLow(Head(batch))) /\ UNCHANGED written
    BY <2>1, <2>2, <2>4 DEF LogStep, Abstract!LogNext, Abstract!Lose, Abstract!Unheard, TooLow
  <2> QED
    BY <1>3, <2>3, <2>4 DEF WriteEntry
<1>4. CASE Open \/ Close \/ SetLogLevel
  <2>c. ClosedInv'
    BY <1>4 DEF Open, Close, SetLogLevel
  <2> DEFINE Switched == /\ open' \in BOOLEAN /\ muted' \in BOOLEAN
                         /\ UNCHANGED <<queue, batch, written>>
  <2>o. Open => Switched
    BY DEF Open, queueVars, fileVars
  <2>k. Close => Switched
    BY <1>t DEF Close, queueVars, fileVars
  <2>s. SetLogLevel => Switched
    BY <1>t DEF SetLogLevel, queueVars, fileVars
  <2>1. Switched
    BY <1>4, <2>o, <2>k, <2>s
  <2>2. Abstract!Switch
    BY <2>1 DEF Abstract!Switch, OnTheWay
  <2> QED
    BY <2>2, <2>c DEF LogStep, Abstract!LogNext
<1>5. CASE Discard
  <2>1. /\ ~open /\ batch = <<>> /\ queue' = <<>>
        /\ UNCHANGED <<batch, open, muted, written>> /\ call' = "none"
    BY <1>5 DEF Discard, LoggerInv, StageInv
  <2>2. OnTheWay' = <<>>
    BY <2>1, ConcatEmptySeq DEF OnTheWay
  <2> QED
    BY <2>1, <2>2 DEF LogStep, Abstract!LogNext, Abstract!LoseAll
<1>6. CASE Wait \/ ExitWriter \/ Flush \/ FlushReturns
  BY <1>6 DEF Wait, ExitWriter, Flush, FlushReturns, LogStep, Abstract!logVars, OnTheWay
<1>7. CASE Call("init") \/ Call("shutdown") \/ Join
  BY <1>7 DEF Call, Join, LogStep, Abstract!logVars, OnTheWay
<1>8. CASE UNCHANGED vars
  BY <1>8 DEF vars, LogStep, Abstract!logVars, OnTheWay
<1> QED
  BY <1>1, <1>2, <1>3, <1>4, <1>5, <1>6, <1>7, <1>8 DEF Next, Writer, Control

\* What is in the files is what all the threads enqueued, in that order: an entry is
\* passed over only if its level is too low when its turn comes, or while no file is
\* open (src/logger.cpp: write_log_entry, and the queue that shutdown_logger clears
\* after it closed the file).
THEOREM LoggerImplementsLog == Spec => ImplementsLog
<1>1. LoggerInv /\ ClosedInv /\ [Next]_vars => LogStep /\ ClosedInv'
  BY NextLog
<1> QED
  BY <1>1, InitLog, LoggerInvariant, PTL
     DEF Spec, ImplementsLog, Abstract!LogSpec, LogStep
=============================================================================
