---------------------------- MODULE ServiceProofs ----------------------------
(***************************************************************************)
(* Theorems about Service, for every limit, window and delay of the        *)
(* monitor, every set of repositories and of commit times, and any number  *)
(* of processes after one another.                                         *)
(***************************************************************************)
EXTENDS Service, SequenceTheorems, FiniteSetTheorems, WellFoundedInduction, TLAPS

-----------------------------------------------------------------------------
(***************************************************************************)
(* The monitor.  The starts it remembers end with those of the window,     *)
(* before which only too old ones are left; a launch drops these.          *)
(***************************************************************************)
TooOld == Len(starts) - Len(launches)

OldestFirst(ages) == \A i, j \in DOMAIN ages : i < j => ages[j] <= ages[i]

MonitorInv ==
  /\ starts \in Seq(Nat) /\ launches \in Seq(0..RespawnWindow)
  /\ OldestFirst(launches)
  /\ persist /\ phase # "returned" =>
       /\ TooOld \in Nat
       /\ \A i \in DOMAIN launches : launches[i] = starts[TooOld + i]
       /\ \A i \in 1..TooOld : ~Young(starts[i])
  /\ RespawnLimit

\* The least of a set of numbers.
LEMMA MinFacts ==
  ASSUME NEW S \in SUBSET Nat, S # {}
  PROVE  Min(S) \in S /\ \A n \in S : Min(S) <= n
<1> DEFINE less == {p \in Nat \X Nat : p[1] < p[2]}
<1>1. less = OpToRel(<, Nat)
  BY Zenon DEF OpToRel
<1>2. IsWellFoundedOn(less, Nat)
  BY <1>1, NatLessThanWellFounded, Zenon
<1> HIDE DEF less
<1>3. PICK m \in S : \A n \in S : ~(<<n, m>> \in less)
  BY <1>2, WFMin
<1>4. ASSUME NEW n \in S PROVE m <= n
  <2>1. m \in Nat /\ n \in Nat /\ ~(<<n, m>> \in less)
    BY <1>3
  <2> QED
    BY <2>1 DEF less
<1>5. \E x \in S : \A y \in S : x <= y
  BY <1>4
<1> QED
  BY <1>5 DEF Min

\* A sequence and its elements.
LEMMA SeqFacts ==
  ASSUME NEW S, NEW s \in Seq(S)
  PROVE  Len(s) \in Nat /\ DOMAIN s = 1..Len(s) /\ \A i \in DOMAIN s : s[i] \in S
  OBVIOUS

\* A sequence is one over any set that has its elements.
LEMMA SeqOfOthers ==
  ASSUME NEW S, NEW T, NEW s \in Seq(S), \A i \in DOMAIN s : s[i] \in T
  PROVE  s \in Seq(T)
<1>1. s \in [1..Len(s) -> T] /\ Len(s) \in Nat
  BY SeqFacts
<1> QED
  BY <1>1

\* The n youngest of ages.
LEMMA SuffixFacts ==
  ASSUME NEW S, NEW ages \in Seq(S), NEW k \in 0..Len(ages),
         NEW rest, rest = SubSeq(ages, k + 1, Len(ages))
  PROVE  /\ rest \in Seq(S) /\ Len(rest) = Len(ages) - k
         /\ \A i \in 1..(Len(ages) - k) : rest[i] = ages[k + i]
<1>1. Len(ages) \in Nat /\ \A i \in (k + 1)..Len(ages) : ages[i] \in S
  OBVIOUS
<1>2. /\ rest \in Seq(S)
      /\ Len(rest) = IF k + 1 <= Len(ages) THEN Len(ages) - (k + 1) + 1 ELSE 0
      /\ \A i \in 1..(Len(ages) - (k + 1) + 1) : rest[i] = ages[(k + 1) + i - 1]
  BY <1>1, SubSeqProperties
<1>3. (IF k + 1 <= Len(ages) THEN Len(ages) - (k + 1) + 1 ELSE 0) = Len(ages) - k
  BY <1>1
<1>4. ASSUME NEW i \in 1..(Len(ages) - k) PROVE rest[i] = ages[k + i]
  <2>1. i \in 1..(Len(ages) - (k + 1) + 1) /\ (k + 1) + i - 1 = k + i
    BY <1>1
  <2> QED
    BY <1>2, <2>1
<1> QED
  BY <1>2, <1>3, <1>4

\* If the first d are too old and the next is not, it is these d that are pruned.
LEMMA PrunedFacts ==
  ASSUME NEW ages \in Seq(Nat), NEW d \in Nat, d < Len(ages),
         \A i \in 1..d : ~Young(ages[i]), Young(ages[d + 1])
  PROVE  Pruned(ages) = SubSeq(ages, d + 1, Len(ages))
<1> DEFINE young == {i \in DOMAIN ages : Young(ages[i])}
<1>1. DOMAIN ages = 1..Len(ages) /\ Len(ages) \in Nat
  OBVIOUS
<1>2. d + 1 \in young /\ young \subseteq Nat
  BY <1>1
<1>3. \A i \in young : d + 1 <= i
  BY <1>1
<1> DEFINE m == Min(young)
<1>4. m \in young /\ m <= d + 1
  BY <1>2, MinFacts
<1>5. m \in Nat /\ d + 1 <= m
  BY <1>2, <1>3, <1>4
<1>6. Pruned(ages) = SubSeq(ages, m, Len(ages))
  BY DEF Pruned
<1> HIDE DEF m
<1>7. m = d + 1
  BY <1>4, <1>5
<1> QED
  BY <1>6, <1>7

\* What is recent of ages that are in order.
LEMMA RecentFacts ==
  ASSUME NEW ages \in Seq(Nat), OldestFirst(ages)
  PROVE  \E k \in 0..Len(ages) :
           /\ Recent(ages) = SubSeq(ages, k + 1, Len(ages))
           /\ \A i \in 1..k : ~Young(ages[i])
           /\ \A i \in (k + 1)..Len(ages) : Young(ages[i])
<1> DEFINE young == {i \in DOMAIN ages : Young(ages[i])}
<1>1. DOMAIN ages = 1..Len(ages) /\ Len(ages) \in Nat
      /\ \A i \in DOMAIN ages : ages[i] \in Nat
  OBVIOUS
<1>2. CASE young = {}
  <2>1. Recent(ages) = <<>>
    BY <1>2 DEF Recent
  <2>2. SubSeq(ages, Len(ages) + 1, Len(ages)) = <<>>
    BY <1>1, SubSeqEmpty
  <2>3. \A i \in 1..Len(ages) : ~Young(ages[i])
    BY <1>1, <1>2
  <2>4. \A i \in (Len(ages) + 1)..Len(ages) : FALSE
    BY <1>1
  <2> WITNESS Len(ages) \in 0..Len(ages)
  <2> QED
    BY <2>1, <2>2, <2>3, <2>4
<1>3. CASE young # {}
  <2> DEFINE m == Min(young)
  <2>0. young \subseteq Nat
    BY <1>1
  <2>1. m \in young /\ \A i \in young : m <= i
    BY <1>3, <2>0, MinFacts
  <2>2. m \in 1..Len(ages) /\ m - 1 \in 0..Len(ages) /\ (m - 1) + 1 = m
    BY <1>1, <2>1
  <2>3. Recent(ages) = SubSeq(ages, (m - 1) + 1, Len(ages))
    BY <1>3, <2>2 DEF Recent
  <2> HIDE DEF m
  <2>4. \A i \in 1..(m - 1) : ~Young(ages[i])
    BY <1>1, <2>1, <2>2
  <2>5. ASSUME NEW i \in m..Len(ages) PROVE Young(ages[i])
    <3>1. i \in DOMAIN ages /\ m \in DOMAIN ages /\ (i = m \/ m < i) /\ Young(ages[m])
      BY <1>1, <2>1, <2>2
    <3>2. ages[i] <= ages[m]
      BY <1>1, <3>1 DEF OldestFirst
    <3>3. ages[i] \in Nat /\ ages[m] \in Nat
      BY <1>1, <3>1
    <3> QED
      BY <3>1, <3>2, <3>3, MonitorAssumption DEF Young
  <2> QED
    BY <2>2, <2>3, <2>4, <2>5
<1> QED
  BY <1>2, <1>3

\* A minute makes nobody overtake another, and nobody young again.
LEMMA OlderFacts ==
  ASSUME NEW a \in Nat, NEW b \in Nat, b <= a
  PROVE  /\ Older(a) \in Nat /\ Older(b) <= Older(a)
         /\ ~Young(a) => ~Young(Older(a))
  BY MonitorAssumption DEF Older, Young
\* A worker that starts is the youngest.
LEMMA NewestLast ==
  ASSUME launches \in Seq(0..RespawnWindow), OldestFirst(launches)
  PROVE  /\ Append(launches, 0) \in Seq(0..RespawnWindow)
         /\ OldestFirst(Append(launches, 0))
<1> DEFINE more == Append(launches, 0)
<1>1. 0 \in 0..RespawnWindow
  BY MonitorAssumption
<1>2. /\ more \in Seq(0..RespawnWindow) /\ Len(more) = Len(launches) + 1
      /\ \A i \in 1..Len(launches) : more[i] = launches[i]
      /\ more[Len(launches) + 1] = 0
  BY <1>1, AppendProperties
<1> HIDE DEF more
<1>3. /\ Len(launches) \in Nat /\ DOMAIN launches = 1..Len(launches)
      /\ DOMAIN more = 1..(Len(launches) + 1)
      /\ \A i \in DOMAIN more : more[i] \in Nat
  <2>1. DOMAIN more = 1..Len(more) /\ \A i \in DOMAIN more : more[i] \in 0..RespawnWindow
    BY <1>2, LenProperties, ElementOfSeq
  <2> QED
    BY <1>2, <2>1
<1>4. ASSUME NEW i \in DOMAIN more, NEW j \in DOMAIN more, i < j
      PROVE  more[j] <= more[i]
  <2>1. i \in DOMAIN launches /\ more[i] = launches[i]
    BY <1>2, <1>3, <1>4
  <2>2. CASE j \in DOMAIN launches
    BY <1>2, <1>3, <1>4, <2>1, <2>2 DEF OldestFirst
  <2>3. CASE j = Len(launches) + 1
    BY <1>2, <1>3, <2>3
  <2> QED
    BY <1>3, <2>2, <2>3
<1> QED
  BY <1>2, <1>4 DEF OldestFirst, more

\* What is remembered after a launch: the starts of the window and the new one.
LEMMA LaunchRemembers ==
  ASSUME MonitorInv, Launch, persist
  PROVE  /\ starts' \in Seq(Nat) /\ Len(starts') = Len(launches) + 1
         /\ \A i \in 1..Len(launches) : starts'[i] = launches[i]
         /\ starts'[Len(launches) + 1] = 0
<1> DEFINE more == Append(starts, 0)
           d == TooOld
<1>1. /\ starts \in Seq(Nat) /\ launches \in Seq(0..RespawnWindow) /\ d \in Nat
      /\ \A i \in DOMAIN launches : launches[i] = starts[d + i]
      /\ \A i \in 1..d : ~Young(starts[i])
      /\ starts' = Pruned(more)
  BY DEF MonitorInv, Launch
<1>2. /\ more \in Seq(Nat) /\ Len(more) = Len(starts) + 1
      /\ \A i \in 1..Len(starts) : more[i] = starts[i]
      /\ more[Len(starts) + 1] = 0
  BY <1>1, AppendProperties
<1>3. /\ Len(starts) \in Nat /\ Len(launches) \in Nat
      /\ Len(starts) = d + Len(launches)
      /\ DOMAIN launches = 1..Len(launches)
  BY <1>1 DEF TooOld
<1> HIDE DEF more, d
<1>4. \A i \in 1..d : ~Young(more[i])
  BY <1>1, <1>2, <1>3
<1>5. Young(more[d + 1])
  <2>1. CASE Len(launches) = 0
    <3>1. more[d + 1] = 0
      BY <1>1, <1>2, <1>3, <2>1
    <3> QED
      BY <3>1, MonitorAssumption DEF Young
  <2>2. CASE Len(launches) # 0
    <3>1. 1 \in DOMAIN launches /\ d + 1 \in 1..Len(starts)
      BY <1>1, <1>3, <2>2
    <3>2. more[d + 1] = launches[1]
      BY <1>1, <1>2, <3>1
    <3>3. launches[1] \in 0..RespawnWindow
      BY <1>1, <1>3, <3>1, ElementOfSeq
    <3> QED
      BY <3>2, <3>3, MonitorAssumption DEF Young
  <2> QED
    BY <2>1, <2>2
<1>6. d < Len(more) /\ d \in 0..Len(more) /\ Len(more) - d = Len(launches) + 1
  BY <1>1, <1>2, <1>3
<1>7. starts' = SubSeq(more, d + 1, Len(more))
  BY <1>1, <1>2, <1>4, <1>5, <1>6, PrunedFacts
<1>8. /\ starts' \in Seq(Nat) /\ Len(starts') = Len(more) - d
      /\ \A i \in 1..(Len(more) - d) : starts'[i] = more[d + i]
  BY <1>2, <1>6, <1>7, SuffixFacts
<1>9. ASSUME NEW i \in 1..Len(launches) PROVE starts'[i] = launches[i]
  <2>1. i \in 1..(Len(more) - d) /\ d + i \in 1..Len(starts) /\ i \in DOMAIN launches
    BY <1>1, <1>3, <1>6
  <2> QED
    BY <1>1, <1>2, <1>8, <2>1
<1>10. starts'[Len(launches) + 1] = 0
  <2>1. Len(launches) + 1 \in 1..(Len(more) - d) /\ d + (Len(launches) + 1) = Len(starts) + 1
    BY <1>1, <1>3, <1>6
  <2> QED
    BY <1>2, <1>8, <2>1
<1> QED
  BY <1>6, <1>8, <1>9, <1>10

\* The monitor starts a worker and remembers when (run_with_monitor in
\* src/process_monitor.cpp).
LEMMA LaunchMonitorInv ==
  ASSUME MonitorInv, Launch
  PROVE  MonitorInv'
<1>1. /\ starts \in Seq(Nat) /\ launches \in Seq(0..RespawnWindow) /\ OldestFirst(launches)
      /\ Len(launches) \in Nat /\ UNCHANGED persist
      /\ persist /\ RespawnMax > 0 => Len(launches) <= RespawnMax
  BY DEF MonitorInv, Launch, RespawnLimit
<1>2. CASE ~persist
  <2>1. starts' = starts /\ launches' = Append(launches, 0)
    BY <1>2 DEF Launch
  <2>2. launches' \in Seq(0..RespawnWindow) /\ OldestFirst(launches')
    BY <1>1, <2>1, NewestLast
  <2> QED
    BY <1>1, <1>2, <2>1, <2>2 DEF MonitorInv, OldestFirst, RespawnLimit
<1>3. CASE persist /\ RespawnMax > 0 /\ Len(starts') > RespawnMax
  <2>1. phase' = "returned" /\ launches' = launches
    BY <1>3 DEF Launch
  <2>2. Len(starts') = Len(launches) + 1 /\ starts' \in Seq(Nat)
    BY <1>3, LaunchRemembers
  <2>3. Len(launches) = RespawnMax
    BY <1>1, <1>3, <2>2, MonitorAssumption
  <2> QED
    BY <1>1, <2>1, <2>2, <2>3, MonitorAssumption DEF MonitorInv, OldestFirst, RespawnLimit
<1>4. CASE persist /\ ~(RespawnMax > 0 /\ Len(starts') > RespawnMax)
  <2>1. phase' = "running" /\ launches' = Append(launches, 0)
    BY <1>4 DEF Launch
  <2>2. launches' \in Seq(0..RespawnWindow) /\ OldestFirst(launches')
    BY <1>1, <2>1, NewestLast
  <2>3. /\ starts' \in Seq(Nat) /\ Len(starts') = Len(launches) + 1
        /\ \A i \in 1..Len(launches) : starts'[i] = launches[i]
        /\ starts'[Len(launches) + 1] = 0
    BY <1>4, LaunchRemembers
  <2>4. /\ Len(launches') = Len(launches) + 1
        /\ \A i \in 1..Len(launches) : launches'[i] = launches[i]
        /\ launches'[Len(launches) + 1] = 0
    <3>1. 0 \in 0..RespawnWindow
      BY MonitorAssumption
    <3> QED
      BY <1>1, <2>1, <3>1, AppendProperties
  <2>5. TooOld' = 0 /\ DOMAIN launches' = 1..(Len(launches) + 1)
    BY <1>1, <2>2, <2>3, <2>4 DEF TooOld
  <2>6. ASSUME NEW i \in DOMAIN launches' PROVE launches'[i] = starts'[TooOld' + i]
    <3>1. TooOld' + i = i /\ (i \in 1..Len(launches) \/ i = Len(launches) + 1)
      BY <1>1, <2>5
    <3> QED
      BY <2>3, <2>4, <3>1
  <2>7. RespawnMax > 0 => Len(launches') <= RespawnMax
    BY <1>1, <1>4, <2>3, <2>4, MonitorAssumption
  <2>8. TooOld' \in Nat /\ 1..TooOld' = {}
    BY <2>5
  <2> QED
    BY <2>1, <2>2, <2>3, <2>6, <2>7, <2>8 DEF MonitorInv, OldestFirst, RespawnLimit
<1> QED
  BY <1>2, <1>3, <1>4
\* A minute later the window holds the same workers but those that left it.
LEMMA TickRecent ==
  ASSUME MonitorInv, Tick
  PROVE  \E k \in 0..Len(launches) :
           /\ launches' \in Seq(Nat) /\ Len(launches') = Len(launches) - k
           /\ \A i \in 1..(Len(launches) - k) :
                launches'[i] = Older(launches[k + i]) /\ Young(launches'[i])
           /\ \A i \in 1..k : ~Young(Older(launches[i]))
<1> DEFINE aged == [i \in DOMAIN launches |-> Older(launches[i])]
<1>1. /\ launches \in Seq(0..RespawnWindow) /\ OldestFirst(launches)
      /\ launches' = Recent(aged)
  BY DEF MonitorInv, Tick
<1>2. /\ Len(launches) \in Nat /\ DOMAIN launches = 1..Len(launches)
      /\ \A i \in DOMAIN launches : launches[i] \in Nat
  <2>1. DOMAIN launches = 1..Len(launches) /\ Len(launches) \in Nat
        /\ \A i \in DOMAIN launches : launches[i] \in 0..RespawnWindow
    BY <1>1, SeqFacts
  <2> QED
    BY <2>1
<1>3. \A i \in DOMAIN launches : aged[i] = Older(launches[i]) /\ aged[i] \in Nat
  BY <1>2, OlderFacts
<1>4. aged \in Seq(Nat) /\ Len(aged) = Len(launches)
  <2>1. aged \in [1..Len(launches) -> Nat]
    BY <1>2, <1>3
  <2> QED
    BY <1>2, <2>1
<1>5. OldestFirst(aged)
  <2>1. ASSUME NEW i \in DOMAIN launches, NEW j \in DOMAIN launches, i < j
        PROVE  Older(launches[j]) <= Older(launches[i])
    <3>1. launches[j] <= launches[i] /\ launches[i] \in Nat /\ launches[j] \in Nat
      BY <1>1, <1>2, <2>1 DEF OldestFirst
    <3> QED
      BY <3>1, OlderFacts
  <2> QED
    BY <2>1 DEF OldestFirst
<1> HIDE DEF aged
<1>6. PICK k \in 0..Len(aged) :
         /\ Recent(aged) = SubSeq(aged, k + 1, Len(aged))
         /\ \A i \in 1..k : ~Young(aged[i])
         /\ \A i \in (k + 1)..Len(aged) : Young(aged[i])
  BY <1>4, <1>5, RecentFacts
<1>7. /\ launches' \in Seq(Nat) /\ Len(launches') = Len(aged) - k
      /\ \A i \in 1..(Len(aged) - k) : launches'[i] = aged[k + i]
  <2>1. PICK rest : rest = SubSeq(aged, k + 1, Len(aged))
    OBVIOUS
  <2>2. aged \in Seq(Nat) /\ k \in 0..Len(aged)
    BY <1>4, <1>6
  <2>3. /\ rest \in Seq(Nat) /\ Len(rest) = Len(aged) - k
        /\ \A i \in 1..(Len(aged) - k) : rest[i] = aged[k + i]
    BY <2>1, <2>2, SuffixFacts
  <2>4. launches' = rest
    BY <1>1, <1>6, <2>1
  <2> QED
    BY <2>3, <2>4
<1>8. ASSUME NEW i \in 1..(Len(launches) - k)
      PROVE  launches'[i] = Older(launches[k + i]) /\ Young(launches'[i])
  <2>1. k + i \in (k + 1)..Len(aged) /\ k + i \in DOMAIN launches
    BY <1>2, <1>4, <1>6
  <2> QED
    BY <1>3, <1>4, <1>6, <1>7, <2>1
<1>9. ASSUME NEW i \in 1..k PROVE ~Young(Older(launches[i]))
  <2>1. i \in DOMAIN launches
    BY <1>2, <1>4, <1>6
  <2> QED
    BY <1>3, <1>6, <2>1
<1> QED
  BY <1>4, <1>6, <1>7, <1>8, <1>9

\* A minute passes.
LEMMA TickMonitorInv ==
  ASSUME MonitorInv, Tick
  PROVE  MonitorInv'
<1>1. PICK k \in 0..Len(launches) :
         /\ launches' \in Seq(Nat) /\ Len(launches') = Len(launches) - k
         /\ \A i \in 1..(Len(launches) - k) :
              launches'[i] = Older(launches[k + i]) /\ Young(launches'[i])
         /\ \A i \in 1..k : ~Young(Older(launches[i]))
  BY TickRecent
<1>2. /\ launches \in Seq(0..RespawnWindow) /\ OldestFirst(launches) /\ starts \in Seq(Nat)
      /\ phase \in {"running", "sleeping"} /\ UNCHANGED <<persist, phase>>
      /\ starts' = [i \in DOMAIN starts |-> Older(starts[i])]
      /\ persist /\ RespawnMax > 0 => Len(launches) <= RespawnMax
  BY DEF MonitorInv, Tick, RespawnLimit
<1>3. /\ Len(launches) \in Nat /\ DOMAIN launches = 1..Len(launches)
      /\ \A i \in DOMAIN launches : launches[i] \in Nat
      /\ DOMAIN launches' = 1..(Len(launches) - k) /\ k \in Nat /\ k <= Len(launches)
  <2>1. DOMAIN launches = 1..Len(launches) /\ Len(launches) \in Nat
        /\ \A i \in DOMAIN launches : launches[i] \in 0..RespawnWindow
    BY <1>2, SeqFacts
  <2>2. DOMAIN launches' = 1..Len(launches')
    BY <1>1, SeqFacts
  <2> QED
    BY <1>1, <2>1, <2>2
<1>4. launches' \in Seq(0..RespawnWindow)
  <2>1. ASSUME NEW i \in DOMAIN launches' PROVE launches'[i] \in 0..RespawnWindow
    <3>1. launches'[i] \in Nat /\ Young(launches'[i])
      BY <1>1, <1>3, SeqFacts
    <3> QED
      BY <3>1, MonitorAssumption DEF Young
  <2> QED
    BY <1>1, <2>1, SeqOfOthers
<1>5. OldestFirst(launches')
  <2>1. ASSUME NEW i \in DOMAIN launches', NEW j \in DOMAIN launches', i < j
        PROVE  launches'[j] <= launches'[i]
    <3>1. /\ k + i \in DOMAIN launches /\ k + j \in DOMAIN launches /\ k + i < k + j
          /\ launches'[i] = Older(launches[k + i]) /\ launches'[j] = Older(launches[k + j])
      <4>1. i \in 1..(Len(launches) - k) /\ j \in 1..(Len(launches) - k)
        BY <1>3
      <4>2. k + i \in 1..Len(launches) /\ k + j \in 1..Len(launches) /\ k + i < k + j
        BY <1>3, <2>1, <4>1
      <4> QED
        BY <1>1, <1>3, <4>1, <4>2
    <3>2. /\ launches[k + j] <= launches[k + i]
          /\ launches[k + i] \in Nat /\ launches[k + j] \in Nat
      BY <1>2, <1>3, <3>1 DEF OldestFirst
    <3> QED
      BY <3>1, <3>2, OlderFacts
  <2> QED
    BY <2>1 DEF OldestFirst
<1>6. /\ starts' \in Seq(Nat) /\ Len(starts') = Len(starts) /\ Len(starts) \in Nat
      /\ DOMAIN starts = 1..Len(starts)
      /\ \A i \in DOMAIN starts : starts[i] \in Nat /\ starts'[i] = Older(starts[i])
  <2>1. DOMAIN starts = 1..Len(starts) /\ \A i \in DOMAIN starts : starts[i] \in Nat
    BY <1>2, SeqFacts
  <2>2. starts' \in [1..Len(starts) -> Nat]
    BY <1>2, <2>1, OlderFacts
  <2> QED
    BY <1>2, <2>1, <2>2
<1>7. ASSUME persist
      PROVE  /\ TooOld' \in Nat
             /\ \A i \in DOMAIN launches' : launches'[i] = starts'[TooOld' + i]
             /\ \A i \in 1..TooOld' : ~Young(starts'[i])
  <2> DEFINE d == TooOld
  <2>1. /\ d \in Nat
        /\ \A i \in DOMAIN launches : launches[i] = starts[d + i]
        /\ \A i \in 1..d : ~Young(starts[i])
    BY <1>2, <1>7 DEF MonitorInv
  <2>2. TooOld' = d + k /\ Len(starts) = d + Len(launches)
    BY <1>1, <1>3, <1>6, <2>1 DEF TooOld
  <2> HIDE DEF d
  <2>3. ASSUME NEW i \in DOMAIN launches' PROVE launches'[i] = starts'[(d + k) + i]
    <3>1. k + i \in DOMAIN launches /\ (d + k) + i = d + (k + i) /\ d + (k + i) \in DOMAIN starts
      <4>1. i \in 1..(Len(launches) - k) /\ Len(launches) \in Nat /\ k \in Nat
        BY <1>3
      <4>2. k + i \in 1..Len(launches)
        BY <4>1
      <4>3. (d + k) + i = d + (k + i) /\ d + (k + i) \in 1..(d + Len(launches))
        BY <2>1, <4>1, <4>2
      <4> QED
        BY <1>3, <1>6, <2>2, <4>2, <4>3
    <3>2. launches'[i] = Older(launches[k + i]) /\ launches[k + i] = starts[d + (k + i)]
      BY <1>1, <1>3, <2>1, <3>1
    <3> QED
      BY <1>6, <3>1, <3>2
  <2>4. ASSUME NEW i \in 1..(d + k) PROVE ~Young(starts'[i])
    <3>1. i \in DOMAIN starts /\ starts'[i] = Older(starts[i]) /\ starts[i] \in Nat
      <4>1. i \in 1..Len(starts)
        BY <1>3, <1>6, <2>1, <2>2
      <4> QED
        BY <1>6, <4>1
    <3>2. CASE i <= d
      <4>1. ~Young(starts[i])
        BY <2>1, <3>2
      <4> QED
        BY <3>1, <4>1, OlderFacts
    <3>3. CASE i > d
      <4>1. i - d \in 1..k /\ i - d \in DOMAIN launches /\ d + (i - d) = i
        BY <1>3, <2>1, <3>3
      <4>2. starts[i] = launches[i - d] /\ ~Young(Older(launches[i - d]))
        BY <1>1, <2>1, <4>1
      <4> QED
        BY <3>1, <4>2
    <3> QED
      BY <1>3, <2>1, <3>2, <3>3
  <2>5. d + k \in Nat
    BY <1>3, <2>1
  <2> QED
    BY <2>2, <2>3, <2>4, <2>5
<1>8. RespawnLimit'
  <2>1. persist /\ RespawnMax > 0 => Len(launches') <= RespawnMax
    BY <1>1, <1>2, <1>3, MonitorAssumption
  <2> QED
    BY <1>2, <2>1 DEF RespawnLimit
<1> QED
  BY <1>2, <1>4, <1>5, <1>6, <1>7, <1>8 DEF MonitorInv

\* Every step of the service keeps what the monitor remembers true.
LEMMA NextMonitorInv == MonitorInv /\ [Next]_vars => MonitorInv'
<1> SUFFICES ASSUME MonitorInv, [Next]_vars PROVE MonitorInv'
  OBVIOUS
<1> USE DEF monitorVars
<1>1. CASE Launch
  BY <1>1, LaunchMonitorInv
<1>2. CASE Tick
  BY <1>2, TickMonitorInv
<1>3. CASE Die
  <2>1. starts' = <<>> /\ launches' = <<>> /\ phase' = "launching"
    BY <1>3 DEF Die
  <2>2. Len(<<>>) = 0 /\ <<>> \in Seq(Nat) /\ <<>> \in Seq(0..RespawnWindow)
    BY EmptySeq
  <2> QED
    BY <2>1, <2>2, MonitorAssumption DEF MonitorInv, TooOld, OldestFirst, RespawnLimit
<1>4. ASSUME NEW rc \in {0, 1}, WorkerEnds(rc) PROVE MonitorInv'
  <2>1. UNCHANGED <<persist, starts, launches>> /\ phase = "running"
        /\ (persist => phase' = "sleeping")
    BY <1>4 DEF WorkerEnds
  <2> QED
    BY <2>1 DEF MonitorInv, TooOld, OldestFirst, RespawnLimit
<1>5. CASE Wake
  <2>1. UNCHANGED <<persist, starts, launches>> /\ phase = "sleeping" /\ phase' = "launching"
    BY <1>5 DEF Wake
  <2> QED
    BY <2>1 DEF MonitorInv, TooOld, OldestFirst, RespawnLimit
<1>6. CASE UNCHANGED monitorVars
  BY <1>6 DEF MonitorInv, TooOld, OldestFirst, RespawnLimit
<1> QED
  BY <1>1, <1>2, <1>3, <1>4, <1>5, <1>6
     DEF Next, Start, MainSaved, MonitorStep, Visiting, vars

\* The monitor begins with no starts to remember.
LEMMA InitMonitorInv == Init => MonitorInv
<1>1. Len(<<>>) = 0 /\ <<>> \in Seq(Nat) /\ <<>> \in Seq(0..RespawnWindow)
  BY EmptySeq
<1> QED
  BY <1>1, MonitorAssumption
     DEF Init, MonitorInit, MonitorInv, TooOld, OldestFirst, RespawnLimit

\* The monitor starts no more workers within its window than the limit allows and
\* gives up only when that many were started: for every limit, window and delay,
\* whatever the workers come to, and through any number of processes.
THEOREM RespawnLimited == Spec => []RespawnLimit
<1>1. MonitorInv => RespawnLimit
  BY DEF MonitorInv
<1> QED
  BY <1>1, InitMonitorInv, NextMonitorInv, PTL DEF Spec
-----------------------------------------------------------------------------
(***************************************************************************)
(* Mutant mode.  Settings exist while a process in mutant mode runs, and   *)
(* visits only when it is up.                                              *)
(***************************************************************************)
Files == [settings : {None} \cup Setting, times : Times \cup {None}]
Visits == [at   : {"idle", "saving", "pulling", "adjusting", "adjusted"},
           repo : Repos \cup {None}, seen : Int, by : {-5, 0, 5}]

\* What settings are once mutant mode is applied.
InForce == {s \in Setting : s.interval >= 5}

ModeInv ==
  /\ IF mutant /\ process # "down" THEN settings \in InForce ELSE settings = None
  /\ ~(mutant /\ process = "up") => AllIdle
  /\ last # None => mutant /\ process = "down" /\ last.settings \in InForce
  /\ process = "main" => mutant

\* If the latest save was whole, then the file holds what the process knows, as soon as
\* no thread saves, or else what the process knew that died.
SavedInv ==
  whole =>
    /\ mutant /\ process \notin {"down", "main"} /\ (\A w \in Workers : ~Saving(w)) =>
         file = Memory
    /\ process = "down" /\ last # None => file = last

MutantInv == MutantTypeOK /\ ModeInv /\ SavedInv

\* A thread that visits nothing, and a file that was emptied, are of their types.
LEMMA EmptyTypes == NoVisit \in Visits /\ NoTimes \in Times /\ Emptied \in Files
  BY DEF NoVisit, Visits, NoTimes, Times, Emptied, Files

\* Whatever opening the file or the end of a save leaves is a file.
LEMMA FileTypes ==
  ASSUME MutantTypeOK, settings \in Setting
  PROVE  /\ Opened \subseteq Files /\ Torn \subseteq Files
         /\ Memory \in [settings : Setting, times : Times] /\ Memory \in Files
<1>1. file \in Files /\ repo_times \in Times
  BY DEF MutantTypeOK, Files
<1>2. \A s \in {None} \cup Setting : [settings |-> s, times |-> None] \in Files
  BY DEF Files
<1>3. Torn \subseteq Files
  <2>1. Cut(settings) \subseteq Setting
    BY MutantAssumption DEF Cut, Setting
  <2>2. settings \in Setting /\ file.settings \in {None} \cup Setting
    BY <1>1 DEF Files
  <2> QED
    BY <1>2, <2>1, <2>2 DEF Torn
<1>4. Memory \in [settings : Setting, times : Times] /\ Memory \in Files
  BY <1>1 DEF Memory, Files
<1> QED
  BY <1>1, <1>3, <1>4, EmptyTypes DEF Opened

\* The end of a save leaves the whole memory, or is not whole.
LEMMA WrittenFacts ==
  ASSUME MutantTypeOK, settings \in Setting, Written
  PROVE  file' \in Files /\ whole' \in BOOLEAN /\ (whole' => file' = Memory)
<1>1. whole \in BOOLEAN
  BY DEF MutantTypeOK
<1>2. CASE whole /\ file' = Memory /\ UNCHANGED whole
  BY <1>1, <1>2, FileTypes
<1>3. CASE file' \in Torn /\ whole' = FALSE
  BY <1>3, FileTypes
<1> QED
  BY <1>2, <1>3 DEF Written

\* The timeout changes by a step of five (src/mutant_mode.cpp).
LEMMA ChangeFacts ==
  ASSUME NEW outcome \in Outcomes, NEW timeout \in Int
  PROVE  Change(outcome, timeout) \in {-5, 0, 5}
  BY DEF Change, Outcomes

\* What a thread adds to the timeout leaves settings in force.
LEMMA ChangedFacts ==
  ASSUME MutantTypeOK, settings \in InForce, NEW w \in Workers, NEW s \in Changed(w)
  PROVE  s \in InForce
<1>1. PICK from \in {settings.timeout, visit[w].seen} :
        s = [settings EXCEPT !.timeout = from + visit[w].by]
  BY DEF Changed
<1>2. from \in Int /\ visit[w].by \in Int
  BY DEF MutantTypeOK, InForce, Setting
<1>3. settings \in Setting /\ settings.interval >= 5
  BY DEF InForce
<1>4. s \in Setting /\ s.interval = settings.interval
  BY <1>1, <1>2, <1>3 DEF Setting
<1> QED
  BY <1>3, <1>4 DEF InForce

\* Each step of a visit keeps the types and the settings in force, and leaves the file
\* in the hands of a thread that saves, or, if the save was whole, equal to the memory.
LEMMA VisitFacts ==
  ASSUME MutantTypeOK, settings \in InForce, NEW w \in Workers, VisitStep(w),
         whole /\ (\A v \in Workers : ~Saving(v)) => file = Memory
  PROVE  /\ MutantTypeOK' /\ settings' \in InForce /\ UNCHANGED last
         /\ whole' /\ (\A v \in Workers : ~Saving(v))' => file' = Memory'
<1>1. /\ visit \in [Workers -> Visits] /\ repo_times \in Times /\ file \in Files
      /\ whole \in BOOLEAN /\ settings \in Setting
  BY DEF MutantTypeOK, Visits, Files, InForce
<1> DEFINE Kept == /\ visit' \in [Workers -> Visits] /\ repo_times' \in Times
                   /\ file' \in Files /\ whole' \in BOOLEAN /\ settings' \in InForce
                   /\ UNCHANGED last
                   /\ whole' /\ (\A v \in Workers : ~Saving(v))' => file' = Memory'
<1>2. SUFFICES Kept
  BY DEF MutantTypeOK, Visits, Files, InForce
<1>3. ASSUME NEW new \in Visits, visit' = [visit EXCEPT ![w] = new]
      PROVE  visit' \in [Workers -> Visits] /\ visit'[w] = new
  BY <1>1, <1>3
<1>4. ASSUME NEW r \in Repos, NEW time \in CommitTimes, mutant_should_pull(w, r, time)
      PROVE  Kept
  <2> DEFINE new == [NoVisit EXCEPT !.at = "saving", !.repo = r]
  <2>1. /\ visit' = [visit EXCEPT ![w] = new] /\ UNCHANGED <<settings, last>>
        /\ file' \in Opened /\ whole' \in BOOLEAN
    BY <1>4 DEF mutant_should_pull, Open
  <2>2. new \in Visits /\ new.at = "saving"
    BY EmptyTypes DEF Visits
  <2> HIDE DEF new
  <2>3. visit' \in [Workers -> Visits] /\ Saving(w)'
    BY <1>3, <2>1, <2>2 DEF Saving
  <2>4. repo_times' \in Times
    BY <1>1, <1>4 DEF mutant_should_pull, Record, Times
  <2> QED
    BY <1>1, <2>1, <2>3, <2>4, FileTypes
<1>5. CASE Saved(w)
  <2> DEFINE new == [visit[w] EXCEPT !.at = "pulling"]
  <2>1. /\ visit' = [visit EXCEPT ![w] = new] /\ Written
        /\ UNCHANGED <<settings, repo_times, last>>
    BY <1>5 DEF Saved
  <2>2. new \in Visits
    BY <1>1 DEF Visits
  <2> HIDE DEF new
  <2>3. visit' \in [Workers -> Visits]
    BY <1>3, <2>1, <2>2
  <2>4. file' \in Files /\ whole' \in BOOLEAN /\ (whole' => file' = Memory)
    BY <1>1, <2>1, WrittenFacts
  <2>5. Memory' = Memory
    BY <2>1 DEF Memory
  <2> QED
    BY <1>1, <2>1, <2>3, <2>4, <2>5
<1>6. ASSUME NEW outcome \in Outcomes, VisitEnds(w, outcome)
      PROVE  Kept
  <2> DEFINE by == Change(outcome, settings.timeout)
             begun == [visit[w] EXCEPT !.at = "adjusting", !.seen = settings.timeout, !.by = by]
             new == IF by = 0 THEN NoVisit ELSE begun
  <2>1. /\ visit' = [visit EXCEPT ![w] = new] /\ visit[w].at = "pulling"
        /\ UNCHANGED <<settings, repo_times, file, whole, last>>
    BY <1>6 DEF VisitEnds
  <2>2. by \in {-5, 0, 5} /\ settings.timeout \in Int
    BY <1>1, ChangeFacts DEF Setting
  <2> HIDE DEF by
  <2>3. begun \in Visits
    BY <1>1, <2>2 DEF Visits
  <2> HIDE DEF begun
  <2>4. new \in Visits
    BY <2>3, EmptyTypes
  <2> HIDE DEF new
  <2>5. visit' \in [Workers -> Visits]
    BY <1>3, <2>1, <2>4
  <2>6. (\A v \in Workers : ~Saving(v))' => \A v \in Workers : ~Saving(v)
    BY <1>1, <2>1 DEF Saving
  <2>7. Memory' = Memory
    BY <2>1 DEF Memory
  <2> QED
    BY <1>1, <2>1, <2>5, <2>6, <2>7
<1>7. CASE Adjust(w)
  <2> DEFINE new == [visit[w] EXCEPT !.at = "adjusted", !.seen = 0, !.by = 0]
  <2>1. /\ visit' = [visit EXCEPT ![w] = new] /\ UNCHANGED <<repo_times, last>>
        /\ file' \in Opened /\ whole' \in BOOLEAN /\ settings' \in Changed(w)
    BY <1>7 DEF Adjust, Open
  <2>2. new \in Visits /\ new.at = "adjusted"
    <3>1. 0 \in Int /\ 0 \in {-5, 0, 5} /\ visit[w] \in Visits
      BY <1>1
    <3> DEFINE none == 0
    <3>2. none \in Int /\ none \in {-5, 0, 5}
      BY <3>1
    <3> HIDE DEF none
    <3>3. [visit[w] EXCEPT !.at = "adjusted", !.seen = none, !.by = none] \in Visits
      BY <3>1, <3>2 DEF Visits
    <3> QED
      BY <3>1, <3>3 DEF Visits, none
  <2> HIDE DEF new
  <2>3. visit' \in [Workers -> Visits] /\ Saving(w)'
    BY <1>3, <2>1, <2>2 DEF Saving
  <2> QED
    BY <1>1, <2>1, <2>3, FileTypes, ChangedFacts
<1>8. CASE Adjusted(w)
  <2>1. /\ visit' = [visit EXCEPT ![w] = NoVisit] /\ Written
        /\ UNCHANGED <<settings, repo_times, last>>
    BY <1>8 DEF Adjusted
  <2>2. visit' \in [Workers -> Visits]
    BY <1>3, <2>1, EmptyTypes
  <2>3. file' \in Files /\ whole' \in BOOLEAN /\ (whole' => file' = Memory)
    BY <1>1, <2>1, WrittenFacts
  <2>4. Memory' = Memory
    BY <2>1 DEF Memory
  <2> QED
    BY <1>1, <2>1, <2>2, <2>3, <2>4
<1> QED
  BY <1>4, <1>5, <1>6, <1>7, <1>8 DEF VisitStep

\* What mutant mode puts in force: the settings of the file, or those that are given,
\* with a positive timeout and an interval of at least five.
LEMMA StartFacts ==
  ASSUME MutantInv, apply_mutant_mode
  PROVE  /\ settings' \in InForce /\ settings'.timeout > 0
         /\ file.settings \in InForce /\ file.settings.timeout > 0 => settings' = file.settings
<1>1. PICK given \in Given :
        settings' = [interval |-> AtLeast(Loaded(given).interval, 5),
                     timeout  |-> IF Loaded(given).timeout = 0 THEN 30
                                  ELSE Loaded(given).timeout]
  BY DEF apply_mutant_mode
<1>2. given.interval \in Nat \ {0} /\ given.timeout \in Nat
  BY MutantAssumption
<1>3. file.settings \in {None} \cup Setting /\ None \notin Setting
  BY MutantAssumption DEF MutantInv, MutantTypeOK, Setting
<1>4. Loaded(given).interval \in Nat \ {0} /\ Loaded(given).timeout \in Nat
  BY <1>2, <1>3 DEF Loaded, Setting
<1>5. settings' \in InForce /\ settings'.timeout > 0
  BY <1>1, <1>4 DEF AtLeast, InForce, Setting
<1>6. ASSUME file.settings \in InForce, file.settings.timeout > 0
      PROVE  settings' = file.settings
  <2>1. file.settings \in Setting /\ file.settings # None /\ file.settings.interval >= 5
    BY <1>3, <1>6 DEF InForce
  <2>2. /\ Loaded(given).interval = file.settings.interval
        /\ Loaded(given).timeout = file.settings.timeout
    BY <1>6, <2>1 DEF Loaded
  <2>3. settings' = [interval |-> file.settings.interval, timeout |-> file.settings.timeout]
    BY <1>1, <1>6, <2>1, <2>2 DEF AtLeast, Setting
  <2> QED
    BY <2>1, <2>3 DEF Setting
<1> QED
  BY <1>5, <1>6

\* A process that starts reads the memory from the file.
LEMMA StartMutantInv ==
  ASSUME MutantInv, Start
  PROVE  MutantInv'
<1>1. /\ file \in Files /\ visit \in [Workers -> Visits]
      /\ process = "down" /\ settings = None /\ AllIdle /\ UNCHANGED mutant
  BY DEF MutantInv, ModeInv, MutantTypeOK, Files, Visits, Start
<1>2. CASE ~mutant
  <2>1. process' = "up" /\ UNCHANGED <<settings, repo_times, file, visit, whole, last>>
    BY <1>2 DEF Start, mutantVars
  <2> QED
    BY <1>1, <1>2, <2>1 DEF MutantInv, ModeInv, MutantTypeOK, SavedInv, AllIdle
<1>3. CASE mutant
  <2>1. process' = "main" /\ apply_mutant_mode
    BY <1>3 DEF Start
  <2>2. /\ repo_times' \in LoadedTimes /\ file' \in Opened /\ whole' = TRUE
        /\ last' = None /\ UNCHANGED visit
    BY <2>1 DEF apply_mutant_mode
  <2>3. settings' \in InForce
    BY <2>1, StartFacts
  <2>4. repo_times' \in Times /\ file' \in Files
    BY <1>1, <2>2, EmptyTypes DEF LoadedTimes, Opened
  <2>5. MutantTypeOK'
    BY <1>1, <2>2, <2>3, <2>4 DEF MutantTypeOK, Files, Visits, InForce
  <2>6. ModeInv'
    BY <1>1, <1>3, <2>1, <2>2, <2>3 DEF ModeInv, AllIdle
  <2>7. SavedInv'
    BY <2>1 DEF SavedInv
  <2> QED
    BY <2>5, <2>6, <2>7 DEF MutantInv
<1> QED
  BY <1>2, <1>3

\* The main thread writes the file when it has set the mode up.
LEMMA SaveMutantInv ==
  ASSUME MutantInv, MainSaved, mutant
  PROVE  MutantInv'
<1>1. /\ process = "main" /\ process' = "up" /\ Written
      /\ UNCHANGED <<mutant, settings, repo_times, visit, last>>
  BY DEF MainSaved, save_settings
<1>2. settings \in InForce /\ settings \in Setting /\ MutantTypeOK
  BY <1>1 DEF MutantInv, ModeInv, InForce
<1>3. file' \in Files /\ whole' \in BOOLEAN /\ (whole' => file' = Memory)
  BY <1>1, <1>2, WrittenFacts
<1>4. MutantTypeOK'
  BY <1>1, <1>2, <1>3 DEF MutantTypeOK, Files
<1>5. ModeInv'
  BY <1>1, <1>2 DEF MutantInv, ModeInv, AllIdle
<1>6. SavedInv'
  BY <1>1, <1>3 DEF SavedInv, Memory
<1> QED
  BY <1>4, <1>5, <1>6 DEF MutantInv

\* A process that dies leaves the file as it is, unless it saves.
LEMMA DieMutantInv ==
  ASSUME MutantInv, Die
  PROVE  MutantInv'
<1>1. /\ process' = "down" /\ settings' = None /\ repo_times' = NoTimes
      /\ visit' = [w \in Workers |-> NoVisit] /\ UNCHANGED mutant
      /\ last' = IF settings = None THEN last ELSE Memory
  BY DEF Die, Lost
<1>2. /\ MutantTypeOK /\ file \in Files /\ whole \in BOOLEAN
      /\ last \in {None} \cup [settings : Setting, times : Times]
  BY DEF MutantInv, MutantTypeOK, Files
<1>3. CASE settings = None
  <2>1. last' = None
    BY <1>1, <1>3 DEF MutantInv, ModeInv, Die
  <2>2. file' \in Files /\ whole' \in BOOLEAN
    <3>1. Torn \subseteq Files
      BY <1>2, <1>3 DEF Torn, Files
    <3> QED
      BY <1>2, <3>1 DEF Die, Lost
  <2>3. MutantTypeOK'
    BY <1>1, <2>1, <2>2, EmptyTypes DEF MutantTypeOK, Files, Visits
  <2> QED
    BY <1>1, <2>1, <2>3 DEF MutantInv, ModeInv, SavedInv, AllIdle
<1>4. CASE settings # None
  <2>1. mutant /\ process # "down" /\ settings \in InForce /\ settings \in Setting
    BY <1>4 DEF MutantInv, ModeInv, InForce
  <2>2. last' = Memory /\ Memory \in [settings : Setting, times : Times]
    BY <1>1, <1>2, <1>4, <2>1, FileTypes
  <2>3. Memory.settings = settings
    BY DEF Memory
  <2>4. file' \in Files /\ whole' \in BOOLEAN
    BY <1>2, <2>1, FileTypes DEF Die, Lost
  <2>5. MutantTypeOK'
    BY <1>1, <2>2, <2>4, EmptyTypes DEF MutantTypeOK, Files, Visits
  <2>6. ModeInv'
    BY <1>1, <2>1, <2>2, <2>3 DEF ModeInv, AllIdle
  <2>7. SavedInv'
    <3>1. CASE process = "main" \/ \E w \in Workers : Saving(w)
      BY <3>1 DEF SavedInv, Die, Lost
    <3>2. CASE process # "main" /\ \A w \in Workers : ~Saving(w)
      <4>1. UNCHANGED <<file, whole>>
        BY <3>2 DEF Die, Lost
      <4> QED
        BY <1>1, <2>1, <2>2, <3>2, <4>1 DEF MutantInv, SavedInv
    <3> QED
      BY <3>1, <3>2
  <2> QED
    BY <2>5, <2>6, <2>7 DEF MutantInv
<1> QED
  BY <1>3, <1>4

\* Every step of the service keeps it.
LEMMA NextMutantInv == MutantInv /\ [Next]_vars => MutantInv'
<1> SUFFICES ASSUME MutantInv, [Next]_vars PROVE MutantInv'
  OBVIOUS
<1>1. CASE Start
  BY <1>1, StartMutantInv
<1>2. CASE MainSaved
  BY <1>2, SaveMutantInv DEF MutantInv, ModeInv, MainSaved
<1>3. CASE Die
  BY <1>3, DieMutantInv
<1>4. CASE Visiting
  <2>1. PICK w \in Workers : VisitStep(w)
    BY <1>4 DEF Visiting
  <2>2. mutant /\ process = "up" /\ UNCHANGED <<mutant, process>> /\ settings \in InForce
    BY <1>4 DEF Visiting, MutantInv, ModeInv
  <2>3. last = None
    BY <2>2 DEF MutantInv, ModeInv
  <2>4. whole /\ (\A v \in Workers : ~Saving(v)) => file = Memory
    BY <2>2 DEF MutantInv, SavedInv
  <2>5. /\ MutantTypeOK' /\ settings' \in InForce /\ UNCHANGED last
        /\ whole' /\ (\A v \in Workers : ~Saving(v))' => file' = Memory'
    BY <2>1, <2>2, <2>4, VisitFacts DEF MutantInv
  <2>6. ModeInv'
    BY <2>2, <2>3, <2>5 DEF ModeInv
  <2>7. SavedInv'
    BY <2>2, <2>5 DEF SavedInv
  <2> QED
    BY <2>5, <2>6, <2>7 DEF MutantInv
<1>5. CASE UNCHANGED <<mutant, process, mutantVars>>
  BY <1>5 DEF MutantInv, ModeInv, MutantTypeOK, SavedInv, AllIdle, Saving, Memory, mutantVars
<1> QED
  BY <1>1, <1>2, <1>3, <1>4, <1>5 DEF Next, MonitorStep, vars

\* At first no process has died, and nobody visits.
LEMMA InitMutantInv == Init => MutantInv
<1> SUFFICES ASSUME Init PROVE MutantInv
  OBVIOUS
<1>1. /\ settings = None /\ repo_times = NoTimes /\ last = None /\ process = "down"
      /\ visit = [w \in Workers |-> NoVisit] /\ whole = TRUE
  BY DEF Init, MutantInit
<1>2. file \in Files
  <2>1. ASSUME NEW g \in Given,
               file = [settings |-> [interval |-> g.interval, timeout |-> g.timeout],
                       times |-> NoTimes]
        PROVE  file \in Files
    <3>1. g.interval \in Nat \ {0} /\ g.timeout \in Int
      BY MutantAssumption
    <3> QED
      BY <2>1, <3>1, EmptyTypes DEF Files, Setting
  <2> QED
    BY <2>1, EmptyTypes DEF Init, MutantInit
<1>3. MutantTypeOK
  BY <1>1, <1>2, EmptyTypes DEF MutantTypeOK, Files, Visits
<1> QED
  BY <1>1, <1>3 DEF MutantInv, ModeInv, SavedInv, AllIdle

\* Memory, file and visits of mutant mode are of their types and belong to a process
\* that is there, and the file of a save that was whole holds what the process knows, or
\* knew when it died (src/mutant_mode.cpp): for any number of threads, repositories and
\* commits, through any number of processes.
THEOREM MutantInvariant == Spec => []MutantInv
<1> QED
  BY InitMutantInv, NextMutantInv, PTL DEF Spec

\* A process that died between saves is taken up where it was by the next one: for any
\* number of threads that visit, record and adjust (load_config and save_config in
\* src/mutant_mode.cpp).
THEOREM SessionRecovered == Spec => SessionIsRecovered
<1> DEFINE Recovers ==
      settings = None /\ settings' # None =>
        /\ settings'.timeout > 0
        /\ whole /\ last # None =>
             /\ last.settings.timeout > 0 => settings' = last.settings
             /\ \A r \in Repos \ Spaced : repo_times'[r] = last.times[r]
<1>1. MutantInv /\ [Next]_vars => [Recovers]_mutantVars
  <2> SUFFICES ASSUME MutantInv, [Next]_vars, settings = None, settings' # None
               PROVE  /\ settings'.timeout > 0
                      /\ whole /\ last # None =>
                           /\ last.settings.timeout > 0 => settings' = last.settings
                           /\ \A r \in Repos \ Spaced : repo_times'[r] = last.times[r]
    OBVIOUS
  <2>1. None \notin InForce
    BY MutantAssumption DEF InForce, Setting
  <2>2. Start /\ mutant
    <3>1. ~Visiting
      BY <2>1 DEF Visiting, MutantInv, ModeInv
    <3>2. ~MainSaved /\ ~Die /\ ~MonitorStep
      BY DEF MainSaved, save_settings, Die, Lost, MonitorStep, mutantVars
    <3> QED
      BY <3>1, <3>2 DEF Next, Start, mutantVars, vars
  <2>3. process = "down" /\ apply_mutant_mode
    BY <2>2 DEF Start
  <2>4. settings'.timeout > 0
    BY <2>3, StartFacts
  <2>5. ASSUME whole, last # None
        PROVE  /\ last.settings.timeout > 0 => settings' = last.settings
               /\ \A r \in Repos \ Spaced : repo_times'[r] = last.times[r]
    <3>1. file = last /\ last.settings \in InForce /\ last \in [settings : Setting, times : Times]
      BY <2>3, <2>5 DEF MutantInv, ModeInv, SavedInv, MutantTypeOK
    <3>2. last.settings.timeout > 0 => settings' = last.settings
      BY <2>3, <3>1, StartFacts
    <3>3. file.times # None
      BY <3>1, MutantAssumption
    <3>4. \A r \in Repos \ Spaced : repo_times'[r] = file.times[r]
      BY <2>3, <3>3 DEF apply_mutant_mode, LoadedTimes
    <3> QED
      BY <3>1, <3>2, <3>4
  <2> QED
    BY <2>4, <2>5
<1> QED
  BY <1>1, MutantInvariant, PTL DEF Spec, SessionIsRecovered

-----------------------------------------------------------------------------
(***************************************************************************)
(* The types of both parts.                                                *)
(***************************************************************************)
Ages == 0..RespawnWindow + 1

\* More bits give no less: a power of two counts the subsets of a set.
LEMMA PowerMonotone == ASSUME NEW m \in Nat, NEW n \in Nat, m <= n PROVE 2^m <= 2^n
<1>1. ASSUME NEW k \in Nat
      PROVE  IsFiniteSet(SUBSET (1..k)) /\ Cardinality(SUBSET (1..k)) = 2^k
  <2>1. IsFiniteSet(1..k) /\ Cardinality(1..k) = k
    BY FS_Interval
  <2> QED
    BY <2>1, FS_SUBSET
<1>2. SUBSET (1..m) \in SUBSET (SUBSET (1..n))
  OBVIOUS
<1> DEFINE S == SUBSET (1..n)
           T == SUBSET (1..m)
<1>3. IsFiniteSet(S) /\ T \in SUBSET S
  BY <1>1, <1>2
<1>4. Cardinality(T) <= Cardinality(S)
  <2> HIDE DEF S, T
  <2> QED
    BY <1>3, FS_Subset
<1>5. Cardinality(S) = 2^n /\ Cardinality(T) = 2^m
  BY <1>1
<1> HIDE DEF S, T
<1> QED
  BY <1>4, <1>5

\* A power of two counts something.
LEMMA PowerNatural == ASSUME NEW n \in Nat PROVE 2^n \in Nat
<1>1. IsFiniteSet(1..n) /\ Cardinality(1..n) = n
  BY FS_Interval
<1>2. IsFiniteSet(SUBSET (1..n)) /\ Cardinality(SUBSET (1..n)) = 2^n
  BY <1>1, FS_SUBSET
<1> QED
  BY <1>2, FS_CardinalityType

\* The pause after a failure is at most the one after the last of them.
LEMMA PauseBound ==
  ASSUME NEW n \in 0..MaxFails
  PROVE  RespawnDelay * 2^n \in 0..RespawnDelay * 2^MaxFails
<1> DEFINE p == 2^n
           q == 2^MaxFails
<1>1. p \in Nat /\ q \in Nat /\ p <= q /\ RespawnDelay \in Nat
  BY PowerNatural, PowerMonotone, MonitorAssumption
<1> HIDE DEF p, q
<1>2. RespawnDelay * p \in Nat /\ RespawnDelay * q \in Nat
  BY <1>1
<1>3. /\ RespawnDelay * (q - p) \in Nat
      /\ RespawnDelay * (q - p) = RespawnDelay * q - RespawnDelay * p
  BY <1>1
<1> QED
  BY <1>2, <1>3 DEF p, q

\* Ages are counted up to the first beyond the window.
LEMMA OlderAge == ASSUME NEW a \in Ages PROVE Older(a) \in Ages
  BY MonitorAssumption DEF Ages, Older

\* What is remembered of ages are ages.
LEMMA PrunedAges ==
  ASSUME NEW ages \in Seq(Ages)
  PROVE  Pruned(Append(ages, 0)) \in Seq(Ages)
<1> DEFINE more == Append(ages, 0)
           young == {i \in DOMAIN more : Young(more[i])}
           m == Min(young)
<1>1. more \in Seq(Ages) /\ Len(more) = Len(ages) + 1 /\ more[Len(ages) + 1] = 0
  <2>1. 0 \in Ages
    BY MonitorAssumption DEF Ages
  <2> QED
    BY <2>1, AppendProperties
<1> HIDE DEF more
<1>2. DOMAIN more = 1..Len(more) /\ Len(more) \in Nat
  BY <1>1
<1>3. Len(more) \in young /\ young \in SUBSET Nat
  BY <1>1, <1>2, MonitorAssumption DEF Young
<1>4. m \in young
  <2> HIDE DEF young
  <2> QED
    BY <1>3, MinFacts
<1>5. m \in 1..Len(more)
  BY <1>2, <1>4
<1> HIDE DEF m
<1>6. SubSeq(more, m, Len(more)) \in Seq(Ages)
  <2>1. m - 1 \in 0..Len(more) /\ (m - 1) + 1 = m
    BY <1>2, <1>5
  <2> QED
    BY <1>1, <2>1, SuffixFacts
<1> QED
  BY <1>6 DEF Pruned, m, young, more

\* Whoever visits a repository does so in a worker.
VisitsRun == (\E w \in Workers : visit[w] # NoVisit) => phase = "running"

\* Each action keeps the types of the monitor; only a worker that ends sets a pause, and
\* only one that failed counts.
LEMMA NextMonitorTypes == MonitorTypeOK /\ MonitorInv /\ [Next]_vars => MonitorTypeOK'
<1> SUFFICES ASSUME MonitorTypeOK, MonitorInv, [Next]_vars PROVE MonitorTypeOK'
  OBVIOUS
<1>0. launches' \in Seq(0..RespawnWindow)
  <2>1. MonitorInv'
    BY NextMonitorInv
  <2> QED
    BY <2>1 DEF MonitorInv
<1>1. /\ persist \in BOOLEAN /\ starts \in Seq(Ages) /\ fail_count \in 0..MaxFails
      /\ pause \in 0..RespawnDelay * 2^MaxFails
      /\ phase \in {"launching", "running", "sleeping", "returned"}
  BY DEF MonitorTypeOK, Ages
<1>2. /\ 0 \in 0..MaxFails /\ 0 \in 0..RespawnDelay * 2^MaxFails
      /\ RespawnDelay * 2^MaxFails \in Nat
  <2>1. MaxFails \in 0..MaxFails
    BY MonitorAssumption
  <2>2. RespawnDelay * 2^MaxFails \in 0..RespawnDelay * 2^MaxFails
    BY <2>1, PauseBound
  <2>3. 2^MaxFails \in Nat
    BY PowerNatural, MonitorAssumption
  <2> QED
    BY <2>2, <2>3, MonitorAssumption
<1> SUFFICES /\ persist' \in BOOLEAN /\ starts' \in Seq(Ages) /\ fail_count' \in 0..MaxFails
             /\ pause' \in 0..RespawnDelay * 2^MaxFails
             /\ phase' \in {"launching", "running", "sleeping", "returned"}
  BY <1>0 DEF MonitorTypeOK, Ages
<1>3. CASE Launch
  <2>1. /\ UNCHANGED <<persist, fail_count, pause>>
        /\ phase' \in {"running", "returned"}
        /\ starts' = starts \/ starts' = Pruned(Append(starts, 0))
    BY <1>3 DEF Launch
  <2>2. starts' \in Seq(Ages)
    BY <1>1, <2>1, PrunedAges
  <2> QED
    BY <1>1, <2>1, <2>2
<1>4. ASSUME NEW rc \in {0, 1}, rc # 0 => fail_count < MaxFails, WorkerEnds(rc)
      PROVE  /\ persist' \in BOOLEAN /\ starts' \in Seq(Ages) /\ fail_count' \in 0..MaxFails
             /\ pause' \in 0..RespawnDelay * 2^MaxFails
             /\ phase' \in {"launching", "running", "sleeping", "returned"}
  <2>1. /\ UNCHANGED <<persist, starts>> /\ phase' \in {"sleeping", "returned"}
        /\ pause' = pause \/ pause' = RespawnDelay * 2^fail_count
        /\ fail_count' \in {fail_count, 0} \/ (rc # 0 /\ fail_count' = fail_count + 1)
    BY <1>4 DEF WorkerEnds
  <2>2. fail_count' \in 0..MaxFails
    BY <1>1, <1>4, <2>1, MonitorAssumption
  <2>3. pause' \in 0..RespawnDelay * 2^MaxFails
    BY <1>1, <2>1, PauseBound
  <2> QED
    BY <1>1, <2>1, <2>2, <2>3
<1>5. CASE Wake
  BY <1>1, <1>5 DEF Wake
<1>6. CASE Tick
  <2>1. /\ UNCHANGED <<persist, phase, fail_count>>
        /\ starts' = [i \in DOMAIN starts |-> Older(starts[i])]
        /\ pause' = IF pause > 0 THEN pause - 1 ELSE 0
    BY <1>6 DEF Tick
  <2>2. starts' \in Seq(Ages)
    <3>1. DOMAIN starts = 1..Len(starts) /\ Len(starts) \in Nat
          /\ \A i \in DOMAIN starts : starts[i] \in Ages
      BY <1>1, SeqFacts
    <3>2. \A i \in 1..Len(starts) : Older(starts[i]) \in Ages
      BY <3>1, OlderAge
    <3>3. starts' \in [1..Len(starts) -> Ages]
      BY <2>1, <3>1, <3>2
    <3> QED
      BY <3>1, <3>3
  <2>3. pause' \in 0..RespawnDelay * 2^MaxFails
    <3> DEFINE most == RespawnDelay * 2^MaxFails
    <3>1. most \in Nat /\ pause \in 0..most
      BY <1>1, <1>2
    <3> HIDE DEF most
    <3>2. pause' \in 0..most
      BY <2>1, <3>1
    <3> QED
      BY <3>2 DEF most
  <2> QED
    BY <1>1, <2>1, <2>2, <2>3
<1>7. CASE Die
  BY <1>1, <1>2, <1>7, EmptySeq DEF Die
<1>8. CASE UNCHANGED monitorVars
  BY <1>1, <1>8 DEF monitorVars
<1> QED
  BY <1>3, <1>4, <1>5, <1>6, <1>7, <1>8
     DEF Next, Start, MainSaved, MonitorStep, Visiting, vars

\* A worker ends only when nobody visits, and time passes only then.
LEMMA NextVisitsRun == MutantInv /\ VisitsRun /\ [Next]_vars => VisitsRun'
<1> SUFFICES ASSUME MutantInv, VisitsRun, [Next]_vars PROVE VisitsRun'
  OBVIOUS
<1> USE DEF mutantVars, monitorVars
<1>0. AllIdle => \A w \in Workers : visit[w] = NoVisit
  BY DEF AllIdle
<1>1. CASE Start \/ MainSaved
  <2>1. process # "up" /\ visit' = visit /\ phase' = phase
    BY <1>1 DEF Start, MainSaved, apply_mutant_mode, save_settings
  <2> QED
    BY <2>1 DEF VisitsRun
<1>2. CASE Die
  <2>1. visit' = [w \in Workers |-> NoVisit]
    BY <1>2 DEF Die, Lost
  <2> QED
    BY <2>1 DEF VisitsRun
<1>3. CASE MonitorStep
  <2>1. visit' = visit
    BY <1>3 DEF MonitorStep
  <2>2. AllIdle \/ phase' = phase \/ phase \in {"launching", "sleeping"}
    BY <1>3 DEF MonitorStep, Launch, Wake
  <2>3. phase \in {"launching", "sleeping"} => \A w \in Workers : visit[w] = NoVisit
    BY DEF VisitsRun
  <2> QED
    BY <1>0, <2>1, <2>2, <2>3 DEF VisitsRun
<1>4. CASE Visiting
  BY <1>4 DEF Visiting, VisitsRun
<1>5. CASE UNCHANGED vars
  BY <1>5 DEF VisitsRun, vars
<1> QED
  BY <1>1, <1>2, <1>3, <1>4, <1>5 DEF Next

\* Each action of the service keeps who it is for and how far it is.
LEMMA NextProcess ==
  ASSUME mutant \in BOOLEAN, process \in {"down", "main", "up"}, [Next]_vars
  PROVE  mutant' \in BOOLEAN /\ process' \in {"down", "main", "up"}
  BY DEF Next, Start, MainSaved, Die, MonitorStep, Visiting, vars

\* The types of the monitor and of mutant mode, for every limit, window, delay and number
\* of failures, and through any number of processes; visits and settings belong to a
\* process that is there (run_with_monitor in src/process_monitor.cpp and
\* src/mutant_mode.cpp).
THEOREM ServiceTypeCorrect == Spec => []TypeOK
<1> DEFINE Types == /\ MonitorTypeOK /\ VisitsRun
                    /\ mutant \in BOOLEAN /\ process \in {"down", "main", "up"}
<1>1. Init => Types
  <2> SUFFICES ASSUME Init PROVE Types
    OBVIOUS
  <2>1. 0 \in 0..MaxFails
    BY MonitorAssumption
  <2>2. 0 \in 0..RespawnDelay * 2^MaxFails
    <3>1. 2^MaxFails \in Nat
      BY PowerNatural, MonitorAssumption
    <3> QED
      BY <3>1, MonitorAssumption
  <2>3. <<>> \in Seq(0..RespawnWindow + 1) /\ <<>> \in Seq(0..RespawnWindow)
    BY EmptySeq
  <2> QED
    BY <2>1, <2>2, <2>3
       DEF Init, MonitorInit, MutantInit, MonitorTypeOK, VisitsRun
<1>2. MonitorInv /\ MutantInv /\ Types /\ [Next]_vars => Types'
  BY NextMonitorTypes, NextVisitsRun, NextProcess
<1>3. MutantInv /\ Types => TypeOK
  <2>1. None \notin InForce
    BY MutantAssumption DEF InForce, Setting
  <2> QED
    BY <2>1 DEF MutantInv, ModeInv, TypeOK, VisitsRun
<1>4. Spec => []MonitorInv
  BY InitMonitorInv, NextMonitorInv, PTL DEF Spec
<1> QED
  BY <1>1, <1>2, <1>3, <1>4, MutantInvariant, PTL DEF Spec
=============================================================================
