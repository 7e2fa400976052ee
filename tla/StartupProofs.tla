---------------------------- MODULE StartupProofs ----------------------------
(***************************************************************************)
(* Theorems about Startup, for every command line, every content of the    *)
(* configuration files and every edit.                                     *)
(*                                                                         *)
(* 1. A value of the command line is outranked by no configuration, when   *)
(*    parse_options reads them together and when the loop reads them       *)
(*    again.  Settings that are looked up with the same result (Alike) are *)
(*    the same (the lemmas named Alike...); they use of the conversions    *)
(*    and of the loaders of configurations nothing, and of the parser only *)
(*    that an option with a value is a flag.                               *)
(* 2. What a number option reads is the value of its text, in integers of  *)
(*    every width.                                                         *)
(* 3. The list of repositories has each directory once.                    *)
(* 4. An option means the same in the configuration as on the command      *)
(*    line.  The parser of a command line with one more word knows one     *)
(*    option more (OneMoreParsed), and everything is looked up with the    *)
(*    same result as before, in another place (MovedAlike).                *)
(* 5. The types, and the ranges of the numbers.                            *)
(***************************************************************************)
EXTENDS Startup, TLAPS, FiniteSetTheorems, NaturalsInduction, WellFoundedInduction,
        SequenceTheorems

\* A value that is not empty was said of an option, which is therefore a flag.
LEMMA OptionIsFlag ==
  ASSUME NEW says, NEW positional, NEW known, NEW k,
         NEW p, p = Parsed(says, positional, known), get_option(p, k) # <<>>
  PROVE  k \in p.flags
<1>1. k \in DOMAIN p.options
  BY DEF get_option
<1>2. k \in {says[j].key : j \in {i \in DOMAIN says : says[i].valued /\ says[i].key \in known}}
  BY <1>1 DEF Parsed
<1> QED
  BY <1>2 DEF Parsed

-----------------------------------------------------------------------------
(***************************************************************************)
(* Sets of numbers, and induction.                                         *)
(***************************************************************************)
\* The largest element of a set of numbers.
LEMMA MaxIs ==
  ASSUME NEW S \in SUBSET Int, NEW m \in S, \A n \in S : n <= m
  PROVE  Max(S) = m
<1>1. \E x \in S : \A y \in S : x >= y
  OBVIOUS
<1>2. Max(S) \in S /\ \A y \in S : Max(S) >= y
  BY <1>1 DEF Max
<1>3. Max(S) <= m /\ Max(S) >= m /\ Max(S) \in Int /\ m \in Int
  BY <1>2
<1> QED
  BY <1>3

\* A set of naturals that has 0 and with a number its successor has them all: a smallest
\* number it lacks would have a predecessor.  (The library's rule for induction takes a
\* predicate, which the provers cannot be given; this one takes a set.)
LEMMA Induction ==
  ASSUME NEW S \in SUBSET Nat, 0 \in S, \A n \in S : n + 1 \in S
  PROVE  S = Nat
<1> DEFINE less == {p \in Nat \X Nat : p[1] < p[2]}
<1>1. less = OpToRel(<, Nat)
  BY Zenon DEF OpToRel
<1>2. IsWellFoundedOn(less, Nat)
  BY <1>1, NatLessThanWellFounded, Zenon
<1> HIDE DEF less
<1>3. ASSUME Nat \ S # {} PROVE FALSE
  <2>1. PICK m \in Nat \ S : \A n \in Nat \ S : ~(<<n, m>> \in less)
    BY <1>2, <1>3, WFMin
  <2>2. m \in Nat /\ m # 0 /\ m - 1 \in Nat /\ (m - 1) + 1 = m
    BY <2>1
  <2>3. m - 1 \notin S
    BY <2>1, <2>2
  <2> QED
    <3>1. ~(<<m - 1, m>> \in less)
      BY <2>1, <2>2, <2>3
    <3>2. <<m - 1, m>> \in Nat \X Nat /\ m - 1 < m
      BY <2>2
    <3> QED
      BY <3>1, <3>2 DEF less
<1> QED
  BY <1>3

\* The least of a set of naturals.
LEMMA MinFacts ==
  ASSUME NEW S \in SUBSET Nat, S # {}
  PROVE  Min(S) \in S /\ \A n \in S : Min(S) <= n
<1> DEFINE Low == {n \in Nat : \A k \in S : n <= k}
<1>1. ASSUME \A n \in Low : n + 1 \in Low PROVE FALSE
  <2>1. 0 \in Low
    OBVIOUS
  <2>2. Low = Nat
    <3> HIDE DEF Low
    <3> QED
      BY <1>1, <2>1, Induction DEF Low
  <2>3. PICK k \in S : TRUE
    OBVIOUS
  <2>4. k + 1 \in Low
    <3> HIDE DEF Low
    <3> QED
      BY <2>2, <2>3
  <2> QED
    BY <2>3, <2>4
<1>2. PICK n \in Low : n + 1 \notin Low
  BY <1>1
<1>3. PICK k \in S : n = k
  BY <1>2
<1>4. \E x \in S : \A y \in S : x <= y
  BY <1>2, <1>3
<1> QED
  BY <1>4 DEF Min

\* A set of places of a row that is not empty has a last one.
LEMMA MaxOfRow ==
  ASSUME NEW n \in Nat, NEW T \in SUBSET (1..n), T # {}
  PROVE  Max(T) \in T
<1> DEFINE U == {u \in Nat : \A j \in T : j <= u}
           u == Min(U)
<1>1. n \in U /\ U \subseteq Nat
  OBVIOUS
<1> HIDE DEF U
<1>2. u \in U /\ \A x \in U : u <= x
  BY <1>1, MinFacts
<1> HIDE DEF u
<1>3. u \in T
  <2> SUFFICES ASSUME u \notin T PROVE FALSE
    OBVIOUS
  <2>1. u \in Nat /\ \A j \in T : j <= u /\ j \in Nat /\ j # u /\ j > 0
    BY <1>2 DEF U
  <2>2. u - 1 \in Nat /\ \A j \in T : j <= u - 1
    <3>1. PICK j \in T : TRUE
      OBVIOUS
    <3>2. u - 1 \in Nat
      BY <2>1, <3>1
    <3>3. ASSUME NEW i \in T PROVE i <= u - 1
      <4>1. i \in Nat /\ i <= u /\ i # u
        BY <2>1
      <4> QED
        BY <2>1, <4>1
    <3> QED
      BY <3>2, <3>3
  <2>3. u - 1 \in U
    BY <2>2 DEF U
  <2> QED
    BY <1>2, <2>1, <2>3
<1>4. \A j \in T : j <= u
  BY <1>2 DEF U
<1>5. Max(T) = u
  <2>1. T \in SUBSET Int
    OBVIOUS
  <2> QED
    BY <1>3, <1>4, <2>1, MaxIs
<1> QED
  BY <1>3, <1>5

\* And for each number up to its size a place that is the so many-th.
LEMMA PlaceOfRow ==
  ASSUME NEW n \in Nat
  PROVE  \A T \in SUBSET (1..n) : \A m \in 1..Cardinality(T) :
           \E j \in T : Cardinality({i \in T : i <= j}) = m
<1> DEFINE Place(T, m) == \E j \in T : Cardinality({i \in T : i <= j}) = m
           Good == {x \in Nat : \A T \in SUBSET (1..x) : \A m \in 1..Cardinality(T) : Place(T, m)}
<1>1. 0 \in Good
  <2> SUFFICES ASSUME NEW T \in SUBSET (1..0), NEW m \in 1..Cardinality(T) PROVE FALSE
    OBVIOUS
  <2>1. T = {} /\ Cardinality({}) = 0
    BY FS_EmptySet
  <2> QED
    BY <2>1
<1>2. ASSUME NEW x \in Good PROVE x + 1 \in Good
  <2>0. x \in Nat /\ x + 1 \in Nat
    OBVIOUS
  <2>1. ASSUME NEW T \in SUBSET (1..(x + 1)), NEW m \in 1..Cardinality(T) PROVE Place(T, m)
    <3>1. CASE x + 1 \notin T
      <4>1. T \in SUBSET (1..x)
        BY <2>0, <3>1
      <4> HIDE DEF Place
      <4> QED
        BY <4>1, Zenon DEF Good
    <3>2. CASE x + 1 \in T
      <4> DEFINE R == T \ {x + 1}
      <4>1. R \in SUBSET (1..x)
        BY <2>0
      <4>2. IsFiniteSet(R)
        <5>1. IsFiniteSet(1..x)
          BY <2>0, FS_Interval
        <5> HIDE DEF R
        <5> QED
          BY <4>1, <5>1, FS_Subset
      <4>3. Cardinality(T) = Cardinality(R) + 1 /\ Cardinality(R) \in Nat
        <5>1. x + 1 \notin R /\ R \cup {x + 1} = T
          BY <3>2
        <5> HIDE DEF R
        <5> QED
          BY <4>2, <5>1, FS_AddElement, FS_CardinalityType
      <4>4. CASE m = Cardinality(T)
        <5>1. {i \in T : i <= x + 1} = T
          <6>1. \A i \in T : i <= x + 1
            BY <2>0
          <6> QED
            BY <6>1
        <5> QED
          BY <3>2, <4>4, <5>1
      <4>5. CASE m \in 1..Cardinality(R)
        <5>1. Place(R, m)
          <6> HIDE DEF Place, R
          <6> QED
            BY <4>1, <4>5, Zenon DEF Good
        <5>2. PICK j \in R : Cardinality({i \in R : i <= j}) = m
          BY <5>1
        <5>3. {i \in T : i <= j} = {i \in R : i <= j}
          BY <2>0, <4>1
        <5> QED
          BY <5>2, <5>3
      <4>6. m = Cardinality(T) \/ m \in 1..Cardinality(R)
        <5> HIDE DEF R
        <5> QED
          BY <4>3
      <4> QED
        BY <4>4, <4>5, <4>6
    <3> QED
      BY <3>1, <3>2
  <2> HIDE DEF Place
  <2> QED
    BY <2>0, <2>1, Zenon DEF Good
<1>3. n \in Good
  <2> HIDE DEF Good
  <2>1. Good = Nat
    BY <1>1, <1>2, Induction DEF Good
  <2> QED
    BY <2>1
<1> QED
  BY <1>3

-----------------------------------------------------------------------------
(***************************************************************************)
(* Settings that are looked up alike are the same.                         *)
(***************************************************************************)
\* Whatever is looked up, in the parser p and the configuration c or in q and d: it is
\* the same.
Layer(p, c, k) == IF has_flag(p, k) THEN get_option(p, k) ELSE c[k]

Alike(p, c, q, d) ==
  /\ \A k : /\ Given(p, c, k) <=> Given(q, d, k)
            /\ Fallback(p, c, k) = Fallback(q, d, k)
            /\ Given(p, c, k) => Layer(p, c, k) = Layer(q, d, k)
  /\ \A k \in Switches : IsOn(p, c, k) <=> IsOn(q, d, k)
  /\ CommandLineOnly \cap p.flags = CommandLineOnly \cap q.flags
  /\ \A k \in CommandLineValues : get_option(p, k) = get_option(q, k)
  /\ \A k \in {"include-dir", "ignore"} : get_all_options(p, k) = get_all_options(q, k)
  /\ p.positional = q.positional

\* Then so are the Boolean members (options/behavior.cpp and its like),
LEMMA AlikeSwitches ==
  ASSUME NEW p, NEW c, NEW q, NEW d, Alike(p, c, q, d)
  PROVE  OnSwitches(p, c) = OnSwitches(q, d)
<1>1. {k \in Switches : IsOn(p, c, k)} = {k \in Switches : IsOn(q, d, k)}
  BY Zenon DEF Alike
<1>2. CommandLineOnly \cap p.flags = CommandLineOnly \cap q.flags
  BY DEF Alike
<1> QED
  BY <1>1, <1>2, Zenon DEF OnSwitches

\* the numbers, by each of their rules (options/limits.cpp, timing.cpp, tracker.cpp),
LEMMA AlikeNumber ==
  ASSUME NEW p, NEW c, NEW q, NEW d, Alike(p, c, q, d), NEW k \in Numerical
  PROVE  NumberOf(p, c, k) = NumberOf(q, d, k)
<1>1. /\ Given(p, c, k) <=> Given(q, d, k)
      /\ k \in SwitchNumbers => (IsOn(p, c, k) <=> IsOn(q, d, k))
      /\ Fallback(p, c, k) = Fallback(q, d, k)
      /\ Given(p, c, k) => Layer(p, c, k) = Layer(q, d, k)
  <2>1. SwitchNumbers \subseteq Switches
    BY DEF SwitchNumbers, Switches
  <2> QED
    BY <2>1, Zenon DEF Alike
<1>2. ReadIf(Given(p, c, k), k, Fallback(p, c, k)) = ReadIf(Given(q, d, k), k, Fallback(q, d, k))
  BY <1>1 DEF ReadIf
<1>3. k \in SwitchNumbers =>
        ReadIf(IsOn(p, c, k) /\ Fallback(p, c, k) # <<>>, k, Fallback(p, c, k))
          = ReadIf(IsOn(q, d, k) /\ Fallback(q, d, k) # <<>>, k, Fallback(q, d, k))
  BY <1>1 DEF ReadIf
<1>4. ReadIf(Given(p, c, k), k, Layer(p, c, k)) = ReadIf(Given(q, d, k), k, Layer(q, d, k))
  BY <1>1 DEF ReadIf
<1>5. CASE k \in SwitchNumbers
  BY <1>2, <1>3, <1>4, <1>5, Zenon DEF NumberOf, Layer
<1>6. CASE k \notin SwitchNumbers
  <2>1. k \in FallbackNumbers \/ k \in LayeredNumbers
    BY <1>6 DEF Numerical
  <2> QED
    BY <1>2, <1>4, <1>6, <2>1 DEF NumberOf, Layer
<1> QED
  BY <1>5, <1>6

\* the texts, and the service a control is about (options/service.cpp),
LEMMA AlikeTexts ==
  ASSUME NEW p, NEW c, NEW q, NEW d, Alike(p, c, q, d), NEW k
  PROVE  /\ TextOf(p, c, k) = TextOf(q, d, k)
         /\ k \in Controls => ControlName(p, c, k) = ControlName(q, d, k)
<1>1. ASSUME NEW n
      PROVE  /\ Given(p, c, n) <=> Given(q, d, n)
             /\ Fallback(p, c, n) = Fallback(q, d, n)
  BY Zenon DEF Alike
<1>2. ASSUME NEW n PROVE InstalledAs(p, c, n) = InstalledAs(q, d, n)
  <2> DEFINE by == IF n = "daemon-name" THEN <<"uninstall-daemon", "install-daemon">>
                                        ELSE <<"uninstall-service", "install-service">>
             named(r, cfg) == {i \in DOMAIN by : IsOn(r, cfg, by[i]) /\ get_option(r, by[i]) # <<>>}
  <2>1. /\ DOMAIN by \subseteq Nat
        /\ \A i \in DOMAIN by : by[i] \in Switches \cap CommandLineValues
    BY DEF Switches, CommandLineValues
  <2> HIDE DEF by
  <2>2. \A i \in DOMAIN by : /\ IsOn(p, c, by[i]) <=> IsOn(q, d, by[i])
                             /\ get_option(p, by[i]) = get_option(q, by[i])
    BY <2>1, Zenon DEF Alike
  <2>3. named(p, c) = named(q, d)
    BY <2>2
  <2>4. /\ InstalledAs(p, c, n) =
             IF named(p, c) = {} THEN DefaultText(n) ELSE get_option(p, by[Min(named(p, c))])
        /\ InstalledAs(q, d, n) =
             IF named(q, d) = {} THEN DefaultText(n) ELSE get_option(q, by[Min(named(q, d))])
    BY DEF InstalledAs, by
  <2>5. named(p, c) # {} => Min(named(p, c)) \in DOMAIN by
    <3>1. named(p, c) \subseteq DOMAIN by /\ named(p, c) \subseteq Nat
      BY <2>1
    <3> HIDE DEF named
    <3> QED
      BY <3>1, MinFacts
  <2> HIDE DEF named
  <2> QED
    BY <2>2, <2>3, <2>4, <2>5
<1>3. ASSUME NEW n PROVE TextOf(p, c, n) = TextOf(q, d, n)
  BY <1>1, <1>2, Zenon DEF TextOf
<1>4. k \in Controls => ControlName(p, c, k) = ControlName(q, d, k)
  <2> DEFINE own(r, cfg) == IF IsOn(r, cfg, k) THEN Fallback(r, cfg, k) ELSE <<>>
             of == IF k \in DaemonControls THEN "daemon-name" ELSE "service-name"
  <2>1. k \in Controls => own(p, c) = own(q, d)
    <3>1. Controls \subseteq Switches
      BY DEF Controls, Switches
    <3>2. k \in Controls => (IsOn(p, c, k) <=> IsOn(q, d, k))
      BY <3>1, Zenon DEF Alike
    <3> QED
      BY <1>1, <3>2
  <2>2. TextOf(p, c, of) = TextOf(q, d, of)
    BY <1>3
  <2>3. ASSUME NEW r, NEW cfg
        PROVE  ControlName(r, cfg, k) = IF own(r, cfg) # <<>> THEN own(r, cfg) ELSE TextOf(r, cfg, of)
    BY DEF ControlName
  <2> HIDE DEF own, of
  <2> QED
    BY <2>1, <2>2, <2>3
<1> QED
  BY <1>3, <1>4

\* the root, the log level and the sort order,
LEMMA AlikeRoot ==
  ASSUME NEW p, NEW c, NEW q, NEW d, Alike(p, c, q, d)
  PROVE  /\ Root(p, c) = Root(q, d)
         /\ LogLevel(p, c) = LogLevel(q, d)
         /\ SortMode(p, c) = SortMode(q, d)
<1>1. ASSUME NEW k
      PROVE  /\ Given(p, c, k) <=> Given(q, d, k)
             /\ Fallback(p, c, k) = Fallback(q, d, k)
  BY Zenon DEF Alike
<1>2. Root(p, c) = Root(q, d)
  <2>1. p.positional = q.positional
    BY DEF Alike
  <2> QED
    BY <1>1, <2>1, Zenon DEF Root
<1>3. LogLevel(p, c) = LogLevel(q, d)
  <2>1. IsOn(p, c, "verbose") <=> IsOn(q, d, "verbose")
    BY DEF Alike, Switches
  <2> QED
    BY <1>1, <2>1, Zenon DEF LogLevel
<1>4. SortMode(p, c) = SortMode(q, d)
  BY <1>1, Zenon DEF SortMode
<1> QED
  BY <1>2, <1>3, <1>4

\* what keeps the process in the background or attaches it,
LEMMA AlikeService ==
  ASSUME NEW p, NEW c, NEW q, NEW d, Alike(p, c, q, d)
  PROVE  Service(p, c) = Service(q, d)
<1>1. ASSUME NEW k
      PROVE  /\ Given(p, c, k) = Given(q, d, k)
             /\ Fallback(p, c, k) = Fallback(q, d, k)
  <2>1. Given(p, c, k) \in BOOLEAN /\ Given(q, d, k) \in BOOLEAN
    BY DEF Given, has_flag
  <2>2. /\ Given(p, c, k) <=> Given(q, d, k)
        /\ Fallback(p, c, k) = Fallback(q, d, k)
    BY Zenon DEF Alike
  <2> QED
    BY <2>1, <2>2
<1>2. IsOn(p, c, "persist") = IsOn(q, d, "persist")
  <2>1. IsOn(p, c, "persist") \in BOOLEAN /\ IsOn(q, d, "persist") \in BOOLEAN
    BY DEF IsOn, has_flag, cfg_flag
  <2>2. IsOn(p, c, "persist") <=> IsOn(q, d, "persist")
    BY DEF Alike, Switches
  <2> QED
    BY <2>1, <2>2
<1>3. OnSwitches(p, c) = OnSwitches(q, d) /\ Root(p, c) = Root(q, d)
  BY AlikeSwitches, AlikeRoot
<1>4. AttachName(p, c) = AttachName(q, d)
  <2> DEFINE names == <<"reattach", "background", "attach">>
             said(r, cfg) == {i \in DOMAIN names : Given(r, cfg, names[i])}
             rest(r, cfg) == IF "mutant" \in OnSwitches(r, cfg) THEN <<"mutant">>
                             ELSE IF ~IsOn(r, cfg, "persist") THEN <<>>
                             ELSE IF Fallback(r, cfg, "persist") # <<>> THEN Fallback(r, cfg, "persist")
                             ELSE filename(Root(r, cfg))
  <2>1. said(p, c) = said(q, d)
    <3> HIDE DEF names
    <3> QED
      BY <1>1
  <2>2. rest(p, c) = rest(q, d)
    BY <1>1, <1>2, <1>3, Zenon
  <2>3. ASSUME NEW r, NEW cfg
        PROVE  AttachName(r, cfg) =
                 IF said(r, cfg) # {} THEN Fallback(r, cfg, names[Min(said(r, cfg))]) ELSE rest(r, cfg)
    BY DEF AttachName
  <2> HIDE DEF said, names, rest
  <2> QED
    BY <1>1, <2>1, <2>2, <2>3
<1> QED
  BY <1>1, <1>2, <1>3, <1>4, Zenon DEF Service

\* and the file of the history (options/history.cpp).
LEMMA AlikeHistory ==
  ASSUME NEW p, NEW c, NEW q, NEW d, Alike(p, c, q, d), NEW fs
  PROVE  HistoryFile(p, c, fs) = HistoryFile(q, d, fs)
<1>1. ASSUME NEW k \in {"rerun-last", "save-args", "enable-history"}
      PROVE  IsOn(p, c, k) <=> IsOn(q, d, k)
  BY DEF Alike, Switches
<1>2. Fallback(p, c, "enable-history") = Fallback(q, d, "enable-history")
  BY Zenon DEF Alike
<1>3. Root(p, c) = Root(q, d)
  BY AlikeRoot
<1> QED
  BY <1>1, <1>2, <1>3, Zenon DEF HistoryFile

\* All settings at once, but for the words they were read from.  Neither of the two is
\* refused.
LEMMA AlikeSettled ==
  ASSUME NEW p, NEW config, NEW q, NEW less, NEW fs, NEW a, NEW b,
         Alike(p, config.opts, q, less.opts),
         Concurrency(p, config.opts) = Concurrency(q, less.opts),
         less.repos = config.repos, less.file = config.file,
         Settled(p, config.opts, config, fs, a) # Fail,
         Settled(q, less.opts, less, fs, b) # Fail
  PROVE  Settled(q, less.opts, less, fs, b)
           = [Settled(p, config.opts, config, fs, a) EXCEPT !.original_args = b]
<1> DEFINE c == config.opts
           d == less.opts
           settings(r, cfg, numbers, window, texts, controls, ignored, words) ==
             [ok            |-> TRUE,
              on            |-> OnSwitches(r, cfg),
              numbers       |-> numbers,
              respawn_window|-> window,
              concurrency   |-> Concurrency(r, cfg).n,
              texts         |-> texts,
              controls      |-> controls,
              log_level     |-> LogLevel(r, cfg),
              sort_mode     |-> SortMode(r, cfg),
              service       |-> Service(r, cfg),
              root          |-> Root(r, cfg),
              include_dirs  |-> get_all_options(r, "include-dir"),
              ignore_dirs   |-> get_all_options(r, "ignore"),
              ignored_repo  |-> ignored,
              history_file  |-> HistoryFile(r, cfg, fs),
              repo_settings |-> [path \in DOMAIN config.repos |-> RepoSetting(config.repos[path])],
              config_file   |-> config.file,
              original_args |-> words]
           numbers(r, cfg) == [k \in Numerical |-> NumberOf(r, cfg, k).n]
           window(r, cfg) == RespawnWindow(IF Given(r, cfg, "respawn-limit")
                                             THEN Fallback(r, cfg, "respawn-limit") ELSE <<>>).n
           textual == (RequiredTexts \cup OptionalTexts)
                        \ {"attach", "background", "reattach", "root"}
           texts(r, cfg) == [k \in textual |-> TextOf(r, cfg, k)]
           controls(r, cfg) == [k \in Controls |-> ControlName(r, cfg, k)]
           ignored(r, cfg) == [k \in {"add-ignore", "remove-ignore"} |->
                                 IF k \in OnSwitches(r, cfg) THEN get_option(r, k) ELSE <<>>]
<1>1. Settled(p, c, config, fs, a)
        = settings(p, c, numbers(p, c), window(p, c), texts(p, c), controls(p, c),
                   ignored(p, c), a)
  BY Zenon DEF Settled
<1>2. Settled(q, d, less, fs, b)
        = settings(q, d, numbers(q, d), window(q, d), texts(q, d), controls(q, d),
                   ignored(q, d), b)
  BY Zenon DEF Settled
<1>3. numbers(p, c) = numbers(q, d)
  <2>1. ASSUME NEW k \in Numerical PROVE NumberOf(p, c, k) = NumberOf(q, d, k)
    BY AlikeNumber
  <2> QED
    BY <2>1, Zenon
<1>4. window(p, c) = window(q, d)
  <2>1. /\ Given(p, c, "respawn-limit") <=> Given(q, d, "respawn-limit")
        /\ Fallback(p, c, "respawn-limit") = Fallback(q, d, "respawn-limit")
    BY Zenon DEF Alike
  <2> QED
    BY <2>1, Zenon
<1>5. texts(p, c) = texts(q, d) /\ controls(p, c) = controls(q, d)
  <2>1. ASSUME NEW k
        PROVE  /\ TextOf(p, c, k) = TextOf(q, d, k)
               /\ k \in Controls => ControlName(p, c, k) = ControlName(q, d, k)
    BY AlikeTexts
  <2> HIDE DEF textual
  <2> QED
    BY <2>1, Zenon
<1>6. OnSwitches(p, c) = OnSwitches(q, d)
  BY AlikeSwitches
<1>7. ignored(p, c) = ignored(q, d)
  <2>1. \A k \in {"add-ignore", "remove-ignore"} : get_option(p, k) = get_option(q, k)
    BY DEF Alike, CommandLineValues
  <2> QED
    BY <1>6, <2>1, Zenon
<1>8. /\ get_all_options(p, "include-dir") = get_all_options(q, "include-dir")
      /\ get_all_options(p, "ignore") = get_all_options(q, "ignore")
  BY DEF Alike
<1>9. /\ LogLevel(p, c) = LogLevel(q, d)
      /\ SortMode(p, c) = SortMode(q, d)
      /\ Root(p, c) = Root(q, d)
  BY AlikeRoot
<1>10. Service(p, c) = Service(q, d)
  BY AlikeService
<1>11. HistoryFile(p, c, fs) = HistoryFile(q, d, fs)
  BY AlikeHistory
<1>12. ASSUME NEW n, NEW r, NEW t, NEW s, NEW i
       PROVE  settings(p, c, n, r, t, s, i, b) = settings(q, d, n, r, t, s, i, b)
  <2> HIDE DEF c, d
  <2>1. Concurrency(p, c) = Concurrency(q, d)
    BY DEF c, d
  <2> QED
    BY <1>6, <1>8, <1>9, <1>10, <1>11, <2>1, Zenon
<1>13. ASSUME NEW n, NEW r, NEW t, NEW s, NEW i
       PROVE  [settings(p, c, n, r, t, s, i, a) EXCEPT !.original_args = b]
                = settings(p, c, n, r, t, s, i, b)
  <2> DEFINE members == {"ok", "on", "numbers", "respawn_window", "concurrency", "texts",
                         "controls", "log_level", "sort_mode", "service", "root",
                         "include_dirs", "ignore_dirs", "ignored_repo", "history_file",
                         "repo_settings", "config_file", "original_args"}
             before == settings(p, c, n, r, t, s, i, a)
             after == settings(p, c, n, r, t, s, i, b)
  <2> HIDE DEF c, d
  <2>1. before = [x \in members |-> before[x]] /\ after = [x \in members |-> after[x]]
    OBVIOUS
  <2>2. /\ \A x \in members : x # "original_args" => after[x] = before[x]
        /\ after.original_args = b
    OBVIOUS
  <2> HIDE DEF before, after
  <2>3. DOMAIN before = members
    BY <2>1
  <2> HIDE DEF members
  <2>4. [before EXCEPT !.original_args = b]
          = [x \in members |-> IF x = "original_args" THEN b ELSE before[x]]
    BY <2>3
  <2>5. \A x \in members : after[x] = IF x = "original_args" THEN b ELSE before[x]
    BY <2>2
  <2>6. [before EXCEPT !.original_args = b] = after
    BY <2>1, <2>4, <2>5
  <2> QED
    BY <2>6 DEF before, after
<1> HIDE DEF settings, numbers, window, texts, controls, ignored, c, d
<1>14. Settled(q, d, less, fs, b)
         = settings(p, c, numbers(p, c), window(p, c), texts(p, c), controls(p, c),
                    ignored(p, c), b)
  BY <1>2, <1>3, <1>4, <1>5, <1>7, <1>12
<1>15. Settled(q, d, less, fs, b) = [Settled(p, c, config, fs, a) EXCEPT !.original_args = b]
  BY <1>1, <1>13, <1>14
<1> QED
  BY <1>15 DEF c, d

-----------------------------------------------------------------------------
(***************************************************************************)
(* The command line wins.                                                  *)
(***************************************************************************)
\* Two configurations that differ only in what the command line gives a value.
Agree(p, c, d) ==
  \A k : get_option(p, k) = <<>> =>
    /\ k \in DOMAIN c <=> k \in DOMAIN d
    /\ k \in DOMAIN c => c[k] = d[k]

\* Values make flags, in whatever parser.
ValuesAreFlags(p) == \A k : get_option(p, k) # <<>> => k \in p.flags

\* The three ways of looking an option up.
LEMMA SameLookup ==
  ASSUME NEW p, NEW c, NEW d, ValuesAreFlags(p), Agree(p, c, d), NEW k
  PROVE  /\ Given(p, c, k) <=> Given(p, d, k)
         /\ IsOn(p, c, k) <=> IsOn(p, d, k)
         /\ Fallback(p, c, k) = Fallback(p, d, k)
<1>1. CASE get_option(p, k) = <<>>
  <2>1. /\ k \in DOMAIN c <=> k \in DOMAIN d
        /\ k \in DOMAIN c => c[k] = d[k]
    BY <1>1 DEF Agree
  <2>2. cfg_flag(c, k) <=> cfg_flag(d, k)
    BY <2>1 DEF cfg_flag
  <2>3. cfg_opt(c, k) = cfg_opt(d, k)
    BY <2>1 DEF cfg_opt
  <2> QED
    BY <2>1, <2>2, <2>3 DEF Given, IsOn, Fallback, OrElse
<1>2. CASE get_option(p, k) # <<>>
  <2>1. has_flag(p, k)
    BY <1>2 DEF ValuesAreFlags, has_flag
  <2> QED
    BY <1>2, <2>1 DEF Given, IsOn, Fallback, OrElse
<1> QED
  BY <1>1, <1>2

\* Such configurations are looked up in alike.
LEMMA AgreeAlike ==
  ASSUME NEW p, NEW c, NEW d, ValuesAreFlags(p), Agree(p, c, d)
  PROVE  Alike(p, c, p, d)
<1>1. ASSUME NEW k, Given(p, c, k) PROVE Layer(p, c, k) = Layer(p, d, k)
  <2>1. CASE has_flag(p, k)
    BY <2>1 DEF Layer
  <2>2. CASE ~has_flag(p, k)
    <3>1. k \in DOMAIN c => c[k] = d[k]
      BY <2>2 DEF Agree, ValuesAreFlags, has_flag
    <3> QED
      BY <1>1, <2>2, <3>1 DEF Layer, Given
  <2> QED
    BY <2>1, <2>2
<1>2. \A k : /\ Given(p, c, k) <=> Given(p, d, k)
             /\ Fallback(p, c, k) = Fallback(p, d, k)
             /\ IsOn(p, c, k) <=> IsOn(p, d, k)
  BY SameLookup
<1> QED
  BY <1>1, <1>2, Zenon DEF Alike

\* The size of the pool: if the command line names one of its options, the last layer
\* is the command line's, and otherwise the layers are the same.
LEMMA SamePool ==
  ASSUME NEW p, NEW c, NEW d, ValuesAreFlags(p), Agree(p, c, d)
  PROVE  Concurrency(p, c) = Concurrency(p, d)
<1> DEFINE layers(cfg) ==
        <<<<TRUE,                             Yes(IF Cores = 0 THEN 1 ELSE Cores)>>,
          <<"threads" \in DOMAIN cfg,         PoolSize(cfg_opt(cfg, "threads"))>>,
          <<cfg_flag(cfg, "single-thread"),   Yes(1)>>,
          <<"concurrency" \in DOMAIN cfg,     PoolSize(cfg_opt(cfg, "concurrency"))>>,
          <<has_flag(p, "threads"),           PoolSize(get_option(p, "threads"))>>,
          <<has_flag(p, "single-thread"),     Yes(1)>>,
          <<has_flag(p, "concurrency"),       PoolSize(get_option(p, "concurrency"))>>>>
       there(cfg) == {i \in DOMAIN layers(cfg) : layers(cfg)[i][1]}
<1>1. ASSUME NEW cfg PROVE Concurrency(p, cfg) = layers(cfg)[Max(there(cfg))][2]
  BY DEF Concurrency
<1>2. CASE \E k \in {"threads", "single-thread", "concurrency"} : has_flag(p, k)
  <2>1. PICK m \in {5, 6, 7} :
           /\ m = 5 => has_flag(p, "threads")
           /\ m = 6 => has_flag(p, "single-thread")
           /\ m = 7 => has_flag(p, "concurrency")
           /\ m < 7 => ~has_flag(p, "concurrency")
           /\ m < 6 => ~has_flag(p, "single-thread")
    BY <1>2
  <2>2. ASSUME NEW cfg
        PROVE  /\ there(cfg) \in SUBSET Int /\ m \in there(cfg)
               /\ \A n \in there(cfg) : n <= m
    BY <2>1
  <2>3. ASSUME NEW cfg PROVE Max(there(cfg)) = m
    <3> HIDE DEF there
    <3> QED
      BY <2>2, MaxIs
  <2>4. layers(c)[m] = layers(d)[m]
    BY <2>1
  <2> HIDE DEF layers, there
  <2> QED
    BY <1>1, <2>3, <2>4
<1>3. CASE \A k \in {"threads", "single-thread", "concurrency"} : ~has_flag(p, k)
  <2>1. ASSUME NEW k \in {"threads", "single-thread", "concurrency"}
        PROVE  /\ k \in DOMAIN c <=> k \in DOMAIN d
               /\ k \in DOMAIN c => c[k] = d[k]
    BY <1>3 DEF ValuesAreFlags, Agree, has_flag
  <2>2. layers(c) = layers(d)
    <3>1. /\ ("threads" \in DOMAIN c) = ("threads" \in DOMAIN d)
          /\ ("concurrency" \in DOMAIN c) = ("concurrency" \in DOMAIN d)
          /\ cfg_flag(c, "single-thread") = cfg_flag(d, "single-thread")
      BY <2>1 DEF cfg_flag
    <3>2. /\ cfg_opt(c, "threads") = cfg_opt(d, "threads")
          /\ cfg_opt(c, "concurrency") = cfg_opt(d, "concurrency")
      BY <2>1 DEF cfg_opt
    <3> QED
      BY <3>1, <3>2, Zenon
  <2>3. there(c) = there(d)
    BY <2>2, Zenon
  <2> HIDE DEF layers, there
  <2> QED
    BY <1>1, <2>2, <2>3
<1> QED
  BY <1>2, <1>3

\* So all settings are the same, if neither of the two configurations is refused.
LEMMA AgreeSettled ==
  ASSUME NEW p, NEW config, NEW less, NEW fs, NEW a,
         ValuesAreFlags(p), Agree(p, config.opts, less.opts),
         less.repos = config.repos, less.file = config.file,
         Settled(p, config.opts, config, fs, a) # Fail,
         Settled(p, less.opts, less, fs, a) # Fail
  PROVE  Settled(p, config.opts, config, fs, a) = Settled(p, less.opts, less, fs, a)
<1>1. /\ Alike(p, config.opts, p, less.opts)
      /\ Concurrency(p, config.opts) = Concurrency(p, less.opts)
  BY AgreeAlike, SamePool
<1>2. Alike(p, config.opts, p, config.opts)
  BY Zenon DEF Alike
<1>3. Settled(p, less.opts, less, fs, a)
        = [Settled(p, config.opts, config, fs, a) EXCEPT !.original_args = a]
  BY <1>1, AlikeSettled
<1>4. Settled(p, config.opts, config, fs, a)
        = [Settled(p, config.opts, config, fs, a) EXCEPT !.original_args = a]
  BY <1>2, AlikeSettled
<1> QED
  BY <1>3, <1>4

\* ArgParser is such a parser, for every command line.
LEMMA ParserValues ==
  ASSUME NEW a
  PROVE  ValuesAreFlags(ArgParser(a, Known, ShortOptions))
<1>1. PICK says, positional : ArgParser(a, Known, ShortOptions) = Parsed(says, positional, Known)
  BY DEF ArgParser
<1> QED
  BY <1>1, OptionIsFlag DEF ValuesAreFlags

\* A configuration agrees with itself without an option that the command line gives a
\* value.
LEMMA WithoutAgrees ==
  ASSUME NEW p, NEW config, NEW k, get_option(p, k) # <<>>
  PROVE  Agree(p, config.opts, WithoutKey(config, k).opts)
<1>1. WithoutKey(config, k).opts = [x \in {y \in DOMAIN config.opts : y # k} |-> config.opts[x]]
  BY DEF WithoutKey, RestrictDomain, Restrict
<1> QED
  BY <1>1 DEF Agree

\* A value of the command line decides (parse_options): for every command line, every
\* configuration and all files, what the configuration says of the same option changes
\* no setting.
THEOREM CommandLineDecides == Spec => []CommandLineWins
<1>1. CommandLineWins
  <2> SUFFICES ASSUME NEW k \in DOMAIN Config.opts, get_option(Parser, k) # <<>>
               PROVE  BothSame(Settle(args, Config, files),
                               Settle(args, WithoutKey(Config, k), files))
    BY DEF CommandLineWins, Outranked
  <2> DEFINE less == WithoutKey(Config, k)
             with == Settle(args, Config, files)
             without == Settle(args, less, files)
  <2> SUFFICES ASSUME with.ok, without.ok PROVE with = without
    BY DEF BothSame
  <2>1. with # Fail /\ without # Fail
    BY DEF Fail
  <2>2. /\ with = Settled(Parser, Config.opts, Config, files, args)
        /\ without = Settled(Parser, less.opts, less, files, args)
    BY DEF Settle, Parser
  <2>3. ValuesAreFlags(Parser)
    BY ParserValues DEF Parser
  <2>4. Agree(Parser, Config.opts, less.opts)
    BY WithoutAgrees
  <2>5. less.repos = Config.repos /\ less.file = Config.file
    BY DEF WithoutKey
  <2> HIDE DEF less, with, without
  <2> QED
    BY <2>1, <2>2, <2>3, <2>4, <2>5, AgreeSettled
<1> QED
  BY <1>1, PTL

-----------------------------------------------------------------------------
\* Settings that were not refused are those of the command line they were read from.
LEMMA ReadFrom ==
  ASSUME NEW a, NEW fs, parse_options(a, fs).ok
  PROVE  \E cfg :
           /\ parse_options(a, fs).on = OnSwitches(ArgParser(a, Known, ShortOptions), cfg)
           /\ \A k \in Numerical :
                parse_options(a, fs).numbers[k]
                  = NumberOf(ArgParser(a, Known, ShortOptions), cfg, k).n
           /\ parse_options(a, fs).root = Root(ArgParser(a, Known, ShortOptions), cfg)
           /\ parse_options(a, fs).ignore_dirs
                = get_all_options(ArgParser(a, Known, ShortOptions), "ignore")
           /\ parse_options(a, fs).include_dirs
                = get_all_options(ArgParser(a, Known, ShortOptions), "include-dir")
           /\ parse_options(a, fs).original_args = a
<1> DEFINE p == ArgParser(a, Known, ShortOptions)
           config == load_config_and_auto(a, fs)
           read == parse_options(a, fs)
<1>1. read = Settled(p, config.opts, config, fs, a)
  BY DEF parse_options, Settle
<1>2. read # Fail
  BY DEF Fail
<1> HIDE DEF p, config, read
<1>3. /\ read.on = OnSwitches(p, config.opts)
      /\ read.numbers = [k \in Numerical |-> NumberOf(p, config.opts, k).n]
      /\ read.root = Root(p, config.opts)
      /\ read.ignore_dirs = get_all_options(p, "ignore")
      /\ read.include_dirs = get_all_options(p, "include-dir")
      /\ read.original_args = a
  BY <1>1, <1>2 DEF Settled
<1> QED
  BY <1>3 DEF p, read

\* Refused options have no settings, all others have these.
LEMMA ReadDomain ==
  ASSUME NEW a, NEW fs
  PROVE  \/ parse_options(a, fs) = Fail
         \/ {"ok", "on", "original_args", "include_dirs"} \subseteq DOMAIN parse_options(a, fs)
  BY DEF parse_options, Settle, Settled

\* A switch of the command line that is on for one configuration is on for every
\* other one: no setting that is another name of it takes its place.
LEMMA FlagStaysOn ==
  ASSUME NEW p, NEW c, NEW d, NEW k \in p.flags, k \in OnSwitches(p, c)
  PROVE  k \in OnSwitches(p, d)
<1> DEFINE named(cfg) == {x \in Switches : IsOn(p, cfg, x)} \cup (CommandLineOnly \cap p.flags)
           all(cfg) == named(cfg) \cup {b[2] : b \in {x \in Brings : x[1] \in named(cfg)}}
           name(x) == IF x \in DOMAIN Synonyms THEN Synonyms[x] ELSE x
<1>1. ASSUME NEW cfg PROVE OnSwitches(p, cfg) = {name(x) : x \in all(cfg)}
  BY Zenon DEF OnSwitches
<1>2. PICK x \in all(c) : k = name(x)
  BY <1>1
<1>3. DOMAIN Synonyms = {"keep-first", "discard-dirty", "list-daemons"}
  BY DEF Synonyms
<1>4. \A y \in DOMAIN Synonyms :
        Synonyms[y] \in {"keep-first-valid", "force-pull", "list-services"}
  BY DEF Synonyms
<1>5. {"keep-first-valid", "force-pull", "list-services", "cli", "mutant"} \subseteq Switches
  BY DEF Switches
<1>6. x \in Switches \cup CommandLineOnly
  BY <1>2, <1>5 DEF Brings
<1> HIDE DEF all
<1>7. k \in (Switches \cup CommandLineOnly) \ DOMAIN Synonyms
  BY <1>2, <1>3, <1>4, <1>5, <1>6
<1>8. k \in all(d)
  BY <1>7 DEF all, IsOn, has_flag
<1> QED
  BY <1>1, <1>7, <1>8

\* A number that the command line gives a value does not depend on the configuration.
LEMMA GivenNumber ==
  ASSUME NEW p, ValuesAreFlags(p), NEW c, NEW d, NEW k, get_option(p, k) # <<>>
  PROVE  NumberOf(p, c, k) = NumberOf(p, d, k)
<1>1. has_flag(p, k)
  BY DEF ValuesAreFlags, has_flag
<1>2. ASSUME NEW cfg
      PROVE  Given(p, cfg, k) /\ IsOn(p, cfg, k) /\ Fallback(p, cfg, k) = get_option(p, k)
  BY <1>1 DEF Given, IsOn, Fallback, OrElse
<1>3. ASSUME NEW cfg
      PROVE  /\ ReadIf(Given(p, cfg, k), k, Fallback(p, cfg, k)) = ReadNumber(k, get_option(p, k))
             /\ ReadIf(IsOn(p, cfg, k) /\ Fallback(p, cfg, k) # <<>>, k, Fallback(p, cfg, k))
                  = ReadNumber(k, get_option(p, k))
             /\ ReadIf(Given(p, cfg, k), k, IF has_flag(p, k) THEN get_option(p, k) ELSE cfg[k])
                  = ReadNumber(k, get_option(p, k))
  BY <1>1, <1>2 DEF ReadIf
<1> QED
  BY <1>3, Zenon DEF NumberOf

\* The same of the root.
LEMMA GivenRoot ==
  ASSUME NEW p, ValuesAreFlags(p), NEW c, NEW d, get_option(p, "root") # <<>>
  PROVE  Root(p, c) = Root(p, d)
<1>1. has_flag(p, "root")
  BY DEF ValuesAreFlags, has_flag
<1> QED
  BY <1>1 DEF Root, Given, Fallback, OrElse

\* Outside mutant mode main takes the options as they were read.
LEMMA MutantOnly ==
  ASSUME NEW o, NEW state, {"ok", "on", "original_args", "include_dirs"} \subseteq DOMAIN o,
         apply_mutant_mode(o, state).ok
  PROVE  /\ o.ok
         /\ apply_mutant_mode(o, state).include_dirs = o.include_dirs
         /\ apply_mutant_mode(o, state).original_args = o.original_args
         /\ "mutant" \notin apply_mutant_mode(o, state).on => apply_mutant_mode(o, state) = o
<1>1. CASE ~o.ok \/ "mutant" \notin o.on
  BY <1>1 DEF apply_mutant_mode
<1>2. CASE o.ok /\ "mutant" \in o.on
  <2>1. /\ apply_mutant_mode(o, state).original_args = o.original_args
        /\ apply_mutant_mode(o, state).include_dirs = o.include_dirs
    BY <1>2 DEF apply_mutant_mode
  <2>2. "mutant" \in apply_mutant_mode(o, state).on
    BY <1>2 DEF apply_mutant_mode
  <2> QED
    BY <1>2, <2>1, <2>2
<1> QED
  BY <1>1, <1>2

-----------------------------------------------------------------------------
\* A run that is not over has the options of its command line, and outside mutant
\* mode exactly as some state of the files gave them.
OptionsInv ==
  phase \in {"opening", "waiting", "monitoring"} =>
    /\ opts.original_args = args
    /\ "mutant" \notin opts.on => \E fs : opts.ok /\ opts = parse_options(args, fs)

\* main reads the options and adjusts them in mutant mode.
LEMMA StartOptionsInv == Start => OptionsInv'
<1> SUFFICES ASSUME Start, opts'.ok PROVE OptionsInv'
  BY DEF Start, OptionsInv
<1> DEFINE read == parse_options(args, files)
<1>0. PICK state \in MutantStates : opts' = apply_mutant_mode(read, state)
  BY DEF Start
<1>1. opts' = apply_mutant_mode(read, state) /\ args' = args
  BY <1>0 DEF Start
<1>2. {"ok", "on", "original_args", "include_dirs"} \subseteq DOMAIN read
  BY <1>1, ReadDomain DEF apply_mutant_mode, Fail
<1> HIDE DEF read
<1>3. /\ read.ok
      /\ opts'.original_args = read.original_args
      /\ "mutant" \notin opts'.on => opts' = read
  BY <1>1, <1>2, MutantOnly
<1>4. read.original_args = args
  BY <1>3, ReadFrom DEF read
<1> QED
  BY <1>1, <1>3, <1>4 DEF OptionsInv, read

\* A reload reads the words again that main was given.
LEMMA ReloadOptionsInv == OptionsInv /\ Reload => OptionsInv'
<1> SUFFICES ASSUME OptionsInv, Reload PROVE OptionsInv'
  OBVIOUS
<1>1. args' = args /\ phase' = phase /\ phase = "monitoring" /\ opts.original_args = args
  BY DEF Reload, OptionsInv
<1>2. CASE opts' = opts
  BY <1>1, <1>2 DEF OptionsInv
<1>3. CASE opts' # opts
  <2>1. opts' = parse_options(args, files) /\ parse_options(args, files).ok
    BY <1>1, <1>3 DEF Reload, Adopt
  <2>2. opts'.original_args = args
    BY <2>1, ReadFrom
  <2> QED
    BY <1>1, <2>1, <2>2 DEF OptionsInv
<1> QED
  BY <1>2, <1>3

\* All other steps leave the options alone.
LEMMA NextOptionsInv == OptionsInv /\ [Next]_vars => OptionsInv'
<1> SUFFICES ASSUME OptionsInv, [Next]_vars PROVE OptionsInv'
  OBVIOUS
<1>1. CASE Start
  BY <1>1, StartOptionsInv
<1>2. CASE Reload
  BY <1>2, ReloadOptionsInv
<1>3. CASE Open \/ Retry \/ EditFiles \/ EditDisk \/ Monitoring \/ UNCHANGED vars
  <2>1. UNCHANGED <<args, opts>>
    BY <1>3 DEF Open, Retry, EditFiles, EditDisk, Monitoring, vars
  <2>2. phase' \in {"opening", "waiting", "monitoring"}
          => phase \in {"opening", "waiting", "monitoring"}
    BY <1>3 DEF Open, Retry, EditFiles, EditDisk, Monitoring, vars
  <2> QED
    BY <2>1, <2>2 DEF OptionsInv
<1> QED
  BY <1>1, <1>2, <1>3 DEF Next

\* Every run that is not over was told its options by its own command line (main and
\* run_event_loop in src/ui_loop.cpp), whatever was edited meanwhile.
THEOREM OptionsInvariant == Spec => []OptionsInv
<1>1. Init => OptionsInv
  BY DEF Init, OptionsInv
<1> QED
  BY <1>1, NextOptionsInv, PTL DEF Spec

\* What the command line says survives every reload, whatever the configuration file
\* has become: its switches stay on, its numbers, root and ignored paths stay the same
\* (run_event_loop in src/ui_loop.cpp).
THEOREM ReloadKeeps == Spec => ReloadKeepsCommandLine
<1> DEFINE Kept ==
      phase = "monitoring" /\ opts' # opts /\ "mutant" \notin opts.on =>
        /\ \A k \in Parser.flags \cap opts.on : k \in opts'.on
        /\ \A k \in Numerical : get_option(Parser, k) # <<>> =>
             opts'.numbers[k] = opts.numbers[k]
        /\ get_option(Parser, "root") # <<>> => opts'.root = opts.root
        /\ opts'.ignore_dirs = opts.ignore_dirs
<1>1. OptionsInv /\ [Next]_vars => Kept
  <2> SUFFICES ASSUME OptionsInv, Next, phase = "monitoring", opts' # opts,
                      "mutant" \notin opts.on
               PROVE  Kept
    BY DEF vars
  <2>1. Reload
    BY DEF Next, Start, Open, Retry, EditFiles, EditDisk, Monitoring, vars
  <2>2. PICK fs : opts.ok /\ opts = parse_options(args, fs)
    BY DEF OptionsInv
  <2>3. opts' = parse_options(args, files) /\ parse_options(args, files).ok
    BY <2>1 DEF Reload, Adopt, OptionsInv
  <2>4. PICK c :
          /\ opts.on = OnSwitches(Parser, c)
          /\ \A k \in Numerical : opts.numbers[k] = NumberOf(Parser, c, k).n
          /\ opts.root = Root(Parser, c)
          /\ opts.ignore_dirs = get_all_options(Parser, "ignore")
    BY <2>2, ReadFrom DEF Parser
  <2>5. PICK d :
          /\ opts'.on = OnSwitches(Parser, d)
          /\ \A k \in Numerical : opts'.numbers[k] = NumberOf(Parser, d, k).n
          /\ opts'.root = Root(Parser, d)
          /\ opts'.ignore_dirs = get_all_options(Parser, "ignore")
    BY <2>3, ReadFrom DEF Parser
  <2>6. ValuesAreFlags(Parser)
    BY ParserValues DEF Parser
  <2>7. ASSUME NEW k \in Parser.flags \cap opts.on PROVE k \in opts'.on
    BY <2>4, <2>5, FlagStaysOn
  <2>8. ASSUME NEW k \in Numerical, get_option(Parser, k) # <<>>
        PROVE  opts'.numbers[k] = opts.numbers[k]
    <3>1. NumberOf(Parser, c, k) = NumberOf(Parser, d, k)
      BY <2>6, <2>8, GivenNumber
    <3> QED
      BY <2>4, <2>5, <3>1
  <2>9. get_option(Parser, "root") # <<>> => opts'.root = opts.root
    BY <2>4, <2>5, <2>6, GivenRoot
  <2> QED
    BY <2>4, <2>5, <2>7, <2>8, <2>9
<1>2. OptionsInv /\ [Next]_vars => [Kept]_vars
  BY <1>1
<1> QED
  BY <1>2, OptionsInvariant, PTL DEF Spec, ReloadKeepsCommandLine

-----------------------------------------------------------------------------
(***************************************************************************)
(* The conversions of numbers.  A power of two is the number of subsets of *)
(* a set, from which the facts about cardinalities give what arithmetic    *)
(* on exponents the widths need.                                           *)
(***************************************************************************)
\* A power of two counts something.
LEMMA PowerPositive == ASSUME NEW n \in Nat PROVE 2^n \in Nat \ {0}
<1>1. IsFiniteSet(1..n) /\ Cardinality(1..n) = n
  BY FS_Interval
<1>2. IsFiniteSet(SUBSET (1..n)) /\ Cardinality(SUBSET (1..n)) = 2^n
  BY <1>1, FS_SUBSET
<1>3. Cardinality(SUBSET (1..n)) # 0
  BY <1>2, FS_EmptySet
<1> QED
  BY <1>2, <1>3, FS_CardinalityType

\* One more bit doubles it: of the subsets of 1..n+1, as many hold n+1 as do not.
LEMMA PowerDoubles == ASSUME NEW n \in Nat PROVE 2^(n+1) = 2 * 2^n
<1> DEFINE S == SUBSET (1..n)
           T == {A \in SUBSET (1..(n + 1)) : n + 1 \in A}
<1>1. ASSUME NEW m \in Nat
      PROVE  IsFiniteSet(SUBSET (1..m)) /\ Cardinality(SUBSET (1..m)) = 2^m
  <2>1. IsFiniteSet(1..m) /\ Cardinality(1..m) = m
    BY FS_Interval
  <2> QED
    BY <2>1, FS_SUBSET
<1>2. S \cup T = SUBSET (1..(n + 1)) /\ S \cap T = {}
  OBVIOUS
<1>3. IsFiniteSet(S) /\ Cardinality(S) = 2^n /\ IsFiniteSet(T)
  <2>1. IsFiniteSet(SUBSET (1..(n + 1)))
    BY <1>1
  <2>2. T \in SUBSET (SUBSET (1..(n + 1)))
    OBVIOUS
  <2>3. IsFiniteSet(T)
    <3> HIDE DEF T
    <3> QED
      BY <2>1, <2>2, FS_Subset
  <2> QED
    BY <1>1, <2>3
<1>4. Cardinality(T) = Cardinality(S)
  <2> DEFINE f == [A \in S |-> A \cup {n + 1}]
  <2>1. f \in Bijection(S, T)
    <3>1. f \in [S -> T]
      OBVIOUS
    <3>2. \A A, B \in S : f[A] = f[B] => A = B
      OBVIOUS
    <3>3. ASSUME NEW B \in T PROVE \E A \in S : f[A] = B
      <4>1. B \ {n + 1} \in S /\ (B \ {n + 1}) \cup {n + 1} = B
        OBVIOUS
      <4> QED
        BY <4>1
    <3> HIDE DEF f, S, T
    <3> QED
      BY <3>1, <3>2, <3>3 DEF Bijection, Injection, Surjection, IsInjective
  <2> HIDE DEF f, S, T
  <2> QED
    BY <2>1, <1>3, FS_Bijection DEF ExistsBijection
<1>5. Cardinality(SUBSET (1..(n + 1))) = Cardinality(S) + Cardinality(T)
  <2> HIDE DEF S, T
  <2>1. Cardinality(S \cap T) = 0
    BY <1>2, FS_EmptySet
  <2>2. Cardinality(S \cup T) = Cardinality(S) + Cardinality(T) - Cardinality(S \cap T)
    BY <1>3, FS_Union, Zenon
  <2>3. Cardinality(S) \in Nat /\ Cardinality(T) \in Nat
    BY <1>3, FS_CardinalityType
  <2>4. Cardinality(SUBSET (1..(n + 1))) = Cardinality(S \cup T)
    BY <1>2, Zenon
  <2> QED
    BY <2>1, <2>2, <2>3, <2>4
<1>6. Cardinality(SUBSET (1..(n + 1))) = 2^(n + 1)
  BY <1>1
<1>7. 2^n \in Nat
  BY PowerPositive
<1> HIDE DEF S, T
<1> QED
  BY <1>3, <1>4, <1>5, <1>6, <1>7

\* And more bits give no less.
LEMMA PowerMonotone == ASSUME NEW m \in Nat, NEW n \in Nat, m <= n PROVE 2^m <= 2^n
<1>1. ASSUME NEW k \in Nat
      PROVE  IsFiniteSet(SUBSET (1..k)) /\ Cardinality(SUBSET (1..k)) = 2^k
  <2>1. IsFiniteSet(1..k) /\ Cardinality(1..k) = k
    BY FS_Interval
  <2> QED
    BY <2>1, FS_SUBSET
<1>2. SUBSET (1..m) \in SUBSET (SUBSET (1..n))
  OBVIOUS
<1> DEFINE S == SUBSET (1..n)
           T == SUBSET (1..m)
<1>3. IsFiniteSet(S) /\ T \in SUBSET S
  BY <1>1, <1>2
<1>4. Cardinality(T) <= Cardinality(S)
  <2> HIDE DEF S, T
  <2> QED
    BY <1>3, FS_Subset
<1>5. Cardinality(S) = 2^n /\ Cardinality(T) = 2^m
  BY <1>1
<1> HIDE DEF S, T
<1> QED
  BY <1>4, <1>5

\* The width of long long: half of the values are negative.
LEMMA Widths ==
  /\ 2^(LongBits - 1) \in Nat \ {0}
  /\ 2^LongBits = 2 * 2^(LongBits - 1)
<1>1. LongBits - 1 \in Nat /\ (LongBits - 1) + 1 = LongBits
  BY NumbersAssumption
<1> DEFINE n == LongBits - 1
<1>2. n \in Nat /\ n + 1 = LongBits
  BY <1>1
<1>3. 2^(n + 1) = 2 * 2^n /\ 2^n \in Nat \ {0}
  <2> HIDE DEF n
  <2> QED
    BY <1>2, PowerDoubles, PowerPositive
<1> HIDE DEF n
<1>4. 2^LongBits = 2 * 2^n /\ 2^n \in Nat \ {0}
  BY <1>2, <1>3
<1> QED
  BY <1>4 DEF n

\* What a signed long long can hold does not wrap.
LEMMA NoWrap ==
  ASSUME NEW n \in 0..2^(LongBits - 1) - 1
  PROVE  Signed(n) = n /\ Unsigned(n) = n
<1> DEFINE half == 2^(LongBits - 1)
<1>1. half \in Nat \ {0} /\ 2^LongBits = 2 * half /\ n \in 0..half - 1
  BY Widths
<1>2. Signed(n) = ((n + half) % 2^LongBits) - half /\ Unsigned(n) = n % 2^LongBits
  BY DEF Signed, Unsigned
<1> HIDE DEF half
<1>3. Signed(n) = ((n + half) % (2 * half)) - half /\ Unsigned(n) = n % (2 * half)
  BY <1>1, <1>2
<1>4. (n + half) % (2 * half) = n + half /\ n % (2 * half) = n
  BY <1>1
<1> QED
  BY <1>1, <1>3, <1>4

\* A text that starts with a numeral reads as its value: the rest is not looked at.
LEMMA StollNumeral ==
  ASSUME NEW t, Len(t) \in {1, 2}, IsNumeral(t[1])
  PROVE  stoll(t) = Yes(NumeralValue[t[1]])
<1>1. t[1] # "-"
  BY NumeralsAssumption DEF IsNumeral
<1> QED
  BY <1>1 DEF stoll

\* A text of two atoms without its unit.
LEMMA FrontOfTwo ==
  ASSUME NEW t, Len(t) = 2
  PROVE  Len(Front(t)) = 1 /\ Front(t)[1] = t[1]
  BY DEF Front

\* What a division allows, a multiplication keeps.
LEMMA Fits ==
  ASSUME NEW u \in Nat \ {0}, NEW m \in Nat, NEW v \in Nat, v <= m \div u
  PROVE  v * u \in 0..m
<1>1. u * (m \div u) <= m
  OBVIOUS
<1>2. v * u <= (m \div u) * u
  OBVIOUS
<1> QED
  BY <1>1, <1>2

\* The units of time.
LEMMA UnitSizes ==
  /\ \A x \in DOMAIN Seconds : Seconds[x] \in Nat \ {0}
  /\ Seconds["s"] = 1 /\ "s" \in DOMAIN Seconds
  /\ \A x \in DOMAIN Milliseconds : Milliseconds[x] \in Nat \ {0}
  /\ Milliseconds["ms"] = 1 /\ "ms" \in DOMAIN Milliseconds
  BY DEF Seconds, Milliseconds

\* A numeral in a unit of a table, or in the default unit.
LEMMA ScaledExactly ==
  ASSUME NEW units, \A x \in DOMAIN units : units[x] \in Nat \ {0},
         DOMAIN NumeralValue \cap DOMAIN units = {},
         NEW default, units[default] = 1,
         NEW t, Len(t) \in {1, 2}, IsNumeral(t[1]), NEW unit, unit = UnitIn(t, units), unit > 0,
         NumeralValue[t[1]] <= (2^(LongBits - 1) - 1) \div unit
  PROVE  Scaled(t, units, default) = Yes(NumeralValue[t[1]] * unit)
<1> DEFINE v == NumeralValue[t[1]]
           m == 2^(LongBits - 1) - 1
<1>1. v \in Nat /\ m \in Nat
  BY Widths, NumbersAssumption DEF IsNumeral
<1>2. t # <<>>
  OBVIOUS
<1>3. unit \in Nat \ {0}
  BY DEF UnitIn
<1>4. v * unit \in 0..m
  <2> HIDE DEF v, m
  <2>1. v <= m \div unit
    BY DEF v, m
  <2> QED
    BY <1>1, <1>3, <2>1, Fits
<1>5. Signed(v * unit) = v * unit
  BY <1>4, NoWrap
<1>6. ASSUME NEW s, s = stoll(t) \/ (s = stoll(Front(t)) /\ Len(t) = 2)
      PROVE  Times(s, unit) = Yes(v * unit)
  <2>1. s = Yes(v)
    BY <1>6, StollNumeral, FrontOfTwo
  <2>2. s.ok = TRUE /\ s.n = v /\ v >= 0
    BY <2>1, <1>1 DEF Yes
  <2> HIDE DEF v
  <2>3. Times(s, unit) = Yes(Signed(s.n * unit))
    BY <2>2, Zenon DEF Times
  <2> QED
    BY <2>2, <2>3, <1>5
<1>7. CASE Len(t) = 1
  <2>1. Last(t) \notin DOMAIN units /\ IsNumeral(Last(t)) /\ unit = units[default]
    BY <1>7 DEF Last, IsNumeral, UnitIn
  <2>2. Scaled(t, units, default) = Times(stoll(t), units[default])
    BY <1>2, <2>1, Zenon DEF Scaled
  <2>3. Times(stoll(t), unit) = Yes(v * unit)
    BY <1>6, Zenon
  <2> QED
    BY <2>1, <2>2, <2>3, Zenon
<1>8. CASE Len(t) = 2
  <2>1. Last(t) = t[2] /\ t[2] \in DOMAIN units /\ unit = units[t[2]]
    BY <1>8 DEF Last, UnitIn
  <2>2. ~IsNumeral(Last(t))
    BY <2>1 DEF IsNumeral
  <2>3. Scaled(t, units, default) = Times(stoll(Front(t)), units[Last(t)])
    BY <1>2, <2>1, <2>2, Zenon DEF Scaled
  <2>4. Times(stoll(Front(t)), unit) = Yes(v * unit)
    BY <1>6, <1>8, Zenon
  <2> QED
    BY <2>1, <2>3, <2>4, Zenon
<1> QED
  BY <1>7, <1>8

\* So parse_duration and parse_time_ms (src/parse_utils.cpp) are exact.
LEMMA DurationExactly ==
  ASSUME NEW t, Len(t) \in {1, 2}, IsNumeral(t[1]), NEW unit, unit > 0,
         NumeralValue[t[1]] <= (2^(LongBits - 1) - 1) \div unit
  PROVE  /\ unit = UnitIn(t, Seconds) => parse_duration(t) = Yes(NumeralValue[t[1]] * unit)
         /\ unit = UnitIn(t, Milliseconds) => parse_time_ms(t) = Yes(NumeralValue[t[1]] * unit)
<1>1. /\ DOMAIN NumeralValue \cap DOMAIN Seconds = {}
      /\ DOMAIN NumeralValue \cap DOMAIN Milliseconds = {}
  BY NumeralsAssumption
<1>2. ASSUME unit = UnitIn(t, Seconds)
      PROVE  parse_duration(t) = Yes(NumeralValue[t[1]] * unit)
  BY <1>1, <1>2, UnitSizes, ScaledExactly DEF parse_duration
<1>3. ASSUME unit = UnitIn(t, Milliseconds)
      PROVE  parse_time_ms(t) = Yes(NumeralValue[t[1]] * unit)
  BY <1>1, <1>3, UnitSizes, ScaledExactly DEF parse_time_ms
<1> QED
  BY <1>2, <1>3

\* 2^10 and 2^20 as factors, in steps the provers can multiply out.
LEMMA PowerBy5 == ASSUME NEW m \in Nat PROVE 2^(m + 5) = 32 * 2^m
<1>1. ASSUME NEW a \in Nat, NEW b \in Nat, b = a + 1 PROVE 2^b = 2 * 2^a
  BY <1>1, PowerDoubles
<1>2. 2^(m + 1) = 2 * 2^m
  BY PowerDoubles
<1>3. 2^(m + 2) = 2 * 2^(m + 1)
  BY <1>1
<1>4. 2^(m + 3) = 2 * 2^(m + 2)
  BY <1>1
<1>5. 2^(m + 4) = 2 * 2^(m + 3)
  BY <1>1
<1>6. 2^(m + 5) = 2 * 2^(m + 4)
  BY <1>1
<1>7. 2^m \in Nat
  BY PowerPositive
<1> QED
  BY <1>2, <1>3, <1>4, <1>5, <1>6, <1>7

\* Ten and twenty more bits.
LEMMA PowerBy20 ==
  ASSUME NEW m \in Nat
  PROVE  2^(m + 10) = 2^10 * 2^m /\ 2^(m + 20) = 2^20 * 2^m
<1>1. ASSUME NEW a \in Nat, NEW b \in Nat, b = a + 5 PROVE 2^b = 32 * 2^a
  BY <1>1, PowerBy5
<1>2. ASSUME NEW a \in Nat, NEW b \in Nat, b = a + 10 PROVE 2^b = 32 * (32 * 2^a)
  <2>1. 2^(a + 5) = 32 * 2^a
    BY <1>1
  <2>2. 2^b = 32 * 2^(a + 5)
    BY <1>1, <1>2
  <2> QED
    BY <2>1, <2>2
<1>3. 2^0 = 1 /\ 2^m \in Nat /\ 2^10 \in Nat
  BY PowerPositive
<1>4. 2^10 = 32 * (32 * 2^0) /\ 2^(m + 10) = 32 * (32 * 2^m)
  BY <1>2
<1>5. 2^10 = 1024
  BY <1>3, <1>4
<1>6. ASSUME NEW a \in Nat, NEW b \in Nat, b = a + 10 PROVE 2^b = 2^10 * 2^a
  <2>1. 2^a \in Nat /\ 2^b = 32 * (32 * 2^a)
    BY <1>2, <1>6, PowerPositive
  <2> QED
    BY <1>5, <2>1
<1>7. 2^20 = 2^10 * 2^10 /\ 2^(m + 20) = 2^10 * 2^(m + 10)
  BY <1>6
<1>8. 2^(m + 10) = 2^10 * 2^m
  BY <1>6
<1> DEFINE k == 2^10
           x == 2^m
<1>9. k \in Nat /\ x \in Nat /\ 2^20 = k * k /\ 2^(m + 20) = k * (k * x)
  BY <1>3, <1>7, <1>8
<1> HIDE DEF k, x
<1>10. k * (k * x) = (k * k) * x
  BY <1>9
<1>11. 2^(m + 20) = 2^20 * x
  BY <1>9, <1>10
<1> QED
  BY <1>8, <1>11 DEF x

\* The sizes of the units of bytes.
LEMMA ByteUnits == 2^0 = 1 /\ 2^10 \in Nat \ {0} /\ 2^20 \in Nat \ {0}
  BY PowerPositive

\* A shift that keeps every bit.
LEMMA ShiftExactly ==
  ASSUME NEW v \in Nat, NEW e \in {0, 10, 20}, NEW unit, unit = 2^e,
         v <= (2^(LongBits - 1) - 1) \div unit
  PROVE  Shift(v, e) = v * unit
<1> DEFINE half == 2^(LongBits - 1)
<1>1. half \in Nat \ {0} /\ 2^LongBits = 2 * half /\ LongBits \in Nat
  BY Widths, NumbersAssumption
<1>2. unit \in Nat \ {0}
  BY PowerPositive
<1>3. v * unit \in 0..half - 1
  <2> HIDE DEF half
  <2>1. half - 1 \in Nat /\ v <= (half - 1) \div unit
    BY <1>1 DEF half
  <2> QED
    BY <1>2, <2>1, Fits
<1>4. CASE e >= LongBits
  <2>1. 2^LongBits <= 2^e
    BY <1>1, <1>4, PowerMonotone
  <2>2. unit > half
    <3> HIDE DEF half
    <3> QED
      BY <1>1, <2>1, <1>2
  <2>3. v = 0
    <3> HIDE DEF half
    <3>1. CASE v >= 1
      <4>1. v * unit >= unit
        BY <3>1, <1>2
      <4> QED
        BY <4>1, <1>1, <1>2, <1>3, <2>2
    <3> QED
      BY <3>1
  <2> QED
    BY <1>2, <1>4, <2>3 DEF Shift
<1>5. CASE e < LongBits
  <2> DEFINE n == LongBits - e
  <2>1. n \in Nat /\ n + e = LongBits
    BY <1>1, <1>5
  <2>2. 2^n \in Nat \ {0}
    <3> HIDE DEF n
    <3> QED
      BY <2>1, PowerPositive
  <2>3. 2^LongBits = 2^n * unit
    <3> HIDE DEF n
    <3>1. CASE e = 0
      BY <2>1, <2>2, <3>1, ByteUnits
    <3>2. CASE e = 10
      <4>1. 2^(n + 10) = 2^10 * 2^n
        BY <2>1, PowerBy20
      <4> QED
        BY <2>1, <2>2, <3>2, <4>1, ByteUnits
    <3>3. CASE e = 20
      <4>1. 2^(n + 20) = 2^20 * 2^n
        BY <2>1, PowerBy20
      <4> QED
        BY <2>1, <2>2, <3>3, <4>1, ByteUnits
    <3> QED
      BY <3>1, <3>2, <3>3
  <2>4. v < 2^n
    <3> DEFINE b == 2^n
    <3>1. b \in Nat \ {0} /\ 2 * half = b * unit
      BY <1>1, <2>2, <2>3
    <3> HIDE DEF b, half
    <3>2. ASSUME v >= b PROVE FALSE
      <4>1. v * unit >= b * unit
        BY <3>1, <3>2, <1>2
      <4> QED
        BY <4>1, <3>1, <1>1, <1>3
    <3>3. v < b
      BY <3>1, <3>2
    <3> QED
      BY <3>3 DEF b
  <2>5. v % 2^n = v
    <3> DEFINE b == 2^n
    <3>1. b \in Nat \ {0} /\ v < b
      BY <2>2, <2>4
    <3> HIDE DEF b
    <3>2. v % b = v
      BY <3>1
    <3> QED
      BY <3>2 DEF b
  <2> QED
    BY <1>1, <1>5, <2>5 DEF Shift
<1> QED
  BY <1>1, <1>4, <1>5

\* The units of bytes that ValuesAreExact knows.
ByteSizes == [B |-> 1, K |-> 2^10, KB |-> 2^10, M |-> 2^20, MB |-> 2^20]

\* The shift of a unit (unit_multiplier) is that of its size.
LEMMA ByteUnitSizes ==
  ASSUME NEW x \in DOMAIN ByteSizes
  PROVE  /\ x \in DOMAIN unit_multiplier
         /\ unit_multiplier[x] \in {0, 10, 20}
         /\ ByteSizes[x] = 2^unit_multiplier[x]
<1>1. x \in {"B", "K", "KB", "M", "MB"}
  BY DEF ByteSizes
<1>2. CASE x = "B"
  BY <1>2, ByteUnits DEF ByteSizes, unit_multiplier
<1>3. CASE x \in {"K", "KB"}
  <2>1. x \in DOMAIN unit_multiplier /\ unit_multiplier[x] = 10
    BY <1>3 DEF unit_multiplier
  <2>2. ByteSizes[x] = 2^10
    BY <1>3 DEF ByteSizes
  <2> QED
    BY <2>1, <2>2
<1>4. CASE x \in {"M", "MB"}
  <2>1. x \in DOMAIN unit_multiplier /\ unit_multiplier[x] = 20
    BY <1>4 DEF unit_multiplier
  <2>2. ByteSizes[x] = 2^20
    BY <1>4 DEF ByteSizes
  <2> QED
    BY <2>1, <2>2
<1> QED
  BY <1>1, <1>2, <1>3, <1>4

\* So parse_bytes (src/parse_utils.cpp) is exact.
LEMMA BytesExactly ==
  ASSUME NEW t, Len(t) \in {1, 2}, IsNumeral(t[1]),
         NEW unit, unit = UnitIn(t, ByteSizes), unit > 0,
         NumeralValue[t[1]] <= (2^(LongBits - 1) - 1) \div unit
  PROVE  parse_bytes(t) = Yes(NumeralValue[t[1]] * unit)
<1> DEFINE v == NumeralValue[t[1]]
<1>1. v \in Nat /\ v \in 0..2^(LongBits - 1) - 1
  BY Widths, NumbersAssumption DEF IsNumeral
<1>2. t # <<>>
  OBVIOUS
<1>3. stoull(t) = Yes(v)
  <2>1. stoll(t) = Yes(v)
    BY StollNumeral
  <2>2. Unsigned(v) = v
    BY <1>1, NoWrap
  <2> HIDE DEF v
  <2>3. Yes(v).ok = TRUE /\ Yes(v).n = v
    BY DEF Yes
  <2> QED
    BY <2>1, <2>2, <2>3 DEF stoull
<1>4. ASSUME NEW e \in {0, 10, 20}, unit = 2^e PROVE Sized(stoull(t), e) = Yes(v * unit)
  <2>1. Shift(v, e) = v * unit
    BY <1>1, <1>4, ShiftExactly
  <2> HIDE DEF v
  <2>2. Yes(v).ok = TRUE /\ Yes(v).n = v
    BY DEF Yes
  <2>3. Sized(Yes(v), e) = Yes(Shift(v, e))
    BY <2>2 DEF Sized
  <2> QED
    BY <1>3, <2>1, <2>3
<1>5. ASSUME NEW atom, IsNumeral(atom) PROVE atom \notin DOMAIN unit_multiplier
  BY <1>5, NumeralsAssumption DEF IsNumeral
<1>6. CASE Len(t) = 1
  <2>1. IsNumeral(Last(t)) /\ unit = 1
    BY <1>6 DEF Last, UnitIn
  <2>2. parse_bytes(t) = Sized(stoull(t), unit_multiplier["B"])
    BY <1>2, <1>5, <2>1, Zenon DEF parse_bytes
  <2>3. unit_multiplier["B"] = 0
    BY DEF unit_multiplier
  <2> QED
    BY <1>4, <2>1, <2>2, <2>3, ByteUnits
<1>7. CASE Len(t) = 2
  <2>1. Last(t) = t[2] /\ t[2] \in DOMAIN ByteSizes /\ unit = ByteSizes[t[2]]
    BY <1>7 DEF Last, UnitIn
  <2>2. /\ Last(t) \in DOMAIN unit_multiplier
        /\ unit_multiplier[Last(t)] \in {0, 10, 20}
        /\ unit = 2^unit_multiplier[Last(t)]
    BY <2>1, ByteUnitSizes
  <2>3. ~IsNumeral(Last(t))
    BY <1>5, <2>2
  <2>4. parse_bytes(t) = Sized(stoull(t), unit_multiplier[Last(t)])
    BY <1>2, <2>2, <2>3, Zenon DEF parse_bytes
  <2> QED
    BY <1>4, <2>2, <2>4
<1> QED
  BY <1>6, <1>7

\* A number within bounds.
LEMMA BoundedExactly ==
  ASSUME NEW n \in Int, NEW min \in Int, NEW max \in Int
  PROVE  Bounded(Yes(n), min, max) = IF n \in min..max THEN Yes(n) ELSE No
<1>1. Yes(n).ok = TRUE /\ Yes(n).n = n
  BY DEF Yes
<1> QED
  BY <1>1 DEF Bounded

\* What the options read, by their rules.
LEMMA Rules ==
  ASSUME NEW k, NEW t
  PROVE  /\ k \in {"max-runtime", "pull-timeout", "interval"} =>
              ReadNumber(k, t) = Bounded(parse_duration(t), 1, IntMax)
         /\ k \in {"cpu-poll", "mem-poll", "thread-poll"} =>
              ReadNumber(k, t) = Bounded(parse_duration(t), 1, UIntMax)
         /\ k = "updated-since" => ReadNumber(k, t) = parse_duration(t)
         /\ k = "respawn-delay" => ReadNumber(k, t) = Bounded(parse_time_ms(t), 0, 2^LongBits)
         /\ k = "refresh-rate" => ReadNumber(k, t) = Bounded(parse_time_ms(t), 1, 2^LongBits)
         /\ k = "respawn-limit" =>
              ReadNumber(k, t) = IF RespawnWindow(t).ok THEN RespawnMax(t) ELSE No
         /\ k \in SwitchNumbers => ReadNumber(k, t) = parse_int(t, 1, IntMax)
         /\ k = "syslog-facility" => ReadNumber(k, t) = parse_int(t, 0, IntMax)
         /\ k = "depth" => ReadNumber(k, t) = parse_uint(t, 0, UIntMax)
         /\ k = "cpu-cores" => ReadNumber(k, t) = parse_ull(t)
         /\ k \in {"max-threads", "max-depth", "dump-large"} => ReadNumber(k, t) = parse_size_t(t, 0)
         /\ k \in ThreadNumbers => ReadNumber(k, t) = PoolSize(t)
         /\ k \in {"max-log-size", "total-traffic-limit"} => ReadNumber(k, t) = parse_bytes(t)
         /\ k = "mem-limit" => ReadNumber(k, t) = Divided(parse_bytes(t), 2^20)
         /\ k \in {"download-limit", "upload-limit", "disk-limit"} =>
              ReadNumber(k, t) = Divided(parse_bytes(t), 2^10)
  BY DEF ReadNumber, SwitchNumbers, ThreadNumbers

\* The largest long long.
Widest == 2^(LongBits - 1) - 1

\* And what ValuesAreExact expects of them.
LEMMA Bounds ==
  ASSUME NEW k
  PROVE  /\ k \in {"max-runtime", "pull-timeout", "interval"} =>
              UnitsOf(k) = Seconds /\ LeastOf(k) = 1 /\ MostOf(k) = IntMax /\ CountedIn(k) = 1
         /\ k \in {"cpu-poll", "mem-poll", "thread-poll"} =>
              UnitsOf(k) = Seconds /\ LeastOf(k) = 1 /\ MostOf(k) = UIntMax /\ CountedIn(k) = 1
         /\ k = "updated-since" =>
              UnitsOf(k) = Seconds /\ LeastOf(k) = 0 /\ MostOf(k) = Widest /\ CountedIn(k) = 1
         /\ k = "respawn-delay" =>
              UnitsOf(k) = Milliseconds /\ LeastOf(k) = 0 /\ MostOf(k) = Widest /\ CountedIn(k) = 1
         /\ k = "refresh-rate" =>
              UnitsOf(k) = Milliseconds /\ LeastOf(k) = 1 /\ MostOf(k) = Widest /\ CountedIn(k) = 1
         /\ k \in SwitchNumbers \cup {"respawn-limit"} =>
              UnitsOf(k) = [none |-> 1] /\ LeastOf(k) = 1 /\ MostOf(k) = IntMax /\ CountedIn(k) = 1
         /\ k = "syslog-facility" =>
              UnitsOf(k) = [none |-> 1] /\ LeastOf(k) = 0 /\ MostOf(k) = IntMax /\ CountedIn(k) = 1
         /\ k = "depth" =>
              UnitsOf(k) = [none |-> 1] /\ LeastOf(k) = 0 /\ MostOf(k) = UIntMax /\ CountedIn(k) = 1
         /\ k \in {"cpu-cores", "max-threads", "max-depth", "dump-large"} =>
              UnitsOf(k) = [none |-> 1] /\ LeastOf(k) = 0 /\ MostOf(k) = Widest /\ CountedIn(k) = 1
         /\ k \in ThreadNumbers =>
              UnitsOf(k) = [none |-> 1] /\ LeastOf(k) = 1 /\ MostOf(k) = Widest /\ CountedIn(k) = 1
         /\ k \in {"max-log-size", "total-traffic-limit"} =>
              UnitsOf(k) = ByteSizes /\ LeastOf(k) = 0 /\ MostOf(k) = Widest /\ CountedIn(k) = 1
         /\ k = "mem-limit" =>
              UnitsOf(k) = ByteSizes /\ LeastOf(k) = 0 /\ MostOf(k) = Widest /\ CountedIn(k) = 2^20
         /\ k \in {"download-limit", "upload-limit", "disk-limit"} =>
              UnitsOf(k) = ByteSizes /\ LeastOf(k) = 0 /\ MostOf(k) = Widest /\ CountedIn(k) = 2^10
  BY DEF UnitsOf, LeastOf, MostOf, CountedIn, DurationOptions, ByteOptions, ThreadNumbers,
         SwitchNumbers, ByteSizes, Widest

\* A check of bounds is the verdict ValuesAreExact expects, if the bounds are the same.
LEMMA Verdict ==
  ASSUME NEW k, NEW n \in Int, NEW min \in Int, NEW max \in Int, CountedIn(k) = 1,
         n \in LeastOf(k)..MostOf(k) <=> n \in min..max
  PROVE  Bounded(Yes(n), min, max) = Exactly(k, n)
<1>1. n \div 1 = n
  OBVIOUS
<1>2. Exactly(k, n) = IF n \in min..max THEN Yes(n) ELSE No
  BY <1>1 DEF Exactly
<1> QED
  BY <1>2, BoundedExactly

\* So is a value nothing refuses, in whatever unit it is kept.
LEMMA Accepted ==
  ASSUME NEW k, NEW n \in Int, NEW d \in Nat \ {0}, CountedIn(k) = d, n \in LeastOf(k)..MostOf(k)
  PROVE  Exactly(k, n) = Divided(Yes(n), d) /\ (d = 1 => Exactly(k, n) = Yes(n))
<1>1. Exactly(k, n) = Yes(n \div d)
  BY Zenon DEF Exactly
<1>2. Divided(Yes(n), d) = Yes(n \div d)
  <2>1. Yes(n).ok = TRUE /\ Yes(n).n = n
    BY DEF Yes
  <2>2. Divided(Yes(n), d) = [ok |-> TRUE, n |-> n \div d]
    BY <2>1, Zenon DEF Divided
  <2> QED
    BY <2>2, Zenon DEF Yes
<1>3. d = 1 => n \div d = n
  OBVIOUS
<1> QED
  BY <1>1, <1>2, <1>3, Zenon

\* The conversions without a unit.
LEMMA PlainNumeral ==
  ASSUME NEW t, Len(t) \in {1, 2}, IsNumeral(t[1]), NEW v, v = NumeralValue[t[1]]
  PROVE  /\ v \in 0..Widest
         /\ stoll(t) = Yes(v) /\ stoull(t) = Yes(v)
         /\ Bounded(stoll(t), -IntMax - 1, IntMax) = IF v <= IntMax THEN Yes(v) ELSE No
<1>1. v \in 0..Widest /\ v \in Int
  BY Widths, NumbersAssumption DEF IsNumeral, Widest
<1>2. stoll(t) = Yes(v)
  BY StollNumeral
<1>3. Unsigned(v) = v
  BY <1>1, NoWrap DEF Widest
<1>4. Yes(v).ok = TRUE /\ Yes(v).n = v
  BY DEF Yes
<1>5. stoull(t) = Yes(v)
  BY <1>2, <1>3, <1>4 DEF stoull
<1>6. IntMax \in Nat
  BY NumbersAssumption, Widths
<1>7. Bounded(stoll(t), -IntMax - 1, IntMax) = IF v <= IntMax THEN Yes(v) ELSE No
  BY <1>1, <1>2, <1>4, <1>6 DEF Bounded, Widest
<1> QED
  BY <1>1, <1>2, <1>5, <1>7

\* parse_int narrows to int before it compares with its bounds; the bounds are narrower.
LEMMA IntExactly ==
  ASSUME NEW t, Len(t) \in {1, 2}, IsNumeral(t[1]), NEW v, v = NumeralValue[t[1]],
         NEW min \in {0, 1}
  PROVE  parse_int(t, min, IntMax) = Bounded(Yes(v), min, IntMax)
<1>1. v \in Int /\ IntMax \in Nat
  BY NumbersAssumption, Widths DEF IsNumeral
<1>2. Bounded(stoll(t), -IntMax - 1, IntMax) = IF v <= IntMax THEN Yes(v) ELSE No
  BY PlainNumeral
<1>3. Yes(v).ok = TRUE /\ Yes(v).n = v /\ No.ok = FALSE
  BY DEF Yes, No
<1>4. parse_int(t, min, IntMax) = Bounded(IF v <= IntMax THEN Yes(v) ELSE No, min, IntMax)
  BY <1>2 DEF parse_int
<1>5. CASE v <= IntMax
  BY <1>4, <1>5
<1>6. CASE v > IntMax
  <2>1. Bounded(No, min, IntMax) = No /\ Bounded(Yes(v), min, IntMax) = No
    BY <1>1, <1>3, <1>6 DEF Bounded
  <2> QED
    BY <1>1, <1>4, <1>6, <2>1
<1> QED
  BY <1>1, <1>5, <1>6

\* The positions of a text of one or two atoms.
LEMMA OneOrTwo ==
  ASSUME NEW n \in {1, 2}, NEW i \in 1..n
  PROVE  i = 1 \/ (i = 2 /\ n = 2)
  OBVIOUS

\* Every rule of ReadNumber, with every numeral and every unit.
LEMMA ReadsExactly ==
  ASSUME NEW k \in (Numerical \cup ThreadNumbers) \ {"cpu-percent"}, NEW t
  PROVE  ReadExactly(k, t, UnitIn(t, UnitsOf(k)))
<1> DEFINE u == UnitIn(t, UnitsOf(k))
           v == NumeralValue[t[1]]
<1> SUFFICES ASSUME Len(t) \in {1, 2}, u > 0, IsNumeral(t[1]), v <= Widest \div u,
                    k = "cpu-cores" => t[1] \notin DOMAIN BaseZero
             PROVE  ReadNumber(k, t) = Exactly(k, v * u)
  BY DEF ReadExactly, Widest
<1>1. /\ IntMax \in 1..Widest /\ UIntMax \in 1..Widest /\ Widest \in Nat
      /\ 2^LongBits \in Int /\ Widest < 2^LongBits - 1
  BY NumbersAssumption, Widths DEF Widest
<1>2. v \in 0..Widest
  BY PlainNumeral
<1>3. u \in Nat => v * u \in 0..Widest
  <2> SUFFICES ASSUME u \in Nat PROVE v * u \in 0..Widest
    OBVIOUS
  <2> HIDE DEF u, v
  <2>1. u \in Nat \ {0} /\ v \in Nat
    BY <1>2
  <2> QED
    BY <1>1, <2>1, Fits
<1>4. CASE k \in {"max-runtime", "pull-timeout", "interval", "cpu-poll", "mem-poll",
                  "thread-poll", "updated-since"}
  <2>0. UnitsOf(k) = Seconds
    BY <1>4, Bounds
  <2>1. parse_duration(t) = Yes(v * u)
    BY <2>0, DurationExactly DEF Widest
  <2>2. u \in Nat
    BY <2>0, UnitSizes DEF UnitIn
  <2> DEFINE n == v * u
  <2>3. n \in 0..Widest /\ n \in Int
    BY <1>3, <2>2
  <2> HIDE DEF n, u, v
  <2>4. CASE k \in {"max-runtime", "pull-timeout", "interval"}
    <3>1. CountedIn(k) = 1 /\ (n \in LeastOf(k)..MostOf(k) <=> n \in 1..IntMax)
      BY <2>4, Bounds
    <3>2. Bounded(Yes(n), 1, IntMax) = Exactly(k, n)
      BY <1>1, <2>3, <3>1, Verdict
    <3> QED
      BY <2>1, <2>4, <3>2, Rules DEF n
  <2>5. CASE k \in {"cpu-poll", "mem-poll", "thread-poll"}
    <3>1. CountedIn(k) = 1 /\ (n \in LeastOf(k)..MostOf(k) <=> n \in 1..UIntMax)
      BY <2>5, Bounds
    <3>2. Bounded(Yes(n), 1, UIntMax) = Exactly(k, n)
      BY <1>1, <2>3, <3>1, Verdict
    <3> QED
      BY <2>1, <2>5, <3>2, Rules DEF n
  <2>6. CASE k = "updated-since"
    <3>1. CountedIn(k) = 1 /\ n \in LeastOf(k)..MostOf(k)
      BY <2>3, <2>6, Bounds
    <3>2. Yes(n) = Exactly(k, n)
      BY <2>3, <3>1, Accepted
    <3> QED
      BY <2>1, <2>6, <3>2, Rules DEF n
  <2> QED
    BY <1>4, <2>4, <2>5, <2>6 DEF n
<1>5. CASE k \in {"respawn-delay", "refresh-rate"}
  <2>0. UnitsOf(k) = Milliseconds
    BY <1>5, Bounds
  <2>1. parse_time_ms(t) = Yes(v * u)
    BY <2>0, DurationExactly DEF Widest
  <2>2. u \in Nat
    BY <2>0, UnitSizes DEF UnitIn
  <2> DEFINE n == v * u
  <2>3. n \in 0..Widest /\ n \in Int
    BY <1>3, <2>2
  <2> HIDE DEF n, u, v
  <2>4. ASSUME NEW least \in {0, 1}, LeastOf(k) = least
        PROVE  Bounded(Yes(n), least, 2^LongBits) = Exactly(k, n)
    <3>1. CountedIn(k) = 1 /\ MostOf(k) = Widest
      BY <1>5, Bounds
    <3>2. n \in LeastOf(k)..MostOf(k) <=> n \in least..2^LongBits
      BY <1>1, <2>3, <2>4, <3>1
    <3> QED
      BY <1>1, <2>3, <3>1, <3>2, Verdict
  <2>5. CASE k = "respawn-delay"
    <3>1. LeastOf(k) = 0 /\ ReadNumber(k, t) = Bounded(parse_time_ms(t), 0, 2^LongBits)
      BY <2>5, Bounds, Rules
    <3> QED
      BY <2>1, <2>4, <3>1 DEF n
  <2>6. CASE k = "refresh-rate"
    <3>1. LeastOf(k) = 1 /\ ReadNumber(k, t) = Bounded(parse_time_ms(t), 1, 2^LongBits)
      BY <2>6, Bounds, Rules
    <3> QED
      BY <2>1, <2>4, <3>1 DEF n
  <2> QED
    BY <1>5, <2>5, <2>6
<1>6. CASE k \in SwitchNumbers \cup ThreadNumbers
                \cup {"respawn-limit", "syslog-facility", "depth", "cpu-cores", "max-threads",
                      "max-depth", "dump-large"}
  <2>0. UnitsOf(k) = [none |-> 1]
    BY <1>6, Bounds
  <2>1. u = 1
    BY <2>0 DEF UnitIn
  <2>2. v * u = v
    <3> HIDE DEF u, v
    <3> QED
      BY <1>2, <2>1
  <2>3. t[1] # "," /\ (Len(t) = 2 => t[2] # ",")
    BY <2>0, <2>1, NumeralsAssumption DEF IsNumeral, UnitIn
  <2>4. /\ stoull(t) = Yes(v)
        /\ \A min \in {0, 1} : parse_int(t, min, IntMax) = Bounded(Yes(v), min, IntMax)
    BY PlainNumeral, IntExactly
  <2> HIDE DEF u, v
  <2>5. ASSUME NEW min \in {0, 1}, NEW max \in Int, CountedIn(k) = 1, LeastOf(k) = min,
               MostOf(k) = max \/ (MostOf(k) = Widest /\ max >= Widest)
        PROVE  Bounded(Yes(v), min, max) = Exactly(k, v)
    <3>1. v \in LeastOf(k)..MostOf(k) <=> v \in min..max
      BY <1>1, <1>2, <2>5
    <3> QED
      BY <1>2, <2>5, <3>1, Verdict
  <2>6. CASE k \in SwitchNumbers
    BY <1>1, <2>2, <2>4, <2>5, <2>6, Rules, Bounds
  <2>7. CASE k \in ThreadNumbers
    BY <1>1, <2>2, <2>4, <2>5, <2>7, Rules, Bounds DEF PoolSize, parse_size_t
  <2>8. CASE k = "respawn-limit"
    <3>0. ASSUME NEW i \in 1..Len(t) PROVE t[i] # ","
      <4>1. i = 1 \/ (i = 2 /\ Len(t) = 2)
        BY OneOrTwo
      <4> QED
        BY <2>3, <4>1, Zenon
    <3>1. FirstComma(t) = 0
      <4>1. Commas(t) = {}
        BY <3>0, Zenon DEF Commas
      <4> QED
        BY <4>1, Zenon DEF FirstComma
    <3>2. ReadNumber(k, t) = parse_int(t, 1, IntMax)
      BY <2>8, <3>1, Rules DEF RespawnWindow, RespawnMax, Yes
    <3> QED
      BY <1>1, <2>2, <2>4, <2>5, <2>8, <3>2, Bounds
  <2>9. CASE k = "syslog-facility"
    BY <1>1, <2>2, <2>4, <2>5, <2>9, Rules, Bounds
  <2>10. CASE k = "depth"
    BY <1>1, <2>2, <2>4, <2>5, <2>10, Rules, Bounds DEF parse_uint
  <2>11. CASE k = "cpu-cores"
    <3>1. CountedIn(k) = 1 /\ v \in LeastOf(k)..MostOf(k)
      BY <1>2, <2>11, Bounds
    <3>2. Yes(v) = Exactly(k, v)
      BY <1>2, <3>1, Accepted
    <3>3. t[1] # "-"
      BY NumeralsAssumption DEF IsNumeral
    <3>4. parse_ull(t) = stoull(t)
      BY <2>11, <3>3, Zenon DEF parse_ull
    <3> QED
      BY <2>2, <2>4, <2>11, <3>2, <3>4, Rules
  <2>12. CASE k \in {"max-threads", "max-depth", "dump-large"}
    BY <1>1, <2>2, <2>4, <2>5, <2>12, Rules, Bounds DEF parse_size_t
  <2> QED
    BY <1>6, <2>6, <2>7, <2>8, <2>9, <2>10, <2>11, <2>12
<1>7. CASE k \in {"max-log-size", "total-traffic-limit", "mem-limit", "download-limit",
                  "upload-limit", "disk-limit"}
  <2>0. UnitsOf(k) = ByteSizes
    BY <1>7, Bounds
  <2>1. parse_bytes(t) = Yes(v * u)
    BY <2>0, BytesExactly DEF Widest
  <2>2. u \in Nat
    BY <2>0, ByteUnits DEF UnitIn, ByteSizes
  <2> DEFINE n == v * u
  <2>3. n \in 0..Widest /\ n \in Int
    BY <1>3, <2>2
  <2> HIDE DEF n, u, v
  <2>4. n \in LeastOf(k)..MostOf(k)
    BY <1>7, <2>3, Bounds
  <2>5. CASE k \in {"max-log-size", "total-traffic-limit"}
    <3>1. Yes(n) = Exactly(k, n)
      BY <2>3, <2>4, <2>5, Bounds, Accepted
    <3> QED
      BY <2>1, <2>5, <3>1, Rules DEF n
  <2>6. CASE k = "mem-limit"
    <3>1. Divided(Yes(n), 2^20) = Exactly(k, n)
      BY <2>3, <2>4, <2>6, Bounds, Accepted, ByteUnits
    <3> QED
      BY <2>1, <2>6, <3>1, Rules DEF n
  <2>7. CASE k \in {"download-limit", "upload-limit", "disk-limit"}
    <3>1. Divided(Yes(n), 2^10) = Exactly(k, n)
      BY <2>3, <2>4, <2>7, Bounds, Accepted, ByteUnits
    <3> QED
      BY <2>1, <2>7, <3>1, Rules DEF n
  <2> QED
    BY <1>7, <2>5, <2>6, <2>7
<1> QED
  BY <1>4, <1>5, <1>6, <1>7 DEF Numerical, FallbackNumbers, LayeredNumbers

\* Of every number option, for every width of long long and of int and every numeral: a
\* numeral alone or with a unit of the option's table, whose value a long long can hold,
\* is accepted exactly within the option's bounds and then kept as exactly its value
\* (parse_int, parse_uint, parse_size_t, parse_bytes, parse_duration, parse_time_ms in
\* src/parse_utils.cpp): no shift drops a bit, no product wraps, no unit is cut off.
THEOREM ValuesExact == Spec => []ValuesAreExact
<1>1. ValuesAreExact
  BY ReadsExactly DEF ValuesAreExact, EachReadExactly
<1> QED
  BY <1>1, PTL

-----------------------------------------------------------------------------
(***************************************************************************)
(* The list of repositories.  The parser puts the options in a row         *)
(* (FlattenSeq, by induction over the words), so the roots are finitely    *)
(* many; the entries found below them, in whatever order, are the list.    *)
(***************************************************************************)
\* What FlattenSeq has put in a row after each of the rows (FlattenSeq chooses the
\* function its equation describes: there is one up to every length).
Unrolls(f, seqs) ==
  /\ FlattenSeq(seqs) = f[Len(seqs)]
  /\ \A i \in 1..Len(seqs) : f[i] = IF i = 1 THEN seqs[i] ELSE f[i - 1] \o seqs[i]

\* There is such a function, by induction over the rows.
LEMMA FlattenEquation ==
  ASSUME NEW seqs, Len(seqs) \in Nat \ {0}
  PROVE  \E f : Unrolls(f, seqs)
<1> DEFINE n == Len(seqs)
           Step(g, i) == IF i = 1 THEN seqs[i] ELSE g[i - 1] \o seqs[i]
           Solves(g, m) == g = [i \in 1..m |-> Step(g, i)]
           Good == {m \in Nat : m <= n => \E g : Solves(g, m)}
           f == CHOOSE g : Solves(g, n)
<1>1. 0 \in Good
  <2> DEFINE g == [i \in 1..0 |-> i]
  <2>1. 1..0 = {}
    OBVIOUS
  <2> HIDE DEF Step, g
  <2>2. ASSUME NEW i \in 1..0 PROVE i = Step(g, i)
    BY <2>1, <2>2
  <2>3. Solves(g, 0)
    BY <2>2, Zenon DEF g
  <2> QED
    BY <2>3
<1>2. ASSUME NEW m \in Good PROVE m + 1 \in Good
  <2>0. m \in Nat /\ m + 1 \in Nat
    OBVIOUS
  <2>1. ASSUME m + 1 <= n PROVE \E g : Solves(g, m + 1)
    <3>1. PICK g : Solves(g, m)
      <4> HIDE DEF Solves
      <4>1. m \in Good /\ m <= n
        BY <2>0, <2>1
      <4> QED
        BY <4>1, Zenon DEF Good
    <3> DEFINE h == [i \in 1..(m + 1) |-> IF i <= m THEN g[i] ELSE Step(g, i)]
    <3>2. ASSUME NEW i \in 1..(m + 1) PROVE h[i] = Step(h, i)
      <4>1. i \in Nat /\ (i <= m => i \in 1..m) /\ (i # 1 => i - 1 \in 1..m)
        BY <2>0
      <4>2. i # 1 => h[i - 1] = g[i - 1]
        BY <4>1
      <4>3. CASE i <= m
        <5>1. g[i] = Step(g, i)
          BY <3>1, <4>1, <4>3
        <5> QED
          BY <4>2, <4>3, <5>1
      <4>4. CASE ~(i <= m)
        BY <4>2, <4>4
      <4> QED
        BY <4>3, <4>4
    <3>3. Solves(h, m + 1)
      BY <3>2
    <3> QED
      BY <3>3
  <2> HIDE DEF Solves
  <2> QED
    BY <2>0, <2>1, Zenon DEF Good
<1>3. \E g : Solves(g, n)
  <2> HIDE DEF Solves
  <2>1. n \in Good /\ n <= n
    <3> HIDE DEF Good
    <3>1. Good = Nat
      BY <1>1, <1>2, Induction DEF Good
    <3> QED
      BY <3>1
  <2> QED
    BY <2>1, Zenon DEF Good
<1>4. Solves(f, n)
  BY <1>3
<1>5. FlattenSeq(seqs) = f[n]
  <2>1. n # 0
    OBVIOUS
  <2> QED
    BY <2>1, Zenon DEF FlattenSeq
<1> HIDE DEF f
<1>6. \A i \in 1..n : f[i] = Step(f, i)
  BY <1>4
<1> QED
  BY <1>5, <1>6 DEF Unrolls

\* Rows put one after the other are a row.
LEMMA FlattenIsSequence ==
  ASSUME NEW S, NEW seqs \in Seq(Seq(S))
  PROVE  FlattenSeq(seqs) \in Seq(S)
<1> DEFINE n == Len(seqs)
<1>1. n \in Nat /\ \A i \in 1..n : seqs[i] \in Seq(S)
  OBVIOUS
<1>2. CASE n = 0
  <2>1. seqs = <<>> /\ <<>> \in Seq(S)
    BY <1>2
  <2> QED
    BY <1>2, <2>1 DEF FlattenSeq
<1>3. CASE n # 0
  <2>1. PICK f : /\ FlattenSeq(seqs) = f[n]
                 /\ \A i \in 1..n : f[i] = IF i = 1 THEN seqs[i] ELSE f[i - 1] \o seqs[i]
    <3>1. PICK f : Unrolls(f, seqs)
      BY <1>1, <1>3, FlattenEquation
    <3> QED
      BY <3>1, Zenon DEF Unrolls
  <2> HIDE DEF n
  <2> DEFINE Good == {m \in Nat : m + 1 <= n => f[m + 1] \in Seq(S)}
  <2>2. 0 \in Good
    BY <1>1, <1>3, <2>1
  <2>3. ASSUME NEW m \in Good PROVE m + 1 \in Good
    <3> SUFFICES ASSUME m + 2 <= n PROVE f[m + 2] \in Seq(S)
      OBVIOUS
    <3>1. m \in Nat /\ m + 2 \in 1..n /\ m + 2 # 1 /\ (m + 2) - 1 = m + 1
      BY <1>1
    <3>2. f[m + 2] = f[m + 1] \o seqs[m + 2]
      BY <2>1, <3>1
    <3> QED
      BY <1>1, <3>1, <3>2
  <2> HIDE DEF Good
  <2>4. Good = Nat
    BY <2>2, <2>3, Induction DEF Good
  <2>5. n - 1 \in Good /\ (n - 1) + 1 = n
    BY <1>1, <1>3, <2>4
  <2>6. f[n] \in Seq(S)
    BY <2>5 DEF Good
  <2> QED
    BY <2>1, <2>6 DEF n
<1> QED
  BY <1>2, <1>3

\* No word says nothing, and one option is a row of options.
LEMMA RangeOfOne ==
  /\ <<>> \in Seq(Range(<<>>))
  /\ \A x : <<x>> \in Seq(Range(<<x>>))
<1>1. ASSUME NEW x PROVE <<x>> \in Seq(Range(<<x>>))
  <2>1. x \in Range(<<x>>)
    BY DEF Range
  <2> QED
    BY <2>1
<1> QED
  BY <1>1

\* What a word of letters says is a row of options.
LEMMA ShortSaysInARow ==
  ASSUME NEW a, NEW i, a[i].letters \in Seq(Range(a[i].letters)), NEW short
  PROVE  ShortSays(a, i, short) \in Seq(Range(ShortSays(a, i, short)))
<1> DEFINE arg == a[i]
           letters == arg.letters
           last == Mapped(arg, short)
           say(j) == ShortSays(a, i, short)[j]
<1>1. Len(letters) \in Nat /\ DOMAIN letters = 1..Len(letters)
  OBVIOUS
<1>2. last \in Nat
  <2> DEFINE unmapped == {j \in DOMAIN letters : letters[j] \notin DOMAIN short}
  <2>1. last = IF unmapped = {} THEN Len(letters) ELSE Min(unmapped) - 1
    BY DEF Mapped
  <2>2. unmapped \subseteq 1..Len(letters) /\ 1..Len(letters) \subseteq Nat \ {0}
    BY <1>1
  <2> HIDE DEF unmapped
  <2>3. unmapped # {} => Min(unmapped) \in unmapped
    BY <2>2, MinFacts
  <2>4. unmapped # {} => Min(unmapped) \in Nat \ {0}
    BY <2>2, <2>3
  <2>5. unmapped # {} => Min(unmapped) - 1 \in Nat
    BY <2>4
  <2> QED
    BY <1>1, <2>1, <2>5, Zenon
<1>3. \/ ShortSays(a, i, short) = <<Flag(Head(letters))>>
      \/ \E n \in Nat : ShortSays(a, i, short) = [j \in 1..n |-> say(j)]
  <2> HIDE DEF last
  <2> QED
    BY <1>2 DEF ShortSays, last
<1>4. CASE ShortSays(a, i, short) = <<Flag(Head(letters))>>
  BY <1>4, RangeOfOne
<1>5. ASSUME NEW n \in Nat, ShortSays(a, i, short) = [j \in 1..n |-> say(j)]
      PROVE  ShortSays(a, i, short) \in Seq(Range(ShortSays(a, i, short)))
  <2> DEFINE s == ShortSays(a, i, short)
  <2> HIDE DEF s
  <2>1. s = [j \in 1..n |-> s[j]]
    BY <1>5 DEF s
  <2>2. \A j \in 1..n : s[j] \in Range(s)
    BY <2>1 DEF Range
  <2>3. s \in Seq(Range(s))
    BY <2>1, <2>2
  <2> QED
    BY <2>3 DEF s
<1> QED
  BY <1>3, <1>4, <1>5

\* What the word at i says.
SaidAt(a, read, i, short) ==
  IF ~read[i] \/ a[i].form = "word" THEN <<>>
  ELSE IF a[i].form = "long" THEN LongSays(a, i, short)
  ELSE ShortSays(a, i, short)

\* It is a row of options, whatever the form of the word.
LEMMA SaidInARow ==
  ASSUME NEW a, IsCommandLine(a), NEW read, NEW i \in DOMAIN a, NEW short
  PROVE  SaidAt(a, read, i, short) \in Seq(Range(SaidAt(a, read, i, short)))
<1>1. <<>> \in Seq(Range(<<>>)) /\ \A x : <<x>> \in Seq(Range(<<x>>))
  BY RangeOfOne
<1>2. LongSays(a, i, short) \in Seq(Range(LongSays(a, i, short)))
  BY <1>1, Zenon DEF LongSays
<1>3. a[i].form = "short" => ShortSays(a, i, short) \in Seq(Range(ShortSays(a, i, short)))
  BY ShortSaysInARow DEF IsCommandLine
<1>4. a[i].form \in {"word", "long", "short"}
  BY DEF IsCommandLine
<1> QED
  BY <1>1, <1>2, <1>3, <1>4, Zenon DEF SaidAt

\* So is what a whole command line says.
LEMMA SaysIsSequence ==
  ASSUME NEW a, IsCommandLine(a), NEW read, NEW short
  PROVE  \E S : Says(a, read, short) \in Seq(S)
<1> DEFINE said(i) == SaidAt(a, read, i, short)
           S == UNION {Range(said(i)) : i \in DOMAIN a}
           all == [i \in DOMAIN a |-> said(i)]
<1>1. a \in Seq(Range(a)) /\ DOMAIN a = 1..Len(a) /\ Len(a) \in Nat
  BY DEF IsCommandLine
<1>2. ASSUME NEW i \in DOMAIN a PROVE said(i) \in Seq(S)
  <2>1. said(i) \in Seq(Range(said(i)))
    BY SaidInARow
  <2>2. Range(said(i)) \subseteq S
    BY <1>2
  <2> HIDE DEF said, S
  <2> QED
    BY <2>1, <2>2
<1>3. all \in Seq(Seq(S))
  <2> HIDE DEF said, S
  <2> QED
    BY <1>1, <1>2
<1>4. Says(a, read, short) = FlattenSeq(all)
  BY Zenon DEF Says, SaidAt
<1> HIDE DEF all, S
<1>5. FlattenSeq(all) \in Seq(S)
  BY <1>3, FlattenIsSequence
<1> QED
  BY <1>4, <1>5

\* A finite set in some order has each of its elements in one place.
LEMMA SetInOrder ==
  ASSUME NEW S, IsFiniteSet(S), NEW order, order = SetToSeq(S)
  PROVE  /\ DOMAIN order = 1..Cardinality(S) /\ Cardinality(S) \in Nat
         /\ \A i \in DOMAIN order : order[i] \in S
         /\ \A i, j \in DOMAIN order : order[i] = order[j] => i = j
<1>1. Cardinality(S) \in Nat /\ ExistsBijection(1..Cardinality(S), S)
  BY FS_CardinalityType
<1>2. \E f \in [1..Cardinality(S) -> S] : IsInjective(f)
  BY <1>1 DEF ExistsBijection, Bijection, Injection, IsInjective
<1>3. order \in [1..Cardinality(S) -> S] /\ IsInjective(order)
  BY <1>2, Zenon DEF SetToSeq
<1> QED
  BY <1>1, <1>3 DEF IsInjective

\* The values of an option are numbered from 1 on.
LEMMA AllOptionsInARow ==
  ASSUME NEW a, IsCommandLine(a), NEW read, NEW positional, NEW known, NEW short, NEW k
  PROVE  \E n \in Nat :
           DOMAIN get_all_options(Parsed(Says(a, read, short), positional, known), k) = 1..n
<1> DEFINE says == Says(a, read, short)
           p == Parsed(says, positional, known)
           of == {j \in DOMAIN p.values : p.values[j].key = k}
<1>1. IsFiniteSet(DOMAIN says)
  <2>1. PICK S : says \in Seq(S)
    BY SaysIsSequence
  <2> HIDE DEF says
  <2>2. DOMAIN says = 1..Len(says) /\ Len(says) \in Nat
    BY <2>1
  <2> QED
    BY <2>2, FS_Interval
<1> HIDE DEF says
<1>2. DOMAIN p.values \subseteq DOMAIN says
  BY DEF Parsed
<1>3. DOMAIN get_all_options(p, k) = 1..Cardinality(of)
  BY DEF get_all_options
<1> HIDE DEF p
<1>4. of \in SUBSET DOMAIN says
  BY <1>2
<1> HIDE DEF of
<1>5. Cardinality(of) \in Nat
  BY <1>1, <1>4, FS_Subset, FS_CardinalityType
<1> QED
  BY <1>3, <1>5 DEF p, says

\* The directories to include are numbered from 1 on.
LEMMA IncludesInARow ==
  ASSUME NEW a, IsCommandLine(a), NEW fs, parse_options(a, fs).ok
  PROVE  \E n \in Nat : DOMAIN parse_options(a, fs).include_dirs = 1..n
<1>1. parse_options(a, fs).include_dirs
        = get_all_options(ArgParser(a, Known, ShortOptions), "include-dir")
  BY ReadFrom
<1>2. \E n \in Nat :
        DOMAIN get_all_options(ArgParser(a, Known, ShortOptions), "include-dir") = 1..n
  BY AllOptionsInARow DEF ArgParser
<1> QED
  BY <1>1, <1>2

\* An entry that is listed stands for a directory below its root, under its own name or
\* as the link that leads there.
LEMMA FoundFacts ==
  ASSUME NEW tree, IsTree(tree), NEW root, NEW p \in DOMAIN tree,
         NEW recursive, NEW ignore, NEW max_depth,
         p \in Entries(tree, root, recursive, ignore, max_depth),
         Listed(tree, root, p, recursive, ignore, max_depth),
         NEW q, q = Resolved(tree, p)
  PROVE  /\ IsPrefix(Real(tree, root), q)
         /\ Kind(tree, q) = "dir"
         /\ p # q => tree[p] = Link(q)
<1>1. IsPrefix(Real(tree, root), p)
  BY DEF Entries, IsStrictPrefix
<1>2. Kind(tree, q) = "dir"
  BY DEF Listed
<1>3. CASE Kind(tree, p) = "link"
  <2>1. IsPrefix(Real(tree, root), q)
    BY <1>3 DEF Listed, within_root
  <2>2. tree[p].kind = "link" /\ q = tree[p].target
    BY <1>3 DEF Kind, Resolved
  <2>3. tree[p] \notin {Dir, Repo, File}
    BY <2>2 DEF Dir, Repo, File
  <2>4. tree[p] = Link(q)
    BY <2>2, <2>3 DEF IsTree
  <2> QED
    BY <1>2, <2>1, <2>4
<1>4. CASE Kind(tree, p) # "link"
  <2>1. q = p
    BY <1>4 DEF Resolved
  <2> QED
    BY <1>1, <1>2, <2>1
<1> QED
  BY <1>3, <1>4

\* What is found below the roots, in some order: entries that are listed, each once, and
\* the list names where they lead.
LEMMA FoundInOrder ==
  ASSUME NEW tree, IsTree(tree), NEW roots, IsFiniteSet(DOMAIN roots),
         NEW recursive, NEW ignore, NEW max_depth
  PROVE  \E order : \E n \in Nat :
           /\ build_repo_list(tree, roots, recursive, ignore, max_depth)
                = [j \in 1..n |-> Shown(tree, roots[order[j][1]], order[j][2])]
           /\ \A i \in 1..n : \E r \in DOMAIN roots, p \in DOMAIN tree :
                /\ order[i] = <<r, p>>
                /\ p \in Entries(tree, roots[r], recursive, ignore, max_depth)
                /\ Listed(tree, roots[r], p, recursive, ignore, max_depth)
           /\ \A i, j \in 1..n : order[i] = order[j] => i = j
<1> DEFINE found == {at \in (DOMAIN roots) \X DOMAIN tree :
                       /\ IsDirectory(tree, roots[at[1]])
                       /\ at[2] \in Entries(tree, roots[at[1]], recursive, ignore, max_depth)
                       /\ Listed(tree, roots[at[1]], at[2], recursive, ignore, max_depth)}
           order == SetToSeq(found)
<1>1. build_repo_list(tree, roots, recursive, ignore, max_depth)
        = [j \in DOMAIN order |-> Shown(tree, roots[order[j][1]], order[j][2])]
  BY Zenon DEF build_repo_list
<1>2. IsFiniteSet(found)
  <2>1. IsFiniteSet((DOMAIN roots) \X DOMAIN tree)
    BY FS_Product DEF IsTree
  <2>2. found \in SUBSET ((DOMAIN roots) \X DOMAIN tree)
    OBVIOUS
  <2> HIDE DEF found
  <2> QED
    BY <2>1, <2>2, FS_Subset
<1>3. PICK n \in Nat :
        /\ DOMAIN order = 1..n
        /\ \A i \in 1..n : order[i] \in found
        /\ \A i, j \in 1..n : order[i] = order[j] => i = j
  <2> HIDE DEF found
  <2> QED
    BY <1>2, SetInOrder
<1> HIDE DEF order
<1>4. ASSUME NEW i \in 1..n
      PROVE  \E r \in DOMAIN roots, p \in DOMAIN tree :
               /\ order[i] = <<r, p>>
               /\ p \in Entries(tree, roots[r], recursive, ignore, max_depth)
               /\ Listed(tree, roots[r], p, recursive, ignore, max_depth)
  <2>1. order[i] \in found
    BY <1>3
  <2> QED
    BY <2>1
<1> HIDE DEF found
<1>5. build_repo_list(tree, roots, recursive, ignore, max_depth)
        = [j \in 1..n |-> Shown(tree, roots[order[j][1]], order[j][2])]
  BY <1>1, <1>3
<1> QED
  BY <1>3, <1>4, <1>5, Zenon

\* The list names directories below the roots, and one of them twice only by two roots or
\* by a link.
LEMMA ListedIsBelow ==
  ASSUME NEW tree, IsTree(tree), NEW roots, IsFiniteSet(DOMAIN roots),
         NEW recursive, NEW ignore, NEW max_depth
  PROVE  EachIsBelow(build_repo_list(tree, roots, recursive, ignore, max_depth), roots, tree)
<1> DEFINE list == build_repo_list(tree, roots, recursive, ignore, max_depth)
<1>0. PICK order : \E n \in Nat :
        /\ list = [j \in 1..n |-> Shown(tree, roots[order[j][1]], order[j][2])]
        /\ \A i \in 1..n : \E r \in DOMAIN roots, p \in DOMAIN tree :
             /\ order[i] = <<r, p>>
             /\ p \in Entries(tree, roots[r], recursive, ignore, max_depth)
             /\ Listed(tree, roots[r], p, recursive, ignore, max_depth)
        /\ \A i, j \in 1..n : order[i] = order[j] => i = j
  BY FoundInOrder, Zenon
<1>1. PICK n \in Nat :
        /\ list = [j \in 1..n |-> Shown(tree, roots[order[j][1]], order[j][2])]
        /\ \A i \in 1..n : \E r \in DOMAIN roots, p \in DOMAIN tree :
             /\ order[i] = <<r, p>>
             /\ p \in Entries(tree, roots[r], recursive, ignore, max_depth)
             /\ Listed(tree, roots[r], p, recursive, ignore, max_depth)
        /\ \A i, j \in 1..n : order[i] = order[j] => i = j
  BY <1>0
<1> HIDE DEF list
<1>2. DOMAIN list = 1..n /\ \A i \in 1..n : list[i] = Shown(tree, roots[order[i][1]], order[i][2])
  BY <1>1
<1>3. ASSUME NEW i \in DOMAIN list
      PROVE  \E r \in DOMAIN roots, p \in DOMAIN tree :
               /\ order[i] = <<r, p>> /\ i \in 1..n
               /\ r \in RootsOf(list[i].real, roots, tree) /\ Kind(tree, list[i].real) = "dir"
               /\ p # list[i].real => tree[p] = Link(list[i].real)
  <2>1. PICK r \in DOMAIN roots, p \in DOMAIN tree :
          /\ order[i] = <<r, p>>
          /\ p \in Entries(tree, roots[r], recursive, ignore, max_depth)
          /\ Listed(tree, roots[r], p, recursive, ignore, max_depth)
    BY <1>1, <1>2
  <2>2. list[i].real = Resolved(tree, p)
    BY <1>2, <2>1 DEF Shown
  <2>3. /\ IsPrefix(Real(tree, roots[r]), list[i].real) /\ Kind(tree, list[i].real) = "dir"
        /\ p # list[i].real => tree[p] = Link(list[i].real)
    BY <2>1, <2>2, FoundFacts
  <2> QED
    BY <1>2, <2>1, <2>3 DEF RootsOf
<1>4. ASSUME NEW i \in DOMAIN list, NEW j \in DOMAIN list, i # j, list[i].real = list[j].real
      PROVE  \/ Cardinality(RootsOf(list[i].real, roots, tree)) > 1
             \/ \E p \in DOMAIN tree : tree[p] = Link(list[i].real)
  <2>1. PICK r \in DOMAIN roots, p \in DOMAIN tree :
          /\ order[i] = <<r, p>> /\ i \in 1..n /\ r \in RootsOf(list[i].real, roots, tree)
          /\ p # list[i].real => tree[p] = Link(list[i].real)
    BY <1>3
  <2>2. PICK s \in DOMAIN roots, q \in DOMAIN tree :
          /\ order[j] = <<s, q>> /\ j \in 1..n /\ s \in RootsOf(list[i].real, roots, tree)
          /\ q # list[i].real => tree[q] = Link(list[i].real)
    BY <1>3, <1>4
  <2>3. r # s \/ p # q
    BY <1>1, <1>4, <2>1, <2>2
  <2>4. CASE r # s
    <3>1. IsFiniteSet(RootsOf(list[i].real, roots, tree))
      <4>1. RootsOf(list[i].real, roots, tree) \in SUBSET DOMAIN roots
        BY DEF RootsOf
      <4> QED
        BY <4>1, FS_Subset
    <3>2. {r, s} \in SUBSET RootsOf(list[i].real, roots, tree)
      BY <2>1, <2>2
    <3>3. Cardinality({r, s}) = 2
      <4>1. IsFiniteSet({r}) /\ Cardinality({r}) = 1
        BY FS_Singleton
      <4>2. Cardinality({r} \cup {s}) = 2
        <5>1. s \notin {r}
          BY <2>4
        <5>2. Cardinality({r} \cup {s}) = Cardinality({r}) + 1
          BY <4>1, <5>1, FS_AddElement
        <5> QED
          BY <4>1, <5>2
      <4>3. {r} \cup {s} = {r, s}
        OBVIOUS
      <4> QED
        BY <4>2, <4>3
    <3>4. Cardinality({r, s}) <= Cardinality(RootsOf(list[i].real, roots, tree))
      BY <3>1, <3>2, FS_Subset
    <3>5. Cardinality(RootsOf(list[i].real, roots, tree)) \in Nat
      BY <3>1, FS_CardinalityType
    <3> QED
      BY <3>3, <3>4, <3>5
  <2>5. CASE p # q
    BY <2>1, <2>2, <2>5
  <2> QED
    BY <2>3, <2>4, <2>5
<1>5. \A i \in DOMAIN list : RootsOf(list[i].real, roots, tree) # {} /\ Kind(tree, list[i].real) = "dir"
  BY <1>3
<1> QED
  BY <1>4, <1>5 DEF EachIsBelow, list

\* The roots are the root and the directories to include.
LEMMA RootsAreFinite ==
  ASSUME NEW o, NEW n \in Nat, DOMAIN o.include_dirs = 1..n,
         NEW roots,
         roots = <<PathOf(o.root)>>
                 \o [i \in DOMAIN o.include_dirs |-> PathOf(o.include_dirs[i])]
  PROVE  IsFiniteSet(DOMAIN roots)
<1> DEFINE include == [i \in DOMAIN o.include_dirs |-> PathOf(o.include_dirs[i])]
           S == {PathOf(o.root)} \cup {PathOf(o.include_dirs[i]) : i \in 1..n}
<1>1. include \in [1..n -> S]
  OBVIOUS
<1>2. <<PathOf(o.root)>> \in Seq(S)
  OBVIOUS
<1>3. roots = <<PathOf(o.root)>> \o include
  OBVIOUS
<1> HIDE DEF S, include
<1>4. include \in Seq(S)
  BY <1>1
<1>5. <<PathOf(o.root)>> \o include \in Seq(S)
  BY <1>2, <1>4
<1>6. roots \in Seq(S)
  BY <1>3, <1>5, Zenon
<1>7. DOMAIN roots = 1..Len(roots) /\ Len(roots) \in Nat
  BY <1>6
<1> QED
  BY <1>7, FS_Interval

\* The words are a command line, the directories a tree, and the options in force name a
\* row of directories to include.
ListInv ==
  /\ IsCommandLine(args) /\ IsTree(disk)
  /\ phase \in {"opening", "waiting", "monitoring"} =>
       \E n \in Nat : DOMAIN opts.include_dirs = 1..n

\* The starts are command lines and trees.
LEMMA InitListInv == Init => ListInv
  BY StartsAssumption DEF Init, ListInv

\* Only a start and a reload read options, from the words of the command line; the
\* directories change into trees.
LEMMA NextListInv == ListInv /\ OptionsInv /\ [Next]_vars => ListInv'
<1> SUFFICES ASSUME ListInv, OptionsInv, [Next]_vars PROVE ListInv'
  OBVIOUS
<1>1. CASE Start
  <2>1. IsCommandLine(args') /\ IsTree(disk') /\ args' = args
    BY <1>1 DEF Start, ListInv
  <2>2. ASSUME opts'.ok PROVE \E n \in Nat : DOMAIN opts'.include_dirs = 1..n
    <3> DEFINE read == parse_options(args, files)
    <3>1. PICK state \in MutantStates : opts' = apply_mutant_mode(read, state)
      BY <1>1 DEF Start
    <3>2. {"ok", "on", "original_args", "include_dirs"} \subseteq DOMAIN read
      BY <2>2, <3>1, ReadDomain DEF apply_mutant_mode, Fail
    <3> HIDE DEF read
    <3>3. read.ok /\ opts'.include_dirs = read.include_dirs
      BY <2>2, <3>1, <3>2, MutantOnly
    <3>4. IsCommandLine(args)
      BY DEF ListInv
    <3>5. \E n \in Nat : DOMAIN read.include_dirs = 1..n
      BY <3>3, <3>4, IncludesInARow DEF read
    <3> QED
      BY <3>3, <3>5
  <2>3. phase' \in {"opening", "waiting", "monitoring"} => opts'.ok
    BY <1>1 DEF Start
  <2> QED
    BY <2>1, <2>2, <2>3 DEF ListInv
<1>2. CASE Reload
  <2>1. IsCommandLine(args') /\ IsTree(disk') /\ phase = "monitoring" /\ opts.original_args = args
    BY <1>2 DEF Reload, ListInv, OptionsInv
  <2>2. CASE opts' = opts
    BY <2>1, <2>2 DEF ListInv
  <2>3. CASE opts' # opts
    <3>1. opts' = parse_options(args, files) /\ parse_options(args, files).ok
      BY <1>2, <2>1, <2>3 DEF Reload, Adopt
    <3>2. IsCommandLine(args)
      BY DEF ListInv
    <3>3. \E n \in Nat : DOMAIN opts'.include_dirs = 1..n
      BY <3>1, <3>2, IncludesInARow
    <3> QED
      BY <2>1, <3>3 DEF ListInv
  <2> QED
    BY <2>2, <2>3
<1>3. CASE Open \/ Retry \/ EditFiles \/ Monitoring \/ UNCHANGED vars
  <2>1. UNCHANGED <<args, disk, opts>>
    BY <1>3 DEF Open, Retry, EditFiles, Monitoring, vars
  <2>2. phase' \in {"opening", "waiting", "monitoring"}
          => phase \in {"opening", "waiting", "monitoring"}
    BY <1>3 DEF Open, Retry, EditFiles, Monitoring, vars
  <2> QED
    BY <2>1, <2>2 DEF ListInv
<1>4. CASE EditDisk
  BY <1>4, StartsAssumption DEF EditDisk, ListInv
<1> QED
  BY <1>1, <1>2, <1>3, <1>4 DEF Next

\* The list of any state is made of the options and the directories of that state.
LEMMA ListFollows == ListInv => ListIsSound
<1> SUFFICES ASSUME ListInv, phase \in {"opening", "waiting", "monitoring"},
                    "single-repo" \notin opts.on
             PROVE  ListIsSound
  BY DEF ListIsSound
<1>1. PICK n \in Nat : DOMAIN opts.include_dirs = 1..n
  BY DEF ListInv
<1> DEFINE include == [i \in DOMAIN opts.include_dirs |-> PathOf(opts.include_dirs[i])]
           ignore == [i \in DOMAIN opts.ignore_dirs |-> IgnorePattern(opts.ignore_dirs[i])]
           roots == <<PathOf(opts.root)>> \o include
<1>2. IsFiniteSet(DOMAIN roots)
  BY <1>1, RootsAreFinite
<1>3. Prepared(opts, disk)
        = build_repo_list(disk, roots, "recursive" \in opts.on, ignore, opts.numbers["max-depth"])
  BY Zenon DEF Prepared, prepare_repos
<1> HIDE DEF roots
<1>4. EachIsBelow(Prepared(opts, disk), roots, disk)
  BY <1>2, <1>3, ListedIsBelow DEF ListInv
<1> QED
  BY <1>4 DEF ListIsSound, roots

\* The list names directories below the places the roots lead to only (no link below a root
\* leads out of it), and one of them twice, under whatever names, only if a link leads to it
\* or two roots contain it, whatever the command line, the directories and their links are,
\* those to a root included (build_repo_list in src/scanner/list.cpp, prepare_repos in
\* src/ui_loop.cpp).
THEOREM ListSound == Spec => []ListIsSound
<1>1. ListInv => ListIsSound
  BY ListFollows
<1> QED
  BY <1>1, InitListInv, NextListInv, OptionsInvariant, PTL DEF Spec

-----------------------------------------------------------------------------
(***************************************************************************)
(* An option of the configuration moved to the command line.               *)
(***************************************************************************)
\* One more row comes last.
LEMMA FlattenAppend ==
  ASSUME NEW S, NEW seqs \in Seq(Seq(S)), NEW x \in Seq(S)
  PROVE  FlattenSeq(Append(seqs, x)) = FlattenSeq(seqs) \o x
<1> DEFINE n == Len(seqs)
           more == Append(seqs, x)
<1>1. /\ n \in Nat /\ n + 1 \in Nat \ {0} /\ Len(more) = n + 1
      /\ \A i \in 1..n : more[i] = seqs[i]
      /\ more[n + 1] = x
  OBVIOUS
<1> HIDE DEF more, n
<1>2. PICK g : /\ FlattenSeq(more) = g[n + 1]
               /\ \A i \in 1..(n + 1) : g[i] = IF i = 1 THEN more[i] ELSE g[i - 1] \o more[i]
  <2>1. PICK g : Unrolls(g, more)
    BY <1>1, FlattenEquation
  <2> QED
    BY <1>1, <2>1, Zenon DEF Unrolls
<1>3. CASE n = 0
  <2>1. FlattenSeq(more) = x
    BY <1>1, <1>2, <1>3
  <2>2. seqs = <<>> /\ <<>> \o x = x
    BY <1>3 DEF n
  <2>3. FlattenSeq(seqs) = <<>>
    BY <1>3, <2>2 DEF FlattenSeq, n
  <2> QED
    BY <2>1, <2>2, <2>3 DEF more
<1>4. CASE n # 0
  <2>1. PICK f : /\ FlattenSeq(seqs) = f[n]
                 /\ \A i \in 1..n : f[i] = IF i = 1 THEN seqs[i] ELSE f[i - 1] \o seqs[i]
    <3>1. PICK f : Unrolls(f, seqs)
      BY <1>1, <1>4, FlattenEquation DEF n
    <3> QED
      BY <3>1, Zenon DEF Unrolls, n
  <2> DEFINE Good == {m \in Nat : m + 1 <= n => f[m + 1] = g[m + 1]}
  <2>2. 0 \in Good
    BY <1>1, <1>2, <1>4, <2>1
  <2>3. ASSUME NEW m \in Good PROVE m + 1 \in Good
    <3> SUFFICES ASSUME m + 2 <= n PROVE f[m + 2] = g[m + 2]
      OBVIOUS
    <3>1. m \in Nat /\ m + 2 \in 1..n /\ m + 2 \in 1..(n + 1) /\ m + 2 # 1 /\ (m + 2) - 1 = m + 1
      BY <1>1
    <3>2. f[m + 2] = f[m + 1] \o seqs[m + 2] /\ g[m + 2] = g[m + 1] \o more[m + 2]
      BY <1>2, <2>1, <3>1
    <3>3. f[m + 1] = g[m + 1] /\ more[m + 2] = seqs[m + 2]
      BY <1>1, <3>1
    <3> QED
      BY <3>2, <3>3
  <2>4. n - 1 \in Good
    <3> HIDE DEF Good
    <3>1. Good = Nat
      BY <2>2, <2>3, Induction DEF Good
    <3> QED
      BY <1>1, <1>4, <3>1
  <2>5. f[n] = g[n]
    BY <1>1, <1>4, <2>4
  <2>6. g[n + 1] = g[n] \o x
    <3>1. n + 1 \in 1..(n + 1) /\ n + 1 # 1 /\ (n + 1) - 1 = n
      BY <1>1, <1>4
    <3> QED
      BY <1>1, <1>2, <3>1
  <2> QED
    BY <1>2, <2>1, <2>5, <2>6 DEF more
<1> QED
  BY <1>3, <1>4

\* Every word after the first is read unless the one before it is read and takes it as
\* its value.
LEMMA ReadEquation ==
  ASSUME NEW a, NEW n, n = Len(a), n \in Nat, NEW short
  PROVE  /\ IsRead(a, short)[0] = FALSE
         /\ \A i \in 1..n :
              IsRead(a, short)[i] = ~(IsRead(a, short)[i - 1] /\ Swallows(a, i - 1, short))
<1> DEFINE Step(g, i) == i > 0 /\ ~(g[i - 1] /\ Swallows(a, i - 1, short))
           Solves(g, m) == g = [i \in 0..m |-> Step(g, i)]
           Good == {m \in Nat : m <= n => \E g : Solves(g, m)}
           f == CHOOSE g : Solves(g, n)
<1>1. 0 \in Good
  <2> DEFINE g == [i \in 0..0 |-> FALSE]
  <2>1. ASSUME NEW i \in 0..0 PROVE Step(g, i) = FALSE
    OBVIOUS
  <2> HIDE DEF Step
  <2>2. Solves(g, 0)
    BY <2>1
  <2> QED
    BY <2>2
<1>2. ASSUME NEW m \in Good PROVE m + 1 \in Good
  <2>0. m \in Nat /\ m + 1 \in Nat
    OBVIOUS
  <2>1. ASSUME m + 1 <= n PROVE \E g : Solves(g, m + 1)
    <3>1. PICK g : Solves(g, m)
      <4> HIDE DEF Solves
      <4>1. m \in Good /\ m <= n
        BY <2>0, <2>1
      <4> QED
        BY <4>1, Zenon DEF Good
    <3> DEFINE h == [i \in 0..(m + 1) |-> Step(g, i)]
    <3>2. ASSUME NEW i \in 0..(m + 1) PROVE h[i] = Step(h, i)
      <4>1. CASE i = 0
        BY <4>1
      <4>2. CASE i # 0
        <5>1. i - 1 \in 0..m /\ i - 1 \in 0..(m + 1)
          BY <2>0, <4>2
        <5>2. h[i - 1] = g[i - 1]
          <6> HIDE DEF Step
          <6>1. g[i - 1] = Step(g, i - 1)
            BY <3>1, <5>1
          <6> QED
            BY <5>1, <6>1
        <5> QED
          BY <5>2
      <4> QED
        BY <4>1, <4>2
    <3>3. Solves(h, m + 1)
      <4> HIDE DEF Step
      <4> QED
        BY <3>2
    <3> QED
      BY <3>3
  <2> HIDE DEF Solves
  <2> QED
    BY <2>0, <2>1, Zenon DEF Good
<1>3. \E g : Solves(g, n)
  <2> HIDE DEF Solves
  <2>1. n \in Good /\ n <= n
    <3> HIDE DEF Good
    <3>1. Good = Nat
      BY <1>1, <1>2, Induction DEF Good
    <3> QED
      BY <3>1
  <2> QED
    BY <2>1, Zenon DEF Good
<1>4. Solves(f, n)
  BY <1>3
<1>5. IsRead(a, short) = f
  BY Zenon DEF IsRead
<1> HIDE DEF f
<1>6. \A i \in 0..n : f[i] = Step(f, i)
  <2> HIDE DEF Step
  <2> QED
    BY <1>4
<1>7. f[0] = FALSE
  <2>1. 0 \in 0..n /\ ~(0 > 0)
    OBVIOUS
  <2>2. f[0] = Step(f, 0)
    <3> HIDE DEF Step
    <3> QED
      BY <1>6, <2>1
  <2>3. Step(f, 0) = FALSE
    BY <2>1
  <2> HIDE DEF Step
  <2> QED
    BY <2>2, <2>3
<1>8. ASSUME NEW i \in 1..n PROVE f[i] = ~(f[i - 1] /\ Swallows(a, i - 1, short))
  <2>1. i \in 0..n /\ i > 0
    OBVIOUS
  <2> QED
    BY <1>6, <2>1
<1> QED
  BY <1>5, <1>7, <1>8

\* A row is the function of its places.
LEMMA RowIsFunction ==
  ASSUME NEW S, NEW s \in Seq(S)
  PROVE  s = [i \in 1..Len(s) |-> s[i]]
  OBVIOUS

\* And such a function is a row.
LEMMA FunctionIsRow ==
  ASSUME NEW S, NEW n \in Nat, NEW s, s = [i \in 1..n |-> s[i]], \A i \in 1..n : s[i] \in S
  PROVE  s \in Seq(S) /\ Len(s) = n
<1>1. s \in [1..n -> S]
  OBVIOUS
<1> QED
  BY <1>1

\* A command line and one more word, --k=v.
OneMore(a, k, v) == Append(a, LongIs(k, v))

\* It has the words of the command line, and the new one as its last.
LEMMA WordsOfOneMore ==
  ASSUME NEW a, IsCommandLine(a), NEW k, NEW v
  PROVE  /\ Len(a) \in Nat /\ Len(OneMore(a, k, v)) = Len(a) + 1
         /\ DOMAIN a = 1..Len(a) /\ DOMAIN OneMore(a, k, v) = 1..(Len(a) + 1)
         /\ \A i \in 1..Len(a) : OneMore(a, k, v)[i] = a[i]
         /\ OneMore(a, k, v)[Len(a) + 1] = LongIs(k, v)
<1> DEFINE w == LongIs(k, v)
           S == Range(a) \cup {w}
<1>1. a \in Seq(S) /\ w \in S
  <2>1. a \in Seq(Range(a))
    BY DEF IsCommandLine
  <2> HIDE DEF w
  <2> QED
    BY <2>1
<1> HIDE DEF S, w
<1>2. /\ Len(a) \in Nat /\ Len(Append(a, w)) = Len(a) + 1
      /\ DOMAIN a = 1..Len(a) /\ DOMAIN Append(a, w) = 1..(Len(a) + 1)
      /\ \A i \in 1..Len(a) : Append(a, w)[i] = a[i]
      /\ Append(a, w)[Len(a) + 1] = w
  BY <1>1
<1> QED
  BY <1>2 DEF OneMore, w

\* The new word is nobody's value, and the others take the values they took.
LEMMA OneMoreSwallows ==
  ASSUME NEW a, IsCommandLine(a), NEW k, NEW v, NEW short, NEW i \in 1..Len(a)
  PROVE  Swallows(OneMore(a, k, v), i, short) = Swallows(a, i, short)
<1> DEFINE b == OneMore(a, k, v)
           n == Len(a)
<1>1. /\ n \in Nat /\ Len(b) = n + 1
      /\ \A j \in 1..n : b[j] = a[j]
      /\ b[n + 1].form = "long"
  <2>1. LongIs(k, v).form = "long"
    BY DEF LongIs
  <2> QED
    BY <2>1, WordsOfOneMore
<1> HIDE DEF b, n
<1>2. i \in 1..n
  BY DEF n
<1>3. CASE i < n
  <2>1. b[i] = a[i] /\ b[i + 1] = a[i + 1] /\ i < Len(b) /\ i < Len(a)
    BY <1>1, <1>2, <1>3 DEF n
  <2> QED
    BY <2>1 DEF Swallows, b
<1>4. CASE i = n
  <2>1. b[i + 1].form = "long" /\ ~(i < Len(a))
    BY <1>1, <1>4 DEF n
  <2> QED
    BY <2>1 DEF Swallows, b
<1>5. i < n \/ i = n
  BY <1>1, <1>2
<1> QED
  BY <1>3, <1>4, <1>5, Zenon DEF b

\* The same words are read, and the new one.
LEMMA OneMoreRead ==
  ASSUME NEW a, IsCommandLine(a), NEW k, NEW v, NEW short
  PROVE  /\ \A i \in 1..Len(a) : IsRead(OneMore(a, k, v), short)[i] = IsRead(a, short)[i]
         /\ IsRead(OneMore(a, k, v), short)[Len(a) + 1]
<1> DEFINE b == OneMore(a, k, v)
           n == Len(a)
           ra == IsRead(a, short)
           rb == IsRead(b, short)
           Good == {m \in Nat : m <= n => ra[m] = rb[m]}
<1>1. n \in Nat /\ Len(b) = n + 1 /\ n + 1 \in Nat
  BY WordsOfOneMore
<1>2. /\ ra[0] = FALSE
      /\ \A i \in 1..n : ra[i] = ~(ra[i - 1] /\ Swallows(a, i - 1, short))
  BY <1>1, ReadEquation
<1>3. /\ rb[0] = FALSE
      /\ \A i \in 1..(n + 1) : rb[i] = ~(rb[i - 1] /\ Swallows(b, i - 1, short))
  BY <1>1, ReadEquation
<1>4. \A i \in 1..n : Swallows(b, i, short) = Swallows(a, i, short)
  BY OneMoreSwallows
<1>5. n \in 1..n => ~Swallows(b, n, short)
  <2>1. Swallows(a, n, short) = FALSE
    BY <1>1 DEF Swallows
  <2> HIDE DEF b
  <2> QED
    BY <1>4, <2>1, Zenon
<1> HIDE DEF b, n, ra, rb
<1>6. 0 \in Good
  BY <1>2, <1>3
<1>7. ASSUME NEW m \in Good PROVE m + 1 \in Good
  <2> SUFFICES ASSUME m + 1 <= n PROVE ra[m + 1] = rb[m + 1]
    OBVIOUS
  <2>1. /\ m \in Nat /\ m + 1 \in 1..n /\ m + 1 \in 1..(n + 1) /\ (m + 1) - 1 = m
        /\ m # 0 => m \in 1..n
        /\ ra[m] = rb[m]
    BY <1>1
  <2>2. ra[m + 1] = ~(ra[m] /\ Swallows(a, m, short))
    BY <1>2, <2>1
  <2>3. rb[m + 1] = ~(rb[m] /\ Swallows(b, m, short))
    BY <1>3, <2>1
  <2>4. CASE m = 0
    BY <1>2, <1>3, <2>2, <2>3, <2>4, Zenon
  <2>5. CASE m # 0
    <3>1. Swallows(b, m, short) = Swallows(a, m, short)
      BY <1>4, <2>1, <2>5
    <3> QED
      BY <2>1, <2>2, <2>3, <3>1, Zenon
  <2> QED
    BY <2>4, <2>5
<1>8. \A i \in 1..n : rb[i] = ra[i]
  <2> HIDE DEF Good
  <2>1. Good = Nat
    BY <1>6, <1>7, Induction DEF Good
  <2> QED
    BY <1>1, <2>1 DEF Good
<1>9. rb[n + 1]
  <2>1. n + 1 \in 1..(n + 1) /\ (n + 1) - 1 = n /\ (n # 0 => n \in 1..n)
    BY <1>1
  <2>2. rb[n + 1] = ~(rb[n] /\ Swallows(b, n, short))
    BY <1>3, <2>1
  <2>3. n = 0 => rb[n] = FALSE
    BY <1>3
  <2> QED
    BY <1>5, <2>1, <2>2, <2>3, Zenon
<1> QED
  BY <1>8, <1>9 DEF b, n, ra, rb

\* The words say the same, and the new one is an option with its value.
LEMMA OneMoreSaid ==
  ASSUME NEW a, IsCommandLine(a), NEW k, NEW v, NEW short,
         NEW b, b = OneMore(a, k, v),
         NEW ra, ra = IsRead(a, short), NEW rb, rb = IsRead(b, short)
  PROVE  /\ \A i \in DOMAIN a : SaidAt(b, rb, i, short) = SaidAt(a, ra, i, short)
         /\ SaidAt(b, rb, Len(a) + 1, short) = <<Valued(k, v)>>
<1> DEFINE n == Len(a)
<1>1. /\ n \in Nat /\ DOMAIN a = 1..n
      /\ \A i \in 1..n : b[i] = a[i]
      /\ b[n + 1] = LongIs(k, v)
  BY WordsOfOneMore
<1>2. /\ \A i \in 1..n : rb[i] = ra[i]
      /\ rb[n + 1]
  BY OneMoreRead
<1>3. ASSUME NEW i \in 1..n PROVE SaidAt(b, rb, i, short) = SaidAt(a, ra, i, short)
  <2>1. b[i] = a[i] /\ rb[i] = ra[i]
    BY <1>1, <1>2, <1>3
  <2>2. Swallows(b, i, short) = Swallows(a, i, short)
    BY <1>3, OneMoreSwallows
  <2>3. Swallows(a, i, short) => b[i + 1] = a[i + 1]
    <3>1. Swallows(a, i, short) => i < n
      BY DEF Swallows
    <3> QED
      BY <1>1, <1>3, <3>1
  <2>4. Mapped(b[i], short) = Mapped(a[i], short)
    BY <2>1
  <2>5. LongSays(b, i, short) = LongSays(a, i, short)
    BY <2>1, <2>2, <2>3, Zenon DEF LongSays
  <2>6. ShortSays(b, i, short) = ShortSays(a, i, short)
    BY <2>1, <2>2, <2>3, Zenon DEF ShortSays
  <2> QED
    BY <2>1, <2>5, <2>6, Zenon DEF SaidAt
<1>4. SaidAt(b, rb, n + 1, short) = <<Valued(k, v)>>
  <2>1. b[n + 1].form = "long" /\ b[n + 1].eq = TRUE /\ b[n + 1].key = k /\ b[n + 1].text = v
    BY <1>1 DEF LongIs
  <2> HIDE DEF n
  <2> QED
    BY <1>2, <2>1, Zenon DEF SaidAt, LongSays
<1> QED
  BY <1>1, <1>3, <1>4

\* All at once.
LEMMA OneMoreSays ==
  ASSUME NEW a, IsCommandLine(a), NEW k, NEW v, NEW short,
         NEW b, b = OneMore(a, k, v),
         NEW ra, ra = IsRead(a, short), NEW rb, rb = IsRead(b, short)
  PROVE  Says(b, rb, short) = Append(Says(a, ra, short), Valued(k, v))
<1> DEFINE n == Len(a)
           sa == [i \in DOMAIN a |-> SaidAt(a, ra, i, short)]
           sb == [i \in DOMAIN b |-> SaidAt(b, rb, i, short)]
           new == <<Valued(k, v)>>
           S == (UNION {Range(sa[i]) : i \in DOMAIN a}) \cup {Valued(k, v)}
<1>1. /\ n \in Nat /\ DOMAIN a = 1..n /\ DOMAIN b = 1..(n + 1)
  BY WordsOfOneMore
<1>2. /\ \A i \in 1..n : sb[i] = sa[i]
      /\ sb[n + 1] = new
  <2>1. /\ \A i \in DOMAIN a : SaidAt(b, rb, i, short) = SaidAt(a, ra, i, short)
        /\ SaidAt(b, rb, n + 1, short) = new
    BY OneMoreSaid
  <2> HIDE DEF new, n
  <2> QED
    BY <1>1, <2>1
<1>3. sa \in Seq(Seq(S)) /\ new \in Seq(S) /\ Len(sa) = n
  <2>1. ASSUME NEW i \in DOMAIN a PROVE sa[i] \in Seq(S)
    <3>1. sa[i] \in Seq(Range(sa[i]))
      BY SaidInARow
    <3>2. Range(sa[i]) \subseteq S
      OBVIOUS
    <3> HIDE DEF sa, S
    <3> QED
      BY <3>1, <3>2
  <2>2. Valued(k, v) \in S
    OBVIOUS
  <2> HIDE DEF S
  <2>3. new \in Seq(S)
    BY <2>2
  <2>4. sa = [i \in 1..n |-> sa[i]]
    BY <1>1
  <2> HIDE DEF sa, n, new
  <2> QED
    BY <1>1, <2>1, <2>3, <2>4, FunctionIsRow
<1>4. sb = Append(sa, new)
  <2>1. sb = [i \in 1..(n + 1) |-> sb[i]]
    BY <1>1
  <2> HIDE DEF sb, sa, n, S, new
  <2>2. Append(sa, new) = [i \in 1..(n + 1) |-> Append(sa, new)[i]]
    <3>1. Append(sa, new) \in Seq(Seq(S)) /\ Len(Append(sa, new)) = n + 1
      BY <1>1, <1>3
    <3> QED
      BY <3>1, RowIsFunction
  <2>3. \A i \in 1..(n + 1) : Append(sa, new)[i] = sb[i]
    BY <1>1, <1>2, <1>3
  <2> QED
    BY <2>1, <2>2, <2>3
<1>5. Says(a, ra, short) = FlattenSeq(sa) /\ Says(b, rb, short) = FlattenSeq(sb)
  BY Zenon DEF Says, SaidAt
<1> HIDE DEF sa, sb, S, new
<1>6. FlattenSeq(sb) = FlattenSeq(sa) \o new
  BY <1>3, <1>4, FlattenAppend
<1>7. FlattenSeq(sa) \in Seq(S)
  BY <1>3, FlattenIsSequence
<1>8. FlattenSeq(sa) \o new = Append(FlattenSeq(sa), Valued(k, v))
  <2>1. Valued(k, v) \in S
    BY DEF S
  <2> QED
    BY <1>7, <2>1 DEF new
<1> QED
  BY <1>5, <1>6, <1>8

\* The words that stand alone are the same.
LEMMA OneMorePositional ==
  ASSUME NEW a, IsCommandLine(a), NEW k, NEW v, NEW short,
         NEW b, b = OneMore(a, k, v),
         NEW ra, ra = IsRead(a, short), NEW rb, rb = IsRead(b, short)
  PROVE  Positional(b, rb) = Positional(a, ra)
<1> DEFINE n == Len(a)
           alone(x, read, i) == IF read[i] /\ x[i].form = "word" THEN <<x[i].text>> ELSE <<>>
           sa == [i \in DOMAIN a |-> alone(a, ra, i)]
           sb == [i \in DOMAIN b |-> alone(b, rb, i)]
           S == {a[i].text : i \in DOMAIN a}
<1>1. /\ n \in Nat /\ DOMAIN a = 1..n /\ DOMAIN b = 1..(n + 1)
      /\ \A i \in 1..n : b[i] = a[i]
      /\ b[n + 1].form = "long"
  <2>1. LongIs(k, v).form = "long"
    BY DEF LongIs
  <2> QED
    BY <2>1, WordsOfOneMore
<1>2. \A i \in 1..n : rb[i] = ra[i]
  BY OneMoreRead
<1>3. /\ \A i \in 1..n : sb[i] = sa[i]
      /\ sb[n + 1] = <<>>
  <2>1. ASSUME NEW i \in 1..n PROVE alone(b, rb, i) = alone(a, ra, i)
    BY <1>1, <1>2, Zenon
  <2>2. alone(b, rb, n + 1) = <<>>
    BY <1>1
  <2> HIDE DEF alone, n
  <2> QED
    BY <1>1, <2>1, <2>2
<1>4. sa \in Seq(Seq(S)) /\ <<>> \in Seq(S) /\ Len(sa) = n
  <2>1. ASSUME NEW i \in 1..n PROVE sa[i] \in Seq(S)
    <3>1. a[i].text \in S /\ sa[i] \in {<<>>, <<a[i].text>>}
      BY <1>1
    <3> HIDE DEF sa, S
    <3>2. <<a[i].text>> \in Seq(S) /\ <<>> \in Seq(S)
      BY <3>1
    <3> QED
      BY <3>1, <3>2
  <2>2. sa = [i \in 1..n |-> sa[i]]
    BY <1>1
  <2> HIDE DEF sa, n, S
  <2>3. <<>> \in Seq(S)
    OBVIOUS
  <2> QED
    BY <1>1, <2>1, <2>2, <2>3, FunctionIsRow
<1>5. sb = Append(sa, <<>>)
  <2>1. sb = [i \in 1..(n + 1) |-> sb[i]]
    BY <1>1
  <2> HIDE DEF sb, sa, n, S
  <2>2. Append(sa, <<>>) = [i \in 1..(n + 1) |-> Append(sa, <<>>)[i]]
    <3>1. Append(sa, <<>>) \in Seq(Seq(S)) /\ Len(Append(sa, <<>>)) = n + 1
      BY <1>1, <1>4
    <3> QED
      BY <3>1, RowIsFunction
  <2>3. \A i \in 1..(n + 1) : Append(sa, <<>>)[i] = sb[i]
    BY <1>1, <1>3, <1>4
  <2> QED
    BY <2>1, <2>2, <2>3
<1>6. Positional(a, ra) = FlattenSeq(sa) /\ Positional(b, rb) = FlattenSeq(sb)
  BY Zenon DEF Positional
<1> HIDE DEF sa, sb, S
<1>7. FlattenSeq(sb) = FlattenSeq(sa) \o <<>>
  BY <1>4, <1>5, FlattenAppend
<1>8. FlattenSeq(sa) \in Seq(S)
  BY <1>4, FlattenIsSequence
<1>9. FlattenSeq(sa) \o <<>> = FlattenSeq(sa)
  BY <1>8
<1> QED
  BY <1>6, <1>7, <1>9

\* The parser q knows what p knows, and that the option k has the value v.
KnowsOneMore(q, p, k, v) ==
  /\ q.flags = p.flags \cup {k}
  /\ q.unknown = p.unknown
  /\ q.positional = p.positional
  /\ get_option(q, k) = v
  /\ \A j : j # k =>
       /\ get_option(q, j) = get_option(p, j)
       /\ get_all_options(q, j) = get_all_options(p, j)

\* Such is the parser if the words say the same, and at last that k is v: the option has
\* the value that came last (get_option), and the others have all the values they had.
LEMMA ParsedOneMore ==
  ASSUME NEW S, NEW says \in Seq(S), NEW positional, NEW known, NEW k \in known, NEW v,
         Valued(k, v) \in S,
         NEW p, p = Parsed(says, positional, known),
         NEW q, q = Parsed(Append(says, Valued(k, v)), positional, known)
  PROVE  KnowsOneMore(q, p, k, v)
<1> DEFINE n == Len(says)
           more == Append(says, Valued(k, v))
           valued(s) == {j \in DOMAIN s : s[j].valued /\ s[j].key \in known}
           last(s, key) == Max({j \in valued(s) : s[j].key = key})
<1>1. /\ n \in Nat /\ DOMAIN says = 1..n /\ DOMAIN more = 1..(n + 1)
      /\ \A j \in 1..n : more[j] = says[j]
      /\ more[n + 1] = Valued(k, v)
  OBVIOUS
<1>2. /\ more[n + 1].key = k /\ more[n + 1].valued = TRUE /\ more[n + 1].val = v
  BY <1>1 DEF Valued
<1> HIDE DEF more, n
<1>3. {more[j].key : j \in DOMAIN more} = {says[j].key : j \in DOMAIN says} \cup {k}
  BY <1>1, <1>2
<1>4. valued(more) = valued(says) \cup {n + 1}
  BY <1>1, <1>2
<1>5. /\ q.flags = p.flags \cup {k}
      /\ q.unknown = p.unknown
      /\ q.positional = p.positional
  <2>1. /\ p.flags = {says[j].key : j \in DOMAIN says} \cap known
        /\ p.unknown = {says[j].key : j \in DOMAIN says} \ known
        /\ p.positional = positional
    BY DEF Parsed
  <2>2. /\ q.flags = {more[j].key : j \in DOMAIN more} \cap known
        /\ q.unknown = {more[j].key : j \in DOMAIN more} \ known
        /\ q.positional = positional
    BY DEF Parsed, more
  <2>3. ASSUME NEW K PROVE /\ (K \cup {k}) \cap known = (K \cap known) \cup {k}
                           /\ (K \cup {k}) \ known = K \ known
    OBVIOUS
  <2> QED
    BY <1>3, <2>1, <2>2, <2>3
<1>6. /\ p.options = [key \in {says[j].key : j \in valued(says)} |-> says[last(says, key)].val]
      /\ p.values = [j \in valued(says) |-> says[j]]
  BY DEF Parsed
<1>7. /\ q.options = [key \in {more[j].key : j \in valued(more)} |-> more[last(more, key)].val]
      /\ q.values = [j \in valued(more) |-> more[j]]
  BY DEF Parsed, more
<1>8. valued(says) \subseteq 1..n
  BY <1>1
<1>9. get_option(q, k) = v
  <2> DEFINE T == {j \in valued(more) : more[j].key = k}
  <2>1. T \in SUBSET Int /\ n + 1 \in T /\ \A j \in T : j <= n + 1
    <3> HIDE DEF valued
    <3> QED
      BY <1>1, <1>2, <1>4, <1>8
  <2>2. Max(T) = n + 1
    <3> HIDE DEF T
    <3> QED
      BY <2>1, MaxIs
  <2>3. last(more, k) = n + 1
    BY <2>2
  <2>4. k \in {more[j].key : j \in valued(more)}
    BY <1>2, <1>4
  <2> HIDE DEF last, valued, T
  <2>5. k \in DOMAIN q.options /\ q.options[k] = v
    BY <1>2, <1>7, <2>3, <2>4
  <2> QED
    BY <2>5 DEF get_option
<1>10. ASSUME NEW key, key # k
       PROVE  /\ get_option(q, key) = get_option(p, key)
              /\ get_all_options(q, key) = get_all_options(p, key)
  <2>1. {j \in valued(more) : more[j].key = key} = {j \in valued(says) : says[j].key = key}
    <3> HIDE DEF valued
    <3> QED
      BY <1>1, <1>2, <1>4, <1>8, <1>10
  <2>2. get_option(q, key) = get_option(p, key)
    <3>1. last(more, key) = last(says, key)
      BY <2>1, Zenon
    <3>2. key \in {more[j].key : j \in valued(more)}
            <=> \E j \in {i \in valued(more) : more[i].key = key} : TRUE
      OBVIOUS
    <3>3. key \in {says[j].key : j \in valued(says)}
            <=> \E j \in {i \in valued(says) : says[i].key = key} : TRUE
      OBVIOUS
    <3>4. key \in DOMAIN q.options <=> key \in DOMAIN p.options
      <4> HIDE DEF valued, last
      <4> QED
        BY <1>6, <1>7, <2>1, <3>2, <3>3
    <3>5. key \in DOMAIN p.options => q.options[key] = p.options[key]
      <4>1. ASSUME key \in DOMAIN p.options PROVE last(says, key) \in 1..n
        <5> DEFINE T == {j \in valued(says) : says[j].key = key}
        <5>1. T # {} /\ T \subseteq 1..n
          <6> HIDE DEF valued, last
          <6> QED
            BY <1>6, <1>8, <3>3, <4>1
        <5>2. Max(T) \in T
          <6> HIDE DEF T
          <6> QED
            BY <1>1, <5>1, MaxOfRow
        <5> HIDE DEF T
        <5>3. Max(T) \in 1..n
          BY <5>1, <5>2
        <5> QED
          BY <5>3 DEF T
      <4> HIDE DEF valued, last
      <4> QED
        BY <1>1, <1>6, <1>7, <3>1, <3>4, <4>1
    <3> QED
      BY <3>4, <3>5 DEF get_option
  <2>3. get_all_options(q, key) = get_all_options(p, key)
    <3> DEFINE ofq == {j \in DOMAIN q.values : q.values[j].key = key}
               ofp == {j \in DOMAIN p.values : p.values[j].key = key}
               nth(of, m) == CHOOSE j \in of : Cardinality({i \in of : i <= j}) = m
    <3>1. ofq = {j \in valued(more) : more[j].key = key}
      <4> HIDE DEF valued
      <4> QED
        BY <1>7
    <3>2. ofp = {j \in valued(says) : says[j].key = key}
      <4> HIDE DEF valued
      <4> QED
        BY <1>6
    <3>3. ofq = ofp
      BY <2>1, <3>1, <3>2
    <3>4. ofp \subseteq 1..n /\ \A j \in ofp : q.values[j] = p.values[j]
      <4> HIDE DEF valued
      <4> QED
        BY <1>1, <1>4, <1>6, <1>7, <1>8, <3>2
    <3>5. /\ get_all_options(q, key) =
               [m \in 1..Cardinality(ofq) |-> q.values[nth(ofq, m)].val]
          /\ get_all_options(p, key) =
               [m \in 1..Cardinality(ofp) |-> p.values[nth(ofp, m)].val]
      BY DEF get_all_options
    <3> HIDE DEF ofq, ofp
    <3>6. ASSUME NEW m \in 1..Cardinality(ofp) PROVE nth(ofp, m) \in ofp
      <4>1. ofp \in SUBSET (1..n) /\ m \in 1..Cardinality(ofp)
        BY <3>4
      <4>2. \E j \in ofp : Cardinality({i \in ofp : i <= j}) = m
        BY <1>1, <4>1, PlaceOfRow
      <4> QED
        BY <4>2
    <3> HIDE DEF nth
    <3> QED
      BY <3>3, <3>4, <3>5, <3>6
  <2> QED
    BY <2>2, <2>3
<1> QED
  BY <1>5, <1>9, <1>10 DEF KnowsOneMore

\* What the configuration c says of the option k was moved to the command line: p was
\* its parser before, q is it after, and d what is left of c.
Moved(p, c, q, d, k) ==
  /\ k \in DOMAIN c /\ k \notin p.flags /\ get_option(p, k) = <<>>
  /\ KnowsOneMore(q, p, k, c[k])
  /\ DOMAIN d = DOMAIN c \ {k}
  /\ \A j \in DOMAIN d : d[j] = c[j]
  /\ k \notin NotInConfig
  /\ k \in Switches => c[k] \in TrueTexts
  /\ k \in PoolOptions => PoolOptions \cap (DOMAIN c \cup p.flags) = {k}

\* What is looked up is the same: only the place where the option is found differs.
LEMMA MovedLookup ==
  ASSUME NEW p, NEW c, NEW q, NEW d, NEW k, Moved(p, c, q, d, k), NEW j
  PROVE  /\ Given(p, c, j) <=> Given(q, d, j)
         /\ Fallback(p, c, j) = Fallback(q, d, j)
         /\ Given(p, c, j) => Layer(p, c, j) = Layer(q, d, j)
         /\ j \in Switches => (IsOn(p, c, j) <=> IsOn(q, d, j))
<1>1. CASE j = k
  <2>1. /\ j \in DOMAIN c /\ j \notin p.flags /\ get_option(p, j) = <<>>
        /\ j \in q.flags /\ get_option(q, j) = c[j] /\ j \notin DOMAIN d
    BY <1>1 DEF Moved, KnowsOneMore
  <2>2. j \in Switches => cfg_flag(c, j)
    <3>1. j \in Switches => c[j] \in TrueTexts
      BY <1>1 DEF Moved
    <3>2. ASSUME NEW t \in TrueTexts
          PROVE  Lower(t) \in {<<>>, <<"1">>, <<"true">>, <<"yes">>}
      BY DEF TrueTexts, Lower
    <3> QED
      BY <2>1, <3>1, <3>2 DEF cfg_flag
  <2>3. Fallback(p, c, j) = c[j] /\ Fallback(q, d, j) = c[j]
    BY <2>1 DEF Fallback, cfg_opt, OrElse
  <2> QED
    BY <2>1, <2>2, <2>3 DEF Given, Layer, IsOn, has_flag
<1>2. CASE j # k
  <2>1. /\ j \in DOMAIN c <=> j \in DOMAIN d
        /\ j \in DOMAIN c => d[j] = c[j]
        /\ j \in p.flags <=> j \in q.flags
        /\ get_option(q, j) = get_option(p, j)
    BY <1>2 DEF Moved, KnowsOneMore
  <2>2. cfg_opt(c, j) = cfg_opt(d, j) /\ (cfg_flag(c, j) <=> cfg_flag(d, j))
    BY <2>1 DEF cfg_opt, cfg_flag
  <2> QED
    BY <2>1, <2>2 DEF Given, Fallback, Layer, IsOn, has_flag
<1> QED
  BY <1>1, <1>2

\* Nothing is looked up with another result,
LEMMA MovedAlike ==
  ASSUME NEW p, NEW c, NEW q, NEW d, NEW k, Moved(p, c, q, d, k)
  PROVE  Alike(p, c, q, d)
<1>1. \A j : /\ Given(p, c, j) <=> Given(q, d, j)
             /\ Fallback(p, c, j) = Fallback(q, d, j)
             /\ Given(p, c, j) => Layer(p, c, j) = Layer(q, d, j)
  BY MovedLookup
<1>2. \A j \in Switches : IsOn(p, c, j) <=> IsOn(q, d, j)
  BY MovedLookup
<1>3. /\ k \notin CommandLineOnly /\ k \notin CommandLineValues
      /\ k \notin {"include-dir", "ignore"}
  BY DEF Moved, NotInConfig
<1>4. CommandLineOnly \cap p.flags = CommandLineOnly \cap q.flags
  BY <1>3 DEF Moved, KnowsOneMore
<1>5. \A j \in CommandLineValues : get_option(p, j) = get_option(q, j)
  BY <1>3 DEF Moved, KnowsOneMore
<1>6. \A j \in {"include-dir", "ignore"} : get_all_options(p, j) = get_all_options(q, j)
  BY <1>3 DEF Moved, KnowsOneMore
<1>7. p.positional = q.positional
  BY DEF Moved, KnowsOneMore
<1> QED
  BY <1>1, <1>2, <1>4, <1>5, <1>6, <1>7, Zenon DEF Alike

\* nor the layers of the pool's size: one option that moves, alone, goes from a layer of
\* the configuration to the same layer of the command line.
LEMMA MovedPool ==
  ASSUME NEW p, NEW c, NEW q, NEW d, NEW k, Moved(p, c, q, d, k)
  PROVE  Concurrency(p, c) = Concurrency(q, d)
<1> DEFINE layers(r, cfg) ==
        <<<<TRUE,                             Yes(IF Cores = 0 THEN 1 ELSE Cores)>>,
          <<"threads" \in DOMAIN cfg,         PoolSize(cfg_opt(cfg, "threads"))>>,
          <<cfg_flag(cfg, "single-thread"),   Yes(1)>>,
          <<"concurrency" \in DOMAIN cfg,     PoolSize(cfg_opt(cfg, "concurrency"))>>,
          <<has_flag(r, "threads"),           PoolSize(get_option(r, "threads"))>>,
          <<has_flag(r, "single-thread"),     Yes(1)>>,
          <<has_flag(r, "concurrency"),       PoolSize(get_option(r, "concurrency"))>>>>
       there(r, cfg) == {i \in DOMAIN layers(r, cfg) : layers(r, cfg)[i][1]}
<1>1. ASSUME NEW r, NEW cfg PROVE Concurrency(r, cfg) = layers(r, cfg)[Max(there(r, cfg))][2]
  BY DEF Concurrency
<1>2. ASSUME NEW j \in PoolOptions, j # k
      PROVE  /\ (j \in DOMAIN c) = (j \in DOMAIN d)
             /\ cfg_opt(c, j) = cfg_opt(d, j)
             /\ cfg_flag(c, j) = cfg_flag(d, j)
             /\ has_flag(p, j) = has_flag(q, j)
             /\ get_option(p, j) = get_option(q, j)
  <2>1. /\ (j \in DOMAIN c) = (j \in DOMAIN d)
        /\ j \in DOMAIN c => d[j] = c[j]
        /\ has_flag(p, j) = has_flag(q, j)
        /\ get_option(p, j) = get_option(q, j)
    BY <1>2 DEF Moved, KnowsOneMore, has_flag
  <2> QED
    BY <2>1 DEF cfg_opt, cfg_flag
<1>3. CASE k \notin PoolOptions
  <2>1. layers(p, c) = layers(q, d)
    <3>1. \A j \in {"threads", "single-thread", "concurrency"} : j \in PoolOptions /\ j # k
      BY <1>3 DEF PoolOptions
    <3> QED
      BY <1>2, <3>1, Zenon
  <2>2. there(p, c) = there(q, d)
    BY <2>1, Zenon
  <2> HIDE DEF layers, there
  <2> QED
    BY <1>1, <2>1, <2>2
<1>4. CASE k \in PoolOptions
  <2>1. ASSUME NEW j \in PoolOptions, j # k
        PROVE  /\ ~has_flag(p, j) /\ ~has_flag(q, j) /\ j \notin DOMAIN c /\ j \notin DOMAIN d
               /\ ~cfg_flag(c, j) /\ ~cfg_flag(d, j)
    <3>1. j \notin DOMAIN c \cup p.flags
      BY <1>4, <2>1 DEF Moved
    <3>2. ~has_flag(p, j) /\ j \notin DOMAIN c /\ ~cfg_flag(c, j)
      BY <3>1 DEF has_flag, cfg_flag
    <3> QED
      BY <1>2, <2>1, <3>2
  <2>2. /\ k \in DOMAIN c /\ ~has_flag(p, k) /\ has_flag(q, k) /\ k \notin DOMAIN d
        /\ get_option(q, k) = cfg_opt(c, k) /\ ~cfg_flag(d, k)
    BY DEF Moved, KnowsOneMore, has_flag, cfg_opt, cfg_flag
  <2>3. k = "single-thread" => cfg_flag(c, k)
    <3>1. IsOn(p, c, "single-thread") <=> IsOn(q, d, "single-thread")
      BY MovedLookup DEF Switches
    <3> QED
      BY <2>2, <3>1 DEF IsOn
  <2>4. PICK n \in {2, 3, 4} : /\ n = 2 <=> k = "threads"
                               /\ n = 3 <=> k = "single-thread"
                               /\ n = 4 <=> k = "concurrency"
    BY <1>4 DEF PoolOptions
  <2>5. {"threads", "single-thread", "concurrency"} = PoolOptions
    BY DEF PoolOptions
  <2>6. there(p, c) \in SUBSET Int /\ n \in there(p, c) /\ \A i \in there(p, c) : i <= n
    <3>1. /\ there(p, c) = {i \in 1..7 : layers(p, c)[i][1]}
          /\ layers(p, c)[2][1] = ("threads" \in DOMAIN c)
          /\ layers(p, c)[3][1] = cfg_flag(c, "single-thread")
          /\ layers(p, c)[4][1] = ("concurrency" \in DOMAIN c)
          /\ layers(p, c)[5][1] = has_flag(p, "threads")
          /\ layers(p, c)[6][1] = has_flag(p, "single-thread")
          /\ layers(p, c)[7][1] = has_flag(p, "concurrency")
      OBVIOUS
    <3> HIDE DEF layers, there
    <3>2. \A j \in {"threads", "single-thread", "concurrency"} :
            /\ ~has_flag(p, j)
            /\ j # k => j \notin DOMAIN c /\ ~cfg_flag(c, j)
      BY <2>1, <2>2, <2>5
    <3>3. layers(p, c)[n][1]
      BY <2>2, <2>3, <2>4, <2>5, <1>4, <3>1
    <3>4. ASSUME NEW i \in 1..7, i > n PROVE ~layers(p, c)[i][1]
      <4>1. i \in {3, 4, 5, 6, 7}
        BY <3>4
      <4>2. /\ i = 3 => "single-thread" # k
            /\ i = 4 => "concurrency" # k
        BY <2>4, <3>4
      <4> QED
        BY <3>1, <3>2, <4>1, <4>2
    <3>5. there(p, c) \in SUBSET Int /\ n \in 1..7
      BY <3>1
    <3>6. ASSUME NEW i \in there(p, c) PROVE i <= n
      <4>1. i \in 1..7 /\ layers(p, c)[i][1]
        BY <3>1
      <4> QED
        BY <3>4, <4>1
    <3> QED
      BY <3>1, <3>3, <3>5, <3>6
  <2>7. there(q, d) \in SUBSET Int /\ n + 3 \in there(q, d) /\ \A i \in there(q, d) : i <= n + 3
    BY <2>1, <2>2, <2>3, <2>4, <2>5
  <2>8. layers(p, c)[n][2] = layers(q, d)[n + 3][2]
    BY <2>2, <2>4
  <2> HIDE DEF layers, there
  <2>9. Max(there(p, c)) = n /\ Max(there(q, d)) = n + 3
    BY <2>6, <2>7, MaxIs
  <2> QED
    BY <1>1, <2>8, <2>9
<1> QED
  BY <1>3, <1>4

\* Nor is one refused and the other not.
LEMMA MovedRefused ==
  ASSUME NEW p, NEW c, NEW q, NEW d, NEW k \in Known, Moved(p, c, q, d, k), NEW repos
  PROVE  Refused(p, c, repos) <=> Refused(q, d, repos)
<1>1. Alike(p, c, q, d)
  BY MovedAlike
<1>2. DOMAIN c \subseteq Known <=> DOMAIN d \subseteq Known
  BY DEF Moved
<1>3. p.unknown = q.unknown
  BY DEF Moved, KnowsOneMore
<1>4. \A j \in RequiredTexts :
        Given(p, c, j) /\ Fallback(p, c, j) = <<>> <=> Given(q, d, j) /\ Fallback(q, d, j) = <<>>
  BY <1>1, Zenon DEF Alike
<1>5. LogLevel(p, c) = LogLevel(q, d) /\ SortMode(p, c) = SortMode(q, d) /\ Root(p, c) = Root(q, d)
  BY <1>1, AlikeRoot
<1>6. OnSwitches(p, c) = OnSwitches(q, d)
  BY <1>1, AlikeSwitches
<1>7. RootRequired(p, c) <=> RootRequired(q, d)
  <2>1. Service(p, c) = Service(q, d)
    BY <1>1, AlikeService
  <2>2. {"help", "version"} \cap p.flags = {"help", "version"} \cap q.flags
    <3>1. {"help", "version"} \subseteq CommandLineOnly
      BY DEF CommandLineOnly
    <3>2. CommandLineOnly \cap p.flags = CommandLineOnly \cap q.flags
      BY <1>1 DEF Alike
    <3> QED
      BY <3>1, <3>2
  <2>3. /\ IsOn(p, c, "show-service") <=> IsOn(q, d, "show-service")
        /\ IsOn(p, c, "persist") <=> IsOn(q, d, "persist")
    BY <1>1 DEF Alike, Switches
  <2>4. Given(p, c, "attach") <=> Given(q, d, "attach")
    BY <1>1, Zenon DEF Alike
  <2> QED
    BY <2>1, <2>2, <2>3, <2>4, Zenon DEF RootRequired
<1>8. \A j \in Numerical : NumberOf(p, c, j) = NumberOf(q, d, j)
  BY <1>1, AlikeNumber
<1> DEFINE Unreadable(r, cfg) ==
        \/ ~LayersReadable(cfg)
        \/ \E j \in Numerical : ~NumberOf(r, cfg, j).ok
        \/ \E j \in ThreadNumbers \cap r.flags : ~ReadNumber(j, get_option(r, j)).ok
<1>9. Unreadable(p, c) <=> Unreadable(q, d)
  <2>1. /\ k \in DOMAIN c /\ k \notin p.flags /\ q.flags = p.flags \cup {k}
        /\ get_option(q, k) = c[k] /\ DOMAIN d = DOMAIN c \ {k}
        /\ \A j \in DOMAIN d : d[j] = c[j]
        /\ \A j \in p.flags : get_option(q, j) = get_option(p, j)
    BY DEF Moved, KnowsOneMore
  <2>2. LayersReadable(c)
          <=> /\ LayersReadable(d)
              /\ k \in LayeredNumbers \cup ThreadNumbers => ReadNumber(k, c[k]).ok
    BY <2>1 DEF LayersReadable
  <2>3. (\E j \in ThreadNumbers \cap q.flags : ~ReadNumber(j, get_option(q, j)).ok)
          <=> \/ \E j \in ThreadNumbers \cap p.flags : ~ReadNumber(j, get_option(p, j)).ok
              \/ k \in ThreadNumbers /\ ~ReadNumber(k, c[k]).ok
    BY <2>1
  <2>4. k \in LayeredNumbers => NumberOf(q, d, k) = ReadNumber(k, c[k])
    <3>1. k \in LayeredNumbers => k \notin FallbackNumbers \cup SwitchNumbers
      BY DEF LayeredNumbers, FallbackNumbers, SwitchNumbers
    <3> QED
      BY <2>1, <3>1 DEF NumberOf, ReadIf, Given, has_flag
  <2>5. LayeredNumbers \subseteq Numerical
    BY DEF Numerical
  <2> QED
    BY <1>8, <2>2, <2>3, <2>4, <2>5
<1>10. ASSUME NEW r, NEW cfg
       PROVE  Refused(r, cfg, repos) <=>
                \/ ~(DOMAIN cfg \subseteq Known)
                \/ \E path \in DOMAIN repos :
                     ~(DOMAIN repos[path] \subseteq Known) \/ ~RepoReadable(repos[path])
                \/ r.unknown # {}
                \/ \E j \in RequiredTexts : Given(r, cfg, j) /\ Fallback(r, cfg, j) = <<>>
                \/ LogLevel(r, cfg) \notin LogLevels
                \/ SortMode(r, cfg) \notin SortModes
                \/ Unreadable(r, cfg)
                \/ /\ "mutant" \in OnSwitches(r, cfg)
                   /\ {"confirm-mutant", "sudo-su"} \cap OnSwitches(r, cfg) = {}
                \/ Root(r, cfg) = <<>> /\ RootRequired(r, cfg)
  BY Zenon DEF Refused
<1> HIDE DEF Unreadable
<1> QED
  BY <1>2, <1>3, <1>4, <1>5, <1>6, <1>7, <1>9, <1>10, Zenon

\* The parser of a command line with one more option knows one option more; one it has
\* never heard of is refused.
LEMMA OneMoreParsed ==
  ASSUME NEW a, IsCommandLine(a), NEW k, NEW v, NEW known, NEW short,
         NEW p, p = ArgParser(a, known, short),
         NEW q, q = ArgParser(a \o <<LongIs(k, v)>>, known, short)
  PROVE  /\ k \in known => KnowsOneMore(q, p, k, v)
         /\ k \notin known => k \in q.unknown
<1> DEFINE b == OneMore(a, k, v)
           ra == IsRead(a, short)
           rb == IsRead(b, short)
           said == Says(a, ra, short)
           alone == Positional(a, ra)
<1>1. a \o <<LongIs(k, v)>> = b
  <2>1. PICK w : w = LongIs(k, v)
    OBVIOUS
  <2>2. PICK S : a \in Seq(S) /\ w \in S
    <3>1. a \in Seq(Range(a))
      BY DEF IsCommandLine
    <3>2. a \in Seq(Range(a) \cup {w}) /\ w \in Range(a) \cup {w}
      BY <3>1
    <3> QED
      BY <3>2
  <2>3. a \o <<w>> = Append(a, w)
    BY <2>2
  <2> QED
    BY <2>1, <2>3 DEF OneMore
<1>2. /\ Says(b, rb, short) = Append(said, Valued(k, v))
      /\ Positional(b, rb) = alone
  BY OneMoreSays, OneMorePositional
<1>3. /\ p = Parsed(said, alone, known)
      /\ q = Parsed(Append(said, Valued(k, v)), alone, known)
  BY <1>1, <1>2, Zenon DEF ArgParser
<1>4. PICK S : said \in Seq(S) /\ Valued(k, v) \in S
  <2>1. PICK T : said \in Seq(T)
    BY SaysIsSequence
  <2> HIDE DEF said
  <2>2. PICK w : w = Valued(k, v)
    OBVIOUS
  <2>3. said \in Seq(T \cup {w}) /\ w \in T \cup {w}
    BY <2>1
  <2> QED
    BY <2>2, <2>3
<1> HIDE DEF said, alone
<1>5. k \in known => KnowsOneMore(q, p, k, v)
  BY <1>3, <1>4, ParsedOneMore
<1>6. k \notin known => k \in q.unknown
  <2> DEFINE more == Append(said, Valued(k, v))
  <2>1. Len(said) + 1 \in DOMAIN more /\ more[Len(said) + 1] = Valued(k, v)
    <3>1. PICK w : w = Valued(k, v)
      OBVIOUS
    <3>2. Len(said) + 1 \in DOMAIN Append(said, w) /\ Append(said, w)[Len(said) + 1] = w
      BY <1>4, <3>1
    <3> QED
      BY <3>1, <3>2
  <2>2. Valued(k, v).key = k
    BY DEF Valued
  <2>3. q.unknown = {more[j].key : j \in DOMAIN more} \ known
    BY <1>3 DEF Parsed
  <2> HIDE DEF more
  <2> QED
    BY <2>1, <2>2, <2>3
<1> QED
  BY <1>5, <1>6

\* If not more than one of the options of the pool's size is there, the one that is there
\* is the only one.
LEMMA OnlyOne ==
  ASSUME NEW S, NEW k \in PoolOptions \cap S, ~(Cardinality(PoolOptions \cap S) > 1)
  PROVE  PoolOptions \cap S = {k}
<1> DEFINE T == PoolOptions \cap S
<1>1. IsFiniteSet(T) /\ Cardinality(T) \in Nat
  <2>1. IsFiniteSet(PoolOptions)
    <3>1. IsFiniteSet({}) /\ IsFiniteSet({"threads"}) /\ IsFiniteSet({"single-thread"})
          /\ IsFiniteSet({"concurrency"})
      BY FS_EmptySet, FS_Singleton
    <3>2. IsFiniteSet({"threads"} \cup {"single-thread"})
      BY <3>1, FS_Union
    <3>3. IsFiniteSet({"threads"} \cup {"single-thread"} \cup {"concurrency"})
      BY <3>1, <3>2, FS_Union
    <3>4. PoolOptions = {"threads"} \cup {"single-thread"} \cup {"concurrency"}
      BY DEF PoolOptions
    <3> QED
      BY <3>3, <3>4
  <2> QED
    BY <2>1, FS_Subset, FS_CardinalityType
<1>2. k \in T
  OBVIOUS
<1>3. ASSUME NEW j \in T, j # k PROVE FALSE
  <2>1. {j, k} \subseteq T
    BY <1>2, <1>3
  <2> HIDE DEF T
  <2>2. IsFiniteSet({k}) /\ Cardinality({k}) = 1
    BY FS_Singleton
  <2>3. Cardinality({k} \cup {j}) = 2
    <3>1. j \notin {k}
      BY <1>3
    <3> QED
      BY <2>2, <3>1, FS_AddElement
  <2>4. {k} \cup {j} \subseteq T
    BY <2>1
  <2>5. Cardinality({k} \cup {j}) <= Cardinality(T)
    BY <1>1, <2>4, FS_Subset
  <2> QED
    BY <1>1, <2>3, <2>5 DEF T
<1> QED
  BY <1>2, <1>3

\* The exemptions of ConfigMeansTheSame are what Moved leaves out.
LEMMA MovedOne ==
  ASSUME NEW a, IsCommandLine(a), NEW config, NEW k,
         NEW p, p = ArgParser(a, Known, ShortOptions),
         NEW q, q = ArgParser(a \o <<LongIs(k, config.opts[k])>>, Known, ShortOptions),
         k \in DOMAIN config.opts \ (p.flags \cup NotInConfig), k \in Known,
         ~(k \in Switches /\ config.opts[k] \notin TrueTexts),
         ~(/\ k \in PoolOptions
           /\ Cardinality(PoolOptions \cap (DOMAIN config.opts \cup p.flags)) > 1)
  PROVE  Moved(p, config.opts, q, WithoutKey(config, k).opts, k)
<1> DEFINE c == config.opts
           d == WithoutKey(config, k).opts
<1>1. get_option(p, k) = <<>>
  <2>1. ValuesAreFlags(p)
    BY ParserValues
  <2> QED
    BY <2>1 DEF ValuesAreFlags
<1>2. KnowsOneMore(q, p, k, c[k])
  BY OneMoreParsed
<1>3. d = [x \in {y \in DOMAIN c : y # k} |-> c[x]]
  BY DEF WithoutKey, RestrictDomain, Restrict
<1>4. DOMAIN d = DOMAIN c \ {k} /\ \A j \in DOMAIN d : d[j] = c[j]
  BY <1>3
<1>5. k \in PoolOptions => PoolOptions \cap (DOMAIN c \cup p.flags) = {k}
  BY OnlyOne
<1> HIDE DEF d
<1>6. Moved(p, c, q, d, k)
  BY <1>1, <1>2, <1>4, <1>5 DEF Moved
<1> QED
  BY <1>6 DEF d

\* An option means the same in a configuration file as on the command line: whatever the
\* command line, the configuration and the files are.
LEMMA MovedMeansTheSame ==
  ASSUME NEW a, IsCommandLine(a), NEW config, NEW fs, NEW k,
         NEW p, p = ArgParser(a, Known, ShortOptions),
         k \in DOMAIN config.opts \ (p.flags \cup NotInConfig),
         ~(k \in Switches /\ config.opts[k] \notin TrueTexts),
         ~(/\ k \in PoolOptions
           /\ Cardinality(PoolOptions \cap (DOMAIN config.opts \cup p.flags)) > 1)
  PROVE  SameButWords(Settle(a, config, fs),
                      Settle(a \o <<LongIs(k, config.opts[k])>>, WithoutKey(config, k), fs))
<1> DEFINE b == a \o <<LongIs(k, config.opts[k])>>
           q == ArgParser(b, Known, ShortOptions)
           less == WithoutKey(config, k)
           there == Settle(a, config, fs)
           here == Settle(b, less, fs)
<1>1. /\ there = Settled(p, config.opts, config, fs, a)
      /\ here = Settled(q, less.opts, less, fs, b)
  BY DEF Settle
<1>2. /\ less.ok = config.ok /\ less.repos = config.repos /\ less.file = config.file
  BY DEF WithoutKey
<1>3. CASE k \notin Known
  <2>1. k \in q.unknown
    BY <1>3, OneMoreParsed
  <2>2. Refused(q, less.opts, less.repos)
    <3> HIDE DEF q, less
    <3>1. q.unknown # {}
      BY <2>1
    <3> QED
      BY <3>1, Zenon DEF Refused
  <2>3. Refused(p, config.opts, config.repos)
    <3>1. ~(DOMAIN config.opts \subseteq Known)
      BY <1>3
    <3> QED
      BY <3>1, Zenon DEF Refused
  <2> HIDE DEF q, less, there, here, b
  <2>4. there = Fail /\ here = Fail
    BY <1>1, <2>2, <2>3, Zenon DEF Settled
  <2>5. there.ok = FALSE /\ here.ok = FALSE
    BY <2>4 DEF Fail
  <2>6. SameButWords(there, here)
    BY <2>5 DEF SameButWords
  <2> QED
    BY <2>6 DEF there, here, b, less
<1>4. CASE k \in Known
  <2>1. Moved(p, config.opts, q, less.opts, k)
    BY <1>4, MovedOne
  <2> HIDE DEF q, less, there, here, b
  <2>2. Refused(p, config.opts, config.repos) <=> Refused(q, less.opts, less.repos)
    BY <1>2, <1>4, <2>1, MovedRefused
  <2>3. SameButWords(there, here)
    <3>1. CASE ~config.ok \/ Refused(p, config.opts, config.repos)
      <4>1. there = Fail /\ here = Fail
        BY <1>1, <1>2, <2>2, <3>1, Zenon DEF Settled
      <4>2. there.ok = FALSE /\ here.ok = FALSE
        BY <4>1 DEF Fail
      <4> QED
        BY <4>2 DEF SameButWords
    <3>2. CASE config.ok /\ ~Refused(p, config.opts, config.repos)
      <4>1. there.ok = TRUE /\ here.ok = TRUE
        BY <1>1, <1>2, <2>2, <3>2 DEF Settled
      <4>2. there # Fail /\ here # Fail
        BY <4>1 DEF Fail
      <4>3. /\ Alike(p, config.opts, q, less.opts)
            /\ Concurrency(p, config.opts) = Concurrency(q, less.opts)
        BY <2>1, MovedAlike, MovedPool
      <4>4. here = [there EXCEPT !.original_args = b]
        BY <1>1, <1>2, <4>2, <4>3, AlikeSettled
      <4>5. here.original_args = b
        BY <1>1, <1>2, <2>2, <3>2 DEF Settled
      <4> QED
        BY <4>1, <4>4, <4>5 DEF SameButWords
    <3> QED
      BY <3>1, <3>2
  <2> QED
    BY <2>3 DEF there, here, b, less
<1> QED
  BY <1>3, <1>4

\* An option means the same wherever it is said (the config lookups of options/*.cpp):
\* for every command line, every legal configuration and all files, moving an option from
\* the configuration to the command line changes no setting, nor whether they are refused;
\* texts that a loader may have printed anew from another one (to_string_value in
\* src/config_utils.cpp) are excepted.
THEOREM ConfigurationMeansTheSame == Spec => []ConfigMeansTheSame
<1>1. ListInv => ConfigMeansTheSame
  <2> SUFFICES ASSUME ListInv,
                      NEW k \in DOMAIN Config.opts \ (Parser.flags \cup NotInConfig),
                      ~(k \in Switches /\ Config.opts[k] \notin TrueTexts),
                      ~(/\ k \in PoolOptions
                        /\ Cardinality(PoolOptions \cap (DOMAIN Config.opts \cup Parser.flags)) > 1),
                      Config.opts[k] \notin Reprinted(k)
               PROVE  SameButWords(Settle(args, Config, files),
                                   Settle(args \o <<LongIs(k, Config.opts[k])>>,
                                          WithoutKey(Config, k), files))
    BY DEF ConfigMeansTheSame, Interchangeable
  <2>1. IsCommandLine(args)
    BY DEF ListInv
  <2>2. Parser = ArgParser(args, Known, ShortOptions)
    BY DEF Parser
  <2> QED
    BY <2>1, <2>2, MovedMeansTheSame
<1>2. Spec => []ListInv
  <2>1. Spec => []OptionsInv
    BY OptionsInvariant
  <2> QED
    BY <2>1, InitListInv, NextListInv, PTL DEF Spec
<1> QED
  BY <1>1, <1>2, PTL

-----------------------------------------------------------------------------
(***************************************************************************)
(* The types, and the ranges of the numbers the loop divides and counts    *)
(* by.                                                                     *)
(***************************************************************************)
\* What wraps stays an integer of its kind.
LEMMA SignedIsInt == ASSUME NEW n \in Int PROVE Signed(n) \in Int
<1> DEFINE half == 2^(LongBits - 1)
<1>1. half \in Nat \ {0} /\ 2^LongBits = 2 * half
  BY Widths
<1>2. Signed(n) = ((n + half) % 2^LongBits) - half
  BY DEF Signed
<1> HIDE DEF half
<1>3. (n + half) % (2 * half) \in Int
  BY <1>1
<1> QED
  BY <1>1, <1>2, <1>3

\* So it does without a sign.
LEMMA UnsignedIsNat == ASSUME NEW n \in Int PROVE Unsigned(n) \in Nat
<1> DEFINE half == 2^(LongBits - 1)
<1>1. half \in Nat \ {0} /\ 2^LongBits = 2 * half
  BY Widths
<1> HIDE DEF half
<1>2. n % (2 * half) \in Nat
  BY <1>1
<1> QED
  BY <1>1, <1>2 DEF Unsigned

\* A conversion always has an integer, if it refuses the text 0.
LEMMA StollIsInt == ASSUME NEW t PROVE stoll(t).n \in Int
<1>1. \A numeral \in DOMAIN NumeralValue : NumeralValue[numeral] \in Int
  BY NumbersAssumption, Widths
<1>2. ASSUME NEW n \in Int PROVE Yes(n).n \in Int
  BY DEF Yes
<1>3. No.n \in Int
  BY DEF No
<1> QED
  BY <1>1, <1>2, <1>3 DEF stoll, IsNumeral

\* So has a duration.
LEMMA DurationIsInt ==
  ASSUME NEW t
  PROVE  parse_duration(t).n \in Int /\ parse_time_ms(t).n \in Int
<1>1. ASSUME NEW u, NEW factor \in Nat PROVE Times(stoll(u), factor).n \in Int
  <2>1. stoll(u).n * factor \in Int
    BY StollIsInt
  <2>2. Signed(stoll(u).n * factor) \in Int
    BY <2>1, SignedIsInt
  <2> QED
    BY <2>2 DEF Times, Yes, No
<1>2. ASSUME NEW units, \A x \in DOMAIN units : units[x] \in Nat \ {0},
             NEW default \in DOMAIN units
      PROVE  Scaled(t, units, default).n \in Int
  <2>1. No.n \in Int
    BY DEF No
  <2>2. \A u : \A x \in DOMAIN units : Times(stoll(u), units[x]).n \in Int
    BY <1>1, <1>2
  <2> QED
    BY <1>2, <2>1, <2>2, Zenon DEF Scaled
<1> QED
  BY <1>2, UnitSizes DEF parse_duration, parse_time_ms

\* What passed a check of bounds is within them.
LEMMA BoundedIsWithin ==
  ASSUME NEW r, r.n \in Int, NEW min \in Int, NEW max \in Int, Bounded(r, min, max).ok
  PROVE  Bounded(r, min, max).n \in min..max
  BY DEF Bounded, No

\* A size of the pool that is accepted is positive.
LEMMA PoolIsPositive ==
  ASSUME NEW t, PoolSize(t).ok
  PROVE  PoolSize(t).n > 0
<1> DEFINE r == stoull(t)
<1>1. r.n \in Int
  BY StollIsInt, UnsignedIsNat DEF stoull, Yes, No
<1>2. 2^LongBits - 1 \in Int
  BY Widths
<1>3. PoolSize(t) = Bounded(r, 1, 2^LongBits - 1)
  BY DEF PoolSize, parse_size_t
<1> HIDE DEF r
<1>4. PoolSize(t).n \in 1..(2^LongBits - 1)
  BY <1>1, <1>2, <1>3, BoundedIsWithin
<1> QED
  BY <1>2, <1>4

\* The numbers the loop divides and counts by are in their ranges if they are accepted,
\* whoever sets them.
LEMMA NumbersInRange ==
  ASSUME NEW p, NEW c
  PROVE  /\ NumberOf(p, c, "interval").ok => NumberOf(p, c, "interval").n \in 1..IntMax
         /\ NumberOf(p, c, "cpu-poll").ok => NumberOf(p, c, "cpu-poll").n \in 1..UIntMax
         /\ NumberOf(p, c, "refresh-rate").ok => NumberOf(p, c, "refresh-rate").n > 0
<1>1. IntMax \in Int /\ IntMax > 30 /\ UIntMax \in Int /\ UIntMax > 5 /\ 2^LongBits \in Int
  BY NumbersAssumption, Widths
<1>2. ASSUME NEW k \in {"interval", "cpu-poll", "refresh-rate"}
      PROVE  \E t : NumberOf(p, c, k) \in {ReadNumber(k, t), Yes(DefaultNumber(k))}
  BY DEF NumberOf, ReadIf, FallbackNumbers, LayeredNumbers, SwitchNumbers
<1>3. ASSUME NEW t, ReadNumber("interval", t).ok
      PROVE  ReadNumber("interval", t).n \in 1..IntMax
  BY <1>1, <1>3, Rules, DurationIsInt, BoundedIsWithin
<1>4. ASSUME NEW t, ReadNumber("cpu-poll", t).ok
      PROVE  ReadNumber("cpu-poll", t).n \in 1..UIntMax
  BY <1>1, <1>4, Rules, DurationIsInt, BoundedIsWithin
<1>5. ASSUME NEW t, ReadNumber("refresh-rate", t).ok
      PROVE  ReadNumber("refresh-rate", t).n \in 1..2^LongBits
  BY <1>1, <1>5, Rules, DurationIsInt, BoundedIsWithin
<1>6. /\ Yes(DefaultNumber("interval")).n = 30 /\ Yes(DefaultNumber("cpu-poll")).n = 5
      /\ Yes(DefaultNumber("refresh-rate")).n = 250
  BY DEF Yes, DefaultNumber
<1>7. \A n \in 1..2^LongBits : n > 0
  BY <1>1
<1> QED
  BY <1>1, <1>2, <1>3, <1>4, <1>5, <1>6, <1>7

\* The pool has a worker, whichever of the layers that set its size is the last: a
\* configuration is read to the end, and the flags of the command line are.
LEMMA ConcurrencyInRange ==
  ASSUME NEW p, NEW c, LayersReadable(c),
         \A k \in ThreadNumbers \cap p.flags : ReadNumber(k, get_option(p, k)).ok
  PROVE  Concurrency(p, c).n > 0
<1> DEFINE layers ==
        <<<<TRUE,                             Yes(IF Cores = 0 THEN 1 ELSE Cores)>>,
          <<"threads" \in DOMAIN c,         PoolSize(cfg_opt(c, "threads"))>>,
          <<cfg_flag(c, "single-thread"),   Yes(1)>>,
          <<"concurrency" \in DOMAIN c,     PoolSize(cfg_opt(c, "concurrency"))>>,
          <<has_flag(p, "threads"),           PoolSize(get_option(p, "threads"))>>,
          <<has_flag(p, "single-thread"),     Yes(1)>>,
          <<has_flag(p, "concurrency"),       PoolSize(get_option(p, "concurrency"))>>>>
          there == {i \in DOMAIN layers : layers[i][1]}
<1>0. layers[1] = <<TRUE, Yes(IF Cores = 0 THEN 1 ELSE Cores)>>
  BY Zenon
<1>1. there \in SUBSET (1..7) /\ 1 \in there
  <2>1. DOMAIN layers = 1..7
    OBVIOUS
  <2>2. \A x : <<TRUE, x>>[1] = TRUE
    OBVIOUS
  <2> HIDE DEF layers
  <2>3. layers[1][1] = TRUE
    BY <1>0, <2>2, Zenon
  <2>4. 1 \in 1..7
    OBVIOUS
  <2>5. 1 \in there
    BY <2>1, <2>3, <2>4, Zenon
  <2> QED
    BY <2>1, <2>5
<1>2. Max(there) \in there
  <2> HIDE DEF there
  <2>1. PICK m \in 1..7 : m \in there /\ \A n \in 1..7 : n > m => n \notin there
    <3>1. \/ 7 \in there
          \/ 7 \notin there /\ 6 \in there
          \/ {7, 6} \cap there = {} /\ 5 \in there
          \/ {7, 6, 5} \cap there = {} /\ 4 \in there
          \/ {7, 6, 5, 4} \cap there = {} /\ 3 \in there
          \/ {7, 6, 5, 4, 3} \cap there = {} /\ 2 \in there
          \/ {7, 6, 5, 4, 3, 2} \cap there = {}
      OBVIOUS
    <3> QED
      BY <1>1, <3>1
  <2>2. \A n \in there : n <= m
    BY <1>1, <2>1
  <2>3. there \in SUBSET Int
    BY <1>1
  <2>4. Max(there) = m
    BY <2>1, <2>2, <2>3, MaxIs
  <2> QED
    BY <2>1, <2>4
<1>3. ASSUME NEW i \in there PROVE layers[i][2].n > 0
  <2>1. Yes(1).n > 0 /\ Yes(IF Cores = 0 THEN 1 ELSE Cores).n > 0
    BY CoresAssumption DEF Yes
  <2>2. ASSUME NEW k \in ThreadNumbers, k \in DOMAIN c PROVE PoolSize(cfg_opt(c, k)).n > 0
    <3>1. ReadNumber(k, c[k]) = PoolSize(c[k]) /\ ReadNumber(k, c[k]).ok
      BY <2>2, Rules DEF LayersReadable
    <3> QED
      BY <2>2, <3>1, PoolIsPositive DEF cfg_opt
  <2>3. ASSUME NEW k \in ThreadNumbers, has_flag(p, k)
        PROVE  PoolSize(get_option(p, k)).n > 0
    <3>1. ReadNumber(k, get_option(p, k)) = PoolSize(get_option(p, k))
      BY Rules
    <3>2. ReadNumber(k, get_option(p, k)).ok
      BY <2>3 DEF has_flag
    <3> QED
      BY <3>1, <3>2, PoolIsPositive
  <2>4. "threads" \in ThreadNumbers /\ "concurrency" \in ThreadNumbers
    BY DEF ThreadNumbers
  <2>5. i \in 1..7 /\ layers[i][1]
    OBVIOUS
  <2>6. ASSUME i = 1 PROVE layers[i][2].n > 0
    <3> HIDE DEF layers
    <3> QED
      BY <1>0, <2>1, <2>6
  <2>7. ASSUME i = 2 PROVE layers[i][2].n > 0
    BY <2>2, <2>4, <2>5, <2>7
  <2>8. ASSUME i \in {3, 6} PROVE layers[i][2].n > 0
    BY <2>1, <2>8
  <2>9. ASSUME i = 4 PROVE layers[i][2].n > 0
    BY <2>2, <2>4, <2>5, <2>9
  <2>10. ASSUME i \in {5, 7} PROVE layers[i][2].n > 0
    BY <2>3, <2>4, <2>5, <2>10
  <2> HIDE DEF layers
  <2> QED
    BY <2>5, <2>6, <2>7, <2>8, <2>9, <2>10
<1>4. Concurrency(p, c) = layers[Max(there)][2]
  BY DEF Concurrency
<1> HIDE DEF layers, there
<1> QED
  BY <1>2, <1>3, <1>4

\* Options that are not refused are in range.
LEMMA ReadInRange ==
  ASSUME NEW a, NEW fs, parse_options(a, fs).ok
  PROVE  InRange(parse_options(a, fs))
<1> DEFINE p == ArgParser(a, Known, ShortOptions)
           config == load_config_and_auto(a, fs)
           c == config.opts
           read == parse_options(a, fs)
<1>1. read = Settled(p, c, config, fs, a)
  BY DEF parse_options, Settle
<1>2. read # Fail
  BY DEF Fail
<1>3. {"interval", "refresh-rate", "cpu-poll"} \subseteq Numerical
  BY DEF Numerical, LayeredNumbers
<1> HIDE DEF p, config, read, c
<1>4. ~Refused(p, c, config.repos)
  BY <1>1, <1>2 DEF Settled
<1>5. /\ read.numbers = [k \in Numerical |-> NumberOf(p, c, k).n]
      /\ read.concurrency = Concurrency(p, c).n
  BY <1>1, <1>2 DEF Settled
<1>6. /\ LayersReadable(c)
      /\ \A k \in Numerical : NumberOf(p, c, k).ok
      /\ \A k \in ThreadNumbers \cap p.flags : ReadNumber(k, get_option(p, k)).ok
  BY <1>4, Zenon DEF Refused
<1>7. read.concurrency > 0
  BY <1>5, <1>6, ConcurrencyInRange
<1>8. ASSUME NEW k \in {"interval", "refresh-rate", "cpu-poll"}
      PROVE  read.numbers[k] = NumberOf(p, c, k).n /\ NumberOf(p, c, k).ok
  BY <1>3, <1>5, <1>6
<1>9. /\ read.numbers["interval"] \in 1..IntMax
      /\ read.numbers["cpu-poll"] \in 1..UIntMax
      /\ read.numbers["refresh-rate"] > 0
  BY <1>8, NumbersInRange
<1> QED
  BY <1>7, <1>9 DEF InRange, read

\* They have the settings mutant mode changes.
LEMMA NumbersRead ==
  ASSUME NEW a, NEW fs, parse_options(a, fs).ok
  PROVE  /\ {"ok", "on", "numbers", "concurrency"} \subseteq DOMAIN parse_options(a, fs)
         /\ DOMAIN parse_options(a, fs).numbers = Numerical
<1> DEFINE p == ArgParser(a, Known, ShortOptions)
           config == load_config_and_auto(a, fs)
           read == parse_options(a, fs)
<1>1. read = Settled(p, config.opts, config, fs, a)
  BY DEF parse_options, Settle
<1>2. read # Fail
  BY DEF Fail
<1> HIDE DEF p, config, read
<1>3. {"ok", "on", "numbers", "concurrency"} \subseteq DOMAIN read
  BY <1>1, <1>2 DEF Settled
<1>4. read.numbers = [k \in Numerical |-> NumberOf(p, config.opts, k).n]
  BY <1>1, <1>2 DEF Settled
<1> QED
  BY <1>3, <1>4 DEF read

\* Mutant mode raises a short interval and leaves the other numbers of the loop alone.
LEMMA MutantInRange ==
  ASSUME NEW o, InRange(o), NEW state \in MutantStates,
         {"ok", "on", "numbers", "concurrency"} \subseteq DOMAIN o,
         DOMAIN o.numbers = Numerical
  PROVE  InRange(apply_mutant_mode(o, state))
<1>1. CASE ~o.ok \/ "mutant" \notin o.on
  BY <1>1 DEF apply_mutant_mode
<1>2. CASE o.ok /\ "mutant" \in o.on
  <2> DEFINE m == apply_mutant_mode(o, state)
  <2>0. {"interval", "refresh-rate", "cpu-poll", "pull-timeout", "updated-since"}
          \subseteq Numerical
    BY DEF Numerical, LayeredNumbers, FallbackNumbers
  <2>1. m.ok = o.ok /\ m.concurrency = o.concurrency
    BY <1>2 DEF apply_mutant_mode
  <2>2. m.numbers = [[[o.numbers EXCEPT
                       !["interval"] = AtLeast(IfPositive(state.interval, @), 5)] EXCEPT
                       !["pull-timeout"] = IfPositive(state.timeout, IF @ = 0 THEN 30 ELSE @)] EXCEPT
                       !["updated-since"] = IF @ = 0 THEN 3600 ELSE @]
    BY <1>2, <2>0 DEF apply_mutant_mode
  <2> HIDE DEF m
  <2>3. /\ m.numbers["interval"] = AtLeast(IfPositive(state.interval, o.numbers["interval"]), 5)
        /\ m.numbers["refresh-rate"] = o.numbers["refresh-rate"]
        /\ m.numbers["cpu-poll"] = o.numbers["cpu-poll"]
    BY <2>0, <2>2
  <2>4. IntMax \in Nat /\ IntMax > 5
    BY NumbersAssumption, Widths
  <2>6. state.interval \in 0..IntMax
    BY StartsAssumption
  <2>5. m.numbers["interval"] \in 1..IntMax
    BY <2>3, <2>4, <2>6 DEF InRange, AtLeast, IfPositive
  <2> QED
    BY <2>1, <2>3, <2>5 DEF InRange, m
<1> QED
  BY <1>1, <1>2

\* What a start or a reload makes of the command line is in range.
LEMMA StartInRange ==
  ASSUME NEW a, NEW fs, NEW state \in MutantStates,
         NEW o, o = apply_mutant_mode(parse_options(a, fs), state), o.ok
  PROVE  InRange(o)
<1> DEFINE read == parse_options(a, fs)
<1>1. {"ok", "on", "original_args", "include_dirs"} \subseteq DOMAIN read
  BY ReadDomain DEF apply_mutant_mode, Fail
<1>2. read.ok
  <2> HIDE DEF read
  <2> QED
    BY <1>1, MutantOnly DEF read
<1>3. InRange(read)
  BY <1>2, ReadInRange
<1>4. /\ {"ok", "on", "numbers", "concurrency"} \subseteq DOMAIN read
      /\ DOMAIN read.numbers = Numerical
  BY <1>2, NumbersRead
<1> HIDE DEF read
<1> QED
  BY <1>3, <1>4, MutantInRange DEF read

\* The places a scan of the roots finds, in some order, are a row.
LEMMA ListInARow ==
  ASSUME NEW tree, IsTree(tree), NEW roots, IsFiniteSet(DOMAIN roots),
         NEW recursive, NEW ignore, NEW max_depth,
         NEW list, list = build_repo_list(tree, roots, recursive, ignore, max_depth)
  PROVE  list \in Seq(Range(list))
<1>0. PICK order : \E n \in Nat :
        /\ build_repo_list(tree, roots, recursive, ignore, max_depth)
             = [j \in 1..n |-> Shown(tree, roots[order[j][1]], order[j][2])]
        /\ \A i \in 1..n : \E r \in DOMAIN roots, p \in DOMAIN tree :
             /\ order[i] = <<r, p>>
             /\ p \in Entries(tree, roots[r], recursive, ignore, max_depth)
             /\ Listed(tree, roots[r], p, recursive, ignore, max_depth)
        /\ \A i, j \in 1..n : order[i] = order[j] => i = j
  BY FoundInOrder, Zenon
<1>1. PICK n \in Nat : list = [j \in 1..n |-> Shown(tree, roots[order[j][1]], order[j][2])]
  BY <1>0, Zenon
<1>2. DOMAIN list = 1..n /\ list = [j \in 1..n |-> list[j]]
  BY <1>1
<1>3. \A j \in 1..n : list[j] \in Range(list)
  BY <1>2 DEF Range
<1> QED
  BY <1>2, <1>3

\* The list the loop scans is a row, in every mode.
LEMMA PreparedInARow ==
  ASSUME NEW tree, IsTree(tree), NEW o, NEW n \in Nat, DOMAIN o.include_dirs = 1..n
  PROVE  Prepared(o, tree) \in Seq(Range(Prepared(o, tree)))
<1> DEFINE root == PathOf(o.root)
           include == [i \in DOMAIN o.include_dirs |-> PathOf(o.include_dirs[i])]
           ignore == [i \in DOMAIN o.ignore_dirs |-> IgnorePattern(o.ignore_dirs[i])]
           list == build_repo_list(tree, <<root>> \o include, "recursive" \in o.on, ignore,
                                   o.numbers["max-depth"])
<1>1. CASE "single-repo" \in o.on
  <2>1. Prepared(o, tree) = <<[name |-> root, real |-> Real(tree, root)]>>
    BY <1>1, Zenon DEF Prepared, prepare_repos
  <2> QED
    BY <2>1, RangeOfOne
<1>2. CASE "single-repo" \notin o.on
  <2>1. Prepared(o, tree) = list
    BY <1>2, Zenon DEF Prepared, prepare_repos
  <2>2. IsFiniteSet(DOMAIN (<<root>> \o include))
    BY RootsAreFinite
  <2>3. list \in Seq(Range(list))
    <3> HIDE DEF root, include, ignore
    <3> QED
      BY <2>2, ListInARow
  <2> QED
    BY <2>1, <2>3
<1> QED
  BY <1>1, <1>2

\* Nothing was read, listed or edited yet.
LEMMA InitTypeOK == Init => TypeOK
<1>1. <<>> \in Seq(Range(<<>>))
  BY RangeOfOne
<1> SUFFICES ASSUME Init PROVE TypeOK
  OBVIOUS
<1>2. phase = "start" /\ all_repos = <<>> /\ attempts = 0 /\ edits = 0 /\ config_changed = FALSE
  BY DEF Init
<1>3. edits \in 0..MaxEdits /\ attempts \in Nat
  BY <1>2, StartsAssumption
<1>4. all_repos \in Seq(Range(all_repos))
  BY <1>1, <1>2, Zenon
<1> QED
  BY <1>2, <1>3, <1>4 DEF TypeOK

\* Each action keeps the types; a start and a reload bring new options, and those two and
\* the rounds of the waiting a new list.
LEMMA NextTypeOK == TypeOK /\ ListInv /\ OptionsInv /\ [Next]_vars => TypeOK'
<1> SUFFICES ASSUME TypeOK, ListInv, OptionsInv, [Next]_vars PROVE TypeOK'
  OBVIOUS
<1>1. CASE Start
  <2>1. phase' \in {"opening", "ended"}
    BY <1>1 DEF Start
  <2>2. phase' = "opening" => opts'.ok
    BY <1>1 DEF Start
  <2>3. phase' = "opening" => InRange(opts')
    BY <1>1, <2>2, StartInRange DEF Start
  <2>4. UNCHANGED <<all_repos, attempts, edits, config_changed>>
    BY <1>1 DEF Start
  <2> QED
    BY <2>1, <2>3, <2>4 DEF TypeOK
<1>2. CASE Open
  <2>1. phase = "opening" /\ opts' = opts /\ UNCHANGED <<attempts, edits, config_changed>>
    BY <1>2 DEF Open
  <2>2. all_repos' = all_repos \/ all_repos' = Prepared(opts, disk)
    BY <1>2 DEF Open
  <2>3. phase' \in {"waiting", "monitoring", "ended"}
    BY <1>2 DEF Open, AfterList
  <2>4. Prepared(opts, disk) \in Seq(Range(Prepared(opts, disk)))
    BY <2>1, PreparedInARow DEF ListInv
  <2> QED
    BY <2>1, <2>2, <2>3, <2>4 DEF TypeOK
<1>3. CASE Retry
  <2>1. phase = "waiting" /\ opts' = opts /\ UNCHANGED <<edits, config_changed>>
    BY <1>3 DEF Retry
  <2>2. all_repos' = Prepared(opts, disk)
    BY <1>3 DEF Retry
  <2>3. phase' \in {"waiting", "monitoring", "ended"}
    BY <1>3 DEF Retry, AfterList
  <2>4. Prepared(opts, disk) \in Seq(Range(Prepared(opts, disk)))
    BY <2>1, PreparedInARow DEF ListInv
  <2>5. attempts' \in Nat
    BY <1>3 DEF Retry, TypeOK
  <2> QED
    BY <2>1, <2>2, <2>3, <2>4, <2>5 DEF TypeOK
<1>4. CASE Reload
  <2> DEFINE read == parse_options(args, files)
  <2>1. /\ phase = "monitoring" /\ opts.original_args = args
        /\ phase' = phase /\ config_changed' = FALSE /\ UNCHANGED <<attempts, edits>>
    BY <1>4 DEF Reload, OptionsInv
  <2>2. CASE read.ok
    <3>1. opts' = read /\ all_repos' = Prepared(read, disk)
      BY <1>4, <2>1, <2>2 DEF Reload, Adopt
    <3>2. InRange(read)
      BY <2>2, ReadInRange
    <3>3. IsCommandLine(args) /\ IsTree(disk)
      BY DEF ListInv
    <3>4. PICK n \in Nat : DOMAIN read.include_dirs = 1..n
      BY <2>2, <3>3, IncludesInARow
    <3> HIDE DEF read
    <3>5. Prepared(read, disk) \in Seq(Range(Prepared(read, disk)))
      BY <3>3, <3>4, PreparedInARow
    <3> QED
      BY <2>1, <3>1, <3>2, <3>5 DEF TypeOK
  <2>3. CASE ~read.ok
    <3>1. UNCHANGED <<opts, all_repos>>
      BY <1>4, <2>1, <2>3 DEF Reload, Adopt
    <3> QED
      BY <2>1, <3>1 DEF TypeOK
  <2> QED
    BY <2>2, <2>3
<1>5. CASE EditFiles \/ EditDisk
  <2>1. /\ UNCHANGED <<phase, opts, all_repos, attempts>>
        /\ edits < MaxEdits /\ edits' = edits + 1
        /\ config_changed' \in {config_changed, TRUE}
    BY <1>5 DEF EditFiles, EditDisk
  <2>2. edits' \in 0..MaxEdits
    BY <2>1, StartsAssumption DEF TypeOK
  <2> QED
    BY <2>1, <2>2 DEF TypeOK
<1>6. CASE Monitoring \/ UNCHANGED vars
  BY <1>6 DEF Monitoring, vars, TypeOK
<1> QED
  BY <1>1, <1>2, <1>3, <1>4, <1>5, <1>6 DEF Next

\* The types of the variables; a run that monitors has options in force whose interval,
\* refresh rate, polling period and pool size are positive and fit their types, whatever
\* the layers they come from, before and after a reload (parse_options in src/options.cpp).
THEOREM StartupTypeCorrect == Spec => []TypeOK
<1>1. Spec => [](ListInv /\ OptionsInv)
  BY InitListInv, NextListInv, OptionsInvariant, PTL DEF Spec
<1> QED
  BY <1>1, InitTypeOK, NextTypeOK, PTL DEF Spec
=============================================================================
