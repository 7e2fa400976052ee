------------------------------ MODULE Numbers ------------------------------
(***************************************************************************)
(* The conversions of src/parse_utils.cpp.  A text is a sequence of atoms  *)
(* (see Args): an optional "-", a numeral, an optional "." with a second   *)
(* numeral, and units or other letters.  Numerals are atoms whose value    *)
(* NumeralValue gives.  The integers of the program have                   *)
(*                                                                         *)
(*   IntMax, UIntMax   the largest int and unsigned int                    *)
(*   LongBits          the width of long long, unsigned long long, size_t  *)
(*                                                                         *)
(* and products wrap: sizes because they are unsigned, durations because   *)
(* the build multiplies them so (the language leaves it undefined).        *)
(* A conversion returns [ok, n]; n is 0 where the code returns 0 without   *)
(* setting ok.  Percentages are counted in tenths.                         *)
(***************************************************************************)
EXTENDS Integers, SequencesExt

CONSTANTS
  IntMax, UIntMax, LongBits, NumeralValue,
  BaseZero   \* the value of the numerals that base 0 reads otherwise, as octal

ASSUME NumbersAssumption ==
  /\ LongBits \in Nat /\ LongBits > 1
  /\ IntMax \in 32767..2^(LongBits - 1) - 1
  /\ UIntMax \in IntMax..2^(LongBits - 1) - 1
  /\ \A numeral \in DOMAIN NumeralValue : NumeralValue[numeral] \in 0..2^(LongBits - 1) - 1
  /\ \A numeral \in DOMAIN BaseZero : BaseZero[numeral] \in 0..2^(LongBits - 1) - 1

IsNumeral(atom) == atom \in DOMAIN NumeralValue

No == [ok |-> FALSE, n |-> 0]
Yes(n) == [ok |-> TRUE, n |-> n]
\* Mutation: only the lower bound is checked before the value is narrowed.
BoundedBelow(r, min, max) == IF r.ok /\ min <= r.n THEN r ELSE No

Bounded(r, min, max) == IF r.ok /\ min <= r.n /\ r.n <= max THEN r ELSE No

Signed(n) ==
  LET half == 2^(LongBits - 1)
  IN  ((n + half) % 2^LongBits) - half
Unsigned(n) == n % 2^LongBits

-----------------------------------------------------------------------------
\* std::stoi, std::stoll: the number the text begins with; what follows it is
\* not looked at.  (IntMax bounds stoi, and the callers' bounds are tighter.)
stoll(t) ==
  CASE Len(t) > 0 /\ IsNumeral(t[1]) -> Yes(NumeralValue[t[1]])
    [] Len(t) > 1 /\ t[1] = "-" /\ IsNumeral(t[2]) -> Yes(-NumeralValue[t[2]])
    [] OTHER -> No

\* std::stoul, std::stoull: a minus sign is accepted, and wraps.
stoull(t) == LET r == stoll(t) IN IF r.ok THEN Yes(Unsigned(r.n)) ELSE No

parse_int(t, min, max) == Bounded(Bounded(stoll(t), -IntMax - 1, IntMax), min, max)

parse_uint(t, min, max) == Bounded(stoull(t), min, max)

parse_size_t(t, min) == Bounded(stoull(t), min, 2^LongBits - 1)

\* With base 0.
parse_ull(t) ==
  CASE Len(t) > 0 /\ t[1] \in DOMAIN BaseZero -> Yes(BaseZero[t[1]])
    [] Len(t) > 1 /\ t[1] = "-" /\ t[2] \in DOMAIN BaseZero -> Yes(Unsigned(-BaseZero[t[2]]))
    [] OTHER -> stoull(t)

\* A number with at most one decimal, and nothing after it.
Tenths(t) ==
  CASE /\ \/ Len(t) = 1
          \/ Len(t) = 2 /\ t[2] = "."
       /\ IsNumeral(t[1]) -> Yes(10 * NumeralValue[t[1]])
    [] /\ \/ Len(t) = 2
          \/ Len(t) = 3 /\ IsNumeral(t[1])
       /\ t[Len(t) - 1] = "."
       /\ IsNumeral(Last(t))
       /\ NumeralValue[Last(t)] < 10 ->
         Yes((IF Len(t) = 3 THEN 10 * NumeralValue[t[1]] ELSE 0) + NumeralValue[Last(t)])
    [] OTHER -> No

parse_double(t, min, max) ==
  Bounded(IF t # <<>> /\ t[1] = "-" THEN [Tenths(Tail(t)) EXCEPT !.n = -@] ELSE Tenths(t),
          10 * min, 10 * max)

-----------------------------------------------------------------------------
Seconds ==
  [s |-> 1, m |-> 60, h |-> 3600, d |-> 86400, w |-> 604800, M |-> 2592000, Y |-> 31536000]

\* A number of a unit, by default the smallest, not negative.
Times(r, factor) == IF r.ok /\ r.n >= 0 THEN Yes(Signed(r.n * factor)) ELSE No

Scaled(t, units, default) ==
  CASE t = <<>> -> No
    [] t # <<>> /\ Last(t) \in DOMAIN units -> Times(stoll(Front(t)), units[Last(t)])
    [] t # <<>> /\ IsNumeral(Last(t)) -> Times(stoll(t), units[default])
    [] OTHER -> No

parse_duration(t) == Scaled(t, Seconds, "s")

Milliseconds == [ms |-> 1, s |-> 1000, m |-> 60000]

parse_time_ms(t) == Scaled(t, Milliseconds, "ms")

\* The exponents of the units of parse_bytes; an atom stands for either case.
unit_multiplier ==
  [B |-> 0, K |-> 10, KB |-> 10, M |-> 20, MB |-> 20, G |-> 30, GB |-> 30,
   T |-> 40, TB |-> 40, P |-> 50, PB |-> 50]

\* base * mul, modulo 2^LongBits.
Shift(base, e) == IF e >= LongBits THEN 0 ELSE (base % 2^(LongBits - e)) * 2^e

Sized(r, e) == IF r.ok THEN Yes(Shift(r.n, e)) ELSE No

parse_bytes(t) ==
  CASE t = <<>> -> No
    [] t # <<>> /\ IsNumeral(Last(t)) -> Sized(stoull(t), unit_multiplier["B"])
    [] t # <<>> /\ Last(t) \in DOMAIN unit_multiplier -> Sized(stoull(t), unit_multiplier[Last(t)])
    [] OTHER -> No
\* A numeral is none of the atoms the conversions compare with.
ASSUME NumeralsAssumption ==
  (DOMAIN NumeralValue \cup DOMAIN BaseZero) \cap ({"-", ".", ",", "%"} \cup DOMAIN Seconds \cup DOMAIN Milliseconds
                                                 \cup DOMAIN unit_multiplier) = {}
=============================================================================
