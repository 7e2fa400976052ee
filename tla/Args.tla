-------------------------------- MODULE Args --------------------------------
(***************************************************************************)
(* ArgParser (include/arg_parser.hpp): which words of a command line are   *)
(* options, which are their values and which stand alone.                  *)
(*                                                                         *)
(* A text is a sequence of atoms, <<>> the empty string: <<"5", "h">> is   *)
(* "5h".  A word of the command line is                                    *)
(*                                                                         *)
(*   [form |-> "long",  key, eq, text]  --key, or --key=text if eq         *)
(*   [form |-> "short", letters, text]  -letters, or -letters=text         *)
(*   [form |-> "word",  text]           what does not begin with a dash    *)
(***************************************************************************)
EXTENDS Naturals, SequencesExt

Long(key) == [form |-> "long", key |-> key, eq |-> FALSE, text |-> <<>>]
LongIs(key, text) == [form |-> "long", key |-> key, eq |-> TRUE, text |-> text]
Short(letters) == [form |-> "short", letters |-> letters, text |-> <<>>]
Word(text) == [form |-> "word", text |-> text]

\* What a process can be started with: words in a row, and letters in a row.
IsCommandLine(args) ==
  /\ args \in Seq(Range(args))
  /\ \A i \in DOMAIN args :
       /\ args[i].form \in {"long", "short", "word"}
       /\ args[i].form = "short" => args[i].letters \in Seq(Range(args[i].letters))

\* What a word looks like to an option that takes it as its value.
Spelt(arg) == IF arg.form = "short" THEN <<"-">> \o arg.letters \o arg.text ELSE arg.text

\* The letters of a short word that are options: up to the first that is not.
Mapped(arg, short) ==
  LET unmapped == {j \in DOMAIN arg.letters : arg.letters[j] \notin DOMAIN short}
  IN  IF unmapped = {} THEN Len(arg.letters) ELSE Min(unmapped) - 1

\* Does the word at i take the next one as its value?  A long option takes
\* whatever does not begin with "--", known or not; a short one, the last of its
\* letters, what does not begin with "-".
Swallows(args, i, short) ==
  /\ i < Len(args)
  /\ \/ /\ args[i].form = "long"
        /\ ~args[i].eq
        /\ args[i + 1].form # "long"
     \/ /\ args[i].form = "short"
        /\ Mapped(args[i], short) = Len(args[i].letters)
        /\ args[i].text = <<>>
        /\ args[i + 1].form = "word"

\* The words that are looked at, as the first and as those nobody swallowed.
IsRead(args, short) ==
  LET read[i \in 0..Len(args)] ==
        i > 0 /\ ~(read[i - 1] /\ Swallows(args, i - 1, short))
  IN  read

\* What one word says: a sequence of options, the valued ones with their value.
Flag(key) == [key |-> key, valued |-> FALSE, val |-> <<>>]
Valued(key, val) == [key |-> key, valued |-> TRUE, val |-> val]

LongSays(args, i, short) ==
  IF args[i].eq THEN <<Valued(args[i].key, args[i].text)>>
  ELSE IF Swallows(args, i, short) THEN <<Valued(args[i].key, Spelt(args[i + 1]))>>
  ELSE <<Flag(args[i].key)>>

\* The last of the option letters takes what follows the letters, the "=", or the
\* next word; the ones before it are flags.
ShortSays(args, i, short) ==
  LET arg  == args[i]
      last == Mapped(arg, short)
      val  == IF last < Len(arg.letters) \/ arg.text # <<>>
                THEN SubSeq(arg.letters, last + 1, Len(arg.letters)) \o arg.text
              ELSE IF Swallows(args, i, short) THEN Spelt(args[i + 1]) ELSE <<>>
  IN  IF last = 0 THEN <<Flag(Head(arg.letters))>>
      ELSE [j \in 1..last |->
              IF j = last /\ val # <<>> THEN Valued(short[arg.letters[j]], val)
                                        ELSE Flag(short[arg.letters[j]])]

\* What the words that are read say, and those of them that stand alone.
Says(args, read, short) ==
  FlattenSeq([i \in DOMAIN args |->
    IF ~read[i] \/ args[i].form = "word" THEN <<>>
    ELSE IF args[i].form = "long" THEN LongSays(args, i, short)
    ELSE ShortSays(args, i, short)])

Positional(args, read) ==
  FlattenSeq([i \in DOMAIN args |->
    IF read[i] /\ args[i].form = "word" THEN <<args[i].text>> ELSE <<>>])

\* An option that is not known is only remembered as such, but it has taken its
\* value like the others.  values has them all, options the last of each option.
Parsed(says, positional, known) ==
  LET valued == {j \in DOMAIN says : says[j].valued /\ says[j].key \in known}
  IN  [flags      |-> {says[j].key : j \in DOMAIN says} \cap known,
       options    |-> [key \in {says[j].key : j \in valued} |->
                         says[Max({j \in valued : says[j].key = key})].val],
       values     |-> [j \in valued |-> says[j]],
       unknown    |-> {says[j].key : j \in DOMAIN says} \ known,
       positional |-> positional]

ArgParser(args, known, short) ==
  Parsed(Says(args, IsRead(args, short), short), Positional(args, IsRead(args, short)), known)

has_flag(parser, key) == key \in parser.flags

get_all_options(parser, key) ==
  LET of == {j \in DOMAIN parser.values : parser.values[j].key = key}
      nth(n) == CHOOSE j \in of : Cardinality({i \in of : i <= j}) = n
  IN  [n \in 1..Cardinality(of) |-> parser.values[nth(n)].val]

\* The last value; "" if there is none.
get_option(parser, key) ==
  IF key \in DOMAIN parser.options THEN parser.options[key] ELSE <<>>
=============================================================================
