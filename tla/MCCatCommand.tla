----------------------------- MODULE MCCatCommand ----------------------------
(***************************************************************************)
(* TLC instance of CatCommand with the options of handle_cat.  A letter    *)
(* may stand for several: the commands differ in their first letters, and  *)
(* the long options are abbreviated to nothing, to "t" or "a", or whole.   *)
(***************************************************************************)
EXTENDS CatCommand

CONSTANT MaxArgs   (* bound: the elements of argv behind the file          *)

MCToupper == [c \in {"c", "a", "t", "h"} |-> IF c = "c" THEN "C" ELSE IF c = "a" THEN "A"
                                             ELSE IF c = "t" THEN "T" ELSE "H"]
Option(name, val) == [name |-> name, has_arg |-> "no", flag |-> "", val |-> val]
MCCallers ==
  <<[function |-> "getopt_long", optstring |-> <<"t", "a">>, optind |-> 3,
     longopts |-> <<Option(<<"t", "racks">>, "t"), Option(<<"a", "lphabet-table">>, "a")>>]>>

Long(s) == <<"-", "-">> \o s
Arguments ==
  {<<"x">>, <<"-">>, Long(<< >>), <<"-", "t">>, <<"-", "a", "t">>, <<"-", "t", "z">>,
   Long(<<"t">>), Long(<<"a", "lphabet-table">>), Long(<<"t", "z">>), Long(<<"a", "=">>),
   Long(<<"=">>)}

Program == <<"catapult">>
Verbs == {<<"c", "A", "t">>, <<"C", "A", "T", "s">>, <<"C", "A">>,
          <<"c", "h", "E", "C", "K", "S", "U", "M">>, <<"C", "h", "t">>, << >>, <<"-", "t">>}
Files == {<<"f">>, <<"-", "t">>}

Vector(s) == [k \in 0 .. Len(s) - 1 |-> s[k + 1]]
MCCommandLines ==
  <<{Vector(<< >>), Vector(<<Program>>)}
      \cup {Vector(<<Program, v>>) : v \in Verbs}
      \cup {Vector(<<Program, v, f>>) : v \in Verbs, f \in Files}
      \cup {Vector(<<Program, v, f>> \o s) :
              v \in {<<"c", "A", "t">>}, f \in Files,
              s \in UNION {[1 .. n -> Arguments] : n \in 1 .. MaxArgs}}>>
==============================================================================
