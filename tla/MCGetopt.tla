------------------------------- MODULE MCGetopt ------------------------------
(***************************************************************************)
(* TLC instance of Getopt: every command line of up to MaxAny elements of  *)
(* all kinds, and of up to MaxFew of the kinds that argv is permuted for,  *)
(* for a caller as handle_cat is one; and lines of up to MaxOther elements *)
(* for callers that ask for something else.                                *)
(*                                                                         *)
(* The option t takes no argument, o takes one and p may take one; the     *)
(* long ones are "tr", "ok", "te" and "uf", of which the last sets a flag, *)
(* and of which "t" abbreviates two.                                       *)
(***************************************************************************)
EXTENDS Getopt

CONSTANTS MaxAny, MaxFew, MaxOther

Mark == <<"-", "-">>
Short(s) == <<"-">> \o s
Long(s)  == <<"-", "-">> \o s
Option(name, has_arg, flag, val) ==
  [name |-> name, has_arg |-> has_arg, flag |-> flag, val |-> val]

MCLong == <<Option(<<"t", "r">>, "no", "", "t"), Option(<<"o", "k">>, "required", "", "o"),
            Option(<<"t", "e">>, "optional", "", "p"), Option(<<"u", "f">>, "no", "flag", "u")>>

Few == {<<"x">>, <<"-">>, Mark, Short(<<"t">>), Short(<<"o">>)}
Any == Few \cup {Short(<<"t", "o">>), Short(<<"o", "t">>), Short(<<"p">>),
                 Short(<<"z", "t">>), Short(<<"t", "p", "o">>),
                 Long(<<"t", "r">>), Long(<<"t", "e", "=", "v">>),
                 Long(<<"t", "r", "=", "v">>), Long(<<"t">>),
                 Long(<<"o">>), Long(<<"o", "=">>), Long(<<"u">>), Long(<<"=">>)}
InOrder == {<<"x">>, Mark, Short(<<"t">>), Short(<<"o">>), Short(<<"+">>),
            Short(<<"-", "t">>), Long(<<"o">>)}
LongOnly == {<<"x">>, Mark, Short(<<"t">>), Short(<<"t", "r">>), Short(<<"t", "x">>),
             Short(<<"o", "=", "v">>), Short(<<"z">>), Short(<<"p", "o">>), Long(<<"p">>)}
Capital == {<<"x">>, Mark, <<"t", "r">>, <<"t">>, <<"o">>, <<"o", "=", "v">>,
            Short(<<"W">>), Short(<<"t", "W">>),
            Short(<<"W", "t", "r", "=", "v">>), Short(<<"W", "u">>)}

Vectors(before, S, n) ==
  {[k \in 0 .. Len(v) - 1 |-> v[k + 1]] :
     v \in {before \o s : s \in UNION {[1 .. m -> S] : m \in 0 .. n}}}
Program == <<<<"c">>>>
MCCommandLines ==
  <<Vectors(Program \o <<<<"C">>, <<"f">>>>, Any, MaxAny)
      \cup Vectors(Program \o <<<<"C">>, <<"f">>>>, Few, MaxFew),
    Vectors(Program, InOrder, MaxOther), Vectors(Program, InOrder, MaxOther),
    Vectors(Program, InOrder, MaxOther), Vectors(Program, InOrder, MaxOther),
    Vectors(Program, LongOnly, MaxOther), Vectors(Program, Capital, MaxOther)>>

Caller(function, letters, ind) ==
  [function |-> function, optstring |-> letters, longopts |-> MCLong, optind |-> ind]
MCCallers ==
  <<Caller("getopt_long", <<"t", "o", ":", "p", ":", ":">>, 3),
    Caller("getopt", <<"t", "o", ":">>, 0),
    Caller("getopt", <<":", "o", ":", "t">>, 1),
    Caller("getopt_long", <<"+", ":", "o", ":", "t">>, 1),
    Caller("getopt_long", <<"-", "t", "o", ":">>, 0),
    Caller("getopt_long_only", <<"t", "o", ":", "p", ":", ":">>, 1),
    Caller("getopt_long", <<"t", "W", ";">>, 1)>>
==============================================================================
