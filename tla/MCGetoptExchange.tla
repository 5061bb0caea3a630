--------------------------- MODULE MCGetoptExchange --------------------------
(***************************************************************************)
(* TLC instance of GetoptExchange: vectors of elements that all differ, so *)
(* that every element can be followed.                                     *)
(***************************************************************************)
EXTENDS GetoptExchange

MCArgvs == {[k \in 0 .. n - 1 |-> k] : n \in 0 .. MaxArgc}
==============================================================================
