---------------------------- MODULE ArgvRotation -----------------------------
(***************************************************************************)
(* What exchange of src/src/getopt/getopt.c is for: two adjacent parts of  *)
(* argv change places, each in its own order.  argv is a function on       *)
(* 0 .. argc - 1.                                                          *)
(***************************************************************************)
EXTENDS Integers

IsVector(a, n) == a = [k \in 0 .. n - 1 |-> a[k]]

(* a with its elements [b, m) behind those of [m, t). *)
Rotated(a, b, m, t) ==
  [k \in DOMAIN a |->
     IF b <= k /\ k < b + (t - m) THEN a[k + (m - b)]
     ELSE IF b + (t - m) <= k /\ k < t THEN a[k - (t - m)]
     ELSE a[k]]
==============================================================================
