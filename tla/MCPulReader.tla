----------------------------- MODULE MCPulReader -----------------------------
(***************************************************************************)
(* TLC instance of PulReader: well-formed files with zero to three cups,   *)
(* files with each section's magic damaged, files cut in every section,    *)
(* and a file whose header places the INFO section four bytes further on.  *)
(***************************************************************************)
EXTENDS PulReader

MC == INSTANCE MCImages

MCShifted ==
  MC!MCHeader(40, 148) \o <<9, 9, 9, 9>> \o MC!MCInfo \o MC!MCCups(0)

MCImages ==
  {MC!MCFile(n) : n \in 0 .. 3}
    \cup {MC!Damaged(MC!MCFile(1), K) : K \in {{1}, {37}, {117}, {1, 117}}}
    \cup {MC!Truncated(MC!MCFile(1), n) : n \in {2, 35, 50, 118, 135, 160, 215, 224}}
    \cup {MCShifted}

(* Behind a buffer lie zeroes, or the remains of a well-formed file, cut   *)
(* where most of the truncated files are.                                  *)
MCMemories ==
  {[after |-> << >>, fill |-> 0],
   [after |-> MC!Tail1, fill |-> 67]}
MCStackStructs == {MC!MCStack(0, 0), MC!MCStack(170, 1)}
==============================================================================
