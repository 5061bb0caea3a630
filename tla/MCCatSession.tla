----------------------------- MODULE MCCatSession ----------------------------
(***************************************************************************)
(* TLC instance of CatSession: files of no cup and of one, the latter with *)
(* a short name and numbers of the largest bytes, among them one that just *)
(* is and one that just is not negative as an int, and a file that is not  *)
(* in the format.                                                          *)
(***************************************************************************)
EXTENDS CatSession

MC == INSTANCE MCImages

Large(b) == [k \in DOMAIN b |-> CASE k \in {27} \cup 134 .. 136      -> 0
                                  [] k = 49                         -> 128
                                  [] k = 53                         -> 127
                                  [] k \in 54 .. 72 \cup 152 .. 160 -> 255 - b[k]
                                  [] OTHER                          -> b[k]]

MCContents   == {MC!MCConfig(0), Large(MC!MCConfig(1)), <<80, 85>>}
MCMemories   == {[after |-> MC!Tail1, fill |-> 67]}
MCStacks     == {MC!MCStack(170, 1)}
MCAppStates  == {[show_tracks |-> TRUE, show_alphabet_table |-> TRUE],
                 [show_tracks |-> TRUE, show_alphabet_table |-> FALSE]}
==============================================================================
