------------------------------ MODULE AtomicLoad -----------------------------
(***************************************************************************)
(* What a program would like of the loading of a file by its name while    *)
(* others replace the file: that it takes the whole contents that the name *)
(* stood for at one moment of the call, or answers that it has nothing.    *)
(*                                                                         *)
(* Contents that may be absent are a set of at most one element.           *)
(***************************************************************************)
CONSTANT Contents   (* what a file may hold: sequences                     *)

VARIABLES
  current,   (* what the name stands for                                   *)
  phase,     (* of the call: asked, taken or answered                      *)
  taken,     (* what the call took                                         *)
  answer     (* what it answers: << >> if it has nothing                   *)

loadVars == <<current, phase, taken, answer>>

Optional(S) == {{}} \cup {{c} : c \in S}

LoadInit ==
  /\ current \in Optional(Contents)
  /\ phase = "asked" /\ taken = {} /\ answer = << >>

(* Somebody puts another file in the place of this one, or removes it. *)
Replaced ==
  /\ current' \in Optional(Contents)
  /\ UNCHANGED <<phase, taken, answer>>

(* The moment of the call. *)
Take ==
  /\ phase = "asked" /\ phase' = "taken"
  /\ taken' \in {current, {}}
  /\ UNCHANGED <<current, answer>>

Answer ==
  /\ phase \in {"asked", "taken"} /\ phase' = "answered"
  /\ answer' \in taken \cup {<< >>}
  /\ UNCHANGED <<current, taken>>

LoadNext == Replaced \/ Take \/ Answer
LoadSpec == LoadInit /\ [][LoadNext]_loadVars
==============================================================================
