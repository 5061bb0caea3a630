---------------------------- MODULE GetoptExchange ---------------------------
(***************************************************************************)
(* exchange of src/src/getopt/getopt.c: the skipped non-options, elements  *)
(* [first_nonopt, last_nonopt) of argv, and the options processed since,   *)
(* elements [last_nonopt, optind), change places without another array.    *)
(* The shorter part is swapped, element by element, with the far end of    *)
(* the longer one, which leaves a smaller exchange of the same kind.       *)
(***************************************************************************)
EXTENDS ArgvRotation

CONSTANTS
  Argvs,    (* the vectors checked                                         *)
  MaxArgc   (* bound: their length                                         *)

ASSUME ArgcAssumption  == MaxArgc \in Nat
ASSUME ArgvsAssumption ==
  \A a \in Argvs : \E n \in 0 .. MaxArgc : IsVector(a, n)

VARIABLES
  argv,
  first_nonopt, last_nonopt, optind,
  bottom, middle, top,   (* the part that is still to be exchanged         *)
  i,                     (* of the swaps of one round                      *)
  before,                (* the state when exchange was called             *)
  pc

exVars == <<argv, first_nonopt, last_nonopt, optind, bottom, middle, top, i,
            before, pc>>

ExchangeInit ==
  /\ argv \in Argvs
  /\ first_nonopt \in DOMAIN argv /\ last_nonopt \in DOMAIN argv
  /\ optind \in {k + 1 : k \in DOMAIN argv}
  /\ first_nonopt < last_nonopt /\ last_nonopt < optind
  /\ bottom = first_nonopt /\ middle = last_nonopt /\ top = optind
  /\ i = 0
  /\ before = [argv |-> argv, first |-> first_nonopt, last |-> last_nonopt]
  /\ pc = "while"

(* Variant: the longer part taken for the shorter one. *)
BottomIsLong == ~(top - middle > middle - bottom)

BottomIsShort == top - middle > middle - bottom

(* The length of the shorter part, and what it is swapped with.            *)
SwapLen == IF BottomIsShort THEN middle - bottom ELSE top - middle

(* Variant: next to the shorter part and not at the far end. *)
PartnerNear == middle
Partner == IF BottomIsShort THEN top - (middle - bottom) ELSE middle

Enter ==
  /\ pc = "while" /\ top > middle /\ middle > bottom
  /\ i' = 0 /\ pc' = "for"
  /\ UNCHANGED <<argv, first_nonopt, last_nonopt, optind, bottom, middle, top,
                 before>>

Swap ==
  /\ pc = "for" /\ i < SwapLen
  /\ argv' = [argv EXCEPT ![bottom + i] = argv[Partner + i],
                          ![Partner + i] = argv[bottom + i]]
  /\ i' = i + 1
  /\ UNCHANGED <<first_nonopt, last_nonopt, optind, bottom, middle, top,
                 before, pc>>

(* Variant: the part that was moved is not left out of the next round. *)
NothingExcluded ==
  /\ pc = "for" /\ i = SwapLen
  /\ pc' = "while"
  /\ UNCHANGED <<argv, first_nonopt, last_nonopt, optind, bottom, middle, top,
                 i, before>>

(* The part that was moved is in its place. *)
Exclude ==
  /\ pc = "for" /\ i = SwapLen
  /\ top' = IF BottomIsShort THEN top - SwapLen ELSE top
  /\ bottom' = IF BottomIsShort THEN bottom ELSE bottom + SwapLen
  /\ pc' = "while"
  /\ UNCHANGED <<argv, first_nonopt, last_nonopt, optind, middle, i, before>>

(* Variants: the length of the options forgotten, and taken after the      *)
(* rounds have used up top.                                                *)
RelocateTooFar ==
  /\ pc = "while" /\ ~(top > middle /\ middle > bottom)
  /\ first_nonopt' = first_nonopt + optind
  /\ last_nonopt' = optind
  /\ pc' = "returned"
  /\ UNCHANGED <<argv, optind, bottom, middle, top, i, before>>
RelocateByTop ==
  /\ pc = "while" /\ ~(top > middle /\ middle > bottom)
  /\ first_nonopt' = first_nonopt + (top - middle)
  /\ last_nonopt' = optind
  /\ pc' = "returned"
  /\ UNCHANGED <<argv, optind, bottom, middle, top, i, before>>

Relocate ==
  /\ pc = "while" /\ ~(top > middle /\ middle > bottom)
  /\ first_nonopt' = first_nonopt + (optind - last_nonopt)
  /\ last_nonopt' = optind
  /\ pc' = "returned"
  /\ UNCHANGED <<argv, optind, bottom, middle, top, i, before>>

ExchangeNext == Enter \/ Swap \/ Exclude \/ Relocate

(* exchange is called by a process that the system schedules. *)
ExchangeSpec == ExchangeInit /\ [][ExchangeNext]_exVars /\ WF_exVars(ExchangeNext)
------------------------------------------------------------------------------
(* Types; and every index stays within the part of argv that getopt has    *)
(* scanned.                                                                *)
ExchangeTypeOK ==
  /\ \E n \in 0 .. MaxArgc : DOMAIN argv = 0 .. n - 1 /\ optind \in 1 .. n
  /\ first_nonopt \in 0 .. optind - 1 /\ last_nonopt \in 0 .. optind
  /\ bottom \in 0 .. optind /\ middle \in 0 .. optind /\ top \in 0 .. optind
  /\ i \in Nat
  /\ pc \in {"while", "for", "returned"}

(* No swap leaves the two parts, and the elements that one round swaps     *)
(* with each other do not overlap, so that none is moved twice.            *)
SwapsApart ==
  pc = "for" =>
    /\ before.first <= bottom /\ bottom + SwapLen <= Partner
    /\ Partner + SwapLen <= optind

(* Every element that exchange has let go of is where it belongs: what is  *)
(* left is an exchange of the rest.                                        *)
OutsideInPlace ==
  LET goal == Rotated(before.argv, before.first, before.last, optind)
  IN \A k \in DOMAIN argv : k < bottom \/ k >= top => argv[k] = goal[k]

(* When exchange returns, the options come first and the non-options       *)
(* after them, both in their old order, nothing else has moved, and the    *)
(* records describe where the non-options are now.                         *)
Exchanged ==
  pc = "returned" =>
    /\ argv = Rotated(before.argv, before.first, before.last, optind)
    /\ last_nonopt - first_nonopt = before.last - before.first
    /\ \A k \in 0 .. last_nonopt - first_nonopt - 1 :
         argv[first_nonopt + k] = before.argv[before.first + k]

(* Each step costs, and what the exchange may cost at most is a multiple   *)
(* of the number of elements to exchange: a round swaps no more elements   *)
(* than it lets go of, and lets go of one at least.                        *)
StepsLeft ==
  IF pc = "returned" THEN 0
  ELSE IF pc = "while" THEN 3 * (top - bottom) + 1
  ELSE 3 * (top - bottom) - i
ExchangeIsLinear == [][0 <= StepsLeft' /\ StepsLeft' < StepsLeft]_exVars

(* The rounds become smaller until nothing is left. *)
ExchangeEnds == <>(pc = "returned")
==============================================================================
