-------------------------------- MODULE Getopt -------------------------------
(***************************************************************************)
(* _getopt_internal of src/src/getopt/getopt.c, behind getopt, getopt_long *)
(* and getopt_long_only, in the hands of a caller that calls it until it   *)
(* returns -1.  argv is permuted while it is scanned, so that the options  *)
(* come first; a static nextchar remembers the place in an element that    *)
(* holds several options.                                                  *)
(*                                                                         *)
(* An element of argv, a name and optstring are sequences of letters, of   *)
(* which "-", "=", "+", ":" and ";" are some; a letter of the model may    *)
(* stand for several.  What is printed on stderr is left out.              *)
(***************************************************************************)
EXTENDS ArgvRotation, Sequences

CONSTANTS
  Callers,       (* the callers checked: a sequence of the functions they  *)
                 (* call, with what optstring, what table of long options, *)
                 (* and what optind to begin with                          *)
  CommandLines,  (* and on which vectors: a sequence of sets               *)
  MaxArgc        (* bound: the length of a vector                          *)

Functions == {"getopt", "getopt_long", "getopt_long_only"}
HasArg    == {"no", "required", "optional"}

IsText(s) == s \in Seq({s[k] : k \in DOMAIN s})

(* getopt has no table for -W to look at, and no option is the -1 that     *)
(* tells that there are no more.                                           *)
IsCaller(c) ==
  /\ c.function \in Functions /\ c.optind \in Nat
  /\ IsText(c.optstring) /\ IsText(c.longopts)
  /\ \A k \in DOMAIN c.longopts :
       /\ IsText(c.longopts[k].name)
       /\ c.longopts[k].has_arg \in HasArg /\ c.longopts[k].val # "-1"
  /\ \A k \in DOMAIN c.optstring :
       c.optstring[k] # "-1" /\ (c.function = "getopt" => c.optstring[k] # ";")

ASSUME GetoptConstants ==
  /\ MaxArgc \in Nat
  /\ \A w \in DOMAIN Callers :
       /\ IsCaller(Callers[w])
       /\ \A a \in CommandLines[w] : \E n \in 0 .. MaxArgc :
            IsVector(a, n) /\ \A k \in 0 .. n - 1 : IsText(a[k])

VARIABLES
  who,                         (* the caller                               *)
  argc, argv,
  optind, nextchar,            (* nextchar: 0 at the end of an element      *)
  first_nonopt, last_nonopt,
  initialized, ordering,
  optstring,                   (* as the call in progress works with it    *)
  optarg,    (* << >> for NULL, or the text                                *)
  optopt,    (* "" for 0                                                   *)
  longind, flags,   (* *longind, and what flags have been set              *)
  opt,       (* what the last call returned                                *)
  start,     (* argv before the first call                                 *)
  seen,      (* the options returned so far, with their arguments          *)
  pc

scanVars   == <<argv, optind, first_nonopt, last_nonopt>>
onceVars   == <<who, argc, start, initialized, ordering, optstring>>
resultVars == <<optarg, optopt, longind, flags, opt, seen>>
getoptVars == <<scanVars, onceVars, resultVars, nextchar, pc>>

Function    == Callers[who].function
LongOptions == Callers[who].longopts

(* A caller that sets optind to 0 means 1. *)
FirstArg == IF Callers[who].optind = 0 THEN 1 ELSE Callers[who].optind

GetoptStatics(ind) ==
  /\ \E n \in 0 .. MaxArgc : argc = n /\ DOMAIN argv = 0 .. n - 1
  /\ optind = ind /\ nextchar = 0
  /\ first_nonopt = 0 /\ last_nonopt = 0
  /\ initialized = FALSE /\ ordering = "REQUIRE_ORDER" /\ optstring = << >>
  /\ optarg = << >> /\ optopt = "?" /\ longind = 0 /\ flags = {}
  /\ opt = "" /\ start = argv /\ seen = << >>
  /\ pc = "call"

GetoptInit ==
  /\ who \in DOMAIN Callers
  /\ argv \in CommandLines[who]
  /\ GetoptStatics(Callers[who].optind) /\ FirstArg <= argc

(* The letter at k, or NUL. *)
At(s, k)   == IF k \in DOMAIN s THEN s[k] ELSE ""
From(s, k) == SubSeq(s, k, Len(s))

(* NONOPTION_P, and "--". *)
Nonoption(a) == At(a, 1) # "-" \/ Len(a) = 1
EndsOptions(a) == a = <<"-", "-">>

Return(o, arg) ==
  /\ opt' = o /\ optarg' = arg /\ pc' = "returned"
  /\ seen' = IF o = "-1" THEN seen ELSE Append(seen, <<o, arg>>)

(* _getopt_initialize: a first letter of optstring can say how to deal     *)
(* with non-options, and so can POSIXLY_CORRECT, which may be set or not.  *)
(* The letter is left out of optstring by the first call only.             *)
OptstringOf(w, first) ==
  LET s == Callers[w].optstring
  IN  IF first /\ At(s, 1) \in {"-", "+"} THEN Tail(s) ELSE s
Orderings(w) ==
  LET mark == At(Callers[w].optstring, 1)
  IN  IF mark = "-" THEN {"RETURN_IN_ORDER"}
      ELSE IF mark = "+" THEN {"REQUIRE_ORDER"}
      ELSE {"PERMUTE", "REQUIRE_ORDER"}

(* Variant: the place in a cluster is forgotten from call to call. *)
CallAfresh ==
  /\ pc = "call"
  /\ optarg' = << >> /\ nextchar' = 0 /\ initialized' = TRUE
  /\ optstring' = OptstringOf(who, ~initialized)
  /\ IF initialized
     THEN UNCHANGED <<optind, first_nonopt, last_nonopt, ordering>>
     ELSE /\ optind' = FirstArg
          /\ first_nonopt' = optind' /\ last_nonopt' = optind'
          /\ ordering' \in Orderings(who)
  /\ pc' = "skip"
  /\ UNCHANGED <<who, argc, argv, optopt, longind, flags, opt, start, seen>>

(* The first call initialises. *)
Call ==
  /\ pc = "call"
  /\ optarg' = << >> /\ initialized' = TRUE
  /\ optstring' = OptstringOf(who, ~initialized)
  /\ IF initialized
     THEN UNCHANGED <<optind, first_nonopt, last_nonopt, nextchar, ordering>>
     ELSE /\ optind' = IF optind = 0 THEN 1 ELSE optind
          /\ first_nonopt' = optind' /\ last_nonopt' = optind' /\ nextchar' = 0
          /\ ordering' \in Orderings(who)
  /\ pc' = IF nextchar' = 0 THEN "skip" ELSE "decode"
  /\ UNCHANGED <<who, argc, argv, optopt, longind, flags, opt, start, seen>>

(* Options that follow skipped non-options are exchanged with them, and    *)
(* further non-options are skipped.                                        *)
Skip ==
  /\ pc = "skip" /\ optind <= argc /\ pc' = "element"
  /\ LET last  == IF last_nonopt > optind THEN optind ELSE last_nonopt
         first == IF first_nonopt > optind THEN optind ELSE first_nonopt
         moved == first # last /\ last # optind
     IN  IF ordering = "PERMUTE"
         THEN /\ argv' = IF moved THEN Rotated(argv, first, last, optind) ELSE argv
              /\ first_nonopt' = IF moved THEN first + (optind - last)
                                 ELSE IF last # optind THEN optind ELSE first
              /\ optind' \in optind .. argc
              /\ \A k \in optind .. optind' - 1 : Nonoption(argv[k])
              /\ optind' < argc => ~Nonoption(argv[optind'])
              /\ last_nonopt' = optind'
         ELSE /\ first_nonopt' = first /\ last_nonopt' = last
              /\ UNCHANGED <<argv, optind>>
  /\ UNCHANGED <<onceVars, resultVars, nextchar>>

(* An ambiguous -W has taken optind past the end: what the call looks at   *)
(* lies behind argv.                                                       *)
LookBehind ==
  /\ pc = "skip" /\ optind > argc
  /\ pc' = "fault"
  /\ UNCHANGED <<onceVars, scanVars, resultVars, nextchar>>

(* Variant: "--" is seen and not stepped over. *)
EndMarkNotPassed ==
  /\ pc = "element" /\ optind # argc /\ EndsOptions(argv[optind])
  /\ UNCHANGED getoptVars

(* "--" is moved like an option, and all after it is skipped. *)
EndMark ==
  /\ pc = "element" /\ optind # argc /\ EndsOptions(argv[optind])
  /\ LET top   == optind + 1
         moved == first_nonopt # last_nonopt /\ last_nonopt # top
     IN  /\ argv' = IF moved THEN Rotated(argv, first_nonopt, last_nonopt, top)
                    ELSE argv
         /\ first_nonopt' = IF moved THEN first_nonopt + (top - last_nonopt)
                            ELSE IF first_nonopt = last_nonopt THEN top
                            ELSE first_nonopt
  /\ last_nonopt' = argc /\ optind' = argc
  /\ UNCHANGED <<onceVars, resultVars, nextchar, pc>>

(* Variant: optind is left at the end. *)
FinishAtEnd ==
  /\ pc = "element" /\ optind = argc
  /\ Return("-1", optarg)
  /\ UNCHANGED <<onceVars, scanVars, nextchar, optopt, longind, flags>>

Finish ==
  /\ pc = "element" /\ optind = argc
  /\ optind' = IF first_nonopt # last_nonopt THEN first_nonopt ELSE optind
  /\ Return("-1", optarg)
  /\ UNCHANGED <<onceVars, argv, first_nonopt, last_nonopt, nextchar, optopt,
                 longind, flags>>

(* A non-option that was not skipped ends the scan or is given to the      *)
(* caller, as the argument of an option 1.                                 *)
MeetNonoption ==
  /\ pc = "element" /\ optind # argc /\ Nonoption(argv[optind])
  /\ \/ ordering = "REQUIRE_ORDER" /\ Return("-1", optarg) /\ UNCHANGED optind
     \/ ordering # "REQUIRE_ORDER" /\ Return("1", <<argv[optind]>>)
          /\ optind' = optind + 1
  /\ UNCHANGED <<onceVars, argv, first_nonopt, last_nonopt, nextchar, optopt,
                 longind, flags>>

OpenOption ==
  /\ pc = "element" /\ optind # argc
  /\ ~Nonoption(argv[optind]) /\ ~EndsOptions(argv[optind])
  /\ nextchar' = IF Function # "getopt" /\ argv[optind][2] = "-" THEN 3 ELSE 2
  /\ pc' = "decode"
  /\ UNCHANGED <<onceVars, scanVars, resultVars>>

------------------------------------------------------------------------------
(* The options whose names begin as a text does, up to a "=".  An exact    *)
(* match ends the search; otherwise the first one counts, and it is        *)
(* ambiguous if there is another one, which getopt_long puts up with if it *)
(* means the same.                                                         *)
IsPrefixOf(s, t) == Len(s) <= Len(t) /\ s = SubSeq(t, 1, Len(s))
FirstOf(K) == CHOOSE k \in K : \A j \in K : k <= j
NameIn(s)  == SubSeq(s, 1, FirstOf({k \in 0 .. Len(s) : At(s, k + 1) \in {"=", ""}}))
HasValue(s) == Len(NameIn(s)) < Len(s)
Value(s)   == From(s, Len(NameIn(s)) + 2)

Candidates(s) == {k \in DOMAIN LongOptions : IsPrefixOf(NameIn(s), LongOptions[k].name)}
Exact(s)      == {k \in Candidates(s) : Len(LongOptions[k].name) = Len(NameIn(s))}
Found(s)      == FirstOf(IF Exact(s) # {} THEN Exact(s) ELSE Candidates(s))
Ambiguous(s, strict) ==
  /\ Exact(s) = {}
  /\ \E k \in Candidates(s) \ {Found(s)} :
       LET p == LongOptions[k]
           q == LongOptions[Found(s)]
       IN  strict \/ p.has_arg # q.has_arg \/ p.flag # q.flag \/ p.val # q.val

(* What optstring os says of a letter. *)
Has(os, c) == \E k \in DOMAIN os : os[k] = c
Kind(os, c) ==
  LET k == FirstOf({j \in DOMAIN os : os[j] = c})
  IN  IF ~Has(os, c) \/ c = ":" THEN "unknown"
      ELSE IF c = "W" /\ At(os, k + 1) = ";" THEN "W"
      ELSE IF At(os, k + 1) # ":" THEN "no"
      ELSE IF At(os, k + 2) # ":" THEN "required" ELSE "optional"

(* An option that lacks its argument. *)
Missing(os) == IF At(os, 1) = ":" THEN ":" ELSE "?"

(***************************************************************************)
(* What a call finds in the element a at place j, with the elements behind *)
(* it: the option, its argument, how many elements it is done with, or at  *)
(* which place in this one the next option is, what it says of an option   *)
(* that it does not like, and which long one it found.                     *)
(***************************************************************************)
Finding(o, arg, n) == [opt |-> o, arg |-> arg, past |-> n, place |-> 0,
                       unknown |-> << >>, long |-> 0]
Refused(o, arg, n, c) == [Finding(o, arg, n) EXCEPT !.unknown = <<c>>]
(* The flag of a long option is set, or its value returned. *)
FoundLong(k, arg, n) ==
  LET p == LongOptions[k]
  IN  [Finding(IF p.flag = "" THEN p.val ELSE "0", arg, n) EXCEPT !.long = k]

(* A long option: one that is none in getopt_long_only may be a cluster.   *)
IsLong(os, a, j) ==
  /\ Function # "getopt"
  /\ \/ a[2] = "-"
     \/ /\ Function = "getopt_long_only"
        /\ Len(a) > 2 \/ ~Has(os, a[2])
        /\ Candidates(From(a, j)) # {} \/ ~Has(os, a[j])

LongAt(os, a, j, behind) ==
  LET s == From(a, j)
      p == LongOptions[Found(s)]
  IN  IF Candidates(s) = {} \/ Ambiguous(s, Function = "getopt_long_only")
        THEN Refused("?", << >>, 1, "")
      ELSE IF HasValue(s)
        THEN IF p.has_arg = "no" THEN Refused("?", << >>, 1, p.val)
             ELSE FoundLong(Found(s), <<Value(s)>>, 1)
      ELSE IF p.has_arg # "required" THEN FoundLong(Found(s), << >>, 1)
      ELSE IF behind = << >> THEN Refused(Missing(os), << >>, 1, p.val)
      ELSE FoundLong(Found(s), <<behind[1]>>, 2)

(* The letters of a cluster are returned one by one, up to the first that  *)
(* takes the rest of it, or the next element, as its argument.             *)
ShortAt(os, a, j, behind) ==
  LET c == a[j]
      last == j = Len(a)
      plain(o) == [Finding(o, << >>, IF last THEN 1 ELSE 0)
                     EXCEPT !.place = IF last THEN 0 ELSE j + 1]
  IN  CASE Kind(os, c) = "unknown" -> [plain("?") EXCEPT !.unknown = <<c>>]
        [] Kind(os, c) = "no" -> plain(c)
        [] Kind(os, c) \in {"required", "optional"} ->
             IF ~last THEN Finding(c, <<From(a, j + 1)>>, 1)
             ELSE IF Kind(os, c) = "optional" THEN Finding(c, << >>, 1)
             ELSE IF behind = << >> THEN Refused(Missing(os), << >>, 1, c)
             ELSE Finding(c, <<behind[1]>>, 2)

(* -W foo.  The argument of -W stays that of the option it names, if that  *)
(* takes none, and an ambiguous name costs an element more.                *)
WAt(os, a, j, behind) ==
  LET last == j = Len(a)
      s == IF last THEN behind[1] ELSE From(a, j + 1)
      n == IF last THEN 2 ELSE 1
      p == LongOptions[Found(s)]
  IN  IF last /\ behind = << >> THEN Refused(Missing(os), << >>, 1, "W")
      ELSE IF Candidates(s) = {} THEN Finding("W", <<s>>, n)
      ELSE IF Ambiguous(s, TRUE) THEN Finding("?", <<s>>, n + 1)
      ELSE IF HasValue(s)
        THEN IF p.has_arg = "no" THEN Finding("?", <<s>>, n)
             ELSE FoundLong(Found(s), <<Value(s)>>, n)
      ELSE IF p.has_arg # "required" THEN FoundLong(Found(s), <<s>>, n)
      ELSE IF Len(behind) < n THEN Finding(Missing(os), <<s>>, n)
      ELSE FoundLong(Found(s), <<behind[n]>>, n + 1)

(* Variant: the place in the element is kept. *)
TakeKeepingPlace(f) ==
  /\ optind' = optind + f.past /\ Return(f.opt, f.arg)
  /\ UNCHANGED <<onceVars, argv, first_nonopt, last_nonopt, nextchar, optopt,
                 longind, flags>>

Take(f) ==
  /\ optind' = optind + f.past /\ nextchar' = f.place
  /\ optopt' = IF f.unknown = << >> THEN optopt ELSE f.unknown[1]
  /\ longind' = IF f.long = 0 THEN longind ELSE f.long
  /\ flags' = flags \cup {<<p.flag, p.val>> : p \in {LongOptions[k] : k \in {f.long} \ {0}}}
  /\ Return(f.opt, f.arg)
  /\ UNCHANGED <<onceVars, argv, first_nonopt, last_nonopt>>

(* Variant: the NULL behind the last element is taken for an element. *)
BehindWithNull(v, k) ==
  [j \in 1 .. argc - k |-> IF k + j < argc THEN v[k + j] ELSE << >>]

Behind(v, k) == [j \in 1 .. argc - k - 1 |-> v[k + j]]

OptionAt(os, a, j, behind) ==
  IF IsLong(os, a, j) THEN LongAt(os, a, j, behind)
  ELSE IF Kind(os, a[j]) = "W" THEN WAt(os, a, j, behind)
  ELSE ShortAt(os, a, j, behind)

Decode ==
  /\ pc = "decode"
  /\ \E f \in {OptionAt(optstring, argv[optind], nextchar, Behind(argv, optind))} : Take(f)

GetoptCall ==
  \/ Call \/ Skip \/ LookBehind \/ EndMark \/ Finish \/ MeetNonoption
  \/ OpenOption \/ Decode

(* The caller wants the next option. *)
Again ==
  /\ pc = "returned" /\ opt # "-1"
  /\ pc' = "call"
  /\ UNCHANGED <<onceVars, scanVars, resultVars, nextchar>>

GetoptNext == GetoptCall \/ Again

(* The caller is a process that the system schedules. *)
GetoptSpec == GetoptInit /\ [][GetoptNext]_getoptVars /\ WF_getoptVars(GetoptNext)
------------------------------------------------------------------------------
(* Types; and but for an ambiguous -W, nothing outside argv is looked at:  *)
(* an element is decoded only while there is one, and only up to its end.  *)
GetoptTypeOK ==
  /\ argc \in 0 .. MaxArgc /\ IsVector(argv, argc) /\ IsVector(start, argc)
  /\ who \in DOMAIN Callers
  /\ initialized =>
       /\ optind \in FirstArg .. argc + (IF Has(optstring, ";") THEN 1 ELSE 0)
       /\ first_nonopt <= last_nonopt /\ last_nonopt \in FirstArg .. argc
  /\ ordering \in {"PERMUTE", "REQUIRE_ORDER", "RETURN_IN_ORDER"}
  /\ pc \in {"call", "skip", "element", "decode", "returned", "fault"}
  /\ longind \in 0 .. Len(LongOptions)
  /\ (pc = "decode" \/ nextchar # 0) =>
       optind < argc /\ nextchar \in 2 .. Len(argv[optind])

(***************************************************************************)
(* What a command line says, read from left to right without moving        *)
(* anything and without remembering anything but the place: its options    *)
(* with their arguments, the elements they are made of, and the others.    *)
(* A place is an element, where in it the next option is (0 at its         *)
(* beginning), and whether no option has been read yet.                    *)
(***************************************************************************)
Places == Nat \X Nat \X BOOLEAN
Part(opts, head, tail) == [opts |-> opts, head |-> head, tail |-> tail]
Joined(r, s) == Part(r.opts \o s.opts, r.head \o s.head, r.tail \o s.tail)
Elements(k, n) == [j \in 1 .. IF k + n > argc THEN argc - k ELSE n |-> start[k + j - 1]]

Opening(a) == IF Function # "getopt" /\ a[2] = "-" THEN 3 ELSE 2
OptionOf(p) ==
  OptionAt(OptstringOf(who, p[3]), start[p[1]],
           IF p[2] = 0 THEN Opening(start[p[1]]) ELSE p[2], Behind(start, p[1]))

AtMark(p)      == p[2] = 0 /\ EndsOptions(start[p[1]])
AtNonoption(p) == p[2] = 0 /\ Nonoption(start[p[1]])
NoMore(p)      == p[1] >= argc \/ p[2] > Len(start[p[1]])

(* Where reading ends, and what is left over there. *)
ReadingEnds(p) ==
  NoMore(p) \/ AtMark(p) \/ (AtNonoption(p) /\ ordering = "REQUIRE_ORDER")
LeftOver(p) ==
  IF NoMore(p) THEN Part(<< >>, << >>, << >>)
  ELSE IF AtMark(p) THEN Part(<< >>, <<start[p[1]]>>, Elements(p[1] + 1, argc))
  ELSE Part(<< >>, << >>, Elements(p[1], argc))

(* What is read elsewhere, and the next place. *)
TakenAt(p) ==
  LET f == OptionOf(p) IN
  IF ~AtNonoption(p)
    THEN Part(<<<<f.opt, f.arg>>>>, Elements(p[1], f.past), << >>)
  ELSE IF ordering = "PERMUTE" THEN Part(<< >>, << >>, <<start[p[1]]>>)
  ELSE Part(<<<<"1", <<start[p[1]]>>>>>>, <<start[p[1]]>>, << >>)
Onward(p) ==
  LET f == OptionOf(p) IN
  IF AtNonoption(p) THEN <<p[1] + 1, 0, p[3] /\ ordering = "PERMUTE">>
  ELSE <<p[1] + f.past, f.place, FALSE>>

ReadFrom[p \in Places] ==
  LET here == TakenAt(p)
      rest == ReadFrom[Onward(p)]
  IN  IF ReadingEnds(p) THEN LeftOver(p) ELSE Joined(here, rest)
Reading == ReadFrom[<<FirstArg, 0, TRUE>>]

(* However argv is permuted meanwhile, the caller is given the options of  *)
(* the command line, with their arguments, each once and in order.         *)
OptionsInOrder ==
  pc = "returned" =>
    \E opts \in {Reading.opts} :
      /\ IsPrefixOf(seen, opts)
      /\ opt = "-1" => seen = opts

(* "(The ARGV-elements have been permuted so that those that are not       *)
(* options now come last.)"  And optind is the first of them, and neither  *)
(* the options nor the others have changed their order.                    *)
OptionsComeFirst ==
  pc = "returned" /\ opt = "-1" =>
    /\ \E read \in {Reading} :
         /\ [j \in 1 .. argc - FirstArg |-> argv[FirstArg + j - 1]]
              = read.head \o read.tail
         /\ optind = FirstArg + Len(read.head)
    /\ \A k \in 0 .. FirstArg - 1 : argv[k] = start[k]

(* getopt.c says of optind: "Index in ARGV of the next element to be       *)
(* scanned."  It passes the end in one case alone: the last element named  *)
(* the option for a -W, ambiguously, and was counted twice (WAt).  A call  *)
(* has then just returned "?" and that name; for an option that lacks its  *)
(* argument, or any other, optind stops at the end.                        *)
BeyondOnlyAfterW ==
  initialized /\ optind > argc =>
    \E last \in {seen[Len(seen)]} :
      last[1] = "?" /\ last[2] # << >> /\ Ambiguous(last[2][1], TRUE)

(* Why a caller's loop ends, with GetoptTypeOK: every step of a call, and  *)
(* every further call, comes nearer to the end of argv, or to the end of   *)
(* an element, or to its own end where both stay as they are; only the     *)
(* last call goes back, to the first non-option.                           *)
Stage == [returned |-> 0, call |-> 1, skip |-> 2, element |-> 3, decode |-> 4]
MovesOn ==
  \/ optind < optind'
  \/ optind = optind' /\ nextchar < nextchar'
  \/ UNCHANGED <<optind, nextchar>> /\ Stage[pc] < Stage[pc']
ScanMovesOn ==
  [][pc' = "fault" \/ (pc' = "returned" /\ opt' = "-1") \/ MovesOn]_getoptVars

(* The command line comes to an end. *)
ScanEnds == <>(pc = "fault" \/ (pc = "returned" /\ opt = "-1"))
==============================================================================
