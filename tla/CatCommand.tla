------------------------------ MODULE CatCommand -----------------------------
(***************************************************************************)
(* The command line of src/src/catapult.c: main, the match of the command, *)
(* handle_cat over getopt_long, handle_checksum, and command_cat, which    *)
(* loads and prints the file.  How the file is loaded and read is the      *)
(* business of FileBuffer and PulReader: here it can be loaded or not, and *)
(* reading it can end the process.                                         *)
(***************************************************************************)
EXTENDS Getopt

CONSTANT Toupper   (* of the C library: the capitals of small letters      *)

(* What handle_cat asks of getopt_long: two options without arguments,     *)
(* with a letter and a name each, and the names begin differently.         *)
IsHandleCat(c) ==
  /\ c.function = "getopt_long" /\ c.optstring = <<"t", "a">> /\ c.optind = 3
  /\ Len(c.longopts) = 2
  /\ \A k \in 1 .. 2 :
       /\ c.longopts[k].has_arg = "no" /\ c.longopts[k].flag = ""
       /\ c.longopts[k].val = c.optstring[k]
       /\ \A j \in DOMAIN c.longopts[k].name : c.longopts[k].name[j] \notin {"=", ""}
  /\ At(c.longopts[1].name, 1) # At(c.longopts[2].name, 1)

ASSUME CommandConstants == 1 \in DOMAIN Callers /\ IsHandleCat(Callers[1])

VARIABLES
  show_tracks, show_alphabet_table,   (* state, as handle_cat has it       *)
  file,      (* the element of argv that names the file, or << >>          *)
  opened,    (* what has been opened                                       *)
  printed,   (* the parts of the output, in their order                    *)
  status,    (* the exit status                                            *)
  step

commandVars == <<show_tracks, show_alphabet_table, file, opened, printed, status>>
mainVars    == <<getoptVars, commandVars, step>>

MainInit ==
  /\ who = 1 /\ argv \in CommandLines[1] /\ GetoptStatics(1)
  /\ show_tracks = FALSE /\ show_alphabet_table = FALSE
  /\ file = << >> /\ opened = {} /\ printed = << >> /\ status = 0
  /\ step = "main"

Exit(code) == status' = code /\ step' = "exit"

Capitals(a) ==
  [k \in DOMAIN a |-> IF a[k] \in DOMAIN Toupper THEN Toupper[a[k]] ELSE a[k]]

(* strncmp: the command may go on. *)
Commands == [cat |-> <<"C", "A", "T">>,
             checksum |-> <<"C", "H", "E", "C", "K", "S", "U", "M">>]
Begins(a, c) == IsPrefixOf(Commands[c], a)

(* The command is made capitals in place. *)
Main ==
  /\ step = "main"
  /\ IF argc < 2
     THEN Exit(1) /\ UNCHANGED argv
     ELSE /\ argv' = [argv EXCEPT ![1] = Capitals(@)]
          /\ UNCHANGED status
          /\ step' = IF Begins(argv'[1], "cat") THEN "handle_cat"
                     ELSE IF Begins(argv'[1], "checksum") THEN "handle_checksum"
                     ELSE "exit"
  /\ UNCHANGED <<onceVars, optind, first_nonopt, last_nonopt, resultVars,
                 nextchar, pc, show_tracks, show_alphabet_table, file, opened,
                 printed>>

(* Variant: optind is left as it was. *)
HandleCatFromTheStart ==
  /\ step = "handle_cat"
  /\ IF argc < 3
     THEN step' = "exit" /\ UNCHANGED <<file, start>>
     ELSE file' = <<argv[2]>> /\ start' = argv /\ step' = "options"
  /\ UNCHANGED <<who, argc, initialized, ordering, optstring, scanVars,
                 resultVars, nextchar, pc, show_tracks, show_alphabet_table,
                 opened, printed, status>>

HandleCat ==
  /\ step = "handle_cat"
  /\ IF argc < 3
     THEN step' = "exit" /\ UNCHANGED <<file, optind, start>>
     ELSE file' = <<argv[2]>> /\ optind' = 3 /\ start' = argv /\ step' = "options"
  /\ UNCHANGED <<who, argc, argv, initialized, ordering, optstring,
                 first_nonopt, last_nonopt, resultVars, nextchar, pc,
                 show_tracks, show_alphabet_table, opened, printed, status>>

ScanOptions ==
  /\ step = "options" /\ GetoptCall
  /\ UNCHANGED <<commandVars, step>>

(* Variant: the first case falls through to the second. *)
TakeOptionFallingThrough ==
  /\ step = "options" /\ opt \in {"t", "a"} /\ Again
  /\ show_tracks' = (show_tracks \/ opt = "t")
  /\ show_alphabet_table' = TRUE
  /\ UNCHANGED <<file, opened, printed, status, step>>

(* Variant: the loop has the scan begin again, and meets its first option  *)
(* again (and what is recorded begins anew).                               *)
TakeOptionAnew ==
  /\ step = "options" /\ pc = "returned" /\ opt \in {"t", "a"}
  /\ pc' = "call" /\ initialized' = FALSE /\ optind' = 3 /\ nextchar' = 0
  /\ seen' = << >>
  /\ UNCHANGED <<who, argc, start, ordering, optstring, argv, first_nonopt,
                 last_nonopt, optarg, optopt, longind, flags, opt>>
  /\ show_tracks' = (show_tracks \/ opt = "t")
  /\ show_alphabet_table' = (show_alphabet_table \/ opt = "a")
  /\ UNCHANGED <<file, opened, printed, status, step>>

TakeOption ==
  /\ step = "options" /\ opt \in {"t", "a"} /\ Again
  /\ show_tracks' = (show_tracks \/ opt = "t")
  /\ show_alphabet_table' = (show_alphabet_table \/ opt = "a")
  /\ UNCHANGED <<file, opened, printed, status, step>>

OptionsEnd ==
  /\ step = "options" /\ pc = "returned" /\ opt \notin {"t", "a"}
  /\ step' = IF opt = "-1" THEN "command_cat" ELSE "exit"
  /\ UNCHANGED <<getoptVars, commandVars>>

(* Where there is something to load, it is read, freed and printed; but a  *)
(* file that is cut short, or a malloc that fails, may end the process in  *)
(* read_file, before anything is printed.                                  *)
CommandCat ==
  /\ step = "command_cat" /\ opened' = {file[1]}
  /\ \/ /\ step' = "exit"
        /\ printed' \in {<< >>,
             <<"file">> \o (IF show_tracks THEN <<"tracks">> ELSE << >>)
               \o (IF show_alphabet_table THEN <<"alphabet table">> ELSE << >>)}
     \/ step' = "fault" /\ UNCHANGED printed
  /\ UNCHANGED <<getoptVars, show_tracks, show_alphabet_table, file, status>>

(* A checksum is printed whether there is something to load or not; but in *)
(* one build a malloc that fails may end the process in fread.             *)
HandleChecksum ==
  /\ step = "handle_checksum"
  /\ \/ /\ argc < 3
        /\ step' = "exit" /\ UNCHANGED <<file, opened, printed>>
     \/ /\ argc >= 3
        /\ file' = <<argv[2]>> /\ opened' = {argv[2]}
        /\ \/ step' = "exit" /\ printed' = <<"checksum">>
           \/ step' = "fault" /\ UNCHANGED printed
  /\ UNCHANGED <<getoptVars, show_tracks, show_alphabet_table, status>>

MainNext ==
  \/ Main \/ HandleCat \/ ScanOptions \/ TakeOption \/ OptionsEnd
  \/ CommandCat \/ HandleChecksum

(* The program is a process that the system schedules. *)
MainSpec == MainInit /\ [][MainNext]_mainVars /\ WF_mainVars(MainNext)
------------------------------------------------------------------------------
(* Types; and getopt_long never steps outside what handle_cat left it of   *)
(* argv.                                                                   *)
MainTypeOK ==
  /\ argc \in 0 .. MaxArgc /\ IsVector(argv, argc)
  /\ step = "options" => argc >= 3 /\ optind \in 3 .. argc /\ file # << >>
  /\ show_tracks \in BOOLEAN /\ show_alphabet_table \in BOOLEAN
  /\ status \in {0, 1}
  /\ printed \in Seq({"file", "tracks", "alphabet table", "checksum"})
  /\ step \in {"main", "handle_cat", "options", "command_cat",
               "handle_checksum", "exit", "fault"}

(***************************************************************************)
(* What the options of a command line say, wherever they stand: behind a   *)
(* "--", and with POSIXLY_CORRECT behind a word, there are none.           *)
(***************************************************************************)
IsOption(k) ==
  /\ ~Nonoption(start[k]) /\ ~EndsOptions(start[k])
  /\ \A j \in 3 .. k - 1 :
       /\ ~EndsOptions(start[j])
       /\ ordering = "REQUIRE_ORDER" => ~Nonoption(start[j])
Options == {start[k] : k \in {j \in 3 .. argc - 1 : IsOption(j)}}

(* --tracks and --alphabet-table, or a beginning of either; -t and -a.     *)
Says(a, letter, name) ==
  IF a[2] = "-" THEN IsPrefixOf(From(a, 3), name)
  ELSE \E j \in 2 .. Len(a) : a[j] = letter
Tracks(a) == Says(a, "t", LongOptions[1].name)
Table(a)  == Says(a, "a", LongOptions[2].name)
Wrong(a)  ==
  IF a[2] = "-" THEN ~Tracks(a) /\ ~Table(a)
  ELSE \E j \in 2 .. Len(a) : a[j] \notin {"t", "a"}

(* CAT opens the argument behind it if no option is wrong, and nothing     *)
(* otherwise, even if the wrong one comes last; and prints the parts that  *)
(* the options ask for, no matter in what order options and other          *)
(* arguments stand, in clusters or abbreviated, or how often; or it prints *)
(* nothing, if the file cannot be loaded or the process ends in reading it. *)
ShownAsAsked ==
  step \in {"exit", "fault"} /\ initialized =>
    /\ opened = IF \E a \in Options : Wrong(a) THEN {} ELSE {start[2]}
    /\ printed # << >> =>
         /\ opened # {}
         /\ printed = <<"file">>
              \o (IF \E a \in Options : Tracks(a) THEN <<"tracks">> ELSE << >>)
              \o (IF \E a \in Options : Table(a) THEN <<"alphabet table">> ELSE << >>)

(* handle_cat's loop over getopt_long comes to its end, whatever the       *)
(* command line is.  What becomes of the file behind it is not said here.  *)
OptionLoopEnds == step = "options" ~> step # "options"
==============================================================================
