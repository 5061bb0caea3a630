------------------------------ MODULE CatSession -----------------------------
(***************************************************************************)
(* command_cat of src/src/catapult.c as a whole: buffer_from_file loads    *)
(* the file (FileBuffer) while other processes use the file system, and    *)
(* when it has given something, read_file parses the buffer (PulReader),   *)
(* the buffer is freed, and the struct is printed (PulPrinter).            *)
(*                                                                         *)
(* What read_file sees is what lies in the buffer as long as it is live;   *)
(* a read from a buffer that was freed would find what memory holds.       *)
(***************************************************************************)
EXTENDS FileBuffer, PulPrinter

CONSTANTS
  Memories, StackStructs,   (* as in PulReader                             *)
  AppStates,                (* the options handle_cat may have taken       *)
  Stops                     (* bound: after how many bytes of the file     *)
                            (* fread may come to stop                      *)

VARIABLES
  memory, offset, f_hdr, i_hdr, i_fld, c_hdr, t_arr, alphabet_table,
  t_cap, alphabet_cap, reported,   (* as in PulReader                      *)
  step,    (* pc of PulReader, and then the printer that is at work        *)
  state,   (* struct app_state                                             *)
  i,       (* the loop variable of the printers                            *)
  shown    (* what has been printed on stdout                              *)

InMemory == IF heap = "live" THEN result ELSE << >>

R == INSTANCE PulReader WITH Images <- Contents, buffer <- InMemory, pc <- step

ASSUME SessionAssumption ==
  /\ Contents \subseteq Seq(Byte)
  /\ Memories \subseteq R!Memory /\ StackStructs \subseteq R!PulStruct
  /\ AppStates \subseteq [show_tracks : BOOLEAN, show_alphabet_table : BOOLEAN]
  /\ Stops \subseteq Nat

parsedVars  == <<memory, offset, f_hdr, i_hdr, i_fld, c_hdr, t_arr,
                 alphabet_table, t_cap, alphabet_cap, reported>>
printVars   == <<state, i, shown>>
sessionVars == <<fbVars, parsedVars, step, printVars>>

SessionInit ==
  /\ BufferInit
  /\ memory \in Memories /\ offset = 0
  /\ \E stack \in StackStructs :
       /\ f_hdr = stack.f_hdr /\ i_hdr = stack.i_hdr
       /\ i_fld = stack.i_fld /\ c_hdr = stack.c_hdr
  /\ t_arr = << >> /\ alphabet_table = << >>
  /\ t_cap = 0 /\ alphabet_cap = 0 /\ reported = {}
  /\ step = "header"
  /\ state \in AppStates /\ i = 0 /\ shown = << >>

(* Variant: the buffer is given back as soon as a section was read. *)
MayFreeEarly == caller = "cat" => step # "header"

(* command_cat parses the buffer before it frees it. *)
MayFree == caller = "cat" => step = "read"

LoadFile ==
  /\ pc = "free" => MayFree
  /\ Program
  /\ bytes' # bytes => Len(bytes') \in Stops \cup {f_size, Len(inodes[Reading])}
  /\ UNCHANGED <<parsedVars, step, printVars>>

OtherProcesses == Others /\ UNCHANGED <<parsedVars, step, printVars>>

ReadFile ==
  /\ caller = "cat" /\ result # << >>
  /\ UNCHANGED <<fbVars, printVars>>
  /\ R!ReaderNext

(* The printers are called one after the other, on a copy of the struct. *)
Printing(label) ==
  /\ caller = "cat" /\ pc = "returned" /\ step = label
  /\ UNCHANGED <<fbVars, parsedVars, state>>

PrintFile ==
  /\ Printing("read")
  /\ shown' = PrintedHeader(f_hdr) \o PrintedInfo(i_hdr)
                \o PrintedFields(i_fld) \o PrintedCups(c_hdr)
  /\ step' = "print_tracks" /\ i' = 0

PrintTrackEntry ==
  /\ Printing("print_tracks")
  /\ state.show_tracks /\ i < PrintTracks(c_hdr)
  /\ shown' = shown \o PrintedTrack(t_arr[i + 1], i)
  /\ i' = i + 1 /\ UNCHANGED step

TracksPrinted ==
  /\ Printing("print_tracks")
  /\ state.show_tracks => i >= PrintTracks(c_hdr)
  /\ step' = "print_alphabet" /\ i' = 0
  /\ UNCHANGED shown

PrintAlphabetEntry ==
  /\ Printing("print_alphabet")
  /\ state.show_alphabet_table /\ i < PrintAlphabet(c_hdr)
  /\ shown' = Append(shown, Middle(alphabet_table[i + 1]))
  /\ i' = i + 1 /\ UNCHANGED step

AlphabetPrinted ==
  /\ Printing("print_alphabet")
  /\ state.show_alphabet_table => i >= PrintAlphabet(c_hdr)
  /\ step' = "exit"
  /\ UNCHANGED <<i, shown>>

CommandCat ==
  \/ LoadFile \/ ReadFile
  \/ PrintFile \/ PrintTrackEntry \/ TracksPrinted
  \/ PrintAlphabetEntry \/ AlphabetPrinted

SessionNext == CommandCat \/ OtherProcesses

SessionSpec == SessionInit /\ [][SessionNext]_sessionVars
------------------------------------------------------------------------------
(* Types of the command's own variables; and the printers, which compute   *)
(* the number of tracks again, index no entry that read_file has not       *)
(* filled.                                                                 *)
SessionTypeOK ==
  /\ offset \in Nat /\ i \in Nat /\ state \in AppStates
  /\ step \in {"header", "info", "cups", "alloc_tracks", "tracks", "alphabet",
               "read", "fault", "print_tracks", "print_alphabet", "exit"}
  /\ step \in {"print_tracks", "print_alphabet"} =>
       /\ PrintTracks(c_hdr) <= Len(t_arr) /\ Len(t_arr) <= t_cap
       /\ PrintAlphabet(c_hdr) <= Len(alphabet_table)
       /\ Len(alphabet_table) <= alphabet_cap

(***************************************************************************)
(* What the format says a file shows: the bytes of a magic or a checksum,  *)
(* and numbers of one, two and four bytes, in the order of the file.  The  *)
(* numbers are read off the file digit by digit, to the base 256, and not  *)
(* with the operators of the printers: four bytes from 2^31 on are shown   *)
(* as the negative number of which they are the two's complement.          *)
(***************************************************************************)
At(v, o, n) == SubSeq(v, o + 1, o + n)

Digits(p, q, r, s) == ((p * 256 + q) * 256 + r) * 256 + s
Number(v, o, n) ==
  CASE n = 1 -> <<v[o + 1]>>
    [] n = 2 -> <<Digits(0, 0, v[o + 1], v[o + 2])>>
    [] n = 4 /\ v[o + 1] < 128 ->
         <<Digits(v[o + 1], v[o + 2], v[o + 3], v[o + 4])>>
    [] n = 4 /\ v[o + 1] >= 128 ->
         <<-1 - Digits(255 - v[o + 1], 255 - v[o + 2],
                       255 - v[o + 3], 255 - v[o + 4])>>

(* The letters of the name are those before a NUL. *)
Name(v) ==
  [k \in {k \in 1 .. 16 : \A j \in 1 .. k : v[20 + j] # 0} |-> v[20 + k]]

HeaderOf(v) ==
  <<At(v, 0, 4), Number(v, 4, 4), Number(v, 8, 4), Number(v, 12, 4),
    Number(v, 16, 4), Name(v)>>
InfoOf(v)   == <<At(v, 36, 4), Number(v, 40, 4), Number(v, 44, 4)>>
FieldsOf(v) ==
  <<Number(v, 48, 4), Number(v, 52, 4), Number(v, 56, 4), Number(v, 60, 4),
    Number(v, 64, 4), Number(v, 68, 1), Number(v, 69, 1), Number(v, 70, 1),
    Number(v, 71, 1), Number(v, 72, 1), Number(v, 73, 2), Number(v, 75, 1)>>
CupsOf(v)   ==
  <<At(v, 116, 4), Number(v, 120, 4), Number(v, 124, 4), Number(v, 128, 2),
    Number(v, 130, 1), Number(v, 132, 2), Number(v, 134, 2), Number(v, 136, 2),
    Number(v, 138, 2), Number(v, 140, 4)>>
HeadersOf(v) == HeaderOf(v) \o InfoOf(v) \o FieldsOf(v) \o CupsOf(v)

(* The five numbers of track k, and those of all tracks in a row. *)
TrackOf(v, k) ==
  <<<<k>>, Number(v, 144 + 8 * k, 1), Number(v, 145 + 8 * k, 1),
    Number(v, 146 + 8 * k, 2), At(v, 148 + 8 * k, 4)>>
TracksOf(v) ==
  [j \in 1 .. 5 * R!TracksIn(v) |-> TrackOf(v, (j - 1) \div 5)[((j - 1) % 5) + 1]]
AlphabetOf(v) ==
  [j \in 1 .. R!TracksIn(v) |-> Number(v, 142 + 8 * R!TracksIn(v) + 2 * j, 2)]

(* However the file is replaced or removed while it is loaded, read and    *)
(* printed, and although the buffer is gone by the time of printing: what  *)
(* command_cat shows in the end, if nothing was reported on stderr and the *)
(* file was long enough, is all of one of the contents the file has had,   *)
(* number for number, with the parts that the options asked for.           *)
ShownIsTheFile ==
  step = "exit" /\ reported = {} /\ offset <= size =>
    \E v \in versions :
      shown = HeadersOf(v) \o (IF state.show_tracks THEN TracksOf(v) ELSE << >>)
                \o (IF state.show_alphabet_table THEN AlphabetOf(v) ELSE << >>)
==============================================================================
