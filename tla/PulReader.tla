------------------------------ MODULE PulReader ------------------------------
(***************************************************************************)
(* read_file of src/src/pul.c: parsing a buffer into a struct pul_file.    *)
(*                                                                         *)
(* Each static function is one action; each loop iteration is one action.  *)
(* A function that meets a wrong magic prints "Invalid data" and returns,  *)
(* and read_file goes on: the later sections are read from wherever the    *)
(* offset happens to be, and the fields the function skipped keep what the *)
(* caller's uninitialised struct held.                                     *)
(*                                                                         *)
(* The readers are never told the size of the buffer.  A read outside it   *)
(* is undefined: it yields what happens to lie there in memory, or it ends *)
(* the process (pc = "fault").  So does a malloc that returns NULL, which  *)
(* the first store into the array dereferences.                            *)
(***************************************************************************)
EXTENDS PulLayout

CONSTANTS
  Images,       (* the buffers the program may be given                    *)
  Memories,     (* what may surround the buffer in memory                *)
  StackStructs  (* what the uninitialised struct pul_file may hold         *)

(* An uninitialised struct pul_file, without its two pointers. *)
PulStruct == [f_hdr : FileHeader, i_hdr : InfoHeader, i_fld : InfoFields,
              c_hdr : CupsHeader]

(* The bytes that follow the buffer, and the byte found anywhere else. *)
Memory == [after : Seq(Byte), fill : Byte]

ASSUME ImagesAssumption == Images \subseteq Seq(Byte)
ASSUME MemoryAssumption == Memories \subseteq Memory
ASSUME StackAssumption  == StackStructs \subseteq PulStruct

VARIABLES
  buffer,                       (* the file's bytes                        *)
  memory,                       (* what surrounds the buffer               *)
  offset,                       (* the cursor every read advances          *)
  f_hdr, i_hdr, i_fld, c_hdr,   (* the fixed part of the struct pul_file   *)
  t_arr, alphabet_table,        (* its two arrays, as far as filled        *)
  t_cap, alphabet_cap,          (* the elements malloc was asked for       *)
  reported,                     (* the sections reported as invalid        *)
  pc                            (* the function read_file is about to call *)

structVars == <<f_hdr, i_hdr, i_fld, c_hdr>>
arrayVars  == <<t_arr, alphabet_table, t_cap, alphabet_cap>>
readerVars == <<buffer, memory, offset, structVars, arrayVars, reported, pc>>

(***************************************************************************)
(* The n bytes a reader called at offset o sees: those of the buffer, and  *)
(* of the memory around it wherever it reads outside.                      *)
(***************************************************************************)
Outside(i) == IF i - Len(buffer) \in 1 .. Len(memory.after)
              THEN memory.after[i - Len(buffer)] ELSE memory.fill
Peek(o, n) ==
  [k \in 1 .. n |-> IF o + k \in 1 .. Len(buffer) THEN buffer[o + k]
                    ELSE Outside(o + k)]

(* The cursor moves to o, and control to label unless the reads before o   *)
(* ran past the buffer and were fatal.                                     *)
Advance(o, label) ==
  /\ offset' = o
  /\ pc' \in {label} \cup (IF o > Len(buffer) THEN {"fault"} ELSE {})

(* Variant: every number of cups is rounded up, the even ones too. *)
ReadTracksRoundingEven == 4 * (U16(c_hdr.n_ct_cups) + 1)

(* int n_tracks = 4 * (n_cups + (n_cups % 2)) in read_file. *)
ReadTracks == 4 * (U16(c_hdr.n_ct_cups) + (U16(c_hdr.n_ct_cups) % 2))

ReaderInit ==
  /\ buffer \in Images
  /\ memory \in Memories
  /\ offset = 0
  /\ \E stack \in StackStructs :
       /\ f_hdr = stack.f_hdr
       /\ i_hdr = stack.i_hdr
       /\ i_fld = stack.i_fld
       /\ c_hdr = stack.c_hdr
  /\ t_arr = << >> /\ alphabet_table = << >>
  /\ t_cap = 0 /\ alphabet_cap = 0
  /\ reported = {}
  /\ pc = "header"

(***************************************************************************)
(* The sections.  HeaderAt, InfoAt, FieldsAt, CupsAt and TrackAt are the   *)
(* structs that the sequence of reads in each function produces when it    *)
(* starts at offset o.                                                     *)
(***************************************************************************)
HeaderAt(o) ==
  [magic           |-> Peek(o, 4),
   version         |-> Peek(o + 4, 4),
   info_offset     |-> Peek(o + 8, 4),
   cups_offset     |-> Peek(o + 12, 4),
   bmg_offset      |-> Peek(o + 16, 4),
   mod_folder_name |-> Peek(o + 20, MOD_NAME_MAX)]

InfoAt(o) ==
  [magic   |-> Peek(o, 4),
   version |-> Peek(o + 4, 4),
   size    |-> Peek(o + 8, 4)]

FieldsAt(o) ==
  [room_key       |-> Peek(o, 4),
   prob_100cc     |-> Peek(o + 4, 4),
   prob_150cc     |-> Peek(o + 8, 4),
   wiimmfi_region |-> Peek(o + 12, 4),
   track_blocking |-> Peek(o + 16, 4),
   tt_trophies    |-> Peek(o + 20, 1),
   enable_200cc   |-> Peek(o + 21, 1),
   umts           |-> Peek(o + 22, 1),
   feather        |-> Peek(o + 23, 1),
   mega_tc        |-> Peek(o + 24, 1),
   n_cup_icons    |-> Peek(o + 25, 2),
   track_timer    |-> Peek(o + 27, 1),
   padding        |-> Peek(o + 28, 40)]

CupsAt(o) ==
  [magic          |-> Peek(o, 4),
   version        |-> Peek(o + 4, 4),
   size           |-> Peek(o + 8, 4),
   n_ct_cups      |-> Peek(o + 12, 2),
   nin_track_mode |-> Peek(o + 14, 1),
   padding        |-> Peek(o + 15, 1),
   n_trophies     |-> [j \in 1 .. 4 |-> Peek(o + 14 + 2 * j, 2)],
   n_variants     |-> Peek(o + 24, 4)]

(* Variants: the slots of a track read in each other's place, and its      *)
(* 16-bit n_variants read as a byte.                                       *)
TrackSwappedAt(o) ==
  [track_slot |-> Peek(o + 1, 1),
   music_slot |-> Peek(o, 1),
   n_variants |-> Peek(o + 2, 2),
   crc32      |-> Peek(o + 4, 4)]
TrackNarrowAt(o) ==
  [track_slot |-> Peek(o, 1),
   music_slot |-> Peek(o + 1, 1),
   n_variants |-> Peek(o + 2, 1),
   crc32      |-> Peek(o + 3, 4)]

TrackAt(o) ==
  [track_slot |-> Peek(o, 1),
   music_slot |-> Peek(o + 1, 1),
   n_variants |-> Peek(o + 2, 2),
   crc32      |-> Peek(o + 4, 4)]

(* _read_file_header: only the magic is stored when it is not PULS. *)
ReadFileHeader ==
  /\ pc = "header"
  /\ \/ /\ Peek(offset, 4) = FILE_MAGIC
        /\ f_hdr' = HeaderAt(offset)
        /\ Advance(offset + HeaderSize, "info")
        /\ UNCHANGED reported
     \/ /\ Peek(offset, 4) # FILE_MAGIC
        /\ f_hdr' = [f_hdr EXCEPT !.magic = Peek(offset, 4)]
        /\ Advance(offset + 4, "info")
        /\ reported' = reported \cup {"PULS"}
  /\ UNCHANGED <<buffer, memory, i_hdr, i_fld, c_hdr, arrayVars>>

(* _read_file_info: the INFO header and the configuration fields. *)
ReadFileInfo ==
  /\ pc = "info"
  /\ \/ /\ Peek(offset, 4) = INFO_MAGIC
        /\ i_hdr' = InfoAt(offset)
        /\ i_fld' = FieldsAt(offset + 12)
        /\ Advance(offset + InfoSize, "cups")
        /\ UNCHANGED reported
     \/ /\ Peek(offset, 4) # INFO_MAGIC
        /\ i_hdr' = [i_hdr EXCEPT !.magic = Peek(offset, 4)]
        /\ Advance(offset + 4, "cups")
        /\ reported' = reported \cup {"INFO"}
        /\ UNCHANGED i_fld
  /\ UNCHANGED <<buffer, memory, f_hdr, c_hdr, arrayVars>>

(* _read_cups_header *)
ReadCupsHeader ==
  /\ pc = "cups"
  /\ \/ /\ Peek(offset, 4) = CUPS_MAGIC
        /\ c_hdr' = CupsAt(offset)
        /\ Advance(offset + CupsSize, "alloc_tracks")
        /\ UNCHANGED reported
     \/ /\ Peek(offset, 4) # CUPS_MAGIC
        /\ c_hdr' = [c_hdr EXCEPT !.magic = Peek(offset, 4)]
        /\ Advance(offset + 4, "alloc_tracks")
        /\ reported' = reported \cup {"CUPS"}
  /\ UNCHANGED <<buffer, memory, f_hdr, i_hdr, i_fld, arrayVars>>

(* malloc of t_arr; a NULL result is stored through at once. *)
AllocTracks ==
  /\ pc = "alloc_tracks"
  /\ t_cap' = ReadTracks
  /\ pc' \in {"tracks"} \cup (IF ReadTracks > 0 THEN {"fault"} ELSE {})
  /\ UNCHANGED <<buffer, memory, offset, structVars, t_arr, alphabet_table,
                 alphabet_cap, reported>>

(* One iteration of the first loop, _read_track_entry included. *)
ReadTrackEntry ==
  /\ pc = "tracks"
  /\ Len(t_arr) < ReadTracks
  /\ t_arr' = Append(t_arr, TrackAt(offset))
  /\ Advance(offset + TrackSize, "tracks")
  /\ UNCHANGED <<buffer, memory, structVars, alphabet_table, t_cap,
                 alphabet_cap, reported>>

(* Variant: the second array in the size of the declared cups. *)
AllocAlphabetUnrounded ==
  /\ pc = "tracks"
  /\ Len(t_arr) >= ReadTracks
  /\ alphabet_cap' = 4 * U16(c_hdr.n_ct_cups)
  /\ pc' \in {"alphabet"} \cup (IF ReadTracks > 0 THEN {"fault"} ELSE {})
  /\ UNCHANGED <<buffer, memory, offset, structVars, t_arr, alphabet_table,
                 t_cap, reported>>

(* The end of the first loop and the malloc of alphabet_table. *)
AllocAlphabet ==
  /\ pc = "tracks"
  /\ Len(t_arr) >= ReadTracks
  /\ alphabet_cap' = ReadTracks
  /\ pc' \in {"alphabet"} \cup (IF ReadTracks > 0 THEN {"fault"} ELSE {})
  /\ UNCHANGED <<buffer, memory, offset, structVars, t_arr, alphabet_table,
                 t_cap, reported>>

(* One iteration of the second loop. *)
ReadAlphabetEntry ==
  /\ pc = "alphabet"
  /\ Len(alphabet_table) < ReadTracks
  /\ alphabet_table' = Append(alphabet_table, Peek(offset, 2))
  /\ Advance(offset + AlphabetSize, "alphabet")
  /\ UNCHANGED <<buffer, memory, structVars, t_arr, t_cap, alphabet_cap,
                 reported>>

(* read_file returns to its caller, which learns nothing of its success. *)
Return ==
  /\ pc = "alphabet"
  /\ Len(alphabet_table) >= ReadTracks
  /\ pc' = "read"
  /\ UNCHANGED <<buffer, memory, offset, structVars, arrayVars, reported>>

ReaderNext ==
  \/ ReadFileHeader
  \/ ReadFileInfo
  \/ ReadCupsHeader
  \/ AllocTracks
  \/ ReadTrackEntry
  \/ AllocAlphabet
  \/ ReadAlphabetEntry
  \/ Return

ReaderSpec == ReaderInit /\ [][ReaderNext]_readerVars
------------------------------------------------------------------------------
(***************************************************************************)
(* What the parser promises.                                               *)
(***************************************************************************)

(* The n bytes of the buffer after the first o. *)
Slice(o, n) == SubSeq(buffer, o + 1, o + n)

(* A buffer in the PUL format: the three magics in place, and room for the *)
(* four tracks of every cup, of one cup more if their number is odd, and   *)
(* for as many alphabet indices.                                           *)
TracksIn(b) == 8 * ((U16(SubSeq(b, 129, 130)) + 1) \div 2)
ConfigSize(b) == 144 + 10 * TracksIn(b)
WellFormed(b) ==
  /\ Len(b) >= 144
  /\ SubSeq(b, 1, 4) = FILE_MAGIC
  /\ SubSeq(b, 37, 40) = INFO_MAGIC
  /\ SubSeq(b, 117, 120) = CUPS_MAGIC
  /\ Len(b) >= ConfigSize(b)

(* Every variable has its C type, and the cursor never moves back before   *)
(* the buffer.                                                             *)
ReaderTypeOK ==
  /\ buffer \in Seq(Byte) /\ memory \in Memory
  /\ offset \in Nat
  /\ f_hdr \in FileHeader /\ i_hdr \in InfoHeader
  /\ i_fld \in InfoFields /\ c_hdr \in CupsHeader
  /\ t_arr \in Seq(TrackEntry) /\ alphabet_table \in Seq(Bytes(2))
  /\ t_cap \in Nat /\ alphabet_cap \in Nat
  /\ reported \subseteq {"PULS", "INFO", "CUPS"}
  /\ pc \in {"header", "info", "cups", "alloc_tracks", "tracks", "alphabet",
             "read", "fault"}

(* A well-formed file is read without a complaint and without a read past  *)
(* its end, whatever number of cups it declares: the sequential cursor     *)
(* never gets ahead of the sections it walks.                              *)
ReadsInBounds ==
  WellFormed(buffer) => reported = {} /\ offset <= Len(buffer)

(* Whatever the file, when read_file returns having complained of nothing  *)
(* and read nothing past the end, it has lost nothing: the structs, laid   *)
(* out in the order pul.h declares their members, are the file's bytes,    *)
(* each entry of the two arrays included, and the file was well-formed.    *)
FaithfulRead ==
  pc = "read" /\ reported = {} /\ offset <= Len(buffer) =>
    LET n == TracksIn(buffer) IN
    /\ WellFormed(buffer)
    /\ offset = ConfigSize(buffer)
    /\ HeaderImage(f_hdr) = Slice(0, 36)
    /\ InfoImage(i_hdr) \o FieldsImage(i_fld) = Slice(36, 80)
    /\ CupsImage(c_hdr) = Slice(116, 28)
    /\ Len(t_arr) = n /\ Len(alphabet_table) = n
    /\ \A k \in 1 .. n :
         /\ TrackImage(t_arr[k]) = Slice(136 + 8 * k, 8)
         /\ alphabet_table[k] = Slice(142 + 8 * n + 2 * k, 2)

(* Whatever the file says, and whatever was reported of it, the loops of   *)
(* read_file store into the two arrays as many elements as malloc was      *)
(* asked for, and never one more: what the cups header says is read once   *)
(* and holds for both of the loops and both of the arrays.                 *)
ArraysFilled ==
  /\ pc \in {"header", "info", "cups", "alloc_tracks"} => t_arr = << >>
  /\ pc \notin {"alphabet", "read", "fault"} => alphabet_table = << >>
  /\ pc \in {"tracks", "alphabet", "read"} =>
       t_cap = ReadTracks /\ Len(t_arr) <= t_cap
  /\ pc \in {"alphabet", "read"} =>
       /\ alphabet_cap = ReadTracks /\ Len(t_arr) = t_cap
       /\ Len(alphabet_table) <= alphabet_cap
  /\ pc = "read" => Len(alphabet_table) = alphabet_cap

(* What has been read of a file that gave no cause for complaint.          *)
HeaderRead == f_hdr = HeaderAt(0) /\ Peek(0, 4) = FILE_MAGIC
InfoRead   == i_hdr = InfoAt(36) /\ i_fld = FieldsAt(48)
                /\ Peek(36, 4) = INFO_MAGIC
CupsRead   == c_hdr = CupsAt(116) /\ Peek(116, 4) = CUPS_MAGIC
TracksRead == \A k \in 1 .. Len(t_arr) : t_arr[k] = TrackAt(136 + 8 * k)
IndexRead  == \A k \in 1 .. Len(alphabet_table) :
                alphabet_table[k] = Peek(142 + 8 * ReadTracks + 2 * k, 2)

(* At every point of read_file where nothing has been reported, the cursor *)
(* stands at the end of exactly what has been read, and that was read from *)
(* where the format puts it: the invariant the two properties above follow *)
(* from.                                                                   *)
CursorInStep ==
  reported = {} =>
    /\ pc = "header" => offset = 0
    /\ pc = "info" => offset = 36 /\ HeaderRead
    /\ pc = "cups" => offset = 116 /\ HeaderRead /\ InfoRead
    /\ pc = "alloc_tracks" =>
         offset = 144 /\ HeaderRead /\ InfoRead /\ CupsRead
    /\ pc \in {"header", "info", "cups", "alloc_tracks"} => t_arr = << >>
    /\ pc \notin {"alphabet", "read", "fault"} => alphabet_table = << >>
    /\ pc = "tracks" =>
         /\ HeaderRead /\ InfoRead /\ CupsRead /\ TracksRead
         /\ offset = 144 + 8 * Len(t_arr)
         /\ Len(t_arr) <= ReadTracks
    /\ pc \in {"alphabet", "read"} =>
         /\ HeaderRead /\ InfoRead /\ CupsRead /\ TracksRead /\ IndexRead
         /\ Len(t_arr) = ReadTracks
         /\ offset = 144 + 8 * ReadTracks + 2 * Len(alphabet_table)
         /\ Len(alphabet_table) <= ReadTracks
    /\ pc = "read" => Len(alphabet_table) = ReadTracks

(* What pul.h says of info_offset, "offset to info section header": once a *)
(* valid file header was read, the INFO header is taken from that offset.  *)
InfoReadAtInfoOffset ==
  LET o == U32(f_hdr.info_offset) IN
  pc = "read" /\ "PULS" \notin reported /\ o + 4 <= Len(buffer) =>
    i_hdr.magic = Slice(o, 4)

(* What "Invalid data: CUPS" says: the data of a section reported invalid  *)
(* are not used, least of all as the size of an allocation.                *)
InvalidCupsNotUsed ==
  "CUPS" \in reported => t_cap = 0
==============================================================================
