------------------------------ MODULE PulArchive -----------------------------
(***************************************************************************)
(* What a program does with a PUL file through src/src/pul.h once          *)
(* read_file has returned: export its bmg and text parts to files of their *)
(* own, and write a PUL file back from the struct and two such files.  The *)
(* caller, which is not part of the repository, chooses the calls and      *)
(* their paths; the calls themselves are those of src/src/pul.c, one       *)
(* action per step that a crash can fall between.                          *)
(*                                                                         *)
(* A stream is stdio's: fwrite collects bytes in the process and hands     *)
(* them to the file a block at a time, fclose hands over the rest, and a   *)
(* process that dies first loses what it still holds.  No call reports a   *)
(* failure to its caller; complaints is what it prints on stderr.          *)
(***************************************************************************)
EXTENDS PulReader

CONSTANTS
  Paths,     (* the names of files                                         *)
  PulPath,   (* the one the buffer was loaded from                         *)
  OldFiles,  (* what may be on the disk beside it: functions from paths    *)
  Blocks,    (* the sizes of block a stream may work with                  *)
  Requests,  (* bound: the calls the caller may make                       *)
  MaxCalls,  (* bound: how many of them it makes                           *)
  FillCalls  (* bound: the first calls, in which the disk may run out of space *)

(* A call: what it does, the path it writes to, and the paths of the parts *)
(* write_file puts together.                                               *)
Ops   == {"export_bmg", "export_txt", "write_file"}
Calls == [op : Ops, path : Paths, bmg : Paths, txt : Paths]

ASSUME PathAssumption  == PulPath \in Paths
ASSUME OldAssumption   ==
  \A old \in OldFiles :
    /\ DOMAIN old \subseteq Paths /\ PulPath \notin DOMAIN old
    /\ \A p \in DOMAIN old : old[p] \in Seq(Byte)
ASSUME BlockAssumption == Blocks \subseteq Nat \ {0}
ASSUME CallsAssumption ==
  Requests \subseteq Calls /\ MaxCalls \in Nat /\ FillCalls \in Nat

VARIABLES
  disk,        (* the contents of every path that exists                   *)
  block,       (* the block size of this execution's streams               *)
  call,        (* the call in progress, or the last one                    *)
  stream,      (* everything fwritten to call.path by the call so far      *)
  i,           (* the loop variable of write_file                          *)
  full,        (* no space is left on the disk                             *)
  done,        (* the calls that have returned, with whether they wrote    *)
  complaints   (* what the call in progress has printed on stderr          *)

fileVars    == <<disk, block, call, stream, i, full, done, complaints>>
archiveVars == <<readerVars, fileVars>>
structKept  == <<buffer, memory, offset, structVars, arrayVars, reported>>

ArchiveInit ==
  /\ ReaderInit
  /\ \E old \in OldFiles :
       disk = [p \in DOMAIN old \cup {PulPath} |->
                 IF p = PulPath THEN buffer ELSE old[p]]
  /\ block \in Blocks
  /\ call = [op |-> "none"]
  /\ stream = << >> /\ i = 0 /\ full = FALSE
  /\ done = << >> /\ complaints = {}

(* read_file, before any call. *)
Load == ReaderNext /\ UNCHANGED fileVars

(***************************************************************************)
(* Exporting.                                                              *)
(***************************************************************************)
BmgStart     == Int32(f_hdr.bmg_offset)
BmgSizeField == Peek(BmgStart + 8, 4)
BmgMagic     == /\ Peek(BmgStart, 4) = BMG_MAGIC_1
                /\ Peek(BmgStart + 4, 4) = BMG_MAGIC_2

(* offset = start + f_size: a size_t that is stored in an int, twice. *)
TextStart == SumInt32(f_hdr.bmg_offset, BmgSizeField)
TextMagic == Peek(TextStart, 4) = TEXT_MAGIC

(* What the comparisons of the two magics, and then the size, read. *)
BmgReads == IF Peek(BmgStart, 4) # BMG_MAGIC_1 THEN 4
            ELSE IF Peek(BmgStart + 4, 4) # BMG_MAGIC_2 THEN 8 ELSE 12

MayCall(op, c) ==
  /\ pc = "read"
  /\ Len(done) < MaxCalls
  /\ c.op = op /\ call' = c
  /\ UNCHANGED <<structKept, block, i, full>>

Returned(c, ok) == done' = Append(done, [call |-> c, ok |-> ok])

(* fopen(path, "wb") empties the file, or fails: then the NULL it returns  *)
(* is written to.                                                          *)
Open(path, label) ==
  /\ stream' = << >> /\ complaints' = {} /\ UNCHANGED done
  /\ \/ /\ pc' = label
        /\ disk' = [p \in DOMAIN disk \cup {path} |->
                      IF p = path THEN << >> ELSE disk[p]]
     \/ pc' = "fault" /\ UNCHANGED disk

(* The n bytes at o that are about to be read are not all in the buffer,   *)
(* or the cursor, an int, cannot pass them, and the read ends the process. *)
Overrun(o, n) ==
  /\ o < 0 \/ o > IntMax - n \/ o + n > Len(buffer)
  /\ pc' = "fault" /\ UNCHANGED <<disk, stream, done, complaints>>

(* The exports give up on a wrong magic before they open anything. *)
Reject(what) ==
  /\ pc' = "read"
  /\ complaints' = {what}
  /\ Returned(call', FALSE)
  /\ UNCHANGED <<disk, stream>>

ExportBmg(c) ==
  /\ MayCall("export_bmg", c)
  /\ \/ Overrun(BmgStart, BmgReads)
     \/ ~BmgMagic /\ Reject("BMG")
     \/ BmgMagic /\ Open(c.path, "export_bmg")

ExportTxt(c) ==
  /\ MayCall("export_txt", c)
  /\ \/ Overrun(BmgStart, BmgReads)
     \/ BmgMagic /\ Overrun(TextStart, 4)
     \/ ~BmgMagic /\ Reject("BMG")
     \/ BmgMagic /\ ~TextMagic /\ Reject("FILE")
     \/ BmgMagic /\ TextMagic /\ Open(c.path, "export_txt")

(* What a stream has handed to its file of the bytes s. *)
Flushed(s) == SubSeq(s, 1, block * (Len(s) \div block))

(* The file grows to the bytes s, unless there is no space for it to grow: *)
(* fwrite and fclose then report an error, which nobody looks at.          *)
Write(s) == disk' = IF full THEN disk ELSE [disk EXCEPT ![call.path] = s]

Put(bytes, label) ==
  /\ stream' = stream \o bytes
  /\ Write(Flushed(stream'))
  /\ pc' = label
  /\ UNCHANGED <<structKept, block, call, full, done>>

(* fwrite of n bytes of the buffer from start, if it fits.  If not, the    *)
(* call writes what lies there, as many bytes as were claimed (which are   *)
(* fewer than 2^31 then), stops short, or ends the process.                *)
PutBuffer(start, n, fits, claimed) ==
  \/ fits /\ Put(Peek(start, n), "close") /\ UNCHANGED <<i, complaints>>
  \/ /\ ~fits
     /\ \/ \E m \in {claimed, Len(buffer) - start} :
             /\ m >= 0
             /\ Put(Peek(start, m), "close") /\ UNCHANGED <<i, complaints>>
        \/ pc' = "fault" /\ UNCHANGED <<structKept, fileVars>>

(* What is written: as many bytes as the bmg says, a size_t, and all from  *)
(* the text on, also a size_t.                                             *)
BmgFits  == BmgStart >= 0 /\ AtMost(BmgSizeField, Len(buffer) - BmgStart)
TextFits == TextStart \in 0 .. Len(buffer)
WriteBmgPart ==
  PutBuffer(BmgStart, U32(BmgSizeField), BmgFits, Int32(BmgSizeField))
WriteTxtPart ==
  PutBuffer(TextStart, Len(buffer) - TextStart, TextFits, Len(buffer) - TextStart)

(* Variants: the bmg written from where the cursor stands after its size,  *)
(* and the text from a sum that is not stored in an int.                   *)
WriteExportFromCursor ==
  \/ /\ pc = "export_bmg"
     /\ PutBuffer(BmgStart + 12, U32(BmgSizeField), BmgFits, Int32(BmgSizeField))
  \/ pc = "export_txt" /\ WriteTxtPart
WriteExportUnwrapped ==
  \/ pc = "export_bmg" /\ WriteBmgPart
  \/ /\ pc = "export_txt"
     /\ IF BmgSizeField[1] < 128 THEN WriteTxtPart
        ELSE Put(<< >>, "close") /\ UNCHANGED <<i, complaints>>

WriteExport ==
  \/ pc = "export_bmg" /\ WriteBmgPart
  \/ pc = "export_txt" /\ WriteTxtPart

(***************************************************************************)
(* Writing.                                                                *)
(***************************************************************************)
(* Variants: two fields in each other's place, the padding byte left out,  *)
(* and a 16-bit field put on the stream as if it were a byte.              *)
WrittenHeaderSwapped(h) ==
  h.magic \o h.version \o h.cups_offset \o h.info_offset \o h.bmg_offset
    \o h.mod_folder_name
WrittenCupsUnpadded(h) ==
  h.magic \o h.version \o h.size \o h.n_ct_cups \o h.nin_track_mode
    \o h.n_trophies[1] \o h.n_trophies[2] \o h.n_trophies[3]
    \o h.n_trophies[4] \o h.n_variants
WrittenTrackWhole(t) ==
  t.track_slot \o t.music_slot \o <<U16(t.n_variants)>> \o t.crc32

WrittenHeader(h) ==
  h.magic \o h.version \o h.info_offset \o h.cups_offset \o h.bmg_offset
    \o h.mod_folder_name
WrittenInfo(h, f) ==
  h.magic \o h.version \o h.size
    \o f.room_key \o f.prob_100cc \o f.prob_150cc \o f.wiimmfi_region
    \o f.track_blocking \o f.tt_trophies \o f.enable_200cc \o f.umts
    \o f.feather \o f.mega_tc \o f.n_cup_icons \o f.track_timer \o f.padding
WrittenCups(h) ==
  h.magic \o h.version \o h.size \o h.n_ct_cups \o h.nin_track_mode
    \o h.padding \o h.n_trophies[1] \o h.n_trophies[2] \o h.n_trophies[3]
    \o h.n_trophies[4] \o h.n_variants
WrittenTrack(t) == t.track_slot \o t.music_slot \o t.n_variants \o t.crc32

(* Variant: an even number of cups is rounded up as well. *)
WriteTracksRoundingEven == 4 * (U16(c_hdr.n_ct_cups) + 1)

(* write_file computes the number of tracks again. *)
WriteTracks == 4 * (U16(c_hdr.n_ct_cups) + (U16(c_hdr.n_ct_cups) % 2))

WriteFile(c) == MayCall("write_file", c) /\ Open(c.path, "w_header")

WriteFileHeader ==
  /\ pc = "w_header"
  /\ Put(WrittenHeader(f_hdr), "w_info")
  /\ UNCHANGED <<i, complaints>>

WriteInfo ==
  /\ pc = "w_info"
  /\ Put(WrittenInfo(i_hdr, i_fld), "w_cups")
  /\ UNCHANGED <<i, complaints>>

WriteCups ==
  /\ pc = "w_cups"
  /\ Put(WrittenCups(c_hdr), "w_tracks")
  /\ i' = 0 /\ UNCHANGED complaints

WriteTrackEntry ==
  /\ pc = "w_tracks"
  /\ i < WriteTracks
  /\ Put(WrittenTrack(t_arr[i + 1]), "w_tracks")
  /\ i' = i + 1 /\ UNCHANGED complaints

(* Variant: the second loop goes on with the loop variable of the first.   *)
WriteTracksDoneKeepingI ==
  /\ pc = "w_tracks"
  /\ i >= WriteTracks
  /\ Put(<< >>, "w_alphabet")
  /\ UNCHANGED <<i, complaints>>

WriteTracksDone ==
  /\ pc = "w_tracks"
  /\ i >= WriteTracks
  /\ Put(<< >>, "w_alphabet")
  /\ i' = 0 /\ UNCHANGED complaints

WriteAlphabetEntry ==
  /\ pc = "w_alphabet"
  /\ i < WriteTracks
  /\ Put(alphabet_table[i + 1], "w_alphabet")
  /\ i' = i + 1 /\ UNCHANGED complaints

(* fwrite of what buffer_from_file makes of path: all of the file, or      *)
(* nothing when it does not exist or malloc fails.                         *)
PutFile(path, label) ==
  \/ /\ path \in DOMAIN disk
     /\ Put(disk[path], label) /\ UNCHANGED <<i, complaints>>
  \/ /\ Put(<< >>, label) /\ UNCHANGED i
     /\ complaints' = complaints \cup {"file"}

WriteBmg ==
  /\ pc = "w_alphabet"
  /\ i >= WriteTracks
  /\ PutFile(call.bmg, "w_txt")

(* Variant: the bmg path is used again. *)
WriteTxtFromBmg == pc = "w_txt" /\ PutFile(call.bmg, "close")

WriteTxt == pc = "w_txt" /\ PutFile(call.txt, "close")

(* fclose, at the end of each of the three calls. *)
Close ==
  /\ pc = "close"
  /\ Write(stream)
  /\ pc' = "read"
  /\ Returned(call, complaints = {})
  /\ UNCHANGED <<structKept, block, call, stream, i, full, complaints>>

Writing == {"export_bmg", "export_txt", "w_header", "w_info", "w_cups",
            "w_tracks", "w_alphabet", "w_txt", "close"}

(* The process is killed inside a call: what was handed over stays. *)
Crash ==
  /\ pc \in Writing
  /\ pc' = "crashed"
  /\ UNCHANGED <<structKept, fileVars>>

(* The last free block goes to somebody else, and none comes back. *)
DiskFills ==
  /\ Len(done) < FillCalls /\ pc \in Writing /\ ~full
  /\ full' = TRUE
  /\ UNCHANGED <<structKept, pc, disk, block, call, stream, i, done, complaints>>

ArchiveNext ==
  \/ Load
  \/ \E c \in Requests : ExportBmg(c) \/ ExportTxt(c) \/ WriteFile(c)
  \/ WriteExport
  \/ WriteFileHeader \/ WriteInfo \/ WriteCups
  \/ WriteTrackEntry \/ WriteTracksDone \/ WriteAlphabetEntry
  \/ WriteBmg \/ WriteTxt
  \/ Close
  \/ Crash \/ DiskFills

ArchiveSpec == ArchiveInit /\ [][ArchiveNext]_archiveVars
------------------------------------------------------------------------------
(***************************************************************************)
(* What a program that uses these calls relies on.                         *)
(***************************************************************************)
ReadLabels == {"header", "info", "cups", "alloc_tracks", "tracks", "alphabet"}

(* Types of the files and of the call in progress of the exports and       *)
(* write_file.                                                             *)
ArchiveTypeOK ==
  /\ offset \in Nat /\ DOMAIN disk \subseteq Paths
  /\ \A p \in DOMAIN disk : disk[p] \in Seq(Byte)
  /\ block \in Blocks
  /\ stream \in Seq(Byte)
  /\ i \in Nat /\ full \in BOOLEAN
  /\ call \in Calls \cup {[op |-> "none"]}
  /\ done \in Seq([call : Calls, ok : BOOLEAN]) /\ Len(done) <= MaxCalls
  /\ complaints \subseteq {"BMG", "FILE", "file"}
  /\ pc \in ReadLabels \cup {"read", "fault", "crashed"} \cup Writing

(* The loops of write_file, which compute their bound from the cups header *)
(* again, stay within what read_file allocated and filled.                 *)
LoopsInBounds ==
  pc \notin ReadLabels \cup {"fault"} =>
    /\ WriteTracks <= Len(t_arr) /\ WriteTracks <= Len(alphabet_table)
    /\ Len(t_arr) <= t_cap /\ Len(alphabet_table) <= alphabet_cap

(* A file that holds what the last call that named it wrote there.         *)
Exported(op, p) ==
  \E j \in 1 .. Len(done) :
    /\ done[j].call.op = op /\ done[j].call.path = p /\ done[j].ok
    /\ \A k \in j + 1 .. Len(done) : done[k].call.path # p

(* The bmg part lies in the buffer, and the text part behind it, where the *)
(* cursor can get to.                                                      *)
PartsInBuffer ==
  /\ reported = {} /\ offset <= Len(buffer)
  /\ BmgStart >= 0 /\ BmgStart + 12 <= Len(buffer)
  /\ TextStart >= BmgStart + 12 /\ TextStart <= IntMax - 4
  /\ TextStart + 4 <= Len(buffer)

(* The two exports share out the file from bmg_offset on (what lies in     *)
(* front of it is in neither): exported by two calls, in either order and  *)
(* with any calls between them, the parts put together are the file from   *)
(* there to its end, with nothing lost or doubled.                         *)
ExportsPartitionTheRest ==
  pc = "read" /\ PartsInBuffer /\ ~full =>
    \A p, q \in Paths :
      Exported("export_bmg", p) /\ Exported("export_txt", q) =>
        disk[p] \o disk[q] = SubSeq(buffer, BmgStart + 1, Len(buffer))

(* A text part that was exported is an end of the file that begins with    *)
(* the magic, whatever the numbers in the file are: export_txt computes    *)
(* where it begins twice, once to look for the magic and once to write,    *)
(* and also where an unsigned size takes the sum around the range of int,  *)
(* to a place in front of the bmg, it writes from where it looked.         *)
ExportedTextIsAnEnd ==
  pc = "read" /\ ~full /\ TextStart >= 0 /\ TextStart <= Len(buffer) - 4 =>
    \A p \in Paths :
      Exported("export_txt", p) =>
        /\ Len(disk[p]) >= 4 /\ SubSeq(disk[p], 1, 4) = TEXT_MAGIC
        /\ disk[p] = SubSeq(buffer, Len(buffer) - Len(disk[p]) + 1, Len(buffer))

(* Taking a file apart and writing it again restores it.  If the bmg part  *)
(* follows the configuration, and write_file was given what the exports    *)
(* made, wrote to neither of them and had nothing to complain of, then     *)
(* every byte of the file is back, even in place of the original.          *)
ReassemblyIsIdentity ==
  pc = "read" /\ PartsInBuffer /\ BmgStart = offset /\ ~full /\ done # << >> =>
    LET w == done[Len(done)].call IN
    /\ done[Len(done)].ok /\ w.op = "write_file"
    /\ w.path \notin {w.bmg, w.txt}
    /\ Exported("export_bmg", w.bmg) /\ Exported("export_txt", w.txt)
    => disk[w.path] = buffer

(* Whenever write_file is interrupted, by a crash or by a full disk, what  *)
(* the path then holds is a prefix of the configuration it was writing, or *)
(* begins with all of it: a torn file can be too short, but never holds    *)
(* another configuration.                                                  *)
TornFileIsPrefix ==
  LET config == SubSeq(buffer, 1, offset)
      file   == disk[call.path] IN
  call.op = "write_file" /\ call.path \in DOMAIN disk
  /\ pc \in Writing \cup {"crashed"} /\ reported = {} /\ offset <= Len(buffer) =>
    \A k \in 1 .. Len(file) : k <= offset => file[k] = config[k]

(* pul.h calls bmg_offset the "offset to bmg file": in a file that         *)
(* write_file has written with a bmg, the bmg is found there.              *)
BmgAtBmgOffset ==
  pc = "read" /\ PartsInBuffer /\ ~full /\ done # << >> =>
    LET w == done[Len(done)].call IN
    /\ done[Len(done)].ok /\ w.op = "write_file"
    /\ w.path \notin {w.bmg, w.txt}
    /\ Exported("export_bmg", w.bmg)
    => SubSeq(disk[w.path], BmgStart + 1, BmgStart + 4) = BMG_MAGIC_1

(* The bmg part and the text part of the buffer.                           *)
BmgPart == Peek(BmgStart, U32(BmgSizeField))
TxtPart == Peek(TextStart, Len(buffer) - TextStart)

(* What read_file left of a file it did not complain of.                   *)
WholeRead ==
  /\ HeaderRead /\ InfoRead /\ CupsRead /\ TracksRead /\ IndexRead
  /\ offset = 144 + 10 * ReadTracks

(* The arrays have been asked for in the size of the cups header, and are  *)
(* filled to it, whether or not anything was reported.                     *)
ArraysFit ==
  /\ pc \in ReadLabels \ {"tracks", "alphabet"} => t_arr = << >>
  /\ pc \in ReadLabels \ {"alphabet"} => alphabet_table = << >>
  /\ pc \notin ReadLabels \cup {"fault"} \/ pc \in {"tracks", "alphabet"} =>
       t_cap = ReadTracks /\ Len(t_arr) <= ReadTracks
  /\ pc \notin ReadLabels \cup {"fault"} \/ pc = "alphabet" =>
       /\ alphabet_cap = ReadTracks /\ Len(t_arr) = ReadTracks
       /\ Len(alphabet_table) <= ReadTracks
  /\ pc \notin ReadLabels \cup {"fault"} => Len(alphabet_table) = ReadTracks

(* What a call may rely on of itself: it is what it began as, its path     *)
(* exists, and an export has nothing to complain of once that is open.     *)
CallKept ==
  /\ pc \in ReadLabels => done = << >> /\ call.op = "none"
  /\ pc \in Writing =>
       call \in Calls /\ call.path \in DOMAIN disk /\ Len(done) < MaxCalls
  /\ pc \in {"export_bmg", "export_txt"} => call.op = pc /\ stream = << >>
  /\ pc \in Writing \ {"export_bmg", "export_txt", "close"} =>
       call.op = "write_file"
  /\ pc \in Writing /\ call.op # "write_file" => complaints = {}

(* What the call in progress has put on its stream: write_file as much of  *)
(* the configuration as its label says and then the two files, as they are *)
(* on the disk, and an export its part.                                    *)
StreamInStep ==
  /\ reported = {} /\ call.op = "write_file" =>
       /\ pc = "w_header" => stream = << >>
       /\ pc = "w_info" => stream = Peek(0, 36)
       /\ pc = "w_cups" => stream = Peek(0, 116)
       /\ pc = "w_tracks" =>
            i <= ReadTracks /\ stream = Peek(0, 144 + 8 * i)
       /\ pc = "w_alphabet" =>
            i <= ReadTracks /\ stream = Peek(0, 144 + 8 * ReadTracks + 2 * i)
       /\ pc = "w_txt" /\ complaints = {} /\ call.path # call.bmg =>
            call.bmg \in DOMAIN disk /\ stream = Peek(0, offset) \o disk[call.bmg]
       /\ pc = "close" /\ complaints = {} /\ call.path \notin {call.bmg, call.txt} =>
            /\ {call.bmg, call.txt} \subseteq DOMAIN disk
            /\ stream = (Peek(0, offset) \o disk[call.bmg]) \o disk[call.txt]
       /\ pc = "w_txt" => Len(stream) >= offset
       /\ pc \in {"w_txt", "close", "crashed"} =>
            \A k \in 1 .. Len(stream) : k <= offset => stream[k] = Peek(0, offset)[k]
  /\ pc = "close" /\ call.op = "export_bmg" /\ PartsInBuffer => stream = BmgPart
  /\ pc = "close" /\ call.op = "export_txt" /\ TextFits => stream = TxtPart

(* The file is never ahead of the stream, nor anything but the beginning   *)
(* of what was put on it.                                                  *)
FileBehindStream ==
  pc \in Writing \cup {"crashed"} =>
    /\ Len(disk[call.path]) <= Len(stream)
    /\ disk[call.path] = SubSeq(stream, 1, Len(disk[call.path]))

(* An exported part stays where it was put until a call writes there, and  *)
(* a text is exported only if its magic was found.                         *)
ExportsInPlace ==
  ~full =>
    \A p \in Paths :
      /\ PartsInBuffer /\ Exported("export_bmg", p) /\ (pc = "read" \/ p # call.path) =>
           p \in DOMAIN disk /\ disk[p] = BmgPart
      /\ TextFits /\ Exported("export_txt", p) /\ (pc = "read" \/ p # call.path) =>
           p \in DOMAIN disk /\ disk[p] = TxtPart
TextsHaveMagic ==
  /\ pc \in Writing /\ call.op = "export_txt" => TextMagic
  /\ \A p \in Paths : Exported("export_txt", p) => TextMagic

(* At every point of every call, struct, stream and disk hold exactly what *)
(* the calls made so far account for: the invariant the properties above,  *)
(* and the refinement below, follow from.                                  *)
CallsInStep ==
  /\ pc \in ReadLabels \cup {"read", "fault"} => CursorInStep
  /\ pc \in {"read", "crashed"} \cup Writing /\ reported = {} => WholeRead
  /\ ReadsInBounds /\ ArraysFit
  /\ CallKept /\ StreamInStep /\ FileBehindStream
  /\ ExportsInPlace /\ TextsHaveMagic

(* A file that can be taken apart: the bmg part follows the configuration, *)
(* and the text part follows it.                                           *)
PartOf(b, o, n) == SubSeq(b, o + 1, o + n)
BmgSizeIn(b)    == Int32(PartOf(b, ConfigSize(b) + 8, 4))
Divisible(b) ==
  LET o == ConfigSize(b)
      n == BmgSizeIn(b)
  IN  /\ WellFormed(b) /\ Int32(PartOf(b, 16, 4)) = o
      /\ o + 12 <= Len(b) /\ PartOf(b, o, 8) = BMG_MAGIC_1 \o BMG_MAGIC_2
      /\ n >= 12 /\ n <= Len(b) - o - 4 /\ n <= IntMax - o - 4
      /\ PartOf(b, o + n, 4) = TEXT_MAGIC

Kinds == [b \in {v \in Images : Divisible(v)} |->
            LET o == ConfigSize(b) IN
            [pul |-> b, bmg |-> PartOf(b, o, BmgSizeIn(b)),
             txt |-> SubSeq(b, o + BmgSizeIn(b) + 1, Len(b))]]
KindOf(file) ==
  IF buffer \notin DOMAIN Kinds THEN "other"
  ELSE LET parts == Kinds[buffer]
       IN  IF file = parts.pul THEN "pul" ELSE IF file = parts.bmg THEN "bmg"
           ELSE IF file = parts.txt THEN "txt" ELSE "other"

Store == INSTANCE PulStore WITH
  kind    <- [p \in Paths |-> IF p \in DOMAIN disk THEN KindOf(disk[p]) ELSE "absent"],
  sound   <- buffer \in DOMAIN Kinds,
  request <- call,
  status  <- IF pc \in Writing THEN "busy"
             ELSE IF pc \in {"fault", "crashed"} THEN "dead"
             ELSE IF done = << >> \/ (done[Len(done)].ok /\ ~full) THEN "well"
             ELSE "badly"

(* Every behaviour of read_file and the calls after it is one of PulStore: *)
(* whatever crashes, fills the disk or is missing, a call touches its own  *)
(* path alone, and one that ends well has made what it is named for.       *)
KeepsStore == Store!StoreSpec
==============================================================================
