--------------------------- MODULE PulArchiveProofs --------------------------
(***************************************************************************)
(* Proofs about PulArchive, for every image, every request, every size of  *)
(* block, any number of calls, and whatever was on the disk before; in the *)
(* end, that it implements PulStore.                                       *)
(***************************************************************************)
EXTENDS PulArchive, PulReaderProofs

(* The struct, the buffer and the cursor have their types at every point.  *)
StructsOK ==
  /\ buffer \in Seq(Byte) /\ memory \in Memory /\ offset \in Nat
  /\ f_hdr \in FileHeader /\ i_hdr \in InfoHeader
  /\ i_fld \in InfoFields /\ c_hdr \in CupsHeader
  /\ t_arr \in Seq(TrackEntry) /\ alphabet_table \in Seq(Bytes(2))
  /\ t_cap \in Nat /\ alphabet_cap \in Nat
  /\ reported \subseteq {"PULS", "INFO", "CUPS"}

(***************************************************************************)
(* Streams.                                                                *)
(***************************************************************************)
(* A stream never hands over more than it was given, nor anything else.    *)
LEMMA FlushedIsPrefix ==
  ASSUME block \in Nat \ {0}, NEW s \in Seq(Byte)
  PROVE  /\ Flushed(s) \in Seq(Byte)
         /\ Len(Flushed(s)) <= Len(s)
         /\ Flushed(s) = SubSeq(s, 1, Len(Flushed(s)))
  <1> DEFINE n == block * (Len(s) \div block)
  <1>1. n \in Nat /\ n <= Len(s)
    <2>1. Len(s) \in Nat /\ block \in Nat /\ block > 0
      OBVIOUS
    <2>2. \A x, y \in Nat : y > 0 => y * (x \div y) \in Nat /\ y * (x \div y) <= x
      OBVIOUS
    <2>3. QED
      BY <2>1, <2>2
  <1> HIDE DEF n
  <1>2. Flushed(s) = SubSeq(s, 1, n)
    BY DEF Flushed, n
  <1>3. QED
    BY <1>1, <1>2

(* What was the beginning of a stream stays so when more is put on it.     *)
LEMMA PrefixOfLonger ==
  ASSUME NEW s \in Seq(Byte), NEW more \in Seq(Byte), NEW n \in Nat, n <= Len(s)
  PROVE  SubSeq(s \o more, 1, n) = SubSeq(s, 1, n)
  OBVIOUS

(* The number of entries that write_file computes is that of read_file.    *)
LEMMA TracksAgree == WriteTracks = ReadTracks
  BY DEF WriteTracks, ReadTracks

(***************************************************************************)
(* The calls leave alone what read_file filled in.                         *)
(***************************************************************************)
LEMMA KeptStable ==
  ASSUME UNCHANGED structKept
  PROVE  /\ StructsOK => StructsOK'
         /\ ReadsInBounds => ReadsInBounds'
         /\ WholeRead => WholeRead'
         /\ ReadTracks' = ReadTracks
         /\ \A o, n : Peek(o, n)' = Peek(o, n)
         /\ BmgStart' = BmgStart /\ TextStart' = TextStart
         /\ PartsInBuffer' = PartsInBuffer
         /\ TextFits' = TextFits /\ TextMagic' = TextMagic
         /\ BmgPart' = BmgPart /\ TxtPart' = TxtPart
  <1>1. /\ buffer' = buffer /\ memory' = memory /\ offset' = offset
        /\ f_hdr' = f_hdr /\ i_hdr' = i_hdr /\ i_fld' = i_fld /\ c_hdr' = c_hdr
        /\ t_arr' = t_arr /\ alphabet_table' = alphabet_table
        /\ t_cap' = t_cap /\ alphabet_cap' = alphabet_cap
        /\ reported' = reported
    BY DEF structKept, structVars, arrayVars
  <1>2. StructsOK => StructsOK'
    BY <1>1 DEF StructsOK
  <1>3. ReadsInBounds => ReadsInBounds'
    BY <1>1 DEF ReadsInBounds
  <1>4. ReadTracks' = ReadTracks
    BY <1>1 DEF ReadTracks
  <1>5. \A o, n : Peek(o, n)' = Peek(o, n)
    BY <1>1 DEF Peek, Outside
  <1>6. WholeRead => WholeRead'
    <2>1. IndexRead => IndexRead'
      BY <1>1, <1>4, <1>5 DEF IndexRead
    <2>2. QED
      BY <1>1, <1>4, <2>1, ReadStable DEF WholeRead
  <1>7. BmgStart' = BmgStart
    BY <1>1 DEF BmgStart
  <1>8. BmgSizeField' = BmgSizeField
    BY <1>5, <1>7 DEF BmgSizeField
  <1>9. TextStart' = TextStart
    BY <1>1, <1>8 DEF TextStart
  <1>10. PartsInBuffer' = PartsInBuffer
    BY <1>1, <1>7, <1>9 DEF PartsInBuffer
  <1>11. BmgPart' = BmgPart
    BY <1>5, <1>7, <1>8 DEF BmgPart
  <1>12. TxtPart' = TxtPart
    BY <1>1, <1>5, <1>9 DEF TxtPart
  <1>13. TextFits' = TextFits /\ TextMagic' = TextMagic
    BY <1>1, <1>5, <1>9 DEF TextFits, TextMagic
  <1>14. QED
    BY <1>2, <1>3, <1>4, <1>5, <1>6, <1>7, <1>9, <1>10, <1>11, <1>12, <1>13

(* What is known of a stream lasts while neither it nor the files change.  *)
LEMMA StreamStable ==
  ASSUME UNCHANGED structKept, UNCHANGED <<pc, disk, call, stream, i, complaints>>,
         StreamInStep
  PROVE  StreamInStep'
  <1>1. /\ pc' = pc /\ disk' = disk /\ call' = call /\ stream' = stream
        /\ i' = i /\ complaints' = complaints
        /\ reported' = reported /\ offset' = offset
    BY DEF structKept
  <1>2. /\ ReadTracks' = ReadTracks /\ PartsInBuffer' = PartsInBuffer
        /\ BmgPart' = BmgPart /\ TxtPart' = TxtPart /\ TextFits' = TextFits
    BY KeptStable
  <1>3. \A o, n : Peek(o, n)' = Peek(o, n)
    BY KeptStable
  <1>4. /\ Peek(0, 36)' = Peek(0, 36) /\ Peek(0, 116)' = Peek(0, 116)
        /\ Peek(0, 144 + 8 * i)' = Peek(0, 144 + 8 * i)
        /\ Peek(0, 144 + 8 * ReadTracks + 2 * i)'
             = Peek(0, 144 + 8 * ReadTracks + 2 * i)
        /\ Peek(0, offset)' = Peek(0, offset)
    BY <1>1, <1>2, <1>3
  <1>5. CASE pc \in {"w_header", "w_info", "w_cups"}
    BY <1>1, <1>4, <1>5 DEF StreamInStep
  <1>6. CASE pc \in {"w_tracks", "w_alphabet"}
    BY <1>1, <1>2, <1>4, <1>6 DEF StreamInStep
  <1>7. CASE pc \in {"w_txt", "crashed"}
    BY <1>1, <1>4, <1>7 DEF StreamInStep
  <1>8. CASE pc = "close"
    BY <1>1, <1>2, <1>4, <1>8 DEF StreamInStep
  <1>9. QED
    BY <1>1, <1>5, <1>6, <1>7, <1>8 DEF StreamInStep

(***************************************************************************)
(* The inductive invariant: the types, and at every point of every call    *)
(* what CallsInStep says.                                                  *)
(***************************************************************************)
ArchiveInv ==
  ArchiveTypeOK /\ StructsOK /\ CallsInStep /\ ReassemblyIsIdentity

(* Nothing has been exported before the first call returns.                *)
LEMMA NothingExported ==
  ASSUME done = << >>
  PROVE  \A op, p : ~Exported(op, p)
  BY DEF Exported

(* The program starts in the invariant, whatever is on the disk.           *)
LEMMA ArchiveInvInit == ArchiveInit => ArchiveInv
  <1> SUFFICES ASSUME ArchiveInit PROVE ArchiveInv
    OBVIOUS
  <1>1. ReaderInv /\ pc = "header" /\ done = << >>
    BY InvInit DEF ArchiveInit, ReaderInit
  <1>2. StructsOK
    BY <1>1 DEF ReaderInv, ReaderTypeOK, StructsOK
  <1>3. ArchiveTypeOK
    <2>1. PICK old \in OldFiles :
            disk = [p \in DOMAIN old \cup {PulPath} |->
                      IF p = PulPath THEN buffer ELSE old[p]]
      BY DEF ArchiveInit
    <2>2. /\ DOMAIN old \subseteq Paths
          /\ \A p \in DOMAIN old : old[p] \in Seq(Byte)
      BY OldAssumption
    <2>3. /\ DOMAIN disk \subseteq Paths
          /\ \A p \in DOMAIN disk : disk[p] \in Seq(Byte)
      BY <1>2, <2>1, <2>2, PathAssumption DEF StructsOK
    <2>4. /\ block \in Blocks /\ stream = << >> /\ i = 0 /\ full = FALSE
          /\ call = [op |-> "none"] /\ complaints = {}
      BY DEF ArchiveInit
    <2>5. done \in Seq([call : Calls, ok : BOOLEAN]) /\ Len(done) <= MaxCalls
      BY <1>1, CallsAssumption
    <2>6. /\ offset \in Nat /\ stream \in Seq(Byte) /\ i \in Nat
          /\ complaints \subseteq {"BMG", "FILE", "file"}
      BY <1>2, <2>4 DEF StructsOK
    <2>7. full \in BOOLEAN /\ call \in Calls \cup {[op |-> "none"]}
      BY <2>4, Zenon
    <2>8. pc \in ReadLabels
      BY <1>1 DEF ReadLabels
    <2>9. QED
      BY <2>3, <2>4, <2>5, <2>6, <2>7, <2>8 DEF ArchiveTypeOK
  <1>4. CallsInStep
    <2>1. ArraysFit
      BY <1>1 DEF ArraysFit, ReadLabels, ArchiveInit, ReaderInit
    <2>2. CallKept
      BY <1>1 DEF CallKept, ReadLabels, Writing, ArchiveInit
    <2>3. StreamInStep /\ FileBehindStream
      BY <1>1 DEF StreamInStep, FileBehindStream, Writing
    <2>4. ExportsInPlace
      BY <1>1, NothingExported DEF ExportsInPlace
    <2>5. TextsHaveMagic
      BY <1>1, NothingExported DEF TextsHaveMagic, Writing
    <2>6. QED
      BY <1>1, <2>1, <2>2, <2>3, <2>4, <2>5 DEF CallsInStep, ReaderInv, Writing
  <1>5. ReassemblyIsIdentity
    BY <1>1 DEF ReassemblyIsIdentity
  <1>6. QED
    BY <1>2, <1>3, <1>4, <1>5 DEF ArchiveInv

(***************************************************************************)
(* read_file, before the first call.                                       *)
(***************************************************************************)
(* The two arrays are filled to the size that malloc was asked for.        *)
LEMMA ReaderFitsArrays ==
  ASSUME StructsOK, ArraysFit, pc \in ReadLabels, ReaderNext
  PROVE  ArraysFit'
  <1>1. /\ pc' \in ReadLabels \cup {"read", "fault"}
        /\ Len(t_arr) \in Nat /\ Len(alphabet_table) \in Nat
    BY DEF StructsOK, ReaderNext, ReadFileHeader, ReadFileInfo, ReadCupsHeader,
           AllocTracks, ReadTrackEntry, AllocAlphabet, ReadAlphabetEntry, Return,
           Advance, ReadLabels
  <1>2. ReaderTypeOK
    BY DEF StructsOK, ReaderTypeOK, ReadLabels
  <1>3. ArraysFilled
    BY DEF ArraysFit, ArraysFilled, ReadLabels
  <1>4. ArraysFilled'
    BY <1>2, <1>3, FillStep
  <1>5. QED
    BY <1>1, <1>4 DEF ArraysFit, ArraysFilled, ReadLabels

(* No step of read_file leaves the invariant.                              *)
LEMMA LoadKeepsInv ==
  ASSUME ArchiveInv, Load
  PROVE  ArchiveInv'
  <1>1. /\ ReaderNext /\ UNCHANGED fileVars
        /\ pc \in ReadLabels
    BY DEF Load, ReaderNext, ReadLabels, ReadFileHeader, ReadFileInfo,
           ReadCupsHeader, AllocTracks, ReadTrackEntry, AllocAlphabet,
           ReadAlphabetEntry, Return
  <1>2. /\ disk' = disk /\ block' = block /\ call' = call /\ stream' = stream
        /\ i' = i /\ full' = full /\ done' = done /\ complaints' = complaints
    BY <1>1 DEF fileVars
  <1>3. ReaderInv
    BY <1>1 DEF ArchiveInv, StructsOK, CallsInStep, ReaderInv, ReaderTypeOK,
                ReadLabels
  <1>4. ReaderInv'
    BY <1>1, <1>3, InvNext
  <1>5. /\ StructsOK' /\ ReadsInBounds' /\ CursorInStep'
        /\ pc' \in ReadLabels \cup {"read", "fault"}
    BY <1>4 DEF ReaderInv, ReaderTypeOK, StructsOK, ReadLabels
  <1>6. pc' \notin Writing /\ pc' # "crashed"
    BY <1>5 DEF ReadLabels, Writing
  <1>7. ArchiveTypeOK'
    BY <1>2, <1>5 DEF ArchiveInv, ArchiveTypeOK, StructsOK
  <1>8. done' = << >> /\ call'.op = "none"
    BY <1>1, <1>2 DEF ArchiveInv, CallsInStep, CallKept
  <1>9. ArraysFit'
    BY <1>1, ReaderFitsArrays DEF ArchiveInv, CallsInStep
  <1>10. pc' = "read" /\ reported' = {} => WholeRead'
    <2> SUFFICES ASSUME pc' = "read", reported' = {} PROVE WholeRead'
      OBVIOUS
    <2>1. Return
      BY <1>1 DEF ReaderNext, ReadFileHeader, ReadFileInfo, ReadCupsHeader,
                  AllocTracks, ReadTrackEntry, AllocAlphabet,
                  ReadAlphabetEntry, Advance
    <2>2. ReadTracks' = ReadTracks /\ ReadTracks \in Nat
      BY <1>3, <2>1, ReadTracksType
         DEF Return, structVars, ReadTracks, ReaderInv, ReaderTypeOK
    <2>3. QED
      BY <1>5, <2>2 DEF CursorInStep, WholeRead
  <1>11. CallKept'
    BY <1>6, <1>8 DEF CallKept, Writing
  <1>12. StreamInStep' /\ FileBehindStream'
    BY <1>6 DEF StreamInStep, FileBehindStream, Writing
  <1>13. ExportsInPlace' /\ TextsHaveMagic'
    BY <1>6, <1>8 DEF ExportsInPlace, TextsHaveMagic, Exported
  <1>14. ReassemblyIsIdentity'
    BY <1>8 DEF ReassemblyIsIdentity
  <1>15. QED
    BY <1>5, <1>6, <1>7, <1>9, <1>10, <1>11, <1>12, <1>13, <1>14
       DEF ArchiveInv, CallsInStep

(***************************************************************************)
(* The calls, after it.                                                    *)
(***************************************************************************)
(* A call that leaves the struct alone leaves what is known of it.         *)
LEMMA CallsKeepStruct ==
  ASSUME ArchiveInv, UNCHANGED structKept, pc \in {"read"} \cup Writing,
         pc' \in {"read", "fault", "crashed"} \cup Writing
  PROVE  /\ StructsOK' /\ ReadsInBounds' /\ ArraysFit'
         /\ pc' \in ReadLabels \cup {"read", "fault"} => CursorInStep'
         /\ pc' \in {"read", "crashed"} \cup Writing /\ reported' = {} => WholeRead'
  <1>1. /\ pc \notin ReadLabels \cup {"fault"} /\ pc' \notin ReadLabels
    BY DEF ReadLabels, Writing
  <1>2. /\ t_arr' = t_arr /\ alphabet_table' = alphabet_table
        /\ t_cap' = t_cap /\ alphabet_cap' = alphabet_cap
        /\ reported' = reported /\ offset' = offset
    BY DEF structKept, structVars, arrayVars
  <1>3. /\ StructsOK' /\ ReadsInBounds' /\ ReadTracks' = ReadTracks
        /\ WholeRead => WholeRead'
    BY KeptStable DEF ArchiveInv, CallsInStep
  <1>4. ReadTracks \in Nat
    BY ReadTracksType DEF ArchiveInv, StructsOK
  <1>5. /\ t_cap = ReadTracks /\ Len(t_arr) = ReadTracks
        /\ alphabet_cap = ReadTracks /\ Len(alphabet_table) = ReadTracks
    BY <1>1 DEF ArchiveInv, CallsInStep, ArraysFit
  <1>6. ArraysFit'
    BY <1>1, <1>2, <1>3, <1>4, <1>5 DEF ArraysFit, ReadLabels
  <1>7. reported' = {} => WholeRead'
    BY <1>2, <1>3 DEF ArchiveInv, CallsInStep
  <1>8. pc' \in {"read", "fault"} => CursorInStep'
    BY <1>2, <1>3, <1>4, <1>5, <1>7 DEF CursorInStep, WholeRead
  <1>9. QED
    BY <1>1, <1>3, <1>6, <1>7, <1>8

(* While no call returns, no file becomes or ceases to be an export.       *)
LEMMA ExportedWhileCalling ==
  ASSUME done' = done
  PROVE  \A op, p : Exported(op, p)' = Exported(op, p)
  BY DEF Exported

(* Nor does a text that was exported lose its magic.                       *)
LEMMA MagicStable ==
  ASSUME UNCHANGED structKept, done' = done, TextsHaveMagic,
         pc' \notin Writing \/ (pc \in Writing /\ call' = call)
  PROVE  TextsHaveMagic'
  <1>1. TextMagic' = TextMagic
    BY KeptStable
  <1>2. \A p : Exported("export_txt", p)' = Exported("export_txt", p)
    BY ExportedWhileCalling
  <1>3. QED
    BY <1>1, <1>2 DEF TextsHaveMagic

(* A call that returns exports to its own path, and only if it went well.  *)
LEMMA ExportedReturned ==
  ASSUME NEW D, done \in Seq(D), NEW c, NEW ok, Returned(c, ok)
  PROVE  /\ \A op, p : p # c.path /\ Exported(op, p)' => Exported(op, p)
         /\ \A op : Exported(op, c.path)' => ok /\ c.op = op
  <1> DEFINE e == [call |-> c, ok |-> ok]
  <1>1. /\ Len(done') = Len(done) + 1 /\ done'[Len(done) + 1] = e
        /\ \A j \in 1 .. Len(done) : done'[j] = done[j]
        /\ Len(done) \in Nat
    BY DEF Returned
  <1>2. e.call = c /\ e.ok = ok
    OBVIOUS
  <1> HIDE DEF e
  <1>3. ASSUME NEW op, NEW p, p # c.path, Exported(op, p)'
        PROVE  Exported(op, p)
    <2>1. PICK j \in 1 .. Len(done') :
            /\ done'[j].call.op = op /\ done'[j].call.path = p /\ done'[j].ok
            /\ \A k \in j + 1 .. Len(done') : done'[k].call.path # p
      BY <1>3 DEF Exported
    <2>2. j \in 1 .. Len(done)
      BY <1>1, <1>2, <1>3, <2>1
    <2>3. QED
      BY <1>1, <2>1, <2>2 DEF Exported
  <1>4. ASSUME NEW op, Exported(op, c.path)'
        PROVE  ok /\ c.op = op
    <2>1. PICK j \in 1 .. Len(done') :
            /\ done'[j].call.op = op /\ done'[j].ok
            /\ \A k \in j + 1 .. Len(done') : done'[k].call.path # c.path
      BY <1>4 DEF Exported
    <2>2. j = Len(done) + 1
      BY <1>1, <1>2, <2>1
    <2>3. QED
      BY <1>1, <1>2, <2>1, <2>2
  <1>5. QED
    BY <1>3, <1>4

(* A process that ends inside a call leaves the invariant as it is.        *)
LEMMA FaultKeepsInv ==
  ASSUME ArchiveInv, UNCHANGED <<structKept, disk, block, done, full>>,
         pc \in {"read"} \cup Writing, pc' = "fault",
         pc = "read" \/ call' = call,
         stream' \in Seq(Byte), i' \in Nat, call' \in Calls,
         complaints' \subseteq {"BMG", "FILE", "file"}
  PROVE  ArchiveInv'
  <1>1. /\ StructsOK' /\ ReadsInBounds' /\ ArraysFit' /\ CursorInStep'
    BY CallsKeepStruct, Zenon DEF ReadLabels
  <1>2. pc' \notin ReadLabels \cup {"read", "crashed"} \cup Writing
    BY DEF ReadLabels, Writing
  <1>3. ArchiveTypeOK'
    BY <1>1 DEF ArchiveInv, ArchiveTypeOK, StructsOK
  <1>4. CallKept' /\ StreamInStep' /\ FileBehindStream' /\ ReassemblyIsIdentity'
    BY <1>2 DEF CallKept, StreamInStep, FileBehindStream, ReassemblyIsIdentity,
                Writing
  <1>5. ExportsInPlace'
    BY KeptStable, ExportedWhileCalling DEF ArchiveInv, CallsInStep, ExportsInPlace
  <1>6. TextsHaveMagic'
    BY <1>2, MagicStable DEF ArchiveInv, CallsInStep
  <1>7. QED
    BY <1>1, <1>2, <1>3, <1>4, <1>5, <1>6 DEF ArchiveInv, CallsInStep

(* fopen of the path of a call, which empties it or fails.                 *)
LEMMA OpenKeepsInv ==
  ASSUME ArchiveInv, NEW c \in Requests, NEW op, NEW label,
         MayCall(op, c), Open(c.path, label),
         \/ label \in {"export_bmg", "export_txt"} /\ op = label
         \/ label = "w_header" /\ op = "write_file",
         op = "export_txt" => TextMagic
  PROVE  ArchiveInv'
  <1>1. /\ pc = "read" /\ Len(done) < MaxCalls /\ c.op = op /\ call' = c
        /\ UNCHANGED <<structKept, block, i, full>>
        /\ stream' = << >> /\ complaints' = {} /\ done' = done
    BY DEF MayCall, Open
  <1>2. c \in Calls /\ c.path \in Paths
    BY CallsAssumption DEF Calls
  <1>3. CASE pc' = "fault" /\ UNCHANGED disk
    <2>1. i' \in Nat /\ stream' \in Seq(Byte)
      BY <1>1 DEF ArchiveInv, ArchiveTypeOK
    <2>2. QED
      BY <1>1, <1>2, <1>3, <2>1, FaultKeepsInv
  <1>4. CASE /\ pc' = label
             /\ disk' = [p \in DOMAIN disk \cup {c.path} |->
                           IF p = c.path THEN << >> ELSE disk[p]]
    <2>1. label \in Writing /\ pc' \notin ReadLabels \cup {"read", "fault"}
      BY <1>4 DEF Writing, ReadLabels
    <2>2. /\ StructsOK' /\ ReadsInBounds' /\ ArraysFit'
          /\ pc' \in {"read", "crashed"} \cup Writing /\ reported' = {} => WholeRead'
      BY <1>1, <1>4, <2>1, CallsKeepStruct
    <2>3. /\ DOMAIN disk' = DOMAIN disk \cup {c.path}
          /\ disk'[c.path] = << >>
          /\ \A p \in DOMAIN disk : p # c.path => disk'[p] = disk[p]
      BY <1>4
    <2>4. ArchiveTypeOK'
      <3>1. /\ DOMAIN disk \subseteq Paths
            /\ \A p \in DOMAIN disk : disk[p] \in Seq(Byte)
        BY DEF ArchiveInv, ArchiveTypeOK
      <3>2. /\ DOMAIN disk' \subseteq Paths
            /\ \A p \in DOMAIN disk' : disk'[p] \in Seq(Byte)
        <4>1. << >> \in Seq(Byte)
          OBVIOUS
        <4>2. ASSUME NEW p \in DOMAIN disk' PROVE disk'[p] \in Seq(Byte)
          <5>1. CASE p = c.path
            BY <2>3, <4>1, <5>1, Zenon
          <5>2. CASE p # c.path
            BY <2>3, <3>1, <5>2, Zenon
          <5>3. QED
            BY <5>1, <5>2
        <4>3. QED
          BY <1>2, <2>3, <3>1, <4>2, Zenon
      <3>3. QED
        BY <1>1, <1>2, <1>4, <2>1, <2>2, <3>2
           DEF ArchiveInv, ArchiveTypeOK, StructsOK
    <2>5. CallKept'
      BY <1>1, <1>2, <1>4, <2>1, <2>3 DEF CallKept, Writing
    <2>6. StreamInStep'
      BY <1>1, <1>4 DEF StreamInStep
    <2>7. FileBehindStream'
      BY <1>1, <2>3 DEF FileBehindStream
    <2>8. ExportsInPlace'
      BY <1>1, <2>1, <2>3, KeptStable, ExportedWhileCalling
         DEF ArchiveInv, CallsInStep, ExportsInPlace
    <2>9. TextsHaveMagic'
      <3>1. TextMagic' = TextMagic
        BY <1>1, KeptStable
      <3>2. \A p : Exported("export_txt", p)' = Exported("export_txt", p)
        BY <1>1, ExportedWhileCalling
      <3>3. QED
        BY <1>1, <3>1, <3>2 DEF ArchiveInv, CallsInStep, TextsHaveMagic
    <2>10. QED
      BY <2>1, <2>2, <2>4, <2>5, <2>6, <2>7, <2>8, <2>9
         DEF ArchiveInv, CallsInStep, ReassemblyIsIdentity, Writing
  <1>5. QED
    BY <1>3, <1>4 DEF Open

(* An export that gives up returns, and has changed no file.               *)
LEMMA RejectKeepsInv ==
  ASSUME ArchiveInv, NEW c \in Requests, NEW op, NEW what \in {"BMG", "FILE"},
         MayCall(op, c), Reject(what)
  PROVE  ArchiveInv'
  <1>1. /\ pc = "read" /\ Len(done) < MaxCalls /\ call' = c
        /\ UNCHANGED <<structKept, block, i, full, disk, stream>>
        /\ pc' = "read" /\ complaints' = {what}
        /\ done' = Append(done, [call |-> c, ok |-> FALSE])
    BY DEF MayCall, Reject, Returned
  <1>2. c \in Calls
    BY CallsAssumption
  <1>3. /\ StructsOK' /\ ReadsInBounds' /\ ArraysFit' /\ CursorInStep'
        /\ reported' = {} => WholeRead'
    BY <1>1, CallsKeepStruct
  <1>4. done \in Seq([call : Calls, ok : BOOLEAN])
    BY DEF ArchiveInv, ArchiveTypeOK
  <1>5. ArchiveTypeOK'
    <2>1. [call |-> c, ok |-> FALSE] \in [call : Calls, ok : BOOLEAN]
      BY <1>2
    <2>2. /\ done' \in Seq([call : Calls, ok : BOOLEAN])
          /\ Len(done') = Len(done) + 1 /\ Len(done) \in Nat
      BY <1>1, <1>4, <2>1
    <2>3. Len(done') <= MaxCalls
      BY <1>1, <2>2, CallsAssumption
    <2>4. QED
      BY <1>1, <1>2, <1>3, <2>2, <2>3 DEF ArchiveInv, ArchiveTypeOK, StructsOK
  <1>6. CallKept' /\ StreamInStep' /\ FileBehindStream'
    BY <1>1 DEF CallKept, StreamInStep, FileBehindStream, Writing, ReadLabels
  <1>7. /\ \A o, p : p # c.path /\ Exported(o, p)' => Exported(o, p)
        /\ \A o : ~Exported(o, c.path)'
    <2>1. Returned(c, FALSE)
      BY <1>1 DEF Returned
    <2>2. QED
      BY <1>4, <2>1, ExportedReturned
  <1>8. ExportsInPlace' /\ TextsHaveMagic'
    <2>1. ExportsInPlace'
      BY <1>1, <1>7, KeptStable DEF ArchiveInv, CallsInStep, ExportsInPlace
    <2>2. TextsHaveMagic'
      BY <1>1, <1>7, KeptStable DEF ArchiveInv, CallsInStep, TextsHaveMagic, Writing
    <2>3. QED
      BY <2>1, <2>2
  <1>9. ReassemblyIsIdentity'
    <2>1. ~done'[Len(done')].ok
      BY <1>1, <1>4
    <2>2. QED
      BY <2>1 DEF ReassemblyIsIdentity
  <1>10. QED
    BY <1>1, <1>3, <1>5, <1>6, <1>8, <1>9 DEF ArchiveInv, CallsInStep, Writing

(* A call that reads past the buffer to see what to export, and ends there. *)
LEMMA OverrunKeepsInv ==
  ASSUME ArchiveInv, NEW c \in Requests, NEW op, NEW o, NEW n,
         MayCall(op, c), Overrun(o, n)
  PROVE  ArchiveInv'
  <1>1. /\ pc = "read" /\ call' = c
        /\ UNCHANGED <<structKept, block, i, full>>
        /\ pc' = "fault" /\ UNCHANGED <<disk, stream, done, complaints>>
    BY DEF MayCall, Overrun
  <1>2. c \in Calls
    BY CallsAssumption
  <1>3. /\ i' \in Nat /\ stream' \in Seq(Byte)
        /\ complaints' \subseteq {"BMG", "FILE", "file"}
    BY <1>1 DEF ArchiveInv, ArchiveTypeOK
  <1>4. QED
    BY <1>1, <1>2, <1>3, FaultKeepsInv

(* The first steps of the three calls keep the invariant.                  *)
LEMMA BeginKeepsInv ==
  ASSUME ArchiveInv, NEW c \in Requests,
         ExportBmg(c) \/ ExportTxt(c) \/ WriteFile(c)
  PROVE  ArchiveInv'
  <1>1. CASE ExportBmg(c)
    <2>1. MayCall("export_bmg", c)
      BY <1>1 DEF ExportBmg
    <2>2. CASE Overrun(BmgStart, BmgReads)
      BY <2>1, <2>2, OverrunKeepsInv
    <2>3. CASE Reject("BMG")
      BY <2>1, <2>3, RejectKeepsInv
    <2>4. CASE Open(c.path, "export_bmg")
      BY <2>1, <2>4, OpenKeepsInv
    <2>5. QED
      BY <1>1, <2>2, <2>3, <2>4 DEF ExportBmg
  <1>2. CASE ExportTxt(c)
    <2>1. MayCall("export_txt", c)
      BY <1>2 DEF ExportTxt
    <2>2. CASE Overrun(BmgStart, BmgReads)
      BY <2>1, <2>2, OverrunKeepsInv
    <2>3. CASE Overrun(TextStart, 4)
      BY <2>1, <2>3, OverrunKeepsInv
    <2>4. CASE Reject("BMG")
      BY <2>1, <2>4, RejectKeepsInv
    <2>5. CASE Reject("FILE")
      BY <2>1, <2>5, RejectKeepsInv
    <2>6. CASE TextMagic /\ Open(c.path, "export_txt")
      BY <2>1, <2>6, OpenKeepsInv
    <2>7. QED
      BY <1>2, <2>2, <2>3, <2>4, <2>5, <2>6 DEF ExportTxt
  <1>3. CASE WriteFile(c)
    BY <1>3, OpenKeepsInv DEF WriteFile
  <1>4. QED
    BY <1>1, <1>2, <1>3

(***************************************************************************)
(* What fwrite does to the files, whoever calls it.                        *)
(***************************************************************************)
LEMMA PutKeepsFiles ==
  ASSUME ArchiveInv, pc \in Writing, NEW bytes \in Seq(Byte),
         NEW label \in Writing, Put(bytes, label)
  PROVE  /\ stream' = stream \o bytes /\ stream' \in Seq(Byte)
         /\ DOMAIN disk' = DOMAIN disk
         /\ \A p \in DOMAIN disk : disk'[p] \in Seq(Byte)
         /\ \A p \in DOMAIN disk : p # call.path => disk'[p] = disk[p]
         /\ FileBehindStream' /\ ExportsInPlace' /\ TextsHaveMagic'
  <1>1. /\ stream' = stream \o bytes /\ pc' = label
        /\ disk' = IF full THEN disk ELSE [disk EXCEPT ![call.path] = Flushed(stream')]
        /\ UNCHANGED structKept /\ block' = block /\ call' = call
        /\ full' = full /\ done' = done
    BY DEF Put, Write
  <1>2. /\ stream \in Seq(Byte) /\ block \in Nat \ {0}
        /\ \A p \in DOMAIN disk : disk[p] \in Seq(Byte)
    BY BlockAssumption DEF ArchiveInv, ArchiveTypeOK
  <1>3. /\ call.path \in DOMAIN disk
        /\ Len(disk[call.path]) <= Len(stream)
        /\ disk[call.path] = SubSeq(stream, 1, Len(disk[call.path]))
    BY DEF ArchiveInv, CallsInStep, CallKept, FileBehindStream
  <1>4. stream' \in Seq(Byte) /\ Len(stream') = Len(stream) + Len(bytes)
    BY <1>1, <1>2
  <1>5. /\ Flushed(stream') \in Seq(Byte)
        /\ Len(Flushed(stream')) <= Len(stream')
        /\ Flushed(stream') = SubSeq(stream', 1, Len(Flushed(stream')))
    <2> DEFINE s == stream'
    <2>1. s \in Seq(Byte)
      BY <1>4
    <2> HIDE DEF s
    <2>2. /\ Flushed(s) \in Seq(Byte) /\ Len(Flushed(s)) <= Len(s)
          /\ Flushed(s) = SubSeq(s, 1, Len(Flushed(s)))
      BY <1>2, <2>1, FlushedIsPrefix
    <2>3. QED
      BY <2>2 DEF s
  <1>6. /\ DOMAIN disk' = DOMAIN disk
        /\ \A p \in DOMAIN disk : p # call.path => disk'[p] = disk[p]
        /\ disk'[call.path] = IF full THEN disk[call.path] ELSE Flushed(stream')
    BY <1>1, <1>3
  <1>7. ASSUME NEW p \in DOMAIN disk PROVE disk'[p] \in Seq(Byte)
    BY <1>2, <1>5, <1>6, Zenon
  <1>8. FileBehindStream'
    <2>1. CASE full
      <3>1. Len(disk[call.path]) \in Nat /\ Len(bytes) \in Nat
        BY <1>2, <1>3
      <3>2. SubSeq(stream', 1, Len(disk[call.path])) = disk[call.path]
        BY <1>1, <1>2, <1>3, <3>1, PrefixOfLonger
      <3>3. Len(disk[call.path]) <= Len(stream')
        BY <1>2, <1>3, <1>4, <3>1
      <3>4. QED
        BY <1>1, <1>6, <2>1, <3>2, <3>3 DEF FileBehindStream
    <2>2. CASE ~full
      BY <1>1, <1>5, <1>6, <2>2 DEF FileBehindStream
    <2>3. QED
      BY <2>1, <2>2
  <1>9. ExportsInPlace'
    BY <1>1, <1>6, KeptStable, ExportedWhileCalling
       DEF ArchiveInv, CallsInStep, ExportsInPlace, Writing
  <1>10. TextsHaveMagic'
    BY <1>1, MagicStable DEF ArchiveInv, CallsInStep
  <1>11. QED
    BY <1>1, <1>4, <1>6, <1>7, <1>8, <1>9, <1>10

(* What remains to be said of a step that puts something on the stream.    *)
LEMMA PutKeepsInv ==
  ASSUME ArchiveInv, pc \in Writing, NEW bytes \in Seq(Byte),
         NEW label \in Writing, Put(bytes, label), i' \in Nat,
         complaints' \subseteq {"BMG", "FILE", "file"},
         CallKept', StreamInStep'
  PROVE  ArchiveInv'
  <1>1. /\ pc' = label /\ UNCHANGED structKept /\ block' = block /\ call' = call
        /\ full' = full /\ done' = done
    BY DEF Put
  <1>2. label \notin ReadLabels \cup {"read", "fault"}
    BY DEF Writing, ReadLabels
  <1>3. /\ StructsOK' /\ ReadsInBounds' /\ ArraysFit'
        /\ pc' \in {"read", "crashed"} \cup Writing /\ reported' = {} => WholeRead'
    BY <1>1, CallsKeepStruct
  <1>4. /\ stream' \in Seq(Byte) /\ DOMAIN disk' = DOMAIN disk
        /\ \A p \in DOMAIN disk : disk'[p] \in Seq(Byte)
        /\ FileBehindStream' /\ ExportsInPlace' /\ TextsHaveMagic'
    BY PutKeepsFiles
  <1>5. ArchiveTypeOK'
    BY <1>1, <1>3, <1>4 DEF ArchiveInv, ArchiveTypeOK, StructsOK
  <1>6. ReassemblyIsIdentity'
    BY <1>1, <1>2 DEF ReassemblyIsIdentity
  <1>7. QED
    BY <1>1, <1>2, <1>3, <1>4, <1>5, <1>6 DEF ArchiveInv, CallsInStep

(***************************************************************************)
(* What the calls put on their streams.                                    *)
(***************************************************************************)
(* A field of n bytes can be put on a stream.                              *)
LEMMA BytesAreSeq ==
  ASSUME NEW n \in Nat
  PROVE  Bytes(n) \subseteq Seq(Byte)
  BY DEF Bytes

(* Whatever the structs hold, what is written of them is bytes.            *)
LEMMA WrittenTypes ==
  ASSUME StructsOK
  PROVE  /\ WrittenHeader(f_hdr) \in Seq(Byte)
         /\ WrittenInfo(i_hdr, i_fld) \in Seq(Byte)
         /\ WrittenCups(c_hdr) \in Seq(Byte)
         /\ \A t \in TrackEntry : WrittenTrack(t) \in Seq(Byte)
  <1>1. \A n \in Nat : Bytes(n) \subseteq Seq(Byte)
    BY BytesAreSeq
  <1>2. \A a, b \in Seq(Byte) : a \o b \in Seq(Byte)
    OBVIOUS
  <1>3. WrittenHeader(f_hdr) \in Seq(Byte)
    <2>1. /\ f_hdr.magic \in Seq(Byte) /\ f_hdr.version \in Seq(Byte)
          /\ f_hdr.info_offset \in Seq(Byte) /\ f_hdr.cups_offset \in Seq(Byte)
          /\ f_hdr.bmg_offset \in Seq(Byte)
          /\ f_hdr.mod_folder_name \in Seq(Byte)
      BY <1>1 DEF StructsOK, FileHeader, MOD_NAME_MAX
    <2>2. QED
      BY <1>2, <2>1, Zenon DEF WrittenHeader
  <1>4. WrittenInfo(i_hdr, i_fld) \in Seq(Byte)
    <2>1. /\ i_hdr.magic \in Seq(Byte) /\ i_hdr.version \in Seq(Byte)
          /\ i_hdr.size \in Seq(Byte)
      BY <1>1 DEF StructsOK, InfoHeader
    <2>2. /\ i_fld.room_key \in Seq(Byte) /\ i_fld.prob_100cc \in Seq(Byte)
          /\ i_fld.prob_150cc \in Seq(Byte) /\ i_fld.wiimmfi_region \in Seq(Byte)
          /\ i_fld.track_blocking \in Seq(Byte) /\ i_fld.tt_trophies \in Seq(Byte)
          /\ i_fld.enable_200cc \in Seq(Byte) /\ i_fld.umts \in Seq(Byte)
          /\ i_fld.feather \in Seq(Byte) /\ i_fld.mega_tc \in Seq(Byte)
          /\ i_fld.n_cup_icons \in Seq(Byte) /\ i_fld.track_timer \in Seq(Byte)
          /\ i_fld.padding \in Seq(Byte)
      BY <1>1 DEF StructsOK, InfoFields
    <2> DEFINE a == i_hdr.magic \o i_hdr.version \o i_hdr.size \o i_fld.room_key
                      \o i_fld.prob_100cc
               b == a \o i_fld.prob_150cc \o i_fld.wiimmfi_region
                      \o i_fld.track_blocking \o i_fld.tt_trophies
               c == b \o i_fld.enable_200cc \o i_fld.umts \o i_fld.feather
                      \o i_fld.mega_tc
               d == c \o i_fld.n_cup_icons \o i_fld.track_timer \o i_fld.padding
    <2>3. WrittenInfo(i_hdr, i_fld) = d
      BY Zenon DEF WrittenInfo
    <2>4. a \in Seq(Byte)
      BY <1>2, <2>1, <2>2, Zenon
    <2> HIDE DEF a
    <2>5. b \in Seq(Byte)
      BY <1>2, <2>2, <2>4, Zenon
    <2> HIDE DEF b
    <2>6. c \in Seq(Byte)
      BY <1>2, <2>2, <2>5, Zenon
    <2> HIDE DEF c
    <2>7. d \in Seq(Byte)
      BY <1>2, <2>2, <2>6, Zenon
    <2>8. QED
      BY <2>3, <2>7
  <1>5. WrittenCups(c_hdr) \in Seq(Byte)
    <2>1. /\ c_hdr.magic \in Seq(Byte) /\ c_hdr.version \in Seq(Byte)
          /\ c_hdr.size \in Seq(Byte) /\ c_hdr.n_ct_cups \in Seq(Byte)
          /\ c_hdr.nin_track_mode \in Seq(Byte) /\ c_hdr.padding \in Seq(Byte)
          /\ c_hdr.n_variants \in Seq(Byte)
          /\ \A j \in 1 .. 4 : c_hdr.n_trophies[j] \in Seq(Byte)
      <3>1. /\ c_hdr \in CupsHeader
            /\ Bytes(1) \subseteq Seq(Byte) /\ Bytes(2) \subseteq Seq(Byte)
            /\ Bytes(4) \subseteq Seq(Byte)
        BY <1>1 DEF StructsOK
      <3>2. QED
        BY <3>1 DEF CupsHeader
    <2> DEFINE a == c_hdr.magic \o c_hdr.version \o c_hdr.size \o c_hdr.n_ct_cups
                      \o c_hdr.nin_track_mode \o c_hdr.padding
               b == a \o c_hdr.n_trophies[1] \o c_hdr.n_trophies[2]
                      \o c_hdr.n_trophies[3] \o c_hdr.n_trophies[4]
                      \o c_hdr.n_variants
    <2>2. WrittenCups(c_hdr) = b
      BY Zenon DEF WrittenCups
    <2>3. a \in Seq(Byte)
      BY <1>2, <2>1, Zenon
    <2> HIDE DEF a
    <2>4. /\ c_hdr.n_trophies[1] \in Seq(Byte) /\ c_hdr.n_trophies[2] \in Seq(Byte)
          /\ c_hdr.n_trophies[3] \in Seq(Byte) /\ c_hdr.n_trophies[4] \in Seq(Byte)
      BY <2>1
    <2>5. b \in Seq(Byte)
      BY <1>2, <2>1, <2>3, <2>4, Zenon
    <2>6. QED
      BY <2>2, <2>5
  <1>6. ASSUME NEW t \in TrackEntry PROVE WrittenTrack(t) \in Seq(Byte)
    <2>1. /\ t.track_slot \in Seq(Byte) /\ t.music_slot \in Seq(Byte)
          /\ t.n_variants \in Seq(Byte) /\ t.crc32 \in Seq(Byte)
      BY <1>1 DEF TrackEntry
    <2>2. QED
      BY <1>2, <2>1, Zenon DEF WrittenTrack
  <1>7. QED
    BY <1>3, <1>4, <1>5, <1>6

(* The INFO section is written member after member through both structs.   *)
LEMMA WrittenInfoSection ==
  ASSUME buffer \in Seq(Byte), memory \in Memory
  PROVE  WrittenInfo(InfoAt(36), FieldsAt(48)) = Peek(36, 80)
  <1> DEFINE Joins(a, n, b) == Peek(36, a) \o Peek(36 + a, n) = Peek(36, b)
  <1>j. ASSUME NEW a \in Nat, NEW n \in Nat PROVE Joins(a, n, a + n)
    <2>1. 36 \in Nat
      OBVIOUS
    <2>2. QED
      BY <2>1, PeekConcat, ZenonT(40)
  <1> HIDE DEF Joins
  <1>1. Joins(4, 4, 8) BY <1>j
  <1>2. Joins(8, 4, 12) BY <1>j
  <1>3. Joins(12, 4, 16) BY <1>j
  <1>4. Joins(16, 4, 20) BY <1>j
  <1>5. Joins(20, 4, 24) BY <1>j
  <1>6. Joins(24, 4, 28) BY <1>j
  <1>7. Joins(28, 4, 32) BY <1>j
  <1>8. Joins(32, 1, 33) BY <1>j
  <1>9. Joins(33, 1, 34) BY <1>j
  <1>10. Joins(34, 1, 35) BY <1>j
  <1>11. Joins(35, 1, 36) BY <1>j
  <1>12. Joins(36, 1, 37) BY <1>j
  <1>13. Joins(37, 2, 39) BY <1>j
  <1>14. Joins(39, 1, 40) BY <1>j
  <1>15. Joins(40, 40, 80) BY <1>j
  <1> DEFINE h == InfoAt(36)
             f == FieldsAt(48)
  <1>16. /\ h.magic = Peek(36, 4) /\ h.version = Peek(36 + 4, 4)
         /\ h.size = Peek(36 + 8, 4)
    BY DEF InfoAt
  <1>17. /\ f.room_key = Peek(36 + 12, 4) /\ f.prob_100cc = Peek(36 + 16, 4)
         /\ f.prob_150cc = Peek(36 + 20, 4)
         /\ f.wiimmfi_region = Peek(36 + 24, 4)
         /\ f.track_blocking = Peek(36 + 28, 4)
         /\ f.tt_trophies = Peek(36 + 32, 1) /\ f.enable_200cc = Peek(36 + 33, 1)
         /\ f.umts = Peek(36 + 34, 1) /\ f.feather = Peek(36 + 35, 1)
         /\ f.mega_tc = Peek(36 + 36, 1) /\ f.n_cup_icons = Peek(36 + 37, 2)
         /\ f.track_timer = Peek(36 + 39, 1) /\ f.padding = Peek(36 + 40, 40)
    BY DEF FieldsAt
  <1> HIDE DEF h, f
  <1>18. h.magic \o h.version \o h.size \o f.room_key \o f.prob_100cc
           = Peek(36, 20)
    <2>1. h.magic \o h.version = Peek(36, 8)
      BY <1>1, <1>16 DEF Joins
    <2>2. Peek(36, 8) \o h.size = Peek(36, 12)
      BY <1>2, <1>16 DEF Joins
    <2>3. Peek(36, 12) \o f.room_key = Peek(36, 16)
      BY <1>3, <1>17 DEF Joins
    <2>4. Peek(36, 16) \o f.prob_100cc = Peek(36, 20)
      BY <1>4, <1>17 DEF Joins
    <2>5. QED
      BY <2>1, <2>2, <2>3, <2>4
  <1>19. Peek(36, 20) \o f.prob_150cc \o f.wiimmfi_region \o f.track_blocking
           \o f.tt_trophies = Peek(36, 33)
    <2>1. Peek(36, 20) \o f.prob_150cc = Peek(36, 24)
      BY <1>5, <1>17 DEF Joins
    <2>2. Peek(36, 24) \o f.wiimmfi_region = Peek(36, 28)
      BY <1>6, <1>17 DEF Joins
    <2>3. Peek(36, 28) \o f.track_blocking = Peek(36, 32)
      BY <1>7, <1>17 DEF Joins
    <2>4. Peek(36, 32) \o f.tt_trophies = Peek(36, 33)
      BY <1>8, <1>17 DEF Joins
    <2>5. QED
      BY <2>1, <2>2, <2>3, <2>4
  <1>20. Peek(36, 33) \o f.enable_200cc \o f.umts \o f.feather \o f.mega_tc
           = Peek(36, 37)
    <2>1. Peek(36, 33) \o f.enable_200cc = Peek(36, 34)
      BY <1>9, <1>17 DEF Joins
    <2>2. Peek(36, 34) \o f.umts = Peek(36, 35)
      BY <1>10, <1>17 DEF Joins
    <2>3. Peek(36, 35) \o f.feather = Peek(36, 36)
      BY <1>11, <1>17 DEF Joins
    <2>4. Peek(36, 36) \o f.mega_tc = Peek(36, 37)
      BY <1>12, <1>17 DEF Joins
    <2>5. QED
      BY <2>1, <2>2, <2>3, <2>4
  <1>21. Peek(36, 37) \o f.n_cup_icons \o f.track_timer \o f.padding
           = Peek(36, 80)
    <2>1. Peek(36, 37) \o f.n_cup_icons = Peek(36, 39)
      BY <1>13, <1>17 DEF Joins
    <2>2. Peek(36, 39) \o f.track_timer = Peek(36, 40)
      BY <1>14, <1>17 DEF Joins
    <2>3. Peek(36, 40) \o f.padding = Peek(36, 80)
      BY <1>15, <1>17 DEF Joins
    <2>4. QED
      BY <2>1, <2>2, <2>3
  <1>22. WrittenInfo(h, f) = Peek(36, 80)
    BY <1>18, <1>19, <1>20, <1>21, ZenonT(40) DEF WrittenInfo
  <1>23. QED
    BY <1>22 DEF h, f

(* Of a file that was read without a complaint, each of the functions of   *)
(* write_file writes what its counterpart of read_file has read.           *)
LEMMA WrittenIsRead ==
  ASSUME StructsOK, WholeRead
  PROVE  /\ WrittenHeader(f_hdr) = Peek(0, 36)
         /\ WrittenInfo(i_hdr, i_fld) = Peek(36, 80)
         /\ WrittenCups(c_hdr) = Peek(116, 28)
         /\ \A k \in 1 .. Len(t_arr) : WrittenTrack(t_arr[k]) = Peek(136 + 8 * k, 8)
         /\ \A k \in 1 .. Len(alphabet_table) :
              alphabet_table[k] = Peek(142 + 8 * ReadTracks + 2 * k, 2)
  <1>1. buffer \in Seq(Byte) /\ memory \in Memory
    BY DEF StructsOK
  <1>2. WrittenHeader(f_hdr) = Peek(0, 36)
    <2>1. HeaderImage(HeaderAt(0)) = Peek(0, 36)
      BY <1>1, StructImages
    <2>2. QED
      BY <2>1 DEF WholeRead, HeaderRead, WrittenHeader, HeaderImage
  <1>3. WrittenInfo(i_hdr, i_fld) = Peek(36, 80)
    BY <1>1, WrittenInfoSection DEF WholeRead, InfoRead
  <1>4. WrittenCups(c_hdr) = Peek(116, 28)
    <2>1. CupsImage(CupsAt(116)) = Peek(116, 28)
      BY <1>1, StructImages
    <2>2. QED
      BY <2>1, Zenon DEF WholeRead, CupsRead, WrittenCups, CupsImage
  <1>5. ASSUME NEW k \in 1 .. Len(t_arr)
        PROVE  WrittenTrack(t_arr[k]) = Peek(136 + 8 * k, 8)
    <2>1. 136 + 8 * k \in Nat
      OBVIOUS
    <2>2. TrackImage(TrackAt(136 + 8 * k)) = Peek(136 + 8 * k, 8)
      BY <1>1, <2>1, StructImages
    <2>3. t_arr[k] = TrackAt(136 + 8 * k)
      BY DEF WholeRead, TracksRead
    <2>4. QED
      BY <2>2, <2>3, Zenon DEF WrittenTrack, TrackImage
  <1>6. QED
    BY <1>2, <1>3, <1>4, <1>5 DEF WholeRead, IndexRead

(* Any read yields bytes, wherever it starts.                              *)
LEMMA PeekAnywhere ==
  ASSUME NEW o \in Int, NEW n \in Nat, buffer \in Seq(Byte), memory \in Memory
  PROVE  /\ Peek(o, n) \in Bytes(n) /\ Peek(o, n) \in Seq(Byte)
         /\ Len(Peek(o, n)) = n
  <1>1. ASSUME NEW k \in 1 .. n PROVE Peek(o, n)[k] \in Byte
    <2>1. CASE o + k \in 1 .. Len(buffer)
      BY <2>1 DEF Peek
    <2>2. CASE o + k \notin 1 .. Len(buffer)
      BY <2>2, OutsideType DEF Peek
    <2>3. QED
      BY <2>1, <2>2
  <1>2. Peek(o, n) = [k \in 1 .. n |-> Peek(o, n)[k]]
    BY DEF Peek
  <1>3. QED
    BY <1>1, <1>2 DEF Bytes

(* A number is its two halves, the second as the remainder.                *)
LEMMA Halves ==
  ASSUME NEW n \in Int
  PROVE  \E q \in Int, r \in Nat :
           /\ n \div 65536 = q /\ n % 65536 = r
           /\ n = 65536 * q + r /\ r < 65536
  <1> DEFINE q == n \div 65536
             r == n % 65536
  <1>1. q \in Int /\ r \in Nat /\ n = 65536 * q + r /\ r < 65536
    BY SMT
  <1>2. n \div 65536 = q /\ n % 65536 = r
    OBVIOUS
  <1> HIDE DEF q, r
  <1>3. QED
    BY <1>1, <1>2, SMT

(* A word is its two halves, and as an int it is taken around from 2^31.   *)
LEMMA WordHalves ==
  ASSUME NEW b \in Bytes(4)
  PROVE  \E h, l \in Nat :
           /\ h < 65536 /\ l < 65536
           /\ High(b) = h /\ Low(b) = l /\ U32(b) = 65536 * h + l
           /\ \/ b[1] < 128 /\ Int32(b) = U32(b) /\ h < 32768
              \/ ~(b[1] < 128) /\ Int32(b) = U32(b) - 4294967296 /\ h >= 32768
  <1>1. /\ b[1] \in 0 .. 255 /\ b[2] \in 0 .. 255
        /\ b[3] \in 0 .. 255 /\ b[4] \in 0 .. 255
    BY DEF Bytes, Byte
  <1>2. High(b) = 256 * b[1] + b[2] /\ Low(b) = 256 * b[3] + b[4]
    BY DEF High, Low, U16
  <1>3. PICK w, x, y, z \in 0 .. 255 : b[1] = w /\ b[2] = x /\ b[3] = y /\ b[4] = z
    BY <1>1
  <1>4. U32(b) = 16777216 * w + 65536 * x + 256 * y + z
    BY <1>3, SMT DEF U32
  <1>5. High(b) = 256 * w + x /\ Low(b) = 256 * y + z
    BY <1>2, <1>3
  <1>6. \/ w < 128 /\ Int32(b) = U32(b)
        \/ ~(w < 128) /\ Int32(b) = U32(b) - 4294967296
    <2>1. CASE w < 128
      BY <1>3, <1>4, <2>1, SMT DEF Int32
    <2>2. CASE ~(w < 128)
      <3>1. Int32(b) = 16777216 * (w - 256) + 65536 * x + 256 * y + z
        BY <1>3, <2>2, SMT DEF Int32
      <3>2. QED
        BY <1>4, <2>2, <3>1, SMT
    <2>3. QED
      BY <2>1, <2>2
  <1>7. PICK h, l \in Nat : h = 256 * w + x /\ l = 256 * y + z
    OBVIOUS
  <1>8. /\ h < 65536 /\ l < 65536 /\ U32(b) = 65536 * h + l
        /\ w < 128 <=> h < 32768
    BY <1>4, <1>7, SMT
  <1>9. QED
    BY <1>3, <1>5, <1>6, <1>7, <1>8, SMT

(* The comparison in halves is the comparison.                             *)
LEMMA AtMostIs ==
  ASSUME NEW b \in Bytes(4), NEW n \in Int
  PROVE  AtMost(b, n) <=> U32(b) <= n
  <1>1. PICK h, l \in Nat : /\ High(b) = h /\ Low(b) = l
                            /\ l < 65536 /\ U32(b) = 65536 * h + l
    BY WordHalves, SMT
  <1>2. PICK q \in Int, r \in Nat :
          n \div 65536 = q /\ n % 65536 = r /\ n = 65536 * q + r /\ r < 65536
    BY Halves, SMT
  <1>3. AtMost(b, n) <=> h < q \/ (h = q /\ l <= r)
    BY <1>1, <1>2, SMT DEF AtMost
  <1>4. h < q \/ (h = q /\ l <= r) <=> 65536 * h + l <= 65536 * q + r
    BY <1>1, <1>2, SMT
  <1>5. QED
    BY <1>1, <1>2, <1>3, <1>4, SMT

(* The sum in halves is the sum, but for a multiple of 2^32 that brings it *)
(* into the range of int.                                                  *)
LEMMA SumIs ==
  ASSUME NEW b \in Bytes(4), NEW c \in Bytes(4)
  PROVE  /\ SumInt32(b, c) \in Int
         /\ -2147483648 <= SumInt32(b, c) /\ SumInt32(b, c) <= IntMax
         /\ \E k \in Int : SumInt32(b, c) = Int32(b) + U32(c) - 4294967296 * k
  <1>1. PICK p, q \in Nat :
          /\ High(b) = p /\ Low(b) = q /\ U32(b) = 65536 * p + q
          /\ Int32(b) = U32(b) \/ Int32(b) = U32(b) - 4294967296
    BY WordHalves, SMT
  <1>2. PICK r, s \in Nat :
          High(c) = r /\ Low(c) = s /\ U32(c) = 65536 * r + s
    BY WordHalves, SMT
  <1>3. PICK u \in Int, v \in Nat :
          /\ (q + s) \div 65536 = u /\ (q + s) % 65536 = v
          /\ q + s = 65536 * u + v /\ v < 65536
    BY Halves, SMT
  <1>4. PICK w \in Int, x \in Nat :
          /\ (p + r + u) \div 65536 = w /\ (p + r + u) % 65536 = x
          /\ p + r + u = 65536 * w + x /\ x < 65536
    BY Halves, SMT
  <1>5. SumInt32(b, c) = 65536 * (IF x < 32768 THEN x ELSE x - 65536) + v
    BY <1>1, <1>2, <1>3, <1>4, SMT DEF SumInt32
  <1>6. PICK d \in {0, 1} :
          /\ SumInt32(b, c) = 65536 * x + v - 4294967296 * d
          /\ d = 0 => x < 32768
          /\ d = 1 => x >= 32768
    BY <1>5, SMT
  <1>7. PICK e \in {0, 1} : Int32(b) = 65536 * p + q - 4294967296 * e
    BY <1>1, SMT
  <1>8. /\ SumInt32(b, c) \in Int
        /\ -2147483648 <= SumInt32(b, c) /\ SumInt32(b, c) <= IntMax
    BY <1>3, <1>4, <1>6, SMT DEF IntMax
  <1>9. PICK k \in Int : k = w - e + d
    BY SMT
  <1>10. SumInt32(b, c) = Int32(b) + U32(c) - 4294967296 * k
    BY <1>2, <1>3, <1>4, <1>6, <1>7, <1>9, SMT
  <1>11. QED
    BY <1>8, <1>10

(* Where the sum stands behind the first number, and where the exact sum   *)
(* is an int, nothing has been taken around.                               *)
LEMMA SumInRange ==
  ASSUME NEW b \in Bytes(4), NEW c \in Bytes(4)
  PROVE  /\ Int32(b) >= 0
         /\ \/ SumInt32(b, c) >= Int32(b)
            \/ c[1] < 128 /\ Int32(b) + Int32(c) <= IntMax
         => SumInt32(b, c) = Int32(b) + U32(c)
  <1>1. PICK p, q \in Nat :
          /\ p < 65536 /\ q < 65536 /\ U32(b) = 65536 * p + q
          /\ \/ b[1] < 128 /\ Int32(b) = U32(b) /\ p < 32768
             \/ ~(b[1] < 128) /\ Int32(b) = U32(b) - 4294967296 /\ p >= 32768
    BY WordHalves, SMT
  <1>2. PICK r, s \in Nat :
          /\ r < 65536 /\ s < 65536 /\ U32(c) = 65536 * r + s
          /\ \/ c[1] < 128 /\ Int32(c) = U32(c)
             \/ ~(c[1] < 128)
    BY WordHalves, SMT
  <1>3. PICK k \in Int : SumInt32(b, c) = Int32(b) + U32(c) - 4294967296 * k
    BY SumIs
  <1>4. PICK t \in Int :
          /\ t = SumInt32(b, c)
          /\ -2147483648 <= t /\ t <= 2147483647
    BY SumIs, SMT DEF IntMax
  <1>5. SUFFICES ASSUME /\ Int32(b) >= 0
                        /\ \/ SumInt32(b, c) >= Int32(b)
                           \/ c[1] < 128 /\ Int32(b) + Int32(c) <= IntMax
                 PROVE  SumInt32(b, c) = Int32(b) + U32(c)
    OBVIOUS
  <1>6. Int32(b) = 65536 * p + q /\ p < 32768
    BY <1>1, <1>5, SMT
  <1>7. /\ t = 65536 * p + q + 65536 * r + s - 4294967296 * k
        /\ \/ t >= 65536 * p + q
           \/ 65536 * p + q + 65536 * r + s <= 2147483647
    BY <1>2, <1>3, <1>4, <1>5, <1>6, SMT DEF IntMax
  <1>8. k = 0
    BY <1>1, <1>2, <1>4, <1>6, <1>7, SMT
  <1>9. QED
    BY <1>2, <1>3, <1>6, <1>8, SMT

(* What a word is as either type.                                          *)
LEMMA WordType ==
  ASSUME NEW b \in Bytes(4)
  PROVE  /\ U32(b) \in Nat /\ Int32(b) \in Int
         /\ b[1] < 128 => Int32(b) = U32(b)
         /\ Int32(b) >= 0 => b[1] < 128
  <1>1. PICK h, l \in Nat :
           /\ h < 65536 /\ l < 65536 /\ U32(b) = 65536 * h + l
           /\ \/ b[1] < 128 /\ Int32(b) = U32(b)
              \/ ~(b[1] < 128) /\ Int32(b) = U32(b) - 4294967296
    BY WordHalves, SMT
  <1>2. QED
    BY <1>1, SMT

(* Where the parts are said to be is a number, of either sign; and a text  *)
(* that is not in front of the bmg is behind as many bytes as the bmg has. *)
LEMMA PartTypes ==
  ASSUME StructsOK
  PROVE  /\ f_hdr.bmg_offset \in Bytes(4) /\ BmgSizeField \in Bytes(4)
         /\ BmgStart \in Int /\ TextStart \in Int
         /\ U32(BmgSizeField) \in Nat /\ Int32(BmgSizeField) \in Int
         /\ BmgStart >= 0 /\ TextStart >= BmgStart =>
              TextStart = BmgStart + U32(BmgSizeField)
  <1>1. f_hdr.bmg_offset \in Bytes(4)
    BY DEF StructsOK, FileHeader
  <1>2. BmgStart \in Int
    BY <1>1, WordType DEF BmgStart
  <1>3. BmgSizeField \in Bytes(4)
    <2>1. BmgStart + 8 \in Int
      BY <1>2
    <2>2. QED
      BY <2>1, PeekAnywhere DEF BmgSizeField, StructsOK
  <1>4. U32(BmgSizeField) \in Nat /\ Int32(BmgSizeField) \in Int
    BY <1>3, WordType
  <1>5. TextStart \in Int
    BY <1>1, <1>3, SumIs DEF TextStart
  <1>6. BmgStart >= 0 /\ TextStart >= BmgStart =>
          TextStart = BmgStart + U32(BmgSizeField)
    BY <1>1, <1>3, SumInRange DEF TextStart, BmgStart
  <1>7. QED
    BY <1>1, <1>2, <1>3, <1>4, <1>5, <1>6

(* The configuration is what a read from the beginning yields, section     *)
(* after section.                                                          *)
LEMMA PeekGrows ==
  ASSUME StructsOK, NEW a \in Nat, NEW n \in Nat
  PROVE  /\ Peek(0, a) \o Peek(a, n) = Peek(0, a + n)
         /\ Peek(0, a) \in Seq(Byte) /\ Len(Peek(0, a)) = a
  <1>1. buffer \in Seq(Byte) /\ memory \in Memory /\ 0 \in Nat
    BY DEF StructsOK
  <1>2. Peek(0, a) \o Peek(0 + a, n) = Peek(0, a + n)
    BY <1>1, PeekConcat, ZenonT(40)
  <1>3. 0 + a = a
    OBVIOUS
  <1>4. Peek(0, a) \in Seq(Byte) /\ Len(Peek(0, a)) = a
    BY <1>1, PeekType, ZenonT(40)
  <1>5. QED
    BY <1>2, <1>3, <1>4

(***************************************************************************)
(* The steps of write_file.                                                *)
(***************************************************************************)
Sections == {"w_header", "w_info", "w_cups", "w_tracks", "w_alphabet"}

(* What holds at each of its steps before it turns to the two files.       *)
LEMMA WriterFacts ==
  ASSUME ArchiveInv, pc \in Sections \cup {"w_txt"}
  PROVE  /\ pc \in Writing /\ call.op = "write_file" /\ StructsOK
         /\ ReadTracks \in Nat /\ i \in Nat /\ stream \in Seq(Byte)
         /\ Len(t_arr) = ReadTracks /\ Len(alphabet_table) = ReadTracks
         /\ complaints \subseteq {"BMG", "FILE", "file"}
         /\ reported = {} => WholeRead
  <1>1. /\ pc \in Writing \ {"export_bmg", "export_txt", "close"}
        /\ pc \notin ReadLabels \cup {"fault"}
    BY DEF Sections, Writing, ReadLabels
  <1>2. ReadTracks \in Nat
    BY ReadTracksType DEF ArchiveInv, StructsOK
  <1>3. Len(t_arr) = ReadTracks /\ Len(alphabet_table) = ReadTracks
    BY <1>1 DEF ArchiveInv, CallsInStep, ArraysFit
  <1>4. QED
    BY <1>1, <1>2, <1>3
       DEF ArchiveInv, ArchiveTypeOK, CallsInStep, CallKept

(* They leave the call as it began.                                        *)
LEMMA WriterKeepsCall ==
  ASSUME ArchiveInv, pc \in Sections \cup {"w_txt"}, NEW bytes \in Seq(Byte),
         NEW label \in Sections \cup {"w_txt", "close"}, Put(bytes, label)
  PROVE  CallKept'
  <1>1. pc \in Writing /\ call.op = "write_file"
    BY WriterFacts
  <1>2. label \in Writing \ {"export_bmg", "export_txt"} /\ label \notin ReadLabels
    BY DEF Sections, Writing, ReadLabels
  <1>3. pc' = label /\ call' = call /\ done' = done
    BY DEF Put
  <1>4. DOMAIN disk' = DOMAIN disk
    BY <1>1, <1>2, PutKeepsFiles
  <1>5. call \in Calls /\ call.path \in DOMAIN disk /\ Len(done) < MaxCalls
    BY <1>1 DEF ArchiveInv, CallsInStep, CallKept
  <1>6. QED
    BY <1>1, <1>2, <1>3, <1>4, <1>5 DEF CallKept

(* The sections of the configuration are written one behind the other, as  *)
(* they stood in the file.                                                 *)
LEMMA SectionsKeepInv ==
  ASSUME ArchiveInv, WriteFileHeader \/ WriteInfo \/ WriteCups
  PROVE  ArchiveInv'
  <1>1. pc \in Sections
    BY DEF WriteFileHeader, WriteInfo, WriteCups, Sections
  <1>2. /\ pc \in Writing /\ call.op = "write_file" /\ StructsOK /\ i \in Nat
        /\ stream \in Seq(Byte) /\ complaints \subseteq {"BMG", "FILE", "file"}
        /\ reported = {} => WholeRead
        /\ ReadTracks \in Nat
    BY <1>1, WriterFacts
  <1>3. CASE WriteFileHeader
    <2>1. /\ pc = "w_header" /\ Put(WrittenHeader(f_hdr), "w_info")
          /\ i' = i /\ complaints' = complaints
      BY <1>3 DEF WriteFileHeader
    <2>2. WrittenHeader(f_hdr) \in Seq(Byte)
      BY <1>2, WrittenTypes
    <2>3. /\ pc' = "w_info" /\ call' = call /\ UNCHANGED structKept
          /\ stream' = stream \o WrittenHeader(f_hdr)
      BY <2>1 DEF Put
    <2>4. reported = {} => stream' = Peek(0, 36)
      <3>1. reported = {} => stream = << >> /\ WrittenHeader(f_hdr) = Peek(0, 36)
        BY <1>2, <2>1, WrittenIsRead DEF ArchiveInv, CallsInStep, StreamInStep
      <3>2. QED
        BY <2>2, <2>3, <3>1
    <2>5. StreamInStep'
      BY <2>3, <2>4, KeptStable DEF StreamInStep, structKept
    <2>6. CallKept'
      BY <1>1, <2>1, <2>2, WriterKeepsCall DEF Sections
    <2>7. QED
      BY <1>2, <2>1, <2>2, <2>5, <2>6, PutKeepsInv DEF Writing
  <1>4. CASE WriteInfo
    <2>1. /\ pc = "w_info" /\ Put(WrittenInfo(i_hdr, i_fld), "w_cups")
          /\ i' = i /\ complaints' = complaints
      BY <1>4 DEF WriteInfo
    <2>2. WrittenInfo(i_hdr, i_fld) \in Seq(Byte)
      BY <1>2, WrittenTypes
    <2>3. /\ pc' = "w_cups" /\ call' = call /\ UNCHANGED structKept
          /\ stream' = stream \o WrittenInfo(i_hdr, i_fld)
      BY <2>1 DEF Put
    <2>4. reported = {} => stream' = Peek(0, 116)
      <3>1. reported = {} => /\ stream = Peek(0, 36)
                             /\ WrittenInfo(i_hdr, i_fld) = Peek(36, 80)
        BY <1>2, <2>1, WrittenIsRead DEF ArchiveInv, CallsInStep, StreamInStep
      <3>2. Peek(0, 36) \o Peek(36, 80) = Peek(0, 36 + 80)
        <4>1. 36 \in Nat /\ 80 \in Nat
          OBVIOUS
        <4>2. QED
          BY <1>2, <4>1, PeekGrows, Zenon
      <3>3. 36 + 80 = 116
        OBVIOUS
      <3>4. QED
        BY <2>3, <3>1, <3>2, <3>3
    <2>5. StreamInStep'
      BY <2>3, <2>4, KeptStable DEF StreamInStep, structKept
    <2>6. CallKept'
      BY <1>1, <2>1, <2>2, WriterKeepsCall DEF Sections
    <2>7. QED
      BY <1>2, <2>1, <2>2, <2>5, <2>6, PutKeepsInv DEF Writing
  <1>5. CASE WriteCups
    <2>1. /\ pc = "w_cups" /\ Put(WrittenCups(c_hdr), "w_tracks")
          /\ i' = 0 /\ complaints' = complaints
      BY <1>5 DEF WriteCups
    <2>2. WrittenCups(c_hdr) \in Seq(Byte)
      BY <1>2, WrittenTypes
    <2>3. /\ pc' = "w_tracks" /\ call' = call /\ UNCHANGED structKept
          /\ stream' = stream \o WrittenCups(c_hdr)
      BY <2>1 DEF Put
    <2>4. reported = {} => stream' = Peek(0, 144 + 8 * 0)
      <3>1. reported = {} => /\ stream = Peek(0, 116)
                             /\ WrittenCups(c_hdr) = Peek(116, 28)
        BY <1>2, <2>1, WrittenIsRead DEF ArchiveInv, CallsInStep, StreamInStep
      <3>2. Peek(0, 116) \o Peek(116, 28) = Peek(0, 116 + 28)
        <4>1. 116 \in Nat /\ 28 \in Nat
          OBVIOUS
        <4>2. QED
          BY <1>2, <4>1, PeekGrows, Zenon
      <3>3. 116 + 28 = 144
        OBVIOUS
      <3>4. QED
        BY <2>3, <3>1, <3>2, <3>3
    <2>5. StreamInStep'
      BY <1>2, <2>1, <2>3, <2>4, KeptStable DEF StreamInStep, structKept
    <2>6. CallKept'
      BY <1>1, <2>1, <2>2, WriterKeepsCall DEF Sections
    <2>7. QED
      BY <1>2, <2>1, <2>2, <2>5, <2>6, PutKeepsInv DEF Writing
  <1>6. QED
    BY <1>3, <1>4, <1>5

(* The loop over the tracks writes entry after entry, and ends behind the  *)
(* last one.                                                               *)
LEMMA TrackLoopKeepsInv ==
  ASSUME ArchiveInv, WriteTrackEntry \/ WriteTracksDone
  PROVE  ArchiveInv'
  <1>1. pc = "w_tracks" /\ pc \in Sections
    BY DEF WriteTrackEntry, WriteTracksDone, Sections
  <1>2. /\ pc \in Writing /\ call.op = "write_file" /\ StructsOK /\ i \in Nat
        /\ stream \in Seq(Byte) /\ complaints \subseteq {"BMG", "FILE", "file"}
        /\ reported = {} => WholeRead
        /\ ReadTracks \in Nat /\ Len(t_arr) = ReadTracks
    BY <1>1, WriterFacts
  <1>3. reported = {} => i <= ReadTracks /\ stream = Peek(0, 144 + 8 * i)
    BY <1>1, <1>2 DEF ArchiveInv, CallsInStep, StreamInStep
  <1>4. CASE WriteTrackEntry
    <2>1. /\ i < ReadTracks /\ Put(WrittenTrack(t_arr[i + 1]), "w_tracks")
          /\ i' = i + 1 /\ complaints' = complaints
      BY <1>4, TracksAgree DEF WriteTrackEntry
    <2>2. WrittenTrack(t_arr[i + 1]) \in Seq(Byte)
      <3>1. t_arr[i + 1] \in TrackEntry
        BY <1>2, <2>1 DEF StructsOK
      <3>2. QED
        BY <1>2, <3>1, WrittenTypes
    <2>3. /\ pc' = "w_tracks" /\ call' = call /\ UNCHANGED structKept
          /\ stream' = stream \o WrittenTrack(t_arr[i + 1])
      BY <2>1 DEF Put
    <2>4. reported = {} => stream' = Peek(0, 144 + 8 * (i + 1))
      <3> DEFINE o == 144 + 8 * i
      <3>1. /\ i + 1 \in 1 .. Len(t_arr) /\ 136 + 8 * (i + 1) = o
            /\ o \in Nat /\ 8 \in Nat /\ 144 + 8 * (i + 1) = o + 8
        BY <1>2, <2>1
      <3>2. reported = {} => stream = Peek(0, o)
        BY <1>3
      <3> HIDE DEF o
      <3>3. reported = {} => WrittenTrack(t_arr[i + 1]) = Peek(o, 8)
        BY <1>2, <3>1, WrittenIsRead
      <3>4. Peek(0, o) \o Peek(o, 8) = Peek(0, o + 8)
        BY <1>2, <3>1, PeekGrows, ZenonT(40)
      <3>5. QED
        BY <2>3, <3>1, <3>2, <3>3, <3>4
    <2>5. StreamInStep'
      BY <1>2, <2>1, <2>3, <2>4, KeptStable DEF StreamInStep, structKept
    <2>6. CallKept'
      BY <1>1, <2>1, <2>2, WriterKeepsCall DEF Sections
    <2>7. i' \in Nat
      BY <1>2, <2>1
    <2>8. QED
      BY <1>2, <2>1, <2>2, <2>5, <2>6, <2>7, PutKeepsInv DEF Writing
  <1>5. CASE WriteTracksDone
    <2>1. /\ i >= ReadTracks /\ Put(<< >>, "w_alphabet")
          /\ i' = 0 /\ complaints' = complaints
      BY <1>5, TracksAgree DEF WriteTracksDone
    <2>2. << >> \in Seq(Byte)
      OBVIOUS
    <2>3. /\ pc' = "w_alphabet" /\ call' = call /\ UNCHANGED structKept
          /\ stream' = stream \o << >>
      BY <2>1 DEF Put
    <2>4. reported = {} => stream' = Peek(0, 144 + 8 * ReadTracks + 2 * 0)
      BY <1>2, <1>3, <2>1, <2>3
    <2>5. StreamInStep'
      BY <1>2, <2>1, <2>3, <2>4, KeptStable DEF StreamInStep, structKept
    <2>6. CallKept'
      BY <1>1, <2>1, <2>2, WriterKeepsCall DEF Sections
    <2>7. QED
      BY <1>2, <2>1, <2>2, <2>5, <2>6, PutKeepsInv DEF Writing
  <1>6. QED
    BY <1>4, <1>5

(* So does the loop over the alphabet table.                               *)
LEMMA AlphabetLoopKeepsInv ==
  ASSUME ArchiveInv, WriteAlphabetEntry
  PROVE  ArchiveInv'
  <1>1. pc = "w_alphabet" /\ pc \in Sections
    BY DEF WriteAlphabetEntry, Sections
  <1>2. /\ pc \in Writing /\ call.op = "write_file" /\ StructsOK /\ i \in Nat
        /\ stream \in Seq(Byte) /\ complaints \subseteq {"BMG", "FILE", "file"}
        /\ reported = {} => WholeRead
        /\ ReadTracks \in Nat /\ Len(alphabet_table) = ReadTracks
    BY <1>1, WriterFacts
  <1>3. reported = {} => stream = Peek(0, 144 + 8 * ReadTracks + 2 * i)
    BY <1>1, <1>2 DEF ArchiveInv, CallsInStep, StreamInStep
  <1>4. /\ i < ReadTracks /\ Put(alphabet_table[i + 1], "w_alphabet")
        /\ i' = i + 1 /\ complaints' = complaints
    BY TracksAgree DEF WriteAlphabetEntry
  <1>5. i + 1 \in 1 .. Len(alphabet_table)
    BY <1>2, <1>4
  <1>6. alphabet_table[i + 1] \in Seq(Byte)
    <2>1. alphabet_table[i + 1] \in Bytes(2)
      BY <1>2, <1>5 DEF StructsOK
    <2>2. QED
      BY <2>1, BytesAreSeq
  <1>7. /\ pc' = "w_alphabet" /\ call' = call /\ UNCHANGED structKept
        /\ stream' = stream \o alphabet_table[i + 1]
    BY <1>4 DEF Put
  <1>8. reported = {} => stream' = Peek(0, 144 + 8 * ReadTracks + 2 * (i + 1))
    <2> DEFINE o == 144 + 8 * ReadTracks + 2 * i
    <2>1. /\ o \in Nat /\ 142 + 8 * ReadTracks + 2 * (i + 1) = o
          /\ 144 + 8 * ReadTracks + 2 * (i + 1) = o + 2
      BY <1>2
    <2>2. reported = {} => stream = Peek(0, o)
      BY <1>3
    <2> HIDE DEF o
    <2>3. reported = {} => alphabet_table[i + 1] = Peek(o, 2)
      BY <1>2, <1>5, <2>1, WrittenIsRead
    <2>4. Peek(0, o) \o Peek(o, 2) = Peek(0, o + 2)
      <3>1. 2 \in Nat
        OBVIOUS
      <3>2. QED
        BY <1>2, <2>1, <3>1, PeekGrows, ZenonT(40)
    <2>5. QED
      BY <1>7, <2>1, <2>2, <2>3, <2>4
  <1>9. StreamInStep'
    BY <1>2, <1>4, <1>7, <1>8, KeptStable DEF StreamInStep, structKept
  <1>10. CallKept'
    BY <1>1, <1>4, <1>6, WriterKeepsCall DEF Sections
  <1>11. i' \in Nat
    BY <1>2, <1>4
  <1>12. QED
    BY <1>2, <1>4, <1>6, <1>9, <1>10, <1>11, PutKeepsInv DEF Writing


(***************************************************************************)
(* The two files that write_file copies behind the configuration.          *)
(***************************************************************************)
(* What is copied is the whole file, or nothing and a complaint.           *)
LEMMA FilePut ==
  ASSUME ArchiveInv, NEW path, NEW label, PutFile(path, label)
  PROVE  \E bytes \in Seq(Byte) :
           /\ Put(bytes, label) /\ i' = i
           /\ complaints' \subseteq {"BMG", "FILE", "file"}
           /\ complaints' = {} =>
                complaints = {} /\ path \in DOMAIN disk /\ bytes = disk[path]
  <1>1. /\ complaints \subseteq {"BMG", "FILE", "file"}
        /\ \A p \in DOMAIN disk : disk[p] \in Seq(Byte)
    BY DEF ArchiveInv, ArchiveTypeOK
  <1>2. CASE /\ path \in DOMAIN disk
             /\ Put(disk[path], label) /\ UNCHANGED <<i, complaints>>
    BY <1>1, <1>2
  <1>3. CASE /\ Put(<< >>, label) /\ UNCHANGED i
             /\ complaints' = complaints \cup {"file"}
    <2>1. << >> \in Seq(Byte)
      OBVIOUS
    <2>2. /\ complaints' \subseteq {"BMG", "FILE", "file"}
          /\ complaints' # {}
      BY <1>1, <1>3
    <2>3. QED
      BY <1>3, <2>1, <2>2
  <1>4. QED
    BY <1>2, <1>3 DEF PutFile

(* When the loops are over, the stream holds the whole configuration.      *)
LEMMA ConfigWritten ==
  ASSUME ArchiveInv, pc = "w_alphabet", i >= WriteTracks, reported = {}
  PROVE  stream = Peek(0, offset) /\ Len(stream) = offset
  <1>1. pc \in Sections
    BY DEF Sections
  <1>2. /\ call.op = "write_file" /\ StructsOK /\ i \in Nat /\ ReadTracks \in Nat
        /\ WholeRead
    BY <1>1, WriterFacts
  <1>3. i <= ReadTracks /\ stream = Peek(0, 144 + 8 * ReadTracks + 2 * i)
    BY <1>2 DEF ArchiveInv, CallsInStep, StreamInStep
  <1>4. offset = 144 + 8 * ReadTracks + 2 * i
    BY <1>2, <1>3, TracksAgree DEF WholeRead
  <1>5. offset \in Nat /\ 0 \in Nat
    BY <1>2 DEF StructsOK
  <1>6. Len(Peek(0, offset)) = offset
    BY <1>2, <1>5, PeekGrows
  <1>7. QED
    BY <1>3, <1>4, <1>6

(* Behind the configuration comes the bmg file.                            *)
LEMMA WriteBmgKeepsInv ==
  ASSUME ArchiveInv, WriteBmg
  PROVE  ArchiveInv'
  <1>1. /\ pc = "w_alphabet" /\ i >= WriteTracks /\ PutFile(call.bmg, "w_txt")
        /\ pc \in Sections
    BY DEF WriteBmg, Sections
  <1>2. /\ pc \in Writing /\ call.op = "write_file" /\ StructsOK /\ i \in Nat
        /\ stream \in Seq(Byte)
    BY <1>1, WriterFacts
  <1>3. PICK bytes \in Seq(Byte) :
          /\ Put(bytes, "w_txt") /\ i' = i
          /\ complaints' \subseteq {"BMG", "FILE", "file"}
          /\ complaints' = {} =>
               call.bmg \in DOMAIN disk /\ bytes = disk[call.bmg]
    BY <1>1, FilePut
  <1>4. /\ stream' = stream \o bytes /\ DOMAIN disk' = DOMAIN disk
        /\ \A p \in DOMAIN disk : p # call.path => disk'[p] = disk[p]
    BY <1>2, <1>3, PutKeepsFiles DEF Writing
  <1>5. /\ pc' = "w_txt" /\ call' = call /\ UNCHANGED structKept
        /\ reported' = reported /\ offset' = offset
    BY <1>3 DEF Put, structKept
  <1>6. StreamInStep'
    <2>1. Peek(0, offset)' = Peek(0, offset)
      BY <1>5, KeptStable
    <2>2. ASSUME reported = {}, complaints' = {}, call.path # call.bmg
          PROVE  /\ call.bmg \in DOMAIN disk'
                 /\ stream' = Peek(0, offset) \o disk'[call.bmg]
      BY <1>1, <1>3, <1>4, <2>2, ConfigWritten
    <2>3. ASSUME reported = {}, NEW k \in 1 .. Len(stream'), k <= offset
          PROVE  stream'[k] = Peek(0, offset)[k]
      <3>1. stream = Peek(0, offset) /\ Len(stream) = offset
        BY <1>1, <2>3, ConfigWritten
      <3>2. stream'[k] = stream[k]
        BY <1>2, <1>4, <2>3, <3>1
      <3>3. QED
        BY <3>1, <3>2
    <2>4. reported = {} => Len(stream') >= offset
      BY <1>1, <1>2, <1>4, ConfigWritten
    <2>5. QED
      BY <1>5, <2>1, <2>2, <2>3, <2>4 DEF StreamInStep
  <1>7. CallKept'
    BY <1>1, <1>3, WriterKeepsCall
  <1>8. "w_txt" \in Writing /\ i' \in Nat
    BY <1>2, <1>3 DEF Writing
  <1>9. QED
    BY <1>2, <1>3, <1>6, <1>7, <1>8, PutKeepsInv

(* And behind that the text file.                                          *)
LEMMA WriteTxtKeepsInv ==
  ASSUME ArchiveInv, WriteTxt
  PROVE  ArchiveInv'
  <1>1. pc = "w_txt" /\ PutFile(call.txt, "close")
    BY DEF WriteTxt
  <1>2. /\ pc \in Writing /\ call.op = "write_file" /\ StructsOK /\ i \in Nat
        /\ stream \in Seq(Byte)
    BY <1>1, WriterFacts
  <1>3. PICK bytes \in Seq(Byte) :
          /\ Put(bytes, "close") /\ i' = i
          /\ complaints' \subseteq {"BMG", "FILE", "file"}
          /\ complaints' = {} =>
               complaints = {} /\ call.txt \in DOMAIN disk /\ bytes = disk[call.txt]
    BY <1>1, FilePut
  <1>4. /\ stream' = stream \o bytes /\ DOMAIN disk' = DOMAIN disk
        /\ \A p \in DOMAIN disk : p # call.path => disk'[p] = disk[p]
    BY <1>2, <1>3, PutKeepsFiles DEF Writing
  <1>5. /\ pc' = "close" /\ call' = call /\ UNCHANGED structKept
        /\ reported' = reported /\ offset' = offset
    BY <1>3 DEF Put, structKept
  <1>6. StreamInStep'
    <2>1. Peek(0, offset)' = Peek(0, offset)
      BY <1>5, KeptStable
    <2>2. ASSUME reported = {}, complaints' = {},
                 call.path \notin {call.bmg, call.txt}
          PROVE  /\ {call.bmg, call.txt} \subseteq DOMAIN disk'
                 /\ stream' = (Peek(0, offset) \o disk'[call.bmg]) \o disk'[call.txt]
      <3>1. /\ call.bmg \in DOMAIN disk /\ call.txt \in DOMAIN disk
            /\ stream = Peek(0, offset) \o disk[call.bmg]
            /\ bytes = disk[call.txt]
        BY <1>1, <1>2, <1>3, <2>2 DEF ArchiveInv, CallsInStep, StreamInStep
      <3>2. disk'[call.bmg] = disk[call.bmg] /\ disk'[call.txt] = disk[call.txt]
        BY <1>4, <2>2, <3>1
      <3>3. QED
        BY <1>4, <3>1, <3>2
    <2>3. ASSUME reported = {}, NEW k \in 1 .. Len(stream'), k <= offset
          PROVE  stream'[k] = Peek(0, offset)[k]
      <3>1. /\ offset \in Nat /\ Len(stream) >= offset
            /\ \A n \in 1 .. Len(stream) : n <= offset => stream[n] = Peek(0, offset)[n]
        BY <1>1, <1>2, <2>3 DEF ArchiveInv, CallsInStep, StreamInStep, StructsOK
      <3>2. k \in 1 .. Len(stream) /\ stream'[k] = stream[k]
        BY <1>2, <1>4, <2>3, <3>1
      <3>3. QED
        BY <2>3, <3>1, <3>2
    <2>4. QED
      BY <1>2, <1>5, <2>1, <2>2, <2>3 DEF StreamInStep
  <1>7. CallKept'
    BY <1>1, <1>3, WriterKeepsCall
  <1>8. "close" \in Writing /\ i' \in Nat
    BY <1>2, <1>3 DEF Writing
  <1>9. QED
    BY <1>2, <1>3, <1>6, <1>7, <1>8, PutKeepsInv


(***************************************************************************)
(* The one fwrite of an export.                                            *)
(***************************************************************************)
(* It puts on the stream what a read of as many bytes would see, which is  *)
(* the part if that lies in the buffer; or it ends the process.            *)
LEMMA BufferPut ==
  ASSUME StructsOK, NEW start \in Int, NEW n \in Int, NEW fits,
         NEW claimed \in Int, PutBuffer(start, n, fits, claimed), fits => n >= 0
  PROVE  \/ \E m \in Nat :
              /\ Put(Peek(start, m), "close") /\ UNCHANGED <<i, complaints>>
              /\ fits => m = n
         \/ ~fits /\ pc' = "fault" /\ UNCHANGED <<structKept, fileVars>>
  <1>1. CASE fits /\ Put(Peek(start, n), "close") /\ UNCHANGED <<i, complaints>>
    <2>1. n \in Nat
      BY <1>1
    <2>2. QED
      BY <1>1, <2>1
  <1>2. CASE /\ ~fits
             /\ \E m \in {claimed, Len(buffer) - start} :
                  /\ m >= 0
                  /\ Put(Peek(start, m), "close") /\ UNCHANGED <<i, complaints>>
    <2>1. PICK m \in {claimed, Len(buffer) - start} :
            m >= 0 /\ Put(Peek(start, m), "close") /\ UNCHANGED <<i, complaints>>
      BY <1>2
    <2>2. m \in Nat
      BY <2>1 DEF StructsOK
    <2>3. QED
      BY <1>2, <2>1, <2>2
  <1>3. CASE ~fits /\ pc' = "fault" /\ UNCHANGED <<structKept, fileVars>>
    BY <1>3
  <1>4. QED
    BY <1>1, <1>2, <1>3 DEF PutBuffer

(* Parts that lie in the buffer fit there, one behind the other.           *)
LEMMA PartsFit ==
  ASSUME StructsOK, PartsInBuffer
  PROVE  /\ BmgFits /\ TextFits
         /\ BmgStart \in Nat /\ TextStart = BmgStart + U32(BmgSizeField)
  <1>1. /\ BmgStart \in Int /\ TextStart \in Int /\ BmgSizeField \in Bytes(4)
        /\ U32(BmgSizeField) \in Nat /\ Len(buffer) \in Nat
    BY PartTypes DEF StructsOK
  <1>2. /\ BmgStart >= 0 /\ TextStart >= BmgStart + 12
        /\ TextStart + 4 <= Len(buffer)
    BY DEF PartsInBuffer
  <1>3. TextStart = BmgStart + U32(BmgSizeField)
    BY <1>1, <1>2, PartTypes
  <1>4. AtMost(BmgSizeField, Len(buffer) - BmgStart)
    <2>1. Len(buffer) - BmgStart \in Int
      BY <1>1
    <2>2. U32(BmgSizeField) <= Len(buffer) - BmgStart
      BY <1>1, <1>2, <1>3
    <2>3. QED
      BY <1>1, <2>1, <2>2, AtMostIs
  <1>5. QED
    BY <1>1, <1>2, <1>3, <1>4 DEF BmgFits, TextFits

(* Whichever export it is, a part that lies in the buffer is written whole. *)
LEMMA ExportKeepsInv ==
  ASSUME ArchiveInv, NEW start \in Int, NEW n \in Int, NEW fits,
         NEW claimed \in Int, PutBuffer(start, n, fits, claimed),
         pc \in {"export_bmg", "export_txt"}, fits => n >= 0,
         pc = "export_bmg" /\ PartsInBuffer => fits /\ Peek(start, n) = BmgPart,
         pc = "export_txt" /\ TextFits => fits /\ Peek(start, n) = TxtPart
  PROVE  ArchiveInv'
  <1>1. /\ pc \in Writing /\ call \in Calls /\ call.path \in DOMAIN disk
        /\ Len(done) < MaxCalls /\ call.op = pc /\ stream = << >>
        /\ complaints = {} /\ i \in Nat /\ StructsOK /\ "close" \in Writing
    BY DEF ArchiveInv, ArchiveTypeOK, CallsInStep, CallKept, Writing
  <1>2. CASE pc' = "fault" /\ UNCHANGED <<structKept, fileVars>>
    <2>1. /\ UNCHANGED <<structKept, disk, block, done, full>>
          /\ stream' = stream /\ i' = i /\ call' = call /\ complaints' = complaints
      BY <1>2 DEF fileVars
    <2>2. stream' \in Seq(Byte)
      BY <2>1 DEF ArchiveInv, ArchiveTypeOK
    <2>3. QED
      BY <1>1, <1>2, <2>1, <2>2, FaultKeepsInv
  <1>3. ASSUME NEW m \in Nat, Put(Peek(start, m), "close"),
               UNCHANGED <<i, complaints>>,
               fits => m = n
        PROVE  ArchiveInv'
    <2>1. Peek(start, m) \in Seq(Byte)
      BY <1>1, PeekAnywhere DEF StructsOK
    <2>2. /\ pc' = "close" /\ call' = call /\ UNCHANGED structKept
          /\ done' = done /\ stream' = stream \o Peek(start, m)
      BY <1>3 DEF Put
    <2>3. stream' = Peek(start, m)
      BY <1>1, <2>1, <2>2
    <2>4. StreamInStep'
      <3>1. /\ PartsInBuffer' = PartsInBuffer /\ TextFits' = TextFits
            /\ BmgPart' = BmgPart /\ TxtPart' = TxtPart
        BY <2>2, KeptStable
      <3>2. call'.op = pc /\ call'.op # "write_file"
        BY <1>1, <2>2
      <3>3. /\ pc = "export_bmg" /\ PartsInBuffer => stream' = BmgPart
            /\ pc = "export_txt" /\ TextFits => stream' = TxtPart
        BY <1>3, <2>3
      <3>4. QED
        BY <3>1, <3>2, <3>3 DEF StreamInStep
    <2>5. DOMAIN disk' = DOMAIN disk
      BY <1>1, <1>3, <2>1, PutKeepsFiles
    <2>6. CallKept'
      BY <1>1, <1>3, <2>2, <2>5 DEF CallKept, ReadLabels, Writing
    <2>7. i' \in Nat /\ complaints' \subseteq {"BMG", "FILE", "file"}
      BY <1>1, <1>3
    <2>8. QED
      BY <1>1, <1>3, <2>1, <2>4, <2>6, <2>7, PutKeepsInv
  <1>4. QED
    BY <1>1, <1>2, <1>3, BufferPut

(* The one fwrite of the two exports keeps the invariant.                  *)
LEMMA WriteExportKeepsInv ==
  ASSUME ArchiveInv, WriteExport
  PROVE  ArchiveInv'
  <1>1. StructsOK /\ Len(buffer) \in Nat
    BY DEF ArchiveInv, StructsOK
  <1>2. /\ BmgStart \in Int /\ TextStart \in Int
        /\ U32(BmgSizeField) \in Nat /\ Int32(BmgSizeField) \in Int
    BY <1>1, PartTypes
  <1>3. CASE pc = "export_bmg" /\ WriteBmgPart
    <2> DEFINE n == U32(BmgSizeField)
    <2>1. n \in Int /\ n >= 0
      BY <1>2
    <2>2. PartsInBuffer => BmgFits /\ Peek(BmgStart, n) = BmgPart
      BY <1>1, <1>2, PartsFit DEF BmgPart
    <2>3. PutBuffer(BmgStart, n, BmgFits, Int32(BmgSizeField))
      BY <1>3 DEF WriteBmgPart
    <2> HIDE DEF n
    <2>4. QED
      BY <1>2, <1>3, <2>1, <2>2, <2>3, ExportKeepsInv
  <1>4. CASE pc = "export_txt" /\ WriteTxtPart
    <2> DEFINE n == Len(buffer) - TextStart
    <2>1. n \in Int
      BY <1>1, <1>2
    <2>2. TextFits => n >= 0 /\ Peek(TextStart, n) = TxtPart
      BY <1>1, <1>2 DEF TextFits, TxtPart
    <2>3. PutBuffer(TextStart, n, TextFits, n)
      BY <1>4 DEF WriteTxtPart
    <2> HIDE DEF n
    <2>4. QED
      BY <1>2, <1>4, <2>1, <2>2, <2>3, ExportKeepsInv
  <1>5. QED
    BY <1>3, <1>4 DEF WriteExport


(***************************************************************************)
(* The end of a call, and of the process or the disk within one.           *)
(***************************************************************************)
(* The bmg part and the text part, one behind the other, are the buffer    *)
(* from the bmg part on.                                                   *)
LEMMA PartsJoin ==
  ASSUME StructsOK, PartsInBuffer
  PROVE  /\ BmgPart \in Seq(Byte) /\ TxtPart \in Seq(Byte)
         /\ BmgPart \o TxtPart = SubSeq(buffer, BmgStart + 1, Len(buffer))
         /\ (Peek(0, BmgStart) \o BmgPart) \o TxtPart = buffer
  <1> DEFINE a == BmgStart
             n == U32(BmgSizeField)
             m == Len(buffer) - TextStart
  <1>1. /\ a \in Nat /\ n \in Nat /\ m \in Nat /\ TextStart = a + n
        /\ a + (n + m) = Len(buffer) /\ n + m \in Nat
        /\ buffer \in Seq(Byte) /\ memory \in Memory
    <2>1. BmgStart \in Int /\ U32(BmgSizeField) \in Nat
      BY PartTypes
    <2>2. /\ BmgStart >= 0 /\ TextStart >= BmgStart + 12
          /\ TextStart + 4 <= Len(buffer)
          /\ TextStart = a + n
      BY PartsFit DEF PartsInBuffer
    <2>3. buffer \in Seq(Byte) /\ memory \in Memory /\ Len(buffer) \in Nat
      BY DEF StructsOK
    <2> HIDE DEF n
    <2>4. n \in Nat
      BY <2>1 DEF n
    <2>5. a \in Nat /\ n \in Nat /\ m \in Nat
      BY <2>1, <2>2, <2>3, <2>4
    <2>6. a + (n + m) = Len(buffer) /\ n + m \in Nat
      BY <2>1, <2>2, <2>3, <2>4, <2>5
    <2>7. QED
      BY <2>2, <2>3, <2>5, <2>6
  <1>2. BmgPart = Peek(a, n) /\ TxtPart = Peek(a + n, m)
    BY <1>1 DEF BmgPart, TxtPart
  <1>3. a = BmgStart
    OBVIOUS
  <1> HIDE DEF a, n, m
  <1>4. BmgPart \in Seq(Byte) /\ TxtPart \in Seq(Byte)
    BY <1>1, <1>2, PeekType
  <1>5. Peek(a, n) \o Peek(a + n, m) = Peek(a, n + m)
    BY <1>1, PeekConcat
  <1>6. Peek(a, n + m) = SubSeq(buffer, a + 1, Len(buffer))
    <2>1. Peek(a, n + m) = Slice(a, n + m)
      BY <1>1, PeekIsSlice
    <2>2. QED
      BY <1>1, <2>1 DEF Slice
  <1>7. Peek(0, a) \o Peek(a, n + m) = buffer
    <2>1. Peek(0, a) \o Peek(a, n + m) = Peek(0, a + (n + m))
      BY <1>1, PeekGrows
    <2>2. Peek(0, Len(buffer)) = buffer
      BY <1>1 DEF Peek
    <2>3. QED
      BY <1>1, <2>1, <2>2
  <1>8. (Peek(0, a) \o BmgPart) \o TxtPart = Peek(0, a) \o (BmgPart \o TxtPart)
    <2>1. Peek(0, a) \in Seq(Byte)
      BY <1>1, PeekGrows
    <2>2. QED
      BY <1>4, <2>1
  <1>9. QED
    BY <1>2, <1>3, <1>4, <1>5, <1>6, <1>7, <1>8

(* However long it is, what a read from the beginning yields agrees with   *)
(* the configuration.                                                      *)
LEMMA PeekIsPrefix ==
  ASSUME NEW m \in Nat, NEW o \in Nat, StructsOK
  PROVE  \A k \in 1 .. Len(Peek(0, m)) : k <= o => Peek(0, m)[k] = Peek(0, o)[k]
  BY DEF Peek

(* At every step of write_file the stream begins like the configuration.   *)
LEMMA StreamBegins ==
  ASSUME ArchiveInv, pc \in Writing \cup {"crashed"}, call.op = "write_file",
         reported = {}
  PROVE  \A k \in 1 .. Len(stream) : k <= offset => stream[k] = Peek(0, offset)[k]
  <1>1. StructsOK /\ offset \in Nat /\ i \in Nat /\ ReadTracks \in Nat
    BY ReadTracksType DEF ArchiveInv, ArchiveTypeOK, StructsOK
  <1>2. StreamInStep /\ CallKept
    BY DEF ArchiveInv, CallsInStep
  <1>3. CASE pc = "w_header"
    <2>1. stream = << >>
      BY <1>2, <1>3 DEF StreamInStep
    <2>2. QED
      BY <2>1
  <1>4. CASE pc \in {"w_info", "w_cups", "w_tracks", "w_alphabet"}
    <2>1. PICK m \in Nat : stream = Peek(0, m)
      BY <1>1, <1>2, <1>4 DEF StreamInStep
    <2>2. QED
      BY <1>1, <2>1, PeekIsPrefix
  <1>5. CASE pc \in {"w_txt", "close", "crashed"}
    BY <1>2, <1>5 DEF StreamInStep
  <1>6. CASE pc \in {"export_bmg", "export_txt"}
    BY <1>2, <1>6 DEF CallKept
  <1>7. QED
    BY <1>3, <1>4, <1>5, <1>6 DEF Writing

(* A process that is killed leaves the files as its streams had them.      *)
LEMMA CrashKeepsInv ==
  ASSUME ArchiveInv, Crash
  PROVE  ArchiveInv'
  <1>1. /\ pc \in Writing /\ pc' = "crashed" /\ UNCHANGED structKept
        /\ disk' = disk /\ block' = block /\ call' = call /\ stream' = stream
        /\ i' = i /\ full' = full /\ done' = done /\ complaints' = complaints
    BY DEF Crash, fileVars
  <1>2. pc' \notin ReadLabels \cup {"read", "fault"} \cup Writing
    BY <1>1 DEF ReadLabels, Writing
  <1>3. /\ StructsOK' /\ ReadsInBounds' /\ ArraysFit'
        /\ pc' \in {"read", "crashed"} \cup Writing /\ reported' = {} => WholeRead'
    BY <1>1, CallsKeepStruct
  <1>4. ArchiveTypeOK'
    BY <1>1, <1>3 DEF ArchiveInv, ArchiveTypeOK, StructsOK
  <1>5. CallKept'
    BY <1>2 DEF CallKept, Writing
  <1>6. StreamInStep'
    <2>1. /\ reported' = reported /\ offset' = offset
          /\ Peek(0, offset)' = Peek(0, offset)
      BY <1>1, KeptStable DEF structKept
    <2>2. reported = {} /\ call.op = "write_file" =>
            \A k \in 1 .. Len(stream) : k <= offset => stream[k] = Peek(0, offset)[k]
      BY <1>1, StreamBegins
    <2>3. QED
      BY <1>1, <2>1, <2>2 DEF StreamInStep
  <1>7. FileBehindStream'
    BY <1>1 DEF ArchiveInv, CallsInStep, FileBehindStream
  <1>8. ExportsInPlace'
    BY <1>1, KeptStable, ExportedWhileCalling
       DEF ArchiveInv, CallsInStep, ExportsInPlace, Writing
  <1>9. ReassemblyIsIdentity'
    BY <1>1 DEF ReassemblyIsIdentity
  <1>10. TextsHaveMagic'
    BY <1>1, <1>2, MagicStable DEF ArchiveInv, CallsInStep
  <1>11. QED
    BY <1>2, <1>3, <1>4, <1>5, <1>6, <1>7, <1>8, <1>9, <1>10
       DEF ArchiveInv, CallsInStep

(* When the disk fills up, the files stay behind their streams.            *)
LEMMA DiskFillsKeepsInv ==
  ASSUME ArchiveInv, DiskFills
  PROVE  ArchiveInv'
  <1>1. /\ pc \in Writing /\ pc' = pc /\ UNCHANGED structKept
        /\ disk' = disk /\ block' = block /\ call' = call /\ stream' = stream
        /\ i' = i /\ full' = TRUE /\ done' = done /\ complaints' = complaints
    BY DEF DiskFills
  <1>2. pc \notin ReadLabels \cup {"read", "fault", "crashed"}
    BY <1>1 DEF ReadLabels, Writing
  <1>3. /\ StructsOK' /\ ReadsInBounds' /\ ArraysFit'
        /\ pc' \in {"read", "crashed"} \cup Writing /\ reported' = {} => WholeRead'
    BY <1>1, CallsKeepStruct
  <1>4. ArchiveTypeOK'
    <2>1. full' \in BOOLEAN
      BY <1>1, Zenon
    <2>2. QED
      BY <1>1, <1>3, <2>1 DEF ArchiveInv, ArchiveTypeOK, StructsOK
  <1>5. CallKept' /\ FileBehindStream'
    BY <1>1 DEF ArchiveInv, CallsInStep, CallKept, FileBehindStream
  <1>6. StreamInStep'
    BY <1>1, StreamStable DEF ArchiveInv, CallsInStep
  <1>7. ExportsInPlace' /\ ReassemblyIsIdentity'
    BY <1>1 DEF ExportsInPlace, ReassemblyIsIdentity
  <1>8. TextsHaveMagic'
    BY <1>1, MagicStable DEF ArchiveInv, CallsInStep
  <1>9. QED
    BY <1>1, <1>2, <1>3, <1>4, <1>5, <1>6, <1>7, <1>8 DEF ArchiveInv, CallsInStep


(* fclose hands the rest of the stream to the file, and the call returns.  *)
LEMMA CloseFacts ==
  ASSUME ArchiveInv, Close
  PROVE  /\ pc = "close" /\ pc' = "read" /\ UNCHANGED structKept
         /\ block' = block /\ call' = call /\ stream' = stream /\ i' = i
         /\ full' = full /\ complaints' = complaints
         /\ Returned(call, complaints = {})
         /\ call \in Calls /\ call.path \in DOMAIN disk /\ Len(done) < MaxCalls
         /\ DOMAIN disk' = DOMAIN disk
         /\ \A p \in DOMAIN disk : p # call.path => disk'[p] = disk[p]
         /\ disk'[call.path] = IF full THEN disk[call.path] ELSE stream
  <1>1. /\ pc = "close" /\ pc' = "read" /\ UNCHANGED structKept
        /\ block' = block /\ call' = call /\ stream' = stream /\ i' = i
        /\ full' = full /\ complaints' = complaints
        /\ Returned(call, complaints = {})
        /\ disk' = IF full THEN disk ELSE [disk EXCEPT ![call.path] = stream]
    BY DEF Close, Write
  <1>2. call \in Calls /\ call.path \in DOMAIN disk /\ Len(done) < MaxCalls
    BY <1>1 DEF ArchiveInv, CallsInStep, CallKept, Writing
  <1>3. QED
    BY <1>1, <1>2

(* What the path of an export holds then is its part, and what that of     *)
(* write_file holds, if it was given the two parts, is the whole file.     *)
LEMMA CloseKeepsInv ==
  ASSUME ArchiveInv, Close
  PROVE  ArchiveInv'
  <1>1. /\ pc = "close" /\ pc' = "read" /\ UNCHANGED structKept
        /\ block' = block /\ call' = call /\ stream' = stream /\ i' = i
        /\ full' = full /\ complaints' = complaints
        /\ Returned(call, complaints = {})
        /\ call \in Calls /\ call.path \in DOMAIN disk /\ Len(done) < MaxCalls
        /\ DOMAIN disk' = DOMAIN disk
        /\ \A p \in DOMAIN disk : p # call.path => disk'[p] = disk[p]
        /\ disk'[call.path] = IF full THEN disk[call.path] ELSE stream
    BY CloseFacts
  <1>2. /\ StructsOK' /\ ReadsInBounds' /\ ArraysFit' /\ CursorInStep'
        /\ reported' = {} => WholeRead'
    <2>1. pc \in {"read"} \cup Writing
      BY <1>1 DEF Writing
    <2>2. QED
      BY <1>1, <2>1, CallsKeepStruct
  <1>3. /\ done \in Seq([call : Calls, ok : BOOLEAN]) /\ StructsOK
        /\ stream \in Seq(Byte)
        /\ \A p \in DOMAIN disk : disk[p] \in Seq(Byte)
    BY DEF ArchiveInv, ArchiveTypeOK
  <1> DEFINE ok == complaints = {}
             e  == [call |-> call, ok |-> ok]
  <1>4. /\ e \in [call : Calls, ok : BOOLEAN] /\ e.call = call
        /\ e.ok <=> complaints = {}
    BY <1>1, Zenon
  <1>5. done' = Append(done, e)
    BY <1>1 DEF Returned
  <1> HIDE DEF ok, e
  <1>6. /\ done' \in Seq([call : Calls, ok : BOOLEAN])
        /\ Len(done') = Len(done) + 1 /\ Len(done) \in Nat
        /\ done'[Len(done')] = e
    BY <1>3, <1>4, <1>5
  <1>7. ArchiveTypeOK'
    <2>1. Len(done') <= MaxCalls
      BY <1>1, <1>6, CallsAssumption
    <2>2. \A p \in DOMAIN disk' : disk'[p] \in Seq(Byte)
      BY <1>1, <1>3, Zenon
    <2>3. QED
      BY <1>1, <1>2, <1>6, <2>1, <2>2 DEF ArchiveInv, ArchiveTypeOK, StructsOK
  <1>8. CallKept' /\ StreamInStep' /\ FileBehindStream'
    BY <1>1 DEF CallKept, StreamInStep, FileBehindStream, Writing, ReadLabels
  <1>9. /\ \A op, p : p # call.path /\ Exported(op, p)' => Exported(op, p)
        /\ \A op : Exported(op, call.path)' => complaints = {} /\ call.op = op
    BY <1>1, <1>3, ExportedReturned
  <1>10. ExportsInPlace'
    <2>1. /\ PartsInBuffer' = PartsInBuffer /\ TextFits' = TextFits
          /\ BmgPart' = BmgPart /\ TxtPart' = TxtPart
      BY <1>1, KeptStable
    <2>2. ASSUME ~full, NEW p \in Paths
          PROVE  /\ PartsInBuffer /\ Exported("export_bmg", p)' =>
                      p \in DOMAIN disk' /\ disk'[p] = BmgPart
                 /\ TextFits /\ Exported("export_txt", p)' =>
                      p \in DOMAIN disk' /\ disk'[p] = TxtPart
      <3>1. CASE p = call.path
        <4>1. /\ PartsInBuffer /\ call.op = "export_bmg" => stream = BmgPart
              /\ TextFits /\ call.op = "export_txt" => stream = TxtPart
          BY <1>1 DEF ArchiveInv, CallsInStep, StreamInStep
        <4>2. QED
          BY <1>1, <1>9, <2>2, <3>1, <4>1
      <3>2. CASE p # call.path
        <4>1. /\ PartsInBuffer /\ Exported("export_bmg", p) =>
                   p \in DOMAIN disk /\ disk[p] = BmgPart
              /\ TextFits /\ Exported("export_txt", p) =>
                   p \in DOMAIN disk /\ disk[p] = TxtPart
          BY <2>2, <3>2 DEF ArchiveInv, CallsInStep, ExportsInPlace
        <4>2. QED
          BY <1>1, <1>9, <3>2, <4>1
      <3>3. QED
        BY <3>1, <3>2
    <2>3. QED
      BY <1>1, <2>1, <2>2 DEF ExportsInPlace
  <1>11. ReassemblyIsIdentity'
    <2>1. /\ PartsInBuffer' = PartsInBuffer /\ BmgStart' = BmgStart
          /\ offset' = offset /\ buffer' = buffer
      BY <1>1, KeptStable DEF structKept
    <2>2. ASSUME PartsInBuffer, BmgStart = offset, ~full, complaints = {},
                 call.op = "write_file", call.path \notin {call.bmg, call.txt},
                 Exported("export_bmg", call.bmg)', Exported("export_txt", call.txt)'
          PROVE  disk'[call.path] = buffer
      <3>1. call.bmg \in Paths /\ call.txt \in Paths
        BY <1>1 DEF Calls
      <3>2. disk[call.bmg] = BmgPart /\ disk[call.txt] = TxtPart
        <4>1. call.bmg # call.path /\ call.txt # call.path
          BY <2>2
        <4>2. Exported("export_bmg", call.bmg) /\ Exported("export_txt", call.txt)
          <5>1. call'.bmg = call.bmg /\ call'.txt = call.txt
            BY <1>1
          <5>2. PICK b, t : b = call.bmg /\ t = call.txt
            OBVIOUS
          <5>3. Exported("export_bmg", b)'
            BY <2>2, <5>1, <5>2 DEF Exported
          <5>4. Exported("export_txt", t)'
            BY <2>2, <5>1, <5>2 DEF Exported
          <5>5. Exported("export_bmg", b) /\ Exported("export_txt", t)
            BY <1>9, <4>1, <5>2, <5>3, <5>4
          <5>6. QED
            BY <5>2, <5>5
        <4>3. ExportsInPlace /\ TextFits
          BY <1>3, <2>2, PartsFit DEF ArchiveInv, CallsInStep
        <4>4. QED
          BY <2>2, <3>1, <4>1, <4>2, <4>3 DEF ExportsInPlace
      <3>3. reported = {}
        BY <2>2 DEF PartsInBuffer
      <3>4. stream = (Peek(0, offset) \o disk[call.bmg]) \o disk[call.txt]
        BY <1>1, <2>2, <3>3 DEF ArchiveInv, CallsInStep, StreamInStep
      <3>5. QED
        BY <1>1, <1>3, <2>2, <3>2, <3>4, PartsJoin
    <2>3. QED
      BY <1>4, <1>6, <2>1, <2>2, <1>1 DEF ReassemblyIsIdentity
  <1>12. TextsHaveMagic'
    <2>1. TextMagic' = TextMagic /\ "close" \in Writing
      BY <1>1, KeptStable DEF Writing
    <2>2. QED
      BY <1>1, <1>9, <2>1 DEF ArchiveInv, CallsInStep, TextsHaveMagic, Writing
  <1>13. QED
    BY <1>1, <1>2, <1>7, <1>8, <1>10, <1>11, <1>12 DEF ArchiveInv, CallsInStep, Writing

(* No step leaves the invariant.                                           *)
LEMMA ArchiveInvNext == ArchiveInv /\ [ArchiveNext]_archiveVars => ArchiveInv'
  <1> SUFFICES ASSUME ArchiveInv, [ArchiveNext]_archiveVars PROVE ArchiveInv'
    OBVIOUS
  <1>1. CASE Load
    BY <1>1, LoadKeepsInv
  <1>2. ASSUME NEW c \in Requests, ExportBmg(c) \/ ExportTxt(c) \/ WriteFile(c)
        PROVE  ArchiveInv'
    BY <1>2, BeginKeepsInv
  <1>3. CASE WriteExport
    BY <1>3, WriteExportKeepsInv
  <1>4. CASE WriteFileHeader \/ WriteInfo \/ WriteCups
    BY <1>4, SectionsKeepInv
  <1>5. CASE WriteTrackEntry \/ WriteTracksDone
    BY <1>5, TrackLoopKeepsInv
  <1>6. CASE WriteAlphabetEntry
    BY <1>6, AlphabetLoopKeepsInv
  <1>7. CASE WriteBmg \/ WriteTxt
    BY <1>7, WriteBmgKeepsInv, WriteTxtKeepsInv
  <1>8. CASE Close
    BY <1>8, CloseKeepsInv
  <1>9. CASE Crash \/ DiskFills
    BY <1>9, CrashKeepsInv, DiskFillsKeepsInv
  <1>10. CASE UNCHANGED archiveVars
    <2>1. /\ UNCHANGED structKept /\ pc' = pc
          /\ disk' = disk /\ block' = block /\ call' = call /\ stream' = stream
          /\ i' = i /\ full' = full /\ done' = done /\ complaints' = complaints
      BY <1>10 DEF archiveVars, readerVars, fileVars, structKept, structVars, arrayVars
    <2>2. /\ reported' = reported /\ offset' = offset /\ buffer' = buffer
          /\ t_arr' = t_arr /\ alphabet_table' = alphabet_table
          /\ t_cap' = t_cap /\ alphabet_cap' = alphabet_cap
          /\ f_hdr' = f_hdr /\ i_hdr' = i_hdr /\ i_fld' = i_fld
          /\ c_hdr' = c_hdr /\ memory' = memory
      BY <2>1 DEF structKept, structVars, arrayVars
    <2>3. /\ StructsOK' /\ ReadsInBounds' /\ (WholeRead => WholeRead')
          /\ ReadTracks' = ReadTracks
          /\ \A o, n : Peek(o, n)' = Peek(o, n)
          /\ BmgStart' = BmgStart /\ PartsInBuffer' = PartsInBuffer
          /\ BmgPart' = BmgPart /\ TxtPart' = TxtPart
          /\ TextFits' = TextFits /\ TextMagic' = TextMagic
      BY <2>1, KeptStable DEF ArchiveInv, CallsInStep
    <2>4. \A op, p : Exported(op, p)' = Exported(op, p)
      BY <2>1, ExportedWhileCalling
    <2>5. ArchiveTypeOK'
      BY <2>1, <2>2 DEF ArchiveInv, ArchiveTypeOK
    <2>6. CursorInStep => CursorInStep'
      <3>1. IndexRead => IndexRead'
        BY <2>2, <2>3 DEF IndexRead
      <3>2. /\ (HeaderRead => HeaderRead') /\ (InfoRead => InfoRead')
            /\ (CupsRead => CupsRead') /\ (TracksRead => TracksRead')
        BY <2>2, ReadStable
      <3>3. QED
        BY <2>1, <2>2, <2>3, <3>1, <3>2 DEF CursorInStep
    <2>7. ArraysFit' /\ CallKept' /\ FileBehindStream'
      BY <2>1, <2>2, <2>3
         DEF ArchiveInv, CallsInStep, ArraysFit, CallKept, FileBehindStream
    <2>8. StreamInStep'
      BY <2>1, StreamStable DEF ArchiveInv, CallsInStep
    <2>9. ExportsInPlace' /\ TextsHaveMagic'
      BY <2>1, <2>3, <2>4 DEF ArchiveInv, CallsInStep, ExportsInPlace, TextsHaveMagic
    <2>10. ReassemblyIsIdentity'
      BY <2>1, <2>2, <2>3, <2>4 DEF ArchiveInv, ReassemblyIsIdentity
    <2>11. CallsInStep'
      BY <2>1, <2>2, <2>3, <2>6, <2>7, <2>8, <2>9 DEF ArchiveInv, CallsInStep
    <2>12. QED
      BY <2>3, <2>5, <2>10, <2>11 DEF ArchiveInv
  <1>11. QED
    BY <1>1, <1>2, <1>3, <1>4, <1>5, <1>6, <1>7, <1>8, <1>9, <1>10
       DEF ArchiveNext


(***************************************************************************)
(* What holds of every behaviour.                                          *)
(***************************************************************************)
(* The invariant holds at every step of every sequence of calls.           *)
THEOREM ArchiveInvariant == ArchiveSpec => []ArchiveInv
  <1>1. QED
    BY ArchiveInvInit, ArchiveInvNext, PTL DEF ArchiveSpec

(* Files, streams and the list of calls keep their types in the exports    *)
(* and in write_file.                                                      *)
THEOREM ArchiveTypes == ArchiveSpec => []ArchiveTypeOK
  <1>1. ArchiveInv => ArchiveTypeOK
    BY DEF ArchiveInv
  <1>2. QED
    BY <1>1, ArchiveInvariant, PTL

(* At every point of the exports and write_file, struct, stream and disk   *)
(* hold what the calls made so far account for.                            *)
THEOREM CallsStayInStep == ArchiveSpec => []CallsInStep
  <1>1. ArchiveInv => CallsInStep
    BY DEF ArchiveInv
  <1>2. QED
    BY <1>1, ArchiveInvariant, PTL

(* The two loops of write_file never leave what read_file allocated and    *)
(* filled, although they compute their bound anew.                         *)
THEOREM LoopsStayInBounds == ArchiveSpec => []LoopsInBounds
  <1>1. ArchiveInv => LoopsInBounds
    <2> SUFFICES ASSUME ArchiveInv, pc \notin ReadLabels \cup {"fault"}
                 PROVE  /\ WriteTracks <= Len(t_arr)
                        /\ WriteTracks <= Len(alphabet_table)
                        /\ Len(t_arr) <= t_cap
                        /\ Len(alphabet_table) <= alphabet_cap
      BY DEF LoopsInBounds
    <2>1. ReadTracks \in Nat
      BY ReadTracksType DEF ArchiveInv, StructsOK
    <2>2. /\ t_cap = ReadTracks /\ Len(t_arr) = ReadTracks
          /\ alphabet_cap = ReadTracks /\ Len(alphabet_table) = ReadTracks
      BY DEF ArchiveInv, CallsInStep, ArraysFit
    <2>3. QED
      BY <2>1, <2>2, TracksAgree
  <1>2. QED
    BY <1>1, ArchiveInvariant, PTL

(* A file torn by a crash or a full disk inside write_file is never        *)
(* anything but the beginning of the configuration that was being written, *)
(* or all of it with something behind.                                     *)
THEOREM TornFilesArePrefixes == ArchiveSpec => []TornFileIsPrefix
  <1>1. ArchiveInv => TornFileIsPrefix
    <2> SUFFICES ASSUME ArchiveInv, call.op = "write_file", call.path \in DOMAIN disk,
                        pc \in Writing \cup {"crashed"}, reported = {},
                        offset <= Len(buffer),
                        NEW k \in 1 .. Len(disk[call.path]), k <= offset
                 PROVE  disk[call.path][k] = SubSeq(buffer, 1, offset)[k]
      BY DEF TornFileIsPrefix
    <2>1. /\ stream \in Seq(Byte) /\ disk[call.path] \in Seq(Byte)
          /\ buffer \in Seq(Byte) /\ offset \in Nat
      BY DEF ArchiveInv, ArchiveTypeOK, StructsOK
    <2>2. /\ Len(disk[call.path]) <= Len(stream)
          /\ disk[call.path] = SubSeq(stream, 1, Len(disk[call.path]))
      BY DEF ArchiveInv, CallsInStep, FileBehindStream
    <2>3. k \in 1 .. Len(stream) /\ disk[call.path][k] = stream[k]
      <3> DEFINE f == disk[call.path]
      <3>1. f \in Seq(Byte) /\ Len(f) <= Len(stream) /\ f = SubSeq(stream, 1, Len(f))
            /\ k \in 1 .. Len(f)
        BY <2>1, <2>2
      <3> HIDE DEF f
      <3>2. k \in 1 .. Len(stream) /\ SubSeq(stream, 1, Len(f))[k] = stream[k]
        BY <2>1, <3>1
      <3>3. QED
        BY <3>1, <3>2 DEF f
    <2>4. stream[k] = Peek(0, offset)[k]
      BY <2>3, StreamBegins
    <2>5. Peek(0, offset)[k] = SubSeq(buffer, 1, offset)[k]
      BY <2>1 DEF Peek
    <2>6. QED
      BY <2>3, <2>4, <2>5
  <1>2. QED
    BY <1>1, ArchiveInvariant, PTL

(* What export_bmg and export_txt leave, put together, is the file from    *)
(* bmg_offset on, with nothing lost or doubled between the two parts,      *)
(* whatever calls lie between the two.  What lies in front of bmg_offset,  *)
(* the configuration and a gap behind it, is in neither.                   *)
THEOREM ExportsShareTheFile == ArchiveSpec => []ExportsPartitionTheRest
  <1>1. ArchiveInv => ExportsPartitionTheRest
    <2> SUFFICES ASSUME ArchiveInv, pc = "read", PartsInBuffer, ~full,
                        NEW p \in Paths, NEW q \in Paths,
                        Exported("export_bmg", p), Exported("export_txt", q)
                 PROVE  disk[p] \o disk[q] = SubSeq(buffer, BmgStart + 1, Len(buffer))
      BY DEF ExportsPartitionTheRest
    <2>1. disk[p] = BmgPart /\ disk[q] = TxtPart
      BY PartsFit DEF ArchiveInv, CallsInStep, ExportsInPlace
    <2>2. QED
      BY <2>1, PartsJoin DEF ArchiveInv
  <1>2. QED
    BY <1>1, ArchiveInvariant, PTL

(* What export_txt leaves is an end of the file that begins with the text  *)
(* magic, also where the size that is added to bmg_offset takes the sum    *)
(* around the range of int.                                                *)
THEOREM ExportedTextsAreEnds == ArchiveSpec => []ExportedTextIsAnEnd
  <1>1. ArchiveInv => ExportedTextIsAnEnd
    <2> SUFFICES ASSUME ArchiveInv, pc = "read", ~full, TextStart >= 0,
                        TextStart <= Len(buffer) - 4,
                        NEW p \in Paths, Exported("export_txt", p)
                 PROVE  /\ Len(disk[p]) >= 4 /\ SubSeq(disk[p], 1, 4) = TEXT_MAGIC
                        /\ disk[p] = SubSeq(buffer, Len(buffer) - Len(disk[p]) + 1,
                                            Len(buffer))
      BY DEF ExportedTextIsAnEnd
    <2>1. /\ buffer \in Seq(Byte) /\ Len(buffer) \in Nat
          /\ TextStart \in Int
      BY PartTypes DEF ArchiveInv, StructsOK
    <2> DEFINE t == TextStart
               m == Len(buffer) - TextStart
    <2>2. t \in Nat /\ m \in Nat /\ m >= 4 /\ t + m = Len(buffer)
      BY <2>1
    <2>3. disk[p] = Peek(t, m) /\ Peek(t, 4) = TEXT_MAGIC
      <3>1. TextFits
        BY <2>1 DEF TextFits
      <3>2. disk[p] = TxtPart /\ TextMagic
        BY <3>1 DEF ArchiveInv, CallsInStep, ExportsInPlace, TextsHaveMagic
      <3>3. QED
        BY <3>2 DEF TxtPart, TextMagic
    <2> HIDE DEF t, m
    <2>4. Peek(t, m) = SubSeq(buffer, t + 1, Len(buffer))
      BY <2>1, <2>2 DEF Peek
    <2>5. /\ Len(Peek(t, m)) = m
          /\ Len(buffer) - m + 1 = t + 1
          /\ SubSeq(Peek(t, m), 1, 4) = Peek(t, 4)
      BY <2>1, <2>2 DEF Peek
    <2>6. QED
      BY <2>2, <2>3, <2>4, <2>5
  <1>2. QED
    BY <1>1, ArchiveInvariant, PTL

(* write_file, given what the exports made of a file whose bmg part        *)
(* follows its configuration, puts back every byte of the file.            *)
THEOREM ReassemblyRestoresTheFile == ArchiveSpec => []ReassemblyIsIdentity
  <1>1. ArchiveInv => ReassemblyIsIdentity
    BY DEF ArchiveInv
  <1>2. QED
    BY <1>1, ArchiveInvariant, PTL

------------------------------------------------------------------------------
(***************************************************************************)
(* PulArchive implements PulStore: every step of read_file, of the exports *)
(* and of write_file is one of PulStore, or changes nothing there.         *)
(***************************************************************************)
(* What the files are, and how the last call stands, in PulStore's terms.  *)
KindMap ==
  [p \in Paths |-> IF p \in DOMAIN disk THEN KindOf(disk[p]) ELSE "absent"]
Sound == buffer \in DOMAIN Kinds
Status ==
  IF pc \in Writing THEN "busy"
  ELSE IF pc \in {"fault", "crashed"} THEN "dead"
  ELSE IF done = << >> \/ (done[Len(done)].ok /\ ~full) THEN "well"
  ELSE "badly"

(***************************************************************************)
(* What a file is depends on its contents and on the buffer alone.         *)
(***************************************************************************)
LEMMA KindOfType ==
  ASSUME NEW f
  PROVE  KindOf(f) \in {"bmg", "txt", "pul", "other"}
  BY DEF KindOf

LEMMA KindStable ==
  ASSUME buffer' = buffer
  PROVE  /\ \A f : KindOf(f)' = KindOf(f)
         /\ Sound' = Sound
  BY DEF KindOf, Sound

(* While no file changes, nor does what it is.                             *)
LEMMA KindsStay ==
  ASSUME buffer' = buffer, disk' = disk
  PROVE  KindMap' = KindMap /\ Sound' = Sound
  BY KindStable DEF KindMap, KindOf

(* A step that touches one path changes what that path is, and no other.   *)
LEMMA PathChanges ==
  ASSUME buffer' = buffer, NEW p \in Paths,
         DOMAIN disk' = DOMAIN disk \cup {p},
         \A q \in DOMAIN disk : q # p => disk'[q] = disk[q]
  PROVE  Store!Changes(p)
  <1>1. ASSUME NEW q \in Paths, q # p PROVE KindMap'[q] = KindMap[q]
    <2>1. q \in DOMAIN disk' <=> q \in DOMAIN disk
      BY <1>1
    <2>2. q \in DOMAIN disk => disk'[q] = disk[q]
      BY <1>1
    <2>3. KindMap[q] = IF q \in DOMAIN disk THEN KindOf(disk[q]) ELSE "absent"
      BY DEF KindMap
    <2>4. KindMap'[q] = IF q \in DOMAIN disk' THEN KindOf(disk[q])' ELSE "absent"
      BY DEF KindMap
    <2>5. q \in DOMAIN disk => KindOf(disk[q])' = KindOf(disk[q])
      BY <2>2 DEF KindOf
    <2>6. QED
      BY <2>1, <2>3, <2>4, <2>5
  <1>2. KindMap'[p] \in {"bmg", "txt", "pul", "other"}
    <2>1. KindMap'[p] = KindOf(disk[p])'
      BY DEF KindMap
    <2>2. KindOf(disk[p])' \in {"bmg", "txt", "pul", "other"}
      BY DEF KindOf
    <2>3. QED
      BY <2>1, <2>2
  <1>3. KindMap' = [KindMap EXCEPT ![p] = KindMap'[p]]
    <2>1. /\ KindMap = [q \in Paths |-> KindMap[q]]
          /\ KindMap' = [q \in Paths |-> KindMap'[q]]
      BY DEF KindMap
    <2> DEFINE a == KindMap
               b == KindMap'
    <2>2. /\ a = [q \in Paths |-> a[q]] /\ b = [q \in Paths |-> b[q]]
          /\ \A q \in Paths : q # p => b[q] = a[q]
      BY <1>1, <2>1
    <2> HIDE DEF a, b
    <2>3. b = [a EXCEPT ![p] = b[p]]
      BY <2>2
    <2>4. QED
      BY <2>3 DEF a, b
  <1>4. KindMap'[p] \in Store!Kinds \ {"absent"}
    BY <1>2 DEF Store!Kinds
  <1>5. QED
    BY <1>3, <1>4 DEF Store!Changes, KindMap

(***************************************************************************)
(* A file that can be taken apart.                                         *)
(***************************************************************************)
(* Fields of one length that read the same together read the same.         *)
LEMMA SplitAlike ==
  ASSUME NEW n \in Nat, NEW p \in Bytes(n), NEW q \in Bytes(n),
         NEW r \in Bytes(n), NEW t \in Bytes(n), p \o q = r \o t
  PROVE  p = r /\ q = t
  <1>1. /\ p \in Seq(Byte) /\ q \in Seq(Byte) /\ r \in Seq(Byte) /\ t \in Seq(Byte)
        /\ Len(p) = n /\ Len(q) = n /\ Len(r) = n /\ Len(t) = n
    BY BytesAreSeq DEF Bytes
  <1>2. ASSUME NEW x \in Seq(Byte), NEW y \in Seq(Byte), Len(x) = n, Len(y) = n
        PROVE  \A k \in 1 .. n : (x \o y)[k] = x[k] /\ (x \o y)[n + k] = y[k]
    BY <1>2
  <1>3. ASSUME NEW k \in 1 .. n PROVE p[k] = r[k] /\ q[k] = t[k]
    <2>1. (p \o q)[k] = p[k] /\ (p \o q)[n + k] = q[k]
      BY <1>1, <1>2, Zenon
    <2>2. (r \o t)[k] = r[k] /\ (r \o t)[n + k] = t[k]
      BY <1>1, <1>2, Zenon
    <2>3. QED
      BY <2>1, <2>2
  <1>4. QED
    BY <1>3 DEF Bytes

(* Once it has been read, the parts are where the exports look for them.   *)
LEMMA SoundParts ==
  ASSUME ArchiveInv, pc \in {"read"} \cup Writing, Sound
  PROVE  /\ PartsInBuffer /\ BmgStart = offset /\ BmgMagic /\ TextMagic
         /\ U32(BmgSizeField) >= 12
         /\ Kinds[buffer].pul = buffer
         /\ Kinds[buffer].bmg = BmgPart /\ Kinds[buffer].txt = TxtPart
  <1> DEFINE o == ConfigSize(buffer)
             n == BmgSizeIn(buffer)
  <1>1. /\ buffer \in Images /\ Divisible(buffer)
        /\ Kinds[buffer].pul = buffer
        /\ Kinds[buffer].bmg = PartOf(buffer, o, n)
        /\ Kinds[buffer].txt = SubSeq(buffer, o + n + 1, Len(buffer))
    BY DEF Sound, Kinds
  <1>2. /\ WellFormed(buffer) /\ Int32(PartOf(buffer, 16, 4)) = o
        /\ o + 12 <= Len(buffer)
        /\ PartOf(buffer, o, 8) = BMG_MAGIC_1 \o BMG_MAGIC_2
        /\ n >= 12 /\ n <= Len(buffer) - o - 4 /\ n <= IntMax - o - 4
        /\ PartOf(buffer, o + n, 4) = TEXT_MAGIC
    BY <1>1 DEF Divisible
  <1>3. /\ buffer \in Seq(Byte) /\ memory \in Memory /\ c_hdr \in CupsHeader
        /\ Len(buffer) \in Nat
    BY DEF ArchiveInv, StructsOK
  <1>4. reported = {} /\ offset <= Len(buffer) /\ WholeRead
    BY <1>2 DEF ArchiveInv, CallsInStep, ReadsInBounds
  <1>5. Len(buffer) >= 144
    BY <1>2 DEF WellFormed
  <1>6. offset = o /\ o \in Nat
    <2>1. ReadTracks = TracksIn(buffer) /\ ReadTracks \in Nat
      BY <1>3, <1>4, <1>5, CupsCounted, ReadTracksType DEF WholeRead
    <2>2. QED
      BY <1>4, <2>1 DEF WholeRead, ConfigSize
  <1>7. BmgStart = o
    <2>1. f_hdr.bmg_offset = Peek(16, 4)
      <3>1. f_hdr = HeaderAt(0) /\ 0 + 16 = 16
        BY <1>4 DEF WholeRead, HeaderRead
      <3>2. QED
        BY <3>1 DEF HeaderAt
    <2>2. Peek(16, 4) = PartOf(buffer, 16, 4)
      BY <1>3, <1>5 DEF Peek, PartOf
    <2>3. QED
      BY <1>2, <2>1, <2>2 DEF BmgStart
  <1> HIDE DEF o
  <1>8. ASSUME NEW a \in Nat, NEW m \in Nat, a + m <= Len(buffer)
        PROVE  Peek(a, m) = PartOf(buffer, a, m)
    BY <1>3, <1>8 DEF Peek, PartOf
  <1>9. /\ Int32(BmgSizeField) = n /\ U32(BmgSizeField) = n
        /\ BmgSizeField[1] < 128 /\ n \in Int
    <2>1. Peek(o + 8, 4) = PartOf(buffer, o + 8, 4)
      BY <1>2, <1>6, <1>8
    <2>2. Int32(BmgSizeField) = n
      BY <1>7, <2>1 DEF BmgSizeField, BmgSizeIn, o
    <2>3. BmgSizeField \in Bytes(4)
      BY PartTypes DEF ArchiveInv
    <2> HIDE DEF n
    <2>4. n >= 0 /\ n \in Int
      BY <1>2, <2>2, <2>3, WordType
    <2>5. QED
      BY <2>2, <2>3, <2>4, WordType
  <1> HIDE DEF n
  <1>10. n \in Int /\ n >= 0 /\ IntMax \in Int /\ o + n <= IntMax
         /\ o + n + 4 <= IntMax /\ o + n + 4 <= Len(buffer)
    BY <1>2, <1>3, <1>6, <1>9 DEF IntMax
  <1>11. TextStart = o + n
    <2>1. f_hdr.bmg_offset \in Bytes(4) /\ BmgSizeField \in Bytes(4)
      BY PartTypes DEF ArchiveInv
    <2>2. Int32(f_hdr.bmg_offset) = o
      BY <1>7 DEF BmgStart
    <2>3. SumInt32(f_hdr.bmg_offset, BmgSizeField) = o + n
      BY <1>6, <1>9, <1>10, <2>1, <2>2, SumInRange
    <2>4. QED
      BY <2>3 DEF TextStart
  <1>12. PartsInBuffer
    BY <1>2, <1>4, <1>6, <1>7, <1>10, <1>11, <1>3 DEF PartsInBuffer
  <1>13. BmgMagic
    <2>1. Peek(o, 4) \o Peek(o + 4, 4) = BMG_MAGIC_1 \o BMG_MAGIC_2
      <3>1. 4 \in Nat /\ 4 + 4 = 8
        OBVIOUS
      <3>2. Peek(o, 4) \o Peek(o + 4, 4) = Peek(o, 4 + 4)
        BY <1>3, <1>6, <3>1, PeekConcat, Zenon
      <3>3. Peek(o, 8) = PartOf(buffer, o, 8)
        BY <1>2, <1>3, <1>6, <1>8
      <3>4. QED
        BY <1>2, <3>1, <3>2, <3>3
    <2>2. /\ Peek(o, 4) \in Bytes(4) /\ Peek(o + 4, 4) \in Bytes(4)
          /\ BMG_MAGIC_1 \in Bytes(4) /\ BMG_MAGIC_2 \in Bytes(4)
      <3>1. o + 4 \in Nat /\ 4 \in Nat
        BY <1>6
      <3>2. Peek(o, 4) \in Bytes(4) /\ Peek(o + 4, 4) \in Bytes(4)
        BY <1>3, <1>6, <3>1, PeekType, Zenon
      <3>3. BMG_MAGIC_1 \in Bytes(4) /\ BMG_MAGIC_2 \in Bytes(4)
        BY DEF BMG_MAGIC_1, BMG_MAGIC_2, Bytes, Byte
      <3>4. QED
        BY <3>2, <3>3
    <2>3. Peek(o, 4) = BMG_MAGIC_1 /\ Peek(o + 4, 4) = BMG_MAGIC_2
      <3>1. 4 \in Nat
        OBVIOUS
      <3>2. PICK p, q : p = Peek(o, 4) /\ q = Peek(o + 4, 4)
        OBVIOUS
      <3>3. PICK r, t : r = BMG_MAGIC_1 /\ t = BMG_MAGIC_2
        OBVIOUS
      <3>4. /\ p \in Bytes(4) /\ q \in Bytes(4) /\ r \in Bytes(4) /\ t \in Bytes(4)
            /\ p \o q = r \o t
        BY <2>1, <2>2, <3>2, <3>3, Zenon
      <3>5. p = r /\ q = t
        BY <3>1, <3>4, SplitAlike, ZenonT(40)
      <3>6. QED
        BY <3>2, <3>3, <3>5, Zenon
    <2>4. QED
      BY <1>7, <2>3, Zenon DEF BmgMagic
  <1>14. TextMagic
    <2>1. Peek(o + n, 4) = PartOf(buffer, o + n, 4)
      BY <1>3, <1>6, <1>8, <1>10
    <2>2. QED
      BY <1>2, <1>11, <2>1 DEF TextMagic
  <1>15. BmgPart = PartOf(buffer, o, n)
    BY <1>2, <1>3, <1>6, <1>7, <1>8, <1>9, <1>10 DEF BmgPart
  <1>16. TxtPart = SubSeq(buffer, o + n + 1, Len(buffer))
    <2> DEFINE a == o + n
               m == Len(buffer) - a
    <2>1. a \in Nat /\ m \in Nat /\ a + m = Len(buffer)
      BY <1>2, <1>3, <1>6, <1>10
    <2>2. TxtPart = Peek(a, m)
      BY <1>11 DEF TxtPart
    <2> HIDE DEF a, m
    <2>3. Peek(a, m) = SubSeq(buffer, a + 1, Len(buffer))
      BY <1>8, <2>1 DEF PartOf
    <2>4. QED
      BY <2>2, <2>3 DEF a
  <1>17. /\ Kinds[buffer].pul = buffer
         /\ Kinds[buffer].bmg = BmgPart /\ Kinds[buffer].txt = TxtPart
    BY <1>1, <1>15, <1>16
  <1>18. BmgStart = offset /\ U32(BmgSizeField) >= 12
    BY <1>2, <1>6, <1>7, <1>9
  <1>19. QED
    BY <1>12, <1>13, <1>14, <1>17, <1>18


(* What the parts are, and the whole, told apart by their first bytes and  *)
(* their lengths.                                                          *)
LEMMA PartKinds ==
  ASSUME ArchiveInv, pc \in {"read"} \cup Writing, Sound
  PROVE  /\ KindOf(buffer) = "pul"
         /\ \A f : KindOf(f) = "bmg" <=> f = BmgPart
         /\ \A f : KindOf(f) = "txt" <=> f = TxtPart
  <1>1. /\ PartsInBuffer /\ BmgStart = offset /\ BmgMagic /\ TextMagic
        /\ U32(BmgSizeField) >= 12
        /\ Kinds[buffer].pul = buffer
        /\ Kinds[buffer].bmg = BmgPart /\ Kinds[buffer].txt = TxtPart
    BY SoundParts
  <1>2. /\ BmgStart \in Int /\ U32(BmgSizeField) \in Nat /\ TextStart \in Int
        /\ Len(buffer) \in Nat /\ buffer \in Seq(Byte) /\ memory \in Memory
    BY PartTypes DEF ArchiveInv, StructsOK
  <1>3. /\ BmgStart >= 0 /\ TextStart >= BmgStart + 12 /\ TextStart + 4 <= Len(buffer)
        /\ TextStart = BmgStart + U32(BmgSizeField)
    BY <1>1, PartsFit DEF PartsInBuffer, ArchiveInv
  <1> DEFINE n == U32(BmgSizeField)
             m == Len(buffer) - TextStart
  <1>4. /\ n \in Nat /\ m \in Nat /\ n >= 1 /\ m >= 1
        /\ n # Len(buffer) /\ m # Len(buffer)
    BY <1>1, <1>2, <1>3
  <1>5. BmgPart = Peek(BmgStart, n) /\ TxtPart = Peek(TextStart, m)
    BY DEF BmgPart, TxtPart
  <1> HIDE DEF n, m
  <1>6. Len(BmgPart) = n /\ Len(TxtPart) = m
    BY <1>2, <1>4, <1>5, PeekAnywhere
  <1>7. BmgPart # buffer /\ TxtPart # buffer
    BY <1>4, <1>6
  <1>8. BmgPart # TxtPart
    <2>1. BmgPart[1] = Peek(BmgStart, 4)[1] /\ TxtPart[1] = Peek(TextStart, 4)[1]
      BY <1>4, <1>5 DEF Peek
    <2>2. /\ Peek(BmgStart, 4) = <<77, 69, 83, 71>>
          /\ Peek(TextStart, 4) = <<70, 73, 76, 69>>
      BY <1>1 DEF BmgMagic, TextMagic, BMG_MAGIC_1, TEXT_MAGIC
    <2>3. QED
      BY <2>1, <2>2
  <1>9. ASSUME NEW f
        PROVE  KindOf(f) = IF f = buffer THEN "pul" ELSE IF f = BmgPart THEN "bmg"
                           ELSE IF f = TxtPart THEN "txt" ELSE "other"
    BY <1>1, Zenon DEF KindOf, Sound
  <1>10. QED
    BY <1>7, <1>8, <1>9

(***************************************************************************)
(* The steps.                                                              *)
(***************************************************************************)
(* A step after which the process has ended, whatever the call, and which  *)
(* changed no file.                                                        *)
LEMMA DeadStep ==
  ASSUME UNCHANGED <<buffer, disk, full>>, pc' \in {"fault", "crashed"},
         call' = call \/ call' \in Requests
  PROVE  Store!Die
  <1>1. KindMap' = KindMap /\ Sound' = Sound
    BY KindsStay
  <1>2. Status' = "dead"
    BY DEF Status, Writing
  <1>3. call' \in Requests \cup {call}
    OBVIOUS
  <1>4. QED
    BY <1>1, <1>2, <1>3 DEF Store!Die, KindMap, Sound, Status

(* read_file changes nothing, or ends the process.                         *)
LEMMA LoadIsStoreStep ==
  ASSUME ArchiveInv, Load
  PROVE  [Store!StoreNext]_(Store!storeVars)
  <1>1. /\ pc \in ReadLabels /\ pc' \in ReadLabels \cup {"read", "fault"}
        /\ UNCHANGED <<buffer, disk, full, call, done>>
    <2>1. pc \in ReadLabels /\ UNCHANGED <<buffer, disk, full, call, done>>
      BY DEF Load, fileVars, ReaderNext, ReadLabels, ReadFileHeader, ReadFileInfo,
             ReadCupsHeader, AllocTracks, ReadTrackEntry, AllocAlphabet,
             ReadAlphabetEntry, Return
    <2>2. ReaderTypeOK
      BY <2>1 DEF ArchiveInv, StructsOK, ReaderTypeOK, ReadLabels
    <2>3. ReaderTypeOK'
      BY <2>2, TypeNext DEF Load
    <2>4. QED
      BY <2>1, <2>3 DEF ReaderTypeOK, ReadLabels
  <1>2. CASE pc' = "fault"
    BY <1>1, <1>2, DeadStep DEF Store!StoreNext
  <1>3. CASE pc' # "fault"
    <2>1. KindMap' = KindMap /\ Sound' = Sound
      BY <1>1, KindsStay
    <2>2. done = << >>
      BY <1>1 DEF ArchiveInv, CallsInStep, CallKept
    <2>3. Status = "well" /\ Status' = "well"
      BY <1>1, <1>3, <2>2 DEF Status, ReadLabels, Writing
    <2>4. QED
      BY <1>1, <2>1, <2>3 DEF Store!storeVars, KindMap, Sound, Status
  <1>4. QED
    BY <1>2, <1>3

(* Between two calls the last one has ended well or badly.                 *)
LEMMA IdleBetweenCalls ==
  ASSUME pc = "read"
  PROVE  Store!Idle
  BY DEF Store!Idle, Writing

(* fopen begins a call, or ends the process.                               *)
LEMMA OpenIsStoreStep ==
  ASSUME ArchiveInv, NEW c \in Requests, NEW op, NEW label \in Writing,
         MayCall(op, c), Open(c.path, label)
  PROVE  Store!StoreNext
  <1>1. /\ pc = "read" /\ call' = c /\ buffer' = buffer /\ full' = full
        /\ done' = done
    BY DEF MayCall, Open, structKept
  <1>2. CASE pc' = "fault" /\ UNCHANGED disk
    BY <1>1, <1>2, DeadStep DEF Store!StoreNext
  <1>3. CASE /\ pc' = label
             /\ disk' = [p \in DOMAIN disk \cup {c.path} |->
                           IF p = c.path THEN << >> ELSE disk[p]]
    <2>1. PICK p \in Paths : p = c.path
      BY CallsAssumption DEF Calls
    <2>2. /\ DOMAIN disk' = DOMAIN disk \cup {p}
          /\ \A q \in DOMAIN disk : q # p => disk'[q] = disk[q]
      BY <1>3, <2>1
    <2>3. Store!Changes(p)
      BY <1>1, <2>2, PathChanges
    <2>4. Sound' = Sound /\ Status' = "busy"
      BY <1>1, <1>3, KindStable DEF Status
    <2>5. Store!Begin(c)
      BY <1>1, <2>1, <2>3, <2>4, IdleBetweenCalls DEF Store!Begin, Sound, Status
    <2>6. QED
      BY <2>5 DEF Store!StoreNext
  <1>4. QED
    BY <1>2, <1>3 DEF Open


(* An export gives up only on a file that cannot be taken apart.           *)
LEMMA RejectIsStoreStep ==
  ASSUME ArchiveInv, NEW c \in Requests, NEW op \in {"export_bmg", "export_txt"},
         NEW what, MayCall(op, c), Reject(what), ~BmgMagic \/ ~TextMagic
  PROVE  Store!StoreNext
  <1>1. /\ pc = "read" /\ pc' = "read" /\ c.op = op /\ call' = c
        /\ UNCHANGED <<buffer, disk, full>>
        /\ done' = Append(done, [call |-> c, ok |-> FALSE])
    BY DEF MayCall, Reject, Returned, structKept
  <1>2. ~Sound
    BY <1>1, SoundParts
  <1>3. KindMap' = KindMap /\ Sound' = Sound
    BY <1>1, KindsStay
  <1>4. Status' = "badly"
    <2>1. done \in Seq([call : Calls, ok : BOOLEAN])
      BY DEF ArchiveInv, ArchiveTypeOK
    <2>2. done' # << >> /\ ~done'[Len(done')].ok
      BY <1>1, <2>1
    <2>3. QED
      BY <1>1, <2>2 DEF Status, Writing
  <1>5. Store!Refuse(c)
    BY <1>1, <1>2, <1>3, <1>4, IdleBetweenCalls
       DEF Store!Refuse, Store!Exporting, KindMap, Sound, Status
  <1>6. QED
    BY <1>5 DEF Store!StoreNext

(* The first step of each of the three calls.                              *)
LEMMA BeginIsStoreStep ==
  ASSUME ArchiveInv, NEW c \in Requests,
         ExportBmg(c) \/ ExportTxt(c) \/ WriteFile(c)
  PROVE  Store!StoreNext
  <1>1. ASSUME NEW op, NEW o, NEW n, MayCall(op, c), Overrun(o, n)
        PROVE  Store!StoreNext
    <2>1. UNCHANGED <<buffer, disk, full>> /\ pc' = "fault" /\ call' = c
      BY <1>1 DEF MayCall, Overrun, structKept
    <2>2. QED
      BY <2>1, DeadStep DEF Store!StoreNext
  <1>2. /\ "export_bmg" \in Writing /\ "export_txt" \in Writing
        /\ "w_header" \in Writing
    BY DEF Writing
  <1>3. CASE ExportBmg(c)
    <2>1. MayCall("export_bmg", c)
      BY <1>3 DEF ExportBmg
    <2>2. CASE Overrun(BmgStart, BmgReads)
      BY <1>1, <2>1, <2>2
    <2>3. CASE ~BmgMagic /\ Reject("BMG")
      BY <2>1, <2>3, RejectIsStoreStep
    <2>4. CASE Open(c.path, "export_bmg")
      BY <1>2, <2>1, <2>4, OpenIsStoreStep
    <2>5. QED
      BY <1>3, <2>2, <2>3, <2>4 DEF ExportBmg
  <1>4. CASE ExportTxt(c)
    <2>1. MayCall("export_txt", c)
      BY <1>4 DEF ExportTxt
    <2>2. CASE Overrun(BmgStart, BmgReads)
      BY <1>1, <2>1, <2>2
    <2>3. CASE Overrun(TextStart, 4)
      BY <1>1, <2>1, <2>3
    <2>4. CASE ~BmgMagic /\ Reject("BMG")
      BY <2>1, <2>4, RejectIsStoreStep
    <2>5. CASE ~TextMagic /\ Reject("FILE")
      BY <2>1, <2>5, RejectIsStoreStep
    <2>6. CASE Open(c.path, "export_txt")
      BY <1>2, <2>1, <2>6, OpenIsStoreStep
    <2>7. QED
      BY <1>4, <2>2, <2>3, <2>4, <2>5, <2>6 DEF ExportTxt
  <1>5. CASE WriteFile(c)
    BY <1>2, <1>5, OpenIsStoreStep DEF WriteFile
  <1>6. QED
    BY <1>3, <1>4, <1>5

(* fwrite changes the path of the call that makes it.                      *)
LEMMA PutIsStoreStep ==
  ASSUME ArchiveInv, pc \in Writing, NEW bytes \in Seq(Byte),
         NEW label \in Writing, Put(bytes, label)
  PROVE  Store!StoreNext
  <1>1. /\ pc' = label /\ call' = call /\ full' = full /\ buffer' = buffer
    BY DEF Put, structKept
  <1>2. call.path \in Paths /\ call.path \in DOMAIN disk
    BY DEF ArchiveInv, CallsInStep, CallKept, Calls
  <1>3. PICK p \in Paths : p = call.path
    BY <1>2
  <1>4. /\ DOMAIN disk' = DOMAIN disk \cup {p}
        /\ \A q \in DOMAIN disk : q # p => disk'[q] = disk[q]
    BY <1>2, <1>3, PutKeepsFiles
  <1>5. Store!Changes(p)
    BY <1>1, <1>4, PathChanges
  <1>6. Sound' = Sound /\ Status = "busy" /\ Status' = "busy"
    BY <1>1, KindStable DEF Status
  <1>7. Store!Proceed
    BY <1>1, <1>3, <1>5, <1>6 DEF Store!Proceed, Store!Changes, Sound, Status
  <1>8. QED
    BY <1>7 DEF Store!StoreNext

(* The steps of write_file put something on its stream, all of them.       *)
LEMMA WriterPuts ==
  ASSUME ArchiveInv,
         \/ WriteFileHeader \/ WriteInfo \/ WriteCups
         \/ WriteTrackEntry \/ WriteTracksDone \/ WriteAlphabetEntry
         \/ WriteBmg \/ WriteTxt
  PROVE  /\ pc \in Writing
         /\ \E bytes \in Seq(Byte), label \in Writing : Put(bytes, label)
  <1>1. /\ pc \in Sections \cup {"w_txt"} /\ "w_info" \in Writing
        /\ "w_cups" \in Writing /\ "w_tracks" \in Writing
        /\ "w_alphabet" \in Writing /\ "w_txt" \in Writing /\ "close" \in Writing
    BY DEF WriteFileHeader, WriteInfo, WriteCups, WriteTrackEntry, WriteTracksDone,
           WriteAlphabetEntry, WriteBmg, WriteTxt, Sections, Writing
  <1>2. /\ pc \in Writing /\ StructsOK /\ i \in Nat /\ ReadTracks \in Nat
        /\ Len(t_arr) = ReadTracks /\ Len(alphabet_table) = ReadTracks
    BY <1>1, WriterFacts
  <1>3. /\ WrittenHeader(f_hdr) \in Seq(Byte)
        /\ WrittenInfo(i_hdr, i_fld) \in Seq(Byte)
        /\ WrittenCups(c_hdr) \in Seq(Byte)
    BY <1>2, WrittenTypes
  <1>4. CASE WriteFileHeader \/ WriteInfo \/ WriteCups
    BY <1>1, <1>2, <1>3, <1>4 DEF WriteFileHeader, WriteInfo, WriteCups
  <1>5. CASE WriteTrackEntry
    <2>1. i + 1 \in 1 .. Len(t_arr) /\ Put(WrittenTrack(t_arr[i + 1]), "w_tracks")
      BY <1>2, <1>5, TracksAgree DEF WriteTrackEntry
    <2>2. WrittenTrack(t_arr[i + 1]) \in Seq(Byte)
      <3>1. t_arr[i + 1] \in TrackEntry
        BY <1>2, <2>1 DEF StructsOK
      <3>2. QED
        BY <1>2, <3>1, WrittenTypes
    <2>3. QED
      BY <1>1, <1>2, <2>1, <2>2
  <1>6. CASE WriteTracksDone
    <2>1. << >> \in Seq(Byte) /\ Put(<< >>, "w_alphabet")
      BY <1>6 DEF WriteTracksDone
    <2>2. QED
      BY <1>1, <1>2, <2>1
  <1>7. CASE WriteAlphabetEntry
    <2>1. /\ i + 1 \in 1 .. Len(alphabet_table)
          /\ Put(alphabet_table[i + 1], "w_alphabet")
      BY <1>2, <1>7, TracksAgree DEF WriteAlphabetEntry
    <2>2. alphabet_table[i + 1] \in Seq(Byte)
      <3>1. alphabet_table[i + 1] \in Bytes(2) /\ 2 \in Nat
        BY <1>2, <2>1 DEF StructsOK
      <3>2. QED
        BY <3>1, BytesAreSeq
    <2>3. QED
      BY <1>1, <1>2, <2>1, <2>2
  <1>8. CASE WriteBmg
    <2>1. PutFile(call.bmg, "w_txt")
      BY <1>8 DEF WriteBmg
    <2>2. \E bytes \in Seq(Byte) : Put(bytes, "w_txt")
      BY <2>1, FilePut
    <2>3. QED
      BY <1>1, <1>2, <2>2
  <1>9. CASE WriteTxt
    <2>1. PutFile(call.txt, "close")
      BY <1>9 DEF WriteTxt
    <2>2. \E bytes \in Seq(Byte) : Put(bytes, "close")
      BY <2>1, FilePut
    <2>3. QED
      BY <1>1, <1>2, <2>2
  <1>10. QED
    BY <1>4, <1>5, <1>6, <1>7, <1>8, <1>9

(* So each of them is a step of the call under way.                        *)
LEMMA WriterIsStoreStep ==
  ASSUME ArchiveInv,
         \/ WriteFileHeader \/ WriteInfo \/ WriteCups
         \/ WriteTrackEntry \/ WriteTracksDone \/ WriteAlphabetEntry
         \/ WriteBmg \/ WriteTxt
  PROVE  Store!StoreNext
  BY WriterPuts, PutIsStoreStep


(* The one fwrite of an export is a step of its call, or its end with the  *)
(* process.                                                                *)
LEMMA ExportIsStoreStep ==
  ASSUME ArchiveInv, WriteExport
  PROVE  Store!StoreNext
  <1>1. /\ pc \in Writing /\ "close" \in Writing /\ StructsOK
    BY DEF WriteExport, Writing, ArchiveInv
  <1>2. /\ BmgStart \in Int /\ TextStart \in Int /\ Len(buffer) \in Nat
        /\ U32(BmgSizeField) \in Nat /\ Int32(BmgSizeField) \in Int
    BY <1>1, PartTypes DEF StructsOK
  <1>3. ASSUME NEW start \in Int, NEW m \in Nat, Put(Peek(start, m), "close")
        PROVE  Store!StoreNext
    <2>1. Peek(start, m) \in Seq(Byte)
      BY <1>1, PeekAnywhere DEF StructsOK
    <2>2. QED
      BY <1>1, <1>3, <2>1, PutIsStoreStep
  <1>4. ASSUME pc' = "fault", UNCHANGED <<structKept, fileVars>>
        PROVE  Store!StoreNext
    <2>1. UNCHANGED <<buffer, disk, full, call>>
      BY <1>4 DEF structKept, fileVars
    <2>2. QED
      BY <1>4, <2>1, DeadStep DEF Store!StoreNext
  <1>5. ASSUME NEW start \in Int, NEW n \in Int, NEW fits, NEW claimed \in Int,
               PutBuffer(start, n, fits, claimed), fits => n >= 0
        PROVE  Store!StoreNext
    <2>1. \/ \E m \in Nat : Put(Peek(start, m), "close")
          \/ pc' = "fault" /\ UNCHANGED <<structKept, fileVars>>
      BY <1>1, <1>5, BufferPut
    <2>2. QED
      BY <1>3, <1>4, <1>5, <2>1
  <1>6. CASE WriteBmgPart
    <2> DEFINE n == U32(BmgSizeField)
    <2>1. n \in Int /\ n >= 0
      BY <1>2
    <2>2. PutBuffer(BmgStart, n, BmgFits, Int32(BmgSizeField))
      BY <1>6 DEF WriteBmgPart
    <2> HIDE DEF n
    <2>3. QED
      BY <1>2, <1>5, <2>1, <2>2
  <1>7. CASE WriteTxtPart
    <2> DEFINE n == Len(buffer) - TextStart
    <2>1. n \in Int /\ (TextFits => n >= 0)
      BY <1>2 DEF TextFits
    <2>2. PutBuffer(TextStart, n, TextFits, n)
      BY <1>7 DEF WriteTxtPart
    <2> HIDE DEF n
    <2>3. QED
      BY <1>2, <1>5, <2>1, <2>2
  <1>8. QED
    BY <1>6, <1>7 DEF WriteExport

(* A call that returns having complained of nothing, with space on the     *)
(* disk, has made what it is named for.                                    *)
LEMMA CallMakes ==
  ASSUME ArchiveInv, Close, Sound, complaints = {}, ~full
  PROVE  Store!Made(call)
  <1>1. /\ pc = "close" /\ UNCHANGED structKept /\ call' = call
        /\ call \in Calls /\ call.path \in DOMAIN disk
        /\ disk'[call.path] = stream /\ DOMAIN disk' = DOMAIN disk
    BY CloseFacts
  <1>2. /\ PartsInBuffer /\ TextFits /\ BmgStart = offset /\ StructsOK
        /\ KindOf(buffer) = "pul"
        /\ \A f : KindOf(f) = "bmg" <=> f = BmgPart
        /\ \A f : KindOf(f) = "txt" <=> f = TxtPart
    BY <1>1, SoundParts, PartKinds, PartsFit DEF ArchiveInv, Writing
  <1>3. /\ call.path \in Paths /\ call.bmg \in Paths /\ call.txt \in Paths
    BY <1>1 DEF Calls
  <1>4. KindMap'[call.path] = KindOf(stream)
    <2>1. PICK p \in Paths : p = call.path
      BY <1>3
    <2>2. KindMap'[p] = KindOf(disk[p])'
      BY <1>1, <2>1 DEF KindMap
    <2>3. KindOf(disk[p])' = KindOf(stream)
      BY <1>1, <2>1 DEF KindOf, structKept
    <2>4. QED
      BY <2>1, <2>2, <2>3
  <1>5. StreamInStep
    BY DEF ArchiveInv, CallsInStep
  <1>6. call.op = "export_bmg" => KindMap'[call.path] = "bmg"
    BY <1>1, <1>2, <1>4, <1>5 DEF StreamInStep
  <1>7. call.op = "export_txt" => KindMap'[call.path] = "txt"
    BY <1>1, <1>2, <1>4, <1>5 DEF StreamInStep
  <1>8. ASSUME call.op = "write_file", call.path \notin {call.bmg, call.txt},
               KindMap[call.bmg] = "bmg", KindMap[call.txt] = "txt"
        PROVE  KindMap'[call.path] = "pul"
    <2>1. disk[call.bmg] = BmgPart /\ disk[call.txt] = TxtPart
      <3>1. KindOf(disk[call.bmg]) = "bmg" /\ KindOf(disk[call.txt]) = "txt"
        BY <1>3, <1>8 DEF KindMap
      <3>2. QED
        BY <1>2, <3>1
    <2>2. reported = {}
      BY <1>2 DEF PartsInBuffer
    <2>3. stream = (Peek(0, offset) \o disk[call.bmg]) \o disk[call.txt]
      BY <1>1, <1>5, <1>8, <2>2 DEF StreamInStep
    <2>4. stream = buffer
      BY <1>2, <2>1, <2>3, PartsJoin
    <2>5. QED
      BY <1>2, <1>4, <2>4
  <1>9. QED
    BY <1>6, <1>7, <1>8 DEF Store!Made, KindMap

(* fclose ends a call, well if it complained of nothing and there was      *)
(* space, and an export has nothing to complain of.                        *)
LEMMA CloseIsStoreStep ==
  ASSUME ArchiveInv, Close
  PROVE  Store!StoreNext
  <1>1. /\ pc = "close" /\ pc' = "read" /\ call' = call /\ full' = full
        /\ buffer' = buffer /\ Returned(call, complaints = {})
        /\ call \in Calls /\ call.path \in DOMAIN disk
        /\ DOMAIN disk' = DOMAIN disk
        /\ \A p \in DOMAIN disk : p # call.path => disk'[p] = disk[p]
    BY CloseFacts DEF structKept
  <1>2. PICK p \in Paths : p = call.path
    BY <1>1 DEF Calls
  <1>3. Store!Changes(p)
    BY <1>1, <1>2, PathChanges
  <1>4. Sound' = Sound
    BY <1>1, KindStable
  <1>5. /\ Status = "busy"
        /\ Status' = IF complaints = {} /\ ~full THEN "well" ELSE "badly"
    <2> DEFINE e == [call |-> call, ok |-> complaints = {}]
    <2>1. done' = Append(done, e) /\ (e.ok <=> complaints = {})
      BY <1>1, Zenon DEF Returned
    <2> HIDE DEF e
    <2>2. done \in Seq([call : Calls, ok : BOOLEAN])
      BY DEF ArchiveInv, ArchiveTypeOK
    <2>3. done' # << >> /\ done'[Len(done')] = e
      BY <2>1, <2>2
    <2>4. QED
      BY <1>1, <2>1, <2>3 DEF Status, Writing
  <1>6. CASE complaints = {} /\ ~full
    <2>1. Sound => Store!Made(call)
      BY <1>6, CallMakes
    <2>2. Store!Complete
      BY <1>1, <1>2, <1>3, <1>4, <1>5, <1>6, <2>1
         DEF Store!Complete, Store!Changes, Store!Made, Sound, Status
    <2>3. QED
      BY <2>2 DEF Store!StoreNext
  <1>7. CASE ~(complaints = {} /\ ~full)
    <2>1. Store!Exporting(call) => full
      BY <1>1, <1>7 DEF Store!Exporting, ArchiveInv, CallsInStep, CallKept, Writing
    <2>2. Store!Fail
      BY <1>1, <1>2, <1>3, <1>4, <1>5, <1>7, <2>1
         DEF Store!Fail, Store!Changes, Store!Exporting, Sound, Status
    <2>3. QED
      BY <2>2 DEF Store!StoreNext
  <1>8. QED
    BY <1>6, <1>7

(* So do a crash, which ends the process, and a disk that fills up.        *)
LEMMA LossIsStoreStep ==
  ASSUME ArchiveInv, Crash \/ DiskFills
  PROVE  Store!StoreNext
  <1>1. CASE Crash
    <2>1. UNCHANGED <<buffer, disk, full, call>> /\ pc' = "crashed"
      BY <1>1 DEF Crash, structKept, fileVars
    <2>2. QED
      BY <2>1, DeadStep DEF Store!StoreNext
  <1>2. CASE DiskFills
    <2>1. /\ pc \in Writing /\ pc' = pc /\ full' = TRUE
          /\ buffer' = buffer /\ disk' = disk /\ call' = call
      BY <1>2 DEF DiskFills, structKept
    <2>2. KindMap' = KindMap /\ Sound' = Sound
      BY <2>1, KindsStay
    <2>3. Status = "busy" /\ Status' = "busy"
      BY <2>1 DEF Status
    <2>4. Store!DiskIsFull
      BY <2>1, <2>2, <2>3 DEF Store!DiskIsFull, KindMap, Sound, Status
    <2>5. QED
      BY <2>4 DEF Store!StoreNext
  <1>3. QED
    BY <1>1, <1>2

(* The program starts where PulStore does.                                 *)
LEMMA StoreBegins == ArchiveInit => Store!StoreInit
  <1> SUFFICES ASSUME ArchiveInit PROVE Store!StoreInit
    OBVIOUS
  <1>1. KindMap \in [Paths -> Store!Kinds]
    BY KindOfType DEF KindMap, Store!Kinds
  <1>2. Sound \in BOOLEAN
    BY DEF Sound
  <1>3. /\ pc = "header" /\ done = << >> /\ full = FALSE
        /\ call = [op |-> "none"]
    BY DEF ArchiveInit, ReaderInit
  <1>4. Status = "well"
    BY <1>3 DEF Status, Writing
  <1>5. QED
    BY <1>1, <1>2, <1>3, <1>4 DEF Store!StoreInit, KindMap, Sound, Status

(* Every behaviour of the struct and the files under read_file, the        *)
(* exports and write_file is a behaviour of PulStore: a call touches its   *)
(* own path alone, one that ends well has made what it is named for, and   *)
(* an export of a file that can be taken apart fails only for want of      *)
(* space.                                                                  *)
THEOREM ArchiveKeepsStore == ArchiveSpec => KeepsStore
  <1>1. ArchiveInv /\ [ArchiveNext]_archiveVars
          => [Store!StoreNext]_(Store!storeVars)
    <2> SUFFICES ASSUME ArchiveInv, [ArchiveNext]_archiveVars
                 PROVE  [Store!StoreNext]_(Store!storeVars)
      OBVIOUS
    <2>1. CASE UNCHANGED archiveVars
      <3>1. /\ UNCHANGED <<buffer, disk, full, call, done>> /\ pc' = pc
        BY <2>1 DEF archiveVars, readerVars, fileVars
      <3>2. KindMap' = KindMap /\ Sound' = Sound
        BY <3>1, KindsStay
      <3>3. Status' = Status
        BY <3>1 DEF Status
      <3>4. QED
        BY <3>1, <3>2, <3>3 DEF Store!storeVars, KindMap, Sound, Status
    <2>2. CASE Load
      BY <2>2, LoadIsStoreStep
    <2>3. ASSUME NEW c \in Requests, ExportBmg(c) \/ ExportTxt(c) \/ WriteFile(c)
          PROVE  Store!StoreNext
      BY <2>3, BeginIsStoreStep
    <2>4. CASE \/ WriteFileHeader \/ WriteInfo \/ WriteCups
               \/ WriteTrackEntry \/ WriteTracksDone \/ WriteAlphabetEntry
               \/ WriteBmg \/ WriteTxt
      BY <2>4, WriterIsStoreStep
    <2>5. CASE WriteExport
      BY <2>5, ExportIsStoreStep
    <2>6. CASE Close
      BY <2>6, CloseIsStoreStep
    <2>7. CASE Crash \/ DiskFills
      BY <2>7, LossIsStoreStep
    <2>8. QED
      BY <2>1, <2>2, <2>3, <2>4, <2>5, <2>6, <2>7 DEF ArchiveNext
  <1>2. QED
    BY <1>1, StoreBegins, ArchiveInvariant, PTL
       DEF ArchiveSpec, KeepsStore, Store!StoreSpec
==============================================================================
