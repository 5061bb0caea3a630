---------------------------- MODULE PulReaderProofs --------------------------
(***************************************************************************)
(* Proofs about PulReader, for every set of images, of memory bytes and of  *)
(* stack remains, and so for every number of cups.                         *)
(***************************************************************************)
EXTENDS PulReader, TLAPS

(***************************************************************************)
(* The two ways of rounding the number of cups up to an even one agree:    *)
(* the expression of read_file and the description of the format.          *)
(***************************************************************************)
LEMMA TracksRounded ==
  \A n \in Nat : 4 * (n + (n % 2)) = 8 * ((n + 1) \div 2)
  OBVIOUS

(* Even outside the buffer, what is read is a byte. *)
LEMMA OutsideType ==
  ASSUME NEW i \in Int, buffer \in Seq(Byte), memory \in Memory
  PROVE  Outside(i) \in Byte
  BY DEF Outside, Memory

(* What a read yields is as many bytes as were asked for. *)
LEMMA PeekType ==
  ASSUME NEW o \in Nat, NEW n \in Nat, buffer \in Seq(Byte), memory \in Memory
  PROVE  /\ Peek(o, n) \in Bytes(n)
         /\ Peek(o, n) \in Seq(Byte)
         /\ Len(Peek(o, n)) = n
  <1>1. \A k \in 1 .. n : o + k \in Int /\ Outside(o + k) \in Byte
    BY OutsideType
  <1>2. ASSUME NEW k \in 1 .. n
        PROVE  Peek(o, n)[k] \in Byte
    <2>1. CASE o + k \in 1 .. Len(buffer)
      BY <2>1 DEF Peek
    <2>2. CASE o + k \notin 1 .. Len(buffer)
      BY <1>1, <2>2 DEF Peek
    <2>3. QED
      BY <2>1, <2>2
  <1>3. Peek(o, n) = [k \in 1 .. n |-> Peek(o, n)[k]]
    BY DEF Peek
  <1>4. QED
    BY <1>2, <1>3 DEF Bytes

(* A read inside the buffer yields the bytes of the buffer. *)
LEMMA PeekIsSlice ==
  ASSUME NEW o \in Nat, NEW n \in Nat, buffer \in Seq(Byte), memory \in Memory,
         o + n <= Len(buffer)
  PROVE  Peek(o, n) = Slice(o, n)
  BY DEF Peek, Slice

(* Two reads in a row see what one longer read sees. *)
LEMMA PeekConcat ==
  ASSUME NEW o \in Nat, NEW n \in Nat, NEW m \in Nat,
         buffer \in Seq(Byte), memory \in Memory
  PROVE  Peek(o, n) \o Peek(o + n, m) = Peek(o, n + m)
  <1>1. /\ Peek(o, n) \in Seq(Byte) /\ Len(Peek(o, n)) = n
        /\ Peek(o + n, m) \in Seq(Byte) /\ Len(Peek(o + n, m)) = m
    BY PeekType
  <1>2. QED
    BY <1>1 DEF Peek

(***************************************************************************)
(* The structs read at offset o have their C types.                        *)
(***************************************************************************)
LEMMA StructTypes ==
  ASSUME NEW o \in Nat, buffer \in Seq(Byte), memory \in Memory
  PROVE  /\ HeaderAt(o) \in FileHeader
         /\ InfoAt(o) \in InfoHeader
         /\ FieldsAt(o) \in InfoFields
         /\ CupsAt(o) \in CupsHeader
         /\ TrackAt(o) \in TrackEntry
  <1>1. \A p, n \in Nat : Peek(p, n) \in Bytes(n)
    BY PeekType
  <1>2. HeaderAt(o) \in FileHeader
    BY <1>1 DEF HeaderAt, FileHeader, MOD_NAME_MAX
  <1>3. InfoAt(o) \in InfoHeader
    BY <1>1 DEF InfoAt, InfoHeader
  <1>4. FieldsAt(o) \in InfoFields
    BY <1>1, SMTT(30) DEF FieldsAt, InfoFields
  <1>5. CupsAt(o) \in CupsHeader
    BY <1>1 DEF CupsAt, CupsHeader
  <1>6. TrackAt(o) \in TrackEntry
    BY <1>1 DEF TrackAt, TrackEntry
  <1>7. QED
    BY <1>2, <1>3, <1>4, <1>5, <1>6

(***************************************************************************)
(* Laid out in the order of their declaration, the structs read at offset  *)
(* o are the bytes at o: no byte is skipped, read twice or misplaced.      *)
(***************************************************************************)
LEMMA StructImages ==
  ASSUME NEW o \in Nat, buffer \in Seq(Byte), memory \in Memory
  PROVE  /\ HeaderImage(HeaderAt(o)) = Peek(o, 36)
         /\ InfoImage(InfoAt(o)) = Peek(o, 12)
         /\ FieldsImage(FieldsAt(o)) = Peek(o, 68)
         /\ CupsImage(CupsAt(o)) = Peek(o, 28)
         /\ TrackImage(TrackAt(o)) = Peek(o, 8)
  <1> DEFINE Joins(a, n, b) == Peek(o, a) \o Peek(o + a, n) = Peek(o, b)
  <1>j. ASSUME NEW a \in Nat, NEW n \in Nat PROVE Joins(a, n, a + n)
    BY PeekConcat, ZenonT(40)
  <1> HIDE DEF Joins
  <1>1. Joins(4, 4, 8) BY <1>j
  <1>2. Joins(8, 4, 12) BY <1>j
  <1>3. Joins(12, 4, 16) BY <1>j
  <1>4. Joins(16, 4, 20) BY <1>j
  <1>5. Joins(20, 16, 36) BY <1>j
  <1>6. Joins(20, 1, 21) BY <1>j
  <1>7. Joins(21, 1, 22) BY <1>j
  <1>8. Joins(22, 1, 23) BY <1>j
  <1>9. Joins(23, 1, 24) BY <1>j
  <1>10. Joins(24, 1, 25) BY <1>j
  <1>11. Joins(25, 2, 27) BY <1>j
  <1>12. Joins(27, 1, 28) BY <1>j
  <1>13. Joins(28, 40, 68) BY <1>j
  <1>14. Joins(12, 2, 14) BY <1>j
  <1>15. Joins(14, 1, 15) BY <1>j
  <1>16. Joins(15, 1, 16) BY <1>j
  <1>17. Joins(16, 2, 18) BY <1>j
  <1>18. Joins(18, 2, 20) BY <1>j
  <1>19. Joins(20, 2, 22) BY <1>j
  <1>20. Joins(22, 2, 24) BY <1>j
  <1>21. Joins(24, 4, 28) BY <1>j
  <1>22. Joins(1, 1, 2) BY <1>j
  <1>23. Joins(2, 2, 4) BY <1>j
  <1>24. HeaderImage(HeaderAt(o)) = Peek(o, 36)
    BY <1>1, <1>2, <1>3, <1>4, <1>5
       DEF Joins, HeaderAt, HeaderImage, MOD_NAME_MAX
  <1>25. InfoImage(InfoAt(o)) = Peek(o, 12)
    BY <1>1, <1>2
       DEF Joins, InfoAt, InfoImage
  <1>26. FieldsImage(FieldsAt(o)) = Peek(o, 68)
    <2> DEFINE s == FieldsAt(o)
    <2>1. /\ s.room_key = Peek(o, 4)
          /\ s.prob_100cc = Peek(o + 4, 4)
          /\ s.prob_150cc = Peek(o + 8, 4)
          /\ s.wiimmfi_region = Peek(o + 12, 4)
          /\ s.track_blocking = Peek(o + 16, 4)
          /\ s.tt_trophies = Peek(o + 20, 1)
          /\ s.enable_200cc = Peek(o + 21, 1)
          /\ s.umts = Peek(o + 22, 1)
          /\ s.feather = Peek(o + 23, 1)
          /\ s.mega_tc = Peek(o + 24, 1)
          /\ s.n_cup_icons = Peek(o + 25, 2)
          /\ s.track_timer = Peek(o + 27, 1)
          /\ s.padding = Peek(o + 28, 40)
      BY DEF FieldsAt
    <2> HIDE DEF s
    <2>2. s.room_key \o s.prob_100cc \o s.prob_150cc \o s.wiimmfi_region
            \o s.track_blocking = Peek(o, 20)
      <3>1. s.room_key \o s.prob_100cc = Peek(o, 8)
        BY <2>1, <1>1 DEF Joins
      <3>2. Peek(o, 8) \o s.prob_150cc = Peek(o, 12)
        BY <2>1, <1>2 DEF Joins
      <3>3. Peek(o, 12) \o s.wiimmfi_region = Peek(o, 16)
        BY <2>1, <1>3 DEF Joins
      <3>4. Peek(o, 16) \o s.track_blocking = Peek(o, 20)
        BY <2>1, <1>4 DEF Joins
      <3>5. QED
        BY <3>1, <3>2, <3>3, <3>4
    <2>3. Peek(o, 20) \o s.tt_trophies \o s.enable_200cc \o s.umts
            \o s.feather = Peek(o, 24)
      <3>1. Peek(o, 20) \o s.tt_trophies = Peek(o, 21)
        BY <2>1, <1>6 DEF Joins
      <3>2. Peek(o, 21) \o s.enable_200cc = Peek(o, 22)
        BY <2>1, <1>7 DEF Joins
      <3>3. Peek(o, 22) \o s.umts = Peek(o, 23)
        BY <2>1, <1>8 DEF Joins
      <3>4. Peek(o, 23) \o s.feather = Peek(o, 24)
        BY <2>1, <1>9 DEF Joins
      <3>5. QED
        BY <3>1, <3>2, <3>3, <3>4
    <2>4. Peek(o, 24) \o s.mega_tc \o s.n_cup_icons = Peek(o, 27)
      BY <2>1, <1>10, <1>11 DEF Joins
    <2>5. Peek(o, 27) \o s.track_timer \o s.padding = Peek(o, 68)
      BY <2>1, <1>12, <1>13 DEF Joins
    <2>6. FieldsImage(s) = Peek(o, 68)
      BY <2>2, <2>3, <2>4, <2>5, ZenonT(40) DEF FieldsImage
    <2>7. QED
      BY <2>6 DEF s
  <1>27. CupsImage(CupsAt(o)) = Peek(o, 28)
    <2> DEFINE s == CupsAt(o)
    <2>1. /\ s.magic = Peek(o, 4)
          /\ s.version = Peek(o + 4, 4)
          /\ s.size = Peek(o + 8, 4)
          /\ s.n_ct_cups = Peek(o + 12, 2)
          /\ s.nin_track_mode = Peek(o + 14, 1)
          /\ s.padding = Peek(o + 15, 1)
          /\ s.n_trophies[1] = Peek(o + 16, 2)
          /\ s.n_trophies[2] = Peek(o + 18, 2)
          /\ s.n_trophies[3] = Peek(o + 20, 2)
          /\ s.n_trophies[4] = Peek(o + 22, 2)
          /\ s.n_variants = Peek(o + 24, 4)
      BY DEF CupsAt
    <2> HIDE DEF s
    <2>2. CupsImage(s) = Peek(o, 28)
      BY <2>1, <1>1, <1>2, <1>14, <1>15, <1>16, <1>17, <1>18, <1>19, <1>20, <1>21
         DEF Joins, CupsImage
    <2>3. QED
      BY <2>2 DEF s
  <1>28. TrackImage(TrackAt(o)) = Peek(o, 8)
    BY <1>22, <1>23, <1>1
       DEF Joins, TrackAt, TrackImage
  <1>29. QED
    BY <1>24, <1>25, <1>26, <1>27, <1>28

(* The INFO section is one run of bytes although two structs hold it. *)
LEMMA InfoSectionImage ==
  ASSUME buffer \in Seq(Byte), memory \in Memory
  PROVE  InfoImage(InfoAt(36)) \o FieldsImage(FieldsAt(48)) = Peek(36, 80)
  <1> DEFINE Joins(a, n, b) == Peek(36, a) \o Peek(36 + a, n) = Peek(36, b)
  <1>1. ASSUME NEW a \in Nat, NEW n \in Nat PROVE Joins(a, n, a + n)
    <2>1. 36 \in Nat
      OBVIOUS
    <2>2. QED
      BY <2>1, PeekConcat, ZenonT(40)
  <1> HIDE DEF Joins
  <1>2. Joins(12, 68, 80)
    BY <1>1
  <1>3. InfoImage(InfoAt(36)) = Peek(36, 12)
    BY StructImages
  <1>4. FieldsImage(FieldsAt(48)) = Peek(48, 68)
    BY StructImages
  <1>5. 36 + 12 = 48
    OBVIOUS
  <1>6. Peek(36 + 12, 68) = Peek(48, 68)
    BY <1>5
  <1>7. Peek(36, 12) \o Peek(48, 68) = Peek(36, 80)
    BY <1>2, <1>6, ZenonT(40) DEF Joins
  <1>8. QED
    BY <1>3, <1>4, <1>7, ZenonT(40)

(***************************************************************************)
(* The number of tracks that read_file computes from a cups header.        *)
(***************************************************************************)
LEMMA U16Type ==
  ASSUME NEW b \in Bytes(2)
  PROVE  U16(b) \in Nat
  <1>1. b[1] \in Nat /\ b[2] \in Nat
    BY DEF Bytes, Byte
  <1>2. \A x, y \in Nat : 256 * x + y \in Nat
    OBVIOUS
  <1>3. QED
    BY <1>1, <1>2, ZenonT(40) DEF U16

(* The number of entries that read_file reads, the rounding of the code    *)
(* resolved.                                                               *)
LEMMA ReadTracksType ==
  ASSUME c_hdr \in CupsHeader
  PROVE  /\ ReadTracks \in Nat
         /\ ReadTracks = 8 * ((U16(c_hdr.n_ct_cups) + 1) \div 2)
  <1>1. U16(c_hdr.n_ct_cups) \in Nat
    BY U16Type DEF CupsHeader
  <1>2. ReadTracks = 8 * ((U16(c_hdr.n_ct_cups) + 1) \div 2)
    BY <1>1, TracksRounded, ZenonT(40) DEF ReadTracks
  <1>3. QED
    BY <1>1, <1>2

(* It is the number that the format has for this file.                     *)
LEMMA CupsCounted ==
  ASSUME buffer \in Seq(Byte), memory \in Memory, c_hdr \in CupsHeader,
         CupsRead, Len(buffer) >= 144
  PROVE  ReadTracks = TracksIn(buffer)
  <1>1. c_hdr.n_ct_cups = Peek(128, 2)
    BY DEF CupsRead, CupsAt
  <1>2. Peek(128, 2) = SubSeq(buffer, 129, 130)
    <2>1. 128 + 2 <= Len(buffer) /\ 128 \in Nat /\ 2 \in Nat
      OBVIOUS
    <2>2. Peek(128, 2) = Slice(128, 2)
      BY <2>1, PeekIsSlice, ZenonT(40)
    <2>3. QED
      BY <2>2 DEF Slice
  <1>3. QED
    BY <1>1, <1>2, ReadTracksType DEF TracksIn

(***************************************************************************)
(* Every variable keeps its C type.                                        *)
(***************************************************************************)
LEMMA AdvanceType ==
  ASSUME NEW o \in Nat, NEW label, Advance(o, label)
  PROVE  offset' \in Nat /\ pc' \in {label, "fault"}
  BY DEF Advance

(* read_file starts with the right types, whatever the stack holds.        *)
LEMMA TypeInit == ReaderInit => ReaderTypeOK
  <1> SUFFICES ASSUME ReaderInit PROVE ReaderTypeOK
    OBVIOUS
  <1>1. buffer \in Seq(Byte) /\ memory \in Memory
    BY ImagesAssumption, MemoryAssumption DEF ReaderInit
  <1>2. /\ f_hdr \in FileHeader /\ i_hdr \in InfoHeader
        /\ i_fld \in InfoFields /\ c_hdr \in CupsHeader
    <2>1. PICK stack \in StackStructs :
            /\ f_hdr = stack.f_hdr /\ i_hdr = stack.i_hdr
            /\ i_fld = stack.i_fld /\ c_hdr = stack.c_hdr
      BY DEF ReaderInit
    <2>2. stack \in PulStruct
      BY StackAssumption
    <2>3. QED
      BY <2>1, <2>2 DEF PulStruct
  <1>3. QED
    BY <1>1, <1>2 DEF ReaderInit, ReaderTypeOK

(* No step of read_file leaves the types.                                  *)
LEMMA TypeNext == ReaderTypeOK /\ [ReaderNext]_readerVars => ReaderTypeOK'
  <1> SUFFICES ASSUME ReaderTypeOK, [ReaderNext]_readerVars
               PROVE  ReaderTypeOK'
    OBVIOUS
  <1>1. \A o, n \in Nat : Peek(o, n) \in Bytes(n)
    BY PeekType DEF ReaderTypeOK
  <1>2. \A o \in Nat : /\ HeaderAt(o) \in FileHeader
                      /\ InfoAt(o) \in InfoHeader
                      /\ FieldsAt(o) \in InfoFields
                      /\ CupsAt(o) \in CupsHeader
                      /\ TrackAt(o) \in TrackEntry
    BY StructTypes DEF ReaderTypeOK
  <1>3. ReadTracks \in Nat
    BY ReadTracksType DEF ReaderTypeOK
  <1>4. CASE ReadFileHeader
    <2>1. Peek(offset, 4) \in Bytes(4) /\ offset \in Nat
      BY <1>1 DEF ReaderTypeOK
    <2>2. CASE Peek(offset, 4) = FILE_MAGIC
      <3>1. f_hdr' \in FileHeader
        BY <1>2, <1>4, <2>1, <2>2 DEF ReadFileHeader
      <3>2. Advance(offset + HeaderSize, "info")
        BY <1>4, <2>2 DEF ReadFileHeader
      <3>3. offset' \in Nat /\ pc' \in {"info", "fault"}
        BY <2>1, <3>2 DEF Advance, HeaderSize, MOD_NAME_MAX
      <3>4. QED
        BY <1>4, <2>2, <3>1, <3>3 DEF ReaderTypeOK, ReadFileHeader, arrayVars
    <2>3. CASE Peek(offset, 4) # FILE_MAGIC
      <3>1. f_hdr' = [f_hdr EXCEPT !.magic = Peek(offset, 4)]
        BY <1>4, <2>3 DEF ReadFileHeader
      <3>2. f_hdr' \in FileHeader
        BY <2>1, <3>1 DEF ReaderTypeOK, FileHeader
      <3>3. Advance(offset + 4, "info")
        BY <1>4, <2>3 DEF ReadFileHeader
      <3>4. offset' \in Nat /\ pc' \in {"info", "fault"}
        BY <2>1, <3>3 DEF Advance
      <3>5. QED
        BY <1>4, <2>3, <3>2, <3>4 DEF ReaderTypeOK, ReadFileHeader, arrayVars
    <2>4. QED
      BY <2>2, <2>3
  <1>5. CASE ReadFileInfo
    <2>1. Peek(offset, 4) \in Bytes(4) /\ offset \in Nat
      BY <1>1 DEF ReaderTypeOK
    <2>2. CASE Peek(offset, 4) = INFO_MAGIC
      <3>1. i_hdr' \in InfoHeader /\ i_fld' \in InfoFields
        BY <1>2, <1>5, <2>1, <2>2 DEF ReadFileInfo
      <3>2. Advance(offset + InfoSize, "cups")
        BY <1>5, <2>2 DEF ReadFileInfo
      <3>3. offset' \in Nat /\ pc' \in {"cups", "fault"}
        BY <2>1, <3>2 DEF Advance, InfoSize
      <3>4. QED
        BY <1>5, <2>2, <3>1, <3>3 DEF ReaderTypeOK, ReadFileInfo, arrayVars
    <2>3. CASE Peek(offset, 4) # INFO_MAGIC
      <3>1. i_hdr' = [i_hdr EXCEPT !.magic = Peek(offset, 4)]
        BY <1>5, <2>3 DEF ReadFileInfo
      <3>2. i_hdr' \in InfoHeader
        BY <2>1, <3>1 DEF ReaderTypeOK, InfoHeader
      <3>3. Advance(offset + 4, "cups")
        BY <1>5, <2>3 DEF ReadFileInfo
      <3>4. offset' \in Nat /\ pc' \in {"cups", "fault"}
        BY <2>1, <3>3 DEF Advance
      <3>5. QED
        BY <1>5, <2>3, <3>2, <3>4 DEF ReaderTypeOK, ReadFileInfo, arrayVars
    <2>4. QED
      BY <2>2, <2>3
  <1>6. CASE ReadCupsHeader
    <2>1. Peek(offset, 4) \in Bytes(4) /\ offset \in Nat
      BY <1>1 DEF ReaderTypeOK
    <2>2. CASE Peek(offset, 4) = CUPS_MAGIC
      <3>1. c_hdr' \in CupsHeader
        BY <1>2, <1>6, <2>1, <2>2 DEF ReadCupsHeader
      <3>2. Advance(offset + CupsSize, "alloc_tracks")
        BY <1>6, <2>2 DEF ReadCupsHeader
      <3>3. offset' \in Nat /\ pc' \in {"alloc_tracks", "fault"}
        BY <2>1, <3>2 DEF Advance, CupsSize
      <3>4. QED
        BY <1>6, <2>2, <3>1, <3>3 DEF ReaderTypeOK, ReadCupsHeader, arrayVars
    <2>3. CASE Peek(offset, 4) # CUPS_MAGIC
      <3>1. c_hdr' = [c_hdr EXCEPT !.magic = Peek(offset, 4)]
        BY <1>6, <2>3 DEF ReadCupsHeader
      <3>2. c_hdr' \in CupsHeader
        BY <2>1, <3>1 DEF ReaderTypeOK, CupsHeader
      <3>3. Advance(offset + 4, "alloc_tracks")
        BY <1>6, <2>3 DEF ReadCupsHeader
      <3>4. offset' \in Nat /\ pc' \in {"alloc_tracks", "fault"}
        BY <2>1, <3>3 DEF Advance
      <3>5. QED
        BY <1>6, <2>3, <3>2, <3>4 DEF ReaderTypeOK, ReadCupsHeader, arrayVars
    <2>4. QED
      BY <2>2, <2>3
  <1>7. CASE AllocTracks
    BY <1>3, <1>7 DEF ReaderTypeOK, AllocTracks, structVars
  <1>8. CASE ReadTrackEntry
    <2>1. t_arr' \in Seq(TrackEntry)
      BY <1>2, <1>8 DEF ReaderTypeOK, ReadTrackEntry
    <2>2. offset' \in Nat /\ pc' \in {"tracks", "fault"}
      BY <1>8, AdvanceType DEF ReaderTypeOK, ReadTrackEntry, TrackSize
    <2>3. QED
      BY <1>8, <2>1, <2>2 DEF ReaderTypeOK, ReadTrackEntry, structVars
  <1>9. CASE AllocAlphabet
    BY <1>3, <1>9 DEF ReaderTypeOK, AllocAlphabet, structVars
  <1>10. CASE ReadAlphabetEntry
    <2>1. alphabet_table' \in Seq(Bytes(2))
      BY <1>1, <1>10 DEF ReaderTypeOK, ReadAlphabetEntry
    <2>2. offset' \in Nat /\ pc' \in {"alphabet", "fault"}
      BY <1>10, AdvanceType DEF ReaderTypeOK, ReadAlphabetEntry, AlphabetSize
    <2>3. QED
      BY <1>10, <2>1, <2>2 DEF ReaderTypeOK, ReadAlphabetEntry, structVars
  <1>11. CASE Return
    BY <1>11 DEF ReaderTypeOK, Return, structVars, arrayVars
  <1>12. CASE UNCHANGED readerVars
    BY <1>12 DEF ReaderTypeOK, readerVars, structVars, arrayVars
  <1>13. QED
    BY <1>4, <1>5, <1>6, <1>7, <1>8, <1>9, <1>10, <1>11, <1>12
       DEF ReaderNext

(* read_file keeps every variable in the type C gives it, whatever the     *)
(* file, the memory past it and the remains on the stack.                  *)
THEOREM ReaderTypes == ReaderSpec => []ReaderTypeOK
  <1>1. QED
    BY TypeInit, TypeNext, PTL DEF ReaderSpec

(***************************************************************************)
(* The two arrays are filled to the size that malloc was asked for.        *)
(***************************************************************************)
(* Each step of read_file asks for as much as its loops then store.        *)
LEMMA FillStep ==
  ASSUME ReaderTypeOK, ArraysFilled, [ReaderNext]_readerVars
  PROVE  ArraysFilled'
  <1>1. ReadTracks \in Nat /\ Len(t_arr) \in Nat /\ Len(alphabet_table) \in Nat
    BY ReadTracksType DEF ReaderTypeOK
  <1>2. c_hdr' = c_hdr => ReadTracks' = ReadTracks
    BY DEF ReadTracks
  <1>3. CASE ReadFileHeader \/ ReadFileInfo \/ ReadCupsHeader
    <2>1. /\ pc \in {"header", "info", "cups"}
          /\ pc' \in {"info", "cups", "alloc_tracks", "fault"}
          /\ t_arr' = t_arr /\ alphabet_table' = alphabet_table
      BY <1>3 DEF ReadFileHeader, ReadFileInfo, ReadCupsHeader, Advance, arrayVars
    <2>2. QED
      BY <2>1 DEF ArraysFilled
  <1>4. CASE AllocTracks
    <2>1. /\ pc = "alloc_tracks" /\ pc' \in {"tracks", "fault"}
          /\ t_arr' = t_arr /\ alphabet_table' = alphabet_table
          /\ t_cap' = ReadTracks /\ c_hdr' = c_hdr
      BY <1>4 DEF AllocTracks, structVars
    <2>2. t_arr = << >> /\ alphabet_table = << >>
      BY <2>1 DEF ArraysFilled
    <2>3. QED
      BY <1>1, <1>2, <2>1, <2>2 DEF ArraysFilled
  <1>5. CASE ReadTrackEntry
    <2>1. /\ pc = "tracks" /\ pc' \in {"tracks", "fault"}
          /\ Len(t_arr) < ReadTracks
          /\ Len(t_arr') = Len(t_arr) + 1 /\ alphabet_table' = alphabet_table
          /\ t_cap' = t_cap /\ c_hdr' = c_hdr
      BY <1>5 DEF ReadTrackEntry, Advance, structVars, ReaderTypeOK
    <2>2. alphabet_table = << >> /\ t_cap = ReadTracks
      BY <2>1 DEF ArraysFilled
    <2>3. QED
      BY <1>1, <1>2, <2>1, <2>2 DEF ArraysFilled
  <1>6. CASE AllocAlphabet
    <2>1. /\ pc = "tracks" /\ pc' \in {"alphabet", "fault"}
          /\ Len(t_arr) >= ReadTracks /\ alphabet_cap' = ReadTracks
          /\ t_arr' = t_arr /\ alphabet_table' = alphabet_table
          /\ t_cap' = t_cap /\ c_hdr' = c_hdr
      BY <1>6 DEF AllocAlphabet, structVars
    <2>2. alphabet_table = << >> /\ t_cap = ReadTracks /\ Len(t_arr) <= ReadTracks
      BY <2>1 DEF ArraysFilled
    <2>3. QED
      BY <1>1, <1>2, <2>1, <2>2 DEF ArraysFilled
  <1>7. CASE ReadAlphabetEntry
    <2>1. /\ pc = "alphabet" /\ pc' \in {"alphabet", "fault"}
          /\ Len(alphabet_table) < ReadTracks
          /\ Len(alphabet_table') = Len(alphabet_table) + 1 /\ t_arr' = t_arr
          /\ t_cap' = t_cap /\ alphabet_cap' = alphabet_cap /\ c_hdr' = c_hdr
      BY <1>7 DEF ReadAlphabetEntry, Advance, structVars, ReaderTypeOK
    <2>2. /\ t_cap = ReadTracks /\ Len(t_arr) = ReadTracks
          /\ alphabet_cap = ReadTracks
      BY <2>1 DEF ArraysFilled
    <2>3. QED
      BY <1>1, <1>2, <2>1, <2>2 DEF ArraysFilled
  <1>8. CASE Return
    <2>1. /\ pc = "alphabet" /\ pc' = "read"
          /\ Len(alphabet_table) >= ReadTracks
          /\ t_arr' = t_arr /\ alphabet_table' = alphabet_table
          /\ t_cap' = t_cap /\ alphabet_cap' = alphabet_cap /\ c_hdr' = c_hdr
      BY <1>8 DEF Return, structVars, arrayVars
    <2>2. /\ t_cap = ReadTracks /\ Len(t_arr) = ReadTracks
          /\ alphabet_cap = ReadTracks /\ Len(alphabet_table) <= ReadTracks
      BY <2>1 DEF ArraysFilled
    <2>3. QED
      BY <1>1, <1>2, <2>1, <2>2 DEF ArraysFilled
  <1>9. CASE UNCHANGED readerVars
    BY <1>2, <1>9 DEF ArraysFilled, readerVars, structVars, arrayVars
  <1>10. QED
    BY <1>3, <1>4, <1>5, <1>6, <1>7, <1>8, <1>9 DEF ReaderNext

(* No store into t_arr or alphabet_table is past what malloc gave,         *)
(* whatever the file declares and whatever was reported of it.             *)
THEOREM ArraysAreFilled == ReaderSpec => []ArraysFilled
  <1>1. ReaderInit => ArraysFilled
    BY DEF ReaderInit, ArraysFilled
  <1>2. QED
    BY <1>1, FillStep, ReaderTypes, PTL DEF ReaderSpec

(***************************************************************************)
(* The buffer never changes, so neither does what a read of it yields.     *)
(***************************************************************************)
LEMMA ReadsStable ==
  ASSUME buffer' = buffer, memory' = memory
  PROVE  /\ \A o, n \in Nat : Peek(o, n)' = Peek(o, n)
         /\ \A o \in Nat : HeaderAt(o)' = HeaderAt(o)
         /\ \A o \in Nat : InfoAt(o)' = InfoAt(o)
         /\ \A o \in Nat : FieldsAt(o)' = FieldsAt(o)
         /\ \A o \in Nat : CupsAt(o)' = CupsAt(o)
         /\ \A o \in Nat : TrackAt(o)' = TrackAt(o)
  BY DEF Peek, Outside, HeaderAt, InfoAt, FieldsAt, CupsAt, TrackAt

(* A struct that was read stays so while it is not written to.             *)
LEMMA ReadStable ==
  ASSUME buffer' = buffer, memory' = memory
  PROVE  /\ f_hdr' = f_hdr /\ HeaderRead => HeaderRead'
         /\ i_hdr' = i_hdr /\ i_fld' = i_fld /\ InfoRead => InfoRead'
         /\ c_hdr' = c_hdr /\ CupsRead => CupsRead'
         /\ t_arr' = t_arr /\ TracksRead => TracksRead'
         /\ c_hdr' = c_hdr => ReadTracks' = ReadTracks
  <1>1. f_hdr' = f_hdr /\ HeaderRead => HeaderRead'
    BY ReadsStable DEF HeaderRead
  <1>2. i_hdr' = i_hdr /\ i_fld' = i_fld /\ InfoRead => InfoRead'
    BY ReadsStable DEF InfoRead
  <1>3. c_hdr' = c_hdr /\ CupsRead => CupsRead'
    BY ReadsStable DEF CupsRead
  <1>4. t_arr' = t_arr /\ TracksRead => TracksRead'
    BY ReadsStable DEF TracksRead
  <1>5. c_hdr' = c_hdr => ReadTracks' = ReadTracks
    BY DEF ReadTracks
  <1>6. QED
    BY <1>1, <1>2, <1>3, <1>4, <1>5

(* A well-formed file shows its three magics to the reader. *)
LEMMA WellFormedMagics ==
  ASSUME buffer \in Seq(Byte), memory \in Memory, WellFormed(buffer)
  PROVE  /\ Peek(0, 4) = FILE_MAGIC
         /\ Peek(36, 4) = INFO_MAGIC
         /\ Peek(116, 4) = CUPS_MAGIC
  <1>1. /\ 0 + 4 <= Len(buffer) /\ 36 + 4 <= Len(buffer)
        /\ 116 + 4 <= Len(buffer)
        /\ 0 \in Nat /\ 4 \in Nat /\ 36 \in Nat /\ 116 \in Nat
    BY DEF WellFormed
  <1>2. /\ Peek(0, 4) = Slice(0, 4) /\ Peek(36, 4) = Slice(36, 4)
        /\ Peek(116, 4) = Slice(116, 4)
    BY <1>1, PeekIsSlice, ZenonT(40)
  <1>3. /\ Slice(0, 4) = FILE_MAGIC /\ Slice(36, 4) = INFO_MAGIC
        /\ Slice(116, 4) = CUPS_MAGIC
    BY DEF WellFormed, Slice
  <1>4. QED
    BY <1>2, <1>3

(***************************************************************************)
(* The inductive invariant: the types, the bounds, and a cursor in step    *)
(* with what has been read.  One lemma per group of actions.               *)
(***************************************************************************)
ReaderInv == ReaderTypeOK /\ ReadsInBounds /\ CursorInStep

(* read_file starts in the invariant.                                      *)
LEMMA InvInit == ReaderInit => ReaderInv
  <1> SUFFICES ASSUME ReaderInit PROVE ReaderInv
    OBVIOUS
  <1>1. ReaderTypeOK
    BY TypeInit
  <1>2. ReadsInBounds
    BY <1>1 DEF ReaderInit, ReaderTypeOK, ReadsInBounds
  <1>3. CursorInStep
    BY DEF ReaderInit, CursorInStep
  <1>4. QED
    BY <1>1, <1>2, <1>3 DEF ReaderInv

(* _read_file_header keeps the invariant.                                  *)
LEMMA HeaderKeepsInv ==
  ASSUME ReaderInv, ReadFileHeader
  PROVE  ReadsInBounds' /\ CursorInStep'
  <1>1. /\ buffer' = buffer /\ memory' = memory /\ t_arr' = t_arr
        /\ alphabet_table' = alphabet_table /\ pc = "header"
    BY DEF ReadFileHeader, arrayVars
  <1>2. buffer \in Seq(Byte) /\ memory \in Memory /\ Len(buffer) \in Nat
    BY DEF ReaderInv, ReaderTypeOK
  <1>3. CASE Peek(offset, 4) = FILE_MAGIC
    <2>1. /\ reported' = reported /\ f_hdr' = HeaderAt(offset)
          /\ Advance(offset + HeaderSize, "info")
      BY <1>3 DEF ReadFileHeader
    <2>2. reported = {} => /\ offset = 0 /\ t_arr = << >>
                           /\ alphabet_table = << >>
      BY <1>1 DEF ReaderInv, CursorInStep
    <2>3. reported = {} => offset' = 36
      BY <2>1, <2>2 DEF Advance, HeaderSize, MOD_NAME_MAX
    <2>4. pc' \in {"info", "fault"}
      BY <2>1, AdvanceType DEF Advance
    <2>5. reported = {} => HeaderRead'
      BY <1>1, <1>3, <2>1, <2>2, ReadsStable DEF HeaderRead
    <2>6. ReadsInBounds'
      BY <1>1, <1>2, <2>1, <2>3 DEF ReaderInv, ReadsInBounds, WellFormed
    <2>7. CursorInStep'
      BY <1>1, <2>1, <2>2, <2>3, <2>4, <2>5 DEF CursorInStep
    <2>8. QED
      BY <2>6, <2>7
  <1>4. CASE Peek(offset, 4) # FILE_MAGIC
    <2>1. reported' = reported \cup {"PULS"}
      BY <1>4 DEF ReadFileHeader
    <2>2. CursorInStep'
      BY <2>1 DEF CursorInStep
    <2>3. ~WellFormed(buffer)
      BY <1>1, <1>2, <1>4, WellFormedMagics
         DEF ReaderInv, ReadsInBounds, CursorInStep
    <2>4. ReadsInBounds'
      BY <1>1, <2>3 DEF ReadsInBounds
    <2>5. QED
      BY <2>2, <2>4
  <1>5. QED
    BY <1>3, <1>4

(* _read_file_info keeps the invariant.                                    *)
LEMMA InfoKeepsInv ==
  ASSUME ReaderInv, ReadFileInfo
  PROVE  ReadsInBounds' /\ CursorInStep'
  <1>1. /\ buffer' = buffer /\ memory' = memory /\ t_arr' = t_arr
        /\ f_hdr' = f_hdr /\ alphabet_table' = alphabet_table /\ pc = "info"
    BY DEF ReadFileInfo, arrayVars
  <1>2. buffer \in Seq(Byte) /\ memory \in Memory /\ Len(buffer) \in Nat
    BY DEF ReaderInv, ReaderTypeOK
  <1>3. CASE Peek(offset, 4) = INFO_MAGIC
    <2>1. /\ reported' = reported /\ i_hdr' = InfoAt(offset)
          /\ i_fld' = FieldsAt(offset + 12)
          /\ Advance(offset + InfoSize, "cups")
      BY <1>3 DEF ReadFileInfo
    <2>2. reported = {} => /\ offset = 36 /\ t_arr = << >>
                           /\ alphabet_table = << >> /\ HeaderRead
      BY <1>1 DEF ReaderInv, CursorInStep
    <2>3. reported = {} => offset' = 116
      BY <2>1, <2>2 DEF Advance, InfoSize
    <2>4. pc' \in {"cups", "fault"}
      BY <2>1 DEF Advance
    <2>5. reported = {} => HeaderRead' /\ InfoRead'
      <3>1. reported = {} => HeaderRead'
        BY <1>1, <1>3, <2>1, <2>2, ReadStable
      <3>2. /\ InfoAt(36)' = InfoAt(36) /\ FieldsAt(48)' = FieldsAt(48)
            /\ Peek(36, 4)' = Peek(36, 4)
        BY <1>1, <1>3, <2>1, ReadsStable
      <3>3. reported = {} => InfoRead'
        BY <1>1, <1>3, <2>1, <2>2, <3>2 DEF InfoRead
      <3>4. QED
        BY <3>1, <3>3
    <2>6. ReadsInBounds'
      BY <1>1, <1>2, <2>1, <2>3 DEF ReaderInv, ReadsInBounds, WellFormed
    <2>7. CursorInStep'
      BY <1>1, <2>1, <2>2, <2>3, <2>4, <2>5 DEF CursorInStep
    <2>8. QED
      BY <2>6, <2>7
  <1>4. CASE Peek(offset, 4) # INFO_MAGIC
    <2>1. reported' = reported \cup {"INFO"}
      BY <1>4 DEF ReadFileInfo
    <2>2. CursorInStep'
      BY <2>1 DEF CursorInStep
    <2>3. ~WellFormed(buffer)
      BY <1>1, <1>2, <1>4, WellFormedMagics
         DEF ReaderInv, ReadsInBounds, CursorInStep
    <2>4. ReadsInBounds'
      BY <1>1, <2>3 DEF ReadsInBounds
    <2>5. QED
      BY <2>2, <2>4
  <1>5. QED
    BY <1>3, <1>4

(* _read_cups_header keeps the invariant.                                  *)
LEMMA CupsKeepsInv ==
  ASSUME ReaderInv, ReadCupsHeader
  PROVE  ReadsInBounds' /\ CursorInStep'
  <1>1. /\ buffer' = buffer /\ memory' = memory /\ t_arr' = t_arr
        /\ f_hdr' = f_hdr /\ i_hdr' = i_hdr /\ i_fld' = i_fld
        /\ alphabet_table' = alphabet_table /\ pc = "cups"
    BY DEF ReadCupsHeader, arrayVars
  <1>2. buffer \in Seq(Byte) /\ memory \in Memory /\ Len(buffer) \in Nat
    BY DEF ReaderInv, ReaderTypeOK
  <1>3. CASE Peek(offset, 4) = CUPS_MAGIC
    <2>1. /\ reported' = reported /\ c_hdr' = CupsAt(offset)
          /\ Advance(offset + CupsSize, "alloc_tracks")
      BY <1>3 DEF ReadCupsHeader
    <2>2. reported = {} => /\ offset = 116 /\ t_arr = << >>
                           /\ alphabet_table = << >>
                           /\ HeaderRead /\ InfoRead
      BY <1>1 DEF ReaderInv, CursorInStep
    <2>3. reported = {} => offset' = 144
      BY <2>1, <2>2 DEF Advance, CupsSize
    <2>4. pc' \in {"alloc_tracks", "fault"}
      BY <2>1 DEF Advance
    <2>5. reported = {} => HeaderRead' /\ InfoRead' /\ CupsRead'
      BY <1>1, <1>3, <2>1, <2>2, ReadsStable, ReadStable DEF CupsRead
    <2>6. ReadsInBounds'
      BY <1>1, <1>2, <2>1, <2>3 DEF ReaderInv, ReadsInBounds, WellFormed
    <2>7. CursorInStep'
      BY <1>1, <2>1, <2>2, <2>3, <2>4, <2>5 DEF CursorInStep
    <2>8. QED
      BY <2>6, <2>7
  <1>4. CASE Peek(offset, 4) # CUPS_MAGIC
    <2>1. reported' = reported \cup {"CUPS"}
      BY <1>4 DEF ReadCupsHeader
    <2>2. CursorInStep'
      BY <2>1 DEF CursorInStep
    <2>3. ~WellFormed(buffer)
      BY <1>1, <1>2, <1>4, WellFormedMagics
         DEF ReaderInv, ReadsInBounds, CursorInStep
    <2>4. ReadsInBounds'
      BY <1>1, <2>3 DEF ReadsInBounds
    <2>5. QED
      BY <2>2, <2>4
  <1>5. QED
    BY <1>3, <1>4

(* So does an entry of the track array.                                    *)
LEMMA TracksKeepInv ==
  ASSUME ReaderInv, ReadTrackEntry
  PROVE  ReadsInBounds' /\ CursorInStep'
  <1>1. /\ buffer' = buffer /\ memory' = memory /\ reported' = reported
        /\ f_hdr' = f_hdr /\ i_hdr' = i_hdr /\ i_fld' = i_fld
        /\ c_hdr' = c_hdr /\ alphabet_table' = alphabet_table
        /\ pc = "tracks" /\ Len(t_arr) < ReadTracks
        /\ t_arr' = Append(t_arr, TrackAt(offset))
        /\ Advance(offset + TrackSize, "tracks")
    BY DEF ReadTrackEntry, structVars
  <1>2. /\ buffer \in Seq(Byte) /\ memory \in Memory /\ Len(buffer) \in Nat
        /\ t_arr \in Seq(TrackEntry) /\ Len(t_arr) \in Nat
        /\ c_hdr \in CupsHeader /\ offset \in Nat
    BY DEF ReaderInv, ReaderTypeOK
  <1>3. ReadTracks \in Nat
    BY <1>2, ReadTracksType
  <1>4. offset' = offset + 8 /\ pc' \in {"tracks", "fault"}
    BY <1>1 DEF Advance, TrackSize
  <1>5. Len(t_arr') = Len(t_arr) + 1
    BY <1>1, <1>2
  <1>6. reported = {} => /\ HeaderRead /\ InfoRead /\ CupsRead /\ TracksRead
                         /\ offset = 144 + 8 * Len(t_arr)
                         /\ alphabet_table = << >>
    BY <1>1 DEF ReaderInv, CursorInStep
  <1>7. TracksRead /\ offset = 144 + 8 * Len(t_arr) => TracksRead'
    <2> SUFFICES ASSUME TracksRead, offset = 144 + 8 * Len(t_arr),
                        NEW k \in 1 .. Len(t_arr')
                 PROVE  t_arr'[k] = TrackAt(136 + 8 * k)'
      BY DEF TracksRead
    <2>1. TrackAt(136 + 8 * k)' = TrackAt(136 + 8 * k)
      BY <1>1, <1>2, <1>5, ReadsStable
    <2>2. CASE k \in 1 .. Len(t_arr)
      BY <1>1, <1>2, <2>1, <2>2 DEF TracksRead
    <2>3. CASE k = Len(t_arr) + 1
      <3>1. t_arr'[k] = TrackAt(offset)
        BY <1>1, <1>2, <2>3
      <3>2. offset = 136 + 8 * k
        BY <1>2, <2>3
      <3>3. QED
        BY <2>1, <3>1, <3>2
    <2>4. QED
      BY <1>2, <1>5, <2>2, <2>3
  <1>8. ReadsInBounds'
    <2> SUFFICES ASSUME WellFormed(buffer)
                 PROVE  reported' = {} /\ offset' <= Len(buffer)
      BY <1>1 DEF ReadsInBounds
    <2>1. reported = {}
      BY DEF ReaderInv, ReadsInBounds
    <2>2. ReadTracks = TracksIn(buffer)
      BY <1>2, <1>6, <2>1, CupsCounted DEF WellFormed
    <2>3. 144 + 10 * ReadTracks <= Len(buffer)
      BY <2>2 DEF WellFormed, ConfigSize
    <2>4. QED
      BY <1>1, <1>2, <1>3, <1>4, <1>6, <2>1, <2>3
  <1>9. CursorInStep'
    <2>1. ReadTracks' = ReadTracks
      BY <1>1, ReadStable
    <2>2. Len(t_arr') <= ReadTracks'
      BY <1>1, <1>2, <1>3, <1>5, <2>1
    <2>3. reported = {} =>
            /\ HeaderRead' /\ InfoRead' /\ CupsRead' /\ TracksRead'
            /\ offset' = 144 + 8 * Len(t_arr')
      BY <1>1, <1>2, <1>4, <1>5, <1>6, <1>7, ReadStable
    <2>4. QED
      BY <1>1, <1>4, <1>6, <2>2, <2>3 DEF CursorInStep
  <1>10. QED
    BY <1>8, <1>9

(* So does an entry of the alphabet table.                                 *)
LEMMA AlphabetKeepsInv ==
  ASSUME ReaderInv, ReadAlphabetEntry
  PROVE  ReadsInBounds' /\ CursorInStep'
  <1>1. /\ buffer' = buffer /\ memory' = memory /\ reported' = reported
        /\ f_hdr' = f_hdr /\ i_hdr' = i_hdr /\ i_fld' = i_fld
        /\ c_hdr' = c_hdr /\ t_arr' = t_arr
        /\ pc = "alphabet" /\ Len(alphabet_table) < ReadTracks
        /\ alphabet_table' = Append(alphabet_table, Peek(offset, 2))
        /\ Advance(offset + AlphabetSize, "alphabet")
    BY DEF ReadAlphabetEntry, structVars
  <1>2. /\ buffer \in Seq(Byte) /\ memory \in Memory /\ Len(buffer) \in Nat
        /\ alphabet_table \in Seq(Bytes(2)) /\ Len(alphabet_table) \in Nat
        /\ c_hdr \in CupsHeader /\ offset \in Nat
    BY DEF ReaderInv, ReaderTypeOK
  <1>3. ReadTracks \in Nat
    BY <1>2, ReadTracksType
  <1>4. offset' = offset + 2 /\ pc' \in {"alphabet", "fault"}
    BY <1>1 DEF Advance, AlphabetSize
  <1>5. Len(alphabet_table') = Len(alphabet_table) + 1
    BY <1>1, <1>2
  <1>6. reported = {} =>
          /\ HeaderRead /\ InfoRead /\ CupsRead /\ TracksRead /\ IndexRead
          /\ Len(t_arr) = ReadTracks
          /\ offset = 144 + 8 * ReadTracks + 2 * Len(alphabet_table)
    BY <1>1 DEF ReaderInv, CursorInStep
  <1>7. ReadTracks' = ReadTracks
    BY <1>1, ReadStable
  <1>8. IndexRead /\ offset = 144 + 8 * ReadTracks + 2 * Len(alphabet_table)
          => IndexRead'
    <2> SUFFICES ASSUME IndexRead,
                        offset = 144 + 8 * ReadTracks + 2 * Len(alphabet_table),
                        NEW k \in 1 .. Len(alphabet_table')
                 PROVE  alphabet_table'[k]
                          = Peek(142 + 8 * ReadTracks + 2 * k, 2)'
      BY DEF IndexRead
    <2>1. Peek(142 + 8 * ReadTracks + 2 * k, 2)'
            = Peek(142 + 8 * ReadTracks + 2 * k, 2)
      BY <1>1, <1>7 DEF Peek, Outside
    <2>2. CASE k \in 1 .. Len(alphabet_table)
      BY <1>1, <1>2, <2>1, <2>2 DEF IndexRead
    <2>3. CASE k = Len(alphabet_table) + 1
      <3>1. alphabet_table'[k] = Peek(offset, 2)
        BY <1>1, <1>2, <2>3
      <3>2. offset = 142 + 8 * ReadTracks + 2 * k
        BY <1>2, <1>3, <2>3
      <3>3. QED
        BY <2>1, <3>1, <3>2
    <2>4. QED
      BY <1>2, <1>5, <2>2, <2>3
  <1>9. ReadsInBounds'
    <2> SUFFICES ASSUME WellFormed(buffer)
                 PROVE  reported' = {} /\ offset' <= Len(buffer)
      BY <1>1 DEF ReadsInBounds
    <2>1. reported = {}
      BY DEF ReaderInv, ReadsInBounds
    <2>2. ReadTracks = TracksIn(buffer)
      BY <1>2, <1>6, <2>1, CupsCounted DEF WellFormed
    <2>3. 144 + 10 * ReadTracks <= Len(buffer)
      BY <2>2 DEF WellFormed, ConfigSize
    <2>4. QED
      BY <1>1, <1>2, <1>3, <1>4, <1>6, <2>1, <2>3
  <1>10. CursorInStep'
    <2>1. Len(alphabet_table') <= ReadTracks'
      BY <1>1, <1>2, <1>3, <1>5, <1>7
    <2>2. reported = {} =>
            /\ HeaderRead' /\ InfoRead' /\ CupsRead' /\ TracksRead'
            /\ IndexRead'
            /\ Len(t_arr') = ReadTracks'
            /\ offset' = 144 + 8 * ReadTracks' + 2 * Len(alphabet_table')
      BY <1>1, <1>2, <1>3, <1>4, <1>5, <1>6, <1>7, <1>8, ReadStable
    <2>3. QED
      BY <1>1, <1>4, <2>1, <2>2 DEF CursorInStep
  <1>11. QED
    BY <1>9, <1>10

(* So do the allocations, and the return.                                  *)
LEMMA AllocsKeepInv ==
  ASSUME ReaderInv, AllocTracks \/ AllocAlphabet \/ Return
  PROVE  ReadsInBounds' /\ CursorInStep'
  <1>1. /\ buffer' = buffer /\ memory' = memory /\ reported' = reported
        /\ offset' = offset
        /\ f_hdr' = f_hdr /\ i_hdr' = i_hdr /\ i_fld' = i_fld
        /\ c_hdr' = c_hdr /\ t_arr' = t_arr
        /\ alphabet_table' = alphabet_table
    BY DEF AllocTracks, AllocAlphabet, Return, structVars, arrayVars
  <1>2. /\ t_arr \in Seq(TrackEntry) /\ Len(t_arr) \in Nat
        /\ alphabet_table \in Seq(Bytes(2)) /\ Len(alphabet_table) \in Nat
        /\ ReadTracks \in Nat /\ ReadTracks' = ReadTracks
    BY <1>1, ReadTracksType, ReadStable DEF ReaderInv, ReaderTypeOK
  <1>3. ReadsInBounds'
    BY <1>1 DEF ReaderInv, ReadsInBounds
  <1>4. CASE AllocTracks
    <2>1. pc = "alloc_tracks" /\ pc' \in {"tracks", "fault"}
      BY <1>4 DEF AllocTracks
    <2>2. reported = {} =>
            /\ HeaderRead' /\ InfoRead' /\ CupsRead' /\ TracksRead'
            /\ t_arr = << >> /\ alphabet_table = << >> /\ offset = 144
      BY <1>1, <2>1, ReadStable DEF ReaderInv, CursorInStep, TracksRead
    <2>3. CursorInStep'
      BY <1>1, <1>2, <2>1, <2>2 DEF CursorInStep
    <2>4. QED
      BY <1>3, <2>3
  <1>5. CASE AllocAlphabet
    <2>1. /\ pc = "tracks" /\ pc' \in {"alphabet", "fault"}
          /\ Len(t_arr) >= ReadTracks
      BY <1>5 DEF AllocAlphabet
    <2>2. reported = {} =>
            /\ HeaderRead' /\ InfoRead' /\ CupsRead' /\ TracksRead'
            /\ Len(t_arr) <= ReadTracks /\ alphabet_table = << >>
            /\ offset = 144 + 8 * Len(t_arr)
      BY <1>1, <2>1, ReadStable DEF ReaderInv, CursorInStep
    <2>3. alphabet_table = << >> => IndexRead' /\ Len(alphabet_table) = 0
      BY <1>1 DEF IndexRead
    <2>4. CursorInStep'
      BY <1>1, <1>2, <2>1, <2>2, <2>3 DEF CursorInStep
    <2>5. QED
      BY <1>3, <2>4
  <1>6. CASE Return
    <2>1. /\ pc = "alphabet" /\ pc' = "read"
          /\ Len(alphabet_table) >= ReadTracks
      BY <1>6 DEF Return
    <2>2. reported = {} =>
            /\ HeaderRead' /\ InfoRead' /\ CupsRead' /\ TracksRead'
            /\ IndexRead /\ Len(t_arr) = ReadTracks
            /\ Len(alphabet_table) <= ReadTracks
            /\ offset = 144 + 8 * ReadTracks + 2 * Len(alphabet_table)
      BY <1>1, <2>1, ReadStable DEF ReaderInv, CursorInStep
    <2>3. IndexRead => IndexRead'
      BY <1>1 DEF IndexRead, Peek, Outside, ReadTracks
    <2>4. CursorInStep'
      BY <1>1, <1>2, <2>1, <2>2, <2>3 DEF CursorInStep
    <2>5. QED
      BY <1>3, <2>4
  <1>7. QED
    BY <1>4, <1>5, <1>6

(* No step of read_file leaves the invariant.                              *)
LEMMA InvNext == ReaderInv /\ [ReaderNext]_readerVars => ReaderInv'
  <1> SUFFICES ASSUME ReaderInv, [ReaderNext]_readerVars PROVE ReaderInv'
    OBVIOUS
  <1>1. ReaderTypeOK'
    BY TypeNext DEF ReaderInv
  <1>2. ReadsInBounds' /\ CursorInStep'
    <2>1. CASE UNCHANGED readerVars
      <3>1. /\ buffer' = buffer /\ memory' = memory /\ reported' = reported
            /\ offset' = offset /\ pc' = pc
            /\ f_hdr' = f_hdr /\ i_hdr' = i_hdr /\ i_fld' = i_fld
            /\ c_hdr' = c_hdr /\ t_arr' = t_arr
            /\ alphabet_table' = alphabet_table
        BY <2>1 DEF readerVars, structVars, arrayVars
      <3>2. ReadTracks' = ReadTracks
        BY <3>1, ReadStable
      <3>3. /\ HeaderRead => HeaderRead'
            /\ InfoRead => InfoRead'
            /\ CupsRead => CupsRead'
            /\ TracksRead => TracksRead'
        BY <3>1, ReadStable
      <3>4. IndexRead => IndexRead'
        BY <3>1, SMTT(30) DEF IndexRead, Peek, Outside, ReadTracks
      <3>5. ReadsInBounds'
        BY <3>1 DEF ReaderInv, ReadsInBounds
      <3>6. CursorInStep'
        BY <3>1, <3>2, <3>3, <3>4 DEF ReaderInv, CursorInStep
      <3>7. QED
        BY <3>5, <3>6
    <2>2. QED
      BY <2>1, HeaderKeepsInv, InfoKeepsInv, CupsKeepsInv, TracksKeepInv,
         AlphabetKeepsInv, AllocsKeepInv
         DEF ReaderNext
  <1>3. QED
    BY <1>1, <1>2 DEF ReaderInv

(* Whatever the file, the cursor and the contents of the structs agree at  *)
(* every point of read_file.                                               *)
THEOREM ReaderInvariant == ReaderSpec => []ReaderInv
  <1>1. QED
    BY InvInit, InvNext, PTL DEF ReaderSpec

(* The cursor stands where the format has it as long as nothing has been   *)
(* reported, whatever the file holds.                                      *)
THEOREM CursorStaysInStep == ReaderSpec => []CursorInStep
  <1>1. ReaderInv => CursorInStep
    BY DEF ReaderInv
  <1>2. QED
    BY ReaderInvariant, <1>1, PTL

(* A well-formed file of any number of cups is read without a complaint    *)
(* and without a read past its end.                                        *)
THEOREM ReadingInBounds == ReaderSpec => []ReadsInBounds
  <1>1. ReaderInv => ReadsInBounds
    BY DEF ReaderInv
  <1>2. QED
    BY ReaderInvariant, <1>1, PTL

(***************************************************************************)
(* Nothing is lost: what read_file returns of a file it neither complained *)
(* of nor overran is the file, field by field and entry by entry.          *)
(***************************************************************************)
LEMMA ReadIsFaithful == ReaderInv => FaithfulRead
  <1> SUFFICES ASSUME ReaderInv, pc = "read", reported = {},
                      offset <= Len(buffer)
               PROVE  LET n == TracksIn(buffer) IN
                      /\ WellFormed(buffer)
                      /\ offset = ConfigSize(buffer)
                      /\ HeaderImage(f_hdr) = Slice(0, 36)
                      /\ InfoImage(i_hdr) \o FieldsImage(i_fld) = Slice(36, 80)
                      /\ CupsImage(c_hdr) = Slice(116, 28)
                      /\ Len(t_arr) = n /\ Len(alphabet_table) = n
                      /\ \A k \in 1 .. n :
                           /\ TrackImage(t_arr[k]) = Slice(136 + 8 * k, 8)
                           /\ alphabet_table[k]
                                = Slice(142 + 8 * n + 2 * k, 2)
    BY DEF FaithfulRead
  <1>1. /\ buffer \in Seq(Byte) /\ memory \in Memory /\ Len(buffer) \in Nat
        /\ c_hdr \in CupsHeader /\ ReadTracks \in Nat
    BY ReadTracksType DEF ReaderInv, ReaderTypeOK
  <1>2. /\ HeaderRead /\ InfoRead /\ CupsRead /\ TracksRead /\ IndexRead
        /\ Len(t_arr) = ReadTracks /\ Len(alphabet_table) = ReadTracks
        /\ offset = 144 + 10 * ReadTracks
    <2>1. /\ HeaderRead /\ InfoRead /\ CupsRead /\ TracksRead /\ IndexRead
          /\ Len(t_arr) = ReadTracks /\ Len(alphabet_table) = ReadTracks
          /\ offset = 144 + 8 * ReadTracks + 2 * Len(alphabet_table)
      BY DEF ReaderInv, CursorInStep
    <2>2. QED
      BY <1>1, <2>1
  <1>3. ReadTracks = TracksIn(buffer)
    BY <1>1, <1>2, CupsCounted
  <1>4. ASSUME NEW o \in Nat, NEW n \in Nat, o + n <= Len(buffer)
        PROVE  Peek(o, n) = Slice(o, n)
    BY <1>1, <1>4, PeekIsSlice
  <1>5. WellFormed(buffer)
    <2>1. Slice(0, 4) = FILE_MAGIC
      BY <1>1, <1>2, <1>4 DEF HeaderRead
    <2>2. Slice(36, 4) = INFO_MAGIC
      BY <1>1, <1>2, <1>4 DEF InfoRead
    <2>3. Slice(116, 4) = CUPS_MAGIC
      BY <1>1, <1>2, <1>4 DEF CupsRead
    <2>4. QED
      BY <1>1, <1>2, <1>3, <2>1, <2>2, <2>3 DEF WellFormed, Slice, ConfigSize
  <1>6. offset = ConfigSize(buffer)
    BY <1>2, <1>3 DEF ConfigSize
  <1>7. HeaderImage(f_hdr) = Slice(0, 36)
    <2>1. HeaderImage(f_hdr) = Peek(0, 36)
      BY <1>1, <1>2, StructImages DEF HeaderRead
    <2>2. Peek(0, 36) = Slice(0, 36)
      BY <1>1, <1>2, <1>4
    <2>3. QED
      BY <2>1, <2>2
  <1>8. InfoImage(i_hdr) \o FieldsImage(i_fld) = Slice(36, 80)
    <2>1. InfoImage(InfoAt(36)) \o FieldsImage(FieldsAt(48)) = Peek(36, 80)
      BY <1>1, InfoSectionImage
    <2>2. Peek(36, 80) = Slice(36, 80)
      BY <1>1, <1>2, <1>4
    <2>3. QED
      BY <1>2, <2>1, <2>2, ZenonT(40) DEF InfoRead
  <1>9. CupsImage(c_hdr) = Slice(116, 28)
    <2>1. CupsImage(c_hdr) = Peek(116, 28)
      BY <1>1, <1>2, StructImages DEF CupsRead
    <2>2. Peek(116, 28) = Slice(116, 28)
      BY <1>1, <1>2, <1>4
    <2>3. QED
      BY <2>1, <2>2
  <1>10. ASSUME NEW k \in 1 .. ReadTracks
         PROVE  /\ TrackImage(t_arr[k]) = Slice(136 + 8 * k, 8)
                /\ alphabet_table[k] = Slice(142 + 8 * ReadTracks + 2 * k, 2)
    <2>1. /\ t_arr[k] = TrackAt(136 + 8 * k)
          /\ alphabet_table[k] = Peek(142 + 8 * ReadTracks + 2 * k, 2)
      BY <1>2 DEF TracksRead, IndexRead
    <2>2. /\ 136 + 8 * k \in Nat
          /\ 142 + 8 * ReadTracks + 2 * k \in Nat
          /\ (136 + 8 * k) + 8 <= Len(buffer)
          /\ (142 + 8 * ReadTracks + 2 * k) + 2 <= Len(buffer)
      BY <1>1, <1>2
    <2>3. TrackImage(t_arr[k]) = Peek(136 + 8 * k, 8)
      BY <1>1, <2>1, <2>2, StructImages
    <2>4. QED
      BY <1>4, <2>1, <2>2, <2>3
  <1>11. QED
    BY <1>2, <1>3, <1>5, <1>6, <1>7, <1>8, <1>9, <1>10

(* What read_file returns without a complaint and without a read past the  *)
(* end is the file it was given, whatever its size and its bytes.          *)
THEOREM ReadingIsFaithful == ReaderSpec => []FaithfulRead
  <1>1. QED
    BY ReaderInvariant, ReadIsFaithful, PTL
==============================================================================
