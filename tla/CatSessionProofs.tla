--------------------------- MODULE CatSessionProofs --------------------------
(***************************************************************************)
(* Proofs about CatSession, for all contents of files, any number of       *)
(* changes by other processes and any number of cups: command_cat shows    *)
(* the file.  They compose what is proved of loading (FileBufferProofs)    *)
(* with what is proved of parsing (PulReaderProofs).                       *)
(***************************************************************************)
EXTENDS CatSession, FileBufferProofs

PrintLabels == {"print_tracks", "print_alphabet", "exit"}
ReadLabels  == {"header", "info", "cups", "alloc_tracks", "tracks", "alphabet"}

(***************************************************************************)
(* read_file as it is proved about: it has returned when the printers are  *)
(* at work, and its buffer is what command_cat got, also when that is      *)
(* freed.                                                                  *)
(***************************************************************************)
parsed == IF step \in PrintLabels THEN "read" ELSE step
P == INSTANCE PulReaderProofs WITH Images <- Contents, buffer <- result, pc <- parsed

(* What PulReader assumes of its constants holds of those given to it.     *)
LEMMA ReaderAssumptions ==
  P!ImagesAssumption /\ P!MemoryAssumption /\ P!StackAssumption
  <1>1. Contents \subseteq Seq(P!Byte)
    BY SessionAssumption DEF P!Byte, Byte
  <1>2. R!Memory = P!Memory
    BY DEF R!Memory, P!Memory, R!Byte, P!Byte
  <1>3. R!PulStruct = P!PulStruct
    BY DEF R!PulStruct, P!PulStruct, R!FileHeader, P!FileHeader, R!InfoHeader,
           P!InfoHeader, R!InfoFields, P!InfoFields, R!CupsHeader, P!CupsHeader,
           R!Bytes, P!Bytes, R!Byte, P!Byte, R!MOD_NAME_MAX, P!MOD_NAME_MAX
  <1>4. Memories \subseteq P!Memory /\ StackStructs \subseteq P!PulStruct
    BY <1>2, <1>3, SessionAssumption
  <1>5. P!ImagesAssumption
    BY <1>1
  <1>6. P!MemoryAssumption
    BY <1>4
  <1>7. P!StackAssumption
    BY <1>4
  <1>8. QED
    BY <1>5, <1>6, <1>7

(* A step of read_file on the live buffer is one on what was got.          *)
LEMMA ReadsTheResult ==
  ASSUME step \in ReadLabels, UNCHANGED fbVars, InMemory = result, R!ReaderNext
  PROVE  P!ReaderNext /\ step' \in ReadLabels \cup {"read", "fault"}
  <1>1. result' = result /\ InMemory' = InMemory
    BY DEF fbVars, bufferVars, InMemory
  <1>2. step' \in ReadLabels \cup {"read", "fault"}
    BY DEF R!ReaderNext, R!ReadFileHeader, R!ReadFileInfo, R!ReadCupsHeader,
           R!AllocTracks, R!ReadTrackEntry, R!AllocAlphabet,
           R!ReadAlphabetEntry, R!Return, R!Advance, ReadLabels
  <1>3. parsed = step /\ parsed' = step'
    BY <1>2 DEF parsed, PrintLabels, ReadLabels
  <1>4. \A o, n : R!Peek(o, n) = P!Peek(o, n)
    BY DEF R!Peek, P!Peek, R!Outside, P!Outside
  <1>5. \A o : /\ R!HeaderAt(o) = P!HeaderAt(o)
              /\ R!InfoAt(o) = P!InfoAt(o) /\ R!FieldsAt(o) = P!FieldsAt(o)
              /\ R!CupsAt(o) = P!CupsAt(o) /\ R!TrackAt(o) = P!TrackAt(o)
    BY <1>4 DEF R!HeaderAt, P!HeaderAt, R!InfoAt, P!InfoAt, R!FieldsAt,
                P!FieldsAt, R!CupsAt, P!CupsAt, R!TrackAt, P!TrackAt,
                R!MOD_NAME_MAX, P!MOD_NAME_MAX
  <1>6. \A o, label : R!Advance(o, label) => P!Advance(o, label)
    BY <1>3 DEF R!Advance, P!Advance
  <1>7. R!ReadTracks = P!ReadTracks
    BY DEF R!ReadTracks, P!ReadTracks, R!U16, P!U16
  <1> USE <1>1, <1>3, <1>4, <1>5, <1>6, <1>7
      DEF R!structVars, P!structVars, R!arrayVars, P!arrayVars
  <1>8. R!ReadFileHeader => P!ReadFileHeader
    BY DEF R!ReadFileHeader, P!ReadFileHeader, R!FILE_MAGIC, P!FILE_MAGIC,
           R!HeaderSize, P!HeaderSize, R!MOD_NAME_MAX, P!MOD_NAME_MAX
  <1>9. R!ReadFileInfo => P!ReadFileInfo
    BY DEF R!ReadFileInfo, P!ReadFileInfo, R!INFO_MAGIC, P!INFO_MAGIC,
           R!InfoSize, P!InfoSize
  <1>10. R!ReadCupsHeader => P!ReadCupsHeader
    BY DEF R!ReadCupsHeader, P!ReadCupsHeader, R!CUPS_MAGIC, P!CUPS_MAGIC,
           R!CupsSize, P!CupsSize
  <1>11. R!AllocTracks => P!AllocTracks
    BY DEF R!AllocTracks, P!AllocTracks
  <1>12. R!ReadTrackEntry => P!ReadTrackEntry
    BY DEF R!ReadTrackEntry, P!ReadTrackEntry, R!TrackSize, P!TrackSize
  <1>13. R!AllocAlphabet => P!AllocAlphabet
    BY DEF R!AllocAlphabet, P!AllocAlphabet
  <1>14. R!ReadAlphabetEntry => P!ReadAlphabetEntry
    BY DEF R!ReadAlphabetEntry, P!ReadAlphabetEntry, R!AlphabetSize,
           P!AlphabetSize
  <1>15. R!Return => P!Return
    BY DEF R!Return, P!Return
  <1>16. QED
    BY <1>2, <1>8, <1>9, <1>10, <1>11, <1>12, <1>13, <1>14, <1>15
       DEF R!ReaderNext, P!ReaderNext

(* Whatever command_cat is at, what it does to the buffer is a step of     *)
(* buffer_from_file and its callers, or none.                              *)
LEMMA SessionLoads == SessionNext => [BufferNext]_fbVars
  BY DEF SessionNext, CommandCat, LoadFile, OtherProcesses, ReadFile, PrintFile,
         PrintTrackEntry, TracksPrinted, PrintAlphabetEntry, AlphabetPrinted,
         Printing, BufferNext

(* What fread has filled are bytes.                                        *)
LEMMA BufferHoldsBytes ==
  ASSUME BufferInv, FromVersions
  PROVE  bytes \in Seq(Byte)
  <1>1. bytes \in Seq(Nat) /\ versions \subseteq Contents
    BY DEF BufferInv, BufferTypeOK
  <1>2. ASSUME NEW k \in 1 .. Len(bytes)
        PROVE  bytes[k] \in Byte
    <2>1. PICK v \in versions : k <= Len(v) /\ v[k] = bytes[k]
      BY DEF FromVersions
    <2>2. v \in Seq(Byte)
      BY <1>1, SessionAssumption
    <2>3. QED
      BY <2>1, <2>2
  <1>3. QED
    BY <1>1, <1>2


(***************************************************************************)
(* The inductive invariant.                                                *)
(***************************************************************************)
(* How far loading, parsing and printing are of each other: nothing is     *)
(* parsed before something was got, the buffer is live as long as it is    *)
(* being parsed, and only when it is freed the printers are called.        *)
LoadedInStep ==
  /\ pc \notin {"free", "fclose_file", "returned"} => result = << >>
  /\ result # << >> => Len(result) = size
  /\ result = << >> \/ caller # "cat" => step = "header"
  /\ caller = "cat" /\ result # << >> =>
       \/ pc = "free" /\ heap = "live" /\ step \notin PrintLabels
       \/ pc = "returned" /\ step \in PrintLabels \cup {"read"}

(* What was parsed is in step with what was got. *)
ParsedInStep ==
  /\ P!ReaderInv /\ P!ArraysFilled
  /\ step = "header" => offset = 0 /\ reported = {}

(* What the printers have put on stdout of the struct when they have been  *)
(* called for so many tracks.                                              *)
HeadersShown ==
  PrintedHeader(f_hdr) \o PrintedInfo(i_hdr) \o PrintedFields(i_fld)
    \o PrintedCups(c_hdr)
TracksShown(n) ==
  [j \in 1 .. 5 * n |->
     PrintedTrack(t_arr[((j - 1) \div 5) + 1], (j - 1) \div 5)[((j - 1) % 5) + 1]]
AlphabetShown(n) == [j \in 1 .. n |-> Middle(alphabet_table[j])]

(* How many tracks each printer prints, as the options ask. *)
AllTracks   == IF state.show_tracks THEN PrintTracks(c_hdr) ELSE 0
AllAlphabet == IF state.show_alphabet_table THEN PrintAlphabet(c_hdr) ELSE 0

ShownInStep ==
  /\ i \in Nat /\ state \in AppStates
  /\ step = "print_tracks" =>
       i <= AllTracks /\ shown = HeadersShown \o TracksShown(i)
  /\ step = "print_alphabet" =>
       /\ i <= AllAlphabet
       /\ shown = (HeadersShown \o TracksShown(AllTracks)) \o AlphabetShown(i)
  /\ step = "exit" =>
       shown = (HeadersShown \o TracksShown(AllTracks)) \o AlphabetShown(AllAlphabet)

SessionInv ==
  BufferInv /\ FromVersions /\ LoadedInStep /\ ParsedInStep /\ ShownInStep

(* command_cat starts in the invariant, whatever the stack holds.          *)
LEMMA SessionInitially == SessionInit => SessionInv
  <1> SUFFICES ASSUME SessionInit PROVE SessionInv
    OBVIOUS
  <1>1. BufferInv /\ FromVersions
    BY BufferInitially, SourceInitially DEF SessionInit
  <1>2. result = << >> /\ step = "header" /\ parsed = "header"
    BY DEF SessionInit, BufferInit, parsed, PrintLabels
  <1>3. LoadedInStep
    BY <1>2 DEF LoadedInStep
  <1>4. ShownInStep
    BY <1>2 DEF SessionInit, ShownInStep
  <1>5. Memories \subseteq P!Memory /\ StackStructs \subseteq P!PulStruct
    BY ReaderAssumptions DEF P!MemoryAssumption, P!StackAssumption
  <1>6. /\ f_hdr \in P!FileHeader /\ i_hdr \in P!InfoHeader
        /\ i_fld \in P!InfoFields /\ c_hdr \in P!CupsHeader
    <2>1. PICK stack \in StackStructs :
            /\ f_hdr = stack.f_hdr /\ i_hdr = stack.i_hdr
            /\ i_fld = stack.i_fld /\ c_hdr = stack.c_hdr
      BY DEF SessionInit
    <2>2. QED
      BY <1>5, <2>1 DEF P!PulStruct
  <1>7. P!ReaderTypeOK
    BY <1>2, <1>5, <1>6 DEF SessionInit, P!ReaderTypeOK
  <1>8. Len(result) = 0
    BY <1>2
  <1>9. P!ReadsInBounds /\ P!CursorInStep /\ P!ArraysFilled
    BY <1>2, <1>8
       DEF SessionInit, P!ReadsInBounds, P!CursorInStep, P!ArraysFilled,
           P!WellFormed
  <1>10. QED
    BY <1>1, <1>2, <1>3, <1>4, <1>7, <1>9
       DEF SessionInv, ParsedInStep, P!ReaderInv, SessionInit

(***************************************************************************)
(* Loading, and what others do.                                            *)
(***************************************************************************)
(* Each step keeps what is known of the buffer.                            *)
LEMMA SessionKeepsBuffer ==
  ASSUME BufferInv, FromVersions, [SessionNext]_sessionVars
  PROVE  BufferInv' /\ FromVersions'
  <1>1. [BufferNext]_fbVars
    BY SessionLoads DEF sessionVars
  <1>2. BufferInv'
    BY <1>1, BufferStep
  <1>3. CASE UNCHANGED fbVars
    BY <1>2, <1>3 DEF fbVars, diskVars, bufferVars, FromVersions, Loading, Reading
  <1>4. QED
    BY <1>1, <1>2, <1>3, SourceKept, SourceStep DEF BufferNext

(* Parsing starts anew with the buffer that is got.                        *)
LEMMA GotIsNotParsed ==
  ASSUME ParsedInStep, UNCHANGED <<parsedVars, step>>, result' \in Seq(Byte),
         result' = result \/ step = "header"
  PROVE  ParsedInStep'
  <1>1. /\ UNCHANGED <<memory, offset, f_hdr, i_hdr, i_fld, c_hdr, t_arr,
                       alphabet_table, t_cap, alphabet_cap, reported>>
        /\ parsed' = parsed
    BY DEF parsedVars, parsed
  <1>2. CASE result' = result
    <2>1. UNCHANGED P!readerVars
      BY <1>1, <1>2 DEF P!readerVars, P!structVars, P!arrayVars
    <2>2. P!ReaderInv'
      BY <2>1, P!InvNext, ReaderAssumptions DEF ParsedInStep
    <2>3. P!ArraysFilled'
      BY <1>1 DEF ParsedInStep, P!ArraysFilled, P!ReadTracks
    <2>4. QED
      BY <1>1, <2>2, <2>3 DEF ParsedInStep
  <1>3. CASE step = "header"
    <2>1. parsed' = "header" /\ offset' = 0 /\ reported' = {}
      BY <1>1, <1>3 DEF ParsedInStep, parsed, PrintLabels
    <2>2. result' \in Seq(P!Byte) /\ Len(result') \in Nat
      BY DEF Byte, P!Byte
    <2>3. P!ReaderTypeOK'
      BY <1>1, <2>1, <2>2 DEF ParsedInStep, P!ReaderInv, P!ReaderTypeOK
    <2>4. P!ArraysFilled'
      BY <1>1 DEF ParsedInStep, P!ArraysFilled, P!ReadTracks
    <2>5. P!ReadsInBounds'
      BY <2>1, <2>2 DEF P!ReadsInBounds
    <2>6. P!CursorInStep'
      BY <2>1, <2>4 DEF P!CursorInStep, P!ArraysFilled
    <2>7. QED
      BY <1>1, <2>1, <2>3, <2>4, <2>5, <2>6 DEF ParsedInStep, P!ReaderInv
  <1>4. QED
    BY <1>2, <1>3


(* What a step of loading makes of what was got.                           *)
LEMMA WhatIsGot ==
  ASSUME BufferInv, FromVersions, LoadedInStep, LoadFile
  PROVE  /\ result' \in Seq(Byte) \/ result' = result
         /\ result' = result \/ (pc = "loaded" /\ step = "header")
         /\ LoadedInStep'
  <1>1. /\ Program /\ (pc = "free" => MayFree)
        /\ step' = step /\ caller' = caller
    BY DEF LoadFile, Program, OpenFile, OpenFp, Measure, Malloc, Fread, FreadFull,
           FreadShort, FreadFault, Use, Free, CloseFile
  <1>2. CASE Use
    <2>1. /\ pc = "loaded" /\ result' = SubSeq(bytes, 1, size)
          /\ size' = size /\ heap' = heap
          /\ pc' = IF caller = "cat" /\ size = 0 THEN "returned" ELSE "free"
      BY <1>2 DEF Use
    <2>2. result = << >> /\ step = "header"
      BY <2>1 DEF LoadedInStep
    <2>3. size \in Nat /\ size <= Len(bytes) /\ (size # 0 => heap = "live")
      BY <2>1 DEF BufferInv, BufferTypeOK, Filled
    <2>4. bytes \in Seq(Nat) /\ bytes \in Seq(Byte)
      BY BufferHoldsBytes DEF BufferInv, BufferTypeOK
    <2>5. Len(SubSeq(bytes, 1, size)) = size
      BY <2>3, <2>4, FirstBytes
    <2>6. SubSeq(bytes, 1, size) \in Seq(Byte)
      <3>1. size \in Int /\ 1 \in Int /\ Len(bytes) \in Nat
        BY <2>3, <2>4
      <3>2. \A k \in 1 .. size : bytes[k] \in Byte
        BY <2>3, <2>4, <3>1, ElementOfSeq
      <3>3. QED
        BY <3>1, <3>2, SubSeqProperties
    <2>7. result' # << >> => size # 0
      <3>1. CASE size = 0
        BY <2>1, <3>1, SubSeqEmpty
      <3>2. QED
        BY <3>1
    <2>8. LoadedInStep'
      BY <1>1, <2>1, <2>2, <2>3, <2>5, <2>7 DEF LoadedInStep, PrintLabels
    <2>9. QED
      BY <2>1, <2>2, <2>6, <2>8
  <1>3. CASE Free
    BY <1>1, <1>3 DEF Free, MayFree, LoadedInStep, PrintLabels,
                     ChecksumCallers
  <1>4. CASE CloseFile
    BY <1>1, <1>4 DEF CloseFile, LoadedInStep, BufferInv, Handles, ChecksumCallers
  <1>5. CASE FreadShort
    BY <1>1, <1>5 DEF FreadShort, Give, LoadedInStep
  <1>6. CASE OpenFile \/ OpenFp \/ Measure \/ Malloc \/ Fread \/ FreadFull \/ FreadFault
    <2>1. /\ pc \in {"fopen_file", "fopen_fp", "ftell", "malloc", "fread"}
          /\ result' = result
      BY <1>6 DEF OpenFile, OpenFp, Measure, Malloc, Fread, FreadFull, FreadFault
    <2>2. QED
      BY <1>1, <2>1 DEF LoadedInStep
  <1>7. QED
    BY <1>1, <1>2, <1>3, <1>4, <1>5, <1>6 DEF Program

(* What is printed of a struct depends on it and on the options alone.     *)
LEMMA PrintsStable ==
  ASSUME UNCHANGED <<f_hdr, i_hdr, i_fld, c_hdr, t_arr, alphabet_table, state>>
  PROVE  /\ HeadersShown' = HeadersShown
         /\ \A n \in Nat : TracksShown(n)' = TracksShown(n)
         /\ \A n \in Nat : AlphabetShown(n)' = AlphabetShown(n)
         /\ AllTracks' = AllTracks /\ AllAlphabet' = AllAlphabet
  <1>1. HeadersShown' = HeadersShown
    BY DEF HeadersShown
  <1>2. \A n \in Nat : TracksShown(n)' = TracksShown(n)
    BY DEF TracksShown
  <1>3. \A n \in Nat : AlphabetShown(n)' = AlphabetShown(n)
    BY DEF AlphabetShown
  <1>4. AllTracks' = AllTracks /\ AllAlphabet' = AllAlphabet
    BY DEF AllTracks, AllAlphabet
  <1>5. QED
    BY <1>1, <1>2, <1>3, <1>4

(* How many tracks the printers count is how many read_file has counted.   *)
LEMMA PrintersCount ==
  ASSUME ParsedInStep
  PROVE  /\ PrintTracks(c_hdr) = P!ReadTracks /\ PrintAlphabet(c_hdr) = P!ReadTracks
         /\ P!ReadTracks \in Nat /\ AllTracks \in Nat /\ AllAlphabet \in Nat
  <1>1. /\ PrintTracks(c_hdr) = P!ReadTracks /\ PrintAlphabet(c_hdr) = P!ReadTracks
    BY DEF PrintTracks, PrintAlphabet, P!ReadTracks, U16, P!U16
  <1>2. P!ReadTracks \in Nat
    BY P!ReadTracksType, ReaderAssumptions
       DEF ParsedInStep, P!ReaderInv, P!ReaderTypeOK
  <1>3. QED
    BY <1>1, <1>2 DEF AllTracks, AllAlphabet

(* A step that neither parses nor prints keeps what was shown in step.     *)
LEMMA ShownKept ==
  ASSUME ParsedInStep, ShownInStep, UNCHANGED <<parsedVars, step, printVars>>
  PROVE  ShownInStep'
  <1>1. /\ i' = i /\ state' = state /\ step' = step /\ shown' = shown
        /\ UNCHANGED <<f_hdr, i_hdr, i_fld, c_hdr, t_arr, alphabet_table, state>>
    BY DEF parsedVars, printVars
  <1>2. AllTracks \in Nat /\ AllAlphabet \in Nat
    BY PrintersCount
  <1>3. /\ HeadersShown' = HeadersShown
        /\ AllTracks' = AllTracks /\ AllAlphabet' = AllAlphabet
    BY <1>1, PrintsStable
  <1>4. i \in Nat
    BY DEF ShownInStep
  <1>5. /\ TracksShown(i)' = TracksShown(i) /\ AlphabetShown(i)' = AlphabetShown(i)
        /\ TracksShown(AllTracks)' = TracksShown(AllTracks)
        /\ AlphabetShown(AllAlphabet)' = AlphabetShown(AllAlphabet)
    BY <1>1, <1>3 DEF TracksShown, AlphabetShown
  <1>6. QED
    BY <1>1, <1>3, <1>5 DEF ShownInStep

(* Loading keeps the invariant.                                            *)
LEMMA LoadFileKeepsInv ==
  ASSUME SessionInv, LoadFile
  PROVE  LoadedInStep' /\ ParsedInStep' /\ ShownInStep'
  <1>1. /\ UNCHANGED <<parsedVars, step, printVars>>
    BY DEF LoadFile
  <1>2. /\ LoadedInStep' /\ (result' = result \/ step = "header")
        /\ result' \in Seq(Byte) \/ result' = result
    BY WhatIsGot DEF SessionInv
  <1>3. result \in Seq(Byte)
    BY DEF SessionInv, ParsedInStep, P!ReaderInv, P!ReaderTypeOK, Byte, P!Byte
  <1>4. ParsedInStep'
    BY <1>1, <1>2, <1>3, GotIsNotParsed DEF SessionInv
  <1>5. ShownInStep'
    BY <1>1, ShownKept DEF SessionInv
  <1>6. QED
    BY <1>2, <1>4, <1>5

(* What others do to files does not reach what was got.                    *)
LEMMA OthersKeepInv ==
  ASSUME SessionInv, OtherProcesses \/ UNCHANGED sessionVars
  PROVE  LoadedInStep' /\ ParsedInStep' /\ ShownInStep'
  <1>1. UNCHANGED bufferVars /\ UNCHANGED <<parsedVars, step, printVars>>
    BY DEF OtherProcesses, Others, Replace, Rewrite, Remove, MayChange,
           sessionVars, fbVars
  <1>2. /\ result' = result /\ pc' = pc /\ size' = size /\ caller' = caller
        /\ heap' = heap /\ step' = step
    BY <1>1 DEF bufferVars
  <1>3. LoadedInStep'
    BY <1>2 DEF SessionInv, LoadedInStep
  <1>4. result' \in Seq(Byte)
    BY <1>2 DEF SessionInv, ParsedInStep, P!ReaderInv, P!ReaderTypeOK, Byte, P!Byte
  <1>5. ParsedInStep'
    BY <1>1, <1>2, <1>4, GotIsNotParsed DEF SessionInv
  <1>6. ShownInStep'
    BY <1>1, ShownKept DEF SessionInv
  <1>7. QED
    BY <1>3, <1>5, <1>6


(***************************************************************************)
(* Parsing.                                                                *)
(***************************************************************************)
(* A step of read_file keeps the invariant: the buffer it reads is live.   *)
LEMMA ReadFileKeepsInv ==
  ASSUME SessionInv, ReadFile
  PROVE  LoadedInStep' /\ ParsedInStep' /\ ShownInStep'
  <1>1. /\ caller = "cat" /\ result # << >> /\ R!ReaderNext
        /\ UNCHANGED fbVars /\ UNCHANGED printVars
    BY DEF ReadFile
  <1>2. step \in ReadLabels /\ step' # "header"
    BY <1>1 DEF R!ReaderNext, R!ReadFileHeader, R!ReadFileInfo, R!ReadCupsHeader,
           R!AllocTracks, R!ReadTrackEntry, R!AllocAlphabet,
           R!ReadAlphabetEntry, R!Return, R!Advance, ReadLabels
  <1>3. pc = "free" /\ heap = "live"
    BY <1>1, <1>2 DEF SessionInv, LoadedInStep, PrintLabels, ReadLabels
  <1>4. InMemory = result
    BY <1>3 DEF InMemory
  <1>5. P!ReaderNext /\ step' \in ReadLabels \cup {"read", "fault"}
    BY <1>1, <1>2, <1>4, ReadsTheResult
  <1>6. /\ result' = result /\ pc' = pc /\ heap' = heap /\ caller' = caller
        /\ size' = size
    BY <1>1 DEF fbVars, bufferVars
  <1>7. P!ReaderInv'
    BY <1>5, P!InvNext, ReaderAssumptions DEF SessionInv, ParsedInStep
  <1>8. P!ArraysFilled'
    BY <1>5, P!FillStep, ReaderAssumptions DEF SessionInv, ParsedInStep, P!ReaderInv
  <1>9. ParsedInStep'
    BY <1>2, <1>7, <1>8 DEF ParsedInStep
  <1>10. LoadedInStep'
    BY <1>1, <1>3, <1>5, <1>6 DEF SessionInv, LoadedInStep, PrintLabels, ReadLabels
  <1>11. ShownInStep'
    BY <1>1, <1>5 DEF SessionInv, ShownInStep, printVars, ReadLabels
  <1>12. QED
    BY <1>9, <1>10, <1>11

(***************************************************************************)
(* Printing.                                                               *)
(***************************************************************************)
(* The place of the kth number of track n among those of all tracks.       *)
LEMMA PlaceOfTrack ==
  \A n \in Nat : \A k \in 1 .. 5 :
    ((5 * n + k) - 1) \div 5 = n /\ ((5 * n + k) - 1) % 5 = k - 1
  OBVIOUS

(* All that the printers may print of a struct.                            *)
Items ==
  {PrintedHeader(f_hdr)[k] : k \in 1 .. 6} \cup {PrintedInfo(i_hdr)[k] : k \in 1 .. 3}
    \cup {PrintedFields(i_fld)[k] : k \in 1 .. 12}
    \cup {PrintedCups(c_hdr)[k] : k \in 1 .. 10}
    \cup {PrintedTrack(t_arr[k + 1], k)[j] : k \in Nat, j \in 1 .. 5}
    \cup {Middle(alphabet_table[k]) : k \in Nat}

(* What is shown of the headers is a sequence of items.                    *)
LEMMA HeadersAreItems == HeadersShown \in Seq(Items)
  <1>1. PrintedHeader(f_hdr) \in Seq(Items)
    <2>1. PrintedHeader(f_hdr) \in Seq({PrintedHeader(f_hdr)[k] : k \in 1 .. 6})
      BY DEF PrintedHeader
    <2>2. QED
      BY <2>1 DEF Items
  <1>2. PrintedInfo(i_hdr) \in Seq(Items)
    <2>1. PrintedInfo(i_hdr) \in Seq({PrintedInfo(i_hdr)[k] : k \in 1 .. 3})
      BY DEF PrintedInfo
    <2>2. QED
      BY <2>1 DEF Items
  <1>3. PrintedFields(i_fld) \in Seq(Items)
    <2>1. PrintedFields(i_fld) \in Seq({PrintedFields(i_fld)[k] : k \in 1 .. 12})
      BY DEF PrintedFields
    <2>2. QED
      BY <2>1 DEF Items
  <1>4. PrintedCups(c_hdr) \in Seq(Items)
    <2>1. PrintedCups(c_hdr) \in Seq({PrintedCups(c_hdr)[k] : k \in 1 .. 10})
      BY DEF PrintedCups
    <2>2. QED
      BY <2>1 DEF Items
  <1>5. PrintedHeader(f_hdr) \o PrintedInfo(i_hdr) \in Seq(Items)
    BY <1>1, <1>2, ConcatProperties
  <1>6. (PrintedHeader(f_hdr) \o PrintedInfo(i_hdr)) \o PrintedFields(i_fld) \in Seq(Items)
    BY <1>3, <1>5, ConcatProperties
  <1>7. QED
    BY <1>4, <1>6, ConcatProperties DEF HeadersShown

(* So is what is shown of the tracks: five items of each, each track added *)
(* behind those before.                                                    *)
LEMMA TracksAreItems ==
  ASSUME NEW n \in Nat
  PROVE  /\ TracksShown(n) \in Seq(Items) /\ Len(TracksShown(n)) = 5 * n
         /\ PrintedTrack(t_arr[n + 1], n) \in Seq(Items)
         /\ TracksShown(n) \o PrintedTrack(t_arr[n + 1], n) = TracksShown(n + 1)
  <1> DEFINE B == PrintedTrack(t_arr[n + 1], n)
  <1>1. \A m \in Nat : TracksShown(m) \in Seq(Items) /\ Len(TracksShown(m)) = 5 * m
    <2> SUFFICES ASSUME NEW m \in Nat
                 PROVE  TracksShown(m) \in Seq(Items) /\ Len(TracksShown(m)) = 5 * m
      OBVIOUS
    <2>1. ASSUME NEW j \in 1 .. 5 * m
          PROVE  TracksShown(m)[j] \in Items
      <3>1. (j - 1) \div 5 \in Nat /\ ((j - 1) % 5) + 1 \in 1 .. 5
        OBVIOUS
      <3>2. PICK k \in Nat, l \in 1 .. 5 : k = (j - 1) \div 5 /\ l = ((j - 1) % 5) + 1
        BY <3>1
      <3>3. TracksShown(m)[j] = PrintedTrack(t_arr[k + 1], k)[l]
        BY <2>1, <3>2 DEF TracksShown
      <3>4. QED
        BY <3>3 DEF Items
    <2>2. TracksShown(m) \in [1 .. 5 * m -> Items]
      BY <2>1 DEF TracksShown
    <2>3. 5 * m \in Nat
      OBVIOUS
    <2>4. QED
      BY <2>2, <2>3
  <1>2. B \in Seq(Items) /\ Len(B) = 5
    <2>1. ASSUME NEW k \in 1 .. 5
          PROVE  PrintedTrack(t_arr[n + 1], n)[k] \in Items
      BY DEF Items
    <2>2. B \in Seq({B[k] : k \in 1 .. 5}) /\ Len(B) = 5
      BY DEF PrintedTrack
    <2>3. {B[k] : k \in 1 .. 5} \subseteq Items
      BY <2>1
    <2> HIDE DEF B
    <2>4. QED
      BY <2>2, <2>3
  <1>3. ASSUME NEW k \in 1 .. 5
        PROVE  TracksShown(n + 1)[5 * n + k] = B[k]
    <2>1. 5 * n + k \in 1 .. 5 * (n + 1)
      OBVIOUS
    <2>2. ((5 * n + k) - 1) \div 5 = n /\ ((5 * n + k) - 1) % 5 = k - 1
      BY PlaceOfTrack
    <2>3. (k - 1) + 1 = k
      OBVIOUS
    <2>4. QED
      BY <2>1, <2>2, <2>3 DEF TracksShown
  <1>4. ASSUME NEW j \in 1 .. 5 * n
        PROVE  TracksShown(n + 1)[j] = TracksShown(n)[j]
    <2>1. j \in 1 .. 5 * (n + 1)
      OBVIOUS
    <2>2. QED
      BY <2>1 DEF TracksShown
  <1> HIDE DEF B
  <1>5. /\ TracksShown(n) \o B \in Seq(Items)
        /\ Len(TracksShown(n) \o B) = 5 * n + 5
        /\ \A j \in 1 .. 5 * n + 5 :
             (TracksShown(n) \o B)[j] =
               IF j <= 5 * n THEN TracksShown(n)[j] ELSE B[j - 5 * n]
    <2>1. TracksShown(n) \in Seq(Items) /\ Len(TracksShown(n)) = 5 * n
      BY <1>1
    <2>2. /\ TracksShown(n) \o B \in Seq(Items)
          /\ Len(TracksShown(n) \o B) = Len(TracksShown(n)) + Len(B)
          /\ \A j \in 1 .. Len(TracksShown(n)) + Len(B) :
               (TracksShown(n) \o B)[j] =
                 IF j <= Len(TracksShown(n)) THEN TracksShown(n)[j]
                 ELSE B[j - Len(TracksShown(n))]
      BY <1>2, <2>1, ConcatProperties, Zenon
    <2>3. QED
      BY <1>2, <2>1, <2>2
  <1>6. /\ TracksShown(n + 1) \in Seq(Items) /\ Len(TracksShown(n + 1)) = 5 * n + 5
    BY <1>1
  <1>7. ASSUME NEW j \in 1 .. 5 * n + 5
        PROVE  (TracksShown(n) \o B)[j] = TracksShown(n + 1)[j]
    <2>1. CASE j <= 5 * n
      BY <1>4, <1>5, <2>1
    <2>2. CASE ~(j <= 5 * n)
      <3>1. PICK k \in 1 .. 5 : j = 5 * n + k /\ j - 5 * n = k
        BY <2>2
      <3>2. QED
        BY <1>3, <1>5, <2>2, <3>1
    <2>3. QED
      BY <2>1, <2>2
  <1>8. TracksShown(n) \o B = TracksShown(n + 1)
    BY <1>5, <1>6, <1>7, SeqEqual
  <1>9. QED
    BY <1>1, <1>2, <1>8 DEF B

(* And what is shown of the alphabet: one item after the other.            *)
LEMMA AlphabetIsItems ==
  ASSUME NEW n \in Nat
  PROVE  /\ AlphabetShown(n) \in Seq(Items) /\ Len(AlphabetShown(n)) = n
         /\ Append(AlphabetShown(n), Middle(alphabet_table[n + 1])) = AlphabetShown(n + 1)
  <1>1. \A m \in Nat : AlphabetShown(m) \in [1 .. m -> Items]
    BY DEF AlphabetShown, Items
  <1>2. Middle(alphabet_table[n + 1]) \in Items
    BY DEF Items
  <1>3. /\ AlphabetShown(n) \in Seq(Items) /\ Len(AlphabetShown(n)) = n
        /\ AlphabetShown(n + 1) \in Seq(Items) /\ Len(AlphabetShown(n + 1)) = n + 1
    BY <1>1
  <1>4. \A k \in 1 .. n + 1 :
          Append(AlphabetShown(n), Middle(alphabet_table[n + 1]))[k] = AlphabetShown(n + 1)[k]
    <2>1. \A k \in 1 .. n : AlphabetShown(n)[k] = AlphabetShown(n + 1)[k]
      BY DEF AlphabetShown
    <2>2. AlphabetShown(n + 1)[n + 1] = Middle(alphabet_table[n + 1])
      BY DEF AlphabetShown
    <2>3. QED
      BY <1>3, <2>1, <2>2
  <1>5. QED
    BY <1>2, <1>3, <1>4, SeqEqual


(* What is shown at each point is a sequence of items.                     *)
LEMMA ShownAreItems ==
  ASSUME NEW n \in Nat, NEW m \in Nat
  PROVE  /\ HeadersShown \o TracksShown(n) \in Seq(Items)
         /\ (HeadersShown \o TracksShown(n)) \o PrintedTrack(t_arr[n + 1], n)
              = HeadersShown \o TracksShown(n + 1)
         /\ Append((HeadersShown \o TracksShown(n)) \o AlphabetShown(m),
                   Middle(alphabet_table[m + 1]))
              = (HeadersShown \o TracksShown(n)) \o AlphabetShown(m + 1)
  <1>1. /\ TracksShown(n) \in Seq(Items) /\ PrintedTrack(t_arr[n + 1], n) \in Seq(Items)
        /\ TracksShown(n) \o PrintedTrack(t_arr[n + 1], n) = TracksShown(n + 1)
    BY TracksAreItems
  <1>2. HeadersShown \in Seq(Items)
    BY HeadersAreItems
  <1>3. HeadersShown \o TracksShown(n) \in Seq(Items)
    BY <1>1, <1>2, ConcatProperties, Zenon
  <1>4. (HeadersShown \o TracksShown(n)) \o PrintedTrack(t_arr[n + 1], n)
          = HeadersShown \o (TracksShown(n) \o PrintedTrack(t_arr[n + 1], n))
    <2>1. ASSUME NEW s \in Seq(Items), NEW t \in Seq(Items), NEW u \in Seq(Items)
          PROVE  (s \o t) \o u = s \o (t \o u)
      BY ConcatAssociative
    <2>2. QED
      BY <1>1, <1>2, <2>1, Zenon
  <1> DEFINE front == HeadersShown \o TracksShown(n)
             e     == Middle(alphabet_table[m + 1])
  <1>5. Append(front \o AlphabetShown(m), e) = front \o AlphabetShown(m + 1)
    <2>1. /\ AlphabetShown(m) \in Seq(Items)
          /\ Append(AlphabetShown(m), e) = AlphabetShown(m + 1)
      BY AlphabetIsItems
    <2>2. front \in Seq(Items) /\ e \in Items
      BY <1>3 DEF Items
    <2> HIDE DEF front, e
    <2>3. \A s \in Seq(Items) : Append(s, e) = s \o <<e>>
      BY <2>2
    <2>4. front \o AlphabetShown(m) \in Seq(Items) /\ <<e>> \in Seq(Items)
      BY <2>1, <2>2, ConcatProperties
    <2>5. (front \o AlphabetShown(m)) \o <<e>> = front \o (AlphabetShown(m) \o <<e>>)
      BY <2>1, <2>2, <2>4, ConcatAssociative, SMTT(30)
    <2>6. QED
      BY <2>1, <2>3, <2>4, <2>5
  <1>6. QED
    BY <1>1, <1>3, <1>4, <1>5

(* Before a printer is called the first time it has shown nothing.         *)
LEMMA NothingShown ==
  /\ HeadersShown \o TracksShown(0) = HeadersShown
  /\ \A n \in Nat : (HeadersShown \o TracksShown(n)) \o AlphabetShown(0)
                      = HeadersShown \o TracksShown(n)
  <1>1. TracksShown(0) = << >> /\ AlphabetShown(0) = << >>
    BY DEF TracksShown, AlphabetShown
  <1>2. HeadersShown \o TracksShown(0) = HeadersShown
    BY <1>1, HeadersAreItems, ConcatEmptySeq, Zenon
  <1>3. ASSUME NEW n \in Nat
        PROVE  (HeadersShown \o TracksShown(n)) \o AlphabetShown(0)
                 = HeadersShown \o TracksShown(n)
    <2>1. HeadersShown \o TracksShown(n) \in Seq(Items)
      BY ShownAreItems
    <2>2. QED
      BY <1>1, <2>1, ConcatEmptySeq, Zenon
  <1>4. QED
    BY <1>2, <1>3

(* The printers keep the invariant.                                        *)
LEMMA PrintersKeepInv ==
  ASSUME SessionInv,
         \/ PrintFile \/ PrintTrackEntry \/ TracksPrinted
         \/ PrintAlphabetEntry \/ AlphabetPrinted
  PROVE  LoadedInStep' /\ ParsedInStep' /\ ShownInStep'
  <1>1. /\ caller = "cat" /\ pc = "returned" /\ step \in PrintLabels \cup {"read"}
        /\ step' \in PrintLabels
        /\ UNCHANGED <<fbVars, parsedVars, state>>
    BY DEF PrintFile, PrintTrackEntry, TracksPrinted, PrintAlphabetEntry,
           AlphabetPrinted, Printing, PrintLabels
  <1>2. parsed = "read" /\ parsed' = "read" /\ step # "header" /\ step' # "header"
    BY <1>1 DEF parsed, PrintLabels
  <1>3. /\ result' = result /\ pc' = pc /\ heap' = heap /\ caller' = caller
        /\ size' = size
    BY <1>1 DEF fbVars, bufferVars
  <1>4. LoadedInStep'
    BY <1>1, <1>2, <1>3 DEF SessionInv, LoadedInStep
  <1>5. ParsedInStep'
    <2>1. UNCHANGED P!readerVars
      BY <1>1, <1>2, <1>3 DEF parsedVars, P!readerVars, P!structVars, P!arrayVars
    <2>2. P!ReaderInv'
      BY <2>1, P!InvNext, ReaderAssumptions DEF SessionInv, ParsedInStep
    <2>3. P!ArraysFilled'
      BY <2>1, P!FillStep, ReaderAssumptions DEF SessionInv, ParsedInStep, P!ReaderInv
    <2>4. QED
      BY <1>2, <2>2, <2>3 DEF ParsedInStep
  <1>6. /\ HeadersShown' = HeadersShown
        /\ AllTracks' = AllTracks /\ AllAlphabet' = AllAlphabet
    BY <1>1, PrintsStable DEF parsedVars
  <1>7. /\ AllTracks \in Nat /\ AllAlphabet \in Nat /\ i \in Nat
        /\ state' = state /\ state \in AppStates
        /\ t_arr' = t_arr /\ alphabet_table' = alphabet_table
    BY <1>1, PrintersCount DEF SessionInv, ShownInStep, parsedVars
  <1>8. /\ TracksShown(AllTracks)' = TracksShown(AllTracks)
        /\ AlphabetShown(AllAlphabet)' = AlphabetShown(AllAlphabet)
        /\ \A n \in Nat : i' = n =>
             TracksShown(i)' = TracksShown(n) /\ AlphabetShown(i)' = AlphabetShown(n)
    BY <1>6, <1>7 DEF TracksShown, AlphabetShown
  <1>9. /\ PrintTracks(c_hdr) \in Nat /\ PrintAlphabet(c_hdr) \in Nat
        /\ AllTracks = IF state.show_tracks THEN PrintTracks(c_hdr) ELSE 0
        /\ AllAlphabet = IF state.show_alphabet_table THEN PrintAlphabet(c_hdr) ELSE 0
    BY PrintersCount DEF SessionInv, AllTracks, AllAlphabet
  <1>10. ShownInStep'
    <2>1. CASE PrintFile
      <3>1. /\ step' = "print_tracks" /\ i' = 0 /\ shown' = HeadersShown
        BY <2>1 DEF PrintFile, HeadersShown
      <3>2. shown' = HeadersShown \o TracksShown(0)
        BY <3>1, NothingShown
      <3>3. TracksShown(i)' = TracksShown(0)
        BY <1>8, <3>1
      <3>4. QED
        BY <1>6, <1>7, <3>1, <3>2, <3>3 DEF ShownInStep
    <2>2. CASE PrintTrackEntry
      <3>1. /\ step = "print_tracks" /\ step' = "print_tracks" /\ i' = i + 1
            /\ state.show_tracks /\ i < PrintTracks(c_hdr)
            /\ shown' = shown \o PrintedTrack(t_arr[i + 1], i)
        BY <2>2 DEF PrintTrackEntry, Printing
      <3>2. shown = HeadersShown \o TracksShown(i)
        BY <3>1 DEF SessionInv, ShownInStep
      <3>3. shown' = HeadersShown \o TracksShown(i + 1)
        BY <1>7, <3>1, <3>2, ShownAreItems
      <3>4. TracksShown(i)' = TracksShown(i + 1)
        BY <1>7, <1>8, <3>1
      <3>5. i + 1 <= AllTracks
        BY <1>7, <1>9, <3>1
      <3>6. QED
        BY <1>6, <1>7, <3>1, <3>3, <3>4, <3>5 DEF ShownInStep
    <2>3. CASE TracksPrinted
      <3>1. /\ step = "print_tracks" /\ step' = "print_alphabet" /\ i' = 0
            /\ state.show_tracks => i >= PrintTracks(c_hdr)
            /\ shown' = shown
        BY <2>3 DEF TracksPrinted, Printing
      <3>2. shown = HeadersShown \o TracksShown(i) /\ i <= AllTracks
        BY <3>1 DEF SessionInv, ShownInStep
      <3>3. i = AllTracks
        BY <1>7, <1>9, <3>1, <3>2
      <3>4. shown' = (HeadersShown \o TracksShown(AllTracks)) \o AlphabetShown(0)
        BY <1>7, <3>1, <3>2, <3>3, NothingShown
      <3>5. AlphabetShown(i)' = AlphabetShown(0)
        BY <1>8, <3>1
      <3>6. QED
        BY <1>6, <1>7, <1>8, <3>1, <3>4, <3>5 DEF ShownInStep
    <2>4. CASE PrintAlphabetEntry
      <3>1. /\ step = "print_alphabet" /\ step' = "print_alphabet" /\ i' = i + 1
            /\ state.show_alphabet_table /\ i < PrintAlphabet(c_hdr)
            /\ shown' = Append(shown, Middle(alphabet_table[i + 1]))
        BY <2>4 DEF PrintAlphabetEntry, Printing
      <3>2. shown = (HeadersShown \o TracksShown(AllTracks)) \o AlphabetShown(i)
        BY <3>1 DEF SessionInv, ShownInStep
      <3>3. shown' = (HeadersShown \o TracksShown(AllTracks)) \o AlphabetShown(i + 1)
        BY <1>7, <3>1, <3>2, ShownAreItems
      <3>4. AlphabetShown(i)' = AlphabetShown(i + 1)
        BY <1>7, <1>8, <3>1
      <3>5. i + 1 <= AllAlphabet
        BY <1>7, <1>9, <3>1
      <3>6. QED
        BY <1>6, <1>7, <1>8, <3>1, <3>3, <3>4, <3>5 DEF ShownInStep
    <2>5. CASE AlphabetPrinted
      <3>1. /\ step = "print_alphabet" /\ step' = "exit" /\ i' = i
            /\ state.show_alphabet_table => i >= PrintAlphabet(c_hdr)
            /\ shown' = shown
        BY <2>5 DEF AlphabetPrinted, Printing
      <3>2. /\ shown = (HeadersShown \o TracksShown(AllTracks)) \o AlphabetShown(i)
            /\ i <= AllAlphabet
        BY <3>1 DEF SessionInv, ShownInStep
      <3>3. i = AllAlphabet
        BY <1>7, <1>9, <3>1, <3>2
      <3>4. QED
        BY <1>6, <1>7, <1>8, <3>1, <3>2, <3>3 DEF ShownInStep
    <2>6. QED
      BY <2>1, <2>2, <2>3, <2>4, <2>5
  <1>11. QED
    BY <1>4, <1>5, <1>10

(* No step of command_cat or of others leaves the invariant.               *)
LEMMA SessionStep == SessionInv /\ [SessionNext]_sessionVars => SessionInv'
  <1> SUFFICES ASSUME SessionInv, [SessionNext]_sessionVars PROVE SessionInv'
    OBVIOUS
  <1>1. BufferInv' /\ FromVersions'
    BY SessionKeepsBuffer DEF SessionInv
  <1>2. LoadedInStep' /\ ParsedInStep' /\ ShownInStep'
    BY LoadFileKeepsInv, OthersKeepInv, ReadFileKeepsInv, PrintersKeepInv
       DEF SessionNext, CommandCat
  <1>3. QED
    BY <1>1, <1>2 DEF SessionInv

(* The inductive invariant of command_cat. *)
THEOREM SessionInvariant == SessionSpec => []SessionInv
  <1>1. QED
    BY SessionInitially, SessionStep, PTL DEF SessionSpec

(* command_cat keeps the types of its variables, and its printers index no *)
(* entry that was not read and no element that malloc was not asked for.   *)
THEOREM SessionTypes == SessionSpec => []SessionTypeOK
  <1>1. SessionInv => SessionTypeOK
    <2> SUFFICES ASSUME SessionInv PROVE SessionTypeOK
      OBVIOUS
    <2>1. ParsedInStep /\ P!ReaderTypeOK /\ P!ArraysFilled
      BY DEF SessionInv, ParsedInStep, P!ReaderInv
    <2>2. /\ PrintTracks(c_hdr) = P!ReadTracks /\ PrintAlphabet(c_hdr) = P!ReadTracks
          /\ P!ReadTracks \in Nat
      BY <2>1, PrintersCount
    <2>3. step \in PrintLabels =>
            /\ t_cap = P!ReadTracks /\ Len(t_arr) = t_cap
            /\ alphabet_cap = P!ReadTracks /\ Len(alphabet_table) = alphabet_cap
      BY <2>1, <2>2 DEF P!ArraysFilled, parsed
    <2>4. /\ offset \in Nat
          /\ step \in {"header", "info", "cups", "alloc_tracks", "tracks", "alphabet",
                       "read", "fault", "print_tracks", "print_alphabet", "exit"}
      BY <2>1 DEF P!ReaderTypeOK, parsed, PrintLabels
    <2>5. i \in Nat /\ state \in AppStates
      BY DEF SessionInv, ShownInStep
    <2>6. QED
      BY <2>2, <2>3, <2>4, <2>5 DEF SessionTypeOK, PrintLabels
  <1>2. QED
    BY <1>1, SessionInvariant, PTL


(***************************************************************************)
(* Where files are only replaced.                                          *)
(***************************************************************************)
(* The inode that command_cat has opened keeps its one version.            *)
LEMMA SessionOneVersion ==
  ASSUME InPlace = FALSE
  PROVE  SessionSpec => []OneVersion
  <1>1. BufferInv /\ OneVersion /\ [SessionNext]_sessionVars => OneVersion'
    <2> SUFFICES ASSUME BufferInv, OneVersion, [SessionNext]_sessionVars
                 PROVE  OneVersion'
      OBVIOUS
    <2>1. [BufferNext]_fbVars
      BY SessionLoads DEF sessionVars
    <2>2. CASE UNCHANGED fbVars
      BY <2>2 DEF fbVars, diskVars, bufferVars, OneVersion, Opening, Loading,
                  Reading
    <2>3. QED
      BY <2>1, <2>2, VersionKept, VersionStep DEF BufferNext
  <1>2. SessionInit => OneVersion
    BY VersionInitially DEF SessionInit
  <1>3. SessionInv => BufferInv
    BY DEF SessionInv
  <1>4. QED
    BY <1>1, <1>2, <1>3, SessionInvariant, PTL DEF SessionSpec

(* Whatever command_cat does between the calls of buffer_from_file, where  *)
(* files are only replaced the file is loaded as if in one moment.         *)
THEOREM SessionLoadsAtomically ==
  ASSUME InPlace = FALSE
  PROVE  SessionSpec => LoadsAtomically
  <1>1. SessionInit => Load!LoadInit
    <2> SUFFICES ASSUME BufferInit PROVE Load!LoadInit
      BY DEF SessionInit
    <2>1. (IF name = 0 THEN {} ELSE {inodes[name]}) \in Load!Optional(Contents)
      BY DEF BufferInit, Load!Optional
    <2>2. QED
      BY <2>1 DEF BufferInit, Load!LoadInit, ChecksumCallers
  <1>2. SessionInv /\ OneVersion /\ [SessionNext]_sessionVars
          => [Load!LoadNext]_(Load!loadVars)
    <2> SUFFICES ASSUME BufferInv, OneVersion, [SessionNext]_sessionVars
                 PROVE  [Load!LoadNext]_(Load!loadVars)
      BY DEF SessionInv
    <2>1. [BufferNext]_fbVars
      BY SessionLoads DEF sessionVars
    <2>2. CASE UNCHANGED fbVars
      BY <2>2 DEF fbVars, diskVars, bufferVars, Load!loadVars
    <2>3. QED
      BY <2>1, <2>2, OthersSimulate, ProgramSimulates DEF BufferNext
  <1>3. QED
    BY <1>1, <1>2, SessionInvariant, SessionOneVersion, PTL
       DEF SessionSpec, LoadsAtomically, Load!LoadSpec

(***************************************************************************)
(* What is shown, number for number.                                       *)
(***************************************************************************)
(* What a read inside the buffer yields is what the file has there.        *)
LEMMA PeekIsOfFile ==
  ASSUME ParsedInStep, NEW o \in Nat, NEW n \in Nat, o + n <= Len(result)
  PROVE  P!Peek(o, n) = At(result, o, n)
  <1>1. result \in Seq(P!Byte) /\ memory \in P!Memory
    BY DEF ParsedInStep, P!ReaderInv, P!ReaderTypeOK
  <1>2. P!Peek(o, n) = P!Slice(o, n)
    BY <1>1, P!PeekIsSlice, ReaderAssumptions
  <1>3. QED
    BY <1>2 DEF P!Slice, At

(* %.16s shows the letters before the first NUL, all sixteen if there is   *)
(* none.                                                                   *)
LEMMA NameIsString ==
  ASSUME NEW v, Len(v) >= 36, v \in Seq(Byte)
  PROVE  String(At(v, 20, MOD_NAME_MAX)) = Name(v)
  <1> DEFINE s == At(v, 20, MOD_NAME_MAX)
             Ends(n) == /\ \A k \in 1 .. n : s[k] # 0
                        /\ n < MOD_NAME_MAX => s[n + 1] = 0
             n0 == CHOOSE n \in 0 .. MOD_NAME_MAX : Ends(n)
  <1>1. /\ s \in Seq(Byte) /\ Len(s) = 16
        /\ \A k \in 1 .. 16 : s[k] = v[20 + k]
    BY DEF At, MOD_NAME_MAX
  <1>2. \E n \in 0 .. 16 : Ends(n)
    <2> DEFINE Letters(k) == \A j \in 1 .. k : s[j] # 0
               Found == \E n \in 0 .. 16 : Ends(n)
    <2>1. Letters(0)
      OBVIOUS
    <2>2. ASSUME NEW k \in 0 .. 15, Letters(k)
          PROVE  Found \/ Letters(k + 1)
      <3>1. CASE s[k + 1] = 0
        BY <2>2, <3>1, SMTT(30)
      <3>2. CASE s[k + 1] # 0
        <4>1. \A j \in 1 .. k + 1 : j \in 1 .. k \/ j = k + 1
          OBVIOUS
        <4>2. QED
          BY <2>2, <3>2, <4>1
      <3>3. QED
        BY <3>1, <3>2
    <2>3. Letters(16) => Found
      BY DEF MOD_NAME_MAX
    <2> HIDE DEF Letters, Found
    <2>4. Found \/ Letters(4)
      BY <2>1, <2>2
    <2>5. Found \/ Letters(8)
      BY <2>2, <2>4
    <2>6. Found \/ Letters(12)
      BY <2>2, <2>5
    <2>7. Found \/ Letters(16)
      BY <2>2, <2>6
    <2>8. QED
      BY <2>3, <2>7 DEF Found
  <1>3. n0 \in 0 .. 16 /\ Ends(n0)
    BY <1>2 DEF MOD_NAME_MAX
  <1>4. String(s) = SubSeq(s, 1, n0)
    BY DEF String
  <1> HIDE DEF n0, s
  <1>5. {k \in 1 .. 16 : \A j \in 1 .. k : v[20 + j] # 0} = 1 .. n0
    <2>1. ASSUME NEW k \in 1 .. n0
          PROVE  k \in 1 .. 16 /\ \A j \in 1 .. k : v[20 + j] # 0
      <3>1. k \in 1 .. 16
        BY <1>3
      <3>2. ASSUME NEW j \in 1 .. k PROVE v[20 + j] # 0
        <4>1. j \in 1 .. n0 /\ j \in 1 .. 16
          BY <1>3, <3>1
        <4>2. s[j] # 0 /\ s[j] = v[20 + j]
          BY <1>1, <1>3, <4>1
        <4>3. QED
          BY <4>2
      <3>3. QED
        BY <3>1, <3>2
    <2>2. ASSUME NEW k \in 1 .. 16, \A j \in 1 .. k : v[20 + j] # 0
          PROVE  k \in 1 .. n0
      <3>1. SUFFICES ASSUME k > n0 PROVE FALSE
        BY <1>3
      <3>2. n0 + 1 \in 1 .. k /\ n0 + 1 \in 1 .. 16 /\ s[n0 + 1] = 0
        BY <1>3, <2>2, <3>1 DEF MOD_NAME_MAX
      <3>3. QED
        BY <1>1, <2>2, <3>2
    <2>3. QED
      BY <2>1, <2>2
  <1>6. SubSeq(s, 1, n0) = [k \in 1 .. n0 |-> v[20 + k]]
    <2>1. SubSeq(s, 1, n0) = [k \in 1 .. n0 |-> s[k]]
      BY <1>1, <1>3
    <2>2. n0 \in 0 .. 16
      BY <1>3
    <2>3. \A k \in 1 .. n0 : k \in 1 .. 16
      BY <2>2
    <2>4. QED
      BY <1>1, <2>1, <2>3
  <1>7. QED
    BY <1>4, <1>5, <1>6 DEF Name, s


(* When the printers are called of a file that gave no cause for           *)
(* complaint, all of it was read, from where the format puts it.           *)
LEMMA WhatWasRead ==
  ASSUME ParsedInStep, step \in PrintLabels, reported = {}, offset <= Len(result)
  PROVE  /\ P!HeaderRead /\ P!InfoRead /\ P!CupsRead /\ P!TracksRead /\ P!IndexRead
         /\ Len(t_arr) = P!ReadTracks /\ Len(alphabet_table) = P!ReadTracks
         /\ P!ReadTracks \in Nat /\ 144 + 10 * P!ReadTracks <= Len(result)
         /\ P!ReadTracks = R!TracksIn(result)
  <1>1. parsed = "read" /\ P!CursorInStep /\ P!ReaderTypeOK
    BY DEF parsed, ParsedInStep, P!ReaderInv
  <1>2. /\ P!HeaderRead /\ P!InfoRead /\ P!CupsRead /\ P!TracksRead /\ P!IndexRead
        /\ Len(t_arr) = P!ReadTracks /\ Len(alphabet_table) = P!ReadTracks
        /\ offset = 144 + 8 * P!ReadTracks + 2 * Len(alphabet_table)
    BY <1>1 DEF P!CursorInStep
  <1>3. P!ReadTracks \in Nat
    BY PrintersCount
  <1>4. 144 + 10 * P!ReadTracks <= Len(result) /\ 144 <= Len(result)
    BY <1>1, <1>2, <1>3 DEF P!ReaderTypeOK
  <1>5. P!ReadTracks = P!TracksIn(result)
    BY <1>1, <1>2, <1>4, P!CupsCounted, ReaderAssumptions DEF P!ReaderTypeOK
  <1>6. P!TracksIn(result) = R!TracksIn(result)
    BY DEF P!TracksIn, R!TracksIn, P!U16, R!U16
  <1>7. QED
    BY <1>2, <1>3, <1>4, <1>5, <1>6

(* Numbers put together digit by digit, in two bytes, and in four of       *)
(* either sign.                                                            *)
LEMMA DigitsAreNumbers ==
  ASSUME NEW p \in Byte, NEW q \in Byte, NEW r \in Byte, NEW s \in Byte
  PROVE  /\ Digits(0, 0, p, q) = 256 * p + q
         /\ p < 128 => Digits(p, q, r, s)
                         = 16777216 * p + 65536 * q + 256 * r + s
         /\ p >= 128 => -1 - Digits(255 - p, 255 - q, 255 - r, 255 - s)
                          = 16777216 * (p - 256) + 65536 * q + 256 * r + s
  BY SMT DEF Digits, Byte

(* The printers put them together as a sum.                                *)
LEMMA NumbersArePrinted ==
  ASSUME NEW v, v \in Seq(Byte), NEW o \in Nat
  PROVE  /\ o + 1 <= Len(v) => Small(At(v, o, 1)) = Number(v, o, 1)
         /\ o + 2 <= Len(v) => Middle(At(v, o, 2)) = Number(v, o, 2)
         /\ o + 4 <= Len(v) => Decimal(At(v, o, 4)) = Number(v, o, 4)
  <1>1. ASSUME NEW n \in Nat, o + n <= Len(v), NEW k \in 1 .. n
        PROVE  At(v, o, n)[k] = v[o + k] /\ v[o + k] \in Byte
    BY <1>1 DEF At
  <1>2. ASSUME o + 1 <= Len(v)
        PROVE  Small(At(v, o, 1)) = Number(v, o, 1)
    <2>1. At(v, o, 1)[1] = v[o + 1]
      BY <1>1, <1>2
    <2>2. QED
      BY <2>1 DEF Small, Number
  <1>3. ASSUME o + 2 <= Len(v)
        PROVE  Middle(At(v, o, 2)) = Number(v, o, 2)
    <2>1. PICK p \in Byte, q \in Byte :
            /\ At(v, o, 2)[1] = p /\ At(v, o, 2)[2] = q
            /\ v[o + 1] = p /\ v[o + 2] = q
      BY <1>1, <1>3
    <2>2. Middle(At(v, o, 2)) = <<256 * p + q>>
      BY <2>1 DEF Middle, U16
    <2>3. Number(v, o, 2) = <<Digits(0, 0, p, q)>>
      BY <2>1 DEF Number
    <2>4. QED
      BY <2>2, <2>3, DigitsAreNumbers
  <1>4. ASSUME o + 4 <= Len(v)
        PROVE  Decimal(At(v, o, 4)) = Number(v, o, 4)
    <2>1. PICK p \in Byte, q \in Byte, r \in Byte, s \in Byte :
            /\ At(v, o, 4)[1] = p /\ At(v, o, 4)[2] = q
            /\ At(v, o, 4)[3] = r /\ At(v, o, 4)[4] = s
            /\ v[o + 1] = p /\ v[o + 2] = q /\ v[o + 3] = r /\ v[o + 4] = s
      <3>1. \A k \in 1 .. 4 : At(v, o, 4)[k] = v[o + k] /\ v[o + k] \in Byte
        BY <1>1, <1>4
      <3>2. QED
        BY <3>1
    <2>2. Decimal(At(v, o, 4))
            = <<16777216 * (IF p < 128 THEN p ELSE p - 256) + 65536 * q + 256 * r + s>>
      BY <2>1, SMT DEF Decimal, Int32
    <2>3. CASE p < 128
      <3>1. ~(p >= 128)
        BY <2>3 DEF Byte
      <3>2. Number(v, o, 4) = <<Digits(p, q, r, s)>>
        BY <2>1, <2>3, <3>1, SMT DEF Number
      <3>3. QED
        BY <2>2, <2>3, <3>2, DigitsAreNumbers, SMT
    <2>4. CASE ~(p < 128)
      <3>1. p >= 128
        BY <2>4 DEF Byte
      <3>2. Number(v, o, 4) = <<-1 - Digits(255 - p, 255 - q, 255 - r, 255 - s)>>
        BY <2>1, <2>4, <3>1, SMT DEF Number
      <3>3. QED
        BY <2>2, <2>4, <3>1, <3>2, DigitsAreNumbers, SMT
    <2>5. QED
      BY <2>3, <2>4
  <1>5. QED
    BY <1>2, <1>3, <1>4

(* What a printer prints of a field is the number the file has there.      *)
LEMMA NumbersAreOfFile ==
  ASSUME ParsedInStep, NEW o \in Nat
  PROVE  /\ o + 1 <= Len(result) => Small(P!Peek(o, 1)) = Number(result, o, 1)
         /\ o + 2 <= Len(result) => Middle(P!Peek(o, 2)) = Number(result, o, 2)
         /\ o + 4 <= Len(result) => /\ Decimal(P!Peek(o, 4)) = Number(result, o, 4)
                                    /\ P!Peek(o, 4) = At(result, o, 4)
  <1>1. /\ o + 1 <= Len(result) => P!Peek(o, 1) = At(result, o, 1)
        /\ o + 2 <= Len(result) => P!Peek(o, 2) = At(result, o, 2)
        /\ o + 4 <= Len(result) => P!Peek(o, 4) = At(result, o, 4)
    BY PeekIsOfFile
  <1>2. /\ o + 1 <= Len(result) => Small(At(result, o, 1)) = Number(result, o, 1)
        /\ o + 2 <= Len(result) => Middle(At(result, o, 2)) = Number(result, o, 2)
        /\ o + 4 <= Len(result) => Decimal(At(result, o, 4)) = Number(result, o, 4)
    <2>1. result \in Seq(Byte)
      BY DEF ParsedInStep, P!ReaderInv, P!ReaderTypeOK, Byte, P!Byte
    <2>2. QED
      BY <2>1, NumbersArePrinted
  <1>3. QED
    BY <1>1, <1>2

(* The headers are shown as the file has them.                             *)
LEMMA HeadersAreOfFile ==
  ASSUME ParsedInStep, P!HeaderRead, P!InfoRead, P!CupsRead, Len(result) >= 144
  PROVE  HeadersShown = HeadersOf(result)
  <1> DEFINE Shows(o) ==
        /\ Small(P!Peek(o, 1)) = Number(result, o, 1)
        /\ Middle(P!Peek(o, 2)) = Number(result, o, 2)
        /\ Decimal(P!Peek(o, 4)) = Number(result, o, 4)
        /\ P!Peek(o, 4) = At(result, o, 4)
  <1>1. result \in Seq(Byte) /\ Len(result) \in Nat
    BY DEF ParsedInStep, P!ReaderInv, P!ReaderTypeOK, Byte, P!Byte
  <1>2. \A o \in 0 .. 140 : Shows(o)
    BY <1>1, NumbersAreOfFile
  <1>3. PrintedHeader(f_hdr) = HeaderOf(result)
    <2>1. /\ f_hdr.magic = P!Peek(0, 4) /\ f_hdr.version = P!Peek(4, 4)
          /\ f_hdr.info_offset = P!Peek(8, 4) /\ f_hdr.cups_offset = P!Peek(12, 4)
          /\ f_hdr.bmg_offset = P!Peek(16, 4)
          /\ f_hdr.mod_folder_name = P!Peek(20, MOD_NAME_MAX)
      BY DEF P!HeaderRead, P!HeaderAt, P!MOD_NAME_MAX, MOD_NAME_MAX
    <2>2. String(P!Peek(20, MOD_NAME_MAX)) = Name(result)
      BY <1>1, PeekIsOfFile, NameIsString DEF MOD_NAME_MAX
    <2>3. Shows(0) /\ Shows(4) /\ Shows(8) /\ Shows(12) /\ Shows(16)
      BY <1>2
    <2>4. QED
      BY <2>1, <2>2, <2>3 DEF PrintedHeader, HeaderOf
  <1>4. PrintedInfo(i_hdr) = InfoOf(result)
    <2>1. /\ i_hdr.magic = P!Peek(36, 4) /\ i_hdr.version = P!Peek(40, 4)
          /\ i_hdr.size = P!Peek(44, 4)
      BY DEF P!InfoRead, P!InfoAt
    <2>2. Shows(36) /\ Shows(40) /\ Shows(44)
      BY <1>2
    <2>3. QED
      BY <2>1, <2>2 DEF PrintedInfo, InfoOf
  <1>5. PrintedFields(i_fld) = FieldsOf(result)
    <2>1. /\ i_fld.room_key = P!Peek(48, 4) /\ i_fld.prob_100cc = P!Peek(52, 4)
          /\ i_fld.prob_150cc = P!Peek(56, 4) /\ i_fld.wiimmfi_region = P!Peek(60, 4)
          /\ i_fld.track_blocking = P!Peek(64, 4)
          /\ i_fld.tt_trophies = P!Peek(68, 1) /\ i_fld.enable_200cc = P!Peek(69, 1)
          /\ i_fld.umts = P!Peek(70, 1) /\ i_fld.feather = P!Peek(71, 1)
          /\ i_fld.mega_tc = P!Peek(72, 1) /\ i_fld.n_cup_icons = P!Peek(73, 2)
          /\ i_fld.track_timer = P!Peek(75, 1)
      BY DEF P!InfoRead, P!FieldsAt
    <2>2. /\ Shows(48) /\ Shows(52) /\ Shows(56) /\ Shows(60) /\ Shows(64)
          /\ Shows(68) /\ Shows(69) /\ Shows(70) /\ Shows(71) /\ Shows(72)
          /\ Shows(73) /\ Shows(75)
      BY <1>2
    <2>3. QED
      BY <2>1, <2>2 DEF PrintedFields, FieldsOf
  <1>6. PrintedCups(c_hdr) = CupsOf(result)
    <2>1. /\ c_hdr.magic = P!Peek(116, 4) /\ c_hdr.version = P!Peek(120, 4)
          /\ c_hdr.size = P!Peek(124, 4) /\ c_hdr.n_ct_cups = P!Peek(128, 2)
          /\ c_hdr.nin_track_mode = P!Peek(130, 1)
          /\ c_hdr.n_trophies[1] = P!Peek(132, 2)
          /\ c_hdr.n_trophies[2] = P!Peek(134, 2)
          /\ c_hdr.n_trophies[3] = P!Peek(136, 2)
          /\ c_hdr.n_trophies[4] = P!Peek(138, 2)
          /\ c_hdr.n_variants = P!Peek(140, 4)
      BY DEF P!CupsRead, P!CupsAt
    <2>2. /\ Shows(116) /\ Shows(120) /\ Shows(124) /\ Shows(128) /\ Shows(130)
          /\ Shows(132) /\ Shows(134) /\ Shows(136) /\ Shows(138) /\ Shows(140)
      BY <1>2
    <2>3. QED
      BY <2>1, <2>2 DEF PrintedCups, CupsOf
  <1>7. QED
    BY <1>3, <1>4, <1>5, <1>6 DEF HeadersShown, HeadersOf


(* So are the tracks and the alphabet, for any number of cups.             *)
LEMMA ArraysAreOfFile ==
  ASSUME ParsedInStep, NEW n \in Nat, n = P!ReadTracks, n = R!TracksIn(result),
         P!TracksRead, P!IndexRead, Len(t_arr) = n, Len(alphabet_table) = n,
         144 + 10 * n <= Len(result)
  PROVE  TracksShown(n) = TracksOf(result) /\ AlphabetShown(n) = AlphabetOf(result)
  <1>1. Len(result) \in Nat
    BY DEF ParsedInStep, P!ReaderInv, P!ReaderTypeOK
  <1>2. ASSUME NEW k \in 0 .. n - 1
        PROVE  PrintedTrack(t_arr[k + 1], k) = TrackOf(result, k)
    <2>1. k + 1 \in 1 .. Len(t_arr)
      OBVIOUS
    <2>2. t_arr[k + 1] = P!TrackAt(136 + 8 * (k + 1))
      BY <2>1 DEF P!TracksRead
    <2>3. /\ 136 + 8 * (k + 1) = 144 + 8 * k /\ (144 + 8 * k) + 1 = 145 + 8 * k
          /\ (144 + 8 * k) + 2 = 146 + 8 * k /\ (144 + 8 * k) + 4 = 148 + 8 * k
          /\ 144 + 8 * k \in Nat /\ 145 + 8 * k \in Nat /\ 146 + 8 * k \in Nat
          /\ 148 + 8 * k \in Nat
          /\ (148 + 8 * k) + 4 <= Len(result)
      BY <1>1
    <2>4. /\ t_arr[k + 1].track_slot = P!Peek(144 + 8 * k, 1)
          /\ t_arr[k + 1].music_slot = P!Peek(145 + 8 * k, 1)
          /\ t_arr[k + 1].n_variants = P!Peek(146 + 8 * k, 2)
          /\ t_arr[k + 1].crc32 = P!Peek(148 + 8 * k, 4)
      BY <2>2, <2>3 DEF P!TrackAt
    <2>5. Small(P!Peek(144 + 8 * k, 1)) = Number(result, 144 + 8 * k, 1)
      BY <1>1, <2>3, NumbersAreOfFile
    <2>6. Small(P!Peek(145 + 8 * k, 1)) = Number(result, 145 + 8 * k, 1)
      BY <1>1, <2>3, NumbersAreOfFile
    <2>7. Middle(P!Peek(146 + 8 * k, 2)) = Number(result, 146 + 8 * k, 2)
      BY <1>1, <2>3, NumbersAreOfFile
    <2>8. P!Peek(148 + 8 * k, 4) = At(result, 148 + 8 * k, 4)
      BY <1>1, <2>3, NumbersAreOfFile
    <2>9. QED
      BY <2>4, <2>5, <2>6, <2>7, <2>8 DEF PrintedTrack, TrackOf
  <1>3. TracksShown(n) = TracksOf(result)
    <2>1. ASSUME NEW j \in 1 .. 5 * n
          PROVE  (j - 1) \div 5 \in 0 .. n - 1
      OBVIOUS
    <2>2. ASSUME NEW j \in 1 .. 5 * n
          PROVE  PrintedTrack(t_arr[((j - 1) \div 5) + 1], (j - 1) \div 5)
                   = TrackOf(result, (j - 1) \div 5)
      BY <1>2, <2>1
    <2>3. QED
      BY <2>2 DEF TracksShown, TracksOf
  <1>4. ASSUME NEW j \in 1 .. n
        PROVE  Middle(alphabet_table[j]) = Number(result, 142 + 8 * n + 2 * j, 2)
    <2>1. alphabet_table[j] = P!Peek(142 + 8 * n + 2 * j, 2)
      BY DEF P!IndexRead
    <2>2. 142 + 8 * n + 2 * j \in Nat /\ (142 + 8 * n + 2 * j) + 2 <= Len(result)
      BY <1>1
    <2>3. QED
      BY <2>1, <2>2, NumbersAreOfFile
  <1>5. AlphabetShown(n) = AlphabetOf(result)
    BY <1>4 DEF AlphabetShown, AlphabetOf
  <1>6. QED
    BY <1>3, <1>5

(* Without an option nothing is shown of the tracks or of the alphabet.    *)
LEMMA NothingAsked == TracksShown(0) = << >> /\ AlphabetShown(0) = << >>
  BY DEF TracksShown, AlphabetShown

(* Where files are only replaced, command_cat shows one version of the     *)
(* file whole, for any number of cups: what is proved of loading says that *)
(* it got one version, what is proved of parsing that the struct is that   *)
(* version, and the invariant that the printers showed the struct.         *)
THEOREM FileIsShown ==
  ASSUME InPlace = FALSE
  PROVE  SessionSpec => []ShownIsTheFile
  <1>1. SessionInv /\ OneVersion => ShownIsTheFile
    <2> SUFFICES ASSUME SessionInv, OneVersion, step = "exit", reported = {},
                        offset <= size
                 PROVE  \E v \in versions :
                          shown = HeadersOf(v)
                            \o (IF state.show_tracks THEN TracksOf(v) ELSE << >>)
                            \o (IF state.show_alphabet_table THEN AlphabetOf(v)
                                ELSE << >>)
      BY DEF ShownIsTheFile
    <2>1. /\ result # << >> /\ Len(result) = size /\ pc = "returned"
          /\ step \in PrintLabels /\ ParsedInStep
      BY DEF SessionInv, LoadedInStep, PrintLabels
    <2>2. result \in versions
      BY <2>1 DEF OneVersion
    <2>3. /\ P!HeaderRead /\ P!InfoRead /\ P!CupsRead /\ P!TracksRead /\ P!IndexRead
          /\ Len(t_arr) = P!ReadTracks /\ Len(alphabet_table) = P!ReadTracks
          /\ P!ReadTracks \in Nat /\ 144 + 10 * P!ReadTracks <= Len(result)
          /\ P!ReadTracks = R!TracksIn(result)
      BY <2>1, WhatWasRead
    <2>4. Len(result) >= 144
      BY <2>1, <2>3 DEF ParsedInStep, P!ReaderInv, P!ReaderTypeOK
    <2>5. HeadersShown = HeadersOf(result)
      BY <2>1, <2>3, <2>4, HeadersAreOfFile
    <2>6. PICK n \in Nat : n = P!ReadTracks
      BY <2>3
    <2>7. TracksShown(n) = TracksOf(result) /\ AlphabetShown(n) = AlphabetOf(result)
      BY <2>1, <2>3, <2>6, ArraysAreOfFile
    <2>8. /\ AllTracks = IF state.show_tracks THEN n ELSE 0
          /\ AllAlphabet = IF state.show_alphabet_table THEN n ELSE 0
      BY <2>1, <2>6, PrintersCount DEF AllTracks, AllAlphabet
    <2>9. /\ TracksShown(AllTracks) =
               IF state.show_tracks THEN TracksOf(result) ELSE << >>
          /\ AlphabetShown(AllAlphabet) =
               IF state.show_alphabet_table THEN AlphabetOf(result) ELSE << >>
      BY <2>7, <2>8, NothingAsked
    <2>10. shown = (HeadersShown \o TracksShown(AllTracks)) \o AlphabetShown(AllAlphabet)
      BY DEF SessionInv, ShownInStep
    <2>11. QED
      BY <2>2, <2>5, <2>9, <2>10
  <1>2. QED
    BY <1>1, SessionInvariant, SessionOneVersion, PTL
==============================================================================
