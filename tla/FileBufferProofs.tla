--------------------------- MODULE FileBufferProofs --------------------------
(***************************************************************************)
(* Proofs about FileBuffer, for all contents of files and any number of    *)
(* changes by other processes.                                             *)
(***************************************************************************)
EXTENDS FileBuffer, SequenceTheorems, TLAPS

(* The elements of two sequences put together.                             *)
LEMMA ElementsOfBoth ==
  ASSUME NEW b \in Seq(Nat), NEW s \in Seq(Nat)
  PROVE  /\ Len(b \o s) = Len(b) + Len(s)
         /\ \A k \in 1 .. Len(b) + Len(s) :
              (b \o s)[k] = IF k <= Len(b) THEN b[k] ELSE s[k - Len(b)]
  BY ConcatProperties

(* The bytes that one fread yields extend those before by the next ones.   *)
LEMMA NextBytes ==
  ASSUME NEW f \in Seq(Nat), NEW b \in Seq(Nat), NEW n \in Len(b) + 1 .. Len(f)
  PROVE  /\ SubSeq(f, Len(b) + 1, n) \in Seq(Nat)
         /\ b \o SubSeq(f, Len(b) + 1, n) \in Seq(Nat)
         /\ Len(b \o SubSeq(f, Len(b) + 1, n)) = n
         /\ b = SubSeq(f, 1, Len(b)) =>
              b \o SubSeq(f, Len(b) + 1, n) = SubSeq(f, 1, n)
  <1> DEFINE s == SubSeq(f, Len(b) + 1, n)
  <1>1. /\ Len(b) \in Nat /\ Len(f) \in Nat /\ n \in Int
        /\ Len(b) + 1 \in 1 .. Len(f) + 1 /\ Len(b) \in 0 .. Len(f)
        /\ n \in Len(b) .. Len(f) /\ Len(b) + 1 <= n
    OBVIOUS
  <1>2. \A k \in Len(b) + 1 .. n : f[k] \in Nat
    BY <1>1, ElementOfSeq
  <1>3. s \in Seq(Nat) /\ Len(s) = n - Len(b)
    BY <1>1, <1>2, SubSeqProperties
  <1> HIDE DEF s
  <1>4. b \o s \in Seq(Nat) /\ Len(b \o s) = Len(b) + Len(s)
    BY <1>3, ConcatProperties
  <1>5. Len(b) + Len(s) = n
    BY <1>1, <1>3
  <1>6. 1 \in 1 .. Len(f) + 1 /\ Len(b) \in 1 - 1 .. Len(f)
    BY <1>1
  <1>7. SubSeq(f, 1, Len(b)) \o SubSeq(f, Len(b) + 1, n) = SubSeq(f, 1, n)
    BY <1>1, <1>6, ConcatAdjacentSubSeq
  <1>8. QED
    BY <1>3, <1>4, <1>5, <1>7 DEF s

(* The beginning of a buffer is a sequence of bytes.                       *)
LEMMA FirstBytes ==
  ASSUME NEW b \in Seq(Nat), NEW n \in Nat, n <= Len(b)
  PROVE  SubSeq(b, 1, n) \in Seq(Nat) /\ Len(SubSeq(b, 1, n)) = n
  <1>1. n \in Int /\ 1 \in Int /\ Len(b) \in Nat
    OBVIOUS
  <1>2. \A k \in 1 .. n : b[k] \in Nat
    BY <1>1, ElementOfSeq
  <1>3. SubSeq(b, 1, n) \in Seq(Nat) /\ Len(SubSeq(b, 1, n)) = IF 1 <= n THEN n - 1 + 1 ELSE 0
    BY <1>1, <1>2, SubSeqProperties
  <1>4. QED
    BY <1>1, <1>3

(***************************************************************************)
(* The inductive invariant: at each program point, which handle is open,   *)
(* what the buffer holds, and what has been printed.                       *)
(***************************************************************************)
Opening == pc \in {"fopen_file", "fopen_fp"}
Loading == pc \in {"ftell", "malloc", "fread"}

Handles ==
  /\ Loading => Reading # 0
  /\ ~Loading => fp = 0
  /\ caller = "checksum_buffer" => fp = 0
  /\ caller \notin ChecksumCallers => file = 0 /\ pc \notin {"fopen_file", "fclose_file"}
  /\ caller = "checksum_buffer" => pc # "fopen_fp"
  /\ pc = "fopen_file" => file = 0

Filled ==
  /\ heap = "NULL" => bytes = << >>
  /\ Opening \/ pc \in {"ftell", "malloc"} =>
       heap = "NULL" /\ bytes = << >> /\ size = 0 /\ result = << >>
  /\ pc = "fread" => /\ Len(bytes) <= f_size /\ heap # "freed"
                     /\ caller # "checksum_buffer" => heap = "live"
  /\ pc = "loaded" => heap # "freed" /\ (size # 0 => size = Len(bytes) /\ heap = "live")

Released ==
  /\ pc = "fclose_file" => heap # "live"
  /\ pc = "returned" =>
       /\ file # 0 => complaints = {"read_failed"}
       /\ heap = "live" => \/ caller = "cat" /\ size = 0
                           \/ complaints = {"read_failed"}

BufferInv == BufferTypeOK /\ Handles /\ Filled /\ Released

(* What an inode holds is the contents of a file.                          *)
LEMMA InodesAreFiles ==
  ASSUME BufferTypeOK, NEW n \in 1 .. Len(inodes)
  PROVE  /\ Len(inodes) \in Nat /\ inodes[n] \in Contents
         /\ inodes[n] \in Seq(Nat) /\ Len(inodes[n]) \in Nat
  BY ContentsAssumption, ElementOfSeq DEF BufferTypeOK

(* Every call starts in the invariant.                                     *)
LEMMA BufferInitially == BufferInit => BufferInv
  <1> SUFFICES ASSUME BufferInit PROVE BufferInv
    OBVIOUS
  <1>1. inodes \in Seq(Contents) /\ name \in 0 .. Len(inodes) /\ Len(inodes) \in Nat
    <2>1. CASE name = 0 /\ inodes = << >>
      BY <2>1
    <2>2. CASE name = 1 /\ \E c \in Contents : inodes = <<c>>
      BY <2>2
    <2>3. QED
      BY <2>1, <2>2 DEF BufferInit
  <1>2. << >> \in Seq(Nat) /\ Len(<< >>) = 0
    OBVIOUS
  <1>3. BufferTypeOK
    BY <1>1, <1>2, ChangesAssumption DEF BufferInit, BufferTypeOK
  <1>4. Handles /\ Filled /\ Released
    BY DEF BufferInit, Handles, Filled, Released, Opening, Loading,
           ChecksumCallers
  <1>5. QED
    BY <1>3, <1>4 DEF BufferInv

(* What others do to the disk leaves the program where it is. *)
LEMMA OthersKeep == BufferInv /\ Others => BufferInv'
  <1> SUFFICES ASSUME BufferInv, Others PROVE BufferInv'
    OBVIOUS
  <1>1. /\ UNCHANGED bufferVars
        /\ changes' \in 0 .. MaxChanges
    BY ChangesAssumption
       DEF Others, Replace, Rewrite, Remove, MayChange, BufferInv, BufferTypeOK
  <1>2. /\ inodes' \in Seq(Contents) /\ Len(inodes') >= Len(inodes)
        /\ Len(inodes') \in Nat /\ Len(inodes) \in Nat
        /\ name' \in 0 .. Len(inodes')
        /\ versions' \subseteq Contents
    <2>1. ASSUME NEW c \in Contents, Replace(c)
          PROVE  <1>2
      BY <2>1 DEF Replace, BufferInv, BufferTypeOK
    <2>2. ASSUME NEW c \in Contents, NEW n \in 1 .. Len(inodes), Rewrite(n, c)
          PROVE  <1>2
      <3>1. /\ [inodes EXCEPT ![n] = c] \in Seq(Contents)
            /\ Len([inodes EXCEPT ![n] = c]) = Len(inodes)
        BY <2>2, ExceptSeq DEF BufferInv, BufferTypeOK
      <3>2. QED
        BY <2>2, <3>1 DEF Rewrite, BufferInv, BufferTypeOK
    <2>3. ASSUME Remove
          PROVE  <1>2
      BY <2>3 DEF Remove, BufferInv, BufferTypeOK
    <2>4. QED
      BY <2>1, <2>2, <2>3 DEF Others
  <1>3. BufferTypeOK'
    BY <1>1, <1>2 DEF bufferVars, BufferInv, BufferTypeOK
  <1>4. Handles' /\ Filled' /\ Released'
    BY <1>1 DEF bufferVars, BufferInv, Handles, Filled, Released, Opening,
                Loading, Reading, ChecksumCallers
  <1>5. QED
    BY <1>3, <1>4 DEF BufferInv

(* The steps of the program.  Each keeps the disk. *)
LEMMA ProgramKeeps == BufferInv /\ Program => BufferInv'
  <1> SUFFICES ASSUME BufferInv, Program PROVE BufferInv'
    OBVIOUS
  <1> USE DEF BufferInv, diskVars, ChecksumCallers
  <1>1. BufferTypeOK /\ Len(inodes) \in Nat /\ Len(bytes) \in Nat
    BY DEF BufferTypeOK
  <1>2. ASSUME Loading
        PROVE  /\ Reading \in 1 .. Len(inodes)
               /\ inodes[Reading] \in Seq(Nat) /\ Len(inodes[Reading]) \in Nat
    <2>1. Reading \in 1 .. Len(inodes)
      BY <1>1, <1>2 DEF Handles, Reading, BufferTypeOK
    <2>2. QED
      BY <1>1, <2>1, InodesAreFiles
  <1>3. CASE OpenFile
    <2>1. BufferTypeOK'
      BY <1>1, <1>3, InodesAreFiles DEF OpenFile, BufferTypeOK
    <2>2. Handles' /\ Filled' /\ Released'
      BY <1>3 DEF OpenFile, Handles, Filled, Released, Opening, Loading,
                  Reading, ChecksumCallers
    <2>3. QED
      BY <2>1, <2>2
  <1>4. CASE OpenFp
    <2>1. BufferTypeOK'
      BY <1>1, <1>4, InodesAreFiles, SMTT(30) DEF OpenFp, Give, BufferTypeOK
    <2>2. Handles' /\ Filled' /\ Released'
      BY <1>4 DEF OpenFp, Give, Handles, Filled, Released, Opening, Loading,
                  Reading, ChecksumCallers
    <2>3. QED
      BY <2>1, <2>2
  <1>5. CASE Measure
    <2>1. BufferTypeOK'
      BY <1>1, <1>2, <1>5 DEF Measure, BufferTypeOK, Loading
    <2>2. Handles' /\ Filled' /\ Released'
      BY <1>5 DEF Measure, Handles, Filled, Released, Opening, Loading, Reading
    <2>3. QED
      BY <2>1, <2>2
  <1>6. CASE Malloc
    <2>1. BufferTypeOK'
      BY <1>1, <1>6 DEF Malloc, Give, BufferTypeOK
    <2>2. Len(bytes') <= f_size'
      BY <1>1, <1>6 DEF Malloc, Filled, BufferTypeOK
    <2>3. Handles' /\ Filled' /\ Released'
      BY <1>6, <2>2 DEF Malloc, Give, Handles, Filled, Released, Opening,
                        Loading, Reading, ChecksumCallers
    <2>4. QED
      BY <2>1, <2>3
  <1>7. CASE Fread
    <2>1. PICK n \in Len(bytes) + 1 .. Len(inodes[Reading]) :
            n <= f_size /\ bytes' = bytes \o SubSeq(inodes[Reading], Len(bytes) + 1, n)
      BY <1>7 DEF Fread
    <2>2. bytes' \in Seq(Nat) /\ Len(bytes') = n
      BY <1>1, <1>2, <1>7, <2>1, NextBytes DEF Fread, Loading, BufferTypeOK
    <2>3. BufferTypeOK'
      BY <1>1, <1>7, <2>2 DEF Fread, BufferTypeOK
    <2>4. Handles' /\ Filled' /\ Released'
      BY <1>7, <2>1, <2>2 DEF Fread, Handles, Filled, Released, Opening,
                              Loading, Reading
    <2>5. QED
      BY <2>3, <2>4
  <1>8. CASE FreadFull
    <2>1. BufferTypeOK'
      BY <1>1, <1>8 DEF FreadFull, Give, BufferTypeOK
    <2>2. f_size = 0 \/ heap = "live"
      BY <1>1, <1>8 DEF FreadFull, Filled, BufferTypeOK
    <2>3. Handles' /\ Filled' /\ Released'
      BY <1>8, <2>2 DEF FreadFull, Give, Handles, Filled, Released, Opening,
                        Loading, Reading
    <2>4. QED
      BY <2>1, <2>3
  <1>9. CASE FreadShort
    <2>1. BufferTypeOK'
      BY <1>1, <1>9 DEF FreadShort, Give, BufferTypeOK
    <2>2. Handles' /\ Filled' /\ Released'
      BY <1>9 DEF FreadShort, Give, Handles, Filled, Released, Opening,
                  Loading, Reading
    <2>3. QED
      BY <2>1, <2>2
  <1>10. CASE FreadFault
    <2>1. BufferTypeOK'
      BY <1>1, <1>10 DEF FreadFault, BufferTypeOK
    <2>2. Handles' /\ Filled' /\ Released'
      BY <1>10 DEF FreadFault, Handles, Filled, Released, Opening, Loading,
                   Reading
    <2>3. QED
      BY <2>1, <2>2
  <1>11. CASE Use
    <2>1. result' \in Seq(Nat)
      BY <1>1, <1>11, FirstBytes DEF Use, Filled, BufferTypeOK
    <2>2. BufferTypeOK'
      BY <1>1, <1>11, <2>1 DEF Use, BufferTypeOK
    <2>3. Handles' /\ Filled' /\ Released'
      BY <1>11 DEF Use, Handles, Filled, Released, Opening, Loading, Reading,
                   ChecksumCallers
    <2>4. QED
      BY <2>2, <2>3
  <1>12. CASE Free
    <2>1. BufferTypeOK'
      BY <1>1, <1>12 DEF Free, BufferTypeOK
    <2>2. Handles' /\ Filled' /\ Released'
      BY <1>12 DEF Free, Handles, Filled, Released, Opening, Loading, Reading,
                   ChecksumCallers
    <2>3. QED
      BY <2>1, <2>2
  <1>13. CASE CloseFile
    <2>1. BufferTypeOK'
      BY <1>1, <1>13 DEF CloseFile, BufferTypeOK
    <2>2. Handles' /\ Filled' /\ Released'
      BY <1>13 DEF CloseFile, Handles, Filled, Released, Opening, Loading,
                   Reading
    <2>3. QED
      BY <2>1, <2>2
  <1>14. QED
    BY <1>3, <1>4, <1>5, <1>6, <1>7, <1>8, <1>9, <1>10, <1>11, <1>12, <1>13
       DEF Program

(* No step of the program or of others leaves the invariant.               *)
LEMMA BufferStep == BufferInv /\ [BufferNext]_fbVars => BufferInv'
  <1> SUFFICES ASSUME BufferInv, [BufferNext]_fbVars PROVE BufferInv'
    OBVIOUS
  <1>1. CASE UNCHANGED fbVars
    BY <1>1 DEF fbVars, diskVars, bufferVars, BufferInv, BufferTypeOK, Handles,
                Filled, Released, Opening, Loading, Reading, ChecksumCallers
  <1>2. QED
    BY <1>1, OthersKeep, ProgramKeeps DEF BufferNext

(* The inductive invariant of loading a file. *)
THEOREM BufferInvariant == BufferSpec => []BufferInv
  <1>1. QED
    BY BufferInitially, BufferStep, PTL DEF BufferSpec

(* The variables of loading a file keep their types, whatever others do.   *)
THEOREM BufferTypes == BufferSpec => []BufferTypeOK
  <1>1. BufferInv => BufferTypeOK
    BY DEF BufferInv
  <1>2. QED
    BY <1>1, BufferInvariant, PTL

(* No caller uses a byte of the buffer that was not read.                  *)
THEOREM BytesUsedWereRead == BufferSpec => []UsedBytesWereRead
  <1>1. BufferInv => UsedBytesWereRead
    BY DEF BufferInv, BufferTypeOK, Filled, UsedBytesWereRead
  <1>2. QED
    BY <1>1, BufferInvariant, PTL

(* Every call gives back what it took, but for the cases that are named.   *)
THEOREM CallsRelease == BufferSpec => []ResourcesReleased
  <1>1. BufferInv => ResourcesReleased
    BY DEF BufferInv, Handles, Released, Loading, ResourcesReleased
  <1>2. QED
    BY <1>1, BufferInvariant, PTL

(***************************************************************************)
(* What others do, they do to versions as well: the bytes and the size     *)
(* come from versions of the file.                                         *)
(***************************************************************************)
FromVersions ==
  /\ Loading => inodes[Reading] \in versions
  /\ pc \in {"malloc", "fread"} => \E v \in versions : Len(v) = f_size
  /\ \A k \in 1 .. Len(bytes) :
       \E v \in versions : k <= Len(v) /\ v[k] = bytes[k]
  /\ pc = "loaded" /\ size # 0 => \E v \in versions : Len(v) = size
  /\ pc = "loaded" /\ size = 0 /\ complaints = {} => << >> \in versions
  /\ pc \in {"free", "fclose_file", "returned"} /\ result = << >> /\ complaints = {}
       => << >> \in versions

(* Before anything is read, all of it comes from the file.                 *)
LEMMA SourceInitially == BufferInit => FromVersions
  <1>1. Len(<< >>) = 0
    OBVIOUS
  <1>2. QED
    BY <1>1 DEF BufferInit, FromVersions, Loading, ChecksumCallers

(* What others do to the file only adds versions.                          *)
LEMMA SourceKept ==
  ASSUME BufferInv, FromVersions, Others
  PROVE  FromVersions'
  <1>1. UNCHANGED bufferVars
    BY DEF Others, Replace, Rewrite, Remove, MayChange
  <1>2. versions \subseteq versions'
    BY DEF Others, Replace, Rewrite, Remove
  <1>3. ASSUME Loading PROVE inodes'[Reading] \in versions'
    <2>1. Reading \in 1 .. Len(inodes) /\ inodes \in Seq(Contents)
      BY <1>3 DEF BufferInv, BufferTypeOK, Handles, Reading
    <2>2. inodes[Reading] \in versions
      BY <1>3 DEF FromVersions
    <2>3. ASSUME NEW c \in Contents, Replace(c)
          PROVE  inodes'[Reading] \in versions'
      BY <2>1, <2>2, <2>3 DEF Replace
    <2>4. ASSUME NEW c \in Contents, NEW n \in 1 .. Len(inodes), Rewrite(n, c)
          PROVE  inodes'[Reading] \in versions'
      BY <2>1, <2>2, <2>4 DEF Rewrite
    <2>5. CASE Remove
      BY <2>2, <2>5 DEF Remove
    <2>6. QED
      BY <2>3, <2>4, <2>5 DEF Others
  <1>4. Loading' = Loading /\ Reading' = Reading
    BY <1>1 DEF bufferVars, Loading, Reading
  <1>5. QED
    BY <1>1, <1>2, <1>3, <1>4 DEF bufferVars, FromVersions

(* What the program reads is of the version of that moment.                *)
LEMMA SourceStep ==
  ASSUME BufferInv, FromVersions, Program
  PROVE  FromVersions'
  <1> USE DEF diskVars, FromVersions, Loading, Reading
  <1>1. BufferTypeOK /\ Handles /\ Filled /\ Len(bytes) \in Nat
    BY DEF BufferInv, BufferTypeOK
  <1>2. ASSUME Loading
        PROVE  /\ Reading \in 1 .. Len(inodes)
               /\ inodes[Reading] \in Seq(Nat) /\ Len(inodes[Reading]) \in Nat
    <2>1. Reading \in 1 .. Len(inodes)
      BY <1>1, <1>2 DEF Handles, BufferTypeOK
    <2>2. QED
      BY <1>1, <2>1, InodesAreFiles
  <1>3. Opening => bytes = << >> /\ Len(bytes) = 0
    BY <1>1 DEF Filled
  <1>4. CASE OpenFile
    BY <1>3, <1>4 DEF OpenFile, Opening
  <1>5. CASE OpenFp
    BY <1>1, <1>3, <1>5 DEF OpenFp, Give, Opening, Handles
  <1>6. CASE Measure
    BY <1>6 DEF Measure
  <1>7. CASE Malloc
    BY <1>7 DEF Malloc, Give
  <1>8. CASE Fread
    <2> DEFINE f == inodes[Reading]
    <2>1. f \in Seq(Nat) /\ Len(f) \in Nat /\ bytes \in Seq(Nat) /\ f \in versions
      BY <1>1, <1>2, <1>8 DEF Fread, BufferTypeOK
    <2>2. PICK n \in Len(bytes) + 1 .. Len(f) : bytes' = bytes \o SubSeq(f, Len(bytes) + 1, n)
      BY <1>8 DEF Fread
    <2> DEFINE s == SubSeq(f, Len(bytes) + 1, n)
    <2> HIDE DEF f
    <2>3. s \in Seq(Nat) /\ Len(s) = n - Len(bytes)
          /\ \A k \in 1 .. n - Len(bytes) : s[k] = f[Len(bytes) + k]
      <3>1. /\ Len(bytes) + 1 \in Int /\ n \in Int /\ Len(bytes) + 1 <= n
            /\ n - (Len(bytes) + 1) + 1 = n - Len(bytes)
            /\ \A k \in Int : (Len(bytes) + 1) + k - 1 = Len(bytes) + k
        BY <1>1, <2>1, <2>2
      <3>2. \A k \in Len(bytes) + 1 .. n : f[k] \in Nat
        BY <1>1, <2>1, <2>2, ElementOfSeq
      <3>3. /\ SubSeq(f, Len(bytes) + 1, n) \in Seq(Nat)
            /\ Len(SubSeq(f, Len(bytes) + 1, n)) =
                 IF Len(bytes) + 1 <= n THEN n - (Len(bytes) + 1) + 1 ELSE 0
            /\ \A k \in 1 .. n - (Len(bytes) + 1) + 1 :
                 SubSeq(f, Len(bytes) + 1, n)[k] = f[(Len(bytes) + 1) + k - 1]
        BY <3>1, <3>2, SubSeqProperties
      <3>4. QED
        BY <3>1, <3>3
    <2> HIDE DEF s
    <2>4. bytes' = bytes \o s
      BY <2>2 DEF s
    <2>5. \A k \in 1 .. Len(bytes') :
            k <= Len(f) /\ (k <= Len(bytes) => bytes'[k] = bytes[k])
              /\ (k > Len(bytes) => bytes'[k] = f[k])
      <3>1. /\ Len(bytes \o s) = Len(bytes) + Len(s)
            /\ \A k \in 1 .. Len(bytes) + Len(s) :
                 (bytes \o s)[k] = IF k <= Len(bytes) THEN bytes[k] ELSE s[k - Len(bytes)]
        BY <2>1, <2>3, ElementsOfBoth
      <3>2. Len(bytes) + Len(s) = n
        BY <1>1, <2>1, <2>2, <2>3
      <3>3. ASSUME NEW k \in 1 .. n, k > Len(bytes)
            PROVE  s[k - Len(bytes)] = f[k]
        <4>1. k - Len(bytes) \in 1 .. n - Len(bytes) /\ Len(bytes) + (k - Len(bytes)) = k
          BY <1>1, <2>1, <2>2, <3>3
        <4>2. QED
          BY <2>3, <4>1
      <3>4. QED
        BY <1>1, <2>1, <2>2, <2>4, <3>1, <3>2, <3>3
    <2>6. \A k \in 1 .. Len(bytes') :
            \E v \in versions : k <= Len(v) /\ v[k] = bytes'[k]
      <3> SUFFICES ASSUME NEW k \in 1 .. Len(bytes')
                   PROVE  \E v \in versions : k <= Len(v) /\ v[k] = bytes'[k]
        OBVIOUS
      <3>1. CASE k <= Len(bytes)
        BY <1>1, <2>5, <3>1
      <3>2. CASE ~(k <= Len(bytes))
        <4>1. k > Len(bytes)
          BY <1>1, <3>2
        <4>2. QED
          BY <2>1, <2>5, <4>1
      <3>3. QED
        BY <3>1, <3>2
    <2>7. QED
      BY <1>8, <2>6 DEF Fread
  <1>9. CASE FreadFull
    <2>1. \E v \in versions : Len(v) = f_size
      BY <1>9 DEF FreadFull
    <2>2. f_size = 0 => << >> \in versions
      BY <1>1, <2>1, ContentsAssumption, EmptySeq DEF BufferTypeOK
    <2>3. QED
      BY <1>9, <2>1, <2>2 DEF FreadFull, Give
  <1>10. CASE FreadShort
    BY <1>10 DEF FreadShort, Give
  <1>11. CASE FreadFault
    BY <1>11 DEF FreadFault
  <1>12. CASE Use
    <2>1. size # 0 => result' # << >>
      <3>1. SUFFICES ASSUME size # 0 PROVE Len(result') # 0
        OBVIOUS
      <3>2. size \in Nat /\ size <= Len(bytes) /\ bytes \in Seq(Nat)
        BY <1>1, <1>12, <3>1 DEF Use, Filled, BufferTypeOK
      <3>3. QED
        BY <1>12, <3>1, <3>2, FirstBytes DEF Use
    <2>2. QED
      BY <1>12, <2>1 DEF Use
  <1>13. CASE Free
    BY <1>13 DEF Free
  <1>14. CASE CloseFile
    BY <1>14 DEF CloseFile
  <1>15. QED
    BY <1>4, <1>5, <1>6, <1>7, <1>8, <1>9, <1>10, <1>11, <1>12, <1>13, <1>14
       DEF Program

(* At every moment what has been read comes from versions of the file.     *)
LEMMA SourceInvariant == BufferSpec => []FromVersions
  <1>1. BufferInv /\ FromVersions /\ [BufferNext]_fbVars => FromVersions'
    <2> SUFFICES ASSUME BufferInv, FromVersions, [BufferNext]_fbVars
                 PROVE  FromVersions'
      OBVIOUS
    <2>1. CASE UNCHANGED fbVars
      BY <2>1 DEF fbVars, diskVars, bufferVars, FromVersions, Loading, Reading
    <2>2. QED
      BY <2>1, SourceKept, SourceStep DEF BufferNext
  <1>2. QED
    BY <1>1, SourceInitially, BufferInvariant, PTL DEF BufferSpec

(* However the file is changed meanwhile, the buffer is as long as one of  *)
(* its versions, and holds bytes of its versions at their places.          *)
THEOREM BytesComeFromTheFile == BufferSpec => []BytesOfTheFile
  <1>1. BufferInv /\ FromVersions => BytesOfTheFile
    <2> SUFFICES ASSUME BufferInv, FromVersions, pc = "loaded", size > 0
                 PROVE  /\ \E v \in versions : Len(v) = size
                        /\ \A k \in 1 .. size :
                             \E v \in versions : k <= Len(v) /\ v[k] = bytes[k]
      BY DEF BytesOfTheFile
    <2>1. size \in Nat /\ size # 0 /\ size = Len(bytes)
      BY DEF BufferInv, BufferTypeOK, Filled
    <2>2. QED
      BY <2>1 DEF FromVersions
  <1>2. QED
    BY <1>1, BufferInvariant, SourceInvariant, PTL

(* A call that got nothing, of a file that was never empty, has said why.  *)
THEOREM NothingIsExplained == BufferSpec => []EmptyIsExplained
  <1>1. FromVersions => EmptyIsExplained
    BY DEF FromVersions, EmptyIsExplained
  <1>2. QED
    BY <1>1, SourceInvariant, PTL

(***************************************************************************)
(* Where nobody rewrites a file in place, the inode that is open has one   *)
(* version only, and the buffer grows along it.                            *)
(***************************************************************************)
OneVersion ==
  /\ Opening => versions = {}
  /\ Loading => versions = {inodes[Reading]}
  /\ pc \in {"malloc", "fread"} => f_size = Len(inodes[Reading])
  /\ pc = "fread" => bytes = SubSeq(inodes[Reading], 1, Len(bytes))
  /\ pc = "loaded" => size = 0 \/ versions = {bytes}
  /\ pc \in {"free", "fclose_file", "returned"} => result \in versions \cup {<< >>}
  /\ pc \notin {"free", "fclose_file", "returned"} => result = << >>

(* A call starts without a version.                                        *)
LEMMA VersionInitially == BufferInit => OneVersion
  BY DEF BufferInit, OneVersion, Opening, Loading, ChecksumCallers

(* Replacing or removing a file leaves alone the inode that is being read. *)
LEMMA VersionKept ==
  ASSUME InPlace = FALSE, BufferInv, OneVersion, Others
  PROVE  OneVersion'
  <1>1. UNCHANGED bufferVars /\ UNCHANGED versions
    BY DEF Others, Replace, Rewrite, Remove, MayChange
  <1>2. ASSUME Loading PROVE inodes'[Reading] = inodes[Reading]
    <2>1. Reading \in 1 .. Len(inodes) /\ inodes \in Seq(Contents)
      BY <1>2 DEF BufferInv, BufferTypeOK, Handles, Reading
    <2>2. inodes' = inodes \/ \E c \in Contents : inodes' = Append(inodes, c)
      BY DEF Others, Replace, Rewrite, Remove
    <2>3. QED
      BY <2>1, <2>2
  <1>3. QED
    BY <1>1, <1>2 DEF bufferVars, OneVersion, Opening, Loading, Reading

(* The program reads on in the one version it opened.                      *)
LEMMA VersionStep ==
  ASSUME BufferInv, OneVersion, Program
  PROVE  OneVersion'
  <1> USE DEF diskVars, OneVersion, Opening, Loading, Reading
  <1>1. BufferTypeOK /\ Handles /\ Filled /\ Len(bytes) \in Nat
    BY DEF BufferInv, BufferTypeOK
  <1>2. ASSUME Loading
        PROVE  /\ Reading \in 1 .. Len(inodes)
               /\ inodes[Reading] \in Seq(Nat) /\ Len(inodes[Reading]) \in Nat
    <2>1. Reading \in 1 .. Len(inodes)
      BY <1>1, <1>2 DEF Handles, BufferTypeOK
    <2>2. QED
      BY <1>1, <2>1, InodesAreFiles
  <1>3. CASE OpenFile
    BY <1>3 DEF OpenFile
  <1>4. CASE OpenFp
    BY <1>1, <1>4 DEF OpenFp, Give, Handles
  <1>5. CASE Measure
    BY <1>5 DEF Measure
  <1>6. CASE Malloc
    <2>1. bytes = << >> /\ << >> = SubSeq(inodes[Reading], 1, 0) /\ Len(<< >>) = 0
      BY <1>1, <1>6, SubSeqEmpty DEF Malloc, Filled
    <2>2. QED
      BY <1>6, <2>1 DEF Malloc, Give
  <1>7. CASE Fread
    <2>1. PICK n \in Len(bytes) + 1 .. Len(inodes[Reading]) :
            n <= f_size /\ bytes' = bytes \o SubSeq(inodes[Reading], Len(bytes) + 1, n)
      BY <1>7 DEF Fread
    <2> DEFINE f == inodes[Reading]
    <2>2. f \in Seq(Nat) /\ bytes \in Seq(Nat) /\ bytes = SubSeq(f, 1, Len(bytes))
      BY <1>1, <1>2, <1>7 DEF Fread, BufferTypeOK
    <2> HIDE DEF f
    <2>3. n \in Len(bytes) + 1 .. Len(f) /\ bytes' = bytes \o SubSeq(f, Len(bytes) + 1, n)
      BY <2>1 DEF f
    <2>4. Len(bytes \o SubSeq(f, Len(bytes) + 1, n)) = n
      BY <2>2, <2>3, NextBytes, Zenon
    <2>5. bytes \o SubSeq(f, Len(bytes) + 1, n) = SubSeq(f, 1, n)
      BY <2>2, <2>3, NextBytes, Zenon
    <2>6. bytes' = SubSeq(f, 1, n) /\ Len(bytes') = n
      BY <2>3, <2>4, <2>5
    <2>7. QED
      BY <1>7, <2>6 DEF Fread, f
  <1>8. CASE FreadFull
    <2>1. bytes = inodes[Reading]
      BY <1>2, <1>8, SubSeqFull DEF FreadFull
    <2>2. QED
      BY <1>8, <2>1 DEF FreadFull, Give
  <1>9. CASE FreadShort
    BY <1>9 DEF FreadShort, Give
  <1>10. CASE FreadFault
    BY <1>10 DEF FreadFault
  <1>11. CASE Use
    <2>1. CASE size = 0
      <3>1. result' = << >>
        BY <1>11, <2>1, SubSeqEmpty DEF Use
      <3>2. QED
        BY <1>11, <3>1 DEF Use
    <2>2. CASE size # 0
      <3>1. size = Len(bytes) /\ versions = {bytes} /\ bytes \in Seq(Nat)
        BY <1>1, <1>11, <2>2 DEF Use, Filled, BufferTypeOK
      <3>2. result' = bytes
        BY <1>11, <3>1, SubSeqFull DEF Use
      <3>3. QED
        BY <1>11, <3>1, <3>2 DEF Use
    <2>3. QED
      BY <2>1, <2>2
  <1>12. CASE Free
    BY <1>12 DEF Free
  <1>13. CASE CloseFile
    BY <1>13 DEF CloseFile
  <1>14. QED
    BY <1>3, <1>4, <1>5, <1>6, <1>7, <1>8, <1>9, <1>10, <1>11, <1>12, <1>13
       DEF Program

(* Without changes in place there is one version, and what has been read   *)
(* is its beginning.                                                       *)
LEMMA VersionInvariant ==
  ASSUME InPlace = FALSE
  PROVE  BufferSpec => []OneVersion
  <1>1. BufferInv /\ OneVersion /\ [BufferNext]_fbVars => OneVersion'
    <2> SUFFICES ASSUME BufferInv, OneVersion, [BufferNext]_fbVars
                 PROVE  OneVersion'
      OBVIOUS
    <2>1. CASE UNCHANGED fbVars
      BY <2>1 DEF fbVars, diskVars, bufferVars, OneVersion, Opening, Loading,
                  Reading
    <2>2. QED
      BY <2>1, VersionKept, VersionStep DEF BufferNext
  <1>2. QED
    BY <1>1, VersionInitially, BufferInvariant, PTL DEF BufferSpec

(***************************************************************************)
(* Every step of FileBuffer is one of AtomicLoad or changes nothing there: *)
(* opening the file is the moment of the call, returning is its answer.    *)
(***************************************************************************)
LEMMA OthersSimulate ==
  ASSUME InPlace = FALSE, BufferInv, Others
  PROVE  [Load!LoadNext]_(Load!loadVars)
  <1>1. UNCHANGED <<pc, versions, result>>
    BY DEF Others, Replace, Rewrite, Remove, MayChange, bufferVars
  <1>2. IF name' = 0 THEN TRUE ELSE inodes'[name'] \in Contents
    <2>1. BufferTypeOK'
      BY OthersKeep DEF BufferInv
    <2>2. QED
      BY <2>1, ElementOfSeq DEF BufferTypeOK
  <1>3. (IF name' = 0 THEN {} ELSE {inodes'[name']}) \in Load!Optional(Contents)
    BY <1>2 DEF Load!Optional
  <1>4. QED
    BY <1>1, <1>3 DEF Load!LoadNext, Load!Replaced

(* A step of the program is one of AtomicLoad, or none.                    *)
LEMMA ProgramSimulates ==
  ASSUME BufferInv, OneVersion, Program
  PROVE  [Load!LoadNext]_(Load!loadVars)
  <1>1. UNCHANGED <<name, inodes>>
    BY DEF Program, OpenFile, OpenFp, Measure, Malloc, Fread, FreadFull,
           FreadShort, FreadFault, Use, Free, CloseFile, diskVars
  <1>2. OneVersion'
    BY VersionStep
  <1>3. CASE OpenFile \/ OpenFp
    <2>1. versions = {} /\ result = << >> /\ UNCHANGED result
      BY <1>3 DEF OpenFile, OpenFp, OneVersion, Opening
    <2>2. \/ pc' = "ftell" /\ name # 0 /\ versions' = {inodes[name]}
          \/ pc' = "fopen_fp" /\ versions' = {}
          \/ pc' \in {"loaded", "returned"} /\ versions' = versions
      BY <1>3 DEF OpenFile, OpenFp, Give
    <2>3. pc \in {"fopen_file", "fopen_fp"}
      BY <1>3 DEF OpenFile, OpenFp
    <2>4. QED
      BY <1>1, <2>1, <2>2, <2>3
         DEF Load!LoadNext, Load!Take, Load!Answer, Load!loadVars
  <1>4. CASE Measure \/ Malloc \/ Fread \/ FreadFull \/ FreadFault
    <2>1. /\ UNCHANGED versions
          /\ pc \in {"ftell", "malloc", "fread"}
          /\ pc' \in {"malloc", "fread", "loaded", "fault"}
      BY <1>4 DEF Measure, Malloc, Fread, FreadFull, FreadFault, Give
    <2>2. QED
      BY <1>1, <2>1 DEF Load!loadVars
  <1>5. CASE FreadShort \/ Use \/ Free \/ CloseFile
    <2>1. /\ UNCHANGED versions
          /\ pc \in {"fread", "loaded", "free", "fclose_file"}
          /\ pc' \in {"loaded", "free", "fclose_file", "returned"}
      BY <1>5 DEF FreadShort, Use, Free, CloseFile, Give
    <2>2. CASE pc' = "returned"
      <3>1. result' \in versions \cup {<< >>}
        BY <1>2, <2>1, <2>2 DEF OneVersion
      <3>2. QED
        BY <1>1, <2>1, <2>2, <3>1 DEF Load!LoadNext, Load!Answer
    <2>3. CASE pc' # "returned"
      BY <1>1, <2>1, <2>3 DEF Load!loadVars
    <2>4. QED
      BY <2>2, <2>3
  <1>6. QED
    BY <1>3, <1>4, <1>5 DEF Program

(* Where files are only replaced and never rewritten in place, loading a   *)
(* file by its name is atomic, however long it takes.                      *)
THEOREM LoadIsAtomic ==
  ASSUME InPlace = FALSE
  PROVE  BufferSpec => LoadsAtomically
  <1>1. BufferInit => Load!LoadInit
    <2> SUFFICES ASSUME BufferInit PROVE Load!LoadInit
      OBVIOUS
    <2>1. (IF name = 0 THEN {} ELSE {inodes[name]}) \in Load!Optional(Contents)
      BY DEF BufferInit, Load!Optional
    <2>2. QED
      BY <2>1 DEF BufferInit, Load!LoadInit, ChecksumCallers
  <1>2. BufferInv /\ OneVersion /\ [BufferNext]_fbVars
          => [Load!LoadNext]_(Load!loadVars)
    <2> SUFFICES ASSUME BufferInv, OneVersion, [BufferNext]_fbVars
                 PROVE  [Load!LoadNext]_(Load!loadVars)
      OBVIOUS
    <2>1. CASE UNCHANGED fbVars
      BY <2>1 DEF fbVars, diskVars, bufferVars, Load!loadVars
    <2>2. QED
      BY <2>1, OthersSimulate, ProgramSimulates DEF BufferNext
  <1>3. QED
    BY <1>1, <1>2, BufferInvariant, VersionInvariant, PTL
       DEF BufferSpec, LoadsAtomically, Load!LoadSpec

(* No step of a call goes back, however often the file is changed, and     *)
(* reading never goes beyond the size that was taken once.                 *)
THEOREM CallsMoveOn == BufferSpec => CallMovesOn
  <1> DEFINE MovesOn == Stage[pc] < Stage[pc'] \/ ReadsOn \/ UNCHANGED bufferVars
  <1>1. BufferInv /\ [BufferNext]_fbVars => [MovesOn]_fbVars
    <2> SUFFICES ASSUME BufferInv, BufferNext PROVE MovesOn
      OBVIOUS
    <2>1. CASE Others
      BY <2>1 DEF Others, Replace, Rewrite, Remove, MayChange
    <2>2. CASE Fread
      <3>1. BufferTypeOK /\ Reading \in 1 .. Len(inodes) /\ inodes[Reading] \in Seq(Nat)
        <4>1. BufferTypeOK /\ Handles
          BY DEF BufferInv
        <4>2. Reading \in 1 .. Len(inodes)
          BY <2>2, <4>1 DEF Fread, Handles, Loading, Reading, BufferTypeOK
        <4>3. QED
          BY <4>1, <4>2, InodesAreFiles
      <3>2. PICK n \in Len(bytes) + 1 .. Len(inodes[Reading]) :
              n <= f_size /\ bytes' = bytes \o SubSeq(inodes[Reading], Len(bytes) + 1, n)
        BY <2>2 DEF Fread
      <3>3. Len(bytes') = n /\ Len(bytes) \in Nat
        BY <3>1, <3>2, NextBytes DEF BufferTypeOK
      <3>4. Len(bytes) < Len(bytes') /\ Len(bytes') <= f_size
        BY <3>2, <3>3
      <3>5. QED
        BY <2>2, <3>4 DEF Fread, ReadsOn
    <2>3. CASE OpenFile \/ OpenFp \/ Measure \/ Malloc \/ FreadFull \/ FreadShort
                 \/ FreadFault \/ Use \/ Free \/ CloseFile
      BY <2>3 DEF OpenFile, OpenFp, Measure, Malloc, FreadFull, FreadShort, FreadFault,
                  Use, Free, CloseFile, Give, Stage
    <2>4. QED
      BY <2>1, <2>2, <2>3 DEF BufferNext, Program
  <1>2. QED
    BY <1>1, BufferInvariant, PTL DEF BufferSpec, CallMovesOn
==============================================================================
