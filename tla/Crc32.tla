-------------------------------- MODULE Crc32 --------------------------------
(***************************************************************************)
(* The checksum: crc32 of src/src/crc32.c in its two builds, table-driven  *)
(* (CRC32_FAST, what CMakeLists.txt defines) and bit by bit, called on the *)
(* whole of a file as crc32_from_file of src/src/binary.c calls it.        *)
(*                                                                         *)
(* A 32-bit word is the set of the positions of its 1 bits, so that ^ is   *)
(* symmetric difference and >> moves positions; a byte is a subset of      *)
(* 0 .. 7.  Lengths are C integers of a parameterised width: the size of   *)
(* the file, a size_t, is cast to an unsigned int, and the bitwise build   *)
(* compares its int index with that length cast to int.                    *)
(***************************************************************************)
EXTENDS Integers, Sequences

CONSTANTS
  Files,     (* the contents of the files: sequences of bytes              *)
  IntRange,  (* the number of values of an int: 2^32 in the program        *)
  Builds,    (* the builds checked, among "fast" and "bitwise"             *)
  Table,     (* crc_table, indexed by a byte                               *)
  Crc        (* Crc[f][n]: the register after the first n bytes of f, as   *)
             (* the definition of the CRC has it                           *)

Word   == SUBSET (0 .. 31)
Octet  == SUBSET (0 .. 7)
Ones   == 0 .. 31

Xor(a, b) == (a \ b) \cup (b \ a)
Shr(a, n) == {k \in 0 .. 31 : k + n \in a}

(* 0xEDB88320 *)
Polynomial == {31, 30, 29, 27, 26, 24, 23, 21, 20, 19, 15, 9, 8, 5}

(* mask = -(crc & 1); crc = (crc >> 1) ^ (0xEDB88320 & mask) *)
Shifted(crc) == IF 0 \in crc THEN Xor(Shr(crc, 1), Polynomial) ELSE Shr(crc, 1)
EightTimes(crc) ==
  Shifted(Shifted(Shifted(Shifted(Shifted(Shifted(Shifted(Shifted(crc))))))))

(* One byte, in the bitwise build: crc ^ byte, then eight shifts. *)
BitwiseByte(crc, b) == EightTimes(Xor(crc, b))

(* Variant: the register is not shifted. *)
DO1Unshifted(crc, b) == Xor(Table[Xor(crc, b) \cap (0 .. 7)], crc)

(* One byte, in the table-driven build: DO1. *)
DO1(crc, b) == Xor(Table[Xor(crc, b) \cap (0 .. 7)], Shr(crc, 8))

(* The definition: the register starts at all ones and takes in the bits   *)
(* of each byte from the least significant, one at a time, reducing it by  *)
(* the polynomial whenever the bit and the lowest of the register differ.  *)
TakeBit(crc, b, k) ==
  IF (0 \in crc) # (k \in b) THEN Xor(Shr(crc, 1), Polynomial) ELSE Shr(crc, 1)
TakeByte(crc, b) ==
  LET c1 == TakeBit(crc, b, 0)  c2 == TakeBit(c1, b, 1)
      c3 == TakeBit(c2, b, 2)   c4 == TakeBit(c3, b, 3)
      c5 == TakeBit(c4, b, 4)   c6 == TakeBit(c5, b, 5)
      c7 == TakeBit(c6, b, 6)   IN  TakeBit(c7, b, 7)

ASSUME FilesAssumption  == Files \subseteq Seq(Octet)
ASSUME WidthAssumption  == IntRange \in Nat \ {0} /\ IntRange % 2 = 0
ASSUME BuildsAssumption == Builds \subseteq {"fast", "bitwise"}
ASSUME TableAssumption  ==
  /\ Table \in [Octet -> Word]
  /\ \A b \in Octet : Table[b] = EightTimes(b)
ASSUME CrcAssumption ==
  \A f \in Files :
    /\ Crc[f] \in [0 .. Len(f) -> Word]
    /\ Crc[f][0] = Ones
    /\ \A n \in 1 .. Len(f) : Crc[f][n] = TakeByte(Crc[f][n - 1], f[n])

VARIABLES
  build,   (* which of the two functions was compiled                      *)
  file,    (* the buffer: all the bytes of the file                        *)
  len,     (* the parameter len                                            *)
  at,      (* bytes taken: buffer - start, or the index i                  *)
  left,    (* DO1s that are left of a DO8                                  *)
  crc,     (* the register                                                 *)
  pc, result

crcVars == <<build, file, len, at, left, crc, pc, result>>

(* Variant: the length passed as an int. *)
SignedLength(n) == IF n < IntRange \div 2 THEN n ELSE n - IntRange

(* (unsigned int)size and (int)len *)
Unsigned(n) == n % IntRange
Signed(n)   == IF n < IntRange \div 2 THEN n ELSE n - IntRange

CrcInit ==
  /\ build \in Builds
  /\ file \in Files
  /\ len = Unsigned(Len(file))
  /\ at = 0 /\ left = 0
  /\ crc = Ones
  /\ pc = build
  /\ result = {}

Finish ==
  /\ pc' = "done"
  /\ result' = Xor(crc, Ones)
  /\ UNCHANGED <<len, at, left, crc>>

(* DO1(buffer), the buffer moving on by a byte. *)
TakeFast == crc' = DO1(crc, file[at + 1]) /\ at' = at + 1

(* Variant: the bytes that do not fill a DO8 are left out. *)
FastTestSansTail ==
  /\ pc = "fast"
  /\ \/ len >= 8 /\ pc' = "DO8" /\ left' = 8 /\ UNCHANGED <<len, at, crc, result>>
     \/ len < 8 /\ Finish

(* while(len >= 8) DO8, then the last bytes one by one. *)
FastTest ==
  /\ pc = "fast"
  /\ \/ len >= 8 /\ pc' = "DO8" /\ left' = 8 /\ UNCHANGED <<len, at, crc, result>>
     \/ len \in 1 .. 7 /\ pc' = "tail" /\ UNCHANGED <<len, at, left, crc, result>>
     \/ len = 0 /\ Finish

FastEight ==
  /\ pc = "DO8"
  /\ \/ left > 0 /\ TakeFast /\ left' = left - 1 /\ UNCHANGED <<len, pc, result>>
     \/ /\ left = 0 /\ len' = len - 8 /\ pc' = "fast"
        /\ UNCHANGED <<at, left, crc, result>>

FastTail ==
  /\ pc = "tail"
  /\ \/ len > 0 /\ TakeFast /\ len' = len - 1 /\ UNCHANGED <<left, pc, result>>
     \/ len = 0 /\ Finish

(* while (i < (int)len) *)
BitwiseLoop ==
  /\ pc = "bitwise"
  /\ \/ /\ at < Signed(len)
        /\ crc' = BitwiseByte(crc, file[at + 1]) /\ at' = at + 1
        /\ UNCHANGED <<len, left, pc, result>>
     \/ at >= Signed(len) /\ Finish

CrcNext ==
  /\ FastTest \/ FastEight \/ FastTail \/ BitwiseLoop
  /\ UNCHANGED <<build, file>>

CrcSpec == CrcInit /\ [][CrcNext]_crcVars
------------------------------------------------------------------------------
(* Types; and no build reads outside the buffer that holds the file.       *)
CrcTypeOK ==
  /\ build \in Builds /\ file \in Files
  /\ len \in 0 .. IntRange - 1 /\ at \in 0 .. Len(file) /\ left \in 0 .. 8
  /\ crc \in Word /\ result \in Word
  /\ pc \in {"fast", "DO8", "tail", "bitwise", "done"}

(* The largest size whose length survives the casts of a build.            *)
Fits(n) == n < IntRange \div (IF build = "fast" THEN 1 ELSE 2)

(* At every byte, also in the middle of an unrolled DO8, the register of   *)
(* either build is the one the definition has after as many bytes.         *)
RegisterIsCrc == crc = Crc[file][at]

(* Every byte of a file is taken exactly once, whatever its size is modulo *)
(* 8, and the checksum that either build returns is that of the file, for  *)
(* every size whose length its integers can hold.                          *)
ResultIsCrc ==
  pc = "done" /\ Fits(Len(file)) => result = Ones \ Crc[file][Len(file)]

(* What binary.h says of crc32_from_file, "calculate checksum from file":  *)
(* whatever the file, the checksum is the file's.                          *)
ChecksumOfTheFile ==
  pc = "done" => result = Ones \ Crc[file][Len(file)]
==============================================================================
