----------------------------- MODULE Crc32Proofs -----------------------------
(***************************************************************************)
(* Proofs about Crc32, for files of every size and content and for every   *)
(* width of int: the two builds compute one function, and it is the CRC.   *)
(*                                                                         *)
(* The argument is linear algebra over bits: a shift of the register       *)
(* distributes over ^, so the eight shifts of a word are those of its low  *)
(* byte, which the table holds, and those of the rest, which only moves.   *)
(***************************************************************************)
EXTENDS Crc32, TLAPS

(* The operators on words yield words.                                     *)
LEMMA WordOps ==
  ASSUME NEW a \in Word, NEW b \in Word, NEW n \in Nat
  PROVE  Xor(a, b) \in Word /\ Shr(a, n) \in Word /\ Polynomial \in Word
  BY DEF Word, Xor, Shr, Polynomial

(* A shift by nothing. *)
LEMMA ShrZero ==
  ASSUME NEW a \in Word
  PROVE  Shr(a, 0) = a
  <1>1. \A k \in 0 .. 31 : k + 0 = k
    OBVIOUS
  <1>2. a \subseteq 0 .. 31
    BY DEF Word
  <1>3. \A k : k \in Shr(a, 0) <=> k \in a
    BY <1>1, <1>2 DEF Shr
  <1>4. QED
    BY <1>3

(* One shift of the inner loop yields a word.                              *)
LEMMA ShiftedType ==
  ASSUME NEW a \in Word
  PROVE  Shifted(a) \in Word
  BY WordOps DEF Shifted

(* So do eight.                                                            *)
LEMMA EightTimesType ==
  ASSUME NEW a \in Word
  PROVE  EightTimes(a) \in Word
  BY ShiftedType DEF EightTimes

(* A shift distributes over ^. *)
LEMMA ShrLinear ==
  ASSUME NEW a \in Word, NEW b \in Word, NEW n \in Nat
  PROVE  Shr(Xor(a, b), n) = Xor(Shr(a, n), Shr(b, n))
  BY DEF Xor, Shr

(* So does one shift of the inner loop.                                    *)
LEMMA ShiftedLinear ==
  ASSUME NEW a \in Word, NEW b \in Word
  PROVE  Shifted(Xor(a, b)) = Xor(Shifted(a), Shifted(b))
  <1>1. Shr(Xor(a, b), 1) = Xor(Shr(a, 1), Shr(b, 1))
    BY ShrLinear
  <1>2. 0 \in Xor(a, b) <=> (0 \in a) # (0 \in b)
    BY DEF Xor
  <1>3. \A p, q, r : /\ Xor(Xor(p, q), r) = Xor(Xor(p, r), q)
                     /\ Xor(Xor(p, q), r) = Xor(p, Xor(q, r))
                     /\ Xor(Xor(p, r), Xor(q, r)) = Xor(p, q)
    BY DEF Xor
  <1> DEFINE p == Shr(a, 1)
             q == Shr(b, 1)
             x == Xor(a, b)
             y == Shr(x, 1)
  <1>4. y = Xor(p, q)
    BY <1>1
  <1>5. CASE 0 \in a /\ 0 \in b
    <2>1. /\ Shifted(a) = Xor(p, Polynomial)
          /\ Shifted(b) = Xor(q, Polynomial)
          /\ Shifted(x) = y
      BY <1>2, <1>5 DEF Shifted
    <2>2. QED
      BY <2>1, <1>3, <1>4
  <1>6. CASE 0 \in a /\ 0 \notin b
    <2>1. /\ Shifted(a) = Xor(p, Polynomial)
          /\ Shifted(b) = q
          /\ Shifted(x) = Xor(y, Polynomial)
      BY <1>2, <1>6 DEF Shifted
    <2> HIDE DEF p, q, x, y
    <2>2. QED
      BY <2>1, <1>3, <1>4 DEF x
  <1>7. CASE 0 \notin a /\ 0 \in b
    <2>1. /\ Shifted(a) = p
          /\ Shifted(b) = Xor(q, Polynomial)
          /\ Shifted(x) = Xor(y, Polynomial)
      BY <1>2, <1>7 DEF Shifted
    <2> HIDE DEF p, q, x, y
    <2>2. QED
      BY <2>1, <1>3, <1>4 DEF x
  <1>8. CASE 0 \notin a /\ 0 \notin b
    <2>1. Shifted(a) = p /\ Shifted(b) = q /\ Shifted(x) = y
      BY <1>2, <1>8 DEF Shifted
    <2>2. QED
      BY <2>1, <1>4
  <1>9. QED
    BY <1>5, <1>6, <1>7, <1>8

(* So do eight of them.                                                    *)
LEMMA EightTimesLinear ==
  ASSUME NEW a \in Word, NEW b \in Word
  PROVE  EightTimes(Xor(a, b)) = Xor(EightTimes(a), EightTimes(b))
  BY ShiftedLinear, ShiftedType DEF EightTimes

(* A word without a low byte only moves. *)
LEMMA HighMoves ==
  ASSUME NEW a \in Word, a \cap (0 .. 7) = {}
  PROVE  EightTimes(a) = Shr(a, 8)
  <1>1. ASSUME NEW n \in 0 .. 7
        PROVE  Shifted(Shr(a, n)) = Shr(a, n + 1)
    <2>1. 0 \notin Shr(a, n)
      BY DEF Shr
    <2>2. Shr(Shr(a, n), 1) = Shr(a, n + 1)
      BY DEF Shr, Word
    <2>3. QED
      BY <2>1, <2>2 DEF Shifted
  <1>2. Shr(a, 0) = a
    BY ShrZero
  <1>3. /\ Shifted(a) = Shr(a, 1)
        /\ Shifted(Shr(a, 1)) = Shr(a, 2)
        /\ Shifted(Shr(a, 2)) = Shr(a, 3)
        /\ Shifted(Shr(a, 3)) = Shr(a, 4)
    BY <1>1, <1>2
  <1>4. /\ Shifted(Shr(a, 4)) = Shr(a, 5)
        /\ Shifted(Shr(a, 5)) = Shr(a, 6)
        /\ Shifted(Shr(a, 6)) = Shr(a, 7)
        /\ Shifted(Shr(a, 7)) = Shr(a, 8)
    BY <1>1
  <1>5. QED
    BY <1>3, <1>4 DEF EightTimes

(* DO1 with a table of the eight shifts of every byte is the inner loop of *)
(* the other build.                                                        *)
LEMMA DO1IsBitwise ==
  ASSUME NEW c \in Word, NEW b \in Octet
  PROVE  DO1(c, b) = BitwiseByte(c, b)
  <1> DEFINE x == Xor(c, b)
             low == x \cap (0 .. 7)
             high == x \ (0 .. 7)
  <1>1. x \in Word /\ low \in Octet /\ low \in Word /\ high \in Word
    BY DEF Word, Octet, Xor
  <1>2. x = Xor(low, high) /\ high \cap (0 .. 7) = {}
    BY DEF Xor
  <1>3. Shr(high, 8) = Shr(c, 8)
    BY DEF Shr, Xor, Octet
  <1>4. EightTimes(x) = Xor(EightTimes(low), EightTimes(high))
    BY <1>1, <1>2, EightTimesLinear
  <1>5. EightTimes(high) = Shr(c, 8)
    BY <1>1, <1>2, <1>3, HighMoves
  <1>6. EightTimes(low) = Table[low]
    BY <1>1, TableAssumption
  <1>7. QED
    BY <1>4, <1>5, <1>6 DEF DO1, BitwiseByte

(* Taking the bits of a byte one by one is ^ with the byte first and then  *)
(* eight shifts: the bits not yet taken are what the two registers differ  *)
(* in.                                                                     *)
LEMMA TakeBitIsShifted ==
  ASSUME NEW c \in Word, NEW b \in Octet, NEW k \in 0 .. 7
  PROVE  /\ TakeBit(c, b, k) \in Word
         /\ Shifted(Xor(c, Shr(b, k))) = Xor(TakeBit(c, b, k), Shr(b, k + 1))
  <1>1. b \in Word
    BY DEF Octet, Word
  <1>2. 0 \in Xor(c, Shr(b, k)) <=> (0 \in c) # (k \in b)
    BY <1>1 DEF Xor, Shr, Word
  <1>3. Shr(Shr(b, k), 1) = Shr(b, k + 1)
    BY <1>1 DEF Shr, Word
  <1>4. Shr(Xor(c, Shr(b, k)), 1) = Xor(Shr(c, 1), Shr(b, k + 1))
    BY <1>1, <1>3, ShrLinear, WordOps
  <1>5. \A p, q, r : Xor(Xor(p, q), r) = Xor(Xor(p, r), q)
    BY DEF Xor
  <1>6. TakeBit(c, b, k) \in Word
    BY WordOps DEF TakeBit
  <1>7. QED
    BY <1>2, <1>4, <1>5, <1>6 DEF Shifted, TakeBit

(* The eight bits of the definition are one turn of the bitwise build.     *)
LEMMA TakeByteIsBitwise ==
  ASSUME NEW c \in Word, NEW b \in Octet
  PROVE  TakeByte(c, b) = BitwiseByte(c, b)
  <1> DEFINE c1 == TakeBit(c, b, 0)   c2 == TakeBit(c1, b, 1)
             c3 == TakeBit(c2, b, 2)  c4 == TakeBit(c3, b, 3)
             c5 == TakeBit(c4, b, 4)  c6 == TakeBit(c5, b, 5)
             c7 == TakeBit(c6, b, 6)  c8 == TakeBit(c7, b, 7)
  <1>1. c1 \in Word /\ Shifted(Xor(c, b)) = Xor(c1, Shr(b, 1))
    <2>1. Shr(b, 0) = b
      BY ShrZero DEF Octet, Word
    <2>2. QED
      BY <2>1, TakeBitIsShifted
  <1> HIDE DEF c1
  <1>2. c2 \in Word /\ Shifted(Xor(c1, Shr(b, 1))) = Xor(c2, Shr(b, 2))
    BY <1>1, TakeBitIsShifted
  <1> HIDE DEF c2
  <1>3. c3 \in Word /\ Shifted(Xor(c2, Shr(b, 2))) = Xor(c3, Shr(b, 3))
    BY <1>2, TakeBitIsShifted
  <1> HIDE DEF c3
  <1>4. c4 \in Word /\ Shifted(Xor(c3, Shr(b, 3))) = Xor(c4, Shr(b, 4))
    BY <1>3, TakeBitIsShifted
  <1> HIDE DEF c4
  <1>5. c5 \in Word /\ Shifted(Xor(c4, Shr(b, 4))) = Xor(c5, Shr(b, 5))
    BY <1>4, TakeBitIsShifted
  <1> HIDE DEF c5
  <1>6. c6 \in Word /\ Shifted(Xor(c5, Shr(b, 5))) = Xor(c6, Shr(b, 6))
    BY <1>5, TakeBitIsShifted
  <1> HIDE DEF c6
  <1>7. c7 \in Word /\ Shifted(Xor(c6, Shr(b, 6))) = Xor(c7, Shr(b, 7))
    BY <1>6, TakeBitIsShifted
  <1> HIDE DEF c7
  <1>8. c8 \in Word /\ Shifted(Xor(c7, Shr(b, 7))) = Xor(c8, Shr(b, 8))
    BY <1>7, TakeBitIsShifted
  <1> HIDE DEF c8
  <1>9. Xor(c8, Shr(b, 8)) = c8
    BY DEF Shr, Octet, Xor
  <1>10. TakeByte(c, b) = c8
    BY DEF TakeByte, c1, c2, c3, c4, c5, c6, c7, c8
  <1>11. QED
    BY <1>1, <1>2, <1>3, <1>4, <1>5, <1>6, <1>7, <1>8, <1>9, <1>10
       DEF BitwiseByte, EightTimes

(* The casts of the length. *)
LEMMA Casts ==
  ASSUME NEW n \in Nat
  PROVE  /\ Unsigned(n) \in 0 .. IntRange - 1
         /\ Unsigned(n) <= n
         /\ n < IntRange => Unsigned(n) = n
         /\ n < IntRange \div 2 => n < IntRange /\ Signed(n) = n
         /\ Signed(Unsigned(n)) <= Unsigned(n)
         /\ Signed(Unsigned(n)) \in Int
  <1>1. IntRange \in Nat /\ IntRange > 0
    BY WidthAssumption
  <1>2. Unsigned(n) \in 0 .. IntRange - 1
    BY <1>1 DEF Unsigned
  <1>3. Unsigned(n) <= n
    BY <1>1 DEF Unsigned
  <1>4. n < IntRange => Unsigned(n) = n
    BY <1>1 DEF Unsigned
  <1>5. IntRange \div 2 <= IntRange
    BY <1>1
  <1>6. QED
    BY <1>1, <1>2, <1>3, <1>4, <1>5 DEF Signed
------------------------------------------------------------------------------
(***************************************************************************)
(* The invariant.  Besides the register, it keeps the account of the       *)
(* length: what is taken and what is left to take add up to the length     *)
(* that the function was given, except that inside a DO8 the bytes taken   *)
(* of its eight are still in len.                                          *)
(***************************************************************************)
LengthInStep ==
  LET n == Unsigned(Len(file)) IN
  /\ pc \in {"fast", "DO8", "tail"} => build = "fast"
  /\ pc \in {"fast", "tail"} => at + len = n
  /\ pc = "DO8" => len >= 8 /\ at + len = n + 8 - left
  /\ pc = "bitwise" => build = "bitwise" /\ len = n
  /\ build = "bitwise" => at <= n /\ (at > 0 => at <= Signed(n))
  /\ pc = "done" => /\ result = Xor(crc, Ones)
                    /\ build = "fast" => at = n
                    /\ build = "bitwise" => at >= Signed(n)

CrcInv == CrcTypeOK /\ RegisterIsCrc /\ LengthInStep

(* The register after one byte more. *)
LEMMA NextByte ==
  ASSUME CrcTypeOK, RegisterIsCrc, at < Len(file)
  PROVE  /\ at + 1 \in 0 .. Len(file)
         /\ DO1(crc, file[at + 1]) = Crc[file][at + 1]
         /\ BitwiseByte(crc, file[at + 1]) = Crc[file][at + 1]
         /\ Crc[file][at + 1] \in Word
  <1>1. file \in Files /\ file \in Seq(Octet) /\ Len(file) \in Nat /\ at \in Nat
    BY FilesAssumption DEF CrcTypeOK
  <1>2. at + 1 \in 1 .. Len(file) /\ at + 1 \in 0 .. Len(file)
    BY <1>1
  <1>3. file[at + 1] \in Octet
    BY <1>1, <1>2
  <1>4. (at + 1) - 1 = at
    BY <1>1
  <1>5. Crc[file][at + 1] = TakeByte(Crc[file][at], file[at + 1])
    BY <1>1, <1>2, <1>4, CrcAssumption
  <1>6. crc \in Word /\ crc = Crc[file][at]
    BY DEF CrcTypeOK, RegisterIsCrc
  <1>7. Crc[file][at + 1] \in Word
    BY <1>1, <1>2, CrcAssumption
  <1>8. QED
    BY <1>2, <1>3, <1>5, <1>6, <1>7, TakeByteIsBitwise, DO1IsBitwise

(* crc32 starts in the invariant, in either build.                         *)
LEMMA CrcInitially == CrcInit => CrcInv
  <1> SUFFICES ASSUME CrcInit PROVE CrcInv
    OBVIOUS
  <1>1. file \in Files /\ Len(file) \in Nat
    BY FilesAssumption DEF CrcInit
  <1>2. CrcTypeOK
    BY <1>1, Casts, BuildsAssumption DEF CrcInit, CrcTypeOK, Word, Ones
  <1>3. RegisterIsCrc
    BY <1>1, CrcAssumption DEF CrcInit, RegisterIsCrc
  <1>4. LengthInStep
    BY <1>1, Casts, BuildsAssumption, SMTT(30) DEF CrcInit, LengthInStep
  <1>5. QED
    BY <1>2, <1>3, <1>4 DEF CrcInv

(* The end of either function. *)
LEMMA FinishKeeps ==
  ASSUME CrcInv, Finish, UNCHANGED <<build, file>>,
         build = "fast" => at = Unsigned(Len(file)),
         build = "bitwise" => at >= Signed(Unsigned(Len(file)))
  PROVE  CrcInv'
  <1>1. Xor(crc, Ones) \in Word
    BY DEF CrcInv, CrcTypeOK, Xor, Ones, Word
  <1>2. CrcTypeOK'
    BY <1>1 DEF CrcInv, CrcTypeOK, Finish
  <1>3. RegisterIsCrc'
    BY DEF CrcInv, RegisterIsCrc, Finish
  <1>4. LengthInStep'
    BY DEF CrcInv, LengthInStep, Finish, Unsigned, Signed
  <1>5. QED
    BY <1>2, <1>3, <1>4 DEF CrcInv

(* No step of crc32 leaves the invariant.                                  *)
LEMMA CrcStep == CrcInv /\ [CrcNext]_crcVars => CrcInv'
  <1> SUFFICES ASSUME CrcInv, [CrcNext]_crcVars PROVE CrcInv'
    OBVIOUS
  <1> DEFINE n == Unsigned(Len(file))
  <1>1. /\ CrcTypeOK /\ RegisterIsCrc /\ LengthInStep
        /\ Len(file) \in Nat /\ at \in Nat /\ IntRange \in Nat
    BY FilesAssumption, WidthAssumption DEF CrcInv, CrcTypeOK
  <1>2. n \in Nat /\ n <= Len(file) /\ n < IntRange /\ Signed(n) <= n /\ Signed(n) \in Int
    BY <1>1, Casts
  <1>3. CASE FastTest /\ UNCHANGED <<build, file>>
    <2>1. CASE len >= 8 /\ pc' = "DO8" /\ left' = 8 /\ UNCHANGED <<len, at, crc, result>>
      <3>1. CrcTypeOK' /\ RegisterIsCrc'
        BY <1>1, <1>3, <2>1 DEF CrcTypeOK, RegisterIsCrc
      <3>2. LengthInStep'
        BY <1>1, <1>2, <1>3, <2>1 DEF CrcTypeOK, LengthInStep, FastTest
      <3>3. QED
        BY <3>1, <3>2 DEF CrcInv
    <2>2. CASE len \in 1 .. 7 /\ pc' = "tail" /\ UNCHANGED <<len, at, left, crc, result>>
      <3>1. CrcTypeOK' /\ RegisterIsCrc'
        BY <1>1, <1>3, <2>2 DEF CrcTypeOK, RegisterIsCrc
      <3>2. LengthInStep'
        BY <1>1, <1>2, <1>3, <2>2 DEF CrcTypeOK, LengthInStep, FastTest
      <3>3. QED
        BY <3>1, <3>2 DEF CrcInv
    <2>3. CASE len = 0 /\ Finish
      <3>1. build = "fast" /\ at = n
        BY <1>1, <1>2, <1>3, <2>3 DEF FastTest, LengthInStep
      <3>2. QED
        BY <1>3, <2>3, <3>1, FinishKeeps
    <2>4. QED
      BY <1>3, <2>1, <2>2, <2>3 DEF FastTest
  <1>4. CASE FastEight /\ UNCHANGED <<build, file>>
    <2>1. CASE left > 0 /\ TakeFast /\ left' = left - 1 /\ UNCHANGED <<len, pc, result>>
      <3>1. at < Len(file)
        BY <1>1, <1>2, <1>4, <2>1 DEF FastEight, LengthInStep, CrcTypeOK
      <3>2. /\ at' \in 0 .. Len(file) /\ at' = at + 1
            /\ crc' = Crc[file][at + 1] /\ crc' \in Word
        BY <1>1, <2>1, <3>1, NextByte DEF TakeFast
      <3>3. CrcTypeOK' /\ RegisterIsCrc'
        BY <1>1, <1>4, <2>1, <3>2 DEF CrcTypeOK, RegisterIsCrc
      <3>4. LengthInStep'
        BY <1>1, <1>2, <1>4, <2>1, <3>2
           DEF FastEight, LengthInStep, CrcTypeOK
      <3>5. QED
        BY <3>3, <3>4 DEF CrcInv
    <2>2. CASE /\ left = 0 /\ len' = len - 8 /\ pc' = "fast"
               /\ UNCHANGED <<at, left, crc, result>>
      <3>1. len >= 8
        BY <1>1, <1>4 DEF FastEight, LengthInStep
      <3>2. CrcTypeOK' /\ RegisterIsCrc'
        BY <1>1, <1>4, <2>2, <3>1 DEF CrcTypeOK, RegisterIsCrc
      <3>3. LengthInStep'
        BY <1>1, <1>2, <1>4, <2>2, <3>1 DEF FastEight, LengthInStep, CrcTypeOK
      <3>4. QED
        BY <3>2, <3>3 DEF CrcInv
    <2>3. QED
      BY <1>4, <2>1, <2>2 DEF FastEight
  <1>5. CASE FastTail /\ UNCHANGED <<build, file>>
    <2>1. CASE len > 0 /\ TakeFast /\ len' = len - 1 /\ UNCHANGED <<left, pc, result>>
      <3>1. at < Len(file)
        BY <1>1, <1>2, <1>5, <2>1 DEF FastTail, LengthInStep, CrcTypeOK
      <3>2. /\ at' \in 0 .. Len(file) /\ at' = at + 1
            /\ crc' = Crc[file][at + 1] /\ crc' \in Word
        BY <1>1, <2>1, <3>1, NextByte DEF TakeFast
      <3>3. CrcTypeOK' /\ RegisterIsCrc'
        BY <1>1, <1>5, <2>1, <3>2 DEF CrcTypeOK, RegisterIsCrc
      <3>4. LengthInStep'
        BY <1>1, <1>2, <1>5, <2>1, <3>2 DEF FastTail, LengthInStep, CrcTypeOK
      <3>5. QED
        BY <3>3, <3>4 DEF CrcInv
    <2>2. CASE len = 0 /\ Finish
      <3>1. build = "fast" /\ at = n
        BY <1>1, <1>2, <1>5, <2>2 DEF FastTail, LengthInStep
      <3>2. QED
        BY <1>5, <2>2, <3>1, FinishKeeps
    <2>3. QED
      BY <1>5, <2>1, <2>2 DEF FastTail
  <1>6. CASE BitwiseLoop /\ UNCHANGED <<build, file>>
    <2>0. build = "bitwise" /\ len = n
      BY <1>1, <1>6 DEF BitwiseLoop, LengthInStep
    <2>1. CASE /\ at < Signed(len)
               /\ crc' = BitwiseByte(crc, file[at + 1]) /\ at' = at + 1
               /\ UNCHANGED <<len, left, pc, result>>
      <3>1. at < Len(file) /\ at < Signed(n)
        BY <1>1, <1>2, <2>0, <2>1
      <3>2. /\ at' \in 0 .. Len(file) /\ at' = at + 1
            /\ crc' = Crc[file][at + 1] /\ crc' \in Word
        BY <1>1, <2>1, <3>1, NextByte
      <3>3. CrcTypeOK' /\ RegisterIsCrc'
        BY <1>1, <1>6, <2>1, <3>2 DEF CrcTypeOK, RegisterIsCrc
      <3>4. (Unsigned(Len(file)))' = n /\ Signed(Unsigned(Len(file)))' = Signed(n)
        BY <1>6 DEF Unsigned, Signed
      <3>5. LengthInStep'
        BY <1>1, <1>2, <1>6, <2>0, <2>1, <3>1, <3>2, <3>4
           DEF BitwiseLoop, LengthInStep
      <3>6. QED
        BY <3>3, <3>5 DEF CrcInv
    <2>2. CASE at >= Signed(len) /\ Finish
      BY <1>6, <2>0, <2>2, FinishKeeps
    <2>3. QED
      BY <1>6, <2>1, <2>2 DEF BitwiseLoop
  <1>7. CASE UNCHANGED crcVars
    BY <1>1, <1>7 DEF crcVars, CrcInv, CrcTypeOK, RegisterIsCrc, LengthInStep,
                      Unsigned, Signed
  <1>8. QED
    BY <1>3, <1>4, <1>5, <1>6, <1>7 DEF CrcNext

(* The inductive invariant, of which the three theorems below are parts.   *)
THEOREM CrcInvariant == CrcSpec => []CrcInv
  <1>1. QED
    BY CrcInitially, CrcStep, PTL DEF CrcSpec

(* The variables of the checksum keep their types, for every file and      *)
(* every width of int: in particular the buffer is never left.             *)
THEOREM CrcTypes == CrcSpec => []CrcTypeOK
  <1>1. CrcInv => CrcTypeOK
    BY DEF CrcInv
  <1>2. QED
    BY <1>1, CrcInvariant, PTL

(* In both builds the register is at every byte that of the definition.    *)
THEOREM RegisterCorrect == CrcSpec => []RegisterIsCrc
  <1>1. CrcInv => RegisterIsCrc
    BY DEF CrcInv
  <1>2. QED
    BY <1>1, CrcInvariant, PTL

(* Both builds return the checksum of the file, for every file whose size  *)
(* their integers can hold, whatever it is modulo 8.                       *)
THEOREM ChecksumCorrect == CrcSpec => []ResultIsCrc
  <1>1. CrcInv => ResultIsCrc
    <2> SUFFICES ASSUME CrcInv, pc = "done", Fits(Len(file))
                 PROVE  result = Ones \ Crc[file][Len(file)]
      BY DEF ResultIsCrc
    <2>1. /\ Len(file) \in Nat /\ at \in 0 .. Len(file) /\ crc \in Word
          /\ build \in {"fast", "bitwise"} /\ IntRange \in Nat
      BY FilesAssumption, BuildsAssumption, WidthAssumption DEF CrcInv, CrcTypeOK
    <2>2. at = Len(file)
      <3>1. CASE build = "fast"
        BY <2>1, <3>1, Casts DEF CrcInv, LengthInStep, Fits
      <3>2. CASE build = "bitwise"
        <4>1. Len(file) < IntRange \div 2
          BY <3>2 DEF Fits
        <4>2. Unsigned(Len(file)) = Len(file) /\ Signed(Len(file)) = Len(file)
          BY <2>1, <4>1, Casts
        <4>3. at >= Len(file)
          BY <3>2, <4>2 DEF CrcInv, LengthInStep
        <4>4. QED
          BY <2>1, <4>3
      <3>3. QED
        BY <2>1, <3>1, <3>2
    <2>3. result = Xor(crc, Ones) /\ crc = Crc[file][Len(file)]
      BY <2>2 DEF CrcInv, LengthInStep, RegisterIsCrc
    <2>4. Xor(crc, Ones) = Ones \ crc
      BY <2>1 DEF Xor, Ones, Word
    <2>5. QED
      BY <2>3, <2>4
  <1>2. QED
    BY <1>1, CrcInvariant, PTL
==============================================================================
