------------------------------- MODULE MCCrc32 -------------------------------
(***************************************************************************)
(* TLC instance of Crc32, with the table of the source: files of every     *)
(* length up to 17, on both sides of every multiple of 8, and every file   *)
(* of one byte, so that each entry of the table is used.                   *)
(***************************************************************************)
EXTENDS Crc32

T == INSTANCE CrcTable

MCTable == T!crc_table

Sample(n, seed) == [k \in 1 .. n |-> T!BitsOf((37 * k * k + seed) % 256)]
Zeros(n) == [k \in 1 .. n |-> {}]
MCFiles == {Sample(n, s) : n \in 0 .. 17, s \in {0, 101}}
             \cup {Zeros(n) : n \in {1, 4, 9}}
             \cup {<<b>> : b \in Octet}

MCCrc ==
  [f \in Files |->
     LET register[n \in 0 .. Len(f)] ==
           IF n = 0 THEN Ones ELSE TakeByte(register[n - 1], f[n])
     IN  register]
==============================================================================
