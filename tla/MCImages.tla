------------------------------- MODULE MCImages ------------------------------
(***************************************************************************)
(* Small PUL images for TLC, with the real layout: every field has the     *)
(* width it has in a file, and the bytes that no code interprets are       *)
(* numbered, so that a byte that strays from its place is seen.            *)
(***************************************************************************)
EXTENDS PulLayout

Num16(n) == <<n \div 256, n % 256>>
Num32(n) == <<0, 0>> \o Num16(n)
Fill(n, seed) == [k \in 1 .. n |-> (3 * k + seed) % 256]

(* The sizes a writer of the format gives n cups. *)
Rounded(n) == 8 * ((n + 1) \div 2)
EndOfConfig(n) == 144 + 10 * Rounded(n)

MCHeader(info, bmg) ==
  FILE_MAGIC \o Num32(3) \o Num32(info) \o Num32(info + 80) \o Num32(bmg)
    \o Fill(16, 1)
MCInfo == INFO_MAGIC \o Num32(1) \o Num32(80) \o Fill(68, 40)
MCCups(n) ==
  CUPS_MAGIC \o Num32(3) \o Num32(28 + 10 * Rounded(n)) \o Num16(n)
    \o Fill(14, 90)

(* The configuration part of a file with n cups whose bmg is at offset bmg. *)
MCConfigAt(n, bmg) ==
  MCHeader(36, bmg) \o MCInfo \o MCCups(n) \o Fill(10 * Rounded(n), 130)
MCConfig(n) == MCConfigAt(n, EndOfConfig(n))

(* A bmg of n bytes (at least 12) and a text part of n bytes (at least 4).  *)
MCBmg(n) == BMG_MAGIC_1 \o BMG_MAGIC_2 \o Num32(n) \o Fill(n - 12, 200)
MCBmgOf(size, n) == BMG_MAGIC_1 \o BMG_MAGIC_2 \o Num32(size) \o Fill(n - 12, 200)
MCTxt(n) == TEXT_MAGIC \o Fill(n - 4, 17)
MCFile(n) == MCConfig(n) \o MCBmg(14) \o MCTxt(6)

(* What can be wrong with a file. *)
Damaged(b, K) == [k \in DOMAIN b |-> IF k \in K THEN 0 ELSE b[k]]
Truncated(b, n) == SubSeq(b, 1, n)

(* The remains of a well-formed file. *)
Tail1 == SubSeq(MCFile(1), 119, Len(MCFile(1)))

(* A struct pul_file on the stack: zeroes, or the remains of earlier calls  *)
(* that happen to read as c cups.                                           *)
MCStack(x, c) ==
  LET junk(n) == [k \in 1 .. n |-> x] IN
  [f_hdr |-> [magic |-> junk(4), version |-> junk(4),
              info_offset |-> junk(4), cups_offset |-> junk(4),
              bmg_offset |-> junk(4), mod_folder_name |-> junk(16)],
   i_hdr |-> [magic |-> junk(4), version |-> junk(4), size |-> junk(4)],
   i_fld |-> [room_key |-> junk(4), prob_100cc |-> junk(4),
              prob_150cc |-> junk(4), wiimmfi_region |-> junk(4),
              track_blocking |-> junk(4), tt_trophies |-> junk(1),
              enable_200cc |-> junk(1), umts |-> junk(1),
              feather |-> junk(1), mega_tc |-> junk(1),
              n_cup_icons |-> junk(2), track_timer |-> junk(1),
              padding |-> junk(40)],
   c_hdr |-> [magic |-> junk(4), version |-> junk(4), size |-> junk(4),
              n_ct_cups |-> Num16(c), nin_track_mode |-> junk(1),
              padding |-> junk(1), n_trophies |-> [j \in 1 .. 4 |-> junk(2)],
              n_variants |-> junk(4)]]
==============================================================================
