------------------------------ MODULE PulPrinter -----------------------------
(***************************************************************************)
(* What the printers of src/src/pul.c put on stdout for a struct pul_file: *)
(* the numbers and the name, in their order; the words, tabs and line      *)
(* breaks between them are left out.  What one conversion prints is a      *)
(* tuple: of one number for %d, of the bytes of a word for %x and %u, of   *)
(* the letters for %s.                                                     *)
(***************************************************************************)
EXTENDS PulLayout

(* %d of an uint8_t and of an uint16_t, which are promoted to int, and of  *)
(* an uint32_t, whose bits are taken for those of an int.                  *)
Small(b)   == <<b[1]>>
Middle(b)  == <<U16(b)>>
Decimal(b) == <<Int32(b)>>

(* %.16s: as far as the first NUL, if there is one. *)
String(s) ==
  SubSeq(s, 1, CHOOSE n \in 0 .. MOD_NAME_MAX :
                 /\ \A k \in 1 .. n : s[k] # 0
                 /\ n < MOD_NAME_MAX => s[n + 1] = 0)

PrintedHeader(h) ==
  <<h.magic, Decimal(h.version), Decimal(h.info_offset), Decimal(h.cups_offset),
    Decimal(h.bmg_offset), String(h.mod_folder_name)>>

PrintedInfo(h) == <<h.magic, Decimal(h.version), Decimal(h.size)>>

PrintedFields(f) ==
  <<Decimal(f.room_key), Decimal(f.prob_100cc), Decimal(f.prob_150cc),
    Decimal(f.wiimmfi_region), Decimal(f.track_blocking), Small(f.tt_trophies),
    Small(f.enable_200cc), Small(f.umts), Small(f.feather), Small(f.mega_tc),
    Middle(f.n_cup_icons), Small(f.track_timer)>>

PrintedCups(h) ==
  <<h.magic, Decimal(h.version), Decimal(h.size), Middle(h.n_ct_cups),
    Small(h.nin_track_mode), Middle(h.n_trophies[1]), Middle(h.n_trophies[2]),
    Middle(h.n_trophies[3]), Middle(h.n_trophies[4]), Decimal(h.n_variants)>>

PrintedTrack(t, index) ==
  <<<<index>>, Small(t.track_slot), Small(t.music_slot), Middle(t.n_variants),
    t.crc32>>

(* Variant: a printer that rounds an even number of cups up as well. *)
PrintAlphabetRoundingEven(c) == 4 * (U16(c.n_ct_cups) + 1)

(* print_track_entries and print_alphabet_table each compute the number of *)
(* tracks again, and index the arrays up to it.                            *)
PrintTracks(c)   == 4 * (U16(c.n_ct_cups) + (U16(c.n_ct_cups) % 2))
PrintAlphabet(c) == 4 * (U16(c.n_ct_cups) + (U16(c.n_ct_cups) % 2))
==============================================================================
