------------------------------ MODULE PulLayout ------------------------------
(***************************************************************************)
(* The PUL configuration format as src/src/pul.h declares it: the magics,  *)
(* the sizes of the sections, and the conversions of src/src/binary.c.     *)
(*                                                                         *)
(* A field of the format is the tuple of its bytes, most significant       *)
(* first.  That is what read_be_uint16 and read_be_uint32 compute from a   *)
(* buffer when the compiler evaluates the operands of | from left to       *)
(* right, and what write_be_uint16 and write_be_uint32 put on a stream,    *)
(* so a tuple stands for the C integer and is decoded (U16, U32, Int32)    *)
(* only where the code computes with it.                                   *)
(***************************************************************************)
EXTENDS Integers, Sequences

Byte == 0 .. 255

(* Fields of n bytes. *)
Bytes(n) == [1 .. n -> Byte]

FILE_MAGIC  == <<80, 85, 76, 83>>      \* 0x50554C53  PULS
INFO_MAGIC  == <<73, 78, 70, 79>>      \* 0x494E464F  INFO
CUPS_MAGIC  == <<67, 85, 80, 83>>      \* 0x43555053  CUPS
BMG_MAGIC_1 == <<77, 69, 83, 71>>      \* 0x4D455347  MESG
BMG_MAGIC_2 == <<98, 109, 103, 49>>    \* 0x626D6731  bmg1
TEXT_MAGIC  == <<70, 73, 76, 69>>      \* 0x46494C45  FILE

MOD_NAME_MAX == 16

(* Variant: a track entry whose checksum the cursor does not pass. *)
TrackSizeSansChecksum == 4

(* What the readers consume of a section whose magic is right. *)
HeaderSize   == 20 + MOD_NAME_MAX
InfoSize     == 80
CupsSize     == 28
TrackSize    == 8
AlphabetSize == 2

(* A uint16_t, a uint32_t, and a uint32_t stored in an int. *)
U16(b)   == 256 * b[1] + b[2]
U32(b)   == 16777216 * b[1] + 65536 * b[2] + 256 * b[3] + b[4]
Int32(b) == 16777216 * (IF b[1] < 128 THEN b[1] ELSE b[1] - 256)
              + 65536 * b[2] + 256 * b[3] + b[4]
IntMax == 2147483647

(* The sum of two of them as a size_t, stored in an int again; and whether *)
(* one is at most n.  Both are computed in halves, which stay small.       *)
High(b) == U16(<<b[1], b[2]>>)
Low(b)  == U16(<<b[3], b[4]>>)
SumInt32(b, c) ==
  LET low  == Low(b) + Low(c)
      high == (High(b) + High(c) + low \div 65536) % 65536
  IN  65536 * (IF high < 32768 THEN high ELSE high - 65536) + (low % 65536)
AtMost(b, n) ==
  \/ High(b) < n \div 65536
  \/ High(b) = n \div 65536 /\ Low(b) <= n % 65536

(* The structs of pul.h. *)
FileHeader  == [magic : Bytes(4), version : Bytes(4), info_offset : Bytes(4),
                cups_offset : Bytes(4), bmg_offset : Bytes(4),
                mod_folder_name : Bytes(MOD_NAME_MAX)]
InfoHeader  == [magic : Bytes(4), version : Bytes(4), size : Bytes(4)]
InfoFields  == [room_key : Bytes(4), prob_100cc : Bytes(4),
                prob_150cc : Bytes(4), wiimmfi_region : Bytes(4),
                track_blocking : Bytes(4), tt_trophies : Bytes(1),
                enable_200cc : Bytes(1), umts : Bytes(1), feather : Bytes(1),
                mega_tc : Bytes(1), n_cup_icons : Bytes(2),
                track_timer : Bytes(1), padding : Bytes(40)]
CupsHeader  == [magic : Bytes(4), version : Bytes(4), size : Bytes(4),
                n_ct_cups : Bytes(2), nin_track_mode : Bytes(1),
                padding : Bytes(1), n_trophies : [1 .. 4 -> Bytes(2)],
                n_variants : Bytes(4)]
TrackEntry  == [track_slot : Bytes(1), music_slot : Bytes(1),
                n_variants : Bytes(2), crc32 : Bytes(4)]

(* The bytes of a struct, member after member as pul.h declares them. *)
HeaderImage(h) == h.magic \o h.version \o h.info_offset \o h.cups_offset
                    \o h.bmg_offset \o h.mod_folder_name
InfoImage(h)   == h.magic \o h.version \o h.size
FieldsImage(f) == f.room_key \o f.prob_100cc \o f.prob_150cc
                    \o f.wiimmfi_region \o f.track_blocking \o f.tt_trophies
                    \o f.enable_200cc \o f.umts \o f.feather \o f.mega_tc
                    \o f.n_cup_icons \o f.track_timer \o f.padding
CupsImage(h)   == h.magic \o h.version \o h.size \o h.n_ct_cups
                    \o h.nin_track_mode \o h.padding
                    \o h.n_trophies[1] \o h.n_trophies[2]
                    \o h.n_trophies[3] \o h.n_trophies[4] \o h.n_variants
TrackImage(t)  == t.track_slot \o t.music_slot \o t.n_variants \o t.crc32
==============================================================================
