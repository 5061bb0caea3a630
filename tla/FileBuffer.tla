------------------------------ MODULE FileBuffer -----------------------------
(***************************************************************************)
(* buffer_from_file of src/src/binary.c in the hands of its three callers, *)
(* crc32_from_file, command_cat and write_file, and crc32_from_file as it  *)
(* is compiled with CHECKSUM_BUFFER, which loads the file by itself.       *)
(*                                                                         *)
(* Other processes use the file system meanwhile: between any two calls of *)
(* the C library, and between two reads that one fread makes, the file may *)
(* be rewritten in place, replaced under its name, or removed.  A name     *)
(* stands for an inode; a handle keeps the inode it was opened on.         *)
(*                                                                         *)
(* The CRC of the bytes that are summed is the business of Crc32: here a   *)
(* checksum is the sequence it was computed from, and 0, which is the CRC  *)
(* of no bytes, is the empty one.                                          *)
(***************************************************************************)
EXTENDS Integers, Sequences

CONSTANTS
  Contents,    (* what a file may hold                                     *)
  Callers,     (* the callers checked                                      *)
  MaxChanges,  (* bound: how often others change the file                  *)
  InPlace      (* whether they rewrite files in place, or only replace them *)

ChecksumCallers == {"checksum", "checksum_buffer"}

ASSUME ContentsAssumption == Contents \subseteq Seq(Nat)
ASSUME CallersAssumption  == Callers \subseteq ChecksumCallers \cup {"cat", "write"}
ASSUME ChangesAssumption  == MaxChanges \in Nat /\ InPlace \in BOOLEAN

VARIABLES
  name,     (* the inode the name stands for; 0 if there is no such file   *)
  inodes,   (* the contents of the inodes, in the order of their creation  *)
  changes,  (* how often others have changed the file                      *)
  caller,   (* who calls                                                   *)
  file,     (* the handle of crc32_from_file: an inode, or 0 if not open   *)
  fp,       (* the handle of buffer_from_file                              *)
  f_size,   (* what ftell said                                             *)
  heap,     (* the buffer: NULL, live or freed                             *)
  bytes,    (* as much of it as fread has filled                           *)
  size,     (* what buffer_from_file returned                              *)
  result,   (* what the caller used of the buffer                          *)
  complaints, (* what was printed on stderr                                *)
  versions, (* the contents that the inode being read has had since it was *)
            (* opened (a history variable)                                 *)
  pc

diskVars   == <<name, inodes, changes>>
bufferVars == <<caller, file, fp, f_size, heap, bytes, size, result,
                complaints, pc>>
fbVars     == <<diskVars, bufferVars, versions>>

BufferInit ==
  /\ \/ name = 0 /\ inodes = << >>
     \/ name = 1 /\ \E c \in Contents : inodes = <<c>>
  /\ changes = 0
  /\ caller \in Callers
  /\ file = 0 /\ fp = 0 /\ f_size = 0 /\ size = 0
  /\ heap = "NULL" /\ bytes = << >> /\ result = << >>
  /\ complaints = {} /\ versions = {}
  /\ pc = IF caller \in ChecksumCallers THEN "fopen_file" ELSE "fopen_fp"

(* The handle that is measured and read. *)
Reading == IF caller = "checksum_buffer" THEN file ELSE fp

(***************************************************************************)
(* The other processes.                                                    *)
(***************************************************************************)
MayChange == changes < MaxChanges /\ changes' = changes + 1
               /\ UNCHANGED bufferVars

Rewrite(n, c) ==
  /\ InPlace /\ MayChange
  /\ inodes' = [inodes EXCEPT ![n] = c]
  /\ versions' = versions \cup (IF n = Reading THEN {c} ELSE {})
  /\ UNCHANGED name

Replace(c) ==
  /\ MayChange
  /\ inodes' = Append(inodes, c) /\ name' = Len(inodes) + 1
  /\ UNCHANGED versions

Remove ==
  /\ MayChange /\ name # 0
  /\ name' = 0
  /\ UNCHANGED <<inodes, versions>>

Others ==
  \/ \E c \in Contents : Replace(c) \/ \E n \in 1 .. Len(inodes) : Rewrite(n, c)
  \/ Remove

(***************************************************************************)
(* The calls.  Any of them may fail, whatever the state of the file.       *)
(***************************************************************************)

(* crc32_from_file opens the file, and without CHECKSUM_BUFFER leaves it   *)
(* alone until it closes it.                                               *)
OpenFile ==
  /\ pc = "fopen_file"
  /\ \/ /\ name # 0
        /\ file' = name
        /\ pc' = IF caller = "checksum_buffer" THEN "ftell" ELSE "fopen_fp"
        /\ versions' = IF caller = "checksum_buffer" THEN {inodes[name]} ELSE {}
        /\ UNCHANGED complaints
     \/ /\ complaints' = {"open_failed"}
        /\ pc' = "returned"
        /\ UNCHANGED <<file, versions>>
  /\ UNCHANGED <<diskVars, caller, fp, f_size, heap, bytes, size, result>>

(* buffer_from_file returns n. *)
Give(n) == size' = n /\ fp' = 0 /\ pc' = "loaded"

(* Variant: the file is missing without a word. *)
OpenFpSilently ==
  /\ pc = "fopen_fp"
  /\ \/ name # 0 /\ fp' = name /\ pc' = "ftell" /\ versions' = {inodes[name]}
        /\ UNCHANGED size
     \/ Give(0) /\ UNCHANGED versions
  /\ UNCHANGED <<diskVars, caller, file, f_size, heap, bytes, result, complaints>>

OpenFp ==
  /\ pc = "fopen_fp"
  /\ \/ /\ name # 0
        /\ fp' = name /\ pc' = "ftell" /\ versions' = {inodes[name]}
        /\ UNCHANGED <<size, complaints>>
     \/ /\ Give(0)
        /\ complaints' = {"not_found"} /\ UNCHANGED versions
  /\ UNCHANGED <<diskVars, caller, file, f_size, heap, bytes, result>>

(* Variants: the size asked of the name and not of the handle, and a size  *)
(* that leaves out a byte at the end.                                      *)
MeasureByName ==
  /\ pc = "ftell" /\ pc' = "malloc"
  /\ f_size' = IF name = 0 THEN 0 ELSE Len(inodes[name])
  /\ UNCHANGED <<diskVars, versions, caller, file, fp, heap, bytes, size,
                 result, complaints>>
MeasureOneLess ==
  /\ pc = "ftell" /\ pc' = "malloc"
  /\ f_size' = Len(inodes[Reading]) - 1
  /\ UNCHANGED <<diskVars, versions, caller, file, fp, heap, bytes, size,
                 result, complaints>>

Measure ==
  /\ pc = "ftell"
  /\ f_size' = Len(inodes[Reading])
  /\ pc' = "malloc"
  /\ UNCHANGED <<diskVars, versions, caller, file, fp, heap, bytes, size,
                 result, complaints>>

(* With CHECKSUM_BUFFER the result of malloc is not looked at. *)
Malloc ==
  /\ pc = "malloc"
  /\ \/ heap' = "live" /\ pc' = "fread" /\ UNCHANGED <<fp, size, complaints>>
     \/ /\ caller = "checksum_buffer"
        /\ pc' = "fread" /\ UNCHANGED <<heap, fp, size, complaints>>
     \/ /\ caller # "checksum_buffer"
        /\ Give(0)
        /\ complaints' = {"no_memory"} /\ UNCHANGED heap
  /\ UNCHANGED <<diskVars, versions, caller, file, f_size, bytes, result>>

(* fread takes the next bytes, as many as one read yields. *)
Fread ==
  /\ pc = "fread" /\ heap = "live"
  /\ \E n \in Len(bytes) + 1 .. Len(inodes[Reading]) :
       /\ n <= f_size
       /\ bytes' = bytes \o SubSeq(inodes[Reading], Len(bytes) + 1, n)
  /\ UNCHANGED <<diskVars, versions, caller, file, fp, f_size, heap, size,
                 result, complaints, pc>>

(* It has read all that was asked for ... *)
FreadFull ==
  /\ pc = "fread" /\ Len(bytes) = f_size
  /\ Give(f_size)
  /\ UNCHANGED <<diskVars, versions, caller, file, f_size, heap, bytes,
                 result, complaints>>

(* Variants: a short read taken for a full one, and one tried again. *)
FreadShortAccepted ==
  /\ pc = "fread" /\ Len(bytes) < f_size
  /\ Give(f_size)
  /\ UNCHANGED <<diskVars, versions, caller, file, f_size, heap, bytes, result,
                 complaints>>
FreadShortAgain == pc = "fread" /\ Len(bytes) < f_size /\ UNCHANGED fbVars

(* Variant: after a short read the file is measured again. *)
FreadShortMeasured ==
  /\ pc = "fread" /\ Len(bytes) < f_size
  /\ pc' = "ftell" /\ bytes' = << >>
  /\ UNCHANGED <<diskVars, versions, caller, file, fp, f_size, heap, size,
                 result, complaints>>

(* ... or the file ends first, or cannot be read.  The buffer stays with   *)
(* the caller; with CHECKSUM_BUFFER the function is left as it is.         *)
FreadShort ==
  /\ pc = "fread" /\ Len(bytes) < f_size
  /\ \/ /\ caller # "checksum_buffer"
        /\ Give(0) /\ complaints' = {"inconsistent_read"}
     \/ /\ caller = "checksum_buffer"
        /\ pc' = "returned" /\ complaints' = {"read_failed"}
        /\ UNCHANGED <<fp, size>>
  /\ UNCHANGED <<diskVars, versions, caller, file, f_size, heap, bytes, result>>

(* Reading into NULL. *)
FreadFault ==
  /\ pc = "fread" /\ heap = "NULL" /\ f_size > 0
  /\ pc' = "fault"
  /\ UNCHANGED <<diskVars, versions, caller, file, fp, f_size, heap, bytes,
                 size, result, complaints>>

(* The buffer is summed, parsed or written, as far as size says. *)
Use ==
  /\ pc = "loaded"
  /\ result' = SubSeq(bytes, 1, size)
  /\ pc' = IF caller = "cat" /\ size = 0 THEN "returned" ELSE "free"
  /\ UNCHANGED <<diskVars, versions, caller, file, fp, f_size, heap, bytes,
                 size, complaints>>

(* Variant: only a buffer that was of use is freed. *)
FreeIfUsed ==
  /\ pc = "free"
  /\ heap' = IF size > 0 THEN "freed" ELSE heap
  /\ pc' = IF caller \in ChecksumCallers THEN "fclose_file" ELSE "returned"
  /\ UNCHANGED <<diskVars, versions, caller, file, fp, f_size, bytes, size,
                 result, complaints>>

Free ==
  /\ pc = "free"
  /\ heap' = IF heap = "live" THEN "freed" ELSE heap
  /\ pc' = IF caller \in ChecksumCallers THEN "fclose_file" ELSE "returned"
  /\ UNCHANGED <<diskVars, versions, caller, file, fp, f_size, bytes, size,
                 result, complaints>>

CloseFile ==
  /\ pc = "fclose_file"
  /\ file' = 0 /\ pc' = "returned"
  /\ UNCHANGED <<diskVars, versions, caller, fp, f_size, heap, bytes, size,
                 result, complaints>>

Program ==
  \/ OpenFile \/ OpenFp \/ Measure \/ Malloc
  \/ Fread \/ FreadFull \/ FreadShort \/ FreadFault
  \/ Use \/ Free \/ CloseFile

BufferNext == Program \/ Others

(* The program is a process that the system schedules. *)
BufferSpec == BufferInit /\ [][BufferNext]_fbVars /\ WF_fbVars(Program)
------------------------------------------------------------------------------
Ended == pc \in {"returned", "fault"}

(* Types of what crc32_from_file and buffer_from_file hold; a handle is    *)
(* that of a file that was there.                                          *)
BufferTypeOK ==
  /\ name \in 0 .. Len(inodes) /\ inodes \in Seq(Contents)
  /\ changes \in 0 .. MaxChanges /\ caller \in Callers
  /\ file \in 0 .. Len(inodes) /\ fp \in 0 .. Len(inodes)
  /\ f_size \in Nat /\ size \in Nat
  /\ heap \in {"NULL", "live", "freed"}
  /\ bytes \in Seq(Nat) /\ result \in Seq(Nat)
  /\ versions \subseteq Contents
  /\ pc \in {"fopen_file", "fopen_fp", "ftell", "malloc", "fread", "loaded",
             "free", "fclose_file", "returned", "fault"}

(* Whatever happens to the file between the calls, a caller never uses a   *)
(* byte of the buffer that fread did not fill, nor the buffer itself when  *)
(* there is none: the size it is given is that of what was read.           *)
UsedBytesWereRead ==
  /\ pc = "loaded" /\ size > 0 => heap = "live" /\ Len(bytes) = size
  /\ Len(bytes) > 0 => heap # "NULL"

(* The buffer is as long as the file was at one moment after it was        *)
(* opened, and each of its bytes was in the file, at its place, at one     *)
(* moment after that - though not all at the same one.                     *)
BytesOfTheFile ==
  pc = "loaded" /\ size > 0 =>
    /\ \E v \in versions : Len(v) = size
    /\ \A k \in 1 .. size :
         \E v \in versions : k <= Len(v) /\ v[k] = bytes[k]

(* What a call that returned has not given back.  buffer_from_file always  *)
(* closes its handle and crc32_from_file its own, and the buffer is freed, *)
(* but for two cases: command_cat keeps a buffer of which it got no byte,  *)
(* and crc32_from_file with CHECKSUM_BUFFER keeps both after a short read. *)
ResourcesReleased ==
  pc = "returned" =>
    /\ fp = 0
    /\ file # 0 => complaints = {"read_failed"}
    /\ heap = "live" => \/ caller = "cat" /\ size = 0
                        \/ complaints = {"read_failed"}

(* A caller that gets nothing of a file that was never empty since it was  *)
(* opened, or that there was not, has something on stderr to explain it.   *)
EmptyIsExplained ==
  pc = "returned" /\ result = << >> /\ << >> \notin versions =>
    complaints # {}

(* Every call ends, however often the file is changed: the size is taken   *)
(* once, and fread does not chase a file that grows.                       *)
CallEnds == <>Ended

(* Why it ends: no step goes back, whatever others do to the file; only    *)
(* reading stays where it is, and then there are more bytes than before,   *)
(* and never more than the size that was taken once.                       *)
Stage == [fopen_file |-> 0, fopen_fp |-> 1, ftell |-> 2, malloc |-> 3,
          fread |-> 4, loaded |-> 5, free |-> 6, fclose_file |-> 7,
          returned |-> 8, fault |-> 8]
ReadsOn ==
  /\ pc = "fread" /\ UNCHANGED <<pc, f_size>>
  /\ Len(bytes) < Len(bytes') /\ Len(bytes') <= f_size
CallMovesOn ==
  [][Stage[pc] < Stage[pc'] \/ ReadsOn \/ UNCHANGED bufferVars]_fbVars

(* If files are only replaced, never rewritten in place, then a call loads *)
(* the file as it was at one moment, or nothing.                           *)
Load == INSTANCE AtomicLoad WITH
  current <- IF name = 0 THEN {} ELSE {inodes[name]},
  phase   <- IF pc = "returned" THEN "answered"
             ELSE IF pc \in {"fopen_file", "fopen_fp"} THEN "asked" ELSE "taken",
  taken   <- versions,
  answer  <- IF pc = "returned" THEN result ELSE << >>
(* Every behaviour of the calls is one of AtomicLoad, where InPlace is     *)
(* FALSE: buffer_from_file opens the name once and reads that one inode.   *)
LoadsAtomically == Load!LoadSpec
==============================================================================
