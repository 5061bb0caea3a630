# Catapult in TLA+

Catapult is a C program and library for PUL files, the configuration of a
game modification pack: a file header, an INFO section, a CUPS section with a
track array and an alphabet index table, and behind them a bmg file and a text
file. The program prints such a file (`CAT`) and computes the CRC32 of any file
(`CHECKSUM`); the library also takes a PUL file apart and writes one.

Everything is sequential C. What is hard about it is elsewhere: a cursor that
every read shares, a parser that goes on after an error, buffers without a
known size, C integers at their limits, two implementations of one function,
streams that are torn by a crash, files that are named twice, files that others
change between two calls, and an argument vector that is permuted while it is
scanned.

## The system

| Part | Source | State | Operations | Modules |
| --- | --- | --- | --- | --- |
| Format | `src/pul.h` | – | the layout of the structs | `PulLayout` |
| Binary reading and writing | `src/binary.c:10-49` | the cursor, a stream | `read_byte` … `write_be_uint32` | `PulLayout`, `PulReader`, `PulArchive` |
| Reader | `src/pul.c:11-108` | `struct pul_file`, the cursor | `read_file` | `PulReader` |
| Printer | `src/pul.c:114-200` | loop variables | `print_file`, `print_track_entries`, `print_alphabet_table` | `PulPrinter`, `CatSession` |
| Exports | `src/pul.c:206-255` | files | `export_bmg`, `export_txt` | `PulArchive`, `PulStore` |
| Writer | `src/pul.c:261-350` | files, a stream | `write_file` | `PulArchive`, `PulStore` |
| CRC32 | `src/crc32.c` | the register | `crc32`, two builds | `CrcTable`, `Crc32` |
| Checksum of a file | `src/binary.c:55-86` | two handles, a buffer | `crc32_from_file`, two builds | `FileBuffer`; the cast of the size in `Crc32` |
| File buffer | `src/binary.c:92-121` | a handle, a buffer | `buffer_from_file` | `FileBuffer`, `AtomicLoad` |
| Command line | `src/catapult.c` | `app_state`, `optind` | `main`, `CAT`, `CHECKSUM` | `CatCommand`, `CatSession` |
| getopt | `src/getopt/` | `optind`, `nextchar`, `argv` and more | `getopt`, `getopt_long`, `getopt_long_only`, `exchange` | `Getopt`, `GetoptExchange`, `ArgvRotation` |

How they interact: `main` matches the command; `handle_cat` has `getopt_long`
take the options, which permutes `argv` by `exchange`, and `command_cat` has
`buffer_from_file` load the file, hands buffer and cursor to `read_file`, frees
the buffer and prints the struct.
`crc32_from_file` loads a file the same way and calls `crc32`. The exports take
the struct and the buffer; `write_file` takes the struct and the *paths* of the
two parts, which it loads with `buffer_from_file`. Nothing but files, and the
struct, connects an export with a later write, and no function tells its caller
that it failed.

The behaviours that are hard, and what would make each part correct:

* Reader: the cursor must agree with what the header says after every section,
  also where a section was reported and skipped; loops are bounded by numbers
  that the file, or the stack, supplies.
* Exports and writer: the two exports must share out what lies from the bmg on,
  and find the seam where the file has it, whatever its numbers are;
  putting them back must restore the file, in place too; a call that is cut
  short by a crash or a full disk must not leave a different configuration.
* CRC32: two builds must agree with each other and with the definition, over
  every length, with C integers that wrap and change sign.
* File buffer: size, contents and name may each be of another moment; a caller
  must not use what was not read, and handles and buffers must be given back.
* Printer and `CAT` as a whole: the listing is made after the buffer was freed,
  of a file that others may have replaced since; it must be all of one version
  of the file, number for number.
* Command line: what is shown must not depend on the order or spelling of the
  options; getopt keeps five static variables from call to call, and `exchange`
  moves elements that must neither be lost nor change their order.

## Modules

**`PulLayout`** – a field is the tuple of its bytes, most significant first.
That is what `read_be_uint32` computes and `write_be_uint32` puts out when the
operands of `|` are evaluated from left to right (C leaves the order open; the
models follow the compilers in use). `U16`, `U32` and `Int32` decode a field
only where the code computes with it; `Int32` is a `uint32_t` stored in an `int`,
and `SumInt32` the sum of two as a `size_t` stored in an `int`, which wraps. It is
computed in halves, as `AtMost` compares, so that TLC's integers hold it.

**`PulReader`** – `read_file`. One action per static function and per loop
iteration. `offset` is the cursor, `t_arr` and `alphabet_table` the arrays as
far as they are filled, `reported` the sections that "Invalid data" was printed
for. `Peek(o, n)` is what *n* reads at *o* see: the buffer, and what lies around
it (`memory`) wherever they run past it, in which case `Advance` also lets the
process end (`pc = "fault"`). The struct starts as anything in `StackStructs`,
since the caller does not initialise it, and a section with a wrong magic keeps
those values. A `malloc` that returns `NULL` ends in the store through it.

**`PulArchive`** – extends the reader by what a program can do once `read_file`
has returned: `export_bmg`, `export_txt` and `write_file`, on a `disk` that maps
paths to contents. A call opens (and empties) its path, collects bytes in
`stream`, hands them over a `block` at a time as stdio does, and hands over the
rest in `Close`. `Crash`, the death of the process (not of the machine: what was
handed over stays), may fall between any two steps, and `DiskFills` makes every
later growth of a file fail, which the code does not notice; it is assumed that no
space comes back. `write_file`
reads its parts from the disk *while it writes*, so paths that alias are
modelled. The caller is not in the repository: `Requests` are the calls it may
make, in any order.

**`PulStore`** – the abstract promise of those calls, with files known only by
what they are: the bmg part, the text part, the whole, or something else. A call
changes its own path alone; an export that ends well has made its part, and a
write of the two right parts has made the whole; an export fails only for want
of space. `PulArchive` implements it under the mapping `Store`, which tells what
a file is from the bytes of the loaded one. Reading the file is a stutter.

**`PulPrinter`** – what the printers put on stdout for a struct, one tuple for
each conversion: the bytes of a word for `%x` and `%u`, a number for `%d` (which
makes an `int` of a `uint32_t`), the letters for `%.16s`. Words, tabs and line
breaks are left out.

**`CatSession`** – `command_cat` from beginning to end: `FileBuffer` (EXTENDS)
loads the file while others change it, `PulReader` (`R`, an instance whose
buffer is that of `FileBuffer` as long as it is allocated) reads it, and the
printers print it, an action for each entry of an array. `MayFree` is the place
of `free` in `command_cat`: behind `read_file`. A read from a buffer that was
freed would find what memory holds, so that printing out of the buffer, or
freeing it too early, shows.

**`CrcTable`** – the 256 constants of `crc_table`, as halves, since TLC's
integers have 32 bits with a sign.

**`Crc32`** – `crc32` in both builds on the whole of a file, as
`crc32_from_file` calls it. A word is the set of the positions of its 1 bits.
`FastTest`, `FastEight` and `FastTail` are the unrolled build, `BitwiseLoop` the
other; `IntRange`, the number of values of an `int`, makes the casts
`(unsigned int)size` and `(int)len` visible at sizes TLC reaches. `TakeByte` is
the bit-serial definition of the CRC and `Crc` its register after every prefix
of a file.

**`FileBuffer`** – `buffer_from_file` with its three callers, and
`crc32_from_file` as `CHECKSUM_BUFFER` compiles it. One action per call of the C
library, each of which may fail. A name stands for an inode and a handle keeps
the inode it was opened on, so that `Others` can rewrite the file in place
(`Rewrite`), put another one in its place (`Replace`) or remove it between any
two steps; `Fread` takes as many bytes as one read yields. `heap`, `fp` and
`file` are the resources a call owns. `versions` is a history variable.

**`AtomicLoad`** – the abstract promise: the whole contents of one moment of the
call, or nothing. `FileBuffer` implements it if files are only replaced
(`InPlace = FALSE`), under the mapping `Load`.

**`ArgvRotation`** – what exchanging two adjacent parts of a vector means.

**`GetoptExchange`** – `exchange`, an action per round (`Enter`), swap (`Swap`)
and end of a round (`Exclude`), and `Relocate` for the two records at the end.

**`Getopt`** – `_getopt_internal` behind its three functions, called until it
returns -1 by one of `Callers`, which choose the function, `optstring`, the
table of long options and the first `optind`. An action per stage: `Call`
(initialisation, with the prefixes `-`, `+` and `:` of `optstring`), `Skip`
(permutation and non-options), `EndMark` (`--`), `Finish`, `MeetNonoption`,
`OpenOption`, and `Decode`, which takes what `LongAt`, `ShortAt` or `WAt` finds
at `nextchar`. Elements of `argv` and names are sequences of letters. It uses
`Rotated` for `exchange`, which `GetoptExchange` justifies. `Reading` is the
reference: the command line read from left to right without moving anything and
with no memory but the place.

Some behaviour that the module keeps as the code has it: the prefix `-` or `+`
is skipped by the first call only, so that a missing argument is `:` then and
`?` later for an `optstring` like `+:o:`; the argument of `-W` stays in `optarg`
for a long option that takes none; and an ambiguous `-W` moves `optind` once
more than it should: both of its elements have been counted (`getopt.c:967`) when
the complaint counts once more (`getopt.c:1020`). If that takes `optind` past the
end, which `getopt.c:118` ("Index in ARGV of the next element to be scanned") does
not provide for, the next call looks behind `argv` (`LookBehind`, `pc = "fault"`);
`BeyondOnlyAfterW` says that nothing else does. `handle_cat` asks for none of
these. As to the first, `OptionsInOrder` says nothing: its reference has to
remember the prefix as the code does, since nothing says what is right.

`CMakeLists.txt:13-15` links this copy of getopt on Windows only; elsewhere the
program has that of its C library. And `getopt_long` and `getopt_long_only` call
`_getopt_internal`, which is defined in the old style, with seven arguments where
it has six parameters (`getopt.c:1188`, `1195`). The C standard leaves that
undefined; with the calling conventions in use the last argument, a 0, is not
looked at, and so it is in the model.

**`CatCommand`** – extends `Getopt` by `main`, `handle_cat`, `command_cat` and
`handle_checksum`. `IsHandleCat` is what `handle_cat` asks `getopt_long` for, an
assumption on the caller that TLC evaluates and the proofs use. Whether the file can be loaded is a choice here, and so
is whether the process survives `read_file`, which may run out of the buffer, or
the `fread` of the one build of `crc32_from_file` (`step = "fault"`); how a file is
loaded is `FileBuffer`, and how it is read is `PulReader`.

**`MCImages`**, **`MCPulReader`**, **`MCPulArchive`**, **`MCCrc32`**,
**`MCFileBuffer`**, **`MCCatSession`**, **`MCGetoptExchange`**, **`MCGetopt`**,
**`MCCatCommand`** – instances for TLC. **`PulReaderProofs`**,
**`PulArchiveProofs`**, **`Crc32Proofs`**, **`FileBufferProofs`**,
**`CatSessionProofs`**, **`GetoptExchangeProofs`**, **`GetoptProofs`**,
**`CatCommandProofs`** – the proofs, each about the module it is named for.

Operators that a comment calls a *variant* are plausible slips in the code
(two fields exchanged, a mask or a tail forgotten). Nothing uses them; put in
the place of the definition they vary, each makes TLC refute the property it is
listed with in `PROJECT.json`.

## Runs

| Run | Shows | Bounds, and why they are enough |
| --- | --- | --- |
| `reader` | `ReaderTypeOK`, `ReadsInBounds`, `FaithfulRead`, `CursorInStep`, `ArraysFilled` | real section sizes; 0 to 3 cups (both parities, with and without rounding), every magic damaged, files cut inside every section and array, two stack contents, two surroundings of the buffer (one continues a cut file plausibly) |
| `reader_offset` | `InfoReadAtInfoOffset` is violated | the same files |
| `reader_invalid` | `InvalidCupsNotUsed` is violated | the same files |
| `archive` | `ArchiveTypeOK`, `LoopsInBounds`, `ExportsPartitionTheRest`, `ExportedTextIsAnEnd`, `ReassemblyIsIdentity`, `TornFileIsPrefix`, `CallsInStep`, `KeepsStore` | every sequence of 3 calls (export, export, write is the shortest that restores a file) out of 8 requests on 3 paths; 9 files, well-formed and not, one with a bmg size of 2^31 or more, whose sum with the offset wraps to a place in front of the bmg, and one with such an offset, which is negative; crashes anywhere; a disk that may fill up during the first call (`FillCalls`: the others then work on what a torn one left); streams of blocks of 7 bytes, which fall inside fields |
| `archive_offset` | `BmgAtBmgOffset` is violated | files with a gap before the bmg and the like |
| `crc` | `CrcTypeOK`, `RegisterIsCrc`, `ResultIsCrc` | both builds, the real table, files of each length 0 to 17 (0, 1, 2 rounds of `DO8` and every remainder) and every one-byte file; `int` of 32 values, so that the signed casts of the bitwise build are met from 16 bytes on |
| `crc_wrap` | `ChecksumOfTheFile` is violated | `int` of 16 values: a file of 16 or 17 bytes stands for one of 4 GiB and more |
| `file_buffer` | `BufferTypeOK`, `UsedBytesWereRead`, `BytesOfTheFile`, `ResourcesReleased`, `EmptyIsExplained`, `CallEnds`, `CallMovesOn` | all four callers; an absent file and 4 contents: empty, two of one length that differ in every byte, and a longer one; 3 changes of any kind (one between each two of open, measure, read) |
| `session` | `SessionTypeOK`, `ShownIsTheFile`, `LoadsAtomically` | all four callers of loading, of which `CAT` goes on to read and print; a file of no cup, one of one cup with large bytes, among them the first 32-bit number that is negative as an `int` and one just below, and one that is no PUL file; both options or only `-t`; 2 changes (replacements and removals) at any time; `fread` stops after 100 bytes, at the measured size or at the end (`Stops`) |
| `exchange` | `ExchangeTypeOK`, `SwapsApart`, `OutsideInPlace`, `Exchanged`, `ExchangeEnds` | every pair of adjacent parts in vectors of up to 12 elements, all different: rounds of both kinds, equal parts, several rounds |
| `getopt` | `GetoptTypeOK`, `OptionsInOrder`, `OptionsComeFirst`, `BeyondOnlyAfterW`, `ScanEnds`, `ScanMovesOn` | seven callers: `getopt_long` as `handle_cat` calls it, with arguments required and optional, on every line of up to 3 elements of 18 kinds and of up to 4 of the 5 kinds that `argv` is permuted for; `getopt` with and without `:`; `+:` and `-` in front; `getopt_long_only`; `-W`; each of these on lines of up to 3 elements of 7 to 10 kinds; with and without `POSIXLY_CORRECT` |
| `command` | `MainTypeOK`, `ShownAsAsked`, `OptionLoopEnds` | the options of `handle_cat`, up to 3 arguments of 11 kinds behind the file (an option, what is moved and what ends the options); seven verbs; from no argument at all to 6 |

All runs switch deadlock checking off: a function that returned, a fault or a
crash is the end of a behaviour.

Fairness is weak fairness of the program's own steps, and never of others: a
process that can make a step is scheduled in the end. `FileBuffer`,
`GetoptExchange`, `Getopt` and `CatCommand` state it, for `CallEnds`,
`ExchangeEnds`, `ScanEnds` and `OptionLoopEnds` (which is about the options alone:
reading the file may end the process); those who change files owe
nothing. `PulReader`, `PulArchive`, `CatSession` and `Crc32` state no liveness
and no fairness: that they end is visible in the bounds of their loops.

### What the violations say

* `InfoReadAtInfoOffset`: `pul.h:19` calls `info_offset` the "offset to info
  section header"; `read_file` never looks at it. A file with a gap between its
  sections, which the format allows for, is misread.
* `InvalidCupsNotUsed`: after "Invalid data: CUPS" the arrays are allocated and
  filled all the same, with the number of cups that the stack happened to hold.
* `BmgAtBmgOffset`: `write_file` writes the `bmg_offset` it once read but puts
  the bmg directly behind the table. `ReassemblyIsIdentity`, which holds, is the
  other side: when the file had no gap, all of it comes back.
* `ChecksumOfTheFile`: the size of a file is cast to `unsigned int`, so that of
  a file of 4 GiB or more only the first part is summed.

## Proofs

Checked by TLAPS for every value of the constants: files of any size and
content, any memory, any stack, any width of `int`, any number of calls, any
command line and any table of options. Every safety property that a run checks
is a theorem, and so is each of the two refinements. What the assumptions on the
constants say is named in the module that declares them and evaluated by TLC.

`PulReaderProofs`: `ReaderTypes` is an induction of its own. It is used in
`ReaderInvariant`, whose invariant `ReaderInv` adds `CursorInStep`:
`ReadsInBounds` alone is not inductive, since that the cursor is inside the
buffer follows only from where it is at each program point and from what the
header that has been read says, while the buffer says the same. From it follow
`CursorStaysInStep`, `ReadingInBounds`, and, with lemmas on how the images of
the structs are put together from slices of the buffer, `ReadingIsFaithful`.
`ArraysAreFilled` says that a file which was read to its end has filled the
arrays to the sizes they were allocated with, whatever it says its numbers are:
everything that prints or writes the arrays afterwards rests on it.

`PulArchiveProofs`: the invariant `ArchiveInv` contains that of the reader. What
it adds is `CallsInStep`: at each point of a call, the loop counter, the bytes in
the stream and those already in the file are together what a whole file begins
with, as far as the call has come. None of the properties is inductive without
it: that a torn file is a prefix (`TornFilesArePrefixes`) follows because a
stream hands over the beginning of what it was given (`FlushedIsPrefix`); that
the parts put back are the file (`ReassemblyRestoresTheFile`) because a call that
closes its stream has put in all of it, whatever the parts were when it opened
them, in place too. `ExportsShareTheFile` and `LoopsStayInBounds` follow from
the same invariant; the first is about what lies from `bmg_offset` on, if both
parts lie in the file (the bytes of a gap in front of it are in neither).
`ExportedTextsAreEnds` makes no assumption on the numbers of the file: the lemmas
on halves (`Halves`, `SumIs`, `SumInRange`) say that `SumInt32` is the sum where an
`int` holds it, and in the range of `int` anyhow. `ArchiveKeepsStore` shows the
refinement: what a file *is* depends on its bytes and on the loaded file alone, so
that a step which writes no path changes nothing in `PulStore`, and one that closes
a file makes of it what the abstract call may make.

`Crc32Proofs`: the lemmas are linear algebra over bits. A shift distributes over
`^` (`ShiftedLinear`), so the eight shifts of a word are those of its low byte,
which the table holds, and of the rest, which only moves (`HighMoves`): one
`DO1` is one inner loop of the other build (`DO1IsBitwise`), and that is the
definition (`TakeByteIsBitwise`). The invariant `CrcInv` keeps the account of
the length: bytes taken and bytes left add up, except inside a `DO8`, where `len`
still has the eight. `CrcTypes` (the buffer is never left), `RegisterCorrect`
and `ChecksumCorrect` follow. The assumptions are the named ones of `Crc32`:
`TableAssumption`, that each entry of the table is eight shifts of its index, is
evaluated by TLC for the table of the source in the run `crc`.

`FileBufferProofs`: the invariant `BufferInv` says at every program point which
handles are open, who owns the buffer, and that what has been read is at most
`f_size` bytes. On it rests a second one, `FromVersions`: each byte read comes
from one of the `versions`, and one of them was `f_size` long.
The properties of the run follow for all contents and any number of changes
(`BufferTypes`, `BytesUsedWereRead`, `BytesComeFromTheFile`, `CallsRelease`,
`NothingIsExplained`), and that no step of a call goes back (`CallsMoveOn`). With `InPlace = FALSE` the inode being read never
changes (`OneVersion`), so that what has been read is a prefix of the one
version: each step is then a step of `AtomicLoad` or none (`LoadIsAtomic`).

`CatSessionProofs`: the composition. A step of the session is one of `FileBuffer`,
one of the reader, a printer or another process, and leaves the others' state
alone, so that the invariants above hold of the parts: those of `FileBuffer` are
used as they are, and those of `PulReader` through an instance of its proofs
(`P`) under the same mapping as `R`. `SessionInv` ties them together:
`LoadedInStep` (the buffer that is read is the one that was loaded, until it is
freed), `ParsedInStep` (the reader's invariant, and after it the arrays as it
left them) and `ShownInStep` (what has been printed is what the listing of the
file begins with). That the numbers of the listing are those of the file, digit
by digit and of either sign, is `NumbersArePrinted`. `SessionTypes` holds in
general. `FileIsShown` and
`SessionLoadsAtomically` assume `InPlace = FALSE`: if others rewrite a file in
place while it is read, the listing can be one of a file that never was, and the
code can do nothing about it.

`GetoptExchangeProofs`: the invariant is that what the remaining swaps of the
round, and then the remaining rounds, would make of `argv` is always the
rotation that was asked for. `BottomRound`, `TopRound` and `OneSwap` are the
three facts about rotations that it rests on. `ExchangeTypes`, `SwapsStayApart`,
`LetGoInPlace` and `ExchangeCorrect` follow, for vectors of any length, and
`ExchangeCosts`: the exchange ends within three steps for each element
(`ExchangeIsLinear`, which makes `ExchangeEnds` hold and is only proved).

`GetoptProofs`: the first invariant, `PlaceInv`, is about where the scan is.
`Scanned` orders the records (`first_nonopt`, `last_nonopt`, `optind`) and says
that outside the part that was permuted `argv` is as it was; `Staged` says what
holds at each stage of a call, and that a place in an element (`nextchar`) is
one in the element at `optind`. `GetoptTypes` follows: no call looks outside
`argv` or behind the end of an element, but after an ambiguous `-W`. So does
`ScanMoves`: every step and every call comes nearer to the end. And
`OnlyWGoesBeyond`: what is found is done with elements that are there (`Stays`),
but for that `-W`.

The second, `ReadInv`, compares with `Reading`. While the scan is underway,
*Reading* is what was seen, and then what is read from where the scan is
(`Underway`): its options and their arguments lie in front of the non-options
that were skipped, and between them and the scan; the non-options lie in the
middle, each in its order. A rotation keeps that (`RotatedSlices`), a skip moves
the border (`SkippedReads`), and at the end nothing is left (`Done`). From it
follow `OptionsAreInOrder` and `OptionsComeFirstAtLast`. That `Reading` exists
has to be proved, since it is recursive: places have a measure that `Onward`
decreases (`ReadingShortens`), which makes the recursive equation hold
(`ReadFromIs`, by `LinearRecursion`). The induction under it is the one on least
natural numbers (`LeastNatural`), which needs no operator as a parameter.

The proofs need two facts that `GetoptConstants` states, and that hold of every
caller in C: an option that the table returns is not the -1 that tells of the
end, and names and elements are sequences of letters.

`CatCommandProofs`: what `Reading` means to `handle_cat`. `RestIs` goes through
the command line once more, from its end: an option is among those read if and
only if some element that is an option gives it, and `ShortIs`, `LongIs` and
`GivesIs` say which one gives what: `-t`, clusters, abbreviations, a value where
none is allowed. The names of the table begin with different letters, so that no
abbreviation is ambiguous (`OneNameIsFound`). The invariant `CommandInv` has
`PlaceInv` and `ReadInv` hold of the calls that `handle_cat` makes, with the
statics as `main` leaves them, and `Heeded`: the options that were returned are
those that `state` has, and the one that is about to be dealt with. At the end
`CommandShowsAsAsked` follows, and `CommandTypes`.

Only model-checked: the liveness properties (`CallEnds`, `ExchangeEnds`,
`ScanEnds`, `OptionLoopEnds`), since liveness under fairness is out of the prover's
reach. What is proved instead is why three of them hold: each step lowers a
bound (`ExchangeCosts`) or moves on in an order that ends (`CallsMoveOn`,
`ScanMoves`, with the types). Also only model-checked: that `Crc`, the register
after every prefix, is what its recursive definition makes of the table, which is
why it is a constant with an assumption in `Crc32`; and the violations, each of
which is a counterexample.

## Not modelled

The words and the layout of what is printed on stdout, `print_logo`, the messages
on stderr (but for whether there was one) and the build files. Of getopt, what is
compiled only as a part of glibc (`_LIBC`), and the effect of `opterr`, which is
on messages only. The order of evaluation of `|` is fixed, as said above;
`toupper` is that of the C locale, which leaves all but letters alone.

## Plan

What may be proved next:

1. `OptionLoopEnds` as far as safety goes: that every step of the loop of
   `handle_cat` moves on, from `ScanMoves`.
2. That `Getopt` with `GetoptExchange` in the place of `Rotated`, swap by swap,
   implements `Getopt` (`ExchangeCorrect` is what a step of it comes to).
3. That `FileBuffer` without `InPlace = FALSE` implements a weaker promise than
   `AtomicLoad`: each byte from some moment of the call.
