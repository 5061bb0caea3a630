---------------------------- MODULE MCPulArchive -----------------------------
(***************************************************************************)
(* TLC instance of PulArchive: three files, of which one is the PUL file   *)
(* and one holds an older and longer text; every sequence of three calls   *)
(* on them.                                                                *)
(***************************************************************************)
EXTENDS PulArchive

MC == INSTANCE MCImages

MCPaths == {"pul", "bmg", "txt"}
Export(op, p) == [op |-> op, path |-> p, bmg |-> p, txt |-> p]

(* Exports to either file, and writes onto the PUL file, with the parts    *)
(* the right way round, crossed, or both the same, and onto a part.        *)
MCRequests ==
  {Export(op, p) : op \in {"export_bmg", "export_txt"}, p \in {"bmg", "txt"}}
    \cup {[op |-> "write_file", path |-> paths[1], bmg |-> paths[2], txt |-> paths[3]] :
            paths \in {<<"pul", "bmg", "txt">>, <<"pul", "txt", "bmg">>,
                      <<"pul", "txt", "txt">>, <<"bmg", "bmg", "txt">>}}
MCOld == {[p \in {"txt"} |-> MC!MCTxt(40)]}
MCMemories == {[after |-> MC!Tail1, fill |-> 67]}
MCStackStructs == {MC!MCStack(0, 0)}
MCBlocks == {1, 100}
MCOneBlock == {7}

(* A text that the sum of an offset and a size gets to around the range of *)
(* int (144 + 2^32 - 124 = 20), in the name of the folder, and a bmg at    *)
(* 2^32 - 256.                                                             *)
MCWithWord(b, o, word) ==
  [k \in DOMAIN b |-> IF k - o \in DOMAIN word THEN word[k - o] ELSE b[k]]
MCFarImages ==
  {MCWithWord(MCWithWord(MC!MCFile(0), 20, TEXT_MAGIC), 152, <<255, 255, 255, 132>>),
   MCWithWord(MC!MCFile(0), 16, <<255, 255, 255, 0>>)}

(* Files of no cup and of one, and files without a text part, with a bmg   *)
(* that claims more bytes than there are, with a gap before the bmg, with  *)
(* the bmg out of reach, and cut inside the INFO section.                  *)
MCLooseImages ==
  {MC!MCConfig(0) \o MC!MCBmg(14),
   MC!MCConfig(0) \o MC!MCBmgOf(40, 14) \o MC!MCTxt(6),
   MC!MCConfigAt(0, 148) \o <<1, 2, 3, 4>> \o MC!MCBmg(14) \o MC!MCTxt(6),
   MC!MCConfigAt(0, 300) \o MC!MCBmg(14) \o MC!MCTxt(6),
   MC!Truncated(MC!MCFile(0), 100)}
MCImages == {MC!MCFile(0), MC!MCFile(1)} \cup MCLooseImages \cup MCFarImages
==============================================================================
