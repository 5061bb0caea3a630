------------------------------- MODULE PulStore ------------------------------
(***************************************************************************)
(* What a program would like of the calls that take a PUL file apart and   *)
(* put it together again, with files known only by what they are: the bmg  *)
(* part or the text part of the PUL file, the whole of it, or something    *)
(* else.  One call at a time, which changes one path; it can be cut short, *)
(* and then leaves that path as anything.                                  *)
(***************************************************************************)
CONSTANTS
  Paths,      (* the names of files                                        *)
  Requests    (* the calls: what they do, to which path, with which parts  *)

VARIABLES
  kind,     (* what every path is                                          *)
  sound,    (* the PUL file that was loaded can be taken apart             *)
  full,     (* the disk is                                                 *)
  request,  (* the call in progress, or the last one                       *)
  status    (* busy; how the last call ended, well or badly; or dead       *)

storeVars == <<kind, sound, full, request, status>>

Kinds == {"absent", "bmg", "txt", "pul", "other"}

StoreInit ==
  /\ kind \in [Paths -> Kinds]
  /\ sound \in BOOLEAN /\ full = FALSE
  /\ request = [op |-> "none"] /\ status = "well"

Idle == status \in {"well", "badly"}
Exporting(c) == c.op \in {"export_bmg", "export_txt"}

(* A call changes its own path, which does not go away. *)
Changes(p) ==
  /\ kind' = [kind EXCEPT ![p] = kind'[p]]
  /\ kind'[p] \in Kinds \ {"absent"}

Begin(c) ==
  /\ Idle /\ status' = "busy" /\ request' = c
  /\ Changes(c.path)
  /\ UNCHANGED <<sound, full>>

(* There is nothing to export. *)
Refuse(c) ==
  /\ Idle /\ status' = "badly" /\ request' = c
  /\ ~sound /\ Exporting(c)
  /\ UNCHANGED <<kind, sound, full>>

Proceed ==
  /\ status = "busy" /\ Changes(request.path)
  /\ UNCHANGED <<sound, full, request, status>>

DiskIsFull ==
  /\ status = "busy" /\ full' = TRUE
  /\ UNCHANGED <<kind, sound, request, status>>

(* What a call that ends well leaves: an export its part; the writing of   *)
(* the parts, if they are the right ones and not overwritten, the whole.   *)
Made(c) ==
  /\ c.op = "export_bmg" => kind'[c.path] = "bmg"
  /\ c.op = "export_txt" => kind'[c.path] = "txt"
  /\ c.op = "write_file" /\ c.path \notin {c.bmg, c.txt}
       /\ kind[c.bmg] = "bmg" /\ kind[c.txt] = "txt" => kind'[c.path] = "pul"

Complete ==
  /\ status = "busy" /\ status' = "well" /\ ~full
  /\ Changes(request.path) /\ (sound => Made(request))
  /\ UNCHANGED <<sound, full, request>>

(* An export of what is there fails only for want of space. *)
Fail ==
  /\ status = "busy" /\ status' = "badly"
  /\ Changes(request.path)
  /\ sound /\ Exporting(request) => full
  /\ UNCHANGED <<sound, full, request>>

Die ==
  /\ status' = "dead" /\ request' \in Requests \cup {request}
  /\ UNCHANGED <<kind, sound, full>>

StoreNext ==
  \/ \E c \in Requests : Begin(c) \/ Refuse(c)
  \/ Proceed \/ DiskIsFull \/ Complete \/ Fail \/ Die

StoreSpec == StoreInit /\ [][StoreNext]_storeVars
==============================================================================
