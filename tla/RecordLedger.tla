---------------------------- MODULE RecordLedger ----------------------------
(***************************************************************************)
(* What every benchmark driver promises about its per_doc.jsonl file: each *)
(* offered document gets exactly one outcome line, no line is ever taken   *)
(* back, other lines (events) may stand between them, and the summary line *)
(* is written only when every document is accounted for.  A run that does  *)
(* not reach its summary line is aborted, and says nothing about the       *)
(* documents it has not recorded.                                          *)
(*                                                                         *)
(* The file is abstracted to its length and, for each document, the set of *)
(* line numbers at which an outcome of that document stands.               *)
(***************************************************************************)
EXTENDS Naturals

CONSTANT Docs       (* the offered documents *)

VARIABLES
  length,           (* number of lines in the file *)
  places,           (* places[d]: the line numbers of d's outcome lines *)
  status            (* "open", "closed" by the summary line, or "aborted" *)

vars == <<length, places, status>>

Init ==
  /\ length = 0
  /\ places = [d \in Docs |-> {}]
  /\ status = "open"

(* The outcome of a document that has none yet is appended. *)
Record(d) ==
  /\ status = "open"
  /\ places[d] = {}
  /\ length' = length + 1
  /\ places' = [places EXCEPT ![d] = {length + 1}]
  /\ UNCHANGED status

(* A line that is no document's outcome. *)
Note ==
  /\ status = "open"
  /\ length' = length + 1
  /\ UNCHANGED <<places, status>>

(* The census is complete: the summary line, if the driver writes one. *)
Close ==
  /\ status = "open"
  /\ \A d \in Docs : places[d] # {}
  /\ length' \in {length, length + 1}
  /\ status' = "closed"
  /\ UNCHANGED places

Abort ==
  /\ status = "open"
  /\ status' = "aborted"
  /\ UNCHANGED <<length, places>>

Next ==
  \/ \E d \in Docs : Record(d)
  \/ Note
  \/ Close
  \/ Abort

Spec == Init /\ [][Next]_vars

-----------------------------------------------------------------------------

TypeOK ==
  /\ length \in Nat
  /\ places \in [Docs -> SUBSET Nat]
  /\ status \in {"open", "closed", "aborted"}

(* Offered = records: no document has two outcomes, and a closed file has  *)
(* one for each of them.                                                   *)
Census ==
  /\ \A d \in Docs : \A p, q \in places[d] : p = q
  /\ status = "closed" => \A d \in Docs : places[d] # {}
=============================================================================
