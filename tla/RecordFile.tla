----------------------------- MODULE RecordFile ------------------------------
(***************************************************************************)
(* The checkpoint file of the resumable drivers (per_doc_rr.jsonl,         *)
(* per_doc_lg.jsonl), shared by rr_bulk.py, rr_batch.py and lg_batch.py:   *)
(* opened for appending, one JSON line written and flushed per document,   *)
(* read back line by line at the next start.  A process killed in the      *)
(* middle of a write leaves a line without its newline, whole or not, and  *)
(* the next line written is glued to it.                                   *)
(***************************************************************************)
EXTENDS Naturals, Sequences, FiniteSets

CONSTANT Docs

VARIABLES
  file,     (* the lines: whose outcome, ok or not, and whether it parses  *)
  torn      (* the last line has no newline                                *)

fileVars == <<file, torn>>

Lines == [doc : Docs, ok : BOOLEAN, whole : BOOLEAN]

FileInit == file = <<>> /\ torn = FALSE

Glued == [file EXCEPT ![Len(file)].whole = FALSE]

(* per_doc.write(json.dumps(rec) + "\n"); per_doc.flush() *)
WriteRecord(d, ok) ==
  /\ \/ torn /\ file' = Glued
     \/ ~torn /\ file' = Append(file, [doc |-> d, ok |-> ok, whole |-> TRUE])
  /\ torn' = FALSE

(* The process dies within that write. *)
TearRecord(d, ok) ==
  /\ \/ torn /\ file' = Glued
     \/ /\ ~torn
        /\ \E w \in BOOLEAN :
             file' = Append(file, [doc |-> d, ok |-> ok, whole |-> w])
  /\ torn' = TRUE

Whole == {k \in DOMAIN file : file[k].whole}

Places(d) == {k \in Whole : file[k].doc = d}

(* The set done: a line that does not parse is passed over. *)
DoneDocs == {file[k].doc : k \in Whole}

(* load() of compare_summarize.py reads the file through; it does not      *)
(* catch the exception of a line that does not parse.                      *)
LoadRaises == Whole # DOMAIN file
=============================================================================
