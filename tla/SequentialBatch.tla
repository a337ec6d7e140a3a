--------------------------- MODULE SequentialBatch ---------------------------
(***************************************************************************)
(* The sequential batch drivers, one document after the other, resumable:  *)
(* rocketride/rr_batch.py, which retries a failed document once on a fresh *)
(* pipe, and results/lg_batch.py, which posts it once to the service.      *)
(*                                                                         *)
(* External: the engine and the service (any answer to any document), the  *)
(* operator (kills and restarts, also within a write of the file).         *)
(***************************************************************************)
EXTENDS RecordFile, FiniteSetsExt, Functions

CONSTANTS
  Corpus,        (* the sorted corpus, a sequence of documents             *)
  Arms,          (* the drivers to consider: "rr", "lg"                    *)
  RawFaults,     (* documents whose raw output may fail to be written      *)
  MaxLives       (* bound on the processes that run one after the other    *)

ASSUME BatchAssumption ==
  /\ Corpus \in Seq(Docs)
  /\ \A j, k \in DOMAIN Corpus : Corpus[j] = Corpus[k] => j = k
  /\ Arms \subseteq {"rr", "lg"}
  /\ RawFaults \subseteq Docs
  /\ MaxLives \in Nat \ {0}

VARIABLES
  arm,           (* the driver that runs                                   *)
  pc,            (* where main() stands                                    *)
  todo,          (* positions in Corpus of the documents still to do       *)
  rec_ok,        (* rec["ok"] of the current document                      *)
  attempt,       (* its attempt                                            *)
  pipe,          (* "up", "suspect" once a send on it failed, or "down"    *)
  raw,           (* documents with a raw output file                       *)
  lives          (* processes started                                      *)

vars == <<fileVars, arm, pc, todo, rec_ok, attempt, pipe, raw, lives>>

(* The loop goes through the corpus in its order: the document it is at. *)
Current == Corpus[Min(todo)]

TodoDocs == {Corpus[k] : k \in todo}

Init ==
  /\ FileInit
  /\ arm \in Arms
  /\ pc = "boot"
  /\ todo = {}
  /\ rec_ok = FALSE
  /\ attempt = 1
  /\ pipe = "down"
  /\ raw = {}
  /\ lives = 1

(* arm.up(), or the check of /health/ready: on to there, or main() raises. *)
Launch(there) ==
  \/ pipe' = "up" /\ pc' = there
  \/ pipe' = "down" /\ pc' = "stopped"

-----------------------------------------------------------------------------

(* Bug: the file is not read back. *)
BootBug ==
  /\ pc = "boot"
  /\ todo' = DOMAIN Corpus
  /\ rec_ok' = FALSE
  /\ attempt' = 1
  /\ Launch("send")
  /\ UNCHANGED <<fileVars, arm, raw, lives>>

Boot ==
  /\ pc = "boot"
  /\ todo' = {k \in DOMAIN Corpus : Corpus[k] \notin DoneDocs}
  /\ rec_ok' = FALSE
  /\ attempt' = 1
  /\ Launch("send")
  /\ UNCHANGED <<fileVars, arm, raw, lives>>

(* The attempt returned False: rr_batch has more to do, before or after    *)
(* the second attempt.                                                     *)
AttemptFails ==
  /\ pipe' = "suspect"
  /\ pc' = IF attempt = 1 THEN "retry" ELSE "reap"

(* attempt() of rr_batch.  The outcome is merged into one record: a failed *)
(* write of the raw output leaves "ok" set, and so does an exception of    *)
(* the second attempt after that.                                          *)
SendRR ==
  /\ arm = "rr" /\ pc = "send" /\ todo # {}
  /\ \/ /\ rec_ok' = TRUE
        /\ raw' = raw \cup {Current}
        /\ pc' = "record"
        /\ UNCHANGED pipe
     \/ /\ Current \in RawFaults
        /\ rec_ok' = TRUE
        /\ AttemptFails
        /\ UNCHANGED raw
     \/ rec_ok' = FALSE /\ AttemptFails /\ UNCHANGED raw
     \/ AttemptFails /\ UNCHANGED <<rec_ok, raw>>
  /\ UNCHANGED <<fileVars, arm, todo, attempt, lives>>

(* Bug: the output is not saved. *)
PostLGBug ==
  /\ arm = "lg" /\ pc = "send" /\ todo # {}
  /\ \E ok \in BOOLEAN : rec_ok' = ok
  /\ pc' = "record"
  /\ UNCHANGED <<fileVars, arm, todo, attempt, pipe, raw, lives>>

(* The post of lg_batch: output, saved or not, or an error of any kind. *)
PostLG ==
  /\ arm = "lg" /\ pc = "send" /\ todo # {}
  /\ \/ rec_ok' = TRUE /\ raw' = raw \cup {Current}
     \/ Current \in RawFaults /\ rec_ok' = TRUE /\ UNCHANGED raw
     \/ rec_ok' = FALSE /\ UNCHANGED raw
  /\ pc' = "record"
  /\ UNCHANGED <<fileVars, arm, todo, attempt, pipe, lives>>

(* Bug: after the second failure the next document gets the same pipe. *)
RelaunchBug ==
  /\ pc \in {"retry", "reap"}
  /\ \/ pc = "retry" /\ Launch("send")
     \/ pc = "reap" /\ pc' = "record" /\ UNCHANGED pipe
  /\ attempt' = 2
  /\ UNCHANGED <<fileVars, arm, todo, rec_ok, raw, lives>>

(* relaunch(), before the second attempt, and again when that failed; a    *)
(* relaunch that raises ends the run with the document unrecorded.         *)
Relaunch ==
  /\ pc \in {"retry", "reap"}
  /\ Launch(IF pc = "retry" THEN "send" ELSE "record")
  /\ attempt' = 2
  /\ UNCHANGED <<fileVars, arm, todo, rec_ok, raw, lives>>

(* Bug: only documents that are ok are recorded. *)
RecordBug ==
  /\ pc = "record"
  /\ \/ rec_ok /\ WriteRecord(Current, rec_ok)
     \/ ~rec_ok /\ UNCHANGED fileVars
  /\ todo' = todo \ {Min(todo)}
  /\ rec_ok' = FALSE
  /\ attempt' = 1
  /\ pc' = "send"
  /\ UNCHANGED <<arm, pipe, raw, lives>>

(* The document's line is written and flushed; the next one starts with a  *)
(* fresh record.                                                           *)
Record ==
  /\ pc = "record"
  /\ WriteRecord(Current, rec_ok)
  /\ todo' = todo \ {Min(todo)}
  /\ rec_ok' = FALSE
  /\ attempt' = 1
  /\ pc' = "send"
  /\ UNCHANGED <<arm, pipe, raw, lives>>

Finish ==
  /\ pc = "send" /\ todo = {}
  /\ pc' = "done"
  /\ pipe' = "down"
  /\ UNCHANGED <<fileVars, arm, todo, rec_ok, attempt, raw, lives>>

(* The process is killed, possibly within the write of a line. *)
Crash ==
  /\ pc \notin {"done", "stopped"}
  /\ lives < MaxLives
  /\ pc' = "stopped"
  /\ pipe' = "down"
  /\ \/ UNCHANGED fileVars
     \/ pc = "record" /\ TearRecord(Current, rec_ok)
  /\ UNCHANGED <<arm, todo, rec_ok, attempt, raw, lives>>

(* The driver is started again after a run that did not finish. *)
Restart ==
  /\ pc = "stopped"
  /\ lives < MaxLives
  /\ lives' = lives + 1
  /\ pc' = "boot"
  /\ UNCHANGED <<fileVars, arm, todo, rec_ok, attempt, pipe, raw>>

Main == Boot \/ SendRR \/ PostLG \/ Relaunch \/ Record \/ Finish

Next == Main \/ Crash \/ Restart

Spec == Init /\ [][Next]_vars

-----------------------------------------------------------------------------

TypeOK ==
  /\ file \in Seq(Lines)
  /\ torn \in BOOLEAN
  /\ arm \in Arms
  /\ pc \in {"boot", "send", "retry", "reap", "record", "done", "stopped"}
  /\ todo \subseteq DOMAIN Corpus
  /\ rec_ok \in BOOLEAN
  /\ attempt \in {1, 2}
  /\ pipe \in {"up", "suspect", "down"}
  /\ raw \subseteq Docs
  /\ lives \in 1..MaxLives

(* However often the driver is killed and restarted, no document has two   *)
(* records, and none that is still to do has one.                          *)
AtMostOneRecord ==
  /\ \A d \in Docs : Cardinality(Places(d)) <= 1
  /\ pc \in {"send", "retry", "reap", "record"}
       => TodoDocs \cap DoneDocs = {}

(* A run that ends has a record of every document, unless a kill hit a     *)
(* write: then at most two are missing, the one whose line lacked only its *)
(* newline when it was taken for recorded, and the one glued to it.  What  *)
(* earlier kills garbled is done over.                                     *)
LossBounded ==
  pc = "done" =>
    LET missing == Range(Corpus) \ DoneDocs
    IN /\ Cardinality(missing) <= 2
       /\ ~LoadRaises => missing = {}

(* "always tear down and relaunch a fresh pipe" (rr_batch.py:138-140): no  *)
(* document is sent on a pipe on which one has failed.                     *)
SendOnFreshPipe == pc = "send" => pipe = "up"

(* A line that says ok has its raw output on disk, unless writing that can *)
(* fail: a kill between the two never leaves the line without the output.  *)
OkHasRaw ==
  \A k \in Whole : file[k].ok => file[k].doc \in raw \cup RawFaults

(* The inductive invariant, in parts.                                      *)

(* No document has two lines that parse, the driver is at a document when  *)
(* it says so, and those still to do have no line.                         *)
RecordInv ==
  /\ \A j, k \in Whole : file[j].doc = file[k].doc => j = k
  /\ torn => file # <<>>
  /\ pc \in {"send", "retry", "reap", "record"} => TodoDocs \cap DoneDocs = {}
  /\ pc \in {"retry", "reap", "record"} => todo # {}
  /\ pc = "done" => todo = {}

(* A new pipe carries what is sent, and stands when a record is written.   *)
PipeInv == pc \in {"send", "record"} => pipe = "up"

(* What the current document says, its output bears out. *)
RawInv ==
  /\ OkHasRaw
  /\ rec_ok /\ pc \in {"send", "retry", "reap", "record"}
       => todo # {} /\ Current \in raw \cup RawFaults

(* Only the first write of a process can meet a torn line; it loses that   *)
(* line and itself, and leaves a line that does not parse.                 *)
Lost == Range(Corpus) \ (DoneDocs \cup TodoDocs)

LossInv ==
  pc \in {"send", "retry", "reap", "record", "done"} =>
    /\ torn \/ ~LoadRaises => Lost = {}
    /\ Lost = {} \/ \E x, y \in Docs : Lost \subseteq {x, y}

IInv == TypeOK /\ RecordInv /\ PipeInv /\ RawInv /\ LossInv

(* "Fail-soft, resumable, checkpointed per doc." (lg_batch.py:4) and "last *)
(* write wins (resume-safe)" (compare_summarize.py:20): the file of a run  *)
(* that ends can be merged, and holds every document.                      *)
MergeIsResumeSafe ==
  pc = "done" => ~LoadRaises /\ Range(Corpus) \subseteq DoneDocs
=============================================================================
