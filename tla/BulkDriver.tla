----------------------------- MODULE BulkDriver ------------------------------
(***************************************************************************)
(* rocketride/rr_bulk.py: documents are uploaded in batches; a batch that  *)
(* fails, or the documents it returned empty, are run again one by one,    *)
(* each with one retry on a fresh pipe.  Every outcome is a line of the    *)
(* record file, and a new run skips the documents that have one.           *)
(*                                                                         *)
(* External: the engine (any batch may raise or return results for any     *)
(* part of it; any document may succeed, fail or come back empty), the SDK *)
(* (a launch may raise), the operator (kills and restarts the driver).     *)
(***************************************************************************)
EXTENDS RecordFile, FiniteSetsExt, Functions

CONSTANTS
  Corpus,        (* the sorted corpus, a sequence of documents             *)
  BatchSize,     (* BATCH_SIZE                                             *)
  RaiseDocs,     (* documents whose record_from or save_raw may raise      *)
  LaunchFaults,  (* TRUE when connecting or launching a pipe may raise     *)
  MaxLives       (* bound on the processes that run one after the other    *)

ASSUME BulkAssumption ==
  /\ Corpus \in Seq(Docs) /\ Range(Corpus) = Docs
  /\ \A j, k \in DOMAIN Corpus : Corpus[j] = Corpus[k] => j = k
  /\ BatchSize \in Nat \ {0}
  /\ RaiseDocs \subseteq Docs
  /\ LaunchFaults \in BOOLEAN
  /\ MaxLives \in Nat \ {0}

VARIABLES
  pc,            (* where main() stands                                    *)
  todo,          (* positions in Corpus of the documents this process has  *)
                 (* to do, those of the batches behind left out            *)
  got,           (* positions the batch upload returned chunks for         *)
  work,          (* positions the current loop has still to handle         *)
  guarded,       (* the individual runs are inside the batch's try         *)
  attempt,       (* 1 or 2, of run_doc_individually                        *)
  pipe,          (* "up", "suspect" once a send on it failed, or "down"    *)
  lives          (* processes started                                      *)

loopVars == <<todo, got, work, guarded, attempt>>
vars == <<fileVars, pc, loopVars, pipe, lives>>

(* The next BATCH_SIZE documents. *)
Batch == {k \in todo : Cardinality({j \in todo : j <= k}) <= BatchSize}

(* The document a loop is at. *)
Current == Corpus[Min(work)]

Init ==
  /\ FileInit
  /\ pc = "boot"
  /\ todo = {}
  /\ got = {}
  /\ work = {}
  /\ guarded = FALSE
  /\ attempt = 1
  /\ pipe = "down"
  /\ lives = 1

(* arm.up(), alone or after down_and_reap(): on to there, or it raises and *)
(* control goes to the handler.                                            *)
Launch(there, handler) ==
  \/ pipe' = "up" /\ pc' = there
  \/ LaunchFaults /\ pipe' = "down" /\ pc' = handler

(* Where an exception of run_doc_individually is caught. *)
Handler == IF guarded THEN "except" ELSE "stopped"

-----------------------------------------------------------------------------

(* Bug: the file is not read back. *)
BootBug ==
  /\ pc = "boot"
  /\ todo' = DOMAIN Corpus
  /\ Launch("batch", "stopped")
  /\ UNCHANGED <<fileVars, got, work, guarded, attempt, lives>>

Boot ==
  /\ pc = "boot"
  /\ todo' = {k \in DOMAIN Corpus : Corpus[k] \notin DoneDocs}
  /\ Launch("batch", "stopped")
  /\ UNCHANGED <<fileVars, got, work, guarded, attempt, lives>>

(* The batch upload raises or times out, or returns some results. *)
SendBatch ==
  /\ pc = "batch"
  /\ todo # {}
  /\ \/ /\ pc' = "except"
        /\ pipe' = "suspect"
        /\ UNCHANGED <<got, work>>
     \/ \E r \in SUBSET Batch :
          /\ got' = r
          /\ work' = Batch
          /\ pc' = "write"
          /\ pipe' = IF r = Batch THEN "up" ELSE "suspect"
  /\ UNCHANGED <<fileVars, todo, guarded, attempt, lives>>

(* The loop that saves and records what the batch returned; documents      *)
(* without chunks are passed over.                                         *)
WriteBulk ==
  /\ pc = "write"
  /\ work # {}
  /\ \/ /\ Min(work) \notin got
        /\ work' = work \ {Min(work)}
        /\ UNCHANGED <<fileVars, pc>>
     \/ /\ Min(work) \in got
        /\ WriteRecord(Current, TRUE)
        /\ work' = work \ {Min(work)}
        /\ UNCHANGED pc
     \/ /\ Min(work) \in got /\ Current \in RaiseDocs
        /\ pc' = "except"
        /\ UNCHANGED <<fileVars, work>>
  /\ UNCHANGED <<todo, got, guarded, attempt, pipe, lives>>

(* Bug: the documents that came back empty are left out. *)
BatchWrittenBug ==
  /\ pc = "write"
  /\ work = {}
  /\ todo' = todo \ Batch
  /\ pc' = "batch"
  /\ pipe' = "up"
  /\ UNCHANGED <<fileVars, got, work, guarded, attempt, lives>>

(* Everything returned: next batch.  Otherwise relaunch and run the        *)
(* missing ones one by one, inside the try.                                *)
BatchWritten ==
  /\ pc = "write"
  /\ work = {}
  /\ \/ /\ Batch \subseteq got
        /\ todo' = todo \ Batch
        /\ pc' = "batch"
        /\ UNCHANGED <<work, guarded, attempt, pipe>>
     \/ /\ ~ Batch \subseteq got
        /\ Launch("doc", "except")
        /\ work' = Batch \ got
        /\ guarded' = TRUE
        /\ attempt' = 1
        /\ UNCHANGED todo
  /\ UNCHANGED <<fileVars, got, lives>>

(* Bug: the batch is run again on the pipe that failed. *)
BatchFailedBug ==
  /\ pc = "except"
  /\ pc' = "doc"
  /\ work' = Batch
  /\ guarded' = FALSE
  /\ attempt' = 1
  /\ UNCHANGED <<fileVars, todo, got, pipe, lives>>

(* The except clause: relaunch and run the whole batch one by one,         *)
(* whatever part of it is recorded; nothing catches an exception here.     *)
BatchFailed ==
  /\ pc = "except"
  /\ Launch("doc", "stopped")
  /\ work' = Batch
  /\ guarded' = FALSE
  /\ attempt' = 1
  /\ UNCHANGED <<fileVars, todo, got, lives>>

(* run_doc_individually: chunks came back and are saved and recorded, or   *)
(* the attempt fails, by an exception or an empty result; the second       *)
(* failure is recorded.                                                    *)
SendDoc ==
  /\ pc = "doc"
  /\ work # {}
  /\ \/ /\ WriteRecord(Current, TRUE)
        /\ work' = work \ {Min(work)}
        /\ attempt' = 1
        /\ UNCHANGED <<pc, pipe>>
     \/ /\ attempt = 1
        /\ pc' = "retry"
        /\ pipe' = "suspect"
        /\ UNCHANGED <<fileVars, work, attempt>>
     \/ /\ attempt = 2
        /\ WriteRecord(Current, FALSE)
        /\ pc' = "reap"
        /\ pipe' = "suspect"
        /\ work' = work \ {Min(work)}
        /\ UNCHANGED attempt
  /\ UNCHANGED <<todo, got, guarded, lives>>

(* Bug: the attempts are not counted. *)
RelaunchBug ==
  /\ pc \in {"retry", "reap"}
  /\ Launch("doc", Handler)
  /\ attempt' = 1
  /\ UNCHANGED <<fileVars, todo, got, work, guarded, lives>>

(* The relaunch after a failed attempt, before the second one or before    *)
(* the next document.                                                      *)
Relaunch ==
  /\ pc \in {"retry", "reap"}
  /\ Launch("doc", Handler)
  /\ attempt' = IF pc = "retry" THEN 2 ELSE 1
  /\ UNCHANGED <<fileVars, todo, got, work, guarded, lives>>

DocsDone ==
  /\ pc = "doc"
  /\ work = {}
  /\ todo' = todo \ Batch
  /\ pc' = "batch"
  /\ UNCHANGED <<fileVars, got, work, guarded, attempt, pipe, lives>>

Finish ==
  /\ pc = "batch"
  /\ todo = {}
  /\ pc' = "done"
  /\ pipe' = "down"
  /\ UNCHANGED <<fileVars, loopVars, lives>>

(* The process is killed between two writes (SequentialBatch has the kill  *)
(* within a write).                                                        *)
Crash ==
  /\ pc \notin {"done", "stopped"}
  /\ lives < MaxLives
  /\ pc' = "stopped"
  /\ pipe' = "down"
  /\ UNCHANGED <<fileVars, loopVars, lives>>

(* The driver is started again after a run that did not finish. *)
Restart ==
  /\ pc = "stopped"
  /\ lives < MaxLives
  /\ lives' = lives + 1
  /\ pc' = "boot"
  /\ pipe' = "down"
  /\ UNCHANGED <<fileVars, loopVars>>

Main ==
  \/ Boot \/ SendBatch \/ WriteBulk \/ BatchWritten \/ BatchFailed
  \/ SendDoc \/ Relaunch \/ DocsDone \/ Finish

Next == Main \/ Crash \/ Restart

Spec == Init /\ [][Next]_vars

(* Where main() awaits terminate(), disconnect(), connect() or use(), which *)
(* have no time-out (lines 84-101): at the start, in every relaunch and    *)
(* after the last batch.                                                   *)
AtLaunch ==
  \/ pc \in {"boot", "except", "retry", "reap"}
  \/ pc = "write" /\ work = {} /\ ~ Batch \subseteq got
  \/ pc = "batch" /\ todo = {}

(* Every other await has a time-out; neither launches nor restarts need    *)
(* come.                                                                   *)
FairSpec == Spec /\ WF_vars(~AtLaunch /\ Main)

-----------------------------------------------------------------------------

TypeOK ==
  /\ file \in Seq(Lines)
  /\ torn \in BOOLEAN
  /\ pc \in {"boot", "batch", "write", "except", "doc", "retry", "reap",
             "done", "stopped"}
  /\ todo \subseteq DOMAIN Corpus
  /\ got \subseteq DOMAIN Corpus
  /\ work \subseteq DOMAIN Corpus
  /\ guarded \in BOOLEAN
  /\ attempt \in {1, 2}
  /\ pipe \in {"up", "suspect", "down"}
  /\ lives \in 1..MaxLives

(* "on any batch failure, reap ALL node.py backends, relaunch a fresh pipe"*)
(* (rr_bulk.py:9-11): whatever raises where, no upload goes to a pipe on   *)
(* which one has failed or come back empty, or to one that is not up.      *)
NoSendOnSuspectPipe ==
  pc = "batch" \/ (pc = "doc" /\ work # {}) => pipe = "up"

(* Over any kills and restarts between writes: no document is lost, those  *)
(* of the batches behind are recorded and a run that ends has a record for *)
(* every document; none that is still to do has one already; and however   *)
(* often a batch falls back to single runs, none is recorded a third time. *)
ResumeExact ==
  /\ pc = "batch" =>
       \A k \in DOMAIN Corpus : Corpus[k] \in DoneDocs <=> k \notin todo
  /\ pc = "done" => Range(Corpus) \subseteq DoneDocs
  /\ \A d \in Docs : Cardinality(Places(d)) <= 2

(* The inductive invariant, in parts.                                      *)

Recorded(k) == Corpus[k] \in DoneDocs

(* The document at k has at most one line. *)
OnceAt(k) == \A i, j \in Places(Corpus[k]) : i = j

(* Kills come between the writes: every line parses. *)
FileInv ==
  /\ ~torn /\ Whole = DOMAIN file
  /\ \A d \in Docs : \A h, i, j \in Places(d) : h = i \/ i = j \/ h = j

PipeInv ==
  /\ pc \in {"batch", "doc"} => pipe = "up"
  /\ pc = "write" /\ Batch \subseteq got => pipe = "up"

(* The documents of the batches behind are recorded, those of the batches  *)
(* ahead are not.                                                          *)
OrderInv ==
  /\ pc \in {"batch", "write", "except", "doc", "retry", "reap", "done"}
       => /\ \A k \in DOMAIN Corpus \ todo : Recorded(k)
          /\ \A k \in todo \ Batch : ~ Recorded(k)
  /\ pc = "done" => todo = {}

(* Within a batch: what has a line, and who may get a second one.  Only    *)
(* the runs that follow an exception, which no longer have a handler,      *)
(* repeat documents, and every document once.                              *)
BatchInv ==
  /\ pc = "batch" => \A k \in Batch : ~ Recorded(k)
  /\ pc = "write" =>
       /\ got \subseteq Batch /\ work \subseteq Batch
       /\ \A k \in Batch : OnceAt(k)
       /\ \A k \in Batch : Recorded(k) <=> k \in got \ work
  /\ pc = "except" => \A k \in Batch : OnceAt(k)
  /\ pc \in {"doc", "retry", "reap"} =>
       /\ work \subseteq Batch
       /\ \A k \in Batch \ work : Recorded(k)
       /\ \A k \in work : OnceAt(k)
       /\ guarded => /\ \A k \in work : ~ Recorded(k)
                     /\ \A k \in Batch : OnceAt(k)

IInv == TypeOK /\ FileInv /\ PipeInv /\ OrderInv /\ BatchInv

(* A process ends, or hangs in one launch: the retries, the fallback and   *)
(* the relaunches are bounded, and uploads cannot hang.                    *)
RunEnds == pc = "boot" ~> (pc \in {"done", "stopped"} \/ []AtLaunch)

(* "Every offered doc must come back as exactly one record"                *)
(* (metrics/m0_correctness.py:56-57).                                      *)
ExactlyOneRecord == \A d \in Docs : Cardinality(Places(d)) <= 1

(* The first line of each document, and what has become of the run. *)
FirstPlaces == [d \in Docs |-> {k \in Places(d) : \A j \in Places(d) : k <= j}]

LedgerStatus ==
  IF pc = "done" THEN "closed"
  ELSE IF pc = "stopped" /\ lives = MaxLives THEN "aborted"
  ELSE "open"

Ledger == INSTANCE RecordLedger WITH
  length <- Len(file), places <- FirstPlaces, status <- LedgerStatus

(* Counting for each document its first line only, the driver keeps the    *)
(* promise of the ledger over all its processes, whatever raises: the file *)
(* of a run that ends has everybody's outcome.                             *)
LedgerSpec == Ledger!Spec
=============================================================================
