------------------------------- MODULE RRShot -------------------------------
(***************************************************************************)
(* pdf500/rr_shot.py: the open-loop shot.  All documents are sent at once  *)
(* through a pool of clients; a task per document waits for its reply and  *)
(* writes one line.  A poll loop looks every 10 s for a stall ("wedge") of *)
(* the engine; the first wedge cancels what is pending, relaunches the     *)
(* pool and resubmits, the second ends the arm, and whatever is still      *)
(* unproven is written off as wedge_affected before the summary line.      *)
(*                                                                         *)
(* Everything runs on one event loop, so an action is what happens between *)
(* two awaits.  The engine is external: a reply, of any kind, may come at  *)
(* any moment or never.  Time is counted in polls of the loop.             *)
(***************************************************************************)
EXTENDS Naturals, Sequences, FiniteSets

CONSTANTS
  Docs,           (* the documents of the shot                             *)
  TimeoutPolls,   (* timeout_s, in polls                                   *)
  StallPolls,     (* WEDGE_STALL_S, in polls                               *)
  ReadFaults,     (* documents whose read_bytes() may fail                 *)
  RawFaults       (* documents whose raw reply may fail to be written      *)

ASSUME ShotAssumption ==
  /\ Docs # {} /\ IsFiniteSet(Docs)
  /\ TimeoutPolls \in Nat \ {0}
  /\ StallPolls \in Nat \ {0, 1}
  /\ ReadFaults \subseteq Docs
  /\ RawFaults \subseteq Docs

VARIABLES
  pc,             (* where run() stands                                    *)
  attempt,        (* number of the last attempt begun, 0 before the first  *)
  batch,          (* the documents offered to that attempt                 *)
  task,           (* state of each document's task                         *)
  now,            (* polls since the attempt began                         *)
  quiet,          (* polls since last_progress                             *)
  wedged,         (* the attempt was declared wedged                       *)
  wedge_events,   (* how many wedge events run() has listed                *)
  log,            (* the lines of per_doc.jsonl                            *)
  written         (* Shot.written                                          *)

vars == <<pc, attempt, batch, task, now, quiet, wedged, wedge_events, log,
          written>>

-----------------------------------------------------------------------------

(* How send_files comes back, as far as one() tells the cases apart. *)
Replies == {"proven", "no_documents", "bad_vectors", "no_identity"}
Outcomes == Replies \cup {"error", "timeout"}

(* A task is resumable once its reply, error or timeout is in; the others *)
(* have not started, still wait, or are over.                             *)
Over == {"done", "cancelled", "died"}
TaskStates == {"idle", "waiting"} \cup Outcomes \cup Over

Reasons == {"completed", "no_documents", "completion_proof_missing",
            "transport_error", "wedge_affected"}

DocLine(d, ok, reason) ==
  [kind |-> "doc", doc |-> d, ok |-> ok, reason |-> reason,
   attempt |-> attempt, at |-> now]

WedgeLine(pending) ==
  [kind |-> "wedge_event", n |-> wedge_events + 1, attempt |-> attempt,
   pending |-> pending, at |-> now]

MetaLine == [kind |-> "shot_meta", wedge_events |-> wedge_events]

DocLines == {i \in DOMAIN log : log[i].kind = "doc"}
WedgeLines == {i \in DOMAIN log : log[i].kind = "wedge_event"}

(* Wrong variants, "..Bug", stand before the definition they alter: each   *)
(* is a slip the code could have made, and a property finds it.  Here: the *)
(* loop counts records instead of finished tasks.                          *)
AllOverBug == batch \subseteq written

AllOver == \A d \in batch : task[d] \in Over
Pending == {d \in batch : task[d] \notin Over}
Unproven == batch \ written

-----------------------------------------------------------------------------

Init ==
  /\ pc = "pool"
  /\ attempt = 0
  /\ batch = Docs
  /\ task = [d \in Docs |-> "idle"]
  /\ now = 0
  /\ quiet = 0
  /\ wedged = FALSE
  /\ wedge_events = 0
  /\ log = <<>>
  /\ written = {}

(* Bug: write() does not touch last_progress. *)
WriteBug(d, ok, reason) ==
  /\ log' = Append(log, DocLine(d, ok, reason))
  /\ written' = written \cup {d}
  /\ UNCHANGED quiet

(* write(): one line for d, and the progress clock starts again. *)
Write(d, ok, reason) ==
  /\ log' = Append(log, DocLine(d, ok, reason))
  /\ written' = written \cup {d}
  /\ quiet' = 0

(* Bug: attempt() does not reset last_progress (line 206 dropped). *)
BeginAttemptBug ==
  /\ pc = "pool"
  /\ task' = [d \in Docs |-> IF d \in batch THEN "waiting" ELSE task[d]]
  /\ attempt' = attempt + 1
  /\ now' = 0
  /\ wedged' = FALSE
  /\ pc' = "sleep"
  /\ UNCHANGED <<batch, quiet, wedge_events, log, written>>

(* The pool is up and warm: attempt() creates a task for every document of *)
(* the batch.  A task reads its document before its try block, and dies    *)
(* without a line when that fails.                                         *)
BeginAttempt ==
  /\ pc = "pool"
  /\ \E unread \in SUBSET (batch \cap ReadFaults) :
       task' = [d \in Docs |-> IF d \in unread THEN "died"
                               ELSE IF d \in batch THEN "waiting"
                               ELSE task[d]]
  /\ attempt' = attempt + 1
  /\ now' = 0
  /\ quiet' = 0
  /\ wedged' = FALSE
  /\ pc' = "sleep"
  /\ UNCHANGED <<batch, wedge_events, log, written>>

(* A connection of make_pool, or the warmup of a slot, fails: the process  *)
(* ends with the file as it stands.                                        *)
PoolFails ==
  /\ pc = "pool"
  /\ pc' = "aborted"
  /\ UNCHANGED <<attempt, batch, task, now, quiet, wedged, wedge_events, log,
                 written>>

(* The engine or the transport answers (external). *)
Reply(d) ==
  /\ task[d] = "waiting"
  /\ \E r \in Replies \cup {"error"} : task' = [task EXCEPT ![d] = r]
  /\ UNCHANGED <<pc, attempt, batch, now, quiet, wedged, wedge_events, log,
                 written>>

(* The timer of wait_for fires. *)
Expire(d) ==
  /\ task[d] = "waiting"
  /\ now >= TimeoutPolls
  /\ task' = [task EXCEPT ![d] = "timeout"]
  /\ UNCHANGED <<pc, attempt, batch, now, quiet, wedged, wedge_events, log,
                 written>>

(* one() resumes after its await and writes its line.  The raw reply of a  *)
(* verified document is written first; when that write fails the record    *)
(* goes out from the general handler, its "ok" already set.                *)
Resume(d) ==
  /\ task[d] \in Outcomes
  /\ \/ /\ task[d] = "proven"
        /\ Write(d, TRUE, "completed")
     \/ /\ task[d] = "proven"
        /\ d \in RawFaults
        /\ Write(d, TRUE, "transport_error")
     \/ /\ task[d] = "no_documents"
        /\ Write(d, FALSE, "no_documents")
     \/ /\ task[d] \in {"bad_vectors", "no_identity", "timeout"}
        /\ Write(d, FALSE, "completion_proof_missing")
     \/ /\ task[d] = "error"
        /\ Write(d, FALSE, "transport_error")
  /\ task' = [task EXCEPT ![d] = "done"]
  /\ UNCHANGED <<pc, attempt, batch, now, wedged, wedge_events>>

(* After the cancel of a wedge: the task ends with no line.  A task whose  *)
(* reply is already in may do either, this or Resume: wait_for returns the *)
(* result of a finished future, or drops it, by Python version.            *)
Cancelled(d) ==
  /\ pc = "gather"
  /\ wedged
  /\ d \in batch
  /\ task[d] \notin Over
  /\ task' = [task EXCEPT ![d] = "cancelled"]
  /\ UNCHANGED <<pc, attempt, batch, now, quiet, wedged, wedge_events, log,
                 written>>

(* Ten seconds pass: every callback that was ready has run, every timer    *)
(* that was due has fired.                                                 *)
Tick ==
  /\ pc = "sleep"
  /\ \A d \in batch :
       /\ task[d] \notin Outcomes
       /\ task[d] = "waiting" => now < TimeoutPolls
  /\ now' = now + 1
  /\ quiet' = quiet + 1
  /\ pc' = "check"
  /\ UNCHANGED <<attempt, batch, task, wedged, wedge_events, log, written>>

(* The poll finds no progress for the whole stall window: the event is     *)
(* written and every task that is not over is cancelled.                   *)
DeclareWedge ==
  /\ pc = "check"
  /\ quiet >= StallPolls
  /\ wedged' = TRUE
  /\ wedge_events' = wedge_events + 1
  /\ log' = Append(log, WedgeLine(Cardinality(Pending)))
  /\ pc' = "gather"
  /\ UNCHANGED <<attempt, batch, task, now, quiet, written>>

(* The poll finds progress recent enough: sleep again while a task is      *)
(* pending.                                                                *)
KeepPolling ==
  /\ pc = "check"
  /\ quiet < StallPolls
  /\ pc' = IF AllOver THEN "gather" ELSE "sleep"
  /\ UNCHANGED <<attempt, batch, task, now, quiet, wedged, wedge_events, log,
                 written>>

(* Bugs: the relaunch resubmits the whole batch; it is missing. *)
EndAttemptBugResubmit ==
  /\ pc = "gather"
  /\ AllOver
  /\ pc' = IF wedged /\ attempt = 1 THEN "pool" ELSE "finalize"
  /\ UNCHANGED <<attempt, batch, task, now, quiet, wedged, wedge_events, log,
                 written>>

EndAttemptBugNoRelaunch ==
  /\ pc = "gather"
  /\ AllOver
  /\ pc' = "finalize"
  /\ batch' = Unproven
  /\ UNCHANGED <<attempt, task, now, quiet, wedged, wedge_events, log, written>>

(* Every task is over.  run() relaunches once, after a wedge of the first  *)
(* attempt that left something unproven.                                   *)
EndAttempt ==
  /\ pc = "gather"
  /\ AllOver
  /\ IF wedged /\ attempt = 1 /\ Unproven # {}
       THEN pc' = "pool"
       ELSE pc' = "finalize"
  /\ batch' = Unproven
  /\ UNCHANGED <<attempt, task, now, quiet, wedged, wedge_events, log, written>>

(* What is still unproven is written off. *)
Finalize(d) ==
  /\ pc = "finalize"
  /\ d \in Unproven
  /\ Write(d, FALSE, "wedge_affected")
  /\ UNCHANGED <<pc, attempt, batch, task, now, wedged, wedge_events>>

(* The hash of the written-off document needs the file: reading it may     *)
(* fail again, here outside any handler.                                   *)
FinalizeFails(d) ==
  /\ pc = "finalize"
  /\ d \in Unproven \cap ReadFaults
  /\ pc' = "aborted"
  /\ UNCHANGED <<attempt, batch, task, now, quiet, wedged, wedge_events, log,
                 written>>

(* Bug: the summary does not wait for the unproven documents. *)
WriteMetaBug ==
  /\ pc = "finalize"
  /\ log' = Append(log, MetaLine)
  /\ pc' = "closed"
  /\ UNCHANGED <<attempt, batch, task, now, quiet, wedged, wedge_events,
                 written>>

WriteMeta ==
  /\ pc = "finalize"
  /\ Unproven = {}
  /\ log' = Append(log, MetaLine)
  /\ pc' = "closed"
  /\ UNCHANGED <<attempt, batch, task, now, quiet, wedged, wedge_events,
                 written>>

(* The process has ended. *)
Terminated ==
  /\ pc \in {"closed", "aborted"}
  /\ UNCHANGED vars

(* The steps of the driver itself: its event loop runs them when they are  *)
(* ready.  How the pool comes out is not one of them: nobody times out     *)
(* connect() and use() (lines 94-95), in the relaunch as at the start.     *)
DriverStep ==
  \/ Tick \/ DeclareWedge \/ KeepPolling \/ EndAttempt \/ WriteMeta
  \/ \E d \in Docs : \/ Expire(d) \/ Resume(d) \/ Cancelled(d)
                     \/ Finalize(d) \/ FinalizeFails(d)

Next ==
  \/ BeginAttempt \/ PoolFails
  \/ DriverStep
  \/ \E d \in Docs : Reply(d)
  \/ Terminated

Spec == Init /\ [][Next]_vars

(* The event loop never starves a ready callback or a due timer.  Nothing  *)
(* is assumed of the engine: no reply, and no pool, need ever come.        *)
FairSpec == Spec /\ WF_vars(DriverStep)

-----------------------------------------------------------------------------

Lines ==
  [kind : {"doc"}, doc : Docs, ok : BOOLEAN, reason : Reasons,
   attempt : 1..2, at : Nat]
  \cup [kind : {"wedge_event"}, n : 1..2, attempt : 1..2, pending : Nat, at : Nat]
  \cup [kind : {"shot_meta"}, wedge_events : 0..2]

TypeOK ==
  /\ pc \in {"pool", "sleep", "check", "gather", "finalize", "closed", "aborted"}
  /\ attempt \in 0..2
  /\ batch \subseteq Docs
  /\ task \in [Docs -> TaskStates]
  /\ now \in Nat
  /\ quiet \in Nat
  /\ wedged \in BOOLEAN
  /\ wedge_events \in 0..2
  /\ log \in Seq(Lines)
  /\ written \subseteq Docs

(* Exactly one record per document across attempts (docstring, lines       *)
(* 15-16): no document ever has two lines, whatever the order of replies,  *)
(* timeouts, cancellations and the relaunch, and when the summary line is  *)
(* there every document has its own.                                       *)
CensusExact ==
  /\ \A i, j \in DocLines : log[i].doc = log[j].doc => i = j
  /\ pc = "closed" => \A d \in Docs : \E i \in DocLines : log[i].doc = d

(* A wedge event tells a real stall (docstring, lines 8-9): at that poll   *)
(* the attempt had run for the whole stall window, none of its documents   *)
(* had been recorded within it, and work was pending.                      *)
WedgeIsRealStall ==
  \A w \in WedgeLines :
    /\ log[w].at >= StallPolls
    /\ log[w].pending > 0
    /\ \A i \in DocLines :
         i < w /\ log[i].attempt = log[w].attempt
           => log[i].at + StallPolls <= log[w].at

(* The wedge protocol (docstring, lines 10-14): a line of attempt 2 stands *)
(* behind the wedge of attempt 1, and a readable document is given up as   *)
(* wedge_affected only behind the wedges of both attempts.                 *)
WedgeProtocol ==
  \A i \in DocLines :
    /\ log[i].attempt = 2
         => \E w \in WedgeLines : w < i /\ log[w].attempt = 1
    /\ log[i].reason = "wedge_affected" /\ log[i].doc \notin ReadFaults
         => \A a \in 1..2 : \E w \in WedgeLines : w < i /\ log[w].attempt = a

(* A proven document is never sent again: a task starts only for a         *)
(* document without a line.                                                *)
NoResubmission ==
  [][\A d \in Docs :
       task[d] # "waiting" /\ task'[d] = "waiting" => d \notin written]_vars

(* The shot ends, with its summary line or aborted, though the engine may  *)
(* never answer a document: the one place where it can hang is a pool, the *)
(* first or that of the relaunch, whose connections have no time-out.      *)
ShotEnds == <>(pc \in {"closed", "aborted"}) \/ <>[](pc = "pool")

(* The inductive invariant behind CensusExact and the refinement.  LogInv: *)
(* Shot.written is exactly the documents with a line.  TaskInv: a task     *)
(* that can still write belongs to an unwritten document of the batch and  *)
(* outlives no attempt, and what is outside the batch is written already.  *)
(* PhaseInv: a second attempt only follows a wedge of the first.           *)
LogInv ==
  /\ \A i \in DocLines : log[i].doc \in written
  /\ \A d \in written : \E i \in DocLines : log[i].doc = d
  /\ \A i, j \in DocLines : log[i].doc = log[j].doc => i = j

TaskInv ==
  /\ Docs \ batch \subseteq written
  /\ \A d \in Docs :
       task[d] \in Outcomes \cup {"waiting"}
         => d \in batch \ written /\ pc \in {"sleep", "check", "gather"}
  /\ pc = "pool" => batch \cap written = {}
  /\ pc = "closed" => Docs \subseteq written

PhaseInv ==
  /\ pc = "pool" => attempt <= 1 /\ wedge_events = attempt
  /\ pc \in {"sleep", "check"} 
       => attempt >= 1 /\ wedge_events = attempt - 1 /\ ~wedged
  /\ pc = "gather"
       => attempt >= 1 /\ wedge_events = IF wedged THEN attempt ELSE attempt - 1
  /\ pc \in {"finalize", "closed"} => attempt >= 1

IInv == TypeOK /\ LogInv /\ TaskInv /\ PhaseInv

(* What WedgeIsRealStall and WedgeProtocol rest on besides.  ClockInv: the *)
(* quiet time reaches back to the last line of the attempt, and passes the *)
(* first poll only while something is pending.  BatchInv: how a task of    *)
(* the batch can have ended.  EventInv: the wedge events that stand in the *)
(* file at each phase.                                                     *)
WedgeOf(a) == \E w \in WedgeLines : log[w].attempt = a

ClockInv ==
  /\ quiet <= now
  /\ \A i \in DocLines :
       /\ log[i].attempt <= attempt
       /\ log[i].attempt = attempt => log[i].at + quiet <= now
  /\ AllOver => (pc = "sleep" => quiet = 0) /\ (pc = "check" => quiet <= 1)

BatchInv ==
  pc \in {"sleep", "check", "gather"} =>
    \A d \in batch :
      /\ task[d] # "idle"
      /\ task[d] = "done" => d \in written
      /\ task[d] = "died" => d \in ReadFaults
      /\ task[d] = "cancelled" => pc = "gather" /\ wedged

EventInv ==
  /\ attempt = 2 \/ (pc = "pool" /\ attempt = 1) => WedgeOf(1)
  /\ pc = "gather" /\ wedged => WedgeOf(attempt)
  /\ pc = "finalize" /\ ~(Unproven \subseteq ReadFaults)
       => WedgeOf(1) /\ WedgeOf(2)

WedgeIInv == ClockInv /\ BatchInv /\ EventInv /\ WedgeIsRealStall /\ WedgeProtocol

(* The file the shot writes, seen as the abstract ledger. *)
LedgerPlaces == [d \in Docs |-> {i \in DocLines : log[i].doc = d}]
LedgerStatus == IF pc \in {"closed", "aborted"} THEN pc ELSE "open"

Ledger == INSTANCE RecordLedger
            WITH length <- Len(log), places <- LedgerPlaces,
                 status <- LedgerStatus

(* The shot implements the ledger. *)
LedgerSpec == Ledger!Spec
=============================================================================
