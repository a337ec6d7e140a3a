----------------------------- MODULE RepCampaign -----------------------------
(***************************************************************************)
(* One arm of a smoke, blast or gate-50 campaign: its repetitions, each a  *)
(* run of a driver that leaves a record file, and the report that judges   *)
(* them with the gate of RunMetrics.                                       *)
(*                                                                         *)
(*   blast    blast_run.sh, REPS repetitions, blast_report.py              *)
(*   rr_run   rr_run.sh, one repetition, blast_report.py                   *)
(*   smoke2   smoke2.sh, two sequential passes, smoke2_report.py           *)
(*   smoke10  smoke10.sh, the same for LangGraph alone, smoke_report.py    *)
(*   native   rr_native_gate.py twice by hand, blast and seq, and          *)
(*            check_gate50.py                                              *)
(*                                                                         *)
(* The directories of the native driver and of the RocketRide container    *)
(* (`stop' keeps them) may hold the files of an earlier campaign.  The     *)
(* engine and the service are external: they answer with the content of    *)
(* one document or another, with nothing, or not at all.                   *)
(***************************************************************************)
EXTENDS RunMetrics

CONSTANTS
  Corpus,        (* the documents, in the order of the manifest            *)
  ExpectedEmpty, (* EXPECTED_EMPTY                                         *)
  Contents,      (* the chunk hashes that a document can come back with    *)
  NoText,        (* the content without any chunk                          *)
  REPS,          (* repetitions of a blast campaign                        *)
  BatchItems     (* bound: items of the answer to one batch                *)

Docs == Range(Corpus)

ASSUME CampaignAssumption ==
  /\ Corpus \in Seq(Docs)
  /\ \A i, j \in DOMAIN Corpus : Corpus[i] = Corpus[j] => i = j
  /\ Contents # {} /\ NoText \notin Contents
  /\ REPS \in Nat /\ REPS >= 2
  /\ BatchItems \in Nat

VARIABLES
  campaign,      (* [driver, script]                                       *)
  rep,           (* the repetition under way                               *)
  phase,         (* of the driver and the script                           *)
  task,          (* document -> "waiting", "sent" or "done"                *)
  records,       (* the driver's records, in memory or just written        *)
  out,           (* repetition -> per_doc.jsonl where the driver writes it *)
  host,          (* repetition -> the copy that the report reads           *)
  status,        (* repetition -> how its driver ended                     *)
  served,        (* <<document, content>> served in this repetition        *)
  verdict

vars == <<campaign, rep, phase, task, records, out, host, status, served,
          verdict>>

Campaigns ==
  [driver : {"lg", "rr"}, script : {"blast", "smoke2"}]
  \cup {[driver |-> "lg", script |-> "smoke10"],
        [driver |-> "rr", script |-> "rr_run"],
        [driver |-> "native", script |-> "native"]}

Reps ==
  IF campaign.script = "blast" THEN 1..REPS
  ELSE IF campaign.script = "rr_run" THEN {1} ELSE {1, 2}

(* The first native pass is a blast, the second a sequential one. *)
Blasting ==
  \/ campaign.script \in {"blast", "rr_run"}
  \/ campaign.script = "native" /\ rep = 1

(* The smoke driver of RocketRide sends a backlog as one batch. *)
Batched == Blasting /\ campaign.driver = "rr"

(* One report compares two passes, the other gates every repetition. *)
Passes == campaign.script \in {"smoke2", "smoke10", "native"}

Missing == [age |-> "none", rows |-> <<>>]
Fresh(rows) == [age |-> "new", rows |-> rows]

(* A file that ends within a line. *)
Torn(rows) == [age |-> "torn", rows |-> rows]

(* Only the RocketRide container is copied from. *)
Evidence(r) == IF campaign.driver = "rr" THEN host[r] ELSE out[r]

-----------------------------------------------------------------------------
(* Records                                                                 *)

Failed(d, reason) ==
  [doc |-> d, ok |-> FALSE, reason |-> reason, flags |-> FALSE, chunks |-> 0,
   dim |-> FALSE, norms |-> FALSE, hashes |-> NoHashes]

Completed(d, content) ==
  [doc |-> d, ok |-> TRUE, reason |-> "completed", flags |-> TRUE,
   chunks |-> 1, dim |-> TRUE, norms |-> TRUE, hashes |-> <<content>>]

(* one() of the three drivers: an answer about another document (the id    *)
(* that LangGraph echoes, the filepath of an item) is not a completion.    *)
Judge(d, item) ==
  IF item.content = NoText THEN Failed(d, "no_documents")
  ELSE IF item.file # d THEN Failed(d, "completion_proof_missing")
  ELSE Completed(d, item.content)

(* The native driver writes the raw answer after it has set ok. *)
Unsaved(r) == [r EXCEPT !.reason = "transport_error"]

(* Bug: attribution by position. *)
BatchRecordBug(d, result) ==
  LET k == CHOOSE i \in DOMAIN Corpus : Corpus[i] = d
  IN IF k \notin DOMAIN result THEN Failed(d, "no_response_for_file")
     ELSE Judge(d, [file |-> d, content |-> result[k].content])

(* records_from_batch(): the first item with the name of the file. *)
BatchRecord(d, result) ==
  LET own == {i \in DOMAIN result : result[i].file = d}
  IN IF own = {} THEN Failed(d, "no_response_for_file")
     ELSE Judge(d, result[Min(own)])

Items == [file : Docs, content : Contents \cup {NoText}]

-----------------------------------------------------------------------------

Old == [age |-> "old",
        rows |-> [i \in DOMAIN Corpus |->
                    Completed(Corpus[i], CHOOSE c \in Contents : TRUE)]]

Init ==
  /\ campaign \in Campaigns
  /\ out \in {[r \in 1..REPS |-> f] : f \in {Missing, Old}}
  /\ campaign.driver = "lg" => out[1] = Missing
  /\ rep = 1 /\ phase = "launch"
  /\ task = [d \in Docs |-> "waiting"] /\ records = <<>>
  /\ host = [r \in 1..REPS |-> Missing]
  /\ status = [r \in 1..REPS |-> "none"]
  /\ served = {} /\ verdict = "none"

(* Bug: the output directory in the container is not cleared. *)
LaunchBug ==
  /\ phase = "launch"
  /\ phase' = IF campaign.driver = "lg" THEN "run" ELSE "warm"
  /\ task' = [d \in Docs |-> "waiting"] /\ records' = <<>> /\ served' = {}
  /\ UNCHANGED <<campaign, rep, out, host, status, verdict>>

(* The script clears the directory of the repetition (smoke2.sh does not)  *)
(* and starts the driver, which writes the manifest and connects.          *)
Launch ==
  /\ phase = "launch"
  /\ phase' = IF campaign.driver = "lg" THEN "run" ELSE "warm"
  /\ task' = [d \in Docs |-> "waiting"] /\ records' = <<>> /\ served' = {}
  /\ out' = IF Passes THEN out ELSE [out EXCEPT ![rep] = Missing]
  /\ UNCHANGED <<campaign, rep, host, status, verdict>>

(* The fixture is verified, or in rr_run.sh the first documents sent; only *)
(* then does the native driver open its file, which empties it.            *)
WarmUp ==
  /\ phase = "warm" /\ phase' = "run"
  /\ out' = IF campaign.driver = "native"
            THEN [out EXCEPT ![rep] = Fresh(<<>>)] ELSE out
  /\ UNCHANGED <<campaign, rep, task, records, host, status, served, verdict>>

InFlight == {d \in Docs : task[d] = "sent"}

Limit == IF Blasting THEN Len(Corpus) ELSE 1

(* Bug: the semaphore is one short. *)
SendBug(d) ==
  /\ phase = "run" /\ ~Batched
  /\ task[d] = "waiting" /\ Cardinality(InFlight) < Limit - 1
  /\ task' = [task EXCEPT ![d] = "sent"]
  /\ UNCHANGED <<campaign, rep, phase, records, out, host, status, served,
                 verdict>>

(* The semaphore, or the pool of threads, takes the tasks in order. *)
Send(d) ==
  /\ phase = "run" /\ ~Batched
  /\ task[d] = "waiting" /\ Cardinality(InFlight) < Limit
  /\ \A i, j \in DOMAIN Corpus :
       i < j /\ Corpus[j] = d => task[Corpus[i]] # "waiting"
  /\ task' = [task EXCEPT ![d] = "sent"]
  /\ UNCHANGED <<campaign, rep, phase, records, out, host, status, served,
                 verdict>>

(* The native driver appends each record to its file under the lock. *)
Keep(r) ==
  /\ records' = Append(records, r)
  /\ out' = IF campaign.driver = "native"
            THEN [out EXCEPT ![rep].rows = Append(@, r)] ELSE out

Answer(d) ==
  /\ phase = "run" /\ task[d] = "sent"
  /\ task' = [task EXCEPT ![d] = "done"]
  /\ \/ \E item \in Items :
          /\ served' = served \cup {<<item.file, item.content>>}
          /\ LET r == Judge(d, item)
             IN \/ Keep(r)
                \/ campaign.driver = "native" /\ r.ok /\ Keep(Unsaved(r))
     \/ (* the time-out, a refused connection, an HTTP error *)
        Keep(Failed(d, "transport_error")) /\ UNCHANGED served
  /\ UNCHANGED <<campaign, rep, phase, host, status, verdict>>

Batch ==
  /\ phase = "run" /\ Batched /\ records = <<>>
  /\ \E result \in BoundedSeq(Items, BatchItems) :
       /\ records' = [i \in DOMAIN Corpus |-> BatchRecord(Corpus[i], result)]
       /\ served' = {<<result[i].file, result[i].content>> : i \in DOMAIN result}
  /\ task' = [d \in Docs |-> "done"]
  /\ UNCHANGED <<campaign, rep, phase, out, host, status, verdict>>

(* gather() and map() return the records in the order of the corpus. *)
InOrder(rows) ==
  [i \in DOMAIN Corpus |->
     rows[CHOOSE k \in DOMAIN rows : rows[k].doc = Corpus[i]]]

(* All documents are answered.  The native driver has its records in its   *)
(* file; the smoke drivers now open theirs, which empties it.              *)
Open ==
  /\ phase = "run" /\ \A d \in Docs : task[d] = "done"
  /\ IF campaign.driver = "native"
     THEN /\ phase' = "written" /\ UNCHANGED out
          /\ status' = [status EXCEPT ![rep] = "ended"]
     ELSE /\ phase' = "writing" /\ UNCHANGED status
          /\ out' = [out EXCEPT ![rep] = Fresh(<<>>)]
  /\ UNCHANGED <<campaign, rep, task, records, host, served, verdict>>

(* The lines reach the disk one after the other. *)
WriteLine ==
  /\ phase = "writing" /\ Len(out[rep].rows) < Len(Corpus)
  /\ out' = [out EXCEPT ![rep].rows =
               Append(@, InOrder(records)[Len(@) + 1])]
  /\ UNCHANGED <<campaign, rep, phase, task, records, host, status, served,
                 verdict>>

Close ==
  /\ phase = "writing" /\ Len(out[rep].rows) = Len(Corpus)
  /\ phase' = "written"
  /\ status' = [status EXCEPT ![rep] = "ended"]
  /\ UNCHANGED <<campaign, rep, task, records, out, host, served, verdict>>

HasOpenFile ==
  phase = "writing" \/ (phase = "run" /\ campaign.driver = "native")

(* A warm-up that is not proven, a batch that raises or exceeds its time,  *)
(* a document that cannot be read, a full disk, a signal, until the pipe   *)
(* is taken down: records in memory are lost, and an open file may end     *)
(* within a line. *)
Die ==
  /\ phase \in {"warm", "run", "writing", "written"}
  /\ phase' = "dead" /\ records' = <<>>
  /\ status' = [status EXCEPT ![rep] = "dead"]
  /\ \/ UNCHANGED out
     \/ HasOpenFile /\ out' = [out EXCEPT ![rep] = Torn(@.rows)]
  /\ UNCHANGED <<campaign, rep, task, host, served, verdict>>

(* docker cp after the driver; set -e lets only rr_run.sh come here with a *)
(* driver that failed, and go on when there is nothing to copy.  By hand,  *)
(* a failed native pass stops nothing.                                     *)
Collect ==
  /\ \/ phase = "written"
     \/ phase = "dead" /\ campaign.script \in {"rr_run", "native"}
  /\ \/ host' = IF campaign.driver = "rr" THEN [host EXCEPT ![rep] = out[rep]]
                ELSE host
     \/ campaign.script = "rr_run" /\ UNCHANGED host
  /\ IF rep + 1 \in Reps THEN rep' = rep + 1 /\ phase' = "launch"
                         ELSE rep' = rep /\ phase' = "report"
  /\ UNCHANGED <<campaign, task, records, out, status, served, verdict>>

-----------------------------------------------------------------------------
(* The reports                                                             *)

Exists(r) == Evidence(r).age # "none"
Rows(r) == Evidence(r).rows

(* load_records() raises on a line that is not whole: there is no report.  *)
Loads(r) == Evidence(r).age # "torn"

(* m0_PASS_partial *)
RepPasses(r) ==
  /\ Loads(r)
  /\ Census(Rows(r), Len(Corpus), Docs, ExpectedEmpty)
  /\ Structure(Rows(r), ExpectedEmpty)

(* sorted(glob("rep*")): rep10 comes before rep2. *)
Second == IF rep >= 10 THEN 10 ELSE 2

(* Bug: the repetitions after the two compared are not gated. *)
BlastPassBug(reps) ==
  /\ Cardinality({r \in reps : Exists(r)}) >= 2
  /\ Exists(1) /\ Exists(Second)
  /\ \A r \in {1, Second} : RepPasses(r)
  /\ Determinism(Rows(1), Rows(Second))

(* A repetition without a file is skipped; if that is one of the first two *)
(* of the list the comparison raises, and there is no report.              *)
BlastPass(reps) ==
  /\ Cardinality({r \in reps : Exists(r)}) >= 2
  /\ Exists(1) /\ Exists(Second)
  /\ \A r \in {s \in reps : Exists(s)} : RepPasses(r)
  /\ Determinism(Rows(1), Rows(Second))

(* Without the file of the first pass there is no report either. *)
PassesPass ==
  /\ Exists(1) /\ Loads(1) /\ Loads(2)
  /\ Gate(Rows(1), Rows(2), Len(Corpus), Docs, ExpectedEmpty)

(* Only the directories of repetitions that were started exist. *)
Passed == IF Passes THEN PassesPass ELSE BlastPass(1..rep)

Compared == IF Passes THEN {1, 2} ELSE {1, Second}

FirstPasses == RepPasses(1)

(* After the last repetition, or by hand on what an aborted one has left.  *)
(* When smoke_report.py is not given a second pass, it passes a single one.*)
Report ==
  /\ phase = "report" \/ phase = "dead"
  /\ phase' = "reported"
  /\ \/ verdict' = IF Passed THEN "PASS" ELSE "FAIL"
     \/ /\ campaign.script = "smoke10" /\ phase = "dead" /\ Exists(1)
        /\ verdict' = IF FirstPasses THEN "PASS, gate incomplete" ELSE "FAIL"
  /\ UNCHANGED <<campaign, rep, task, records, out, host, status, served>>

Driver ==
  \/ WarmUp \/ (\E d \in Docs : Send(d) \/ Answer(d)) \/ Batch
  \/ Open \/ WriteLine \/ Close

Next == Launch \/ Driver \/ Die \/ Collect \/ Report

(* Every wait of the driver from the warm-up to the writing has a time-out *)
(* (TIMEOUT_S, BATCH_TIMEOUT_S), which is an answer or the end of the      *)
(* driver.  Those of connect, use, terminate and disconnect have none, and *)
(* the report of an aborted campaign is somebody's choice.                 *)
Spec == Init /\ [][Next]_vars /\ WF_vars(Driver)

-----------------------------------------------------------------------------
(* The inductive invariant                                                 *)

Reasons == {"completed", "no_documents", "completion_proof_missing",
            "no_response_for_file", "transport_error"}

(* A record that is ok has the hashes of a content with text. *)
RecordSet ==
  {r \in [doc : Docs, ok : BOOLEAN, reason : Reasons, flags : BOOLEAN,
          chunks : {0, 1}, dim : BOOLEAN, norms : BOOLEAN,
          hashes : {NoHashes} \cup {<<c>> : c \in Contents}] :
     r.ok => \E c \in Contents : r.hashes = <<c>>}

FileSet == [age : {"none", "old", "new", "torn"}, rows : Seq(RecordSet)]

TypeOK ==
  /\ campaign \in Campaigns /\ rep \in Reps
  /\ phase \in {"launch", "warm", "run", "writing", "written", "dead",
               "report", "reported"}
  /\ task \in [Docs -> {"waiting", "sent", "done"}]
  /\ records \in Seq(RecordSet)
  /\ out \in [1..REPS -> FileSet] /\ host \in [1..REPS -> FileSet]
  /\ status \in [1..REPS -> {"none", "ended", "dead"}]
  /\ served \subseteq Docs \X (Contents \cup {NoText})
  /\ verdict \in {"none", "PASS", "FAIL", "PASS, gate incomplete"}

(* One record of each document of D, and no other. *)
OneEach(rows, D) ==
  /\ DocsOf(rows) = D /\ Len(rows) = Cardinality(D)
  /\ \A j, k \in DOMAIN rows : rows[j].doc = rows[k].doc => j = k

(* The first documents of the corpus, in its order. *)
FirstOnes(rows) ==
  /\ Len(rows) <= Len(Corpus)
  /\ \A i \in DOMAIN rows : rows[i].doc = Corpus[i]

(* The records of the repetition under way are of the documents done; the  *)
(* native driver has them in its file, the others write them when all are  *)
(* there. *)
RecordsInv ==
  /\ phase = "warm" => records = <<>> /\ \A d \in Docs : task[d] = "waiting"
  /\ phase = "run" => OneEach(records, {d \in Docs : task[d] = "done"})
  /\ phase = "run" /\ campaign.driver = "native" => out[rep] = Fresh(records)
  /\ phase = "writing" => /\ campaign.driver # "native"
                          /\ OneEach(records, Docs) /\ out[rep].age = "new"

(* A repetition has a status when its driver is through. *)
StatusInv ==
  /\ \A r \in 1..REPS : r > rep => status[r] = "none"
  /\ phase \in {"launch", "warm", "run", "writing"} => status[rep] = "none"
  /\ phase = "written" => status[rep] = "ended"
  /\ phase = "dead" => status[rep] = "dead"
  /\ phase \in {"report", "reported"} => status[rep] # "none"
  /\ \A r \in 1..REPS : r < rep => status[r] # "none"

(* The file of a driver that ended is complete; that of one that died is   *)
(* what it had written: the native driver the documents done, the others   *)
(* the first ones of the corpus. *)
WrittenInv(r) ==
  /\ status[r] = "ended" => out[r].age = "new" /\ OneEach(out[r].rows, Docs)
  /\ out[r].age = "torn" => status[r] = "dead"
  /\ out[r].age \in {"new", "torn"} =>
       /\ status[r] = "none" => r = rep /\ phase \in {"run", "writing"}
       /\ campaign.driver # "native" => FirstOnes(out[r].rows)
       /\ campaign.driver = "native" =>
            (r = rep /\ phase = "run") \/ Duplicates(out[r].rows) = {}

(* An old file is met where the script does not clear, and the host has    *)
(* no other copy than that of a driver through. *)
CopyInv(r) ==
  /\ out[r].age = "old" =>
       /\ campaign.driver # "lg"
       /\ ~Passes => status[r] = "none" /\ (r = rep => phase = "launch")
  /\ campaign.driver = "rr" =>
       /\ host[r] \in {Missing, out[r]}
       /\ status[r] = "ended" /\ campaign.script # "rr_run"
            => host[r] = out[r] \/ (r = rep /\ phase = "written")
       /\ host[r] # Missing => /\ status[r] = "ended" \/ campaign.script = "rr_run"
                               /\ status[r] # "none"
                               /\ r = rep => phase \in {"report", "reported"}

FileInv(r) == WrittenInv(r) /\ CopyInv(r)

(* The verdict still stands for what the report has read. *)
VerdictInv ==
  /\ phase # "reported" => verdict = "none"
  /\ verdict = "PASS" => Passed

-----------------------------------------------------------------------------
(* Properties                                                              *)

(* "every offered doc must come back as exactly one record, and every      *)
(* failure must be explicit and expected" (m0_correctness.py:68-70): when  *)
(* a report says PASS, every document that is not one of EXPECTED_EMPTY is *)
(* proven with the same hashes in the two repetitions that are compared,   *)
(* and has one explicit record in every one that left a file, which are at *)
(* least those that the campaign completed.  The records of a second pass  *)
(* are compared but not counted.  Nothing is said of two verdicts that the *)
(* repository's words deny: "PASS, gate incomplete" of one pass, and that  *)
(* of a campaign in which a later repetition has left no file. *)
PassMeansProven ==
  verdict = "PASS" =>
    /\ \A d \in Docs \ ExpectedEmpty : \E c \in Contents : \A r \in Compared :
         \E k \in DOMAIN Rows(r) : Rows(r)[k].doc = d /\ Rows(r)[k].ok
                                   /\ Rows(r)[k].hashes = <<c>>
    /\ \A r \in Reps :
         /\ status[r] = "ended" => Exists(r)
         /\ Exists(r) /\ (Passes => r = 1) => \A d \in Docs :
              \E k \in DOMAIN Rows(r) :
                /\ \A j \in DOMAIN Rows(r) : Rows(r)[j].doc = d <=> j = k
                /\ \/ Rows(r)[k].ok
                   \/ d \in ExpectedEmpty /\ Rows(r)[k].reason = "no_documents"

(* "this happened -- stale file" (rr_run.sh:80-82), and "any records below *)
(* are suspect" (rr_run.sh:101).  What a report judges was written by this *)
(* campaign, except in the native one, where the pass at fault did not get *)
(* past its warm-up or was never started.  A repetition whose driver ended *)
(* has one record of every document; only rr_run.sh can lose the copy.     *)
(* One whose driver died has no file, or what had reached it, which ends   *)
(* where it was cut: the first documents of the corpus in their order, or  *)
(* in the native driver no document twice.  Of RocketRide's smoke driver   *)
(* only rr_run.sh hands such a file to the report. *)
EvidenceOfThisRun ==
  verdict # "none" => \A r \in Reps :
    /\ Evidence(r).age = "old" => campaign.driver = "native"
                                  /\ status[r] # "ended"
    /\ status[r] = "ended" =>
         \/ Len(Rows(r)) = Len(Corpus) /\ DocsOf(Rows(r)) = Docs
         \/ campaign.script = "rr_run" /\ ~Exists(r)
    /\ status[r] # "ended" /\ Evidence(r).age \in {"new", "torn"} =>
         /\ status[r] = "dead"
         /\ campaign.driver = "rr" => campaign.script = "rr_run"
         /\ IF campaign.driver = "native" THEN Duplicates(Rows(r)) = {}
                                          ELSE FirstOnes(Rows(r))

(* "position-based zip silently mis-credits work if the engine reorders"   *)
(* (rr_smoke_driver.py:87-89): a document is ok only with a content that   *)
(* was served for it in this very repetition. *)
OkIsOwn ==
  \A k \in DOMAIN records :
    records[k].ok => \E c \in Contents :
      /\ <<records[k].doc, c>> \in served
      /\ records[k].hashes = <<c>>

(* Records, files and verdict together are kept by every step. *)
IInv ==
  /\ TypeOK /\ RecordsInv /\ StatusInv /\ VerdictInv /\ OkIsOwn
  /\ \A r \in 1..REPS : FileInv(r)

(* Whatever the engine answers, and without a kill, a driver that has      *)
(* connected comes to the end of its run, its records written or lost. *)
RepResolves ==
  phase \in {"warm", "run", "writing"} ~>
    phase \notin {"warm", "run", "writing"}
=============================================================================
