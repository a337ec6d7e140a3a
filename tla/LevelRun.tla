------------------------------ MODULE LevelRun -------------------------------
(***************************************************************************)
(* One measured run of a concurrent driver, from its launch to its         *)
(* verdict: the stepped drivers pdf200/rr_stepped.py and lg_stepped.py     *)
(* (closed loop, at most Level documents in flight) under run_level200.sh  *)
(* and validate200.py, and the burst drivers pdf1k/rr_burst.py and         *)
(* lg_burst.py (all documents at once) under run_rep.sh and                *)
(* validate_rep.py.                                                        *)
(*                                                                         *)
(* Two processes: the driver, an event loop with a task per document, and  *)
(* the script, which polls the record file, kills the driver when the file *)
(* is stale, and validates what is left.  Time is counted in polls: 30 s,  *)
(* or longer where the poll of rr_burst is a slow docker exec; a document  *)
(* that times out within a long poll is an "error" of Finish.              *)
(*                                                                         *)
(* External: what the engine or the service answers, and when; a launch or *)
(* a disconnect that fails or hangs; an SDK that blocks the event loop; a  *)
(* docker command that does not return.  Left out: a raw reply that cannot *)
(* be saved (the record's "ok" is the same), a line torn by the kill (its  *)
(* file has not been written to for minutes), a docker command that fails, *)
(* and the mirror of the RocketRide record file, which follows it without  *)
(* delay.                                                                  *)
(***************************************************************************)
EXTENDS Integers, Sequences, FiniteSets, Functions

CONSTANTS
  Docs,
  Strangers,     (* documents outside the corpus, of an earlier run        *)
  Corpus,        (* the documents in the order of the corpus               *)
  Arms,          (* the drivers to consider                                *)
  Level,         (* the semaphore of the stepped drivers                   *)
  Timeout,       (* the document timeout, in polls                         *)
  Stale,         (* ten minutes, in polls                                  *)
  Unreadable,    (* documents whose read_bytes fails                       *)
  Truth,         (* documents that have a ground truth                     *)
  Leftovers,     (* what an earlier run may have left in the file          *)
  Baselines      (* the hashes an earlier repetition may have left         *)

(* What may come back for a document: the expected chunks, other chunks,   *)
(* none, vectors of a wrong dimension or not finite, an answer that fails  *)
(* the identity or digest check, or an error or a timeout.                 *)
Replies ==
  {"good", "other", "empty", "wrongdim", "nonfinite", "alien", "error"}

MetaLine == [doc |-> "level_meta", reply |-> "none"]

Rows == [doc : Docs \cup Strangers, reply : Replies]

Stepped == {"rr_stepped", "lg_stepped"}

RocketRide == {"rr_stepped", "rr_burst"}

Texts == {"expected", "different", "nothing"}

ASSUME LevelAssumption ==
  /\ Corpus \in Seq(Docs) /\ Range(Corpus) = Docs
  /\ Len(Corpus) = Cardinality(Docs)
  /\ Strangers \cap Docs = {} /\ IsFiniteSet(Strangers)
  /\ MetaLine.doc \notin Docs \cup Strangers
  /\ Arms \subseteq Stepped \cup {"rr_burst", "lg_burst"}
  /\ Level \in Nat \ {0} /\ Timeout \in Nat \ {0} /\ Stale \in Nat \ {0}
  /\ Unreadable \subseteq Docs /\ Truth \subseteq Docs \cup Strangers
  /\ Leftovers \subseteq Seq(Rows \cup {MetaLine})
  /\ Baselines \subseteq SUBSET ((Docs \cup Strangers) \X Texts)

VARIABLES
  arm,           (* the driver that runs                                   *)
  phase,         (* where its main() stands                                *)
  task,          (* per document: "queued", "sent", "over", "dead"         *)
  wait,          (* per document: polls since it was sent, up to Timeout   *)
  permits,       (* what the semaphore has left                            *)
  stuck,         (* the event loop was blocked: "never", "now", "was"      *)
  left,          (* per_doc.jsonl of an earlier run in the same directory  *)
  old,           (* there is such a file                                   *)
  there,         (* per_doc.jsonl exists (of rr_burst: in the container)   *)
  file,          (* per_doc.jsonl                                          *)
  age,           (* polls without a change of the file                     *)
  lead,          (* age when the first document could be sent, or NotBegun *)
  watch,         (* the script: "polling", "killing", "collect", "done"    *)
                 (* or "died"                                              *)
  killed,        (* the watchdog has fired                                 *)
  verdict,       (* "pending", "valid", "invalid", or "none" at all        *)
  based,         (* rr_baseline_hashes.json exists                         *)
  baseline       (* its pairs of a document and its text                   *)

driverVars == <<phase, task, wait, permits, lead, stuck, there>>
fileVars == <<file, age>>
scriptVars == <<watch, killed, verdict, based, baseline>>
vars == <<arm, left, old, driverVars, fileVars, scriptVars>>

NotBegun == -2

Alive == phase \in {"run", "failing"}

(* Nothing blocks the event loop. *)
Turning == Alive /\ stuck # "now"

Queued == {k \in DOMAIN Corpus : task[Corpus[k]] = "queued"}

InFlight == {d \in Docs : task[d] = "sent"}

-----------------------------------------------------------------------------
(* The driver.                                                             *)

(* run_level200.sh looks at the time of the last write, which is that of   *)
(* an earlier run when the file of lg_stepped is there already; run_rep.sh *)
(* counts the lines, starting from none, and removes the old file of       *)
(* rr_burst in the container, though not the old copy on the host.  The    *)
(* file of rr_stepped is touched before the driver begins.                 *)
Init ==
  /\ arm \in Arms
  /\ left \in Leftovers
  /\ old \in {b \in BOOLEAN : left # <<>> => b}
  /\ there = (arm = "rr_stepped" \/ (arm # "rr_burst" /\ old))
  /\ file = IF arm = "rr_burst" THEN <<>> ELSE left
  /\ age \in IF arm = "lg_stepped" /\ old THEN 0..Stale
             ELSE IF arm = "lg_burst" /\ file # <<>> THEN {-1}
             ELSE {0}
  /\ phase = "starting"
  /\ task = [d \in Docs |-> "queued"]
  /\ wait = [d \in Docs |-> 0]
  /\ permits = Level
  /\ lead = NotBegun
  /\ stuck = "never"
  /\ watch = "polling" /\ killed = FALSE /\ verdict = "pending"
  /\ IF arm = "rr_burst"
     THEN \/ based = FALSE /\ baseline = {}
          \/ based = TRUE /\ baseline \in Baselines
     ELSE based = FALSE /\ baseline = {}

(* The LangGraph drivers open their file before they ask whether the       *)
(* server is ready.                                                        *)
Open ==
  /\ phase = "starting"
  /\ arm \notin RocketRide /\ ~there
  /\ there' = TRUE
  /\ UNCHANGED <<arm, left, old, phase, task, wait, permits, lead, stuck,
                 fileVars, scriptVars>>

(* The pool is up and warm, the pipe launched, or the server ready; or the *)
(* driver gives up.  None of these calls need return.  rr_burst opens its  *)
(* file only now.                                                          *)
Begin ==
  /\ phase = "starting"
  /\ \/ /\ there \/ arm = "rr_burst"
        /\ phase' = "run" /\ lead' = age /\ there' = TRUE
     \/ phase' = "ended" /\ UNCHANGED <<lead, there>>
  /\ UNCHANGED <<arm, left, old, task, wait, permits, stuck, fileVars,
                 scriptVars>>

(* The SDK blocks the event loop: no task runs and no timeout fires        *)
(* (results/OVERNIGHT_STATUS.md:69-76), until it returns, if it does.  One *)
(* such time is enough: from then on WatchdogHonest says nothing.          *)
Wedge ==
  /\ Alive /\ arm \in RocketRide
  /\ InFlight # {} /\ stuck = "never"
  /\ stuck' = "now"
  /\ UNCHANGED <<arm, left, old, phase, task, wait, permits, lead, there,
                 fileVars, scriptVars>>

Recover ==
  /\ Alive /\ stuck = "now"
  /\ stuck' = "was"
  /\ UNCHANGED <<arm, left, old, phase, task, wait, permits, lead, there,
                 fileVars, scriptVars>>

(* A line is written and flushed: the watchdog sees it at its next poll.   *)
Touched == IF arm \in Stepped THEN 0 ELSE -1

Release == permits' = IF arm \in Stepped THEN permits + 1 ELSE permits

CanStart == Turning /\ Queued # {} /\ (arm \in Stepped => permits > 0)

(* Bug: the permit of an unreadable document is not given back. *)
StartBug ==
  /\ CanStart
  /\ LET d == Corpus[CHOOSE k \in Queued : \A j \in Queued : k <= j]
     IN \/ /\ permits' = IF arm \in Stepped THEN permits - 1 ELSE permits
           /\ task' = [task EXCEPT ![d] = "sent"]
           /\ UNCHANGED phase
        \/ /\ arm # "rr_burst" /\ d \in Unreadable
           /\ task' = [task EXCEPT ![d] = "dead"]
           /\ phase' = "failing"
           /\ permits' = IF arm \in Stepped THEN permits - 1 ELSE permits
  /\ UNCHANGED <<arm, left, old, wait, lead, stuck, there, fileVars,
                 scriptVars>>

(* The next document gets the semaphore and is sent.  read_bytes, outside  *)
(* the try, may kill its task: the permit is given back, gather raises in  *)
(* main(), and the other tasks go on until main() is through with its      *)
(* clean-up.  rr_burst leaves reading to the SDK.                          *)
Start ==
  /\ CanStart
  /\ LET d == Corpus[CHOOSE k \in Queued : \A j \in Queued : k <= j]
     IN \/ /\ permits' = IF arm \in Stepped THEN permits - 1 ELSE permits
           /\ task' = [task EXCEPT ![d] = "sent"]
           /\ UNCHANGED phase
        \/ /\ arm # "rr_burst" /\ d \in Unreadable
           /\ task' = [task EXCEPT ![d] = "dead"]
           /\ phase' = "failing"
           /\ UNCHANGED permits
  /\ UNCHANGED <<arm, left, old, wait, lead, stuck, there, fileVars,
                 scriptVars>>

(* Bug: the line stays in the buffer as far as the watchdog can see. *)
WriteRowBug(d, r) ==
  /\ file' = Append(file, [doc |-> d, reply |-> r])
  /\ task' = [task EXCEPT ![d] = "over"]
  /\ wait' = [wait EXCEPT ![d] = 0]
  /\ Release
  /\ UNCHANGED age

(* The task wakes up with a reply or an exception, writes its record and   *)
(* leaves the semaphore.                                                   *)
WriteRow(d, r) ==
  /\ file' = Append(file, [doc |-> d, reply |-> r])
  /\ age' = Touched
  /\ task' = [task EXCEPT ![d] = "over"]
  /\ wait' = [wait EXCEPT ![d] = 0]
  /\ Release

Finish ==
  /\ Turning
  /\ \E d \in InFlight, r \in Replies : WriteRow(d, r)
  /\ UNCHANGED <<arm, left, old, phase, lead, stuck, there, scriptVars>>

Expire ==
  /\ Turning
  /\ \E d \in InFlight : wait[d] = Timeout /\ WriteRow(d, "error")
  /\ UNCHANGED <<arm, left, old, phase, lead, stuck, there, scriptVars>>

WriteMeta == file' = Append(file, MetaLine) /\ age' = Touched

(* gather has returned.  rr_stepped writes its summary line before it      *)
(* disconnects, the others after.                                          *)
Stop ==
  /\ Turning /\ phase = "run"
  /\ \A d \in Docs : task[d] = "over"
  /\ phase' = "closing"
  /\ IF arm = "rr_stepped" THEN WriteMeta ELSE UNCHANGED fileVars
  /\ UNCHANGED <<arm, left, old, task, wait, permits, lead, stuck, there,
                 scriptVars>>

(* The connections are closed, which may take for ever. *)
Close ==
  /\ phase = "closing"
  /\ phase' = "ended"
  /\ IF arm = "rr_stepped" THEN UNCHANGED fileVars ELSE WriteMeta
  /\ UNCHANGED <<arm, left, old, task, wait, permits, lead, stuck, there,
                 scriptVars>>

(* Bug: the failure of a task is not seen, and the summary line written. *)
ExitBug ==
  /\ phase = "failing"
  /\ phase' = "ended"
  /\ WriteMeta
  /\ UNCHANGED <<arm, left, old, task, wait, permits, lead, stuck, there,
                 scriptVars>>

(* The clean-up after a failed gather is over; what is in flight is        *)
(* cancelled without a record, and no summary line is written.             *)
Exit ==
  /\ Turning /\ phase = "failing"
  /\ phase' = "ended"
  /\ UNCHANGED <<arm, left, old, task, wait, permits, lead, stuck, there,
                 fileVars, scriptVars>>

-----------------------------------------------------------------------------
(* The script.                                                             *)

(* Nothing is ready in the event loop, or it is blocked: time can pass. *)
Idle == ~CanStart /\ \A d \in InFlight : Turning => wait[d] < Timeout

Wait == [d \in Docs |-> IF Alive /\ task[d] = "sent" /\ wait[d] < Timeout
                       THEN wait[d] + 1
                       ELSE wait[d]]

(* Bug: a file as old as the limit is taken for a fresh one. *)
PollBug ==
  /\ watch = "polling" /\ Idle
  /\ age' = IF age < Stale - 1 THEN age + 1 ELSE age
  /\ wait' = Wait
  /\ watch' = IF phase = "ended" THEN "collect" ELSE "polling"
  /\ UNCHANGED <<arm, left, old, task, permits, lead, stuck, there, file,
                 phase, killed, verdict, based, baseline>>

(* The next poll: when the file is stale, the script sets out to kill the  *)
(* driver, even if that has ended meanwhile; else the loop goes on while   *)
(* the driver runs.  run_level200.sh dies (set -u) of the unset AGE when   *)
(* there is no file at its first poll.                                     *)
Poll ==
  /\ watch = "polling" /\ Idle
  /\ wait' = Wait
  /\ \/ /\ arm = "lg_stepped" /\ ~there
        /\ watch' = "died"
        /\ UNCHANGED age
     \/ /\ arm = "lg_stepped" => there
        /\ age + 1 >= Stale
        /\ age' = Stale
        /\ watch' = "killing"
     \/ /\ arm = "lg_stepped" => there
        /\ age + 1 < Stale
        /\ age' = age + 1
        /\ watch' = IF phase = "ended" THEN "collect" ELSE "polling"
  /\ UNCHANGED <<arm, left, old, task, permits, lead, stuck, there, file,
                 phase, killed, verdict, based, baseline>>

(* The logs of the container are saved, then the driver is killed and      *)
(* validity_override.json written, whatever the driver has done meanwhile. *)
Kill ==
  /\ watch = "killing"
  /\ phase' = "ended" /\ killed' = TRUE /\ watch' = "collect"
  /\ UNCHANGED <<arm, left, old, task, wait, permits, lead, stuck, there,
                 fileVars, verdict, based, baseline>>

(* The file that is validated.  When rr_burst has not opened its file,     *)
(* there is nothing to copy to the host, and the copy of an earlier run,   *)
(* if any, is still there.                                                 *)
Judged == IF arm = "rr_burst" /\ ~there THEN left ELSE file

RowsOf(f) == {k \in DOMAIN f : f[k] # MetaLine}

(* The replies each driver records as ok. *)
Accepted ==
  [rr_stepped |-> {"good", "other"},
   lg_stepped |-> {"good", "other", "empty", "wrongdim"},
   rr_burst   |-> {"good", "other", "wrongdim", "nonfinite", "alien"},
   lg_burst   |-> Replies \ {"error"}]

OkRows == {k \in RowsOf(Judged) : Judged[k].reply \in Accepted[arm]}

(* What the chunk hashes of a record say of its text. *)
Text(k) == IF Judged[k].reply = "other" THEN "different"
           ELSE IF Judged[k].reply = "empty" THEN "nothing"
           ELSE "expected"

(* The pairs of a dict by document: of two records the later stays.        *)
Hashes == {<<Judged[k].doc, Text(k)>> : k \in
             {i \in OkRows : \A j \in OkRows :
                              Judged[j].doc = Judged[i].doc => j <= i}}

(* The hashes of the records that are ok agree with the ground truth; for  *)
(* rr_burst, with those an earlier repetition wrote.                       *)
HashesMatch ==
  IF arm = "rr_burst"
  THEN \A h \in Hashes, b \in baseline : b[1] = h[1] => b[2] = h[2]
  ELSE \A k \in OkRows : Judged[k].doc \in Truth => Text(k) = "expected"

(* Bug: the number of records is not checked. *)
ValidBug ==
  /\ Cardinality({Judged[k].doc : k \in RowsOf(Judged)}) = Cardinality(RowsOf(Judged))
  /\ OkRows = RowsOf(Judged)
  /\ \A k \in OkRows : Judged[k].reply \notin {"wrongdim", "nonfinite"}
  /\ HashesMatch

(* As many records as documents, unique and all ok, 384 dimensions, finite *)
(* unit vectors, the expected hashes.                                      *)
Valid ==
  /\ Cardinality(RowsOf(Judged)) = Cardinality(Docs)
  /\ Cardinality({Judged[k].doc : k \in RowsOf(Judged)}) = Cardinality(RowsOf(Judged))
  /\ OkRows = RowsOf(Judged)
  /\ \A k \in OkRows : Judged[k].reply \notin {"wrongdim", "nonfinite"}
  /\ HashesMatch

(* The validation, which raises when there is no file.  validate_rep.py    *)
(* writes the baseline when there is none.                                 *)
Validate ==
  /\ watch = "collect"
  /\ watch' = "done"
  /\ IF ~there /\ ~old
     THEN verdict' = "none" /\ UNCHANGED <<based, baseline>>
     ELSE /\ verdict' = IF Valid THEN "valid" ELSE "invalid"
          /\ IF arm = "rr_burst" /\ ~based
             THEN /\ based' = TRUE
                  /\ baseline' = Hashes
             ELSE UNCHANGED <<based, baseline>>
  /\ UNCHANGED <<arm, left, old, driverVars, fileVars, killed>>

Driver == Open \/ Begin \/ Wedge \/ Recover \/ Start \/ Finish \/ Expire
          \/ Stop \/ Close \/ Exit

Next == Driver \/ Poll \/ Kill \/ Validate

Spec == Init /\ [][Next]_vars

(* The script waits for a docker command, and none of them has a timeout:  *)
(* the poll of rr_burst, "docker logs" before the kill, with the pkill     *)
(* after it, and the copy of a RocketRide file to the host.                *)
AtDocker ==
  \/ watch = "polling" /\ arm = "rr_burst"
  \/ watch = "killing"
  \/ watch = "collect" /\ arm \in RocketRide

(* A task that is ready runs, a timeout fires while the loop turns, and    *)
(* time passes for a script that only sleeps and looks at a file.  Nothing *)
(* says that anybody answers, that a launch, a disconnect or a docker      *)
(* command returns, or that a blocked loop comes back.                     *)
FairSpec ==
  /\ Spec
  /\ WF_vars(Start \/ Expire \/ Stop)
  /\ WF_vars(~AtDocker /\ Poll)
  /\ WF_vars(~AtDocker /\ Validate)

-----------------------------------------------------------------------------

Own == IF arm = "rr_burst" THEN file
       ELSE SubSeq(file, Len(left) + 1, Len(file))

TypeOK ==
  /\ arm \in Arms
  /\ phase \in {"starting", "run", "failing", "closing", "ended"}
  /\ task \in [Docs -> {"queued", "sent", "over", "dead"}]
  /\ wait \in [Docs -> 0..Timeout]
  /\ permits \in 0..Level
  /\ stuck \in {"never", "now", "was"}
  /\ left \in Leftovers
  /\ old \in BOOLEAN
  /\ there \in BOOLEAN
  /\ file \in Seq(Rows \cup {MetaLine})
  /\ age \in -1..Stale
  /\ lead \in NotBegun..Stale
  /\ watch \in {"polling", "killing", "collect", "done", "died"}
  /\ killed \in BOOLEAN
  /\ verdict \in {"pending", "valid", "invalid", "none"}
  /\ based \in BOOLEAN
  /\ baseline \subseteq (Docs \cup Strangers) \X Texts

(* "a global semaphore holds total in-flight at the level"                 *)
(* (rr_stepped.py:6-7): at it, not only below it.  No permit is lost with  *)
(* a document that fails, so when nothing is ready a closed loop is full   *)
(* or has nothing left to send; and it goes through the corpus in order.   *)
ClosedLoop ==
  arm \in Stepped =>
    /\ permits + Cardinality(InFlight) = Level
    /\ Turning /\ Idle /\ Queued # {} => Cardinality(InFlight) = Level
    /\ \A j \in Queued, k \in DOMAIN Corpus : k > j => k \in Queued

(* The documents without a record, and the records of other documents.     *)
Missing == {d \in Docs : \A k \in RowsOf(Judged) : Judged[k].doc # d}

Strange == {k \in RowsOf(Judged) : Judged[k].doc \notin Docs}

(* Of every document that is not missing one record, with a reply the arm  *)
(* can stand for; and as many are missing as others have records.          *)
Proven ==
  /\ \A d \in Docs \ Missing : \E k \in RowsOf(Judged) :
       /\ \A j \in RowsOf(Judged) : Judged[j].doc = d => j = k
       /\ Judged[k].doc = d
       /\ Judged[k].reply \in
            {"good"}
            \cup (IF arm \in Stepped THEN {} ELSE {"alien"})
            \cup (IF arm # "rr_burst" /\ d \in Truth THEN {} ELSE {"other"})
            \cup (IF arm \in {"lg_stepped", "lg_burst"} /\ d \notin Truth
                  THEN {"empty"} ELSE {})
  /\ Cardinality(Missing) = Cardinality(Strange)
  /\ \A k \in Strange : k \in DOMAIN left /\ Judged[k] = left[k]

(* A verdict "valid" means that every document has exactly one record, and *)
(* that a reply the arm can stand for: where there is a ground truth (for  *)
(* rr_burst a baseline) the expected text; elsewhere any, empty too for    *)
(* LangGraph; and for the bursts, whose identity and digest checks are     *)
(* recorded but not gated, one that is not its own.  The validators count  *)
(* and never look whose records they have (validate200.py:41-66): a        *)
(* document may lack its record when an earlier run has left one of a      *)
(* document outside the corpus to make up for it, and not otherwise.  A    *)
(* run that finished in a directory with old records is never valid.       *)
ValidMeansProven ==
  verdict = "valid" =>
    /\ Proven
    /\ (\A k \in RowsOf(left) : left[k].doc \in Docs) => Missing = {}
    /\ arm # "rr_burst" /\ RowsOf(left) # {} => MetaLine \notin Range(Own)

(* While the loop turns, the watchdog sets out to kill a driver with       *)
(* documents in flight only for what happened before it sent the first     *)
(* one: a start-up so long (each slot of the pool may take 120 s to warm)  *)
(* or a file so old that the document timeout, added to it, makes the ten  *)
(* minutes.                                                                *)
WatchdogHonest ==
  [][watch = "polling" /\ watch' = "killing" /\ Alive /\ InFlight # {}
     => lead + Timeout >= Stale \/ stuck # "never"]_vars

(* The run comes to a verdict, whatever hangs but a docker command of the  *)
(* script itself, unless the script died at its first poll.                *)
LevelEnds == <>(watch = "done") \/ <>[](watch = "died" \/ AtDocker)

(* "RR: chunk hashes byte-consistent vs the FIRST valid RR rep"            *)
(* (validate_rep.py:6): a repetition that is not valid leaves no baseline. *)
BaselineFromValidRep == [][based' # based => verdict' = "valid"]_vars

(* The inductive invariant, in parts.                                      *)

(* A task sets out once, in the order of the corpus, and main() closes its *)
(* connections when all are over.                                          *)
TaskInv ==
  /\ \A d \in Docs : task[d] = "queued" => wait[d] = 0
  /\ phase = "starting" => /\ lead = NotBegun /\ stuck = "never"
                           /\ \A d \in Docs : task[d] = "queued"
  /\ phase = "closing" => \A d \in Docs : task[d] = "over"
  /\ arm \in Stepped => permits + Cardinality(InFlight) = Level
  /\ \A j \in Queued, k \in DOMAIN Corpus : k > j => k \in Queued

(* As long as nothing has blocked the loop, the file is never older than   *)
(* the time before the first document and the wait of any document in      *)
(* flight: what starts later than the first starts on a line just written. *)
TimeInv ==
  /\ phase = "starting" => age >= Touched
  /\ Alive /\ stuck = "never" => /\ lead >= Touched
                                 /\ CanStart => age <= lead
                                 /\ \A d \in InFlight : age <= lead + wait[d]

(* Behind the lines it found, the run has written one for each document    *)
(* that is over, none for a stranger, and the summary line only when all   *)
(* are.                                                                    *)
Found == IF arm = "rr_burst" THEN 0 ELSE Len(left)

OwnRows(d) == {k \in DOMAIN file : k > Found /\ file[k].doc = d}

HasMeta == \E k \in DOMAIN file : k > Found /\ file[k] = MetaLine

OwnDocs == \A k \in DOMAIN file :
             k > Found => file[k] = MetaLine \/ file[k].doc \in Docs

OwnInv ==
  /\ Found <= Len(file) /\ \A k \in 1..Found : file[k] = left[k]
  /\ OwnDocs
  /\ \A d \in Docs : \A j, k \in OwnRows(d) : j = k
  /\ \A d \in Docs : task[d] = "over" <=> OwnRows(d) # {}
  /\ HasMeta => phase \in {"closing", "ended"} /\ \A d \in Docs : task[d] = "over"
  /\ phase = "closing" => (HasMeta <=> arm = "rr_stepped")

(* What is judged is final, and a valid verdict stands on it. *)
VerdictInv ==
  /\ watch \in {"collect", "done"} => phase = "ended"
  /\ verdict = "valid" => watch = "done" /\ Proven

IInv == TypeOK /\ TaskInv /\ TimeInv /\ OwnInv /\ VerdictInv

(* The lines this run has added to its file, as a record ledger.           *)
OwnPlaces == [d \in Docs |-> {k \in DOMAIN Own : Own[k].doc = d}]

OwnStatus ==
  IF MetaLine \in Range(Own) THEN "closed"
  ELSE IF phase = "ended" THEN "aborted"
  ELSE "open"

Ledger == INSTANCE RecordLedger WITH
  length <- Len(Own),
  places <- OwnPlaces, status <- OwnStatus

(* What a run adds to its file is a ledger: one line per document at most, *)
(* behind whatever an earlier run has left, the summary line only when     *)
(* every document has its line, and no line after the end.                 *)
LedgerSpec == Ledger!Spec
=============================================================================
