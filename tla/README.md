# A TLA+ model of the document-pipeline benchmark

The repository compares two document pipelines (PDF in, text chunks and 384
dimensional vectors out): a LangGraph service behind FastAPI, and the RocketRide
engine driven through its WebSocket SDK. Around them stand the drivers that feed
a corpus to either one and write one JSON line per document, the scripts that
run and watch the drivers, and the metrics and validators that read the files.
What the benchmark reports is only worth what those files are: a document lost,
recorded twice, or recorded as completed without the proof, changes the result
and no exception says so. That is what most of this project is about.

All paths are relative to `src/`.

## 1. Inventory

| Component | State | Operations | Correct when |
|---|---|---|---|
| LangGraph service (`langgraph-fastapi/service`, `pipelines`) | registry, ready flag, per request the temp file and its place in the handler, executor queue and threads | lifespan start, warm-up, shutdown; `POST /v1/process/{pipeline}`; upload copy; graph nodes | one answer per request, the one the contract gives; temp files live exactly as long as needed, unless the disk refuses to remove them; ready means warm; no node call lost or doubled |
| Embedding model (`workload/document/embed.py`) | `_model`, `_lock` | `load_model` from any executor thread | constructed once, never replaced, lock never left held |
| RocketRide open-loop shot (`pdf500/rr_shot.py`) | pool, tasks, record file, `written`, `last_progress`, attempt | warm-up, attempt, per-document task, poll loop, wedge, relaunch, finalize, summary | one record per document; only real stalls are wedges; recorded documents are not sent again |
| RocketRide bulk driver (`rocketride/rr_bulk.py`) | pipe, checkpoint file, batch, fallback | batch upload, individual runs, relaunch, resume | nothing lost over kills and restarts, no upload on a suspect pipe |
| Sequential drivers (`rocketride/rr_batch.py`, `results/lg_batch.py`) | pipe, checkpoint file, current record | send, retry on a fresh pipe, record, resume | as above, one record per document |
| Stepped and burst drivers (`pdf200/*_stepped.py`, `pdf1k/*_burst.py`) | semaphore, tasks, record file | warm-up, start, reply, timeout, summary, disconnect | the closed loop is full and in order, one record per document, no summary over a failed run |
| Run scripts and validators (`pdf200/run_level200.sh`, `pdf1k/run_rep.sh`, `validate200.py`, `validate_rep.py`) | watchdog age, verdict, baseline of hashes | poll, kill, validate | healthy runs are left alone, "valid" means proven completion |
| Gate and smoke drivers (`gate50/rr_native_gate.py`, `aws_run/box/*_smoke_driver.py`) | tasks, records in memory or in the file, fixture | warm-up, send, judge, one batch for a backlog, write at the end | a document is ok only with its own content; a repetition resolves; a file cut off by a death is the beginning of the real one |
| Campaign scripts and reports (`aws_run/box/*.sh`, `blast_report.py`, `smoke*_report.py`, `gate50/check_gate50.py`) | directories of record files, in the container and on the host | clear, run, copy, repeat, judge | PASS means proven; what is judged was written by this campaign |
| Engine probe (`rocketride/run_probe.py`) | engine process, connection, pipelines, four captures | boot, capture, terminate, gates, tear down | nothing left running; no gate passes on missing output, even when writing the report fails |
| Metrics m0 to m7, stability, checkers (`metrics/`, `results/compare_summarize.py`, `pdf500/census.py`, `pdf1k/freeze_timeouts.py`) | none | pure functions of record files, sampler streams and repetitions | they compute what their docs say, ties, gaps and missing records included |
| Document splitter (`workload/document/split.py`) | none | offsets of chunks | offsets increase and point at the chunk |
| Lines of code, provenance, self-check, settings, chains, plots | none | | not modelled, see section 6 |
| RocketRide engine and SDK, LangGraph runtime, Tika, docker | | external | appear as nondeterministic replies, delays and failures |

How they interact: the drivers call the service over HTTP or the engine over a
WebSocket (messages, with timeouts); the drivers and the scripts share only the
record file (its lines, its time of last write) and signals; reports read the
files of several repetitions, which survive in the container between campaigns; drivers of one arm
follow each other over the same checkpoint file; requests in the service share
the event loop, the executor and, from its threads, the embedding model. The hard
behaviours are the interleavings of tasks in the event loops, timeouts racing
late replies and stall detection, kills and restarts between (and within) two
writes, exceptions in the middle of a batch, and everything that hangs.
`PROJECT.json` lists the hazards at their lines.

## 2. Modules

| Module | Models | Kind |
|---|---|---|
| `RecordLedger` | what every driver promises about its file: each offered document gets one outcome, nothing is taken back, the file is closed only when all have one | abstract specification |
| `RRShot` | `rr_shot.py`; refines `RecordLedger` | driver |
| `ServiceContract` | what the service promises to the sender of a request: one answer, for good, of those the request calls for; refusals before it is taken on, never after | abstract specification |
| `LangGraphService` | `service/`, `pipelines/`; refines `ServiceContract` | service |
| `ModelLoader` | `load_model` | concurrent algorithm |
| `RecordFile` | the checkpoint file: append, kill within an append, reading back | shared by the next two |
| `BulkDriver` | `rr_bulk.py`; refines `RecordLedger` over all its processes | driver |
| `SequentialBatch` | `rr_batch.py` and `lg_batch.py` | driver |
| `LevelRun` | the four stepped and burst drivers composed with the watchdog script and the validator; refines `RecordLedger` | composition |
| `RunMetrics` | `metrics/`: gate (m0), window, throughput, latency, concurrency (m1, m2), faults (m4, m5), resource slice (m7), stability; the checkers that repeat them | pure operators |
| `TextSplit` | `split_document` | pure operators |
| `Measures` | every input of the two modules above, and what their docs say of the results | inputs and properties |
| `RepCampaign` | three gate and smoke drivers, five campaign scripts, their reports; judges with the operators of `RunMetrics` | composition |
| `EngineProbe` | `run_probe.py` and the engine it boots | driver |
| `*Proofs` | theorems, section 5 | |
| `MC*` | small instances for TLC | |

### How state and actions correspond to the code

**RRShot.** `task[d]` is the state of the coroutine `Shot.one` for document `d`;
`log` is `per_doc.jsonl` (outcome lines, wedge lines, the summary), `written` the
set of the same name, `pc` the place of `Shot.run`. One poll of the loop in
`attempt` is `Tick` followed by `DeclareWedge` or `KeepPolling`; clocks count
polls. What happens between two awaits of one coroutine is one action, since the
event loop does not switch there. A reply that is ready when the wedge cancels
A reply that is ready when the wedge cancels
the tasks may be handled before or instead of the cancellation. `BeginAttempt` and `PoolFails` are
how the pool comes out, at the start and in the relaunch after a wedge; its `connect()` and
`use()` have no time-out, and nothing says that either action comes.

**LangGraphService.** Every request is at a place of `process()`. Each `await`
(a chunk of the upload, a node on the executor) is a point where other requests
run. `queue` and `running` are the work queue and threads of the default
executor. The upload is counted in units; `Chunk` units are read at a time and
`MaxUpload` is no multiple of it, so that the limit falls inside a chunk.
A startup after a shutdown happens on the same `app` object, as in the code: the
registry starts empty in each life and the ready flag is reset. `ServiceContract` sees
of all this only whether a request is sent, taken on or answered; `AllowedAnswers` says
what it calls for, and an upload that fails on the disk is among that only for a request
that nothing refuses. The temp file has two owners, one after the other: `persist_upload` until it
returns, which removes the file in `CopyChunk` when the copy fails, then the `finally` of the
handler, in `Answer`. Both swallow an `OSError` of the removal (`app.py:217-220`,
`upload.py:50-53`); with a faulty disk the file is then `stranded`, for good.

**ModelLoader.** One action per read, write or lock operation of `load_model`,
since executor threads switch anywhere. Construction may raise under the lock.

**RecordFile, BulkDriver, SequentialBatch.** A line is a document, its `ok` and
whether it parses. A process killed within a write leaves a last line without a
newline; the next line is glued to it. `todo` is the set of positions of the corpus
still to do, taken in ascending order. `BulkDriver` follows `main()`: batches,
the handler that runs a failed batch individually, `run_doc_individually` with its
relaunches, `pipe` telling a fresh from a suspect one; it is killed between
writes. `AtLaunch` says where `main()` is in `terminate`, `disconnect`, `connect` or `use`, none of
which has a time-out. `SequentialBatch` is killed within writes too, and chooses its driver in
`Init`.

**LevelRun.** `arm` says which driver runs. A task is queued at the semaphore,
sent, over (recorded) or dead (its `read_bytes`, outside the `try`, failed).
`gather` raising is phase `failing`: the other tasks go on until the clean-up is
through. `Wedge` is the SDK that blocks the event loop of a RocketRide driver
(`results/OVERNIGHT_STATUS.md:69-76`): no task runs and no timeout fires until `Recover`, which
need not come; `stuck` remembers it. `age` is what the watchdog sees of the file: the time since its
last write (`run_level200.sh`) or the polls without a new line (`run_rep.sh`); time is
counted in polls, of 30 s or of what a slow `docker exec` takes. `there` says that the file exists:
the LangGraph drivers create it before they ask for the server, `rr_burst` when its pipe is up,
and `run_level200.sh` dies of its unset `AGE` when it polls before that (`died`). Between the
decision to kill and the kill stands `docker logs` (`watch = "killing"`), in which the driver goes on.
`left` is the file of an earlier run, with records of the corpus or of other documents
(`Strangers`), which the validators count all the same. A reply is one of seven kinds; `Accepted`
says which of them each driver records as ok and `Valid` which the validators let pass.

**RunMetrics, TextSplit, Measures.** One operator per function or per idea in it; a file is a
sequence of records, a field that may be missing is `Absent` or `NoHashes`. A check
of the gate is a Boolean, its `PASS`. Times are naturals and quotients are kept as
numerator and denominator, so nothing is rounded except where the code rounds:
`FrozenTimeouts` are the values that `round(p99 * 5, 1)` may come to, two of them at a tie. `GateRaises` is the record without a
`submit_ns` on which `check_gate50.py:87` ends with a `KeyError`. Sums, the sweep of the concurrency and
the cursors of the splitter are recursive functions; `sorted()` and `str.find()` are what they
return. The splitter of the library is external: pieces are any that start one after the
other, under which the two fallbacks of `split.py:50-53` never apply. A state of
`Measures` is one input (two record files, a timed file, a sampler stream, values of a
metric, or a text with the places where it is cut), grown by one element in a step up to
lengths that are constants; its properties do not use the operators' own code but say what the
docs say of the result. `GateProves`, `GateAdmits`, `CensusesAgree`, `ArmsAgree` and
`SliceFits` say it of operators' arguments instead of a state.

**RepCampaign.** `campaign` fixes driver and script. `out` and `host` are the record
files where the driver writes them and where the report reads them, each marked as
old (an earlier campaign's), new, or torn (it ends within a line, and `load_records` raises on it).
`task` and `records` belong to the repetition under way: in the smoke drivers records live in memory
until all documents are answered; then `Open` empties the file, `WriteLine` adds one line, and
`Close` ends the writing. The native driver appends them in `Keep`. `Batch` is the one `send_files`
call of a backlog and answers any sequence of items. `Die` is every way to end without a summary,
from the warm-up to the taking down of the pipe; in the middle of the writing it leaves the lines
so far, perhaps with one that is cut. `Collect` is the copy out of the container, which may fail
unnoticed in `rr_run.sh` (`|| true`). `Second` is the repetition that `blast_report.py:104` takes
for the second: its list is sorted by name, so from ten repetitions on it is `rep10`.
`served` is what the engine really answered in this repetition, which no driver sees.

**EngineProbe.** `own` is the process that `Engine` starts, `foreign` says that some
other engine holds the port; `live` are the pipelines that exist. An exception is
`raised` and travels through the `finally` blocks in their order. `Report` computes the gates and
writes the artefacts, and a write that raises may leave a report behind or none.

## 3. Runs

Passing runs, with the properties that matter:

| Run | Instance | Shows |
|---|---|---|
| `shot` | 3 documents, one unreadable, one whose raw reply cannot be saved; timeout 3 polls, stall window 2 | `CensusExact`: no two records of a document, and one of each before the summary; `NoResubmission`; `WedgeIsRealStall`, `WedgeProtocol`; refines the ledger; ends, or hangs in a pool, the only wait that nobody times out |
| `service` | 2 requests of every kind, 1 executor thread, every configuration, restarts, disk faults on write and on removal | `TempFileLifetime`, `ExecutorSound`, `ReadyMeansWarm`; refines `ServiceContract` (`ContractSpec`), so that every answer is one the request calls for; every request is answered and every startup ends |
| `loader` | 3 threads, 2 calls each | one model for all; every call returns or raises |
| `bulk` | 3 documents in batches of 2, two whose recording may raise, launches may fail, 3 processes | `NoSendOnSuspectPipe`, `ResumeExact`, refinement of the ledger, termination unless a launch hangs |
| `seq` | 4 documents, both drivers, 3 processes, torn writes | `AtMostOneRecord`, `LossBounded`, `SendOnFreshPipe`, `OkHasRaw` |
| `level` | 3 documents, 4 drivers, level 2, timeout 1 poll, stale after 2, an unreadable file, an event loop that blocks, an earlier run's empty file or its records of `d2` and of a document outside the corpus | `ClosedLoop`, `ValidMeansProven`, `WatchdogHonest`, refinement of the ledger; every run comes to a verdict unless a docker command of the script hangs or the script dies at its first poll |
| `measures` | record files of up to 3 records over 2 documents and a stranger, with every field that a check reads; timed files of 3 records over 3 instants; streams of 4 samples; 5 repetitions; texts of 5 characters with any overlapping pieces | `GateSound`, `ComparisonsAgree`, `WindowExact`, `ConcurrencyExact`, `WedgesSeen`, `SliceTight`, `PointValue`, `OffsetsIncrease` |
| `gate` | 2 documents (one expected empty), 2 contents, 3 repetitions, answers of up to 2 items, all seven pairs of driver and script, files cut off within a line | `PassMeansProven`, `EvidenceOfThisRun`, `OkIsOwn`, every repetition resolves |
| `probe` | 2 contents, 4 captures, an engine that may exit at any moment, a port that may be taken, artefacts that cannot be written | `TornDown`, `GatesHonest` |

Runs that end in a violation; each is a statement of the repository that the code
does not keep, quoted in `PROJECT.json` under `findings`:

| Run | Statement | What happens |
|---|---|---|
| `bulk_duplicates` | exactly one record per document | an exception after part of a batch is recorded makes the fallback record it again |
| `seq_torn` | resumable, "last write wins (resume-safe)" | after a torn write and a restart the merge raises, or a document is missing |
| `level_baseline` | hashes are compared with the first *valid* repetition | the baseline is written by the first one validated, valid or not |

Other places where the models follow the code and a doc says something else, seen
while modelling and not given a run of their own:

* `rr_shot.py:4-5` counts the persisted raw reply as part of completion; `ok` is set
  before the reply is written, and a write that fails leaves `ok` with the reason
  `transport_error` (`Resume`; the same in `rr_native_gate.py:133`, `Unsaved`).
* `rr_shot.py:15-16` says that offered equals records; a relaunch that fails after a
  wedge ends the process before the finalize loop (`PoolFails`).
* `langgraph-fastapi/README.md:74` says that errors are stable; a temp directory that
  cannot be written gives the framework's plain 500 (`Enter`, `CopyChunk`, `AllowedAnswers`).
* `m4_m5_faults.py:18-19` says that the failures of a wedge are counted fully. They are, unless
  the wedge outlasts the attribution window: then the rest is in no radius, and only the time to
  the next success tells (`WedgesSeen` says exactly that). Records without a completion time are in
  no radius either.
* `m0_correctness.py:3-5` and `smoke10.sh:6-7` say that a pending check fails closed;
  `smoke_report.py:49` drops the determinism check when there is one pass and says PASS. The model
  has this verdict under a name of its own, "PASS, gate incomplete", and `PassMeansProven` does
  not vouch for it.
* `blast_report.py:108` leaves a repetition without a record file out of the verdict.
  `PassMeansProven` holds of those that left one, at least those that the campaign completed.
* `blast_report.py:104` sorts the repetitions by name, so that from ten on "rep1 vs rep2" is
  rep1 against rep10 (`Second`). The run has three; the case of ten is covered by the theorems.
* `freeze_timeouts.py:32-33` rounds five times the p99 to a tenth of a second: the frozen
  time-out may be up to 0.05 s below the formula in the file's head (`WindowExact`).
* `validate200.py` and `validate_rep.py` count records and compare no names: an old record of
  another document makes up for one that is missing (`ValidMeansProven` says when).
* `blast_report.py:31-33` says that the driver's uncounted document excludes warm-up; the
  LangGraph driver has none, and the answer to the RocketRide warm-up documents is
  not looked at (`WarmUp`).

`WatchdogHonest` deserves a remark. As long as the event loop turns, a driver with documents in
flight is killed only when the time before its first document (its start-up writes nothing, and may
take eight slots of 120 s each) or the age of an old record file, added to the document
timeout, makes the watchdog's ten minutes. With a timeout above that, as in the
RocketRide calibration of `overnight_chain.sh` (900 s), this is always so and the
property excludes nothing. Once the SDK has blocked the loop, as it did in the night of
`OVERNIGHT_STATUS.md`, no timeout fires and the property promises nothing: the watchdog is then
what ends the run, and it kills documents in flight. `killed` does not mean that the driver was
not through: it goes on while the logs are saved.

`ValidMeansProven` spells out what "valid" stands for in each arm, and
they differ: an empty extraction of a document without ground truth counts for
LangGraph and not for the stepped RocketRide driver; the burst drivers record
digest and identity checks that no gate reads. Every document has its one record, except where
an earlier run has left, in the same file, as many records of documents outside the corpus.

### Bounds, and why they are enough

* Documents: three (four for the sequential drivers, where two can be hurt by one
  torn write and the others must not be). Tasks interact only through the pool,
  the semaphore, the stall clock and the file, pairwise; the third document is
  the bystander. A batch size of two leaves a full and a partial batch.
* Clocks: in `shot` the timeout (3) is above the stall window (2), so that a stall
  can be seen before the timeouts fire, and timeouts can be due when it is seen.
  `WedgeIsRealStall` and `WatchdogHonest` count polls. `LevelRun` takes the timeout (1)
  below the watchdog's limit (2), so that a kill needs a poll before the first document, or a
  blocked loop.
* `MaxLives = 3` processes: a kill, a resume, a kill of the resumed one, a last run.
  `MaxCalls = 2` calls per thread: one before and one after the model exists.
* Two requests on one thread make every pair of places of `process()` meet and
  the executor queue grow; the service has no state shared by three.
* Record files of three records hold a loss made up by a duplicate, a stranger, and a
  later record that overwrites an earlier one; every predicate of the gate is about one
  record, a pair, or a count. Three timed records over three instants contain intervals that
  overlap, follow each other, touch, tie and are empty, with a third document at the edge of
  the window; more instants, and files of any length, are left to the theorems (section 5).
* Two documents in `RepCampaign` are enough to confuse one with the other; three
  repetitions are the two that are compared and one that is not; that rep10 overtakes rep2
  from ten on is beyond the run, and in the theorems. Answers of two
  items can be complete, swapped, doubled, short or empty.
* `EngineProbe` has its four captures; nothing else in it is bounded.
* Leftovers in `level`: one record of the corpus, which makes a second one of that document, and
  one of a stranger, which makes up for a missing one.
* The uploads are 0, the limit and one unit above it, with a chunk of 2 and a limit of 3.

`CHECK_DEADLOCK FALSE` stands where the program really stops: a process that is
done or stopped for good, a run with its verdict, a service with all its requests
answered, threads with no calls left.

## 4. Fairness

* `RRShot`: weak fairness of `DriverStep`. The event loop runs what is
  ready, every send has a timeout, and the poll loop sleeps a finite time.
  The engine is not assumed to answer anything, and the pool not to come up: `connect()` and
  `use()` have no time-out, so `ShotEnds` grants a shot that stays in its pool for ever.
* `LangGraphService`: weak fairness of each handler's steps (the event loop is
  fair, `extract`, `chunk` and `embed` return or raise), of the executor taking
  queued work, and of a startup under way. None for requests, shutdowns or restarts.
* `ModelLoader`: each thread inside `load_model` goes on. A thread waiting for
  the lock may lose it to others for as long as they have calls left.
* `BulkDriver`: a process that is not killed goes on, except at a launch (`AtLaunch`), where
  `terminate`, `disconnect`, `connect` and `use` are awaited without a time-out. `RunEnds` grants a
  run that hangs in one launch for ever, and none that goes from one to the next. Restarts need
  not come.
* `RepCampaign`: weak fairness of the driver between its warm-up and its last line, where
  every wait has a time-out (`TIMEOUT_S`, `BATCH_TIMEOUT_S`, 120 s for the fixture).
  `connect`, `use`, `terminate` and `disconnect` have none, and neither repetitions
  nor reports need come.
* `EngineProbe` and `SequentialBatch` state no fairness: only safety is checked.
* `LevelRun`: ready tasks run, due timeouts fire while the event loop turns, and a script that
  only sleeps and looks at a file on the host goes on. Launches, warm-ups, disconnects and a
  blocked loop may hang for ever; so may the docker commands of the script itself (`AtDocker`): the
  poll of `run_rep.sh:61` is a `docker exec` without a timeout, and so are the saving of the logs, the kill
  and the copy. `LevelEnds` grants these and the death of `run_level200.sh` at its first poll, and
  nothing else: whatever the driver does, a script that is not held up comes to a verdict.

## 5. Proofs

Checked by TLAPS, for every value of the constants that the named assumptions allow: any
number of documents, requests, threads, processes and repetitions, files and texts of any
length. Every safety invariant, every action property and every refinement that the passing
runs check is proved, the metrics' for all inputs; of the liveness properties, the half
that needs no fairness. Each invariant and each rank was checked by TLC on a run's instance before it
was proved.

Each safety proof has one shape: `Init => IInv`, `IInv /\ [Next]_vars => IInv'` with one lemma
per action or group of actions, and `IInv => Property`.

| Module | Theorems |
|---|---|
| `RRShotProofs` | `ShotInvariant`, `ShotTypes`, `ShotCensus`, `ShotNoResubmission`, `ShotWedges`, `ShotRealStall`, `ShotProtocol`, `ShotImplementsLedger`, `ShotSteps` |
| `ModelLoaderProofs` | `LoaderInvariant`, `LoaderOneModel`, `LoaderModelStays`, `LoaderSteps` |
| `LangGraphServiceProofs` | `ServiceInvariant`, `ServiceTempFiles`, `ServiceExecutor`, `ServiceReady`, `ServiceAnswers`, `ServiceImplementsContract`, `ServiceKept`, `ServiceSteps` |
| `SequentialBatchProofs` | `SequentialInvariant`, `SequentialRecords`, `SequentialLoss`, `SequentialPipe`, `SequentialRaw`, `SequentialSteps` |
| `BulkDriverProofs` | `BulkInvariant`, `BulkPipe`, `BulkResume`, `BulkImplementsLedger`, `BulkSteps` |
| `LevelRunProofs` | `LevelInvariant`, `LevelClosedLoop`, `LevelValid`, `LevelWatchdog`, `LevelImplementsLedger`, `LevelCensus`, `LevelSteps` |
| `MetricsProofs` | of `RepCampaign`: `CampaignInvariant`, `CampaignOwn`, `CampaignEvidence`, `CampaignPass`, `CampaignSteps`; of `RunMetrics`: `GatePassProves`, `GateAdmitsPerfect`, `CensusesAgreeAlways`, `ArmsAgreeAlways`, `SliceFitsAlways`; of `Measures`: `MeasuresGate`, `MeasuresComparisons`, `MeasuresSlice`, `MeasuresWedges`, `MeasuresOffsets`, `MeasuresPointValue`, `MeasuresWindow`, `MeasuresConcurrency` |
| `EngineProbeProofs` | `ProbeInvariant`, `ProbeTornDown`, `ProbeGates`, `ProbeSteps` |

What the inductive invariants add, and why the properties do not stand alone:

* `RRShot`. `CensusExact` says nothing of the tasks that may still write. `LogInv`
  (`written` is exactly the set of documents with a line, and no two lines are of one
  document), `TaskInv` (a task that may still write is of a document not written) and
  `PhaseInv` (who is in which state in which phase of `run`) do. The stall properties rest on
  clocks besides: `ClockInv` ties `quiet` to the last line of the attempt, `EventInv` says
  which wedge events stand in the file at each phase; `ShotWedges` is their invariant.
* `ModelLoader`. A thread between acquire and release owns the lock, only the owner is
  there, and a thread about to construct has seen no model.
* `LangGraphService`. A file on disk without a handler in flight is one whose removal was
  refused. `LifespanInv` is what the server has registered and warmed,
  `ExecutorInv` who is on a thread or in the queue (as sets, and the queue without
  repetitions, from which the counts of `ExecutorSound` follow), `HandlerInv` what a handler
  has found out of its request by the time it stands where it does: `AnswerContract` needs it,
  since the answer is a function of the request alone and the checks are spread over steps.
* `SequentialBatch`. `LossInv` is the heart: only the first write of a process can meet a
  torn line, it loses that line and its own, and every line that is glued garbles the file for
  good. `RawInv` carries the outcome of the current document from the reply to the line.
* `BulkDriver`. `OrderInv` (batches behind are recorded, batches ahead are not) and `BatchInv`
  (within a batch, who has a line and who may get a second one) bound the records of a
  document by two, and say that nothing is lost, over any number of kills.
* `LevelRun`. `OwnInv` separates the lines of this run from those it found; `TimeInv` bounds
  the age of the file by the wait of every document in flight as long as the loop has not been
  blocked, which is what makes the action property `WatchdogHonest` follow; `VerdictInv` holds that
  what was judged is final. `LevelValid` is an argument of counting on top: the documents with
  a record and the records of strangers are together as many as the corpus, so as many documents
  are missing as there are strangers, and every stranger's record is an old one.
* `RepCampaign`. `FileInv` says of each repetition what its file is, in the container and on
  the host, by how its driver ended: complete, the first lines of the corpus, or, of the native
  driver, the documents done. `VerdictInv` holds that the report's premises still stand.
* `EngineProbe`. `EngineInv` follows the pipelines and the two engines, `CaptureInv` ties the
  number of captures to the place in `main()`, and an exit code 0 or a report to its gates.

The step simulations of the ledger (`ShotImplementsLedger`, `BulkImplementsLedger`,
`LevelImplementsLedger`) go through the file: what one append does to the lines of each
document is a step of the ledger, everything else a stutter. `BulkDriver` counts the first line
of each document, over all its processes. `LevelCensus` proves the ledger's own invariant
`Census` along the refinement, so the ledger promises it to whoever implements it.

`ServiceImplementsContract` goes by action too: an answer given in `Enter` is a refusal of the
contract, one given later a conclusion, the step into the upload a `Take`, the rest a stutter.
That the answer is one the request calls for comes from `AnswerContract` after the step, and that
no refusal comes late from the order of the checks (`EntryError` before the first await,
`InputError` after the copy), whatever the lifespan does meanwhile. `ServiceKept` is the
contract's own invariant, inherited.

The theorems about `RunMetrics` quantify over any two record files (sequences over any set
of records with the fields the gate reads), any manifest and any stream of samples. They rest on
`CountedOnce`, that a file has as many documents as records exactly when none has two, and
on the greatest index of a finite set for the dictionaries in which the last record wins.
`SliceFitsAlways` assumes that samples come in the order of time and that no more CPU time
passes than the processors have (`Sampled`), which `Measures` keeps of its streams.

The theorems about `Measures` are stated of every state, hence of every input: `InputOK` is
their inductive invariant (records well-formed, samples in order, pieces in the order of their
starts). The library's induction theorems are of no use here, since they take an operator; what
is used instead is that a non-empty set of naturals has a least member (`LeastOf`), applied to
the set of lengths at which a fixed statement fails. From there:

* Sorting. A finite set in which an order is total is listed by giving each member the number of
  members before it as its place; so what `sorted()` returns exists, is unique, and keeps what a
  window counts. A quantile of a sequence that climbs covers its share, since the places below it
  do.
* The sweep of the concurrency. After any number of events its count is the submissions less the
  completions among them, and the area so far is the number of pairs of a document and an
  instant at which it is in flight; at equal times completions come first, which is why the
  peak is attained at an instant and not between two.
* Stability. The squared distances from the mean are `n` times the sum of squares less the square
  of the sum; two of them are at most all of them, which bounds the distance of two values.
* The splitter. The cursor is never behind the piece before it and never beyond the true place of
  the next one, so `find` succeeds and the fallbacks stay unused.
* Faults. A failure that no success precedes after the fault completes before the first success;
  when that is within the window, so is the failure, and `Collateral` has it.
* The frozen time-out. The p99 is at least all latencies but a hundredth, and rounding takes
  off half a tenth of a second at most; `Tick` is a tenth in units of time.

The `...Steps` theorems are the ranks: a natural number, bounded by the constants (by the file of
the request in the service), that every step lowers. Retries, fallbacks, relaunches,
wedges and clean-ups are in it, so they say that none of them can go round for ever, with no
assumption on scheduling and whatever the other side answers; `Restart`, which only an operator
takes, is excepted where there is one, and so is the service's lifespan, which brings no request
further. In `ModelLoader` and the service each thread or request has a rank of its own that no other
one raises, and `NobodyStuck` says that there is no wait without an end in sight: the lock is free
or its holder can move, and a call of a node has a free thread or a busy one ahead of it. What is left of
liveness is that a step is possible until the end and that it is taken: the first is ENABLED,
the second fairness.

Assumptions, all named and evaluated by TLC in every run: the documents of `RRShot` are a finite
set and its stall window is two polls or more (`ShotAssumption`); elsewhere the corpus is a
sequence of the documents without repetitions (`BatchAssumption`, `BulkAssumption`,
`LevelAssumption`, `CampaignAssumption`); sets of faulty documents are sets of documents; clocks,
levels, batch sizes and numbers of processes are positive; the summary line is of no document, and
beyond the corpus the records of an earlier run are of a finite set of any other documents
(`LevelAssumption`); a tenth of a second is a positive number of units of time (`TickAssumption`);
requests have the fields of a form and pipelines are named by strings (`InputsAssumption`,
`ServerAssumption`); at least one content has chunks and a blast campaign has two repetitions or
more (`CampaignAssumption`); records have the fields that `load_records` gives them, a manifest is
finite and figures are naturals (`MeasuresAssumption`).

Only model-checked:

* Liveness (`ShotEnds`, `EveryRequestAnswered`, `EveryLoadEnds`, `RunEnds`, `LevelEnds`,
  `RepResolves`): fairness and ENABLED are out of the prover's reach; the `...Steps`
  theorems are as far as it goes.
* The three statements of the repository that the code does not keep (section 3): a
  counterexample is found, there is nothing to prove.

## 6. Not modelled

Of what is modelled: wording and contents of records beyond what a property reads,
printing, fsync cadence, wall times, `/health` and `/meta`, header bytes, the pool of
clients of the smoke drivers, the parity vector. The `docker exec` mirror of the
record file in `run_level200.sh` is taken to follow it without delay. The reconnect
announced in the head of `rr_burst.py` does not exist in the code.

Components without a module, and why:

* Service settings (`service/config.py`): parsing of the environment. `executor_workers`,
  `max_inflight_requests` and `request_timeout_seconds` are read by nothing.
* `metrics/m6_loc.py`, `provenance.py`, `selfcheck.py`: walks over files and checks that
  fields are present, without state or order.
* The experiment chains (`overnight_chain.sh`, `chain200.sh`, ...): they start the runs
  of `LevelRun` one after the other; their own control is a sequence.
* `make_report.py` and the plots: formatting.
* The library's text splitter, extraction, encoding, Tika, the RocketRide engine and its
  SDK, the LangGraph runtime: external, present as nondeterministic replies.

## 7. Plan

Done: `RecordLedger`, `RRShot`, `LangGraphService`, `ModelLoader`, `RecordFile` and
`BulkDriver`, `SequentialBatch`, `LevelRun`, `RunMetrics` and `TextSplit`, `RepCampaign`,
`EngineProbe`, `ServiceContract`, `Measures`; proofs of every invariant, action property and
refinement that the passing runs check, and of the ranks behind the liveness properties.

To come: when the code changes, the `map` of `PROJECT.json` says which definitions to look at,
and the theorems that quote a line (`split.py:40-41`, `m1_m2_perf.py:11-13`, ...) which promise.

Not planned: `ModelLoader` inside the embedding node of the service. The service model
keeps what matters to it, whether the model is loaded when a node runs
(`ReadyMeansWarm`), and the product of the two would only multiply their states.
