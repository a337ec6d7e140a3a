----------------------------- MODULE RunMetrics ------------------------------
(***************************************************************************)
(* What the programs under metrics/, and the reports that use or repeat    *)
(* them, compute from the record file of a finished run: the correctness   *)
(* gate (m0), the measured window with throughput, latency and achieved    *)
(* concurrency (m1, m2), blast radius and fault isolation (m4, m5), the    *)
(* slice of the resource sampler (m7) and stability over repetitions.      *)
(*                                                                         *)
(* A file is a sequence of records without its event and summary lines     *)
(* (load_records).  A check of the gate is TRUE when its PASS is; times    *)
(* are naturals.  A field that a record lacks is Absent, or NoHashes.      *)
(***************************************************************************)
EXTENDS Integers, Sequences, FiniteSets, SequencesExt, FiniteSetsExt

Absent == -1
NoHashes == <<"None">>

(* The records of a file stand for themselves as indices. *)
OkRecords(rows) == {k \in DOMAIN rows : rows[k].ok}

DocsOf(rows) == {rows[k].doc : k \in DOMAIN rows}

(* Those with a record that is ok. *)
OkDocs(rows) == {rows[k].doc : k \in {j \in DOMAIN rows : rows[j].ok}}

-----------------------------------------------------------------------------
(* The correctness gate, on records with the fields doc, ok, reason,       *)
(* flags (every field of REQUIRED_TRUE is True), chunks, dim, norms (as    *)
(* they should be or not) and hashes.                                      *)

(* EMPTY_FAIL_REASONS, for a document of expected_empty. *)
Excused(r, empty) == r.reason = "no_documents" /\ r.doc \in empty

Duplicates(rows) ==
  {d \in DocsOf(rows) : Cardinality({k \in DOMAIN rows : rows[k].doc = d}) > 1}

(* Bug: unexpected failures pass. *)
CensusBug(rows, offered, expected, empty) ==
  /\ Len(rows) = offered
  /\ Duplicates(rows) = {}
  /\ DocsOf(rows) \subseteq expected /\ expected \subseteq DocsOf(rows)

Census(rows, offered, expected, empty) ==
  /\ Len(rows) = offered
  /\ Duplicates(rows) = {}
  /\ \A k \in DOMAIN rows : rows[k].ok \/ Excused(rows[k], empty)
  /\ expected \subseteq DocsOf(rows)
  /\ DocsOf(rows) \subseteq expected

Malformed(r, empty) ==
  \/ ~r.flags
  \/ r.chunks = 0 /\ r.doc \notin empty
  \/ r.chunks # 0 /\ \/ r.chunks < 1 \/ ~r.dim \/ ~r.norms
                     \/ r.hashes = NoHashes \/ Len(r.hashes) # r.chunks

Structure(rows, empty) ==
  \A k \in DOMAIN rows : rows[k].ok => ~Malformed(rows[k], empty)

(* A dictionary by document: the last record that is ok wins. *)
LastOk(rows) ==
  [d \in OkDocs(rows) |->
     rows[Max({k \in DOMAIN rows : rows[k].doc = d /\ rows[k].ok})]]

Determinism(rowsA, rowsB) ==
  LET a == LastOk(rowsA)  b == LastOk(rowsB)
  IN /\ DOMAIN a = DOMAIN b /\ DOMAIN a # {}
     /\ \A d \in DOMAIN a : a[d].hashes # NoHashes /\ a[d].hashes = b[d].hashes

(* gate() of check_gate50.py and arm_report() of smoke2_report.py: without *)
(* a second pass the determinism check is None, and the gate fails closed. *)
Gate(rowsA, rowsB, offered, expected, empty) ==
  /\ Census(rowsA, offered, expected, empty)
  /\ Structure(rowsA, empty)
  /\ rowsB # <<>> /\ Determinism(rowsA, rowsB)

(* The older census of pdf500/census.py: records counted against the       *)
(* offer, and unique. *)
ShotCensus(rows, offered) ==
  /\ Len(rows) = offered
  /\ Cardinality(DocsOf(rows)) = Len(rows)

-----------------------------------------------------------------------------
(* Comparisons of the two arms.                                            *)

(* cross_arm() of smoke2_report.py. *)
ByteParity(rowsA, rowsB) ==
  LET a == LastOk(rowsA)  b == LastOk(rowsB)
  IN /\ DOMAIN a \cap DOMAIN b # {}
     /\ \A d \in DOMAIN a \cap DOMAIN b :
          a[d].hashes # NoHashes /\ a[d].hashes = b[d].hashes

(* load() of compare_summarize.py: the last record wins, ok or not. *)
LastRecord(rows) ==
  [d \in DocsOf(rows) |-> rows[Max({k \in DOMAIN rows : rows[k].doc = d})]]

BothOk(rowsA, rowsB) ==
  LET a == LastRecord(rowsA)  b == LastRecord(rowsB)
  IN {d \in DOMAIN a \cap DOMAIN b : a[d].ok /\ b[d].ok}

(* Bug: an arm without a record of the document is passed over. *)
FailuresBug(rowsA, rowsB) ==
  LET arm == <<LastRecord(rowsA), LastRecord(rowsB)>>
  IN {f \in {1, 2} \X (DocsOf(rowsA) \cup DocsOf(rowsB)) :
        f[2] \in DOMAIN arm[f[1]] /\ ~arm[f[1]][f[2]].ok}

Failures(rowsA, rowsB) ==
  LET arm == <<LastRecord(rowsA), LastRecord(rowsB)>>
  IN {f \in {1, 2} \X (DocsOf(rowsA) \cup DocsOf(rowsB)) :
        f[2] \in DOMAIN arm[f[1]] => ~arm[f[1]][f[2]].ok}

-----------------------------------------------------------------------------
(* The measured window, on records with the fields ok, submit and          *)
(* completion.  Sequences and sets of indices stand for those of records.  *)

Done(rows) == {k \in DOMAIN rows : rows[k].completion # Absent}

(* sorted(): the members of S in the order that the pairs of before say.   *)
Sorted(S, before) ==
  LET place == [k \in S |-> 1 + Cardinality({j \in S : <<j, k>> \in before})]
  IN [i \in 1..Cardinality(S) |-> CHOOSE k \in S : place[k] = i]

(* sorted() by a key is stable. *)
ByKey(S, key) ==
  Sorted(S, {p \in S \X S :
               \/ key[p[1]] < key[p[2]]
               \/ key[p[1]] = key[p[2]] /\ p[1] < p[2]})

(* The keys themselves, in ascending order. *)
Ascending(S, key) ==
  LET s == ByKey(S, key) IN [i \in DOMAIN s |-> key[s[i]]]

ByCompletion(rows, S) ==
  ByKey(S \cap Done(rows), [k \in Done(rows) |-> rows[k].completion])

FirstSubmit(rows) ==
  Min({rows[k].submit : k \in DOMAIN rows} \ {Absent})

(* Bug: the completions that tie with the last warm-up one are counted. *)
PerfWindowBug(rows, warm) ==
  LET done == ByCompletion(rows, DOMAIN rows)
      t0 == IF warm = 0 THEN FirstSubmit(rows)
            ELSE rows[done[warm]].completion
  IN [docs |-> {k \in Done(rows) : warm > 0 => rows[k].completion >= t0},
      t0   |-> t0,
      t1   |-> rows[done[Len(done)]].completion]

(* Defined when more than warm records completed.                          *)
PerfWindow(rows, warm) ==
  LET done == ByCompletion(rows, DOMAIN rows)
      t0 == IF warm = 0 THEN FirstSubmit(rows)
            ELSE rows[done[warm]].completion
  IN [docs |-> {k \in Done(rows) : warm > 0 => rows[k].completion > t0},
      t0   |-> t0,
      t1   |-> rows[done[Len(done)]].completion]

(* The numerator of docs_per_s, and the span it is divided by. *)
Throughput(rows, warm) ==
  LET w == PerfWindow(rows, warm)
  IN [docs |-> Cardinality({k \in w.docs : rows[k].ok}), span |-> w.t1 - w.t0]

Latency(r) == r.completion - r.submit

Latencies(rows, S) ==
  Ascending(S, [k \in Done(rows) |-> Latency(rows[k])])

(* The latencies of the ok records in the window. *)
OkLatencies(rows, warm) ==
  Latencies(rows, PerfWindow(rows, warm).docs \cap OkRecords(rows))

(* lats[min(int(len * p), len - 1)], lats not empty. *)
Quantile(lats, percent) ==
  lats[Min({(Len(lats) * percent) \div 100, Len(lats) - 1}) + 1]

(* window_metrics() of check_gate50.py takes submit_ns of every record, and *)
(* a record that was never submitted has none: a KeyError. *)
GateRaises(rows) == \E k \in DOMAIN rows : rows[k].submit = Absent

(* Otherwise it repeats these, for warm > 0; its time to the first result  *)
(* is that of the first completion, ok or not. *)
GateWindow(rows, warm) ==
  LET done == ByCompletion(rows, DOMAIN rows)
      t == rows[done[warm]].completion
  IN [docs |-> {k \in Done(rows) : rows[k].completion > t},
      span |-> rows[done[Len(done)]].completion - t,
      ttfr |-> rows[done[1]].completion - FirstSubmit(rows)]

(* round(x, 1), when tick instants are a tenth of a second.  A tie may go  *)
(* either way: halves of a tenth are no exact floats. *)
Rounded(x, tick) ==
  {t \in {tick * (x \div tick), tick * (x \div tick + 1)} :
     2 * (x - t) <= tick /\ 2 * (t - x) <= tick}

(* freeze_timeouts.py: five times the 99th percentile of the latencies of  *)
(* a calibration, failures included, rounded, and at least least (60       *)
(* seconds).  The values that it may come to. *)
FrozenTimeouts(rows, least, tick) ==
  LET lats == Latencies(rows, Done(rows))
  IN IF lats = <<>> THEN {least}
     ELSE {Max({least, t}) :
             t \in Rounded(5 * lats[(Len(lats) * 99) \div 100 + 1], tick)}

(* Time to first result. *)
Ttfr(rows) ==
  rows[ByCompletion(rows, OkRecords(rows))[1]].completion - FirstSubmit(rows)

(* A document is submitted and completes: it enters the number in flight,  *)
(* and leaves it.                                                          *)
EventTime(rows, e) ==
  IF e.delta = 1 THEN rows[e.doc].submit ELSE rows[e.doc].completion

(* Bug: at the same instant the submissions come first. *)
EarlierBug(rows, e, f) ==
  \/ EventTime(rows, e) < EventTime(rows, f)
  \/ EventTime(rows, e) = EventTime(rows, f)
       /\ (e.delta > f.delta \/ (e.delta = f.delta /\ e.doc < f.doc))

(* Tuples are sorted by time, then by delta: completions come first. *)
Earlier(rows, e, f) ==
  \/ EventTime(rows, e) < EventTime(rows, f)
  \/ EventTime(rows, e) = EventTime(rows, f)
       /\ (e.delta < f.delta \/ (e.delta = f.delta /\ e.doc < f.doc))

Events(rows, docs) ==
  LET E == [doc : docs, delta : {-1, 1}]
  IN Sorted(E, {p \in E \X E : Earlier(rows, p[1], p[2])})

(* The sweep after each event: the number in flight, its peak, and the     *)
(* area under it, of which the time-weighted mean is the quotient by the   *)
(* time from the first event to the last. *)
Sweep(rows, events) ==
  LET At(i) == EventTime(rows, events[i])
      sweep[i \in 0..Len(events)] ==
        IF i = 0 THEN [cur |-> 0, peak |-> 0, area |-> 0, prev |-> At(1)]
        ELSE LET acc == sweep[i - 1]  cur == acc.cur + events[i].delta
             IN [cur  |-> cur,
                 peak |-> Max({acc.peak, cur}),
                 area |-> acc.area + acc.cur * (At(i) - acc.prev),
                 prev |-> At(i)]
  IN sweep

AchievedConcurrency(rows, warm) ==
  LET events == Events(rows, PerfWindow(rows, warm).docs)
  IN Sweep(rows, events)[Len(events)]

-----------------------------------------------------------------------------
(* Faults, on the same records with the field doc.                         *)

Unrelated(rows, faults) == {k \in DOMAIN rows : rows[k].doc \notin faults}

(* The outcome of a fault is its first completion. *)
Outcomes(rows, fault) == {k \in Done(rows) : rows[k].doc = fault}

FaultTime(rows, fault) ==
  Min({rows[k].completion : k \in Outcomes(rows, fault)})

(* Bug: a failure at the same instant is not attributed. *)
CollateralBug(rows, faults, fault, window) ==
  {k \in Unrelated(rows, faults) \cap Done(rows) :
     /\ Outcomes(rows, fault) # {} /\ ~rows[k].ok
     /\ rows[k].completion - FaultTime(rows, fault) \in 1..window}

(* The unrelated failures within the window of a fault that has a record. *)
Collateral(rows, faults, fault, window) ==
  {k \in Unrelated(rows, faults) \cap Done(rows) :
     /\ Outcomes(rows, fault) # {} /\ ~rows[k].ok
     /\ rows[k].completion - FaultTime(rows, fault) \in 0..window}

(* total_collateral counts a failure once for each fault it falls to. *)
ZeroBlast(rows, faults, window) ==
  Cardinality({p \in faults \X DOMAIN rows :
                 p[2] \in Collateral(rows, faults, p[1], window)}) = 0

(* The unrelated successes after the fault.  What is reported as the time  *)
(* to the next success is that of the first, None when there is none. *)
Successes(rows, faults, fault) ==
  {k \in Unrelated(rows, faults) \cap Done(rows) :
     rows[k].ok /\ rows[k].completion > FaultTime(rows, fault)}

-----------------------------------------------------------------------------
(* The resource sampler: lines [ts, cpu] in the order of time, cpu the     *)
(* cumulative seconds; times on one clock (mono_offset_ns).                *)

(* Bug: the slice starts from the first sample of the stream. *)
SliceBug(lines, t0, t1) ==
  LET inside == {k \in DOMAIN lines : t0 < lines[k].ts /\ lines[k].ts <= t1}
  IN IF Len(lines) < 3 \/ inside = {} \/ Max(inside) = 1 THEN <<>>
     ELSE <<lines[1], lines[Max(inside)]>>

(* window(): the last sample at or before t0, else the first inside, and   *)
(* the last inside; <<>> when there is nothing between them. *)
Slice(lines, t0, t1) ==
  LET before == {k \in DOMAIN lines : lines[k].ts <= t0}
      inside == {k \in DOMAIN lines : t0 < lines[k].ts /\ lines[k].ts <= t1}
      anchor == IF before # {} THEN Max(before) ELSE Min(inside)
  IN IF Len(lines) < 3 \/ inside = {} \/ anchor = Max(inside) THEN <<>>
     ELSE <<lines[anchor], lines[Max(inside)]>>

(* container_resources(): the whole stream. *)
WholeStream(lines) ==
  IF Len(lines) < 3 THEN <<>> ELSE <<lines[1], lines[Len(lines)]>>

CpuSeconds(slice) == slice[2].cpu - slice[1].cpu

(* cpu_utilization_valid of efficiency(). *)
UtilizationValid(slice, wall, cpus) == CpuSeconds(slice) <= wall * cpus

-----------------------------------------------------------------------------
(* Stability over repetitions.                                             *)

CvStable == 10       (* percent *)
MinReps == 3

(* A repetition that lacks the metric contributes nothing. *)
Values(reps) == {k \in DOMAIN reps : reps[k] # Absent}

SumOf(f, n) ==
  LET sum[i \in 0..n] == IF i = 0 THEN 0 ELSE sum[i - 1] + f[i]
  IN sum[n]

Total(reps) ==
  SumOf([k \in DOMAIN reps |-> IF k \in Values(reps) THEN reps[k] ELSE 0],
        Len(reps))

Squares(reps) ==
  SumOf([k \in DOMAIN reps |-> IF k \in Values(reps) THEN reps[k] * reps[k] ELSE 0],
        Len(reps))

(* Bug: the repetitions are counted, not those that have the metric. *)
StableBug(reps) ==
  LET n == Cardinality(Values(reps))  sum == Total(reps)
  IN /\ Len(reps) >= MinReps /\ n > 0
     /\ sum # 0
     /\ 10000 * n * (n * Squares(reps) - sum * sum)
          <= CvStable * CvStable * (n - 1) * sum * sum

(* stdev / mean <= CV_STABLE, squared and multiplied out. *)
Stable(reps) ==
  LET n == Cardinality(Values(reps))  sum == Total(reps)
  IN /\ n >= MinReps
     /\ sum # 0
     /\ 10000 * n * (n * Squares(reps) - sum * sum)
          <= CvStable * CvStable * (n - 1) * sum * sum

-----------------------------------------------------------------------------
(* What the results mean: for any files, manifest and stream of samples.   *)

(* The only record of its document, and the last that is ok. *)
OnlyRecord(rows, k) ==
  \A j \in DOMAIN rows : rows[j].doc = rows[k].doc => j = k

LastOkRecord(rows, k) ==
  /\ rows[k].ok
  /\ \A j \in DOMAIN rows : rows[j].doc = rows[k].doc /\ rows[j].ok => j <= k

(* The record proves its document, or says why there is nothing to prove. *)
ProvenTwice(r, rowsB, empty) ==
  \/ /\ r.ok /\ r.flags
     /\ \E k \in DOMAIN rowsB : /\ LastOkRecord(rowsB, k)
                                /\ rowsB[k].doc = r.doc
                                /\ rowsB[k].hashes = r.hashes
     /\ r.doc \in empty \/ (Len(r.hashes) = r.chunks /\ r.chunks > 0)
  \/ ~r.ok /\ r.reason = "no_documents" /\ r.doc \in empty \ OkDocs(rowsB)

GateProves(rowsA, rowsB, expected, empty) ==
  Gate(rowsA, rowsB, Cardinality(expected), expected, empty) =>
    /\ DocsOf(rowsA) = expected /\ OkDocs(rowsB) = OkDocs(rowsA)
    /\ \A d \in expected : \E k \in DOMAIN rowsA :
         /\ rowsA[k].doc = d /\ OnlyRecord(rowsA, k)
         /\ ProvenTwice(rowsA[k], rowsB, empty)

Perfect(r) ==
  /\ r.ok /\ r.flags /\ r.chunks > 0 /\ r.dim /\ r.norms
  /\ r.hashes # NoHashes /\ Len(r.hashes) = r.chunks

GateAdmits(rows, expected, empty) ==
  /\ expected # {} /\ DocsOf(rows) = expected
  /\ Len(rows) = Cardinality(expected)
  /\ \A k \in DOMAIN rows : Perfect(rows[k])
  => Gate(rows, rows, Cardinality(expected), expected, empty)

CensusesAgree(rows, expected, empty) ==
  LET n == Cardinality(expected)
  IN /\ Census(rows, n, expected, empty) => ShotCensus(rows, n)
     /\ ShotCensus(rows, n) /\ DocsOf(rows) \subseteq expected
          /\ OkDocs(rows) = DocsOf(rows)
          => Census(rows, n, expected, empty)

ArmsAgree(rowsA, rowsB) ==
  LET failed == {f[2] : f \in Failures(rowsA, rowsB)}
  IN /\ Determinism(rowsA, rowsB)
          <=> ByteParity(rowsA, rowsB) /\ OkDocs(rowsA) = OkDocs(rowsB)
     /\ BothOk(rowsA, rowsB) \cup failed = DocsOf(rowsA) \cup DocsOf(rowsB)
     /\ BothOk(rowsA, rowsB) \cap failed = {}
     /\ /\ Determinism(rowsA, rowsB)
        /\ \A rows \in {rowsA, rowsB} : \A k \in DOMAIN rows : rows[k].ok
        => failed = {}

(* Samples in the order of time, of at most cpus processors. *)
Sampled(lines, cpus) ==
  \A j, k \in DOMAIN lines : j < k =>
    /\ lines[j].ts < lines[k].ts
    /\ lines[k].cpu - lines[j].cpu \in 0..(cpus * (lines[k].ts - lines[j].ts))

SliceFits(lines, t0, t1, cpus) ==
  LET s == Slice(lines, t0, t1)
  IN t0 < t1 /\ s # <<>> =>
       /\ s[1].ts < s[2].ts /\ s[2].ts <= t1
       /\ \A k \in DOMAIN lines : lines[k].ts <= t0 => lines[k].ts <= s[1].ts
       /\ CpuSeconds(s) <= CpuSeconds(WholeStream(lines))
       /\ ~UtilizationValid(s, t1 - t0, cpus) => s[1].ts < t0
=============================================================================
