------------------------------ MODULE Measures -------------------------------
(***************************************************************************)
(* What RunMetrics and TextSplit compute, on every input.  The state is    *)
(* one input, appended to step by step: the record files of two passes (or *)
(* two arms), a timed file, the lines of a sampler, the values of a metric *)
(* in successive repetitions, or a text and the places where a splitter    *)
(* has cut it.  A property compares what the programs compute with what    *)
(* their docs say the result means.  The lengths are bounded, but the      *)
(* bounds are constants: what holds for all of their values holds for      *)
(* every input.                                                            *)
(***************************************************************************)
EXTENDS RunMetrics, TextSplit

CONSTANTS
  Expected,      (* the documents of the manifest                          *)
  Empty,         (* expected_empty                                         *)
  FirstRecords,  (* the records that a first pass may have                 *)
  SecondRecords, (* those that a second pass may have                      *)
  TimedDocs,     (* the documents of a timed file                          *)
  Faults,        (* the documents of the fault manifest                    *)
  Horizon,       (* the last instant                                       *)
  Window,        (* the attribution window of a fault                      *)
  MaxWarm,       (* the greatest warm-up                                   *)
  LeastTimeout,  (* the least time-out that is frozen                      *)
  Tick,          (* the instants of a tenth of a second                    *)
  MaxGap,        (* instants between two samples, at most                  *)
  Cpus,          (* what the CPU seconds rise by in an instant, at most    *)
  Figures,       (* the values of a metric                                 *)
  Letters,       (* the characters of a text                               *)
  MaxRecords,    (* bound on the records of a file                         *)
  MaxBoth,       (* bound on those of both passes                          *)
  MaxSamples,    (* bound on the lines of a sampler                        *)
  MaxReps,       (* bound on the repetitions                               *)
  MaxText        (* bound on the characters of a text                      *)

(* Records as load_records() returns them: flags are flags, and what is    *)
(* counted has a number.                                                   *)
Loaded(S) ==
  \A r \in S : /\ r.ok \in BOOLEAN /\ r.flags \in BOOLEAN
               /\ r.chunks \in Nat /\ Len(r.hashes) \in Nat

ASSUME MeasuresAssumption ==
  /\ IsFiniteSet(Expected) /\ IsFiniteSet(Faults)
  /\ Loaded(FirstRecords) /\ Loaded(SecondRecords)
  /\ Horizon \in Nat /\ Window \in Nat /\ MaxWarm \in Nat
  /\ LeastTimeout \in Nat /\ MaxGap \in Nat /\ Cpus \in Nat
  /\ Figures \subseteq Nat
  /\ \A n \in {MaxRecords, MaxBoth, MaxSamples, MaxReps, MaxText} : n \in Nat

ASSUME TickAssumption == Tick \in Nat \ {0}

VARIABLES
  passA, passB,  (* the record files of two passes, or of two arms         *)
  timed,         (* a file with the times of its records                   *)
  samples,       (* the stream of the resource sampler                     *)
  figures,       (* a metric in the repetitions of a run                   *)
  text, cuts     (* a text, and the <<first, last>> characters of pieces   *)

input == <<passA, passB, timed, samples, figures, text, cuts>>

NoInput ==
  /\ passA = <<>> /\ passB = <<>> /\ timed = <<>> /\ samples = <<>>
  /\ figures = <<>> /\ text = <<>> /\ cuts = <<>>

(* No other input has been begun. *)
Only(rest) == \A other \in rest : other = <<>>

GrowFirst ==
  /\ Len(passA) < MaxRecords /\ Only({passB, timed, samples, figures, text})
  /\ \E r \in FirstRecords : passA' = Append(passA, r)
  /\ UNCHANGED <<passB, timed, samples, figures, text, cuts>>

GrowSecond ==
  /\ passA # <<>> /\ Len(passB) < MaxRecords
  /\ Len(passA) + Len(passB) < MaxBoth
  /\ \E r \in SecondRecords : passB' = Append(passB, r)
  /\ UNCHANGED <<passA, timed, samples, figures, text, cuts>>

(* Records of a cancelled document have no times. *)
TimedRecords ==
  {r \in [doc : TimedDocs, ok : BOOLEAN, submit : 0..Horizon, completion : 0..Horizon] :
     r.submit <= r.completion}
  \cup [doc : TimedDocs, ok : {FALSE}, submit : {Absent}, completion : {Absent}]

GrowTimed ==
  /\ Len(timed) < MaxRecords /\ Only({passA, samples, figures, text})
  /\ \E r \in TimedRecords : timed' = Append(timed, r)
  /\ UNCHANGED <<passA, passB, samples, figures, text, cuts>>

(* The line of a sampler that follows the last one.                        *)
NextSample(gap, rise) ==
  IF samples = <<>> THEN [ts |-> gap, cpu |-> rise]
  ELSE [ts  |-> samples[Len(samples)].ts + gap,
        cpu |-> samples[Len(samples)].cpu + rise]

GrowSamples ==
  /\ Len(samples) < MaxSamples /\ Only({passA, timed, figures, text})
  /\ \E gap \in 1..MaxGap : \E rise \in 0..(Cpus * gap) :
       samples' = Append(samples, NextSample(gap, rise))
  /\ UNCHANGED <<passA, passB, timed, figures, text, cuts>>

GrowFigures ==
  /\ Len(figures) < MaxReps /\ Only({passA, timed, samples, text})
  /\ \E v \in Figures \cup {Absent} : figures' = Append(figures, v)
  /\ UNCHANGED <<passA, passB, timed, samples, text, cuts>>

GrowText ==
  /\ Len(text) < MaxText /\ cuts = <<>>
  /\ Only({passA, timed, samples, figures})
  /\ \E c \in Letters : text' = Append(text, c)
  /\ UNCHANGED <<passA, passB, timed, samples, figures, cuts>>

(* Pieces overlap, but each starts after the start of the one before.      *)
GrowCuts ==
  /\ \E from, to \in 1..Len(text) :
       /\ from <= to /\ (cuts # <<>> => cuts[Len(cuts)][1] < from)
       /\ cuts' = Append(cuts, <<from, to>>)
  /\ UNCHANGED <<passA, passB, timed, samples, figures, text>>

Grow ==
  \/ GrowFirst \/ GrowSecond \/ GrowTimed \/ GrowSamples \/ GrowFigures
  \/ GrowText \/ GrowCuts

Inputs == NoInput /\ [][Grow]_input

-----------------------------------------------------------------------------

SampleSet == [ts : Nat, cpu : Nat]

(* The inputs that the programs read: records that are well-formed, lines  *)
(* of a sampler in the order of time, pieces of the text in the order of   *)
(* their starts.                                                           *)
InputOK ==
  /\ passA \in Seq(FirstRecords) /\ passB \in Seq(SecondRecords)
  /\ timed \in Seq(TimedRecords) /\ figures \in Seq(Figures \cup {Absent})
  /\ samples \in Seq(SampleSet) /\ Sampled(samples, Cpus)
  /\ text \in Seq(Letters) /\ cuts \in Seq((1..Len(text)) \X (1..Len(text)))
  /\ \A i \in DOMAIN cuts : cuts[i][1] <= cuts[i][2]
  /\ \A i, j \in DOMAIN cuts : i < j => cuts[i][1] < cuts[j][1]

(* "every check FAILS CLOSED ... absence of evidence is absence of         *)
(* correctness" (m0_correctness.py:3-5): two passes that satisfy the gate  *)
(* prove every document of the manifest.  The first has exactly one record *)
(* of it; either that is well-formed and ok, with the ordered hashes of    *)
(* the last ok record of the second pass, or the document is one of        *)
(* expected_empty, found empty, and the second pass has not completed it.  *)
(* And a pair of passes that is perfect is not refused.                    *)
GateSound ==
  /\ GateProves(passA, passB, Expected, Empty)
  /\ passA = passB => GateAdmits(passA, Expected, Empty)

(* The checks that several programs make of the same two files agree with  *)
(* each other.  What m0 passes, the older census of pdf500/census.py       *)
(* reconciles; what that one reconciles, m0 passes unless a document is    *)
(* missing or failed.  Determinism is byte parity over the same documents. *)
(* In the summary of compare_summarize.py, every document that has a       *)
(* record in either arm is ok in both or listed as a failure, never both   *)
(* nor neither; determinism of two clean passes leaves no failure at all.  *)
ComparisonsAgree ==
  CensusesAgree(passA, Expected, Empty) /\ ArmsAgree(passA, passB)

(* The warm-ups that leave something to measure. *)
Warmups == {w \in 0..MaxWarm : w < Cardinality(Done(timed))}

(* The documents that completed well, by the end of the window. *)
Counted(t1) == {k \in Done(timed) : timed[k].ok /\ timed[k].completion <= t1}

(* At least p percent of the latencies are at most the quantile p. *)
QuantileCovers(lats, p) ==
  100 * Cardinality({i \in DOMAIN lats : lats[i] <= Quantile(lats, p)})
    >= p * Len(lats)

(* "the first N completions are excluded from measurement; the window      *)
(* spans from the Nth completion to the last" (m1_m2_perf.py:11-13): the   *)
(* documents divided by the span are those completed within that very      *)
(* span, none of the first N among them, even when completions tie; with   *)
(* no warm-up the span covers every attempt.  At least p percent of the    *)
(* ok documents were as fast as the quantile p, and the first result came  *)
(* within the span. *)
WindowOf(warm) ==
  LET w == PerfWindow(timed, warm)
  IN /\ Throughput(timed, warm) =
          [docs |-> Cardinality({k \in Counted(w.t1) :
                                   warm > 0 => timed[k].completion > w.t0}),
           span |-> w.t1 - w.t0]
     /\ \A i \in 1..warm : ByCompletion(timed, DOMAIN timed)[i] \notin w.docs
     /\ warm = 0 => \A k \in Done(timed) : w.t0 <= timed[k].submit
     /\ warm = 0 /\ Counted(w.t1) # {} => Ttfr(timed) \in 0..(w.t1 - w.t0)
     /\ OkLatencies(timed, warm) # <<>> =>
          \A p \in {50, 90, 95, 99} : QuantileCovers(OkLatencies(timed, warm), p)

(* check_gate50.py, which repeats the computation, measures the same where *)
(* it does not raise, but its first result may be a failure and come       *)
(* sooner. *)
GateWindowOf(warm) ==
  LET w == PerfWindow(timed, warm)  g == GateWindow(timed, warm)
  IN /\ g.docs = w.docs /\ g.span = w.t1 - w.t0
     /\ (\A k \in DOMAIN timed : timed[k].ok) => g.ttfr = Ttfr(timed)
     /\ Counted(w.t1) # {} => g.ttfr <= Ttfr(timed)

(* The measured window is what the docs say, for any warm-up, and the gate *)
(* measures the same one, or raises over a record that was never           *)
(* submitted.  "max(60 s, calibration p99 x 5)" (freeze_timeouts.py:3)     *)
(* with its rounding: after a calibration of up to a hundred documents,    *)
(* which its p99 covers to the last, the frozen time-out is short of five  *)
(* times the slowest by half a tenth of a second at most. *)
WindowExact ==
  /\ Cardinality(Done(timed)) <= 100 =>
       \A k \in Done(timed) : \A t \in FrozenTimeouts(timed, LeastTimeout, Tick) :
         2 * t + Tick >= 10 * Latency(timed[k])
  /\ \A warm \in Warmups :
       /\ WindowOf(warm)
       /\ warm > 0 /\ ~GateRaises(timed) => GateWindowOf(warm)

(* The documents in flight at an instant. *)
Underway(docs, t) ==
  {k \in docs : timed[k].submit <= t /\ t < timed[k].completion}

(* "asking for C=8 does not prove eight requests were ever simultaneously  *)
(* in flight" (m1_m2_perf.py:70-71): the peak is the greatest number of    *)
(* window documents in flight at one instant, a document that completes    *)
(* when the next is submitted not overlapping it; the area under the sweep *)
(* has every instant that a document was in flight; and at the end nothing *)
(* is in flight.                                                           *)
ConcurrencyExact ==
  \A warm \in Warmups :
    LET docs == PerfWindow(timed, warm).docs
        c == AchievedConcurrency(timed, warm)
    IN docs # {} =>
         /\ c.peak = Max({Cardinality(Underway(docs, t)) : t \in 0..Horizon})
         /\ c.area = Cardinality({p \in docs \X (0..Horizon) :
                                    p[1] \in Underway(docs, p[2])})
         /\ c.cur = 0

(* The failures that follow a fault in the order of completion, up to the  *)
(* next success of an unrelated document: what a wedge looks like.         *)
FailureRun(fault) ==
  LET done == ByCompletion(timed, DOMAIN timed)
      first == Min({i \in DOMAIN done : timed[done[i]].doc = fault})
      Unbroken(i) == \A j \in (first + 1)..i :
                       timed[done[j]].doc \in Faults \/ ~timed[done[j]].ok
  IN {done[i] : i \in {j \in (first + 1)..Len(done) : Unbroken(j)}}
       \cap Unrelated(timed, Faults)

(* "wedges show up as long unbroken failure runs and are counted fully"    *)
(* (m4_m5_faults.py:18-19).  The collateral of a fault is cut off at the   *)
(* window, so that is so only of a wedge that is over by then: either the  *)
(* whole run that follows the fault is in its collateral, or the time to   *)
(* the next success, reported beside it, is more than the window or None.  *)
(* And a verdict of zero blast leaves no run unseen: after every fault the *)
(* next to complete is a success, or that time shows it. *)
WedgesSeen ==
  LET Late(fault) ==
        \A k \in Successes(timed, Faults, fault) :
          timed[k].completion > FaultTime(timed, fault) + Window
  IN \A fault \in Faults : Outcomes(timed, fault) # {} =>
       \/ Late(fault)
       \/ /\ FailureRun(fault) \subseteq Collateral(timed, Faults, fault, Window)
          /\ ZeroBlast(timed, Faults, Window) => FailureRun(fault) = {}

(* "above that means cost was attributed outside the window"               *)
(* (m7_resources.py:110-113): whatever the throughput window, the slice    *)
(* does not reach past its end, nor more than one sampling interval before *)
(* its start, and a utilisation above 1.0 is flagged only when it does     *)
(* start before. *)
SliceTight ==
  \A t0, t1 \in 0..(MaxSamples * MaxGap) : SliceFits(samples, t0, t1, Cpus)

(* "a rep that failed to produce a metric must not silently become a zero" *)
(* (stability.py:62-63), and a stable metric "may be quoted as a point     *)
(* value": at least three repetitions have it, and the distance d between  *)
(* any two of them is below CV_STABLE * sqrt(2 (n - 1)) of their mean.     *)
PointValue ==
  Stable(figures) =>
    LET vals == Values(figures)  n == Cardinality(vals)
    IN /\ n >= MinReps
       /\ \A i, j \in vals :
            LET d == figures[i] - figures[j]
            IN 100 * n * n * d * d <= 2 * (n - 1) * Total(figures) * Total(figures)

(* "located in order so repeated chunk text still yields monotonically     *)
(* increasing offsets" (split.py:40-41), which two fallbacks could undo    *)
(* (split.py:50-53): for pieces that overlap but start one after another,  *)
(* the offsets increase, each is a place of its piece, never after the     *)
(* true one.                                                               *)
OffsetsIncrease ==
  LET pieces == [i \in DOMAIN cuts |-> SubSeq(text, cuts[i][1], cuts[i][2])]
      starts == Starts(text, pieces)
      Places(i) == {p \in 0..(Len(text) - Len(pieces[i])) :
                      SubSeq(text, p + 1, p + Len(pieces[i])) = pieces[i]}
  IN \A i \in DOMAIN cuts :
       /\ starts[i] \in Places(i) /\ starts[i] <= cuts[i][1] - 1
       /\ \A j \in DOMAIN cuts : j < i => starts[j] < starts[i]
=============================================================================
