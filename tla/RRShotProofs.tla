---------------------------- MODULE RRShotProofs ----------------------------
(***************************************************************************)
(* Proofs about RRShot, for every set of documents, every timeout, every   *)
(* stall window and every set of faults.                                   *)
(***************************************************************************)
EXTENDS RRShot, SequenceTheorems, FiniteSetTheorems, TLAPS

(* What appending a line does to the file. *)
LEMMA AppendLine ==
  ASSUME log \in Seq(Lines), NEW x \in Lines, log' = Append(log, x)
  PROVE  /\ log' \in Seq(Lines)
         /\ Len(log) \in Nat
         /\ Len(log') = Len(log) + 1
         /\ DOMAIN log = 1..Len(log)
         /\ DOMAIN log' = 1..(Len(log) + 1)
         /\ \A i \in DOMAIN log : log'[i] = log[i]
         /\ log'[Len(log) + 1] = x
<1> DEFINE L == Lines
<1>1. /\ log \in Seq(L) /\ x \in L
  OBVIOUS
<1> HIDE DEF L
<1>2. /\ Append(log, x) \in Seq(L)
      /\ Len(Append(log, x)) = Len(log) + 1
      /\ \A i \in 1..Len(log) : Append(log, x)[i] = log[i]
      /\ Append(log, x)[Len(log) + 1] = x
  BY <1>1, AppendProperties
<1>3. /\ Len(log) \in Nat /\ DOMAIN log = 1..Len(log)
      /\ DOMAIN Append(log, x) = 1..Len(Append(log, x))
  BY <1>1, <1>2, LenProperties
<1> QED
  BY <1>2, <1>3 DEF L

(* write(): the new line is d's, the earlier ones stay. *)
LEMMA WriteLine ==
  ASSUME TypeOK, attempt \in 1..2,
         NEW d \in Docs, NEW ok \in BOOLEAN, NEW reason \in Reasons,
         Write(d, ok, reason)
  PROVE  /\ log' \in Seq(Lines)
         /\ Len(log) \in Nat
         /\ Len(log') = Len(log) + 1
         /\ DocLines' = DocLines \cup {Len(log) + 1}
         /\ Len(log) + 1 \notin DocLines
         /\ \A i \in DocLines : log'[i] = log[i]
         /\ log'[Len(log) + 1].doc = d
<1> DEFINE x == DocLine(d, ok, reason)
<1>1. x \in Lines /\ x.kind = "doc" /\ x.doc = d
  BY DEF TypeOK, Lines, DocLine
<1>2. log' = Append(log, x) /\ log \in Seq(Lines)
  BY DEF Write, TypeOK
<1> HIDE DEF x
<1>3. /\ log' \in Seq(Lines)
      /\ Len(log) \in Nat
      /\ Len(log') = Len(log) + 1
      /\ DOMAIN log = 1..Len(log)
      /\ DOMAIN log' = 1..(Len(log) + 1)
      /\ \A i \in DOMAIN log : log'[i] = log[i]
      /\ log'[Len(log) + 1] = x
  BY <1>1, <1>2, AppendLine
<1> QED
  BY <1>1, <1>3 DEF DocLines

(* An event or summary line leaves every document's lines alone. *)
LEMMA EventLine ==
  ASSUME TypeOK, NEW x \in Lines, x.kind # "doc", log' = Append(log, x)
  PROVE  /\ log' \in Seq(Lines)
         /\ Len(log) \in Nat
         /\ Len(log') = Len(log) + 1
         /\ DocLines' = DocLines
         /\ \A i \in DocLines : log'[i] = log[i]
<1>1. log \in Seq(Lines)
  BY DEF TypeOK
<1>2. /\ log' \in Seq(Lines)
      /\ Len(log) \in Nat
      /\ Len(log') = Len(log) + 1
      /\ DOMAIN log = 1..Len(log)
      /\ DOMAIN log' = 1..(Len(log) + 1)
      /\ \A i \in DOMAIN log : log'[i] = log[i]
      /\ log'[Len(log) + 1] = x
  BY <1>1, AppendLine
<1> QED
  BY <1>2 DEF DocLines

(* LogInv survives the line of a document that has none yet. *)
LEMMA WriteKeepsLogInv ==
  ASSUME TypeOK, LogInv, attempt \in 1..2,
         NEW d \in Docs \ written, NEW ok \in BOOLEAN, NEW reason \in Reasons,
         Write(d, ok, reason)
  PROVE  LogInv'
<1> DEFINE n == Len(log) + 1
<1>1. /\ DocLines' = DocLines \cup {n}
      /\ n \notin DocLines
      /\ \A i \in DocLines : log'[i] = log[i]
      /\ log'[n].doc = d
  BY WriteLine
<1>2. written' = written \cup {d}
  BY DEF Write
<1> HIDE DEF n
<1>3. \A i \in DocLines' : log'[i].doc \in written'
  BY <1>1, <1>2 DEF LogInv
<1>4. \A e \in written' : \E i \in DocLines' : log'[i].doc = e
  BY <1>1, <1>2 DEF LogInv
<1>5. \A i, j \in DocLines' : log'[i].doc = log'[j].doc => i = j
  BY <1>1 DEF LogInv
<1> QED
  BY <1>3, <1>4, <1>5 DEF LogInv

(* ... and any step that leaves the documents' lines as they are. *)
LEMMA SameDocLinesKeepLogInv ==
  ASSUME LogInv, DocLines' = DocLines, \A i \in DocLines : log'[i] = log[i],
         written' = written
  PROVE  LogInv'
<1>1. \A i \in DocLines' : log'[i].doc \in written'
  BY DEF LogInv
<1>2. \A d \in written' : \E i \in DocLines' : log'[i].doc = d
  BY DEF LogInv
<1>3. \A i, j \in DocLines' : log'[i].doc = log'[j].doc => i = j
  BY DEF LogInv
<1> QED
  BY <1>1, <1>2, <1>3 DEF LogInv

LEMMA SameFileKeepsLogInv ==
  ASSUME LogInv, log' = log, written' = written
  PROVE  LogInv'
BY DEF LogInv, DocLines

(* The line of a wedge event and of the summary are well formed. *)
LEMMA EventLinesTyped ==
  ASSUME TypeOK
  PROVE  /\ attempt \in 1..2 /\ wedge_events \in 0..1
              => WedgeLine(Cardinality(Pending)) \in Lines
         /\ MetaLine \in Lines
         /\ WedgeLine(Cardinality(Pending)).kind # "doc"
         /\ MetaLine.kind # "doc"
<1>1. IsFiniteSet(Pending)
  BY ShotAssumption, FS_Subset DEF Pending, TypeOK
<1>2. Cardinality(Pending) \in Nat
  BY <1>1, FS_CardinalityType
<1> QED
  BY <1>2 DEF WedgeLine, MetaLine, Lines, TypeOK

(* A document whose line is about to be written has none. *)
LEMMA WriterFacts ==
  ASSUME IInv, NEW d \in Docs, Resume(d) \/ Finalize(d)
  PROVE  /\ d \notin written /\ attempt \in 1..2
         /\ pc \in {"sleep", "check", "gather", "finalize"} /\ pc' = pc
<1>1. CASE Resume(d)
  <2>1. task[d] \in Outcomes /\ pc' = pc
    BY <1>1 DEF Resume
  <2>2. d \in batch \ written /\ pc \in {"sleep", "check", "gather"}
    BY <2>1 DEF IInv, TaskInv
  <2>3. attempt >= 1 /\ attempt \in 0..2
    BY <2>2 DEF IInv, PhaseInv, TypeOK
  <2> QED
    BY <2>1, <2>2, <2>3
<1>2. CASE Finalize(d)
  BY <1>2 DEF IInv, TypeOK, PhaseInv, Finalize, Unproven
<1> QED
  BY <1>1, <1>2

(* The steps that write a document's line. *)
LEMMA WritesPreserve ==
  ASSUME IInv, NEW d \in Docs, Resume(d) \/ Finalize(d)
  PROVE  IInv'
<1>1. d \notin written /\ attempt \in 1..2
  BY WriterFacts
<1>2. PICK ok \in BOOLEAN, reason \in Reasons : Write(d, ok, reason)
  BY DEF Resume, Finalize, Reasons
<1>3. LogInv'
  BY <1>1, <1>2, WriteKeepsLogInv DEF IInv
<1>4. log' \in Seq(Lines) /\ written' = written \cup {d} /\ quiet' = 0
  BY <1>1, <1>2, WriteLine DEF IInv, Write
<1>5. CASE Resume(d)
  <2>1. /\ task' = [task EXCEPT ![d] = "done"]
        /\ UNCHANGED <<pc, attempt, batch, now, wedged, wedge_events>>
    BY <1>5 DEF Resume, IInv, TypeOK
  <2>2. TypeOK'
    BY <2>1, <1>4 DEF IInv, TypeOK, TaskStates, Over
  <2>3. pc \in {"sleep", "check", "gather"}
    BY <1>5 DEF Resume, IInv, TaskInv
  <2>4. TaskInv'
    BY <2>1, <2>3, <1>4 DEF IInv, TypeOK, TaskInv, Outcomes, Replies
  <2>5. PhaseInv'
    BY <2>1 DEF IInv, PhaseInv
  <2> QED
    BY <1>3, <2>2, <2>4, <2>5 DEF IInv
<1>6. CASE Finalize(d)
  <2>1. UNCHANGED <<pc, attempt, batch, task, now, wedged, wedge_events>>
        /\ pc = "finalize"
    BY <1>6 DEF Finalize
  <2>2. TypeOK'
    BY <2>1, <1>4 DEF IInv, TypeOK
  <2>3. TaskInv'
    BY <2>1, <1>4 DEF IInv, TypeOK, TaskInv
  <2>4. PhaseInv'
    BY <2>1 DEF IInv, PhaseInv
  <2> QED
    BY <1>3, <2>2, <2>3, <2>4 DEF IInv
<1> QED
  BY <1>5, <1>6

(* The steps that leave the file alone and only move tasks and clocks. *)
LEMMA TaskStepsPreserve ==
  ASSUME IInv, NEW d \in Docs, Reply(d) \/ Expire(d) \/ Cancelled(d)
  PROVE  IInv'
<1>1. PICK s \in TaskStates :
        /\ task' = [task EXCEPT ![d] = s]
        /\ s \in Outcomes \cup {"cancelled"}
        /\ s \in Outcomes => task[d] = "waiting"
  BY DEF Reply, Expire, Cancelled, TaskStates, Outcomes, Replies, Over
<1>2. UNCHANGED <<pc, attempt, batch, now, quiet, wedged, wedge_events, log,
                  written>>
  BY DEF Reply, Expire, Cancelled
<1>3. TypeOK'
  BY <1>1, <1>2 DEF IInv, TypeOK
<1>4. LogInv'
  BY <1>2, SameFileKeepsLogInv DEF IInv
<1>5. TaskInv'
  BY <1>1, <1>2 DEF IInv, TypeOK, TaskInv, Outcomes, Replies
<1>6. PhaseInv'
  BY <1>2 DEF IInv, PhaseInv
<1> QED
  BY <1>3, <1>4, <1>5, <1>6 DEF IInv

LEMMA BeginPreserves ==
  ASSUME IInv, BeginAttempt
  PROVE  IInv'
<1>1. PICK unread \in SUBSET (batch \cap ReadFaults) :
        task' = [d \in Docs |-> IF d \in unread THEN "died"
                                ELSE IF d \in batch THEN "waiting"
                                ELSE task[d]]
  BY DEF BeginAttempt
<1>2. /\ pc = "pool" /\ pc' = "sleep"
      /\ attempt' = attempt + 1 /\ now' = 0 /\ quiet' = 0 /\ wedged' = FALSE
      /\ UNCHANGED <<batch, wedge_events, log, written>>
  BY DEF BeginAttempt
<1>3. attempt \in 0..1 /\ wedge_events = attempt
  BY <1>2 DEF IInv, PhaseInv, TypeOK
<1>4. TypeOK'
  <2>1. "died" \in TaskStates /\ "waiting" \in TaskStates
    BY DEF TaskStates, Over
  <2>2. task \in [Docs -> TaskStates]
    BY DEF IInv, TypeOK
  <2>3. task' \in [Docs -> TaskStates]
    BY <1>1, <2>1, <2>2
  <2> QED
    <3>1. attempt' \in 0..2 /\ now' \in Nat /\ quiet' \in Nat
      BY <1>2, <1>3
    <3>2. wedged' \in BOOLEAN
      BY <1>2
    <3> QED
      BY <1>2, <2>3, <3>1, <3>2 DEF IInv, TypeOK
<1>5. LogInv'
  BY <1>2, SameFileKeepsLogInv DEF IInv
<1>6. TaskInv'
  BY <1>1, <1>2 DEF IInv, TypeOK, TaskInv, Outcomes, Replies
<1>7. PhaseInv'
  BY <1>2, <1>3 DEF PhaseInv
<1> QED
  BY <1>4, <1>5, <1>6, <1>7 DEF IInv

LEMMA EventsPreserve ==
  ASSUME IInv, DeclareWedge \/ WriteMeta
  PROVE  IInv'
<1>1. CASE DeclareWedge
  <2> DEFINE x == WedgeLine(Cardinality(Pending))
  <2>1. attempt \in 1..2 /\ wedge_events = attempt - 1
    BY <1>1 DEF DeclareWedge, IInv, TypeOK, PhaseInv
  <2>2. x \in Lines /\ x.kind # "doc"
    BY <2>1, EventLinesTyped DEF IInv
  <2>3. /\ log' = Append(log, x)
        /\ pc = "check" /\ pc' = "gather" /\ wedged' = TRUE
        /\ wedge_events' = wedge_events + 1
        /\ UNCHANGED <<attempt, batch, task, now, quiet, written>>
    BY <1>1 DEF DeclareWedge
  <2> HIDE DEF x
  <2>4. /\ log' \in Seq(Lines)
        /\ DocLines' = DocLines /\ \A i \in DocLines : log'[i] = log[i]
    BY <2>2, <2>3, EventLine DEF IInv
  <2>5. LogInv'
    BY <2>3, <2>4, SameDocLinesKeepLogInv DEF IInv
  <2>6. TypeOK'
    BY <2>1, <2>3, <2>4 DEF IInv, TypeOK
  <2>7. TaskInv'
    BY <2>3 DEF IInv, TaskInv
  <2>8. PhaseInv'
    BY <2>1, <2>3 DEF PhaseInv
  <2> QED
    BY <2>5, <2>6, <2>7, <2>8 DEF IInv
<1>2. CASE WriteMeta
  <2> DEFINE x == MetaLine
  <2>1. x \in Lines /\ x.kind # "doc"
    BY EventLinesTyped DEF IInv
  <2>2. /\ log' = Append(log, x)
        /\ pc = "finalize" /\ pc' = "closed" /\ batch \subseteq written
        /\ UNCHANGED <<attempt, batch, task, now, quiet, wedged, wedge_events,
                       written>>
    BY <1>2 DEF WriteMeta, Unproven
  <2> HIDE DEF x
  <2>3. /\ log' \in Seq(Lines)
        /\ DocLines' = DocLines /\ \A i \in DocLines : log'[i] = log[i]
    BY <2>1, <2>2, EventLine DEF IInv
  <2>4. LogInv'
    BY <2>2, <2>3, SameDocLinesKeepLogInv DEF IInv
  <2>5. TypeOK'
    BY <2>2, <2>3 DEF IInv, TypeOK
  <2>6. TaskInv'
    BY <2>2 DEF IInv, TypeOK, TaskInv
  <2>7. PhaseInv'
    BY <2>2 DEF IInv, PhaseInv
  <2> QED
    BY <2>4, <2>5, <2>6, <2>7 DEF IInv
<1> QED
  BY <1>1, <1>2

LEMMA ControlPreserves ==
  ASSUME IInv,
         \/ PoolFails \/ Tick \/ KeepPolling \/ EndAttempt
         \/ \E d \in Docs : FinalizeFails(d)
  PROVE  IInv'
<1>1. UNCHANGED <<attempt, task, wedged, wedge_events, log, written>>
  BY DEF PoolFails, Tick, KeepPolling, EndAttempt, FinalizeFails
<1>2. LogInv'
  BY <1>1, SameFileKeepsLogInv DEF IInv
<1>3. CASE EndAttempt
  <2>1. /\ pc = "gather" /\ batch' = batch \ written
        /\ \A d \in batch : task[d] \in Over
        /\ pc' \in {"pool", "finalize"}
        /\ pc' = "pool" => wedged /\ attempt = 1
        /\ UNCHANGED <<now, quiet>>
    BY <1>3 DEF EndAttempt, Unproven, AllOver
  <2>2. TypeOK'
    BY <1>1, <2>1 DEF IInv, TypeOK
  <2>3. \A d \in Docs : task[d] \notin Outcomes \cup {"waiting"}
    BY <2>1 DEF IInv, TaskInv, Over, Outcomes, Replies
  <2>4. TaskInv'
    BY <1>1, <2>1, <2>3 DEF IInv, TypeOK, TaskInv
  <2>5. PhaseInv'
    BY <1>1, <2>1 DEF IInv, TypeOK, PhaseInv
  <2> QED
    BY <1>2, <2>2, <2>4, <2>5 DEF IInv
<1>4. CASE ~EndAttempt
  <2>1. /\ UNCHANGED batch
        /\ \/ pc = "pool" /\ pc' = "aborted" /\ UNCHANGED <<now, quiet>>
           \/ pc = "finalize" /\ pc' = "aborted" /\ UNCHANGED <<now, quiet>>
           \/ pc = "sleep" /\ pc' = "check" /\ now' = now + 1 /\ quiet' = quiet + 1
           \/ /\ pc = "check" /\ pc' \in {"gather", "sleep"}
              /\ pc' = "gather" => ~wedged
              /\ UNCHANGED <<now, quiet>>
    BY <1>4 DEF PoolFails, Tick, KeepPolling, FinalizeFails, IInv, PhaseInv
  <2>2. TypeOK'
    BY <1>1, <2>1 DEF IInv, TypeOK
  <2>3. TaskInv'
    BY <1>1, <2>1 DEF IInv, TypeOK, TaskInv
  <2>4. PhaseInv'
    BY <1>1, <2>1 DEF IInv, TypeOK, PhaseInv
  <2> QED
    BY <1>2, <2>2, <2>3, <2>4 DEF IInv
<1> QED
  BY <1>3, <1>4

THEOREM InitIInv == Init => IInv
<1> SUFFICES ASSUME Init PROVE IInv
  OBVIOUS
<1>1. DocLines = {}
  BY DEF Init, DocLines
<1>2. TypeOK
  <2>1. log \in Seq(Lines)
    BY EmptySeq DEF Init
  <2>2. task \in [Docs -> TaskStates]
    BY DEF Init, TaskStates
  <2>3. wedged \in BOOLEAN
    BY DEF Init
  <2>4. /\ pc = "pool" /\ attempt = 0 /\ batch = Docs /\ now = 0 /\ quiet = 0
        /\ wedge_events = 0 /\ written = {}
    BY DEF Init
  <2> QED
    BY <2>1, <2>2, <2>3, <2>4 DEF TypeOK
<1>3. LogInv
  BY <1>1 DEF Init, LogInv
<1>4. TaskInv
  BY DEF Init, TaskInv, Outcomes, Replies
<1>5. PhaseInv
  BY DEF Init, PhaseInv
<1> QED
  BY <1>2, <1>3, <1>4, <1>5 DEF IInv

LEMMA StutterPreserves ==
  ASSUME IInv, UNCHANGED vars
  PROVE  IInv'
<1>1. TypeOK'
  BY DEF IInv, TypeOK, vars
<1>2. LogInv'
  BY SameFileKeepsLogInv DEF IInv, vars
<1>3. TaskInv'
  BY DEF IInv, TaskInv, vars
<1>4. PhaseInv'
  BY DEF IInv, PhaseInv, vars
<1> QED
  BY <1>1, <1>2, <1>3, <1>4 DEF IInv

THEOREM NextIInv == IInv /\ [Next]_vars => IInv'
<1> SUFFICES ASSUME IInv, [Next]_vars PROVE IInv'
  OBVIOUS
<1>1. CASE BeginAttempt
  BY <1>1, BeginPreserves
<1>2. CASE DeclareWedge \/ WriteMeta
  BY <1>2, EventsPreserve
<1>3. CASE \/ PoolFails \/ Tick \/ KeepPolling \/ EndAttempt
           \/ \E d \in Docs : FinalizeFails(d)
  BY <1>3, ControlPreserves
<1>4. CASE \E d \in Docs : Resume(d) \/ Finalize(d)
  BY <1>4, WritesPreserve
<1>5. CASE \E d \in Docs : Reply(d) \/ Expire(d) \/ Cancelled(d)
  BY <1>5, TaskStepsPreserve
<1>6. CASE UNCHANGED vars
  BY <1>6, StutterPreserves
<1> QED
  BY <1>1, <1>2, <1>3, <1>4, <1>5, <1>6 DEF Next, DriverStep, Terminated

(* The inductive invariant holds of every shot. *)
THEOREM ShotInvariant == Spec => []IInv
<1> QED
  BY InitIInv, NextIInv, PTL DEF Spec

(* Type correctness; in particular no third attempt and no third wedge.    *)
THEOREM ShotTypes == Spec => []TypeOK
<1>1. IInv => TypeOK
  BY DEF IInv
<1> QED
  BY <1>1, ShotInvariant, PTL

(* rr_shot.py lines 15-16, exactly one record per document across          *)
(* attempts: the assertion of write() can never fail, and a file with its  *)
(* summary line accounts for every document.                               *)
THEOREM ShotCensus == Spec => []CensusExact
<1>1. IInv => CensusExact
  BY DEF IInv, LogInv, TaskInv, CensusExact
<1> QED
  BY <1>1, ShotInvariant, PTL

(* A recorded document is never sent again. *)
THEOREM ShotNoResubmission == Spec => NoResubmission
<1>1. IInv /\ [Next]_vars
        => [\A d \in Docs :
              task[d] # "waiting" /\ task'[d] = "waiting" => d \notin written]_vars
  <2> SUFFICES ASSUME IInv, [Next]_vars, NEW d \in Docs,
                      task[d] # "waiting", task'[d] = "waiting"
               PROVE  d \notin written
    OBVIOUS
  <2>1. task \in [Docs -> TaskStates]
    BY DEF IInv, TypeOK
  <2>2. ~ UNCHANGED task
    OBVIOUS
  <2>3. ~ \E e \in Docs : Reply(e) \/ Expire(e) \/ Cancelled(e)
    <3> SUFFICES ASSUME NEW e \in Docs, Reply(e) \/ Expire(e) \/ Cancelled(e)
                 PROVE  FALSE
      OBVIOUS
    <3>1. PICK s \in Outcomes \cup {"cancelled"} : task' = [task EXCEPT ![e] = s]
      BY DEF Reply, Expire, Cancelled, Outcomes
    <3> QED
      BY <2>1, <3>1 DEF Outcomes, Replies
  <2>4. ~ \E e \in Docs : Resume(e)
    BY <2>1 DEF Resume
  <2>5. BeginAttempt
    BY <2>2, <2>3, <2>4
       DEF Next, DriverStep, Terminated, vars, PoolFails, Tick, DeclareWedge,
           KeepPolling, EndAttempt, WriteMeta, Finalize, FinalizeFails
  <2>6. pc = "pool" /\ d \in batch
    BY <2>5 DEF BeginAttempt
  <2> QED
    BY <2>6 DEF IInv, TaskInv
<1> QED
  BY <1>1, ShotInvariant, PTL DEF Spec, NoResubmission

-----------------------------------------------------------------------------
(* The wedge events                                                        *)

(* A line that is added stands behind the others, which stay. *)
LEMMA GrownFile ==
  ASSUME TypeOK, NEW x \in Lines, log' = Append(log, x)
  PROVE  \E n \in Nat :
           /\ \A i \in DocLines \cup WedgeLines :
                i \in Nat /\ i < n /\ log'[i] = log[i]
           /\ DocLines' = DocLines \cup (IF x.kind = "doc" THEN {n} ELSE {})
           /\ WedgeLines' = WedgeLines
                            \cup (IF x.kind = "wedge_event" THEN {n} ELSE {})
           /\ log'[n] = x
<1> DEFINE n == Len(log) + 1
<1>1. log \in Seq(Lines)
  BY DEF TypeOK
<1>2. /\ Len(log) \in Nat
      /\ DOMAIN log = 1..Len(log)
      /\ DOMAIN log' = 1..n
      /\ \A i \in DOMAIN log : log'[i] = log[i]
      /\ log'[n] = x
  BY <1>1, AppendLine
<1>3. /\ n \in Nat /\ \A i \in DOMAIN log : i \in Nat /\ i < n
      /\ DOMAIN log' = DOMAIN log \cup {n} /\ n \notin DOMAIN log
  BY <1>2
<1> HIDE DEF n
<1>4. DocLines' = DocLines \cup (IF x.kind = "doc" THEN {n} ELSE {})
  BY <1>2, <1>3 DEF DocLines
<1>5. WedgeLines' = WedgeLines \cup (IF x.kind = "wedge_event" THEN {n} ELSE {})
  BY <1>2, <1>3 DEF WedgeLines
<1>6. \A i \in DocLines \cup WedgeLines : i \in Nat /\ i < n /\ log'[i] = log[i]
  BY <1>2, <1>3 DEF DocLines, WedgeLines
<1> QED
  BY <1>2, <1>3, <1>4, <1>5, <1>6

LEMMA LineTypes ==
  ASSUME TypeOK
  PROVE  /\ \A i \in DocLines : log[i].at \in Nat /\ log[i].attempt \in 1..2
         /\ \A w \in WedgeLines : log[w].at \in Nat /\ log[w].attempt \in 1..2
<1>1. \A i \in DOMAIN log : log[i] \in Lines
  BY ElementOfSeq, LenProperties DEF TypeOK
<1> QED
  BY <1>1 DEF Lines, DocLines, WedgeLines

LEMMA SameEvents ==
  ASSUME log' = log
  PROVE  /\ DocLines' = DocLines /\ WedgeLines' = WedgeLines
         /\ \A a : WedgeOf(a)' <=> WedgeOf(a)
         /\ WedgeIsRealStall => WedgeIsRealStall'
         /\ WedgeProtocol => WedgeProtocol'
BY DEF DocLines, WedgeLines, WedgeOf, WedgeIsRealStall, WedgeProtocol

(* A reply, a timeout or a cancellation moves one task of the batch. *)
LEMMA TaskStepsKeepWedges ==
  ASSUME IInv, WedgeIInv, NEW d \in Docs, Reply(d) \/ Expire(d) \/ Cancelled(d)
  PROVE  WedgeIInv'
<1>1. UNCHANGED <<pc, attempt, batch, now, quiet, wedged, wedge_events, log,
                  written>>
  BY DEF Reply, Expire, Cancelled
<1>2. PICK s \in Outcomes \cup {"cancelled"} :
        /\ task' = [task EXCEPT ![d] = s]
        /\ s \in Outcomes => task[d] = "waiting"
        /\ s = "cancelled" => pc = "gather" /\ wedged
  BY DEF Reply, Expire, Cancelled, Outcomes, Replies
<1>3. /\ task \in [Docs -> TaskStates] /\ batch \subseteq Docs
      /\ task[d] = "waiting" => d \in batch
  BY DEF IInv, TypeOK, TaskInv
<1>4. WedgeIsRealStall' /\ WedgeProtocol'
  BY <1>1, SameEvents DEF WedgeIInv
<1>5. pc \in {"sleep", "check"} => ~ AllOver'
  BY <1>1, <1>2, <1>3 DEF AllOver, Over, Outcomes, Replies
<1>6. ClockInv'
  BY <1>1, <1>5, SameEvents DEF WedgeIInv, ClockInv
<1>7. BatchInv'
  BY <1>1, <1>2, <1>3 DEF WedgeIInv, BatchInv, Outcomes, Replies
<1>8. EventInv'
  BY <1>1, SameEvents DEF WedgeIInv, EventInv, Unproven
<1> QED
  BY <1>4, <1>6, <1>7, <1>8 DEF WedgeIInv

(* An attempt begins with clocks of its own: the lines so far are earlier. *)
LEMMA BeginKeepsWedges ==
  ASSUME IInv, WedgeIInv, BeginAttempt
  PROVE  WedgeIInv'
<1>1. PICK unread \in SUBSET (batch \cap ReadFaults) :
        task' = [d \in Docs |-> IF d \in unread THEN "died"
                                ELSE IF d \in batch THEN "waiting"
                                ELSE task[d]]
  BY DEF BeginAttempt
<1>2. /\ pc = "pool" /\ pc' = "sleep"
      /\ attempt' = attempt + 1 /\ now' = 0 /\ quiet' = 0 /\ wedged' = FALSE
      /\ UNCHANGED <<batch, wedge_events, log, written>>
  BY DEF BeginAttempt
<1>3. attempt \in 0..1 /\ batch \subseteq Docs
  BY <1>2 DEF IInv, PhaseInv, TypeOK
<1>4. WedgeIsRealStall' /\ WedgeProtocol'
  BY <1>2, SameEvents DEF WedgeIInv
<1>5. ClockInv'
  <2>1. \A i \in DocLines' : log'[i].attempt <= attempt /\ log'[i].attempt \in 1..2
    BY <1>2, SameEvents, LineTypes DEF WedgeIInv, ClockInv, IInv
  <2> QED
    BY <1>2, <1>3, <2>1 DEF ClockInv
<1>6. BatchInv'
  BY <1>1, <1>2, <1>3 DEF BatchInv
<1>7. EventInv'
  BY <1>2, <1>3, SameEvents DEF WedgeIInv, EventInv
<1> QED
  BY <1>4, <1>5, <1>6, <1>7 DEF WedgeIInv

(* The steps of the poll loop and of run() that write nothing. *)
LEMMA ControlKeepsWedges ==
  ASSUME IInv, WedgeIInv,
         \/ PoolFails \/ Tick \/ KeepPolling \/ EndAttempt
         \/ \E d \in Docs : FinalizeFails(d)
  PROVE  WedgeIInv'
<1>1. UNCHANGED <<attempt, task, wedged, wedge_events, log, written>>
  BY DEF PoolFails, Tick, KeepPolling, EndAttempt, FinalizeFails
<1>2. /\ WedgeIsRealStall' /\ WedgeProtocol'
      /\ DocLines' = DocLines /\ \A a : WedgeOf(a)' <=> WedgeOf(a)
  BY <1>1, SameEvents DEF WedgeIInv
<1>3. CASE Tick
  <2>1. /\ pc = "sleep" /\ pc' = "check" /\ now' = now + 1 /\ quiet' = quiet + 1
        /\ UNCHANGED batch /\ now \in Nat /\ quiet \in Nat
    BY <1>3 DEF Tick, IInv, TypeOK
  <2>2. AllOver' => AllOver
    BY <1>1, <2>1 DEF AllOver
  <2>3. ClockInv'
    <3>1. \A i \in DocLines' :
            /\ log'[i].attempt <= attempt'
            /\ log'[i].attempt = attempt' => log'[i].at + quiet' <= now'
      BY <1>1, <1>2, <2>1, LineTypes DEF WedgeIInv, ClockInv, IInv
    <3>2. quiet' <= now' /\ (AllOver => quiet = 0)
      BY <2>1 DEF WedgeIInv, ClockInv
    <3>3. /\ quiet' <= now'
          /\ AllOver' => (pc' = "sleep" => quiet' = 0)
                         /\ (pc' = "check" => quiet' <= 1)
      BY <2>1, <2>2, <3>2
    <3> QED
      BY <3>1, <3>3 DEF ClockInv
  <2>4. BatchInv'
    BY <1>1, <2>1 DEF WedgeIInv, BatchInv
  <2>5. EventInv'
    BY <1>1, <1>2, <2>1 DEF WedgeIInv, EventInv
  <2> QED
    BY <1>2, <2>3, <2>4, <2>5 DEF WedgeIInv
<1>4. CASE EndAttempt
  <2>1. /\ pc = "gather" /\ AllOver /\ batch' = Unproven
        /\ pc' = IF wedged /\ attempt = 1 /\ Unproven # {}
                   THEN "pool" ELSE "finalize"
        /\ UNCHANGED <<now, quiet>>
    BY <1>4 DEF EndAttempt
  <2>2. Unproven' = Unproven
    BY <1>1, <2>1 DEF Unproven
  <2>3. attempt \in 1..2
    BY <2>1 DEF IInv, TypeOK, PhaseInv
  <2>4. ~(Unproven \subseteq ReadFaults) => wedged
    BY <2>1 DEF Unproven, AllOver, Over, WedgeIInv, BatchInv
  <2>5. wedged => WedgeOf(attempt)
    BY <2>1 DEF WedgeIInv, EventInv
  <2>6. attempt = 2 => WedgeOf(1)
    BY DEF WedgeIInv, EventInv
  <2>7. EventInv'
    <3>1. CASE wedged /\ attempt = 1 /\ Unproven # {}
      BY <1>1, <1>2, <2>1, <2>5, <3>1 DEF EventInv
    <3>2. CASE ~(wedged /\ attempt = 1 /\ Unproven # {})
      <4>1. ~(Unproven \subseteq ReadFaults) => WedgeOf(1) /\ WedgeOf(2)
        BY <2>3, <2>4, <2>5, <2>6, <3>2
      <4> QED
        BY <1>1, <1>2, <2>1, <2>2, <2>6, <3>2, <4>1 DEF EventInv
    <3> QED
      BY <3>1, <3>2
  <2>8. ClockInv' /\ BatchInv'
    BY <1>1, <1>2, <2>1 DEF WedgeIInv, ClockInv, BatchInv
  <2> QED
    BY <1>2, <2>7, <2>8 DEF WedgeIInv
<1>5. CASE KeepPolling
  <2>1. /\ pc = "check" /\ pc' = IF AllOver THEN "gather" ELSE "sleep"
        /\ UNCHANGED <<batch, now, quiet>> /\ ~wedged
    BY <1>5 DEF KeepPolling, IInv, PhaseInv
  <2>2. AllOver' = AllOver
    BY <1>1, <2>1 DEF AllOver
  <2>3. ClockInv' /\ BatchInv'
    BY <1>1, <1>2, <2>1, <2>2 DEF WedgeIInv, ClockInv, BatchInv
  <2>4. EventInv'
    BY <1>1, <1>2, <2>1 DEF WedgeIInv, EventInv
  <2> QED
    BY <1>2, <2>3, <2>4 DEF WedgeIInv
<1>6. CASE PoolFails \/ \E d \in Docs : FinalizeFails(d)
  <2>1. pc' = "aborted" /\ UNCHANGED <<batch, now, quiet>>
    BY <1>6 DEF PoolFails, FinalizeFails
  <2>2. ClockInv' /\ BatchInv' /\ EventInv'
    BY <1>1, <1>2, <2>1 DEF WedgeIInv, ClockInv, BatchInv, EventInv
  <2> QED
    BY <1>2, <2>2 DEF WedgeIInv
<1> QED
  BY <1>3, <1>4, <1>5, <1>6

(* A document's line: it starts the quiet time again, and the wedge events *)
(* it needs are in the file by then.                                       *)
LEMMA WritesKeepWedges ==
  ASSUME IInv, WedgeIInv, NEW d \in Docs, Resume(d) \/ Finalize(d)
  PROVE  WedgeIInv'
<1>1. /\ d \notin written /\ attempt \in 1..2
      /\ pc \in {"sleep", "check", "gather", "finalize"} /\ pc' = pc
  BY WriterFacts
<1>2. PICK ok \in BOOLEAN, reason \in Reasons :
        /\ Write(d, ok, reason)
        /\ reason = "wedge_affected" => Finalize(d)
  BY DEF Resume, Finalize, Reasons
<1> DEFINE x == DocLine(d, ok, reason)
<1>3. /\ x \in Lines /\ x.kind = "doc" /\ x.doc = d /\ x.reason = reason
      /\ x.attempt = attempt /\ x.at = now
  BY <1>1 DEF IInv, TypeOK, Lines, DocLine
<1>4. /\ log' = Append(log, x) /\ written' = written \cup {d} /\ quiet' = 0
      /\ UNCHANGED <<attempt, batch, now, wedged, wedge_events>>
  BY <1>2 DEF Write, Resume, Finalize
<1> HIDE DEF x
<1>5. PICK n \in Nat :
        /\ \A i \in DocLines \cup WedgeLines :
             i \in Nat /\ i < n /\ log'[i] = log[i]
        /\ DocLines' = DocLines \cup (IF x.kind = "doc" THEN {n} ELSE {})
        /\ WedgeLines' = WedgeLines
                         \cup (IF x.kind = "wedge_event" THEN {n} ELSE {})
        /\ log'[n] = x
  BY <1>3, <1>4, GrownFile DEF IInv
<1>6. DocLines' = DocLines \cup {n} /\ WedgeLines' = WedgeLines
  BY <1>3, <1>5
<1>7. \A a : WedgeOf(a) => WedgeOf(a)' /\ \E w \in WedgeLines' : w < n /\ log'[w].attempt = a
  BY <1>5, <1>6 DEF WedgeOf
<1>8. ClockInv'
  <2>1. now \in Nat /\ quiet \in Nat /\ \A i \in DocLines : log[i].at \in Nat
    BY LineTypes DEF IInv, TypeOK
  <2>2. \A i \in DocLines :
          /\ log[i].attempt <= attempt
          /\ log[i].attempt = attempt => log[i].at <= now
    BY <2>1 DEF WedgeIInv, ClockInv
  <2>3. /\ \A i \in DocLines' :
             /\ log'[i].attempt <= attempt
             /\ log'[i].attempt = attempt => log'[i].at <= now /\ log'[i].at \in Nat
    <3>1. log'[n].attempt <= attempt /\ log'[n].at <= now /\ log'[n].at \in Nat
      BY <1>1, <1>3, <1>5, <2>1
    <3> QED
      BY <1>5, <1>6, <2>1, <2>2, <3>1
  <2>4. quiet' = 0 /\ now' = now /\ attempt' = attempt
    BY <1>4
  <2> QED
    BY <2>1, <2>3, <2>4 DEF ClockInv
<1>9. BatchInv'
  <2>1. CASE Resume(d)
    <3>1. task' = [task EXCEPT ![d] = "done"] /\ task \in [Docs -> TaskStates]
      BY <2>1 DEF Resume, IInv, TypeOK
    <3>2. batch \subseteq Docs
      BY DEF IInv, TypeOK
    <3> QED
      BY <1>1, <1>4, <3>1, <3>2 DEF WedgeIInv, BatchInv
  <2>2. CASE Finalize(d)
    BY <2>2 DEF Finalize, BatchInv
  <2> QED
    BY <2>1, <2>2
<1>10. EventInv'
  <2>1. Unproven' \subseteq Unproven
    BY <1>4 DEF Unproven
  <2> QED
    BY <1>1, <1>4, <1>7, <2>1 DEF WedgeIInv, EventInv
<1>11. WedgeIsRealStall'
  BY <1>5, <1>6 DEF WedgeIInv, WedgeIsRealStall
<1>12. WedgeProtocol'
  <2>1. ASSUME NEW i \in DocLines
        PROVE  /\ log'[i].attempt = 2
                    => \E w \in WedgeLines' : w < i /\ log'[w].attempt = 1
               /\ log'[i].reason = "wedge_affected" /\ log'[i].doc \notin ReadFaults
                    => \A a \in 1..2 :
                         \E w \in WedgeLines' : w < i /\ log'[w].attempt = a
    BY <1>5, <1>6, <2>1 DEF WedgeIInv, WedgeProtocol
  <2>2. attempt = 2 => \E w \in WedgeLines' : w < n /\ log'[w].attempt = 1
    BY <1>7 DEF WedgeIInv, EventInv
  <2>3. reason = "wedge_affected" /\ d \notin ReadFaults
          => \A a \in 1..2 : \E w \in WedgeLines' : w < n /\ log'[w].attempt = a
    <3>1. SUFFICES ASSUME reason = "wedge_affected", d \notin ReadFaults, NEW a \in 1..2
                   PROVE  \E w \in WedgeLines' : w < n /\ log'[w].attempt = a
      OBVIOUS
    <3>2. WedgeOf(1) /\ WedgeOf(2)
      BY <1>2, <3>1 DEF Finalize, WedgeIInv, EventInv
    <3>3. a = 1 \/ a = 2
      OBVIOUS
    <3> QED
      BY <1>7, <3>2, <3>3
  <2> QED
    BY <1>3, <1>5, <1>6, <2>1, <2>2, <2>3 DEF WedgeProtocol
<1> QED
  BY <1>8, <1>9, <1>10, <1>11, <1>12 DEF WedgeIInv

(* The event of a wedge: the poll saw the whole stall window pass, which   *)
(* reaches back to the last line, with a task pending.                     *)
LEMMA DeclareKeepsWedges ==
  ASSUME IInv, WedgeIInv, DeclareWedge
  PROVE  WedgeIInv'
<1> DEFINE x == WedgeLine(Cardinality(Pending))
<1>1. /\ pc = "check" /\ pc' = "gather" /\ quiet >= StallPolls /\ wedged' = TRUE
      /\ log' = Append(log, x)
      /\ UNCHANGED <<attempt, batch, task, now, quiet, written>>
  BY DEF DeclareWedge
<1>2. attempt \in 1..2 /\ wedge_events \in 0..1
  BY <1>1 DEF IInv, TypeOK, PhaseInv
<1>3. /\ x \in Lines /\ x.kind = "wedge_event" /\ x.attempt = attempt
      /\ x.at = now /\ x.pending = Cardinality(Pending)
  BY <1>2, EventLinesTyped DEF IInv, WedgeLine
<1>4. Cardinality(Pending) > 0
  <2>1. quiet \in Nat /\ StallPolls \in Nat /\ StallPolls > 1
    BY ShotAssumption DEF IInv, TypeOK
  <2>2. ~ AllOver
    BY <1>1, <2>1 DEF WedgeIInv, ClockInv
  <2>3. Pending # {} /\ Pending \subseteq Docs
    BY <2>2 DEF AllOver, Pending, IInv, TypeOK
  <2>4. IsFiniteSet(Pending)
    BY <2>3, ShotAssumption, FS_Subset
  <2> QED
    BY <2>3, <2>4, FS_EmptySet, FS_CardinalityType
<1> HIDE DEF x
<1>5. PICK n \in Nat :
        /\ \A i \in DocLines \cup WedgeLines :
             i \in Nat /\ i < n /\ log'[i] = log[i]
        /\ DocLines' = DocLines \cup (IF x.kind = "doc" THEN {n} ELSE {})
        /\ WedgeLines' = WedgeLines
                         \cup (IF x.kind = "wedge_event" THEN {n} ELSE {})
        /\ log'[n] = x
  BY <1>1, <1>3, GrownFile DEF IInv
<1>6. DocLines' = DocLines /\ WedgeLines' = WedgeLines \cup {n}
  BY <1>3, <1>5
<1>7. (\A a : WedgeOf(a) => WedgeOf(a)') /\ WedgeOf(attempt)'
  <2>1. \A a : WedgeOf(a) => \E w \in WedgeLines' : log'[w].attempt = a
    BY <1>5, <1>6 DEF WedgeOf
  <2>2. n \in WedgeLines' /\ log'[n].attempt = attempt
    BY <1>3, <1>5, <1>6
  <2> QED
    BY <1>1, <2>1, <2>2 DEF WedgeOf
<1>8. ClockInv'
  BY <1>1, <1>5, <1>6 DEF WedgeIInv, ClockInv
<1>9. BatchInv'
  BY <1>1 DEF WedgeIInv, BatchInv
<1>10. EventInv'
  BY <1>1, <1>7 DEF WedgeIInv, EventInv
<1>11. WedgeIsRealStall'
  <2>1. /\ quiet \in Nat /\ now \in Nat /\ StallPolls \in Nat
        /\ \A i \in DocLines : log[i].at \in Nat
    BY LineTypes, ShotAssumption DEF IInv, TypeOK
  <2>2. /\ now >= StallPolls
        /\ \A i \in DocLines :
             log[i].attempt = attempt => log[i].at + StallPolls <= now
    BY <1>1, <2>1 DEF WedgeIInv, ClockInv
  <2>3. \A w \in WedgeLines :
          /\ log'[w].at >= StallPolls
          /\ log'[w].pending > 0
          /\ \A i \in DocLines :
               i < w /\ log'[i].attempt = log'[w].attempt
                 => log'[i].at + StallPolls <= log'[w].at
    BY <1>5 DEF WedgeIInv, WedgeIsRealStall
  <2> QED
    BY <1>3, <1>4, <1>5, <1>6, <2>2, <2>3 DEF WedgeIsRealStall
<1>12. WedgeProtocol'
  BY <1>5, <1>6 DEF WedgeIInv, WedgeProtocol
<1> QED
  BY <1>8, <1>9, <1>10, <1>11, <1>12 DEF WedgeIInv

LEMMA MetaKeepsWedges ==
  ASSUME IInv, WedgeIInv, WriteMeta
  PROVE  WedgeIInv'
<1>1. /\ pc' = "closed" /\ log' = Append(log, MetaLine)
      /\ UNCHANGED <<attempt, batch, task, now, quiet, wedged, written>>
  BY DEF WriteMeta
<1>2. MetaLine \in Lines /\ MetaLine.kind = "shot_meta"
  BY EventLinesTyped DEF IInv, MetaLine
<1>3. /\ \A i \in DocLines \cup WedgeLines : log'[i] = log[i]
      /\ DocLines' = DocLines /\ WedgeLines' = WedgeLines
  BY <1>1, <1>2, GrownFile DEF IInv
<1>4. \A a : WedgeOf(a) => WedgeOf(a)'
  BY <1>3 DEF WedgeOf
<1>5. ClockInv' /\ BatchInv' /\ EventInv'
  BY <1>1, <1>3, <1>4 DEF WedgeIInv, ClockInv, BatchInv, EventInv
<1>6. WedgeIsRealStall' /\ WedgeProtocol'
  BY <1>3 DEF WedgeIInv, WedgeIsRealStall, WedgeProtocol
<1> QED
  BY <1>5, <1>6 DEF WedgeIInv

(* The wedge invariant is inductive beside IInv. *)
THEOREM ShotWedges == Spec => []WedgeIInv
<1>1. Init => WedgeIInv
  <2> SUFFICES ASSUME Init
               PROVE  WedgeIInv
    OBVIOUS
  <2>1. DocLines = {} /\ WedgeLines = {}
    BY DEF Init, DocLines, WedgeLines
  <2> QED
    BY <2>1
    DEF Init, WedgeIInv, ClockInv, BatchInv, EventInv, WedgeIsRealStall,
        WedgeProtocol
<1>2. IInv /\ WedgeIInv /\ [Next]_vars => WedgeIInv'
  <2> SUFFICES ASSUME IInv, WedgeIInv, [Next]_vars
               PROVE  WedgeIInv'
    OBVIOUS
  <2>1. CASE UNCHANGED vars
    <3>1. /\ WedgeIsRealStall' /\ WedgeProtocol' /\ DocLines' = DocLines
          /\ \A a : WedgeOf(a)' <=> WedgeOf(a)
      BY <2>1, SameEvents DEF WedgeIInv, vars
    <3>2. AllOver' = AllOver /\ Unproven' = Unproven
      BY <2>1 DEF AllOver, Unproven, vars
    <3> QED
      BY <2>1, <3>1, <3>2 DEF WedgeIInv, ClockInv, BatchInv, EventInv, vars
  <2>2. CASE \E d \in Docs : Reply(d) \/ Expire(d) \/ Cancelled(d)
    BY <2>2, TaskStepsKeepWedges
  <2>3. CASE \E d \in Docs : Resume(d) \/ Finalize(d)
    BY <2>3, WritesKeepWedges
  <2> QED
    BY <2>1, <2>2, <2>3, BeginKeepsWedges, ControlKeepsWedges,
       DeclareKeepsWedges, MetaKeepsWedges DEF Next, DriverStep, Terminated
<1> QED
  BY <1>1, <1>2, ShotInvariant, PTL DEF Spec

(* rr_shot.py lines 8-9: a wedge event is never a slow start or the tail   *)
(* of a working batch; the attempt had run, and nothing of it had been     *)
(* recorded, for the whole stall window, with documents pending.           *)
THEOREM ShotRealStall == Spec => []WedgeIsRealStall
<1>1. WedgeIInv => WedgeIsRealStall
  BY DEF WedgeIInv
<1> QED
  BY <1>1, ShotWedges, PTL

(* rr_shot.py lines 10-14: nothing is resubmitted before a wedge, and no   *)
(* readable document is written off before the second one.                 *)
THEOREM ShotProtocol == Spec => []WedgeProtocol
<1>1. WedgeIInv => WedgeProtocol
  BY DEF WedgeIInv
<1> QED
  BY <1>1, ShotWedges, PTL

-----------------------------------------------------------------------------

(* The refinement: one step of the shot is one step of the ledger or none. *)
LEMMA ShotStepRefines == IInv /\ [Next]_vars => [Ledger!Next]_(Ledger!vars)
<1> SUFFICES ASSUME IInv, [Next]_vars
             PROVE  Ledger!Next \/ UNCHANGED Ledger!vars
  BY DEF Ledger!vars
<1> USE DEF Ledger!vars
<1>1. ASSUME NEW d \in Docs, Resume(d) \/ Finalize(d)
      PROVE  Ledger!Next
  <2>1. /\ d \notin written /\ attempt \in 1..2
        /\ pc \in {"sleep", "check", "gather", "finalize"} /\ pc' = pc
    BY <1>1, WriterFacts
  <2>2. PICK ok \in BOOLEAN, reason \in Reasons : Write(d, ok, reason)
    BY <1>1 DEF Resume, Finalize, Reasons
  <2> DEFINE n == Len(log) + 1
  <2>3. /\ Len(log') = n
        /\ DocLines' = DocLines \cup {n}
        /\ n \notin DocLines
        /\ \A i \in DocLines : log'[i] = log[i]
        /\ log'[n].doc = d
    BY <2>1, <2>2, WriteLine DEF IInv
  <2>4. \A i \in DocLines : log[i].doc # d
    BY <2>1 DEF IInv, LogInv
  <2>5. LedgerStatus = "open" /\ LedgerStatus' = "open"
    BY <2>1 DEF LedgerStatus
  <2>6. LedgerPlaces[d] = {}
    BY <2>4 DEF LedgerPlaces
  <2> HIDE DEF n
  <2>7. \A e \in Docs : {i \in DocLines' : log'[i].doc = e}
                      = IF e = d THEN {n} ELSE {i \in DocLines : log[i].doc = e}
    BY <2>3, <2>4
  <2>8. LedgerPlaces' = [LedgerPlaces EXCEPT ![d] = {n}]
    BY <2>7 DEF LedgerPlaces
  <2>9. Ledger!Record(d)
    BY <2>3, <2>5, <2>6, <2>8 DEF Ledger!Record, n
  <2> QED
    BY <2>9 DEF Ledger!Next
<1>2. CASE DeclareWedge \/ WriteMeta
  <2>1. PICK x \in Lines : x.kind # "doc" /\ log' = Append(log, x)
    <3>1. CASE DeclareWedge
      <4>1. attempt \in 1..2 /\ wedge_events \in 0..1
        BY <3>1 DEF DeclareWedge, IInv, TypeOK, PhaseInv
      <4> QED
        BY <3>1, <4>1, EventLinesTyped DEF DeclareWedge, IInv
    <3>2. CASE WriteMeta
      BY <3>2, EventLinesTyped DEF WriteMeta, IInv
    <3> QED
      BY <1>2, <3>1, <3>2
  <2>2. /\ Len(log') = Len(log) + 1
        /\ DocLines' = DocLines
        /\ \A i \in DocLines : log'[i] = log[i]
    BY <2>1, EventLine DEF IInv
  <2>3. LedgerPlaces' = LedgerPlaces
    BY <2>2 DEF LedgerPlaces
  <2>4. CASE DeclareWedge
    BY <2>2, <2>3, <2>4 DEF DeclareWedge, LedgerStatus, Ledger!Next, Ledger!Note
  <2>5. CASE WriteMeta
    <3>1. LedgerStatus = "open" /\ LedgerStatus' = "closed"
      BY <2>5 DEF WriteMeta, LedgerStatus
    <3>2. \A d \in Docs : d \in written
      BY <2>5 DEF WriteMeta, Unproven, IInv, TaskInv
    <3>3. \A d \in Docs : LedgerPlaces[d] # {}
      BY <3>2 DEF IInv, LogInv, LedgerPlaces
    <3> QED
      BY <2>2, <2>3, <3>1, <3>3 DEF Ledger!Next, Ledger!Close
  <2> QED
    BY <1>2, <2>4, <2>5
<1>3. ASSUME log' = log, pc' # "aborted" \/ pc = "aborted",
             pc' # "closed" \/ pc = "closed",
             pc \in {"closed", "aborted"} => pc' = pc
      PROVE  UNCHANGED Ledger!vars
  BY <1>3 DEF LedgerPlaces, LedgerStatus, DocLines
<1>4. ASSUME log' = log, pc' = "aborted", pc \notin {"closed", "aborted"}
      PROVE  Ledger!Next
  BY <1>4 DEF LedgerPlaces, LedgerStatus, DocLines, Ledger!Next, Ledger!Abort
<1>5. CASE PoolFails \/ \E d \in Docs : FinalizeFails(d)
  BY <1>4, <1>5 DEF PoolFails, FinalizeFails
<1>6. CASE \/ BeginAttempt \/ Tick \/ KeepPolling \/ EndAttempt
           \/ \E d \in Docs : Reply(d) \/ Expire(d) \/ Cancelled(d)
  BY <1>3, <1>6 DEF BeginAttempt, Tick, KeepPolling, EndAttempt, Reply, Expire,
                    Cancelled
<1>7. CASE UNCHANGED vars
  BY <1>3, <1>7 DEF vars
<1> QED
  BY <1>1, <1>2, <1>5, <1>6, <1>7 DEF Next, DriverStep, Terminated

(* The shot implements the ledger of RecordLedger: whatever the engine,    *)
(* the timers and the relaunch do, its file is one a ledger could be.      *)
THEOREM ShotImplementsLedger == Spec => LedgerSpec
<1>1. Init => Ledger!Init
  BY DEF Init, Ledger!Init, LedgerPlaces, LedgerStatus, DocLines
<1> QED
  BY <1>1, ShotStepRefines, ShotInvariant, PTL DEF Spec, LedgerSpec, Ledger!Spec

-----------------------------------------------------------------------------
(* The shot ends                                                           *)

(* The tasks that have still to be over, and those without an answer.      *)
Open == {d \in Docs : task[d] = "waiting" \/ task[d] \in Outcomes}
Unanswered == {d \in Docs : task[d] = "waiting"}

(* The polls until a stall is seen, two steps each. *)
Polls(there, q) ==
  CASE there = "sleep"  -> 2 * (StallPolls - q) + 1
    [] there = "check"  -> 2 * (StallPolls - q) + 2
    [] there = "gather" -> 0

(* More than the polls that one answer can put off. *)
Each == 2 * StallPolls + 3

(* What an attempt may still take, with n answers and ends of tasks to     *)
(* come, and the documents to write off after it; the bound of these.      *)
OfAttempt(there, n, q) == Each * n + Polls(there, q) + Cardinality(Docs) + 2

OneAttempt == Each * (2 * Cardinality(Docs)) + Each + Cardinality(Docs) + 2

(* And the shot, from attempt a on, with u documents unproven. *)
Left(there, a, n, q, u) ==
  CASE there = "pool" -> (2 - a) * OneAttempt
    [] there \in {"sleep", "check", "gather"} ->
         (2 - a) * OneAttempt + OfAttempt(there, n, q)
    [] there = "finalize" -> u + 1
    [] there \in {"closed", "aborted"} -> 0

TasksLeft == Cardinality(Open) + Cardinality(Unanswered)

StepsLeft == Left(pc, attempt, TasksLeft, quiet, Cardinality(Unproven))

(* The loop sleeps on only before the stall window is full. *)
StallInv ==
  /\ pc = "sleep" => quiet < StallPolls
  /\ pc = "check" => quiet <= StallPolls

LEMMA DocCount ==
  ASSUME NEW T \in SUBSET Docs
  PROVE  /\ IsFiniteSet(T) /\ Cardinality(T) \in Nat /\ Cardinality(Docs) \in Nat
         /\ Cardinality(T) <= Cardinality(Docs)
         /\ \A d \in T : Cardinality(T \ {d}) = Cardinality(T) - 1
BY ShotAssumption, FS_Subset, FS_CardinalityType, FS_RemoveElement

LEMMA TwiceProduct ==
  ASSUME NEW e \in Nat, NEW n \in Nat, NEW m \in Nat, n < m
  PROVE  e * n \in Nat /\ e * m \in Nat /\ e * n + e <= e * m
<1>1. PICK d \in Nat : m = n + 1 + d
  <2>1. m - n - 1 \in Nat /\ m = n + 1 + (m - n - 1)
    OBVIOUS
  <2> QED
    BY <2>1
<1>2. e * m = e * n + e + e * d
  BY <1>1
<1>3. e * n \in Nat /\ e * m \in Nat /\ e * d \in Nat
  BY <1>1
<1> QED
  BY <1>2, <1>3

LEMMA PollsRange ==
  ASSUME NEW q \in Nat
  PROVE  /\ Each \in Nat /\ StallPolls \in Nat
         /\ q < StallPolls => Polls("sleep", q) \in 0..(Each - 1)
         /\ q <= StallPolls => Polls("check", q) \in 0..(Each - 1)
         /\ Polls("gather", q) \in 0..(Each - 1)
         /\ q < StallPolls => Polls("check", q + 1) < Polls("sleep", q)
         /\ q < StallPolls => Polls("sleep", q) < Polls("check", q)
         /\ q <= StallPolls => Polls("gather", q) < Polls("check", q)
<1> StallPolls \in Nat
  BY ShotAssumption
<1> QED
  BY DEF Polls, Each

LEMMA OfAttemptFalls ==
  ASSUME NEW n \in Nat, NEW m \in Nat, NEW q \in Nat, NEW r \in Nat,
         NEW p, NEW s,
         Polls(p, q) \in 0..(Each - 1), Polls(s, r) \in 0..(Each - 1),
         \/ m < n
         \/ m = n /\ Polls(s, r) < Polls(p, q)
  PROVE  /\ OfAttempt(s, m, r) \in Nat /\ OfAttempt(p, n, q) \in Nat
         /\ OfAttempt(s, m, r) < OfAttempt(p, n, q)
<1>1. /\ Each \in Nat /\ Cardinality(Docs) \in Nat
      /\ Polls(p, q) \in Nat /\ Polls(s, r) \in Nat
  BY PollsRange, DocCount
<1>2. Each * n \in Nat /\ Each * m \in Nat
  BY <1>1
<1>3. /\ OfAttempt(s, m, r) = Each * m + Polls(s, r) + Cardinality(Docs) + 2
      /\ OfAttempt(p, n, q) = Each * n + Polls(p, q) + Cardinality(Docs) + 2
  BY DEF OfAttempt
<1>4. CASE m < n
  <2>1. Each * m + Each <= Each * n
    BY <1>1, <1>4, TwiceProduct
  <2> QED
    BY <1>1, <1>2, <1>3, <2>1
<1>5. CASE m = n /\ Polls(s, r) < Polls(p, q)
  BY <1>1, <1>2, <1>3, <1>5
<1> QED
  BY <1>4, <1>5

LEMMA OfAttemptRange ==
  ASSUME NEW n \in 0..(2 * Cardinality(Docs)), NEW q \in Nat, NEW p,
         Polls(p, q) \in 0..(Each - 1)
  PROVE  /\ OfAttempt(p, n, q) \in Nat /\ OneAttempt \in Nat
         /\ Cardinality(Docs) + 1 < OfAttempt(p, n, q) /\ OfAttempt(p, n, q) < OneAttempt
<1>1. /\ Each \in Nat /\ Cardinality(Docs) \in Nat /\ Polls(p, q) \in Nat
      /\ n \in Nat /\ 2 * Cardinality(Docs) \in Nat
  BY PollsRange, DocCount
<1>2. /\ Each * n \in Nat /\ Each * (2 * Cardinality(Docs)) \in Nat
      /\ Each * n <= Each * (2 * Cardinality(Docs))
  <2>1. CASE n = 2 * Cardinality(Docs)
    BY <1>1, <2>1
  <2>2. CASE n < 2 * Cardinality(Docs)
    <3>1. /\ Each * n \in Nat /\ Each * (2 * Cardinality(Docs)) \in Nat
          /\ Each * n + Each <= Each * (2 * Cardinality(Docs))
      BY <1>1, <2>2, TwiceProduct
    <3> QED
      BY <1>1, <3>1
  <2> QED
    BY <1>1, <2>1, <2>2
<1> QED
  BY <1>1, <1>2 DEF OfAttempt, OneAttempt

(* What is left falls within an attempt, from one attempt to the next, to  *)
(* the documents written off, and at the end. *)
Places3 == {"sleep", "check", "gather"}

LEMMA LeftFalls ==
  ASSUME NEW n \in 0..(2 * Cardinality(Docs)), NEW q \in Nat, NEW p \in Places3,
         Polls(p, q) \in 0..(Each - 1), NEW u \in Nat, NEW v \in 0..Cardinality(Docs),
         NEW a \in 1..2
  PROVE  /\ \A b \in {0, 1} : b < a => Left(p, a, n, q, u) < Left("pool", b, n, q, u)
         /\ a = 1 => \A m, r, w : Left("pool", 1, m, r, w) < Left(p, 1, n, q, u)
         /\ \A m, r : Left("finalize", a, m, r, v) < Left(p, a, n, q, u)
<1>1. /\ OfAttempt(p, n, q) \in Nat /\ OneAttempt \in Nat /\ Cardinality(Docs) \in Nat
      /\ Cardinality(Docs) + 1 < OfAttempt(p, n, q) /\ OfAttempt(p, n, q) < OneAttempt
  BY OfAttemptRange, DocCount
<1>2. Left(p, a, n, q, u) = (2 - a) * OneAttempt + OfAttempt(p, n, q)
  BY DEF Left, Places3
<1>3. \A b, m, r, w : Left("pool", b, m, r, w) = (2 - b) * OneAttempt
  BY DEF Left
<1>4. \A m, r : Left("finalize", a, m, r, v) = v + 1
  BY DEF Left
<1>5. a = 1 \/ a = 2
  OBVIOUS
<1>6. (2 - 1) * OneAttempt = OneAttempt /\ (2 - 2) * OneAttempt = 0
      /\ (2 - 0) * OneAttempt = OneAttempt + OneAttempt
  BY <1>1
<1>7. \A b \in {0, 1} : b < a => Left(p, a, n, q, u) < Left("pool", b, n, q, u)
  BY <1>1, <1>2, <1>3, <1>5, <1>6
<1>8. a = 1 => \A m, r, w : Left("pool", 1, m, r, w) < Left(p, 1, n, q, u)
  BY <1>1, <1>2, <1>3, <1>6
<1>9. \A m, r : Left("finalize", a, m, r, v) < Left(p, a, n, q, u)
  BY <1>1, <1>2, <1>4, <1>5, <1>6
<1> QED
  BY <1>7, <1>8, <1>9

LEMMA StallHolds == Spec => []StallInv
<1>1. Init => StallInv
  BY DEF Init, StallInv
<1>2. IInv /\ StallInv /\ [Next]_vars => StallInv'
  <2> SUFFICES ASSUME IInv, StallInv, [Next]_vars
               PROVE  StallInv'
    OBVIOUS
  <2>0. quiet \in Nat /\ StallPolls \in Nat /\ 1 < StallPolls
    BY ShotAssumption DEF IInv, TypeOK
  <2>1. CASE BeginAttempt \/ PoolFails
    BY <2>0, <2>1 DEF BeginAttempt, PoolFails, StallInv
  <2>2. CASE Tick
    BY <2>0, <2>2 DEF Tick, StallInv
  <2>3. CASE DeclareWedge \/ KeepPolling
    BY <2>0, <2>3 DEF DeclareWedge, KeepPolling, StallInv
  <2>4. CASE EndAttempt \/ WriteMeta
    BY <2>4 DEF EndAttempt, WriteMeta, StallInv
  <2>5. ASSUME NEW d \in Docs, Expire(d) \/ Cancelled(d) \/ Reply(d) \/ FinalizeFails(d)
        PROVE  StallInv'
    BY <2>5 DEF Expire, Cancelled, Reply, FinalizeFails, StallInv
  <2>6. ASSUME NEW d \in Docs, Resume(d) \/ Finalize(d)
        PROVE  StallInv'
    <3>1. pc' = pc /\ quiet' = 0
      BY <2>6 DEF Resume, Finalize, Write
    <3> QED
      BY <2>0, <3>1 DEF StallInv
  <2>7. CASE UNCHANGED vars \/ Terminated
    BY <2>7 DEF vars, Terminated, StallInv
  <2> QED
    BY <2>1, <2>2, <2>3, <2>4, <2>5, <2>6, <2>7 DEF Next, DriverStep
<1> QED
  BY <1>1, <1>2, ShotInvariant, PTL DEF Spec

(* An answer, an end of a task: one less. *)
LEMMA TaskMoves ==
  ASSUME IInv, BatchInv, NEW d \in Docs,
         Reply(d) \/ Expire(d) \/ Resume(d) \/ Cancelled(d)
  PROVE  TasksLeft' \in Nat /\ TasksLeft \in Nat /\ TasksLeft' < TasksLeft
<1> DEFINE o == Cardinality(Open)  w == Cardinality(Unanswered)
<1>0. /\ Open \in SUBSET Docs /\ Unanswered \in SUBSET Docs
      /\ Open' \in SUBSET Docs /\ Unanswered' \in SUBSET Docs
  BY DEF Open, Unanswered
<1>1. o \in Nat /\ w \in Nat /\ o' \in Nat /\ w' \in Nat
  BY <1>0, DocCount
<1>2. PICK s \in TaskStates :
        /\ task' = [task EXCEPT ![d] = s]
        /\ \/ task[d] = "waiting" /\ s \in Outcomes
           \/ task[d] \in Outcomes \cup {"waiting"} /\ s \in Over
  <2>1. CASE Reply(d) \/ Expire(d)
    BY <2>1 DEF Reply, Expire, Outcomes, Replies, TaskStates
  <2>2. CASE Resume(d)
    BY <2>2 DEF Resume, Over, TaskStates
  <2>3. CASE Cancelled(d)
    <3>1. task[d] \notin Over /\ task[d] # "idle" /\ task[d] \in TaskStates
      BY <2>3 DEF Cancelled, BatchInv, IInv, TypeOK
    <3> QED
      BY <2>3, <3>1 DEF Cancelled, TaskStates, Over
  <2> QED
    BY <2>1, <2>2, <2>3
<1>3. /\ task'[d] = s /\ \A e \in Docs : e # d => task'[e] = task[e]
      /\ "waiting" \notin Outcomes \cup Over /\ Outcomes \cap Over = {}
  BY <1>2 DEF IInv, TypeOK, Outcomes, Replies, Over
<1>4. CASE task[d] = "waiting" /\ s \in Outcomes
  <2>1. Open' = Open /\ Unanswered' = Unanswered \ {d} /\ d \in Unanswered
    BY <1>3, <1>4 DEF Open, Unanswered
  <2>2. o' = o /\ w' = w - 1
    BY <1>0, <2>1, DocCount
  <2> QED
    BY <1>1, <2>2 DEF TasksLeft
<1>5. CASE task[d] \in Outcomes \cup {"waiting"} /\ s \in Over
  <2>1. Open' = Open \ {d} /\ d \in Open
    BY <1>3, <1>5 DEF Open
  <2>2. Unanswered' = Unanswered \ {d}
    BY <1>3, <1>5 DEF Unanswered
  <2>3. o' = o - 1
    BY <1>0, <2>1, DocCount
  <2>4. w' = w \/ w' = w - 1
    <3>1. CASE d \in Unanswered
      BY <1>0, <2>2, <3>1, DocCount
    <3>2. CASE d \notin Unanswered
      <4>1. Unanswered' = Unanswered
        BY <2>2, <3>2
      <4> QED
        BY <4>1
    <3> QED
      BY <3>1, <3>2
  <2> QED
    BY <1>1, <2>3, <2>4 DEF TasksLeft
<1> QED
  BY <1>2, <1>4, <1>5

(* Within an attempt an answer, an end or a poll counts. *)
LEMMA WithinAttempt ==
  ASSUME NEW p \in Places3, NEW s \in Places3, NEW a \in 1..2,
         NEW n \in Nat, NEW m \in Nat, NEW q \in Nat, NEW r \in Nat,
         NEW u, NEW v,
         Polls(p, q) \in 0..(Each - 1), Polls(s, r) \in 0..(Each - 1),
         \/ m < n
         \/ m = n /\ Polls(s, r) < Polls(p, q)
  PROVE  Left(s, a, m, r, v) < Left(p, a, n, q, u)
<1>1. /\ OfAttempt(s, m, r) \in Nat /\ OfAttempt(p, n, q) \in Nat
      /\ OfAttempt(s, m, r) < OfAttempt(p, n, q)
  BY OfAttemptFalls
<1>2. OneAttempt \in Nat
  <2>1. Each \in Nat /\ Cardinality(Docs) \in Nat
    BY PollsRange, DocCount
  <2>2. Each * (2 * Cardinality(Docs)) \in Nat
    BY <2>1
  <2> QED
    BY <2>1, <2>2 DEF OneAttempt
<1>3. (2 - a) * OneAttempt \in Nat
  <2>1. a = 1 \/ a = 2
    OBVIOUS
  <2> QED
    BY <1>2, <2>1
<1>4. /\ Left(s, a, m, r, v) = (2 - a) * OneAttempt + OfAttempt(s, m, r)
      /\ Left(p, a, n, q, u) = (2 - a) * OneAttempt + OfAttempt(p, n, q)
  BY DEF Left, Places3
<1> QED
  BY <1>1, <1>3, <1>4

(* Where the numbers that StepsLeft is made of lie. *)
RangeInv ==
  /\ TasksLeft \in 0..(2 * Cardinality(Docs))
  /\ Cardinality(Unproven) \in 0..Cardinality(Docs)
  /\ quiet \in Nat
  /\ pc \in Places3 \cup {"pool", "finalize", "closed", "aborted"}
  /\ pc \in Places3 => attempt \in 1..2 /\ Polls(pc, quiet) \in 0..(Each - 1)
  /\ pc = "pool" => attempt \in {0, 1}

LEMMA InRange == IInv /\ StallInv => RangeInv
<1> SUFFICES ASSUME IInv, StallInv
             PROVE  RangeInv
  OBVIOUS
<1>1. quiet \in Nat /\ attempt \in 0..2
  BY DEF IInv, TypeOK
<1>2. TasksLeft \in 0..(2 * Cardinality(Docs))
  <2>1. Open \in SUBSET Docs /\ Unanswered \in SUBSET Docs
    BY DEF Open, Unanswered
  <2>2. /\ Cardinality(Open) \in Nat /\ Cardinality(Open) <= Cardinality(Docs)
        /\ Cardinality(Unanswered) \in Nat /\ Cardinality(Unanswered) <= Cardinality(Docs)
        /\ Cardinality(Docs) \in Nat
    BY <2>1, DocCount
  <2> QED
    BY <2>2 DEF TasksLeft
<1>3. Cardinality(Unproven) \in 0..Cardinality(Docs)
  <2>1. Unproven \in SUBSET Docs
    BY DEF Unproven, IInv, TypeOK
  <2> QED
    BY <2>1, DocCount
<1>4. pc \in Places3 \cup {"pool", "finalize", "closed", "aborted"}
  BY DEF IInv, TypeOK, Places3
<1>5. pc \in Places3 => attempt \in 1..2 /\ Polls(pc, quiet) \in 0..(Each - 1)
  <2>1. pc \in Places3 => attempt \in 1..2
    BY <1>1 DEF IInv, PhaseInv, Places3
  <2>2. pc \in Places3 => Polls(pc, quiet) \in 0..(Each - 1)
    BY <1>1, PollsRange DEF StallInv, Places3
  <2> QED
    BY <2>1, <2>2
<1>6. pc = "pool" => attempt \in {0, 1}
  BY <1>1 DEF IInv, PhaseInv
<1> QED
  BY <1>1, <1>2, <1>3, <1>4, <1>5, <1>6 DEF RangeInv

LEMMA StepsInRange == RangeInv => StepsLeft \in 0..(2 * OneAttempt)
<1> SUFFICES ASSUME RangeInv
             PROVE  StepsLeft \in 0..(2 * OneAttempt)
  OBVIOUS
<1>1. Polls("gather", 0) \in 0..(Each - 1)
  BY PollsRange
<1>2. /\ OneAttempt \in Nat /\ Cardinality(Docs) \in Nat
      /\ Cardinality(Docs) + 1 < OneAttempt
  <2>1. Cardinality(Docs) \in Nat /\ 0 \in 0..(2 * Cardinality(Docs)) /\ 0 \in Nat
    BY DocCount
  <2>2. /\ OfAttempt("gather", 0, 0) \in Nat /\ OneAttempt \in Nat
        /\ Cardinality(Docs) + 1 < OfAttempt("gather", 0, 0)
        /\ OfAttempt("gather", 0, 0) < OneAttempt
    BY <1>1, <2>1, OfAttemptRange
  <2> QED
    BY <2>1, <2>2
<1>3. (2 - 1) * OneAttempt = OneAttempt /\ (2 - 2) * OneAttempt = 0
      /\ (2 - 0) * OneAttempt = OneAttempt + OneAttempt /\ 2 * OneAttempt = OneAttempt + OneAttempt
  BY <1>2
<1>4. CASE pc \in Places3
  <2>1. /\ OfAttempt(pc, TasksLeft, quiet) \in Nat
        /\ OfAttempt(pc, TasksLeft, quiet) < OneAttempt
    BY <1>4, OfAttemptRange DEF RangeInv
  <2>2. StepsLeft = (2 - attempt) * OneAttempt + OfAttempt(pc, TasksLeft, quiet)
    BY <1>4 DEF StepsLeft, Left, Places3
  <2>3. attempt = 1 \/ attempt = 2
    BY <1>4 DEF RangeInv
  <2> QED
    BY <1>2, <1>3, <2>1, <2>2, <2>3
<1>5. CASE pc = "pool"
  <2>1. StepsLeft = (2 - attempt) * OneAttempt /\ (attempt = 0 \/ attempt = 1)
    BY <1>5 DEF StepsLeft, Left, RangeInv
  <2> QED
    BY <1>2, <1>3, <2>1
<1>6. CASE pc = "finalize"
  <2>1. StepsLeft = Cardinality(Unproven) + 1
    BY <1>6 DEF StepsLeft, Left
  <2> QED
    BY <1>2, <1>3, <2>1 DEF RangeInv
<1>7. CASE pc \in {"closed", "aborted"}
  <2>1. StepsLeft = 0
    BY <1>7 DEF StepsLeft, Left
  <2> QED
    BY <1>2, <1>3, <2>1
<1> QED
  BY <1>4, <1>5, <1>6, <1>7 DEF RangeInv

(* What the control steps leave of the tasks. *)
LEMMA SameTasks ==
  ASSUME task' = task
  PROVE  TasksLeft' = TasksLeft
<1>1. Open' = Open /\ Unanswered' = Unanswered
  BY DEF Open, Unanswered
<1> QED
  BY <1>1 DEF TasksLeft

(* Every step of the shot, its own, the clock's or the engine's, leaves    *)
(* less to do.                                                             *)
LEMMA StepsFall ==
  IInv /\ BatchInv /\ StallInv /\ StallInv' /\ RangeInv /\ RangeInv' /\ [Next]_vars
    => [StepsLeft' < StepsLeft]_vars
<1> SUFFICES ASSUME IInv, BatchInv, StallInv, StallInv', RangeInv, RangeInv', Next
             PROVE  StepsLeft' < StepsLeft \/ UNCHANGED vars
  OBVIOUS
<1> DEFINE n == TasksLeft  u == Cardinality(Unproven)
<1>0. /\ StepsLeft = Left(pc, attempt, n, quiet, u)
      /\ StepsLeft' = Left(pc', attempt', n', quiet', u')
  BY DEF StepsLeft
<1>a. /\ n \in 0..(2 * Cardinality(Docs)) /\ n' \in 0..(2 * Cardinality(Docs))
      /\ u \in 0..Cardinality(Docs) /\ u' \in 0..Cardinality(Docs)
      /\ quiet \in Nat /\ quiet' \in Nat /\ Cardinality(Docs) \in Nat
      /\ n \in Nat /\ n' \in Nat /\ u \in Nat /\ u' \in Nat
  BY DocCount DEF RangeInv
<1>b. /\ pc \in Places3 => attempt \in 1..2 /\ Polls(pc, quiet) \in 0..(Each - 1)
      /\ pc' \in Places3 => attempt' \in 1..2 /\ Polls(pc', quiet') \in 0..(Each - 1)
  BY DEF RangeInv
<1> HIDE DEF n, u
<1>c. ASSUME pc \in Places3, pc' \in Places3, attempt' = attempt,
             n' < n \/ (n' = n /\ Polls(pc', quiet') < Polls(pc, quiet))
      PROVE  StepsLeft' < StepsLeft
  BY <1>0, <1>a, <1>b, <1>c, WithinAttempt
<1>1. ASSUME NEW d \in Docs, Reply(d) \/ Expire(d) \/ Resume(d) \/ Cancelled(d)
      PROVE  StepsLeft' < StepsLeft
  <2>1. n' < n
    BY <1>1, TaskMoves DEF n
  <2>2. pc' = pc /\ attempt' = attempt
    BY <1>1 DEF Reply, Expire, Resume, Cancelled
  <2>3. pc \in Places3
    BY <1>1 DEF Reply, Expire, Resume, Cancelled, IInv, TaskInv, Places3
  <2> QED
    BY <1>c, <2>1, <2>2, <2>3
<1>2. CASE BeginAttempt
  <2>1. /\ pc = "pool" /\ pc' = "sleep" /\ attempt' = attempt + 1
        /\ attempt \in {0, 1} /\ pc' \in Places3
    BY <1>2 DEF BeginAttempt, RangeInv, Places3
  <2>2. Left(pc', attempt', n', quiet', u') < Left("pool", attempt, n', quiet', u')
    BY <1>a, <1>b, <2>1, LeftFalls
  <2>3. Left("pool", attempt, n', quiet', u') = Left(pc, attempt, n, quiet, u)
    BY <2>1 DEF Left
  <2> QED
    BY <1>0, <2>2, <2>3
<1>3. CASE PoolFails
  <2>1. pc = "pool" /\ pc' = "aborted" /\ attempt \in {0, 1}
    BY <1>3 DEF PoolFails, RangeInv
  <2>2. /\ StepsLeft = (2 - attempt) * OneAttempt
        /\ StepsLeft' = 0
    BY <1>0, <2>1 DEF Left
  <2>3. OneAttempt \in Nat /\ 0 < OneAttempt
    <3>1. Polls("gather", 0) \in 0..(Each - 1) /\ 0 \in 0..(2 * Cardinality(Docs))
      BY <1>a, PollsRange
    <3>2. /\ OfAttempt("gather", 0, 0) \in Nat /\ OneAttempt \in Nat
          /\ OfAttempt("gather", 0, 0) < OneAttempt
      BY <3>1, OfAttemptRange
    <3> QED
      BY <3>2
  <2>4. 0 < (2 - attempt) * OneAttempt
    <3>1. (2 - 0) * OneAttempt = OneAttempt + OneAttempt /\ (2 - 1) * OneAttempt = OneAttempt
      BY <2>3
    <3> QED
      BY <2>1, <2>3, <3>1
  <2> QED
    BY <2>2, <2>4
<1>4. CASE Tick
  <2>1. /\ pc = "sleep" /\ pc' = "check" /\ attempt' = attempt /\ quiet' = quiet + 1
        /\ task' = task /\ quiet < StallPolls /\ pc \in Places3 /\ pc' \in Places3
    BY <1>4 DEF Tick, StallInv, Places3
  <2>2. n' = n
    BY <2>1, SameTasks DEF n
  <2>3. Polls(pc', quiet') < Polls(pc, quiet)
    BY <1>a, <2>1, PollsRange
  <2> QED
    BY <1>c, <2>1, <2>2, <2>3
<1>5. CASE DeclareWedge \/ KeepPolling
  <2>1. /\ pc = "check" /\ attempt' = attempt /\ quiet' = quiet /\ task' = task
        /\ \/ pc' = "gather" /\ quiet <= StallPolls
           \/ pc' = "sleep" /\ quiet < StallPolls
        /\ pc \in Places3 /\ pc' \in Places3
    BY <1>5 DEF DeclareWedge, KeepPolling, StallInv, Places3
  <2>2. n' = n
    BY <2>1, SameTasks DEF n
  <2>3. Polls(pc', quiet') < Polls(pc, quiet)
    BY <1>a, <2>1, PollsRange
  <2> QED
    BY <1>c, <2>1, <2>2, <2>3
<1>6. CASE EndAttempt
  <2>1. /\ pc = "gather" /\ pc \in Places3 /\ attempt' = attempt
        /\ pc' = "finalize" \/ (pc' = "pool" /\ attempt = 1)
    BY <1>6 DEF EndAttempt, Places3
  <2>2. CASE pc' = "finalize"
    BY <1>0, <1>a, <1>b, <2>1, <2>2, LeftFalls
  <2>3. CASE pc' = "pool" /\ attempt = 1
    BY <1>0, <1>a, <1>b, <2>1, <2>3, LeftFalls
  <2> QED
    BY <2>1, <2>2, <2>3
<1>7. ASSUME NEW d \in Docs, Finalize(d)
      PROVE  StepsLeft' < StepsLeft
  <2>1. /\ pc = "finalize" /\ pc' = "finalize" /\ d \in Unproven
        /\ batch' = batch /\ written' = written \cup {d}
    BY <1>7 DEF Finalize, Write
  <2>2. Unproven' = Unproven \ {d} /\ Unproven \in SUBSET Docs
    BY <2>1 DEF Unproven, IInv, TypeOK
  <2>3. u' = u - 1
    BY <2>1, <2>2, DocCount DEF u
  <2>4. StepsLeft = u + 1 /\ StepsLeft' = u' + 1
    BY <1>0, <2>1 DEF Left
  <2> QED
    BY <1>a, <2>3, <2>4
<1>8. ASSUME NEW d \in Docs, FinalizeFails(d)
      PROVE  StepsLeft' < StepsLeft
  <2>1. StepsLeft = u + 1 /\ StepsLeft' = 0
    BY <1>0, <1>8 DEF FinalizeFails, Left
  <2> QED
    BY <1>a, <2>1
<1>9. CASE WriteMeta
  <2>1. StepsLeft = u + 1 /\ StepsLeft' = 0
    BY <1>0, <1>9 DEF WriteMeta, Left
  <2> QED
    BY <1>a, <2>1
<1>10. CASE Terminated
  BY <1>10 DEF Terminated
<1> QED
  BY <1>1, <1>2, <1>3, <1>4, <1>5, <1>6, <1>7, <1>8, <1>9, <1>10 DEF Next, DriverStep

(* However the engine answers, if at all, the shot cannot go on for ever:  *)
(* each of its steps lowers a number that starts at twice the bound of an  *)
(* attempt.  No fairness is needed for that half of ShotEnds; the other    *)
(* half, that a step is always possible until the end, is TLC's (deadlock).*)
THEOREM ShotSteps ==
  Spec => /\ [](StepsLeft \in 0..(2 * OneAttempt))
          /\ [][StepsLeft' < StepsLeft]_vars
<1>1. WedgeIInv => BatchInv
  BY DEF WedgeIInv
<1> QED
  BY <1>1, InRange, StepsInRange, StepsFall, ShotInvariant, ShotWedges, StallHolds,
     PTL DEF Spec
=============================================================================
