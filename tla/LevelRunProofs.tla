--------------------------- MODULE LevelRunProofs ----------------------------
(***************************************************************************)
(* Proofs about LevelRun, for every corpus, level, time limit and choice   *)
(* of arms, whatever stands in the directory, and that the run implements  *)
(* RecordLedger.                                                           *)
(***************************************************************************)
EXTENDS LevelRun, FiniteSetTheorems, SequenceTheorems, TLAPS

-----------------------------------------------------------------------------
(* Documents, the corpus and the file                                      *)

(* A set of natural numbers has a least one. *)
LEMMA LeastOf ==
  ASSUME NEW T \in SUBSET Nat, T # {}
  PROVE  \E n \in T : \A m \in T : n <= m
<1>1. IsWellFoundedOn(OpToRel(<, Nat), Nat)
  BY NatLessThanWellFounded
<1>2. PICK n \in T : \A m \in T : ~(<<m, n>> \in OpToRel(<, Nat))
  BY <1>1, WFMin
<1>3. \A m \in T : <<m, n>> \in OpToRel(<, Nat) <=> m < n
  BY <1>2 DEF OpToRel
<1>4. \A m \in T : ~(m < n)
  BY <1>2, <1>3
<1>5. \A m \in T : n <= m
  BY <1>4
<1> QED
  BY <1>5

LEMMA CorpusFacts ==
  /\ IsFiniteSet(Docs)
  /\ DOMAIN Corpus \subseteq Nat
  /\ \A k \in DOMAIN Corpus : Corpus[k] \in Docs
  /\ \A d \in Docs : \E k \in DOMAIN Corpus : Corpus[k] = d
  /\ \A j, k \in DOMAIN Corpus : Corpus[j] = Corpus[k] => j = k
<1>1. /\ Len(Corpus) \in Nat /\ DOMAIN Corpus = 1..Len(Corpus)
      /\ Corpus \in [1..Len(Corpus) -> Docs]
  BY LevelAssumption, LenProperties
<1>2. \A d \in Docs : \E k \in DOMAIN Corpus : Corpus[k] = d
  BY LevelAssumption DEF Range
<1>3. Corpus \in Surjection(1..Len(Corpus), Docs)
  BY <1>1, <1>2 DEF Surjection
<1>4. /\ IsFiniteSet(1..Len(Corpus))
      /\ Cardinality(1..Len(Corpus)) = Len(Corpus)
  BY <1>1, FS_Interval
<1>5. IsFiniteSet(Docs) /\ Corpus \in Injection(1..Len(Corpus), Docs)
  BY <1>3, <1>4, FS_Surjection, LevelAssumption
<1>6. \A j, k \in 1..Len(Corpus) : Corpus[j] = Corpus[k] => j = k
  BY <1>1, <1>5 DEF Injection, IsInjective
<1> QED
  BY <1>1, <1>2, <1>5, <1>6

(* One more line stands behind all the others. *)
LEMMA NewLine ==
  ASSUME file \in Seq(Rows \cup {MetaLine}),
         NEW line \in Rows \cup {MetaLine},
         file' = Append(file, line)
  PROVE  /\ file' \in Seq(Rows \cup {MetaLine})
         /\ Len(file) \in Nat /\ Len(file') = Len(file) + 1
         /\ DOMAIN file = 1..Len(file)
         /\ DOMAIN file' = DOMAIN file \cup {Len(file) + 1}
         /\ Len(file) + 1 \notin DOMAIN file
         /\ \A k \in DOMAIN file : file'[k] = file[k]
         /\ file'[Len(file) + 1] = line
<1>1. Len(file) \in Nat /\ DOMAIN file = 1..Len(file)
  BY LenProperties
<1>2. /\ file' \in Seq(Rows \cup {MetaLine})
      /\ Len(file') = Len(file) + 1
      /\ \A k \in 1..Len(file) : file'[k] = file[k]
      /\ file'[Len(file) + 1] = line
  BY AppendProperties
<1>3. DOMAIN file' = 1..(Len(file) + 1)
  BY <1>2, LenProperties
<1> QED
  BY <1>1, <1>2, <1>3

(* The summary line is nobody's record. *)
LEMMA MetaIsNoRow ==
  /\ MetaLine \in Rows \cup {MetaLine}
  /\ \A d \in Docs, r \in Replies :
       LET row == [doc |-> d, reply |-> r]
       IN  row \in Rows \cup {MetaLine} /\ row.doc = d /\ row # MetaLine
  /\ \A d \in Docs : MetaLine.doc # d
  /\ \A line \in Rows \cup {MetaLine} :
       line # MetaLine => /\ line \in Rows /\ line.reply \in Replies
                          /\ line.doc \in Docs \cup Strangers
<1>1. MetaLine.doc \notin Docs
  BY LevelAssumption
<1>2. \A d \in Docs, r \in Replies :
        /\ [doc |-> d, reply |-> r] \in Rows
        /\ [doc |-> d, reply |-> r].doc = d
  BY DEF Rows
<1>3. \A line \in Rows : line.doc \in Docs \cup Strangers /\ line.reply \in Replies
  BY DEF Rows
<1> QED
  BY <1>1, <1>2, <1>3

(* What a record adds to the run's own lines. *)
LEMMA RowAdded ==
  ASSUME TypeOK, OwnInv, NEW d \in Docs, NEW r \in Replies,
         file' = Append(file, [doc |-> d, reply |-> r]),
         UNCHANGED <<arm, left>>
  PROVE  /\ file' \in Seq(Rows \cup {MetaLine})
         /\ Found' <= Len(file') /\ \A k \in 1..Found' : file'[k] = left'[k]
         /\ OwnRows(d)' = OwnRows(d) \cup {Len(file) + 1}
         /\ \A c \in Docs : c # d => OwnRows(c)' = OwnRows(c)
         /\ HasMeta' <=> HasMeta
         /\ OwnDocs'
<1> DEFINE row == [doc |-> d, reply |-> r]
           n == Len(file) + 1
<1>1. row \in Rows \cup {MetaLine} /\ row.doc = d /\ row # MetaLine
  BY MetaIsNoRow
<1>2. file' = Append(file, row)
  OBVIOUS
<1> HIDE DEF row
<1>3. /\ file' \in Seq(Rows \cup {MetaLine})
      /\ Len(file) \in Nat /\ Len(file') = n
      /\ DOMAIN file = 1..Len(file)
      /\ DOMAIN file' = DOMAIN file \cup {n} /\ n \notin DOMAIN file
      /\ \A k \in DOMAIN file : file'[k] = file[k]
      /\ file'[n] = row
  BY <1>1, <1>2, NewLine DEF TypeOK
<1>4. Len(left) \in Nat
  BY LevelAssumption, LenProperties DEF TypeOK
<1>5. /\ Found' = Found /\ Found \in Nat /\ Found <= Len(file)
      /\ \A k \in 1..Found : file[k] = left[k]
  BY <1>4 DEF Found, OwnInv
<1>6. n > Found /\ 1..Found \subseteq DOMAIN file
  BY <1>3, <1>5
<1>7. Found' <= Len(file') /\ \A k \in 1..Found' : file'[k] = left'[k]
  BY <1>3, <1>5, <1>6
<1> HIDE DEF n
<1>8. /\ OwnRows(d)' = OwnRows(d) \cup {n}
      /\ \A c \in Docs : c # d => OwnRows(c)' = OwnRows(c)
  BY <1>1, <1>3, <1>5, <1>6 DEF OwnRows
<1>9. HasMeta' <=> HasMeta
  BY <1>1, <1>3, <1>5, <1>6 DEF HasMeta
<1>10. OwnDocs'
  BY <1>1, <1>3, <1>5, <1>6 DEF OwnDocs, OwnInv
<1> QED
  BY <1>3, <1>7, <1>8, <1>9, <1>10 DEF n

(* What the summary line adds to them. *)
LEMMA MetaAdded ==
  ASSUME TypeOK, OwnInv, file' = Append(file, MetaLine),
         UNCHANGED <<arm, left>>
  PROVE  /\ file' \in Seq(Rows \cup {MetaLine})
         /\ Found' <= Len(file') /\ \A k \in 1..Found' : file'[k] = left'[k]
         /\ \A c \in Docs : OwnRows(c)' = OwnRows(c)
         /\ HasMeta'
         /\ OwnDocs'
<1> DEFINE n == Len(file) + 1
<1>1. MetaLine \in Rows \cup {MetaLine} /\ \A d \in Docs : MetaLine.doc # d
  BY MetaIsNoRow
<1>3. /\ file' \in Seq(Rows \cup {MetaLine})
      /\ Len(file) \in Nat /\ Len(file') = n
      /\ DOMAIN file = 1..Len(file)
      /\ DOMAIN file' = DOMAIN file \cup {n} /\ n \notin DOMAIN file
      /\ \A k \in DOMAIN file : file'[k] = file[k]
      /\ file'[n] = MetaLine
  BY <1>1, NewLine DEF TypeOK
<1>4. Len(left) \in Nat
  BY LevelAssumption, LenProperties DEF TypeOK
<1>5. /\ Found' = Found /\ Found \in Nat /\ Found <= Len(file)
      /\ \A k \in 1..Found : file[k] = left[k]
  BY <1>4 DEF Found, OwnInv
<1>6. n > Found /\ 1..Found \subseteq DOMAIN file
  BY <1>3, <1>5
<1>7. Found' <= Len(file') /\ \A k \in 1..Found' : file'[k] = left'[k]
  BY <1>3, <1>5, <1>6
<1> HIDE DEF n
<1>8. \A c \in Docs : OwnRows(c)' = OwnRows(c)
  BY <1>1, <1>3, <1>5, <1>6 DEF OwnRows
<1>9. HasMeta'
  BY <1>3, <1>5, <1>6 DEF HasMeta
<1>10. OwnDocs'
  BY <1>3, <1>5, <1>6 DEF OwnDocs, OwnInv
<1> QED
  BY <1>3, <1>7, <1>8, <1>9, <1>10 DEF n

LEMMA SameLines ==
  ASSUME UNCHANGED <<arm, left, file>>
  PROVE  /\ Found' = Found
         /\ \A d : OwnRows(d)' = OwnRows(d)
         /\ HasMeta' <=> HasMeta
         /\ OwnDocs' <=> OwnDocs
         /\ Touched' = Touched
BY DEF Found, OwnRows, HasMeta, OwnDocs, Touched

-----------------------------------------------------------------------------
(* The inductive invariant                                                 *)

LEMMA InFlightFinite ==
  /\ IsFiniteSet(InFlight)
  /\ Cardinality(InFlight) \in Nat
  /\ \A d \in InFlight : Cardinality(InFlight) >= 1
<1>1. IsFiniteSet(InFlight)
  BY CorpusFacts, FS_Subset DEF InFlight
<1>2. Cardinality(InFlight) \in Nat
  BY <1>1, FS_CardinalityType
<1>3. \A d \in InFlight : Cardinality(InFlight) # 0
  BY <1>1, FS_EmptySet
<1> QED
  BY <1>1, <1>2, <1>3

(* The verdict is left alone until the validation. *)
LEMMA VerdictKept ==
  ASSUME VerdictInv, UNCHANGED <<arm, left, verdict>>,
         watch = "done" => UNCHANGED <<watch, file, there>>,
         watch' \in {"collect", "done"} => phase' = "ended"
  PROVE  VerdictInv'
<1>1. CASE verdict = "valid"
  <2>1. watch = "done" /\ UNCHANGED <<file, there, watch>> /\ Proven
    BY <1>1 DEF VerdictInv
  <2>2. Judged' = Judged
    BY <2>1 DEF Judged
  <2>3. Missing' = Missing /\ Strange' = Strange
    BY <2>2 DEF Missing, Strange, RowsOf
  <2>4. Proven'
    BY <2>1, <2>2, <2>3 DEF Proven, RowsOf
  <2> QED
    BY <2>1, <2>4 DEF VerdictInv
<1>2. CASE verdict # "valid"
  BY <1>2 DEF VerdictInv
<1> QED
  BY <1>1, <1>2

LEMMA InitIInv == Init => IInv
<1> SUFFICES ASSUME Init
             PROVE  IInv
  OBVIOUS
<1>1. left \in Seq(Rows \cup {MetaLine}) /\ Len(left) \in Nat
  BY LevelAssumption, LenProperties DEF Init
<1>2. /\ file \in Seq(Rows \cup {MetaLine}) /\ Len(file) \in Nat
      /\ DOMAIN file = 1..Len(file)
      /\ Found = Len(file) /\ \A k \in 1..Found : file[k] = left[k]
  BY <1>1, EmptySeq, LenProperties DEF Init, Found
<1>3. ~HasMeta /\ \A d : OwnRows(d) = {}
  BY <1>2 DEF HasMeta, OwnRows
<1>4. InFlight = {} /\ Cardinality(InFlight) = 0
  BY FS_EmptySet DEF Init, InFlight
<1>5. Queued = DOMAIN Corpus
  BY CorpusFacts DEF Init, Queued
<1>6. TypeOK
  <2>1. Timeout \in Nat \ {0} /\ Level \in Nat \ {0} /\ Stale \in Nat \ {0}
    BY LevelAssumption
  <2>2. age \in -1..Stale /\ lead \in NotBegun..Stale
    BY <2>1 DEF Init, NotBegun
  <2>3. based \in BOOLEAN /\ baseline \subseteq (Docs \cup Strangers) \X Texts
    BY LevelAssumption DEF Init
  <2>4. permits \in 0..Level /\ wait \in [Docs -> 0..Timeout]
    BY <2>1 DEF Init
  <2> QED
    BY <1>2, <2>2, <2>3, <2>4 DEF Init, TypeOK
<1>7. TaskInv
  BY <1>4, <1>5, LevelAssumption DEF Init, TaskInv
<1>8. TimeInv
  <2>1. phase = "starting" /\ ~Alive
    BY DEF Init, Alive
  <2>2. age >= Touched
    BY LevelAssumption DEF Init, Touched, Stepped
  <2> QED
    BY <2>1, <2>2 DEF TimeInv
<1>9. OwnInv
  BY <1>2, <1>3 DEF Init, OwnInv, OwnDocs
<1> QED
  BY <1>6, <1>7, <1>8, <1>9 DEF Init, IInv, VerdictInv

LEMMA BeginIInv == IInv /\ Begin => IInv'
<1> SUFFICES ASSUME IInv, Begin
             PROVE  IInv'
  OBVIOUS
<1>1. /\ phase = "starting"
      /\ \/ phase' = "run" /\ lead' = age /\ there' = TRUE
         \/ phase' = "ended" /\ lead' = lead /\ there' = there
      /\ UNCHANGED <<arm, left, old, task, wait, permits, stuck, file, age,
                     watch, killed, verdict, based, baseline>>
  BY DEF Begin, fileVars, scriptVars
<1>2. UNCHANGED <<Queued, InFlight>> /\ Touched' = Touched
  BY <1>1 DEF Queued, InFlight, Touched
<1>3. watch \notin {"collect", "done"} /\ verdict # "valid"
  BY <1>1 DEF IInv, VerdictInv
<1>4. TypeOK'
  <2>1. lead' \in NotBegun..Stale
    BY <1>1 DEF IInv, TypeOK, NotBegun
  <2> QED
    BY <1>1, <2>1 DEF IInv, TypeOK
<1>5. TaskInv'
  BY <1>1, <1>2 DEF IInv, TaskInv
<1>6. TimeInv'
  <2>1. \A d \in InFlight : FALSE
    BY <1>1 DEF IInv, TaskInv, InFlight
  <2>2. age \in Int
    BY DEF IInv, TypeOK
  <2> QED
    BY <1>1, <1>2, <2>1, <2>2 DEF IInv, TimeInv, Alive
<1>7. OwnInv'
  BY <1>1, SameLines DEF IInv, OwnInv
<1>8. VerdictInv'
  BY <1>1, <1>3 DEF VerdictInv
<1> QED
  BY <1>4, <1>5, <1>6, <1>7, <1>8 DEF IInv

LEMMA StartIInv == IInv /\ Start => IInv'
<1> SUFFICES ASSUME IInv, Start
             PROVE  IInv'
  OBVIOUS
<1>1. Queued \subseteq DOMAIN Corpus /\ Queued \subseteq Nat /\ Queued # {}
  BY CorpusFacts DEF Start, CanStart, Queued
<1>2. PICK n \in Queued : \A m \in Queued : n <= m
  BY <1>1, LeastOf
<1>3. \A m \in Queued : (\A j \in Queued : m <= j) => m = n
  BY <1>1, <1>2
<1>4. (CHOOSE k \in Queued : \A j \in Queued : k <= j) = n
  BY <1>2, <1>3
<1> PICK d \in Docs : d = Corpus[n]
  BY <1>1, CorpusFacts
<1>5. task[d] = "queued" /\ \A k \in DOMAIN Corpus : Corpus[k] = d => k = n
  BY <1>1, CorpusFacts DEF Queued
<1>6. /\ Alive
      /\ arm \in Stepped => permits > 0
      /\ \/ /\ permits' = IF arm \in Stepped THEN permits - 1 ELSE permits
            /\ task' = [task EXCEPT ![d] = "sent"] /\ phase' = phase
         \/ /\ task' = [task EXCEPT ![d] = "dead"] /\ phase' = "failing"
            /\ permits' = permits
      /\ UNCHANGED <<arm, left, old, wait, lead, stuck, there, file, age,
                     watch, killed, verdict, based, baseline>>
  BY <1>4 DEF Start, CanStart, Turning, fileVars, scriptVars
<1>7. /\ phase \in {"run", "failing"} /\ phase' \in {"run", "failing"}
      /\ watch \notin {"collect", "done"} /\ verdict # "valid" /\ ~HasMeta
  BY <1>6 DEF Alive, IInv, VerdictInv, OwnInv
<1>8. /\ task' \in [Docs -> {"queued", "sent", "over", "dead"}]
      /\ task'[d] \in {"sent", "dead"}
      /\ \A c \in Docs : c # d => task'[c] = task[c]
  BY <1>6 DEF IInv, TypeOK
<1>9. Queued' = Queued \ {n}
  BY <1>1, <1>5, <1>8, CorpusFacts DEF Queued
<1>10. TypeOK'
  <2>1. permits' \in 0..Level
    BY <1>6, LevelAssumption DEF IInv, TypeOK
  <2> QED
    BY <1>6, <1>7, <1>8, <2>1 DEF IInv, TypeOK
<1>11. TaskInv'
  <2>1. arm' \in Stepped => permits' + Cardinality(InFlight') = Level
    <3> SUFFICES ASSUME arm \in Stepped
                 PROVE  permits' + Cardinality(InFlight') = Level
      BY <1>6
    <3>1. /\ permits + Cardinality(InFlight) = Level
          /\ IsFiniteSet(InFlight) /\ Cardinality(InFlight) \in Nat
          /\ permits \in Nat /\ d \notin InFlight
      BY <1>5, InFlightFinite DEF IInv, TypeOK, TaskInv, InFlight
    <3>2. CASE task' = [task EXCEPT ![d] = "sent"] /\ permits' = permits - 1
      <4>1. InFlight' = InFlight \cup {d}
        BY <3>2 DEF InFlight, IInv, TypeOK
      <4>2. Cardinality(InFlight') = Cardinality(InFlight) + 1
        BY <3>1, <4>1, FS_AddElement
      <4> QED
        BY <3>1, <3>2, <4>2
    <3>3. CASE task' = [task EXCEPT ![d] = "dead"] /\ permits' = permits
      <4>1. InFlight' = InFlight
        BY <1>5, <3>3 DEF InFlight, IInv, TypeOK
      <4> QED
        BY <3>1, <3>3, <4>1
    <3> QED
      BY <1>6, <3>2, <3>3
  <2>2. \A j \in Queued', k \in DOMAIN Corpus : k > j => k \in Queued'
    <3> SUFFICES ASSUME NEW j \in Queued', NEW k \in DOMAIN Corpus, k > j
                 PROVE  k \in Queued'
      OBVIOUS
    <3>1. j \in Queued /\ n <= j /\ k \in Queued /\ k \in Nat /\ j \in Nat /\ n \in Nat
      BY <1>1, <1>2, <1>9 DEF IInv, TaskInv
    <3> QED
      BY <1>9, <3>1
  <2>3. \A c \in Docs : task'[c] = "queued" => wait'[c] = 0
    BY <1>6, <1>8 DEF IInv, TaskInv
  <2> QED
    BY <1>7, <2>1, <2>2, <2>3 DEF TaskInv
<1>12. TimeInv'
  <2>1. Touched' = Touched
    BY <1>6 DEF Touched
  <2>2. stuck = "never" => age <= lead /\ age \in Int /\ lead \in Int
    BY <1>6 DEF Start, IInv, TimeInv, TypeOK
  <2>3. wait[d] = 0
    BY <1>5 DEF IInv, TaskInv
  <2>4. stuck = "never" => \A c \in InFlight' : age' <= lead' + wait'[c]
    <3> SUFFICES ASSUME stuck = "never", NEW c \in InFlight'
                 PROVE  age <= lead + wait[c]
      BY <1>6
    <3>1. CASE c = d
      BY <2>2, <2>3, <3>1
    <3>2. CASE c # d
      BY <1>6, <1>8, <3>2 DEF IInv, TimeInv, InFlight
    <3> QED
      BY <3>1, <3>2
  <2> QED
    BY <1>6, <1>7, <2>1, <2>2, <2>4 DEF IInv, TimeInv
<1>13. OwnInv'
  <2>1. \A c \in Docs : task'[c] = "over" <=> task[c] = "over"
    BY <1>5, <1>8
  <2> QED
    BY <1>6, <1>7, <2>1, SameLines DEF IInv, OwnInv
<1>14. VerdictInv'
  BY <1>6, <1>7 DEF VerdictInv
<1> QED
  BY <1>10, <1>11, <1>12, <1>13, <1>14 DEF IInv

(* A record leaves no gap: it gives back the permit and makes the file     *)
(* fresh.                                                                  *)
LEMMA WriteRowIInv ==
  ASSUME IInv, Alive, NEW d \in InFlight, NEW r \in Replies, WriteRow(d, r),
         UNCHANGED <<arm, left, old, phase, lead, stuck, there, scriptVars>>
  PROVE  IInv'
<1> USE DEF scriptVars
<1>1. d \in Docs /\ task[d] = "sent"
  BY DEF InFlight
<1>2. /\ file' = Append(file, [doc |-> d, reply |-> r]) /\ age' = Touched
      /\ task' = [task EXCEPT ![d] = "over"] /\ wait' = [wait EXCEPT ![d] = 0]
      /\ permits' = IF arm \in Stepped THEN permits + 1 ELSE permits
  BY DEF WriteRow, Release
<1>3. /\ phase \in {"run", "failing"} /\ phase' \in {"run", "failing"}
      /\ watch \notin {"collect", "done"} /\ verdict # "valid" /\ ~HasMeta
  BY DEF Alive, IInv, VerdictInv, OwnInv
<1>4. /\ task' \in [Docs -> {"queued", "sent", "over", "dead"}]
      /\ wait' \in [Docs -> 0..Timeout]
      /\ task'[d] = "over" /\ wait'[d] = 0
      /\ \A c \in Docs : c # d => task'[c] = task[c] /\ wait'[c] = wait[c]
  BY <1>1, <1>2, LevelAssumption DEF IInv, TypeOK
<1>5. Queued' = Queued
  BY <1>1, <1>4, CorpusFacts DEF Queued
<1>6. InFlight' = InFlight \ {d}
  BY <1>1, <1>4 DEF InFlight
<1>7. /\ IsFiniteSet(InFlight) /\ Cardinality(InFlight) \in Nat
      /\ Cardinality(InFlight) >= 1
      /\ Cardinality(InFlight') = Cardinality(InFlight) - 1
  BY <1>6, InFlightFinite, FS_RemoveElement
<1>8. /\ file' \in Seq(Rows \cup {MetaLine})
      /\ Found' <= Len(file') /\ \A k \in 1..Found' : file'[k] = left'[k]
      /\ OwnRows(d)' = OwnRows(d) \cup {Len(file) + 1}
      /\ \A c \in Docs : c # d => OwnRows(c)' = OwnRows(c)
      /\ HasMeta' <=> HasMeta
      /\ OwnDocs'
  BY <1>1, <1>2, RowAdded DEF IInv
<1>9. Touched' = Touched /\ Touched \in -1..0
  BY DEF Touched
<1>10. TypeOK'
  <2>1. permits' \in 0..Level
    BY <1>2, <1>7, LevelAssumption DEF IInv, TypeOK, TaskInv
  <2>2. age' \in -1..Stale
    BY <1>2, <1>9, LevelAssumption
  <2> QED
    BY <1>4, <1>8, <2>1, <2>2 DEF IInv, TypeOK
<1>11. TaskInv'
  <2>1. arm' \in Stepped => permits' + Cardinality(InFlight') = Level
    BY <1>2, <1>7 DEF IInv, TypeOK, TaskInv
  <2>2. \A c \in Docs : task'[c] = "queued" => wait'[c] = 0
    BY <1>4 DEF IInv, TaskInv
  <2>3. \A j \in Queued', k \in DOMAIN Corpus : k > j => k \in Queued'
    BY <1>5 DEF IInv, TaskInv
  <2> QED
    BY <1>3, <2>1, <2>2, <2>3 DEF TaskInv
<1>12. TimeInv'
  <2>1. stuck = "never" => /\ lead' >= Touched' /\ age' <= lead'
                           /\ lead' \in Int /\ age' \in Int
    BY <1>2, <1>9 DEF IInv, TimeInv, TypeOK
  <2>2. \A c \in InFlight' : wait'[c] \in Nat
    BY <1>4, LevelAssumption DEF InFlight
  <2>3. stuck = "never" => \A c \in InFlight' : age' <= lead' + wait'[c]
    BY <2>1, <2>2
  <2> QED
    BY <1>3, <2>1, <2>3 DEF TimeInv
<1>13. OwnInv'
  <2>1. OwnRows(d) = {}
    BY <1>1 DEF IInv, OwnInv
  <2>2. \A c \in Docs : \A j, k \in OwnRows(c)' : j = k
    BY <1>8, <2>1 DEF IInv, OwnInv
  <2>3. \A c \in Docs : task'[c] = "over" <=> OwnRows(c)' # {}
    BY <1>4, <1>8 DEF IInv, OwnInv
  <2> QED
    BY <1>3, <1>8, <2>2, <2>3 DEF OwnInv
<1>14. VerdictInv'
  BY <1>3 DEF VerdictInv
<1> QED
  BY <1>10, <1>11, <1>12, <1>13, <1>14 DEF IInv

LEMMA FinishIInv == IInv /\ (Finish \/ Expire) => IInv'
<1> SUFFICES ASSUME IInv, Finish \/ Expire
             PROVE  IInv'
  OBVIOUS
<1>1. PICK d \in InFlight, r \in Replies : WriteRow(d, r)
  BY DEF Finish, Expire, Replies
<1>2. Alive /\ UNCHANGED <<arm, left, old, phase, lead, stuck, there, scriptVars>>
  BY DEF Finish, Expire, Turning
<1> QED
  BY <1>1, <1>2, WriteRowIInv

(* The ends of the driver: the tasks are left as they are, and the summary *)
(* line is written once, when all documents are over.                      *)
LEMMA EndIInv == IInv /\ (Stop \/ Close \/ Exit) => IInv'
<1> SUFFICES ASSUME IInv, Stop \/ Close \/ Exit
             PROVE  IInv'
  OBVIOUS
<1>1. /\ UNCHANGED <<arm, left, old, task, wait, permits, lead, stuck, there,
                     watch, killed, verdict, based, baseline>>
      /\ WriteMeta \/ UNCHANGED <<file, age>>
      /\ phase \notin {"starting", "ended"}
      /\ phase' \in {"closing", "ended"}
      /\ phase' = "closing" => phase = "run"
      /\ phase' = "closing" /\ arm = "rr_stepped" => WriteMeta
      /\ phase' = "closing" /\ arm # "rr_stepped" => UNCHANGED <<file, age>>
      /\ WriteMeta => \A d \in Docs : task[d] = "over"
      /\ phase' = "closing" => \A d \in Docs : task[d] = "over"
  <2>1. CASE Stop
    BY <2>1 DEF Stop, scriptVars, fileVars
  <2>2. CASE Close
    BY <2>2 DEF Close, scriptVars, fileVars, IInv, TaskInv
  <2>3. CASE Exit
    <3>1. /\ UNCHANGED <<arm, left, old, task, wait, permits, lead, stuck,
                         there, file, age, watch, killed, verdict, based,
                         baseline>>
          /\ phase = "failing" /\ phase' = "ended"
      BY <2>3 DEF Exit, scriptVars, fileVars
    <3>2. ~WriteMeta
      <4>1. Len(file) \in Nat /\ MetaLine \in Rows \cup {MetaLine}
        BY LenProperties, MetaIsNoRow DEF IInv, TypeOK
      <4>2. Len(Append(file, MetaLine)) = Len(file) + 1
        BY <4>1, AppendProperties DEF IInv, TypeOK
      <4> QED
        BY <3>1, <4>1, <4>2 DEF WriteMeta
    <3> QED
      BY <3>1, <3>2
  <2> QED
    BY <2>1, <2>2, <2>3
<1>2. UNCHANGED <<Queued, InFlight>> /\ Touched' = Touched
  BY <1>1 DEF Queued, InFlight, Touched
<1>3. watch \notin {"collect", "done"} /\ verdict # "valid"
  BY <1>1 DEF IInv, VerdictInv
<1>4. file' \in Seq(Rows \cup {MetaLine}) /\ age' \in -1..Stale
  <2>1. CASE WriteMeta
    BY <1>1, <2>1, MetaAdded, LevelAssumption
    DEF IInv, WriteMeta, Touched
  <2> QED
    BY <1>1, <2>1 DEF IInv, TypeOK
<1>5. TypeOK'
  BY <1>1, <1>4 DEF IInv, TypeOK
<1>6. TaskInv'
  BY <1>1, <1>2 DEF IInv, TaskInv
<1>7. TimeInv'
  BY <1>1 DEF TimeInv, Alive
<1>8. OwnInv'
  <2>1. CASE WriteMeta
    <3>1. /\ Found' <= Len(file') /\ \A k \in 1..Found' : file'[k] = left'[k]
          /\ \A c \in Docs : OwnRows(c)' = OwnRows(c)
          /\ HasMeta' /\ OwnDocs'
      BY <1>1, <2>1, MetaAdded DEF IInv, WriteMeta
    <3>2. phase' = "closing" => arm' = "rr_stepped"
      <4>1. Len(file) \in Nat /\ MetaLine \in Rows \cup {MetaLine}
        BY LenProperties, MetaIsNoRow DEF IInv, TypeOK
      <4>2. Len(Append(file, MetaLine)) = Len(file) + 1
        BY <4>1, AppendProperties DEF IInv, TypeOK
      <4>3. file' # file
        BY <2>1, <4>1, <4>2 DEF WriteMeta
      <4> QED
        BY <1>1, <4>3
    <3> QED
      BY <1>1, <2>1, <3>1, <3>2 DEF IInv, OwnInv
  <2>2. CASE UNCHANGED <<file, age>> /\ ~WriteMeta
    <3>1. /\ Found' = Found
          /\ \A d : OwnRows(d)' = OwnRows(d)
          /\ HasMeta' <=> HasMeta
          /\ OwnDocs' <=> OwnDocs
      BY <1>1, <2>2, SameLines
    <3>2. phase' = "closing" => ~HasMeta' /\ arm' # "rr_stepped"
      BY <1>1, <2>2, <3>1 DEF IInv, OwnInv
    <3> QED
      BY <1>1, <2>2, <3>1, <3>2 DEF IInv, OwnInv
  <2> QED
    BY <1>1, <2>1, <2>2
<1>9. VerdictInv'
  BY <1>1, <1>3 DEF VerdictInv
<1> QED
  BY <1>5, <1>6, <1>7, <1>8, <1>9 DEF IInv

(* Time passes only when nothing is ready, so the file ages with the wait  *)
(* of every document in flight.                                            *)
LEMMA PollIInv == IInv /\ Poll => IInv'
<1> SUFFICES ASSUME IInv, Poll
             PROVE  IInv'
  OBVIOUS
<1>1. /\ watch = "polling" /\ Idle /\ wait' = Wait
      /\ \/ age' = age /\ watch' = "died"
         \/ age + 1 >= Stale /\ age' = Stale /\ watch' = "killing"
         \/ /\ age + 1 < Stale /\ age' = age + 1
            /\ watch' = IF phase = "ended" THEN "collect" ELSE "polling"
      /\ UNCHANGED <<arm, left, old, task, permits, lead, stuck, there, file,
                     phase, killed, verdict, based, baseline>>
  BY DEF Poll
<1>2. UNCHANGED <<Queued, InFlight>> /\ Touched' = Touched
  BY <1>1 DEF Queued, InFlight, Touched
<1>3. verdict # "valid"
  BY <1>1 DEF IInv, VerdictInv
<1>4. \A d \in Docs :
        wait'[d] = IF Alive /\ task[d] = "sent" /\ wait[d] < Timeout
                   THEN wait[d] + 1 ELSE wait[d]
  BY <1>1 DEF Wait
<1>5. wait' \in [Docs -> 0..Timeout]
  <2>1. ASSUME NEW d \in Docs
        PROVE  wait'[d] \in 0..Timeout
    <3>1. wait[d] \in 0..Timeout /\ Timeout \in Nat
      BY LevelAssumption DEF IInv, TypeOK
    <3> QED
      BY <1>4, <3>1
  <2> QED
    BY <1>1, <2>1 DEF Wait
<1>6. age' \in -1..Stale /\ age' <= age + 1 /\ age' >= age
  BY <1>1, LevelAssumption DEF IInv, TypeOK
<1>7. TypeOK'
  BY <1>1, <1>5, <1>6 DEF IInv, TypeOK
<1>8. TaskInv'
  <2>1. \A d \in Docs : task'[d] = "queued" => wait'[d] = 0
    BY <1>1, <1>4 DEF IInv, TaskInv
  <2> QED
    BY <1>1, <1>2, <2>1 DEF IInv, TaskInv
<1>9. TimeInv'
  <2>1. ~CanStart' /\ Alive' = Alive
    BY <1>1, <1>2 DEF Idle, CanStart, Alive, Turning
  <2>2. age \in Int /\ age' \in Int /\ lead \in Int /\ Touched \in Int
    BY <1>6 DEF IInv, TypeOK, Touched, NotBegun
  <2>3. phase' = "starting" => age' >= Touched'
    BY <1>1, <1>2, <1>6, <2>2 DEF IInv, TimeInv
  <2>4. ASSUME Alive, stuck = "never", NEW d \in InFlight
        PROVE  age' <= lead' + wait'[d]
    <3>1. d \in Docs /\ task[d] = "sent" /\ wait[d] < Timeout
      BY <1>1, <2>4 DEF Idle, Turning, InFlight
    <3>2. wait'[d] = wait[d] + 1 /\ wait[d] \in Int
      BY <1>4, <2>4, <3>1 DEF IInv, TypeOK
    <3>3. age <= lead + wait[d]
      BY <2>4 DEF IInv, TimeInv
    <3> QED
      BY <1>1, <1>6, <2>2, <3>2, <3>3
  <2> QED
    BY <1>1, <1>2, <2>1, <2>3, <2>4 DEF IInv, TimeInv
<1>10. OwnInv'
  <2>1. /\ Found' = Found
        /\ \A d : OwnRows(d)' = OwnRows(d)
        /\ HasMeta' <=> HasMeta
        /\ OwnDocs' <=> OwnDocs
    BY <1>1, SameLines
  <2> QED
    BY <1>1, <2>1 DEF IInv, OwnInv
<1>11. VerdictInv'
  BY <1>1, <1>3 DEF VerdictInv
<1> QED
  BY <1>7, <1>8, <1>9, <1>10, <1>11 DEF IInv

(* A file that is opened, a loop that is blocked or comes back, a driver   *)
(* that is killed: no line and no task is touched.                         *)
LEMMA OtherIInv == IInv /\ (Open \/ Wedge \/ Recover \/ Kill) => IInv'
<1> SUFFICES ASSUME IInv, Open \/ Wedge \/ Recover \/ Kill
             PROVE  IInv'
  OBVIOUS
<1>1. /\ UNCHANGED <<arm, left, old, task, wait, permits, lead, file, age,
                     verdict, based, baseline>>
      /\ watch \notin {"collect", "done"}
      /\ \/ phase = "starting" /\ there' = TRUE
            /\ UNCHANGED <<phase, stuck, watch, killed>>
         \/ Alive /\ stuck' \in {"now", "was"}
            /\ UNCHANGED <<phase, there, watch, killed>>
         \/ /\ phase' = "ended" /\ killed' = TRUE /\ watch' = "collect"
            /\ UNCHANGED <<there, stuck>>
  <2>1. phase = "starting" \/ Alive => watch \notin {"collect", "done"}
    BY DEF IInv, VerdictInv, Alive
  <2> QED
    BY <2>1 DEF Open, Wedge, Recover, Kill, fileVars, scriptVars
<1>2. UNCHANGED <<Queued, InFlight>> /\ Touched' = Touched
  BY <1>1 DEF Queued, InFlight, Touched
<1>3. verdict # "valid"
  BY <1>1 DEF IInv, VerdictInv
<1>4. TypeOK'
  BY <1>1 DEF IInv, TypeOK
<1>5. TaskInv'
  BY <1>1, <1>2 DEF IInv, TaskInv, Alive
<1>6. TimeInv'
  BY <1>1, <1>2 DEF IInv, TimeInv, Alive
<1>7. OwnInv'
  <2>1. /\ Found' = Found
        /\ \A d : OwnRows(d)' = OwnRows(d)
        /\ HasMeta' <=> HasMeta
        /\ OwnDocs' <=> OwnDocs
    BY <1>1, SameLines
  <2>2. phase' \in {phase, "ended"}
    BY <1>1
  <2> QED
    BY <1>1, <2>1, <2>2 DEF IInv, OwnInv
<1>8. VerdictInv'
  BY <1>1, <1>3 DEF IInv, VerdictInv, Alive
<1> QED
  BY <1>4, <1>5, <1>6, <1>7, <1>8 DEF IInv

-----------------------------------------------------------------------------
(* The validator                                                           *)

LEMMA JudgedLines ==
  ASSUME TypeOK
  PROVE  /\ Judged \in Seq(Rows \cup {MetaLine})
         /\ RowsOf(Judged) \subseteq DOMAIN Judged /\ IsFiniteSet(RowsOf(Judged))
         /\ \A k \in RowsOf(Judged) : /\ Judged[k].doc \in Docs \cup Strangers
                                      /\ Judged[k].reply \in Replies
<1>1. Judged \in Seq(Rows \cup {MetaLine})
  BY LevelAssumption DEF TypeOK, Judged
<1>2. /\ Len(Judged) \in Nat /\ DOMAIN Judged = 1..Len(Judged)
      /\ \A k \in DOMAIN Judged : Judged[k] \in Rows \cup {MetaLine}
  BY <1>1, LenProperties, ElementOfSeq
<1>3. IsFiniteSet(DOMAIN Judged)
  BY <1>2, FS_Interval
<1>4. RowsOf(Judged) \subseteq DOMAIN Judged /\ IsFiniteSet(RowsOf(Judged))
  BY <1>3, FS_Subset DEF RowsOf
<1>5. \A k \in RowsOf(Judged) :
        Judged[k].doc \in Docs \cup Strangers /\ Judged[k].reply \in Replies
  BY <1>2, MetaIsNoRow DEF RowsOf
<1> QED
  BY <1>1, <1>4, <1>5

(* The two counts of the validator leave no document two records, and for  *)
(* every document that has none there is a record of a stranger.           *)
LEMMA OneRecordEach ==
  ASSUME TypeOK,
         Cardinality(RowsOf(Judged)) = Cardinality(Docs),
         Cardinality({Judged[k].doc : k \in RowsOf(Judged)}) =
           Cardinality(RowsOf(Judged))
  PROVE  /\ \A j, k \in RowsOf(Judged) : Judged[j].doc = Judged[k].doc => j = k
         /\ Cardinality(Missing) = Cardinality(Strange)
<1> DEFINE R == RowsOf(Judged)
           D == {Judged[k].doc : k \in R}
           S == {k \in R : Judged[k].doc \notin Docs}
           f == [k \in R |-> Judged[k].doc]
           g == [k \in S |-> Judged[k].doc]
<1>1. IsFiniteSet(R) /\ IsFiniteSet(Docs) /\ Strange = S
  BY JudgedLines, CorpusFacts DEF Strange
<1>2. Cardinality(D) = Cardinality(R) /\ Cardinality(R) = Cardinality(Docs)
  OBVIOUS
<1>3. f \in Surjection(R, D) /\ g \in Surjection(S, D \ Docs)
  BY DEF Surjection
<1>4. Missing = Docs \ D
  BY DEF Missing
<1>5. IsFiniteSet(D)
  <2> HIDE DEF D, R, f, S, g
  <2> QED
    BY <1>1, <1>3, FS_Surjection
<1>6. f \in Injection(R, D)
  <2> HIDE DEF D, R, f, S, g
  <2> QED
    BY <1>1, <1>2, <1>3, <1>5, FS_SurjSameCardinalityImpliesInj
<1>7. \A j, k \in R : f[j] = f[k] => j = k
  <2> HIDE DEF D, R, f, S, g
  <2> QED
    BY <1>6 DEF Injection, IsInjective
<1>8. \A j, k \in R : Judged[j].doc = Judged[k].doc => j = k
  BY <1>7
<1>9. g \in Bijection(S, D \ Docs)
  <2>1. g \in Injection(S, D \ Docs)
    BY <1>3, <1>8 DEF Injection, IsInjective, Surjection
  <2> QED
    BY <1>3, <2>1 DEF Bijection
<1> HIDE DEF D, R, f, S, g
<1>10. IsFiniteSet(S) /\ Cardinality(S) = Cardinality(D \ Docs)
  <2>1. IsFiniteSet(S)
    BY <1>1, FS_Subset DEF S
  <2>2. \E h : h \in Bijection(S, D \ Docs)
    BY <1>9
  <2> QED
    BY <2>1, <2>2, FS_Bijection DEF ExistsBijection
<1>11. /\ Cardinality(D \ Docs) = Cardinality(D) - Cardinality(D \cap Docs)
       /\ Cardinality(Docs \ D) = Cardinality(Docs) - Cardinality(Docs \cap D)
  BY <1>1, <1>5, FS_Difference
<1>12. D \cap Docs = Docs \cap D
  OBVIOUS
<1>13. Cardinality(Docs \ D) = Cardinality(D \ Docs)
  BY <1>2, <1>11, <1>12
<1> QED
  BY <1>1, <1>4, <1>8, <1>10, <1>13 DEF R

(* A record of a stranger is one that an earlier run has left.             *)
LEMMA StrangersAreLeft ==
  ASSUME TypeOK, OwnInv, NEW k \in Strange
  PROVE  k \in DOMAIN left /\ Judged[k] = left[k]
<1>1. k \in DOMAIN Judged /\ Judged[k] # MetaLine /\ Judged[k].doc \notin Docs
  BY DEF Strange, RowsOf
<1>2. CASE arm = "rr_burst" /\ ~there
  BY <1>1, <1>2 DEF Judged
<1>3. CASE ~(arm = "rr_burst" /\ ~there)
  <2>1. Judged = file
    BY <1>3 DEF Judged
  <2>2. /\ Len(left) \in Nat /\ DOMAIN left = 1..Len(left)
        /\ Len(file) \in Nat /\ DOMAIN file = 1..Len(file)
    BY LevelAssumption, LenProperties DEF TypeOK
  <2>3. ~(k > Found)
    BY <1>1, <2>1 DEF OwnInv, OwnDocs
  <2>4. k \in 1..Found /\ Found \in {0, Len(left)}
    BY <1>1, <2>1, <2>2, <2>3 DEF Found
  <2>5. file[k] = left[k]
    BY <2>4 DEF OwnInv
  <2>6. k \in DOMAIN left
    <3>1. CASE Found = Len(left)
      BY <2>2, <2>4, <3>1
    <3>2. CASE Found = 0
      BY <2>4, <3>2
    <3> QED
      BY <2>4, <3>1, <3>2
  <2> QED
    BY <2>1, <2>5, <2>6
<1> QED
  BY <1>2, <1>3

(* What the gates of an arm let through. *)
LEMMA ValidProven == TypeOK /\ OwnInv /\ Valid => Proven
<1> SUFFICES ASSUME TypeOK, OwnInv, Valid, NEW d \in Docs \ Missing
             PROVE  \E k \in RowsOf(Judged) :
    /\ \A j \in RowsOf(Judged) : Judged[j].doc = d => j = k
    /\ Judged[k].doc = d
    /\ Judged[k].reply \in
         {"good"}
         \cup (IF arm \in Stepped THEN {} ELSE {"alien"})
         \cup (IF arm # "rr_burst" /\ d \in Truth THEN {} ELSE {"other"})
         \cup (IF arm \in {"lg_stepped", "lg_burst"} /\ d \notin Truth
               THEN {"empty"} ELSE {})
  <2>1. TypeOK /\ OwnInv /\ Valid =>
          /\ Cardinality(Missing) = Cardinality(Strange)
          /\ \A k \in Strange : k \in DOMAIN left /\ Judged[k] = left[k]
    BY OneRecordEach, StrangersAreLeft DEF Valid
  <2> QED
    BY <2>1 DEF Proven
<1>1. PICK k \in RowsOf(Judged) :
        /\ Judged[k].doc = d
        /\ \A j \in RowsOf(Judged) : Judged[j].doc = d => j = k
  BY OneRecordEach DEF Valid, Missing
<1> DEFINE reply == Judged[k].reply
<1>2. k \in OkRows
  BY DEF Valid
<1>3. /\ reply \in Accepted[arm] /\ reply \notin {"wrongdim", "nonfinite"}
      /\ reply \in Replies
  BY <1>2, JudgedLines DEF Valid, OkRows
<1>4. arm # "rr_burst" /\ d \in Truth => Text(k) = "expected"
  BY <1>1, <1>2 DEF Valid, HashesMatch
<1>5. arm # "rr_burst" /\ d \in Truth => reply \notin {"other", "empty"}
  BY <1>4 DEF Text
<1>6. arm \in Stepped \cup {"rr_burst", "lg_burst"}
  BY LevelAssumption DEF TypeOK
<1> HIDE DEF reply
<1>7. \/ arm = "rr_stepped" /\ reply \in {"good", "other"}
      \/ arm = "lg_stepped" /\ reply \in {"good", "other", "empty"}
      \/ arm = "rr_burst" /\ reply \in {"good", "other", "alien"}
      \/ arm = "lg_burst" /\ reply \in {"good", "other", "empty", "alien"}
  <2>1. /\ Accepted["rr_stepped"] = {"good", "other"}
        /\ Accepted["lg_stepped"] = {"good", "other", "empty", "wrongdim"}
        /\ Accepted["rr_burst"] = {"good", "other", "wrongdim", "nonfinite", "alien"}
        /\ Accepted["lg_burst"] = Replies \ {"error"}
    BY DEF Accepted
  <2> QED
    BY <1>3, <1>6, <2>1 DEF Stepped, Replies
<1>8. reply \in
        {"good"}
        \cup (IF arm \in Stepped THEN {} ELSE {"alien"})
        \cup (IF arm # "rr_burst" /\ d \in Truth THEN {} ELSE {"other"})
        \cup (IF arm \in {"lg_stepped", "lg_burst"} /\ d \notin Truth
              THEN {"empty"} ELSE {})
  BY <1>5, <1>7 DEF Stepped
<1> QED
  BY <1>1, <1>8 DEF reply

LEMMA ValidateIInv == IInv /\ Validate => IInv'
<1> SUFFICES ASSUME IInv, Validate
             PROVE  IInv'
  OBVIOUS
<1>1. /\ watch = "collect" /\ watch' = "done"
      /\ UNCHANGED <<arm, left, old, phase, task, wait, permits, lead, stuck,
                     there, file, age, killed>>
      /\ verdict' \in {"none", "valid", "invalid"}
      /\ verdict' = "valid" => Valid
  BY DEF Validate, driverVars, fileVars
<1>2. based' \in BOOLEAN /\ baseline' \subseteq (Docs \cup Strangers) \X Texts
  <2>1. CASE UNCHANGED <<based, baseline>>
    BY <2>1 DEF IInv, TypeOK
  <2>2. CASE based' = TRUE /\ baseline' = Hashes
    <3>1. \A k \in OkRows : /\ Judged[k].doc \in Docs \cup Strangers
                            /\ Text(k) \in Texts
      BY JudgedLines DEF IInv, OkRows, Text, Texts
    <3> QED
      BY <2>2, <3>1 DEF Hashes
  <2> QED
    BY <2>1, <2>2 DEF Validate
<1>3. UNCHANGED <<Queued, InFlight>> /\ Touched' = Touched /\ Judged' = Judged
  BY <1>1 DEF Queued, InFlight, Touched, Judged
<1>4. TypeOK'
  BY <1>1, <1>2 DEF IInv, TypeOK
<1>5. TaskInv'
  BY <1>1, <1>3 DEF IInv, TaskInv
<1>6. TimeInv'
  BY <1>1, <1>3 DEF IInv, TimeInv, Alive, CanStart, Turning
<1>7. OwnInv'
  BY <1>1, SameLines DEF IInv, OwnInv
<1>8. VerdictInv'
  <2>1. phase = "ended"
    BY <1>1 DEF IInv, VerdictInv
  <2>2. verdict' = "valid" => Proven
    BY <1>1, ValidProven DEF IInv
  <2>3. Missing' = Missing /\ Strange' = Strange
    BY <1>3 DEF Missing, Strange, RowsOf
  <2>4. Proven => Proven'
    BY <1>1, <1>3, <2>3 DEF Proven, RowsOf
  <2> QED
    BY <1>1, <2>1, <2>2, <2>4 DEF VerdictInv
<1> QED
  BY <1>4, <1>5, <1>6, <1>7, <1>8 DEF IInv

LEMMA NextIInv == IInv /\ [Next]_vars => IInv'
<1>1. IInv /\ UNCHANGED vars => IInv'
  <2> SUFFICES ASSUME IInv, UNCHANGED vars
               PROVE  IInv'
    OBVIOUS
  <2>1. /\ UNCHANGED <<arm, left, old, phase, task, wait, permits, lead>>
        /\ UNCHANGED <<stuck, there, file, age>>
        /\ UNCHANGED <<watch, killed, verdict, based, baseline>>
    BY DEF vars, driverVars, fileVars, scriptVars
  <2>2. UNCHANGED <<Queued, InFlight>> /\ Touched' = Touched /\ Judged' = Judged
    BY <2>1 DEF Queued, InFlight, Touched, Judged
  <2>3. TypeOK'
    BY <2>1 DEF IInv, TypeOK
  <2>4. TaskInv' /\ TimeInv'
    BY <2>1, <2>2 DEF IInv, TaskInv, TimeInv, Alive, CanStart, Turning
  <2>5. OwnInv'
    BY <2>1, SameLines DEF IInv, OwnInv
  <2>6. VerdictInv'
    BY <2>1, VerdictKept DEF IInv, VerdictInv
  <2> QED
    BY <2>3, <2>4, <2>5, <2>6 DEF IInv
<1> QED
  BY <1>1, BeginIInv, StartIInv, FinishIInv, EndIInv, PollIInv, OtherIInv,
     ValidateIInv
  DEF Next, Driver

(* The run's own lines are those behind the ones it found. *)
LEMMA OwnLines ==
  ASSUME TypeOK, OwnInv
  PROVE  /\ Found \in Nat /\ Len(file) \in Nat /\ Found <= Len(file)
         /\ Len(Own) = Len(file) - Found
         /\ DOMAIN Own = 1..(Len(file) - Found)
         /\ \A k \in DOMAIN Own : Own[k] = file[k + Found]
         /\ MetaLine \in Range(Own) <=> HasMeta
<1>1. /\ left \in Seq(Rows \cup {MetaLine}) /\ file \in Seq(Rows \cup {MetaLine})
      /\ Len(left) \in Nat
      /\ Len(file) \in Nat /\ DOMAIN file = 1..Len(file)
  BY LevelAssumption, LenProperties DEF TypeOK
<1>2. Found \in Nat /\ Found <= Len(file)
  BY <1>1 DEF Found, OwnInv
<1> DEFINE m == Len(file) - Found
<1>3. m \in Nat
  BY <1>1, <1>2
<1>4. Len(Own) = m /\ DOMAIN Own = 1..m /\ \A k \in 1..m : Own[k] = file[k + Found]
  <2>1. CASE arm = "rr_burst"
    BY <1>1, <2>1 DEF Own, Found
  <2>2. CASE arm # "rr_burst"
    <3> DEFINE f == Found + 1
               own == SubSeq(file, f, Len(file))
    <3>1. Own = own /\ f \in Int /\ Len(file) \in Int
      BY <1>1, <1>2, <2>2 DEF Own, Found
    <3>2. \A k \in f..Len(file) : k \in 1..Len(file)
      BY <1>1, <1>2
    <3>3. \A k \in f..Len(file) : file[k] \in Rows \cup {MetaLine}
      BY <1>1, <3>2, ElementOfSeq
    <3>4. /\ own \in Seq(Rows \cup {MetaLine})
          /\ Len(own) = IF f <= Len(file) THEN Len(file) - f + 1 ELSE 0
          /\ \A k \in 1..Len(file) - f + 1 : own[k] = file[f + k - 1]
      BY <3>1, <3>3, SubSeqProperties
    <3>5. DOMAIN own = 1..Len(own)
      BY <3>4, LenProperties
    <3>6. Len(own) = m
      <4>1. \A l, g \in Nat :
              g <= l => (IF g + 1 <= l THEN l - (g + 1) + 1 ELSE 0) = l - g
        OBVIOUS
      <4> HIDE DEF own
      <4>2. Len(own) = IF f <= Len(file) THEN Len(file) - f + 1 ELSE 0
        BY <3>4
      <4> QED
        BY <1>1, <1>2, <4>1, <4>2
    <3>7. \A k \in 1..m : own[k] = file[k + Found]
      <4> SUFFICES ASSUME NEW k \in 1..m
                   PROVE  own[k] = file[k + Found]
        OBVIOUS
      <4>1. k \in 1..Len(file) - f + 1 /\ f + k - 1 = k + Found
        BY <1>1, <1>2
      <4> QED
        BY <3>4, <4>1
    <3> QED
      BY <3>1, <3>5, <3>6, <3>7
  <2> QED
    BY <2>1, <2>2
<1>5. \A k \in 1..m : k + Found \in DOMAIN file /\ k + Found > Found
  BY <1>1, <1>2
<1>6. \A j \in DOMAIN file : j > Found => j - Found \in 1..m /\ (j - Found) + Found = j
  BY <1>1, <1>2
<1> HIDE DEF m
<1>7. MetaLine \in Range(Own) <=> \E k \in 1..m : Own[k] = MetaLine
  BY <1>4 DEF Range
<1>8. MetaLine \in Range(Own) <=> HasMeta
  <2>1. ASSUME NEW k \in 1..m, Own[k] = MetaLine
        PROVE  HasMeta
    BY <1>4, <1>5, <2>1 DEF HasMeta
  <2>2. ASSUME NEW j \in DOMAIN file, j > Found, file[j] = MetaLine
        PROVE  \E k \in 1..m : Own[k] = MetaLine
    <3>1. j - Found \in 1..m /\ Own[j - Found] = file[j]
      BY <1>4, <1>6, <2>2
    <3> QED
      BY <2>2, <3>1
  <2> QED
    BY <1>7, <2>1, <2>2 DEF HasMeta
<1> QED
  BY <1>1, <1>2, <1>4, <1>8 DEF m

-----------------------------------------------------------------------------
(* The theorems                                                            *)

(* The invariant holds for every arm, corpus and directory, whatever comes *)
(* back, and when the watchdog strikes.                                    *)
THEOREM LevelInvariant == Spec => []IInv
BY InitIInv, NextIInv, PTL DEF Spec

(* "a global semaphore holds total in-flight at the level"                 *)
(* (rr_stepped.py:6-7): no permit is ever lost, a loop with nothing ready  *)
(* is full or through, and the corpus is sent in order.                    *)
THEOREM LevelClosedLoop == Spec => []ClosedLoop
<1>1. IInv => ClosedLoop
  <2> SUFFICES ASSUME IInv, arm \in Stepped
               PROVE  /\ permits + Cardinality(InFlight) = Level
                      /\ Turning /\ Idle /\ Queued # {} => Cardinality(InFlight) = Level
                      /\ \A j \in Queued, k \in DOMAIN Corpus : k > j => k \in Queued
    BY DEF ClosedLoop
  <2>1. /\ permits + Cardinality(InFlight) = Level
        /\ \A j \in Queued, k \in DOMAIN Corpus : k > j => k \in Queued
    BY DEF IInv, TaskInv
  <2>2. permits \in Nat /\ Cardinality(InFlight) \in Nat /\ Level \in Nat
    BY InFlightFinite, LevelAssumption DEF IInv, TypeOK
  <2>3. ASSUME Turning, Idle, Queued # {}
        PROVE  ~(permits > 0)
    BY <2>3 DEF Idle, CanStart
  <2> QED
    BY <2>1, <2>2, <2>3
<1> QED
  BY <1>1, LevelInvariant, PTL

(* A verdict "valid" is proof of a reply for every document that is not    *)
(* made up for by an old record of a document outside the corpus, so for   *)
(* every one where no such record was left; and a run that found old       *)
(* records and reached its summary line never gets it                      *)
(* (validate200.py:62-69, validate_rep.py:78-81).                          *)
THEOREM LevelValid == Spec => []ValidMeansProven
<1>1. IInv => ValidMeansProven
  <2> SUFFICES ASSUME IInv, verdict = "valid"
               PROVE  /\ Proven
                      /\ (\A k \in RowsOf(left) : left[k].doc \in Docs)
                           => Missing = {}
                      /\ arm # "rr_burst" /\ RowsOf(left) # {} =>
                           MetaLine \notin Range(Own)
    BY DEF ValidMeansProven
  <2>1. Proven
    BY DEF IInv, VerdictInv
  <2>2. \A k \in Strange : k \in RowsOf(left) /\ left[k].doc \notin Docs
    <3>1. \A k \in Strange : k \in DOMAIN left /\ Judged[k] = left[k]
      BY <2>1 DEF Proven
    <3> QED
      BY <3>1 DEF Strange, RowsOf
  <2>3. Missing = {} <=> Strange = {}
    <3>1. IsFiniteSet(Missing) /\ IsFiniteSet(Strange)
      BY CorpusFacts, JudgedLines, FS_Subset DEF IInv, Missing, Strange
    <3>2. Cardinality(Missing) = Cardinality(Strange)
      BY <2>1 DEF Proven
    <3> QED
      BY <3>1, <3>2, FS_EmptySet
  <2>4. (\A k \in RowsOf(left) : left[k].doc \in Docs) => Missing = {}
    BY <2>2, <2>3
  <2>5. ASSUME arm # "rr_burst", RowsOf(left) # {}, MetaLine \in Range(Own)
        PROVE  FALSE
    <3>1. /\ left \in Seq(Rows \cup {MetaLine}) /\ Len(left) \in Nat
          /\ DOMAIN left = 1..Len(left)
          /\ \A k \in DOMAIN left : left[k] \in Rows \cup {MetaLine}
      BY LevelAssumption, LenProperties, ElementOfSeq DEF IInv, TypeOK
    <3>2. /\ Found = Len(left) /\ Found <= Len(file) /\ Judged = file
          /\ \A k \in 1..Found : file[k] = left[k]
          /\ Len(file) \in Nat /\ DOMAIN file = 1..Len(file)
      BY <2>5, LenProperties DEF IInv, TypeOK, OwnInv, Found, Judged
    <3>3. PICK i \in DOMAIN left : left[i] # MetaLine
      BY <2>5 DEF RowsOf
    <3>4. i \in RowsOf(Judged) /\ i <= Found /\ Judged[i] = left[i]
      BY <3>1, <3>2, <3>3 DEF RowsOf
    <3>5. HasMeta
      BY <2>5, OwnLines DEF IInv
    <3>6. \A d \in Docs : \E j \in RowsOf(Judged) : j > Found /\ Judged[j].doc = d
      <4> SUFFICES ASSUME NEW d \in Docs
                   PROVE  \E j \in RowsOf(Judged) : j > Found /\ Judged[j].doc = d
        OBVIOUS
      <4>1. PICK j \in OwnRows(d) : TRUE
        BY <3>5 DEF IInv, OwnInv
      <4> QED
        BY <3>2, <4>1, MetaIsNoRow DEF OwnRows, RowsOf
    <3>7. Missing = {}
      BY <3>6 DEF Missing
    <3>8. Judged[i].doc \in Docs
      BY <2>3, <3>4, <3>7 DEF Strange
    <3>9. PICK j \in RowsOf(Judged) : j > Found /\ Judged[j].doc = Judged[i].doc
      BY <3>6, <3>8
    <3>10. i = j
      BY <2>1, <3>4, <3>7, <3>8, <3>9 DEF Proven
    <3> QED
      BY <3>1, <3>2, <3>4, <3>9, <3>10
  <2> QED
    BY <2>1, <2>4, <2>5
<1> QED
  BY <1>1, LevelInvariant, PTL

(* While nothing blocks the event loop, the watchdog sets out to kill a    *)
(* driver with documents in flight only for what happened before it sent   *)
(* the first one (run_level200.sh:32-50): no document in flight, and no    *)
(* gap between documents, makes it strike when the time before and the     *)
(* document timeout together stay below the limit.                         *)
THEOREM LevelWatchdog == Spec => WatchdogHonest
<1>1. ASSUME IInv, [Next]_vars, watch = "polling", watch' = "killing", Alive,
             InFlight # {}, stuck = "never"
      PROVE  lead + Timeout >= Stale
  <2>1. Poll
    BY <1>1 DEF Next, Driver, Open, Begin, Wedge, Recover, Start, Finish, Expire,
                Stop, Close, Exit, Kill, Validate, scriptVars, vars
  <2>2. age + 1 >= Stale /\ Idle
    BY <1>1, <2>1 DEF Poll
  <2>3. PICK d \in InFlight : TRUE
    BY <1>1
  <2>4. wait[d] < Timeout /\ age <= lead + wait[d]
    BY <1>1, <2>2, <2>3 DEF Idle, Turning, IInv, TimeInv
  <2>5. /\ wait[d] \in Int /\ age \in Int /\ lead \in Int
        /\ Timeout \in Int /\ Stale \in Int
    BY <1>1, <2>3, LevelAssumption DEF IInv, TypeOK, InFlight, NotBegun
  <2> QED
    BY <2>2, <2>4, <2>5
<1>2. IInv /\ [Next]_vars =>
        [watch = "polling" /\ watch' = "killing" /\ Alive /\ InFlight # {}
           => lead + Timeout >= Stale \/ stuck # "never"]_vars
  BY <1>1
<1> QED
  BY <1>2, LevelInvariant, PTL DEF Spec, WatchdogHonest

-----------------------------------------------------------------------------
(* The refinement of RecordLedger                                          *)

(* The ledger a reader of the run's own lines sees. *)
View ==
  /\ Found \in Nat /\ Len(file) \in Nat /\ Len(Own) = Len(file) - Found
  /\ Found <= Len(file)
  /\ OwnPlaces \in [Docs -> SUBSET Nat]
  /\ \A d \in Docs : \A k \in Nat :
       k \in OwnPlaces[d] <=> k + Found \in OwnRows(d)
  /\ \A d \in Docs : OwnPlaces[d] = {} <=> OwnRows(d) = {}
  /\ OwnStatus = IF HasMeta THEN "closed"
                 ELSE IF phase = "ended" THEN "aborted" ELSE "open"

LEMMA ViewHolds == TypeOK /\ OwnInv => View
<1> SUFFICES ASSUME TypeOK, OwnInv
             PROVE  View
  OBVIOUS
<1> DEFINE m == Len(file) - Found
<1>1. /\ Found \in Nat /\ Len(file) \in Nat /\ Found <= Len(file)
      /\ Len(Own) = m /\ DOMAIN Own = 1..m
      /\ \A k \in DOMAIN Own : Own[k] = file[k + Found]
      /\ MetaLine \in Range(Own) <=> HasMeta
      /\ DOMAIN file = 1..Len(file)
  BY OwnLines, LenProperties DEF TypeOK
<1>2. \A k \in Nat : k \in 1..m <=> k + Found \in DOMAIN file /\ k + Found > Found
  BY <1>1
<1>3. \A j \in DOMAIN file : j > Found => j - Found \in Nat /\ (j - Found) + Found = j
  BY <1>1
<1>4. 1..m \subseteq Nat
  BY <1>1
<1> HIDE DEF m
<1>5. OwnPlaces \in [Docs -> SUBSET Nat]
  BY <1>1, <1>4 DEF OwnPlaces
<1>6. \A d \in Docs : \A k \in Nat :
        k \in OwnPlaces[d] <=> k + Found \in OwnRows(d)
  BY <1>1, <1>2 DEF OwnPlaces, OwnRows
<1>7. \A d \in Docs : \A j \in OwnRows(d) :
        j - Found \in Nat /\ (j - Found) + Found \in OwnRows(d)
  BY <1>3 DEF OwnRows
<1>8. \A d \in Docs : OwnPlaces[d] = {} <=> OwnRows(d) = {}
  BY <1>5, <1>6, <1>7
<1>9. OwnStatus = IF HasMeta THEN "closed"
                 ELSE IF phase = "ended" THEN "aborted" ELSE "open"
  BY <1>1 DEF OwnStatus
<1> QED
  BY <1>1, <1>5, <1>6, <1>8, <1>9 DEF View, m

(* A step that writes no record shows none. *)
LEMMA SamePlaces ==
  ASSUME View, View', Found' = Found, \A d \in Docs : OwnRows(d)' = OwnRows(d)
  PROVE  OwnPlaces' = OwnPlaces
<1>1. ASSUME NEW d \in Docs
      PROVE  OwnPlaces'[d] = OwnPlaces[d]
  <2>1. OwnPlaces[d] \in SUBSET Nat /\ OwnPlaces'[d] \in SUBSET Nat
    BY DEF View
  <2>2. \A k \in Nat : k \in OwnPlaces'[d] <=> k \in OwnPlaces[d]
    BY DEF View
  <2> QED
    BY <2>1, <2>2
<1> QED
  BY <1>1 DEF View

(* One step of the run is one step of the ledger or none. *)
LEMMA LevelStepRefines ==
  IInv /\ View /\ View' /\ [Next]_vars => [Ledger!Next]_(Ledger!vars)
<1> SUFFICES ASSUME IInv, View, View', [Next]_vars
             PROVE  Ledger!Next \/ UNCHANGED Ledger!vars
  BY DEF Ledger!vars
<1> USE DEF Ledger!vars
<1>1. ASSUME UNCHANGED <<arm, left, file>>, phase' = phase \/ phase' = "ended"
      PROVE  Ledger!Next \/ UNCHANGED Ledger!vars
  <2>1. /\ Found' = Found /\ HasMeta' = HasMeta
        /\ \A d \in Docs : OwnRows(d)' = OwnRows(d)
    BY <1>1 DEF Found, HasMeta, OwnRows
  <2>2. OwnPlaces' = OwnPlaces /\ Len(Own') = Len(Own)
    BY <1>1, <2>1, SamePlaces DEF Own
  <2>3. CASE OwnStatus' = OwnStatus
    BY <2>2, <2>3
  <2>4. CASE OwnStatus' # OwnStatus
    <3>1. OwnStatus = "open" /\ OwnStatus' = "aborted"
      BY <1>1, <2>1, <2>4 DEF View
    <3> QED
      BY <2>2, <3>1 DEF Ledger!Next, Ledger!Abort
  <2> QED
    BY <2>3, <2>4
<1>2. ASSUME UNCHANGED <<arm, left, file>>, phase # "ended", phase' # "ended"
      PROVE  UNCHANGED Ledger!vars
  <2>1. /\ Found' = Found /\ HasMeta' = HasMeta
        /\ \A d \in Docs : OwnRows(d)' = OwnRows(d)
    BY <1>2 DEF Found, HasMeta, OwnRows
  <2>2. OwnPlaces' = OwnPlaces /\ Len(Own') = Len(Own)
    BY <1>2, <2>1, SamePlaces DEF Own
  <2>3. OwnStatus' = OwnStatus
    BY <1>2, <2>1 DEF View
  <2> QED
    BY <2>2, <2>3
<1>3. ASSUME WriteMeta, UNCHANGED <<arm, left>>, ~HasMeta, phase # "ended",
             \A d \in Docs : task[d] = "over"
      PROVE  Ledger!Next
  <2>1. /\ \A d \in Docs : OwnRows(d)' = OwnRows(d)
        /\ HasMeta'
    BY <1>3, MetaAdded DEF IInv, WriteMeta
  <2>2. Found' = Found
    BY <1>3 DEF Found
  <2>3. OwnPlaces' = OwnPlaces
    BY <2>1, <2>2, SamePlaces
  <2>4. Len(Own') = Len(Own) + 1
    <3>1. Len(file') = Len(file) + 1
      BY <1>3, MetaIsNoRow, NewLine DEF IInv, TypeOK, WriteMeta
    <3> QED
      BY <2>2, <3>1 DEF View
  <2>5. OwnStatus = "open" /\ OwnStatus' = "closed"
    BY <1>3, <2>1 DEF View
  <2>6. \A d \in Docs : OwnPlaces[d] # {}
    BY <1>3 DEF IInv, OwnInv, View
  <2> QED
    BY <2>3, <2>4, <2>5, <2>6 DEF Ledger!Next, Ledger!Close
<1>4. CASE Begin
  BY <1>1, <1>2, <1>4 DEF Begin, fileVars
<1>5. CASE Start
  <2>1. phase \in {"run", "failing"} /\ phase' \in {"run", "failing"}
    BY <1>5 DEF Start, CanStart, Turning, Alive
  <2>2. UNCHANGED <<arm, left, file>>
    BY <1>5 DEF Start, fileVars
  <2> QED
    BY <1>2, <2>1, <2>2
<1>6. CASE Finish \/ Expire
  <2>1. PICK d \in InFlight, r \in Replies : WriteRow(d, r)
    BY <1>6 DEF Finish, Expire, Replies
  <2>2. /\ d \in Docs /\ task[d] = "sent"
        /\ file' = Append(file, [doc |-> d, reply |-> r])
        /\ UNCHANGED <<arm, left, phase>> /\ phase \in {"run", "failing"}
    BY <1>6, <2>1 DEF Finish, Expire, WriteRow, InFlight, Turning, Alive
  <2>3. OwnRows(d) = {} /\ ~HasMeta
    BY <2>2 DEF IInv, OwnInv
  <2>4. /\ OwnRows(d)' = OwnRows(d) \cup {Len(file) + 1}
        /\ \A c \in Docs : c # d => OwnRows(c)' = OwnRows(c)
        /\ HasMeta' <=> HasMeta
    BY <2>2, RowAdded DEF IInv
  <2>5. Found' = Found
    BY <2>2 DEF Found
  <2>6. Len(file') = Len(file) + 1
    BY <2>2, MetaIsNoRow, NewLine DEF IInv, TypeOK
  <2>7. Len(Own') = Len(Own) + 1 /\ Len(Own) + 1 \in Nat
    BY <2>5, <2>6 DEF View
  <2>8. OwnPlaces'[d] = {Len(Own) + 1}
    <3>1. \A k \in Nat : k \in OwnPlaces'[d] <=> k + Found = Len(file) + 1
      BY <2>2, <2>3, <2>4, <2>5 DEF View
    <3>2. \A k \in Nat : k + Found = Len(file) + 1 <=> k = Len(Own) + 1
      BY DEF View
    <3>3. OwnPlaces'[d] \in SUBSET Nat
      BY <2>2 DEF View
    <3> QED
      BY <2>7, <3>1, <3>2, <3>3
  <2>9. ASSUME NEW c \in Docs, c # d
        PROVE  OwnPlaces'[c] = OwnPlaces[c]
    <3>1. OwnPlaces[c] \in SUBSET Nat /\ OwnPlaces'[c] \in SUBSET Nat
      BY DEF View
    <3>2. OwnRows(c)' = OwnRows(c)
      BY <2>4, <2>9
    <3>3. \A k \in Nat : k \in OwnPlaces'[c] <=> k \in OwnPlaces[c]
      BY <2>5, <3>2 DEF View
    <3> QED
      BY <3>1, <3>3
  <2>10. OwnPlaces' = [OwnPlaces EXCEPT ![d] = {Len(Own) + 1}]
    BY <2>2, <2>8, <2>9 DEF View
  <2>11. OwnPlaces[d] = {} /\ OwnStatus = "open" /\ OwnStatus' = "open"
    BY <2>2, <2>3, <2>4 DEF View
  <2> QED
    BY <2>2, <2>7, <2>10, <2>11 DEF Ledger!Next, Ledger!Record
<1>7. CASE Stop
  <2>1. /\ phase = "run" /\ phase' = "closing" /\ UNCHANGED <<arm, left>>
        /\ \A d \in Docs : task[d] = "over"
        /\ WriteMeta \/ file' = file
    BY <1>7 DEF Stop, fileVars
  <2>2. ~HasMeta
    BY <2>1 DEF IInv, OwnInv
  <2> QED
    BY <1>2, <1>3, <2>1, <2>2
<1>8. CASE Close
  <2>1. /\ phase = "closing" /\ phase' = "ended" /\ UNCHANGED <<arm, left>>
        /\ IF arm = "rr_stepped" THEN file' = file ELSE WriteMeta
    BY <1>8 DEF Close, fileVars
  <2>2. /\ HasMeta <=> arm = "rr_stepped"
        /\ \A d \in Docs : task[d] = "over"
    BY <2>1 DEF IInv, OwnInv, TaskInv
  <2> QED
    BY <1>1, <1>3, <2>1, <2>2
<1>9. CASE Exit
  BY <1>1, <1>9 DEF Exit, fileVars
<1>10. CASE Poll
  BY <1>1, <1>10 DEF Poll
<1>11. CASE Validate
  BY <1>1, <1>11 DEF Validate, driverVars, fileVars
<1>12. CASE Open \/ Wedge \/ Recover \/ Kill
  BY <1>1, <1>12 DEF Open, Wedge, Recover, Kill, fileVars
<1>13. CASE UNCHANGED vars
  BY <1>1, <1>13 DEF vars, driverVars, fileVars
<1> QED
  BY <1>4, <1>5, <1>6, <1>7, <1>8, <1>9, <1>10, <1>11, <1>12, <1>13
  DEF Next, Driver

(* What a run adds to its file is a ledger, in a fresh directory or behind *)
(* the lines of another run.                                               *)
THEOREM LevelImplementsLedger == Spec => LedgerSpec
<1>1. Init => Ledger!Init
  <2> SUFFICES ASSUME Init
               PROVE  Ledger!Init
    OBVIOUS
  <2>1. IInv /\ View
    BY InitIInv, ViewHolds DEF IInv
  <2>2. Found = Len(file)
    BY EmptySeq DEF Init, Found
  <2>3. Len(Own) = 0
    BY <2>1, <2>2 DEF View
  <2>4. \A d \in Docs : OwnRows(d) = {}
    BY <2>1 DEF Init, IInv, OwnInv
  <2>5. OwnPlaces = [d \in Docs |-> {}]
    BY <2>1, <2>4 DEF View
  <2>6. OwnStatus = "open"
    BY <2>1 DEF Init, View, IInv, OwnInv
  <2> QED
    BY <2>3, <2>5, <2>6 DEF Ledger!Init
<1>2. IInv => View
  BY ViewHolds DEF IInv
<1> QED
  BY <1>1, <1>2, LevelStepRefines, LevelInvariant, PTL
  DEF Spec, LedgerSpec, Ledger!Spec

-----------------------------------------------------------------------------
(* What the ledger promises                                                *)

(* The ledger keeps types and census, whatever implements it: a document   *)
(* is recorded only when it has no outcome, and the file closed only when  *)
(* all have.  Nothing of LevelRun is used, only the steps of the ledger.   *)
LEMMA LedgerStep ==
  /\ Ledger!TypeOK /\ Ledger!Census /\ [Ledger!Next]_(Ledger!vars)
  => Ledger!TypeOK' /\ Ledger!Census'
<1> SUFFICES ASSUME Ledger!TypeOK, Ledger!Census, [Ledger!Next]_(Ledger!vars)
             PROVE  Ledger!TypeOK' /\ Ledger!Census'
  OBVIOUS
<1> USE DEF Ledger!TypeOK, Ledger!Census
<1>1. ASSUME NEW d \in Docs, Ledger!Record(d)
      PROVE  Ledger!TypeOK' /\ Ledger!Census'
  BY <1>1 DEF Ledger!Record
<1>2. CASE Ledger!Note
  BY <1>2 DEF Ledger!Note
<1>3. CASE Ledger!Close
  BY <1>3 DEF Ledger!Close
<1>4. CASE Ledger!Abort
  BY <1>4 DEF Ledger!Abort
<1>5. CASE UNCHANGED Ledger!vars
  BY <1>5 DEF Ledger!vars
<1> QED
  BY <1>1, <1>2, <1>3, <1>4, <1>5 DEF Ledger!Next

(* No document has two outcomes in the lines of a run, and a run with its  *)
(* summary line has one for each: inherited from the ledger.               *)
THEOREM LevelCensus == Spec => []Ledger!Census
<1>1. Ledger!Init => Ledger!TypeOK /\ Ledger!Census
  BY DEF Ledger!Init, Ledger!TypeOK, Ledger!Census
<1>2. Ledger!Spec => []Ledger!Census
  BY <1>1, LedgerStep, PTL DEF Ledger!Spec
<1> QED
  BY <1>2, LevelImplementsLedger DEF LedgerSpec

-----------------------------------------------------------------------------
(* The run ends                                                            *)

(* The documents not yet sent, and those without an outcome. *)
Unsent == {d \in Docs : task[d] = "queued"}
Unfinished == {d \in Docs : task[d] \in {"queued", "sent"}}

PhaseLeft(p) ==
  CASE p = "starting"               -> 3
    [] p = "run"                    -> 2
    [] p \in {"failing", "closing"} -> 1
    [] p = "ended"                  -> 0

WatchLeft(w) ==
  CASE w = "polling"          -> 3
    [] w = "killing"          -> 2
    [] w = "collect"          -> 1
    [] w \in {"done", "died"} -> 0

(* What may still happen to the file and to the event loop. *)
ToOpen == IF there THEN 0 ELSE 1

StuckLeft(s) ==
  CASE s = "never" -> 2
    [] s = "now"   -> 1
    [] s = "was"   -> 0

(* Whatever makes the file young again also leaves less to do; in between  *)
(* the file grows old.                                                     *)
ToDo(u, f, p, w, o, s) == u + f + p + w + o + s

Left(n, a) == (Stale + 2) * n + (Stale - a)

ToGo == ToDo(Cardinality(Unsent), Cardinality(Unfinished), PhaseLeft(phase),
             WatchLeft(watch), ToOpen, StuckLeft(stuck))

StepsLeft == Left(ToGo, age)

MostSteps == Left(2 * Cardinality(Docs) + 9, -1)

LEMMA ToDoFalls ==
  ASSUME NEW u \in Nat, NEW f \in Nat, NEW p \in Nat, NEW w \in Nat,
         NEW o \in Nat, NEW s \in Nat,
         NEW v \in Nat, NEW g \in Nat, NEW q \in Nat, NEW x \in Nat,
         NEW n \in Nat, NEW t \in Nat,
         v <= u, g <= f, q <= p, x <= w, n <= o, t <= s,
         v < u \/ g < f \/ q < p \/ x < w \/ n < o \/ t < s
  PROVE  ToDo(v, g, q, x, n, t) < ToDo(u, f, p, w, o, s)
BY DEF ToDo

LEMMA LeftFalls ==
  ASSUME NEW n \in Nat, NEW m \in Nat, NEW a \in -1..Stale, NEW b \in -1..Stale,
         \/ m < n
         \/ m = n /\ a < b
  PROVE  Left(m, b) \in Nat /\ Left(n, a) \in Nat /\ Left(m, b) < Left(n, a)
<1> DEFINE e == Stale + 2
<1>1. e \in Nat /\ Stale \in Nat
  BY LevelAssumption
<1>2. /\ Stale - a \in Nat /\ Stale - b \in Nat /\ Stale - b < e /\ Stale - a < e
      /\ a < b => Stale - b < Stale - a
  BY <1>1
<1>3. e * m \in Nat /\ e * n \in Nat
  BY <1>1
<1>4. /\ Left(m, b) = e * m + (Stale - b) /\ Left(n, a) = e * n + (Stale - a)
  BY DEF Left
<1>5. CASE m < n
  <2>1. PICK k \in Nat : n = m + 1 + k
    <3>1. n - m - 1 \in Nat /\ n = m + 1 + (n - m - 1)
      BY <1>5
    <3> QED
      BY <3>1
  <2>2. e * n = e * m + e + e * k /\ e * k \in Nat
    BY <1>1, <2>1
  <2> HIDE DEF e
  <2> QED
    BY <1>1, <1>2, <1>3, <1>4, <2>2
<1>6. CASE m = n /\ a < b
  <2> HIDE DEF e
  <2> QED
    BY <1>1, <1>2, <1>3, <1>4, <1>6
<1> QED
  BY <1>5, <1>6

(* Where the numbers lie that StepsLeft is made of. *)
Counts ==
  /\ Cardinality(Unsent) \in 0..Cardinality(Docs)
  /\ Cardinality(Unfinished) \in 0..Cardinality(Docs)
  /\ PhaseLeft(phase) \in 0..3
  /\ WatchLeft(watch) \in 0..3
  /\ ToOpen \in 0..1
  /\ StuckLeft(stuck) \in 0..2
  /\ ToGo \in 0..(2 * Cardinality(Docs) + 9)
  /\ age \in -1..Stale

LEMMA DocSets ==
  ASSUME NEW T \in SUBSET Docs
  PROVE  /\ Cardinality(T) \in Nat /\ Cardinality(Docs) \in Nat
         /\ Cardinality(T) <= Cardinality(Docs)
         /\ \A d \in T : Cardinality(T \ {d}) = Cardinality(T) - 1
BY CorpusFacts, FS_Subset, FS_CardinalityType, FS_RemoveElement

LEMMA CountsHold == TypeOK => Counts
<1> SUFFICES ASSUME TypeOK
             PROVE  Counts
  OBVIOUS
<1>1. Unsent \in SUBSET Docs /\ Unfinished \in SUBSET Docs
  BY DEF Unsent, Unfinished
<1>2. /\ Cardinality(Unsent) \in 0..Cardinality(Docs)
      /\ Cardinality(Unfinished) \in 0..Cardinality(Docs)
      /\ Cardinality(Docs) \in Nat
  BY <1>1, DocSets
<1>3. PhaseLeft(phase) \in 0..3
  BY DEF TypeOK, PhaseLeft
<1>4. WatchLeft(watch) \in 0..3 /\ ToOpen \in 0..1 /\ StuckLeft(stuck) \in 0..2
  <2>1. WatchLeft(watch) \in 0..3
    BY DEF TypeOK, WatchLeft
  <2>2. StuckLeft(stuck) \in 0..2
    BY DEF TypeOK, StuckLeft
  <2> QED
    BY <2>1, <2>2 DEF ToOpen
<1>5. ToGo \in 0..(2 * Cardinality(Docs) + 9)
  BY <1>2, <1>3, <1>4 DEF ToGo, ToDo
<1>6. age \in -1..Stale
  BY DEF TypeOK
<1> QED
  BY <1>2, <1>3, <1>4, <1>5, <1>6 DEF Counts

LEMMA LeftRange == Counts => StepsLeft \in 0..MostSteps
<1> SUFFICES ASSUME Counts
             PROVE  StepsLeft \in 0..MostSteps
  OBVIOUS
<1> DEFINE m == 2 * Cardinality(Docs) + 9
<1>0. Cardinality(Docs) \in Nat
  BY CorpusFacts, FS_CardinalityType
<1>1. /\ ToGo \in Nat /\ m \in Nat /\ ToGo <= m /\ age \in -1..Stale
      /\ -1 \in -1..Stale /\ Stale \in Nat
  BY <1>0, LevelAssumption DEF Counts
<1> HIDE DEF m
<1>2. CASE ToGo = m /\ age = -1
  <2>1. (Stale + 2) * m \in Nat
    BY <1>1
  <2>2. StepsLeft = Left(m, -1) /\ Left(m, -1) = (Stale + 2) * m + (Stale - (-1))
    BY <1>2 DEF StepsLeft, Left
  <2> QED
    BY <1>1, <2>1, <2>2 DEF MostSteps, m
<1>3. CASE ToGo < m \/ -1 < age
  <2>1. ToGo < m \/ (ToGo = m /\ -1 < age)
    BY <1>1, <1>3
  <2>2. Left(ToGo, age) \in Nat /\ Left(m, -1) \in Nat /\ Left(ToGo, age) < Left(m, -1)
    BY <1>1, <2>1, LeftFalls
  <2> QED
    BY <2>2 DEF StepsLeft, MostSteps, m
<1> QED
  BY <1>1, <1>2, <1>3

(* One document less to send, or less to hear of. *)
LEMMA DocumentsFall ==
  ASSUME TypeOK, NEW d \in Docs, NEW s,
         task' = [task EXCEPT ![d] = s],
         \/ task[d] = "queued" /\ s \in {"sent", "dead"}
         \/ task[d] = "sent" /\ s = "over"
  PROVE  /\ Cardinality(Unsent)' <= Cardinality(Unsent)
         /\ Cardinality(Unfinished)' <= Cardinality(Unfinished)
         /\ \/ Cardinality(Unsent)' < Cardinality(Unsent)
            \/ Cardinality(Unfinished)' < Cardinality(Unfinished)
<1>0. Unsent \in SUBSET Docs /\ Unfinished \in SUBSET Docs
  BY DEF Unsent, Unfinished
<1>1. Cardinality(Unsent) \in Nat /\ Cardinality(Unfinished) \in Nat
  BY <1>0, DocSets
<1>2. task'[d] = s /\ \A c \in Docs : c # d => task'[c] = task[c]
  BY DEF TypeOK
<1>3. CASE task[d] = "queued" /\ s = "sent"
  <2>1. Unsent' = Unsent \ {d} /\ d \in Unsent /\ Unfinished' = Unfinished
    BY <1>2, <1>3 DEF Unsent, Unfinished
  <2>2. Cardinality(Unsent') = Cardinality(Unsent) - 1
    BY <1>0, <2>1, DocSets
  <2> QED
    BY <1>1, <2>1, <2>2
<1>4. CASE task[d] = "queued" /\ s = "dead"
  <2>1. Unsent' = Unsent \ {d} /\ d \in Unsent
    BY <1>2, <1>4 DEF Unsent
  <2>2. Unfinished' = Unfinished \ {d} /\ d \in Unfinished
    BY <1>2, <1>4 DEF Unfinished
  <2>3. /\ Cardinality(Unsent') = Cardinality(Unsent) - 1
        /\ Cardinality(Unfinished') = Cardinality(Unfinished) - 1
    BY <1>0, <2>1, <2>2, DocSets
  <2> QED
    BY <1>1, <2>3
<1>5. CASE task[d] = "sent" /\ s = "over"
  <2>1. Unfinished' = Unfinished \ {d} /\ d \in Unfinished /\ Unsent' = Unsent
    BY <1>2, <1>5 DEF Unsent, Unfinished
  <2>2. Cardinality(Unfinished') = Cardinality(Unfinished) - 1
    BY <1>0, <2>1, DocSets
  <2> QED
    BY <1>1, <2>1, <2>2
<1> QED
  BY <1>3, <1>4, <1>5

LEMMA SameDocuments ==
  ASSUME task' = task
  PROVE  /\ Cardinality(Unsent)' = Cardinality(Unsent)
         /\ Cardinality(Unfinished)' = Cardinality(Unfinished)
<1>1. Unsent' = Unsent /\ Unfinished' = Unfinished
  BY DEF Unsent, Unfinished
<1> QED
  BY <1>1

LEMMA NextFalls ==
  IInv /\ Counts /\ Counts' /\ Next => StepsLeft' < StepsLeft
<1> SUFFICES ASSUME IInv, Counts, Counts', Next
             PROVE  StepsLeft' < StepsLeft
  OBVIOUS
<1> DEFINE u == Cardinality(Unsent)  f == Cardinality(Unfinished)
           p == PhaseLeft(phase)  w == WatchLeft(watch)
           o == ToOpen  s == StuckLeft(stuck)
<1>0. /\ u \in Nat /\ f \in Nat /\ p \in Nat /\ w \in Nat /\ o \in Nat /\ s \in Nat
      /\ u' \in Nat /\ f' \in Nat /\ p' \in Nat /\ w' \in Nat
      /\ o' \in Nat /\ s' \in Nat
      /\ ToGo \in Nat /\ ToGo' \in Nat
      /\ age \in -1..Stale /\ age' \in -1..Stale
  <2>1. Cardinality(Docs) \in Nat
    BY CorpusFacts, FS_CardinalityType
  <2> QED
    BY <2>1 DEF Counts
<1>1. ToGo = ToDo(u, f, p, w, o, s) /\ ToGo' = ToDo(u', f', p', w', o', s')
  BY DEF ToGo
<1>2. StepsLeft = Left(ToGo, age) /\ StepsLeft' = Left(ToGo', age')
  BY DEF StepsLeft
<1>3. ASSUME u' <= u, f' <= f, p' <= p, w' <= w, o' <= o, s' <= s,
             u' < u \/ f' < f \/ p' < p \/ w' < w \/ o' < o \/ s' < s
      PROVE  StepsLeft' < StepsLeft
  <2> HIDE DEF u, f, p, w, o, s
  <2>1. ToDo(u', f', p', w', o', s') < ToDo(u, f, p, w, o, s)
    BY <1>0, <1>3, ToDoFalls
  <2>2. ToGo' < ToGo
    BY <1>1, <2>1
  <2> QED
    BY <1>0, <1>2, <2>2, LeftFalls
<1>4. CASE Begin
  <2>1. /\ phase = "starting" /\ phase' \in {"run", "ended"} /\ task' = task
        /\ watch' = watch /\ stuck' = stuck /\ (there => there')
    BY <1>4 DEF Begin, scriptVars
  <2>2. u' = u /\ f' = f /\ w' = w /\ s' = s
    BY <2>1, SameDocuments
  <2>3. o' <= o
    BY <2>1 DEF ToOpen
  <2>4. p' < p
    BY <2>1 DEF PhaseLeft
  <2> QED
    BY <1>0, <1>3, <2>2, <2>3, <2>4
<1>5. CASE Start
  <2>1. Queued \subseteq DOMAIN Corpus /\ Queued \subseteq Nat /\ Queued # {}
    BY <1>5, CorpusFacts DEF Start, CanStart, Queued
  <2>2. PICK n \in Queued : \A m \in Queued : n <= m
    BY <2>1, LeastOf
  <2>3. \A m \in Queued : (\A j \in Queued : m <= j) => m = n
    BY <2>1, <2>2
  <2>4. (CHOOSE k \in Queued : \A j \in Queued : k <= j) = n
    BY <2>2, <2>3
  <2> PICK d \in Docs : d = Corpus[n]
    BY <2>1, CorpusFacts
  <2>5. task[d] = "queued"
    BY <2>1 DEF Queued
  <2>6. PICK r \in {"sent", "dead"} :
          /\ task' = [task EXCEPT ![d] = r]
          /\ UNCHANGED <<watch, there, stuck>>
          /\ Alive /\ phase' \in {phase, "failing"}
    <3>1. Alive /\ UNCHANGED <<watch, there, stuck>>
      BY <1>5 DEF Start, CanStart, Turning, scriptVars
    <3>2. \/ task' = [task EXCEPT ![d] = "sent"] /\ phase' = phase
          \/ task' = [task EXCEPT ![d] = "dead"] /\ phase' = "failing"
      BY <1>5, <2>4 DEF Start
    <3> QED
      BY <3>1, <3>2
  <2>7. u' <= u /\ f' <= f /\ (u' < u \/ f' < f)
    BY <2>5, <2>6, DocumentsFall DEF IInv
  <2>8. p' <= p
    BY <2>6 DEF PhaseLeft, Alive
  <2>9. w' = w /\ o' = o /\ s' = s
    BY <2>6 DEF ToOpen
  <2> QED
    BY <1>0, <1>3, <2>7, <2>8, <2>9
<1>6. CASE Finish \/ Expire
  <2>1. PICK d \in InFlight, r \in Replies : WriteRow(d, r)
    BY <1>6 DEF Finish, Expire, Replies
  <2>2. /\ task[d] = "sent" /\ task' = [task EXCEPT ![d] = "over"] /\ d \in Docs
        /\ UNCHANGED <<phase, watch, there, stuck>>
    BY <1>6, <2>1 DEF WriteRow, InFlight, Finish, Expire, scriptVars
  <2>3. u' <= u /\ f' <= f /\ (u' < u \/ f' < f)
    BY <2>2, DocumentsFall DEF IInv
  <2>4. p' = p /\ w' = w /\ o' = o /\ s' = s
    BY <2>2 DEF ToOpen
  <2> QED
    BY <1>0, <1>3, <2>3, <2>4
<1>7. CASE Stop \/ Close \/ Exit
  <2>1. /\ \/ phase = "run" /\ phase' = "closing"
           \/ phase \in {"closing", "failing"} /\ phase' = "ended"
        /\ UNCHANGED <<task, watch, there, stuck>>
    BY <1>7 DEF Stop, Close, Exit, scriptVars
  <2>2. u' = u /\ f' = f /\ w' = w /\ o' = o /\ s' = s
    BY <2>1, SameDocuments DEF ToOpen
  <2>3. p' < p
    BY <2>1 DEF PhaseLeft
  <2> QED
    BY <1>0, <1>3, <2>2, <2>3
<1>8. CASE Poll
  <2>1. /\ watch = "polling" /\ UNCHANGED <<task, phase, there, stuck>>
        /\ \/ watch' \in {"died", "killing", "collect"}
           \/ watch' = watch /\ age' = age + 1
    BY <1>8 DEF Poll
  <2>2. u' = u /\ f' = f /\ p' = p /\ o' = o /\ s' = s
    BY <2>1, SameDocuments DEF ToOpen
  <2>3. CASE watch' \in {"died", "killing", "collect"}
    <3>1. w' < w
      BY <2>1, <2>3 DEF WatchLeft
    <3> QED
      BY <1>0, <1>3, <2>2, <3>1
  <2>4. CASE watch' = watch /\ age' = age + 1
    <3>1. ToGo' = ToGo
      BY <1>1, <2>2, <2>4
    <3>2. age < age'
      BY <1>0, <2>4
    <3> QED
      BY <1>0, <1>2, <3>1, <3>2, LeftFalls
  <2> QED
    BY <2>1, <2>3, <2>4
<1>9. CASE Validate
  <2>1. /\ watch = "collect" /\ watch' = "done"
        /\ UNCHANGED <<task, phase, there, stuck>>
    BY <1>9 DEF Validate, driverVars
  <2>2. u' = u /\ f' = f /\ p' = p /\ o' = o /\ s' = s
    BY <2>1, SameDocuments DEF ToOpen
  <2>3. w' < w
    BY <2>1 DEF WatchLeft
  <2> QED
    BY <1>0, <1>3, <2>2, <2>3
<1>10. CASE Open
  <2>1. ~there /\ there' = TRUE /\ UNCHANGED <<task, phase, watch, stuck>>
    BY <1>10 DEF Open, scriptVars
  <2>2. u' = u /\ f' = f /\ p' = p /\ w' = w /\ s' = s
    BY <2>1, SameDocuments
  <2>3. o' < o
    BY <2>1 DEF ToOpen
  <2> QED
    BY <1>0, <1>3, <2>2, <2>3
<1>11. CASE Wedge \/ Recover
  <2>1. /\ \/ stuck = "never" /\ stuck' = "now"
           \/ stuck = "now" /\ stuck' = "was"
        /\ UNCHANGED <<task, phase, watch, there>>
    BY <1>11 DEF Wedge, Recover, scriptVars
  <2>2. u' = u /\ f' = f /\ p' = p /\ w' = w /\ o' = o
    BY <2>1, SameDocuments DEF ToOpen
  <2>3. s' < s
    BY <2>1 DEF StuckLeft
  <2> QED
    BY <1>0, <1>3, <2>2, <2>3
<1>12. CASE Kill
  <2>1. /\ watch = "killing" /\ watch' = "collect" /\ phase' = "ended"
        /\ UNCHANGED <<task, there, stuck>>
    BY <1>12 DEF Kill
  <2>2. u' = u /\ f' = f /\ o' = o /\ s' = s
    BY <2>1, SameDocuments DEF ToOpen
  <2>3. w' < w
    BY <2>1 DEF WatchLeft
  <2>4. p' <= p
    BY <2>1 DEF PhaseLeft, IInv, TypeOK
  <2> QED
    BY <1>0, <1>3, <2>2, <2>3, <2>4
<1> QED
  BY <1>4, <1>5, <1>6, <1>7, <1>8, <1>9, <1>10, <1>11, <1>12 DEF Next, Driver

(* However long the launch, the answers and the disconnect take, a run     *)
(* cannot go on for ever: between two lines, or two changes of main(), the *)
(* file only grows older, and at the limit the script ends the wait.  What *)
(* is left to LevelEnds is that the script's polls do take place, where no *)
(* docker command keeps them.                                              *)
THEOREM LevelSteps ==
  Spec => /\ [](StepsLeft \in 0..MostSteps)
          /\ [][StepsLeft' < StepsLeft]_vars
<1>1. IInv => Counts
  BY CountsHold DEF IInv
<1>2. IInv /\ Counts /\ Counts' /\ [Next]_vars => [StepsLeft' < StepsLeft]_vars
  BY NextFalls
<1> QED
  BY <1>1, <1>2, LeftRange, LevelInvariant, PTL DEF Spec
=============================================================================
