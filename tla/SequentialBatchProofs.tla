------------------------ MODULE SequentialBatchProofs ------------------------
(***************************************************************************)
(* Proofs about SequentialBatch, for every corpus, every set of drivers    *)
(* and every number of processes, killed anywhere.                         *)
(***************************************************************************)
EXTENDS SequentialBatch, FiniteSetTheorems, SequenceTheorems, TLAPS

-----------------------------------------------------------------------------
(* The record file                                                         *)

(* A line is added: the other lines stay, and its document is done when it *)
(* parses.                                                                 *)
LEMMA AddLine ==
  ASSUME file \in Seq(Lines),
         NEW d \in Docs, NEW ok \in BOOLEAN, NEW w \in BOOLEAN,
         file' = Append(file, [doc |-> d, ok |-> ok, whole |-> w])
  PROVE  /\ file' \in Seq(Lines) /\ file' # <<>>
         /\ \E n \in DOMAIN file' :
              /\ n \notin DOMAIN file /\ DOMAIN file' = DOMAIN file \cup {n}
              /\ file'[n] = [doc |-> d, ok |-> ok, whole |-> w]
              /\ Whole' = Whole \cup (IF w THEN {n} ELSE {})
         /\ \A k \in DOMAIN file : file'[k] = file[k]
         /\ DoneDocs' = DoneDocs \cup (IF w THEN {d} ELSE {})
<1> DEFINE line == [doc |-> d, ok |-> ok, whole |-> w]
           n == Len(file) + 1
<1>1. line \in Lines /\ line.doc = d /\ line.whole = w
  BY DEF Lines
<1>2. /\ file' \in Seq(Lines) /\ Len(file') = n
      /\ \A k \in 1..Len(file) : file'[k] = file[k]
      /\ file'[n] = line
  BY <1>1, AppendProperties
<1>3. /\ Len(file) \in Nat /\ DOMAIN file = 1..Len(file)
      /\ DOMAIN file' = 1..n
  BY <1>2, LenProperties
<1>4. n \in DOMAIN file' /\ n \notin DOMAIN file /\ DOMAIN file' = DOMAIN file \cup {n}
  BY <1>3
<1>5. file' # <<>>
  BY <1>2, <1>3, EmptySeq
<1>6. \A k \in DOMAIN file : file'[k] = file[k]
  BY <1>2, <1>3
<1> HIDE DEF line, n
<1>7. Whole' = Whole \cup (IF w THEN {n} ELSE {})
  BY <1>1, <1>2, <1>4, <1>6 DEF Whole
<1>8. DoneDocs' = DoneDocs \cup (IF w THEN {d} ELSE {})
  <2>1. Whole \subseteq DOMAIN file
    BY DEF Whole
  <2> QED
    BY <1>1, <1>2, <1>6, <1>7, <2>1 DEF DoneDocs
<1> QED
  BY <1>2, <1>4, <1>5, <1>6, <1>7, <1>8 DEF line

(* A line that is glued to a torn one spoils that one, and nothing else.   *)
LEMMA GlueLine ==
  ASSUME file \in Seq(Lines), file # <<>>, file' = Glued
  PROVE  /\ file' \in Seq(Lines) /\ file' # <<>>
         /\ DOMAIN file' = DOMAIN file
         /\ Whole' = Whole \ {Len(file)}
         /\ \A k \in Whole' : k \in Whole /\ file'[k] = file[k]
         /\ DoneDocs' \subseteq DoneDocs
         /\ LoadRaises'
         /\ \E x \in Docs : DoneDocs \subseteq DoneDocs' \cup {x}
<1> DEFINE n == Len(file)
<1>1. n \in Nat \ {0} /\ DOMAIN file = 1..n /\ n \in DOMAIN file
  BY LenProperties, EmptySeq
<1>2. file \in [1..n -> Lines]
  BY <1>1, LenProperties
<1> HIDE DEF n
<1>3. /\ DOMAIN file' = 1..n
      /\ file'[n].whole = FALSE /\ file'[n] \in Lines
      /\ \A k \in 1..n : k # n => file'[k] = file[k]
  BY <1>1, <1>2 DEF Glued, Lines, n
<1>4. file' \in Seq(Lines) /\ file' # <<>>
  <2>1. file' = [k \in 1..n |-> file'[k]]
    BY <1>1, <1>2 DEF Glued, n
  <2>2. \A k \in 1..n : file'[k] \in Lines
    BY <1>2, <1>3
  <2>3. file' \in [1..n -> Lines]
    BY <2>1, <2>2
  <2>4. file' \in Seq(Lines)
    BY <1>1, <2>3, SeqDef
  <2> QED
    BY <1>1, <1>3, <2>4, EmptySeq
<1>5. Whole' = Whole \ {n}
  BY <1>1, <1>3 DEF Whole
<1>6. \A k \in Whole' : k \in Whole /\ file'[k] = file[k]
  BY <1>1, <1>3, <1>5 DEF Whole
<1>7. LoadRaises'
  BY <1>1, <1>3, <1>5 DEF LoadRaises
<1>8. DoneDocs' \subseteq DoneDocs
  BY <1>6 DEF DoneDocs
<1>9. file[n].doc \in Docs /\ DoneDocs \subseteq DoneDocs' \cup {file[n].doc}
  BY <1>1, <1>2, <1>5, <1>6 DEF DoneDocs, Lines
<1> QED
  BY <1>1, <1>3, <1>4, <1>5, <1>6, <1>7, <1>8, <1>9 DEF n

-----------------------------------------------------------------------------
(* The documents to do                                                     *)

(* A set of positions has a first one. *)
LEMMA MinPosition ==
  ASSUME NEW T \in SUBSET (DOMAIN Corpus), T # {}
  PROVE  Min(T) \in T
<1>1. T \in SUBSET Nat
  BY BatchAssumption, LenProperties
<1>2. IsWellFoundedOn(OpToRel(<, Nat), Nat)
  BY NatLessThanWellFounded
<1>3. PICK n \in T : \A m \in T : ~(<<m, n>> \in OpToRel(<, Nat))
  BY <1>1, <1>2, WFMin
<1>4. \A m \in T : <<m, n>> \in OpToRel(<, Nat) <=> m < n
  BY <1>1, <1>3 DEF OpToRel
<1>5. \A m \in T : ~(m < n)
  BY <1>3, <1>4
<1>6. \A m \in T : n <= m
  BY <1>1, <1>5
<1> QED
  BY <1>6 DEF Min

(* The current document is one of those to do, and leaves the others when  *)
(* it is taken from them.                                                  *)
LEMMA CurrentDoc ==
  ASSUME TypeOK, todo # {}
  PROVE  /\ Current \in Docs /\ Current \in TodoDocs
         /\ {Corpus[k] : k \in todo \ {Min(todo)}} = TodoDocs \ {Current}
<1>1. Min(todo) \in todo /\ todo \subseteq DOMAIN Corpus
  BY MinPosition DEF TypeOK
<1>2. \A k \in DOMAIN Corpus : Corpus[k] \in Docs
  BY BatchAssumption, ElementOfSeq, LenProperties
<1>3. \A j, k \in DOMAIN Corpus : Corpus[j] = Corpus[k] => j = k
  BY BatchAssumption
<1> QED
  BY <1>1, <1>2, <1>3 DEF Current, TodoDocs

-----------------------------------------------------------------------------
(* The inductive invariant                                                 *)

LEMMA InitIInv == Init => IInv
<1> SUFFICES ASSUME Init
             PROVE  IInv
  OBVIOUS
<1>1. file = <<>> /\ DOMAIN file = {} /\ file \in Seq(Lines)
  BY EmptySeq, LenProperties DEF Init, FileInit
<1>2. Whole = {}
  BY <1>1 DEF Whole
<1>3. 1 \in 1..MaxLives
  BY BatchAssumption
<1>4. TypeOK
  BY <1>1, <1>3 DEF Init, FileInit, TypeOK
<1>5. RecordInv /\ PipeInv /\ RawInv /\ LossInv
  BY <1>1, <1>2
  DEF Init, FileInit, RecordInv, PipeInv, RawInv, OkHasRaw, LossInv
<1> QED
  BY <1>4, <1>5 DEF IInv

(* The steps that leave the file and the documents to do alone. *)
LEMMA SamePlaces ==
  ASSUME UNCHANGED <<fileVars, todo>>
  PROVE  /\ Whole' = Whole /\ DoneDocs' = DoneDocs /\ LoadRaises' = LoadRaises
         /\ TodoDocs' = TodoDocs /\ Current' = Current /\ Lost' = Lost
BY DEF fileVars, Whole, DoneDocs, LoadRaises, TodoDocs, Current, Lost

LEMMA BootIInv == IInv /\ Boot => IInv'
<1> SUFFICES ASSUME IInv, Boot
             PROVE  IInv'
  OBVIOUS
<1> DEFINE left == {k \in DOMAIN Corpus : Corpus[k] \notin DoneDocs}
<1>1. /\ UNCHANGED fileVars /\ todo' = left
      /\ Whole' = Whole /\ DoneDocs' = DoneDocs
  BY DEF Boot, fileVars, Whole, DoneDocs
<1>2. TodoDocs' \cap DoneDocs' = {} /\ Lost' = {}
  <2>1. TodoDocs' = {Corpus[k] : k \in left}
    BY <1>1 DEF TodoDocs
  <2> QED
    BY <1>1, <2>1 DEF Lost, Range
<1>3. TypeOK'
  BY DEF IInv, TypeOK, Boot, Launch, fileVars
<1>4. RecordInv'
  BY <1>1, <1>2 DEF IInv, RecordInv, Boot, Launch, fileVars
<1>5. PipeInv'
  BY DEF Boot, Launch, PipeInv
<1>6. RawInv'
  BY <1>1 DEF IInv, RawInv, OkHasRaw, Boot, fileVars
<1>7. LossInv'
  BY <1>2 DEF LossInv
<1> QED
  BY <1>3, <1>4, <1>5, <1>6, <1>7 DEF IInv

(* Sending a document, on either driver, fills in its record. *)
LEMMA SendIInv == IInv /\ (SendRR \/ PostLG) => IInv'
<1> SUFFICES ASSUME IInv, SendRR \/ PostLG
             PROVE  IInv'
  OBVIOUS
<1>1. /\ pc = "send" /\ todo # {} /\ pc' \in {"retry", "reap", "record"}
      /\ UNCHANGED <<fileVars, todo, arm, attempt, lives>>
  BY DEF SendRR, PostLG, AttemptFails
<1>2. /\ Whole' = Whole /\ DoneDocs' = DoneDocs /\ LoadRaises' = LoadRaises
      /\ TodoDocs' = TodoDocs /\ Current' = Current /\ Lost' = Lost
  BY <1>1, SamePlaces
<1>3. Current \in Docs
  BY <1>1, CurrentDoc DEF IInv
<1>4. TypeOK'
  BY <1>1, <1>3 DEF IInv, TypeOK, fileVars, SendRR, PostLG, AttemptFails
<1>5. RecordInv'
  BY <1>1, <1>2 DEF IInv, RecordInv, fileVars
<1>6. PipeInv'
  BY <1>1 DEF IInv, PipeInv, SendRR, PostLG, AttemptFails
<1>7. RawInv'
  <2>1. raw \subseteq raw'
    BY DEF SendRR, PostLG
  <2>2. OkHasRaw'
    BY <1>1, <1>2, <2>1 DEF IInv, RawInv, OkHasRaw, fileVars
  <2>3. rec_ok' => Current \in raw' \cup RawFaults
    BY <1>1 DEF IInv, RawInv, SendRR, PostLG
  <2> QED
    BY <1>1, <1>2, <2>2, <2>3 DEF RawInv
<1>8. LossInv'
  BY <1>1, <1>2 DEF IInv, LossInv, fileVars
<1> QED
  BY <1>4, <1>5, <1>6, <1>7, <1>8 DEF IInv

LEMMA RelaunchIInv == IInv /\ Relaunch => IInv'
<1> SUFFICES ASSUME IInv, Relaunch
             PROVE  IInv'
  OBVIOUS
<1>1. /\ pc \in {"retry", "reap"} /\ pc' \in {"send", "record", "stopped"}
      /\ UNCHANGED <<fileVars, arm, todo, rec_ok, raw, lives>>
  BY DEF Relaunch, Launch
<1>2. /\ Whole' = Whole /\ DoneDocs' = DoneDocs /\ LoadRaises' = LoadRaises
      /\ TodoDocs' = TodoDocs /\ Current' = Current /\ Lost' = Lost
  BY <1>1, SamePlaces
<1>3. TypeOK'
  BY <1>1 DEF IInv, TypeOK, fileVars, Relaunch, Launch
<1>4. RecordInv'
  BY <1>1, <1>2 DEF IInv, RecordInv, fileVars
<1>5. PipeInv'
  BY DEF PipeInv, Relaunch, Launch
<1>6. RawInv'
  BY <1>1, <1>2 DEF IInv, RawInv, OkHasRaw, fileVars
<1>7. LossInv'
  BY <1>1, <1>2 DEF IInv, LossInv, fileVars
<1> QED
  BY <1>3, <1>4, <1>5, <1>6, <1>7 DEF IInv

(* The line of the current document, whole and on a line of its own. *)
LEMMA RecordIInv == IInv /\ Record => IInv'
<1> SUFFICES ASSUME IInv, Record
             PROVE  IInv'
  OBVIOUS
<1>1. /\ pc = "record" /\ pc' = "send" /\ todo # {} /\ pipe = "up"
      /\ todo' = todo \ {Min(todo)} /\ rec_ok' = FALSE /\ attempt' = 1
      /\ WriteRecord(Current, rec_ok) /\ torn' = FALSE
      /\ UNCHANGED <<arm, pipe, raw, lives>>
  BY DEF IInv, RecordInv, PipeInv, Record, WriteRecord
<1>2. /\ Current \in Docs /\ Current \in TodoDocs /\ Current \notin DoneDocs
      /\ TodoDocs' = TodoDocs \ {Current}
      /\ TodoDocs \cap DoneDocs = {}
  BY <1>1, CurrentDoc DEF IInv, RecordInv, TodoDocs
<1>3. file \in Seq(Lines) /\ rec_ok \in BOOLEAN
  BY DEF IInv, TypeOK
<1>4. rec_ok => Current \in raw \cup RawFaults
  BY <1>1 DEF IInv, RawInv
<1>5. PipeInv'
  BY <1>1 DEF PipeInv
<1>6. CASE ~torn
  <2>1. file' = Append(file, [doc |-> Current, ok |-> rec_ok, whole |-> TRUE])
    BY <1>1, <1>6 DEF WriteRecord
  <2>2. file' \in Seq(Lines) /\ DoneDocs' = DoneDocs \cup {Current}
    BY <2>1, <1>2, <1>3, AddLine
  <2>3. PICK n \in DOMAIN file' :
          /\ n \notin DOMAIN file /\ DOMAIN file' = DOMAIN file \cup {n}
          /\ file'[n] = [doc |-> Current, ok |-> rec_ok, whole |-> TRUE]
          /\ Whole' = Whole \cup (IF TRUE THEN {n} ELSE {})
    BY <2>1, <1>2, <1>3, AddLine
  <2>4. \A k \in DOMAIN file : file'[k] = file[k]
    BY <2>1, <1>2, <1>3, AddLine
  <2>5. /\ \A k \in Whole : k \in DOMAIN file /\ file[k].doc \in DoneDocs
        /\ file'[n].doc = Current /\ file'[n].ok = rec_ok
    BY <2>3 DEF Whole, DoneDocs
  <2>6. TypeOK'
    BY <1>1, <2>2 DEF IInv, TypeOK
  <2>7. RecordInv'
    <3>1. \A j, k \in Whole' : file'[j].doc = file'[k].doc => j = k
      BY <1>2, <2>3, <2>4, <2>5 DEF IInv, RecordInv
    <3> QED
      BY <1>1, <1>2, <2>2, <3>1 DEF RecordInv
  <2>8. RawInv'
    BY <1>1, <1>4, <2>3, <2>4, <2>5 DEF IInv, RawInv, OkHasRaw
  <2>9. LossInv'
    <3>1. Lost' = Lost
      BY <1>2, <2>2 DEF Lost
    <3>2. LoadRaises' = LoadRaises
      BY <2>3, <2>5 DEF LoadRaises
    <3> QED
      BY <1>1, <1>6, <3>1, <3>2 DEF IInv, LossInv
  <2> QED
    BY <1>5, <2>6, <2>7, <2>8, <2>9 DEF IInv
<1>7. CASE torn
  <2>1. file' = Glued /\ file # <<>>
    BY <1>1, <1>7 DEF WriteRecord, IInv, RecordInv
  <2>2. /\ file' \in Seq(Lines) /\ DoneDocs' \subseteq DoneDocs /\ LoadRaises'
        /\ \A k \in Whole' : k \in Whole /\ file'[k] = file[k]
    BY <2>1, <1>3, GlueLine
  <2>3. PICK x \in Docs : DoneDocs \subseteq DoneDocs' \cup {x}
    BY <2>1, <1>3, GlueLine
  <2>4. TypeOK'
    BY <1>1, <2>2 DEF IInv, TypeOK
  <2>5. RecordInv'
    BY <1>1, <1>2, <2>2 DEF IInv, RecordInv
  <2>6. RawInv'
    BY <1>1, <2>2 DEF IInv, RawInv, OkHasRaw
  <2>7. LossInv'
    <3>1. Lost = {}
      BY <1>1, <1>7 DEF IInv, LossInv
    <3>2. Lost' \subseteq {x, Current}
      BY <1>2, <2>3, <3>1 DEF Lost
    <3> QED
      BY <1>1, <1>2, <2>2, <3>2 DEF LossInv
  <2> QED
    BY <1>5, <2>4, <2>5, <2>6, <2>7 DEF IInv
<1> QED
  BY <1>6, <1>7

LEMMA FinishIInv == IInv /\ Finish => IInv'
<1> SUFFICES ASSUME IInv, Finish
             PROVE  IInv'
  OBVIOUS
<1>1. /\ pc = "send" /\ pc' = "done" /\ todo = {} /\ pipe' = "down"
      /\ UNCHANGED <<fileVars, arm, todo, rec_ok, attempt, raw, lives>>
  BY DEF Finish
<1>2. /\ Whole' = Whole /\ DoneDocs' = DoneDocs /\ LoadRaises' = LoadRaises
      /\ Lost' = Lost
  BY <1>1, SamePlaces
<1>3. TypeOK'
  BY <1>1 DEF IInv, TypeOK, fileVars
<1> QED
  BY <1>1, <1>2, <1>3
  DEF IInv, RecordInv, PipeInv, RawInv, OkHasRaw, LossInv, fileVars

(* A kill: what it leaves is promised only of the file. *)
LEMMA CrashIInv == IInv /\ Crash => IInv'
<1> SUFFICES ASSUME IInv, Crash
             PROVE  IInv'
  OBVIOUS
<1>1. /\ pc' = "stopped" /\ pipe' = "down"
      /\ UNCHANGED <<arm, todo, rec_ok, attempt, raw, lives>>
  BY DEF Crash
<1>2. file \in Seq(Lines) /\ rec_ok \in BOOLEAN
  BY DEF IInv, TypeOK
<1>3. ASSUME file' \in Seq(Lines), torn' \in BOOLEAN, torn' => file' # <<>>,
             \A j, k \in Whole' : file'[j].doc = file'[k].doc => j = k,
             OkHasRaw'
      PROVE  IInv'
  BY <1>1, <1>3 DEF IInv, TypeOK, RecordInv, PipeInv, RawInv, LossInv
<1>4. CASE UNCHANGED fileVars
  BY <1>1, <1>3, <1>4
  DEF IInv, TypeOK, RecordInv, RawInv, OkHasRaw, Whole, fileVars
<1>5. CASE pc = "record" /\ TearRecord(Current, rec_ok)
  <2>1. /\ todo # {} /\ Current \in Docs /\ Current \notin DoneDocs
        /\ rec_ok => Current \in raw \cup RawFaults
    BY <1>5, CurrentDoc DEF IInv, RecordInv, RawInv
  <2>2. CASE torn
    <3>1. file' = Glued /\ file # <<>>
      BY <1>5, <2>2 DEF TearRecord, IInv, RecordInv
    <3>2. /\ file' \in Seq(Lines) /\ file' # <<>>
          /\ \A k \in Whole' : k \in Whole /\ file'[k] = file[k]
      BY <3>1, <1>2, GlueLine
    <3>3. OkHasRaw' /\ \A j, k \in Whole' : file'[j].doc = file'[k].doc => j = k
      BY <1>1, <3>2 DEF IInv, RecordInv, RawInv, OkHasRaw
    <3>4. torn' \in BOOLEAN
      BY <1>5 DEF TearRecord
    <3> QED
      BY <1>3, <3>2, <3>3, <3>4
  <2>3. CASE ~torn
    <3>1. PICK w \in BOOLEAN :
            file' = Append(file, [doc |-> Current, ok |-> rec_ok, whole |-> w])
      BY <1>5, <2>3 DEF TearRecord
    <3>2. file' \in Seq(Lines) /\ file' # <<>>
      BY <3>1, <2>1, <1>2, AddLine
    <3>3. PICK n \in DOMAIN file' :
            /\ file'[n] = [doc |-> Current, ok |-> rec_ok, whole |-> w]
            /\ Whole' = Whole \cup (IF w THEN {n} ELSE {})
      BY <3>1, <2>1, <1>2, AddLine
    <3>4. /\ \A k \in DOMAIN file : file'[k] = file[k]
          /\ \A k \in Whole : k \in DOMAIN file /\ file[k].doc \in DoneDocs
          /\ file'[n].doc = Current /\ file'[n].ok = rec_ok
      BY <3>1, <3>3, <2>1, <1>2, AddLine DEF Whole, DoneDocs
    <3>5. \A j, k \in Whole' : file'[j].doc = file'[k].doc => j = k
      BY <2>1, <3>3, <3>4 DEF IInv, RecordInv
    <3>6. OkHasRaw'
      BY <1>1, <2>1, <3>3, <3>4 DEF IInv, RawInv, OkHasRaw
    <3>7. torn' \in BOOLEAN
      BY <1>5 DEF TearRecord
    <3> QED
      BY <1>3, <3>2, <3>5, <3>6, <3>7
  <2> QED
    BY <2>2, <2>3
<1> QED
  BY <1>4, <1>5 DEF Crash

LEMMA RestartIInv == IInv /\ Restart => IInv'
<1> SUFFICES ASSUME IInv, Restart
             PROVE  IInv'
  OBVIOUS
<1>1. /\ pc = "stopped" /\ pc' = "boot" /\ lives' = lives + 1 /\ lives < MaxLives
      /\ UNCHANGED <<fileVars, arm, todo, rec_ok, attempt, pipe, raw>>
  BY DEF Restart
<1>2. Whole' = Whole /\ DoneDocs' = DoneDocs
  BY <1>1, SamePlaces
<1>3. lives' \in 1..MaxLives
  BY <1>1, BatchAssumption DEF IInv, TypeOK
<1>4. TypeOK'
  BY <1>1, <1>3 DEF IInv, TypeOK, fileVars
<1> QED
  BY <1>1, <1>2, <1>4
  DEF IInv, RecordInv, PipeInv, RawInv, OkHasRaw, LossInv, fileVars

LEMMA NextIInv == IInv /\ [Next]_vars => IInv'
<1>1. IInv /\ UNCHANGED vars => IInv'
  <2> SUFFICES ASSUME IInv, UNCHANGED vars
               PROVE  IInv'
    OBVIOUS
  <2>1. /\ Whole' = Whole /\ DoneDocs' = DoneDocs /\ LoadRaises' = LoadRaises
        /\ TodoDocs' = TodoDocs /\ Current' = Current /\ Lost' = Lost
    BY SamePlaces DEF vars
  <2> QED
    BY <2>1
    DEF IInv, TypeOK, RecordInv, PipeInv, RawInv, OkHasRaw, LossInv, vars, fileVars
<1> QED
  BY <1>1, BootIInv, SendIInv, RelaunchIInv, RecordIInv, FinishIInv, CrashIInv,
     RestartIInv DEF Next, Main

-----------------------------------------------------------------------------
(* The theorems                                                            *)

(* The invariant holds throughout, in either driver, over any number of    *)
(* processes killed within or between the writes of the file.              *)
THEOREM SequentialInvariant == Spec => []IInv
BY InitIInv, NextIInv, PTL DEF Spec

(* However often a driver is killed and restarted (rr_batch.py:85-103,     *)
(* lg_batch.py:26-37), no document gets a second line that parses, and     *)
(* none that is still to do has one.                                       *)
THEOREM SequentialRecords == Spec => []AtMostOneRecord
<1>1. IInv => AtMostOneRecord
  <2> SUFFICES ASSUME IInv
               PROVE  AtMostOneRecord
    OBVIOUS
  <2>1. ASSUME NEW d \in Docs
        PROVE  Cardinality(Places(d)) <= 1
    <3>1. CASE Places(d) = {}
      BY <3>1, FS_EmptySet
    <3>2. CASE Places(d) # {}
      <4>1. PICK k \in Places(d) : TRUE
        BY <3>2
      <4>2. Places(d) = {k}
        BY <4>1 DEF IInv, RecordInv, Places
      <4>3. Cardinality(Places(d)) = 1
        BY <4>2, FS_Singleton
      <4> QED
        BY <4>3
    <3> QED
      BY <3>1, <3>2
  <2> QED
    BY <2>1 DEF IInv, RecordInv, AtMostOneRecord
<1> QED
  BY <1>1, SequentialInvariant, PTL

(* A set of at most two members. *)
LEMMA AtMostTwo ==
  ASSUME NEW x, NEW y, NEW T \in SUBSET {x, y}
  PROVE  Cardinality(T) <= 2
<1>1. /\ IsFiniteSet({x}) /\ Cardinality({x}) = 1
  BY FS_Singleton
<1>2. /\ IsFiniteSet({x} \cup {y})
      /\ Cardinality({x} \cup {y}) \in {1, 2}
  BY <1>1, FS_AddElement
<1>3. T \subseteq {x} \cup {y}
  OBVIOUS
<1>4. IsFiniteSet(T) /\ Cardinality(T) <= Cardinality({x} \cup {y})
  BY <1>2, <1>3, FS_Subset
<1>5. Cardinality(T) \in Nat
  BY <1>4, FS_CardinalityType
<1> QED
  BY <1>2, <1>4, <1>5

(* A run that ends lacks at most two documents, and none while its file    *)
(* can be read through: only a kill within a write loses any, the line it  *)
(* tore and the one glued to it.                                           *)
THEOREM SequentialLoss == Spec => []LossBounded
<1>1. IInv => LossBounded
  <2> SUFFICES ASSUME IInv, pc = "done"
               PROVE  /\ Cardinality(Range(Corpus) \ DoneDocs) <= 2
                      /\ ~LoadRaises => Range(Corpus) \ DoneDocs = {}
    BY DEF LossBounded
  <2>1. Lost = Range(Corpus) \ DoneDocs
    BY DEF IInv, RecordInv, Lost, TodoDocs
  <2>2. CASE Lost = {}
    BY <2>1, <2>2, FS_EmptySet
  <2>3. CASE Lost # {}
    <3>1. PICK x, y \in Docs : Lost \subseteq {x, y}
      BY <2>3 DEF IInv, LossInv
    <3>2. Cardinality(Lost) <= 2
      BY <3>1, AtMostTwo
    <3> QED
      BY <2>1, <2>3, <3>2 DEF IInv, LossInv
  <2> QED
    BY <2>2, <2>3
<1> QED
  BY <1>1, SequentialInvariant, PTL

(* Whatever fails in an attempt or a relaunch (rr_batch.py:137-167), every *)
(* document is sent on a pipe on which none has failed.                    *)
THEOREM SequentialPipe == Spec => []SendOnFreshPipe
<1>1. IInv => SendOnFreshPipe
  BY DEF IInv, PipeInv, SendOnFreshPipe
<1> QED
  BY <1>1, SequentialInvariant, PTL

(* The output is saved before the line (lg_batch.py:82-96): no kill leaves *)
(* a line that says ok without it.                                         *)
THEOREM SequentialRaw == Spec => []OkHasRaw
<1>1. IInv => OkHasRaw
  BY DEF IInv, RawInv
<1> QED
  BY <1>1, SequentialInvariant, PTL

-----------------------------------------------------------------------------
(* A process ends                                                          *)

(* What a process may still do at most, from a place in main(), with n     *)
(* documents to do and the current one in its attempt a: five steps for    *)
(* each document. *)
Left(there, a, n) ==
  CASE there = "boot"   -> 6 * Len(Corpus) + 6
    [] there = "send"   -> 6 * n + (IF a = 1 THEN 5 ELSE 3)
    [] there = "retry"  -> 6 * n + 4
    [] there = "reap"   -> 6 * n + 2
    [] there = "record" -> 6 * n + 1
    [] there \in {"done", "stopped"} -> 0

StepsLeft == Left(pc, attempt, Cardinality(todo))

LEMMA TodoCount ==
  ASSUME NEW T \in SUBSET (DOMAIN Corpus)
  PROVE  IsFiniteSet(T) /\ Cardinality(T) \in 0..Len(Corpus)
<1>1. DOMAIN Corpus = 1..Len(Corpus) /\ Len(Corpus) \in Nat
  BY BatchAssumption, LenProperties
<1>2. IsFiniteSet(1..Len(Corpus)) /\ Cardinality(1..Len(Corpus)) = Len(Corpus)
  BY <1>1, FS_Interval
<1> QED
  BY <1>1, <1>2, FS_Subset, FS_CardinalityType

LEMMA LeftFalls ==
  ASSUME NEW n \in 0..Len(Corpus)
  PROVE  /\ Left("send", 1, n) < Left("boot", 1, n)
         /\ Left("retry", 1, n) < Left("send", 1, n)
         /\ \A a \in {1, 2} : /\ Left("record", a, n) < Left("send", a, n)
                             /\ Left("send", 2, n) < Left("retry", a, n)
                             /\ Left("record", 2, n) < Left("reap", a, n)
         /\ Left("reap", 2, n) < Left("send", 2, n)
         /\ \A a \in {1, 2} : n > 0 => Left("send", 1, n - 1) < Left("record", a, n)
<1> Len(Corpus) \in Nat
  BY BatchAssumption, LenProperties
<1> QED
  BY DEF Left

LEMMA LeftRange ==
  ASSUME NEW n \in 0..Len(Corpus), NEW a \in {1, 2},
         NEW p \in {"boot", "send", "retry", "reap", "record", "done", "stopped"}
  PROVE  /\ Left(p, a, n) \in 0..(6 * Len(Corpus) + 6)
         /\ p \notin {"done", "stopped"} => 0 < Left(p, a, n)
<1> Len(Corpus) \in Nat
  BY BatchAssumption, LenProperties
<1> QED
  BY DEF Left

(* A document that keeps failing is not retried for ever                   *)
(* (rr_batch.py:138-140), nor a pipe relaunched: whatever the engine and   *)
(* the service answer, every step of a process but its restart leaves it   *)
(* fewer to take, and it has at most six for each document of the corpus   *)
(* and six more. *)
THEOREM SequentialSteps ==
  Spec => /\ [](StepsLeft \in 0..(6 * Len(Corpus) + 6))
          /\ [][Restart \/ StepsLeft' < StepsLeft]_vars
<1>1. IInv => StepsLeft \in 0..(6 * Len(Corpus) + 6)
  <2> SUFFICES ASSUME IInv
               PROVE  StepsLeft \in 0..(6 * Len(Corpus) + 6)
    OBVIOUS
  <2>1. /\ Cardinality(todo) \in 0..Len(Corpus) /\ attempt \in {1, 2}
        /\ pc \in {"boot", "send", "retry", "reap", "record", "done", "stopped"}
    BY TodoCount DEF IInv, TypeOK
  <2>2. Left(pc, attempt, Cardinality(todo)) \in 0..(6 * Len(Corpus) + 6)
    BY <2>1, LeftRange
  <2> QED
    BY <2>2 DEF StepsLeft
<1>2. IInv /\ IInv' /\ Next => Restart \/ StepsLeft' < StepsLeft
  <2> SUFFICES ASSUME IInv, IInv', Next, ~Restart
               PROVE  StepsLeft' < StepsLeft
    OBVIOUS
  <2> DEFINE n == Cardinality(todo)
  <2>1. /\ n \in 0..Len(Corpus) /\ n' \in 0..Len(Corpus)
        /\ attempt \in {1, 2} /\ IsFiniteSet(todo)
    BY TodoCount DEF IInv, TypeOK
  <2>2. /\ StepsLeft = Left(pc, attempt, n)
        /\ StepsLeft' = Left(pc', attempt', n')
    BY DEF StepsLeft, Left
  <2>3. \A p \in {"boot", "send", "retry", "reap", "record"} : \A there \in {"done", "stopped"} :
           Left(there, attempt', n') < Left(p, attempt, n)
    <3>1. \A p \in {"boot", "send", "retry", "reap", "record"} : 0 < Left(p, attempt, n)
      BY <2>1, LeftRange
    <3>2. \A there \in {"done", "stopped"} : Left(there, attempt', n') = 0
      BY DEF Left
    <3> QED
      BY <3>1, <3>2
  <2>4. todo' = todo => n' = n
    OBVIOUS
  <2> HIDE DEF n
  <2>5. ASSUME Boot
        PROVE  StepsLeft' < StepsLeft
    <3>1. pc = "boot" /\ attempt' = 1 /\ pc' \in {"send", "stopped"}
      BY <2>5 DEF Boot, Launch
    <3>2. Left("send", 1, n') < Left("boot", 1, n')
      BY <2>1, LeftFalls
    <3>3. Left("boot", 1, n') = Left("boot", attempt, n)
      BY DEF Left
    <3> QED
      BY <2>2, <2>3, <3>1, <3>2, <3>3
  <2>6. ASSUME SendRR \/ PostLG
        PROVE  StepsLeft' < StepsLeft
    <3>1. /\ pc = "send" /\ attempt' = attempt /\ todo' = todo
          /\ \/ pc' = "record"
             \/ pc' = "retry" /\ attempt = 1
             \/ pc' = "reap" /\ attempt = 2
      BY <2>1, <2>6 DEF SendRR, PostLG, AttemptFails
    <3> QED
      BY <2>1, <2>2, <2>4, <3>1, LeftFalls
  <2>7. ASSUME Relaunch
        PROVE  StepsLeft' < StepsLeft
    <3>1. /\ attempt' = 2 /\ todo' = todo
          /\ \/ pc = "retry" /\ pc' \in {"send", "stopped"}
             \/ pc = "reap" /\ pc' \in {"record", "stopped"}
      BY <2>7 DEF Relaunch, Launch
    <3> QED
      BY <2>1, <2>2, <2>3, <2>4, <3>1, LeftFalls
  <2>8. ASSUME Record
        PROVE  StepsLeft' < StepsLeft
    <3>1. /\ pc = "record" /\ pc' = "send" /\ attempt' = 1
          /\ todo' = todo \ {Min(todo)} /\ todo # {}
      BY <2>8 DEF Record, IInv, RecordInv
    <3>2. Min(todo) \in todo
      BY <3>1, MinPosition DEF IInv, TypeOK
    <3>3. n' = n - 1 /\ n > 0
      <4>1. Cardinality(todo \ {Min(todo)}) = Cardinality(todo) - 1
        BY <2>1, <3>2, FS_RemoveElement
      <4>2. Cardinality(todo) # 0
        BY <2>1, <3>1, FS_EmptySet
      <4> QED
        BY <2>1, <3>1, <4>1, <4>2 DEF n
    <3>4. Left("send", 1, n - 1) < Left("record", attempt, n)
      BY <2>1, <3>3, LeftFalls
    <3> QED
      BY <2>2, <3>1, <3>3, <3>4
  <2>9. ASSUME Finish \/ Crash
        PROVE  StepsLeft' < StepsLeft
    <3>1. /\ pc \in {"boot", "send", "retry", "reap", "record"}
          /\ pc' \in {"done", "stopped"}
      BY <2>9 DEF Finish, Crash, IInv, TypeOK
    <3> QED
      BY <2>2, <2>3, <3>1
  <2> QED
    BY <2>5, <2>6, <2>7, <2>8, <2>9 DEF Next, Main
<1> QED
  BY <1>1, <1>2, SequentialInvariant, PTL DEF Spec
=============================================================================
