-------------------------- MODULE BulkDriverProofs ---------------------------
(***************************************************************************)
(* Proofs about BulkDriver, for every corpus, every batch size and every   *)
(* number of processes, and that it implements RecordLedger.               *)
(***************************************************************************)
EXTENDS BulkDriver, FiniteSetTheorems, SequenceTheorems, TLAPS

-----------------------------------------------------------------------------
(* The corpus and its positions                                            *)

(* A set of natural numbers has a least one. *)
LEMMA LeastOf ==
  ASSUME NEW T \in SUBSET Nat, T # {}
  PROVE  \E n \in T : \A m \in T : n <= m
<1>1. IsWellFoundedOn(OpToRel(<, Nat), Nat)
  BY NatLessThanWellFounded
<1>2. PICK n \in T : \A m \in T : ~(<<m, n>> \in OpToRel(<, Nat))
  BY <1>1, WFMin
<1>3. \A m \in T : <<m, n>> \in OpToRel(<, Nat) <=> m < n
  BY <1>2 DEF OpToRel
<1>4. \A m \in T : ~(m < n)
  BY <1>2, <1>3
<1>5. \A m \in T : n <= m
  BY <1>4
<1> QED
  BY <1>5

LEMMA CorpusFacts ==
  /\ \A k \in DOMAIN Corpus : Corpus[k] \in Docs
  /\ \A d \in Docs : \E k \in DOMAIN Corpus : Corpus[k] = d
  /\ \A j, k \in DOMAIN Corpus : Corpus[j] = Corpus[k] => j = k
  /\ DOMAIN Corpus \subseteq Nat
BY BulkAssumption, ElementOfSeq, LenProperties DEF Range

(* A loop that is not through stands at one of its documents. *)
LEMMA CurrentPosition ==
  ASSUME TypeOK, work # {}
  PROVE  /\ Min(work) \in work /\ Min(work) \in DOMAIN Corpus
         /\ Current \in Docs
         /\ \A k \in DOMAIN Corpus : k # Min(work) => Corpus[k] # Current
<1>1. work \in SUBSET Nat /\ work \subseteq DOMAIN Corpus
  BY CorpusFacts DEF TypeOK
<1>2. PICK n \in work : \A m \in work : n <= m
  BY <1>1, LeastOf
<1>3. Min(work) \in work
  BY <1>2 DEF Min
<1> QED
  BY <1>1, <1>3, CorpusFacts DEF Current

-----------------------------------------------------------------------------
(* The record file                                                         *)

(* A record is a new line of its document, behind all the others. *)
LEMMA NewLine ==
  ASSUME file \in Seq(Lines), ~torn, Whole = DOMAIN file,
         NEW d \in Docs, NEW ok \in BOOLEAN, WriteRecord(d, ok)
  PROVE  /\ file' \in Seq(Lines) /\ ~torn' /\ Whole' = DOMAIN file'
         /\ Len(file) \in Nat /\ Len(file') = Len(file) + 1
         /\ DOMAIN file = 1..Len(file)
         /\ Places(d)' = Places(d) \cup {Len(file) + 1}
         /\ \A c \in Docs : c # d => Places(c)' = Places(c)
         /\ \A c \in Docs : Places(c) \subseteq DOMAIN file
         /\ DoneDocs' = DoneDocs \cup {d}
<1> DEFINE line == [doc |-> d, ok |-> ok, whole |-> TRUE]
           n == Len(file) + 1
<1>1. file' = Append(file, line) /\ torn' = FALSE
  BY DEF WriteRecord
<1>2. line \in Lines /\ line.doc = d /\ line.whole = TRUE
  BY DEF Lines
<1>3. /\ file' \in Seq(Lines) /\ Len(file') = n
      /\ \A k \in 1..Len(file) : file'[k] = file[k]
      /\ file'[n] = line
  BY <1>1, <1>2, AppendProperties
<1>4. /\ Len(file) \in Nat /\ DOMAIN file = 1..Len(file)
      /\ DOMAIN file' = 1..n
  BY <1>3, LenProperties
<1>5. /\ DOMAIN file' = DOMAIN file \cup {n} /\ n \notin DOMAIN file
      /\ \A k \in DOMAIN file : file'[k] = file[k]
  BY <1>3, <1>4
<1>6. Len(file') = Len(file) + 1
  BY <1>3
<1> HIDE DEF line, n
<1>7. Whole' = DOMAIN file' /\ \A k \in DOMAIN file : file[k].whole
  BY <1>2, <1>3, <1>5 DEF Whole
<1>8. /\ Places(d)' = Places(d) \cup {n}
      /\ \A c \in Docs : c # d => Places(c)' = Places(c)
      /\ \A c \in Docs : Places(c) \subseteq DOMAIN file
  BY <1>2, <1>3, <1>5, <1>7 DEF Places
<1>9. DoneDocs' = DoneDocs \cup {d}
  BY <1>2, <1>3, <1>5, <1>7 DEF DoneDocs
<1> QED
  BY <1>1, <1>3, <1>4, <1>6, <1>7, <1>8, <1>9 DEF n

(* A document is done when it has a line. *)
LEMMA DoneHasPlace ==
  ASSUME NEW d
  PROVE  d \in DoneDocs <=> Places(d) # {}
BY DEF DoneDocs, Places

LEMMA SameFile ==
  ASSUME UNCHANGED fileVars
  PROVE  /\ Whole' = Whole /\ DoneDocs' = DoneDocs
         /\ \A d : Places(d)' = Places(d)
         /\ \A k : Recorded(k)' = Recorded(k)
         /\ \A k : OnceAt(k)' = OnceAt(k)
BY DEF fileVars, Whole, DoneDocs, Places, Recorded, OnceAt

(* What the record of the current document changes. *)
LEMMA RecordCurrent ==
  ASSUME TypeOK, FileInv, work # {}, OnceAt(Min(work)),
         NEW ok \in BOOLEAN, WriteRecord(Current, ok)
  PROVE  /\ file' \in Seq(Lines) /\ torn' = FALSE /\ FileInv'
         /\ \A k \in DOMAIN Corpus :
              Recorded(k)' <=> Recorded(k) \/ k = Min(work)
         /\ \A k \in DOMAIN Corpus :
              OnceAt(k) /\ (k = Min(work) => ~ Recorded(k)) => OnceAt(k)'
<1> PICK d \in Docs : d = Current
  BY CurrentPosition
<1>1. /\ Min(work) \in work /\ Corpus[Min(work)] = d
      /\ \A k \in DOMAIN Corpus : k # Min(work) => Corpus[k] # d
  BY CurrentPosition DEF Current
<1> DEFINE n == Len(file) + 1
<1>2. /\ file' \in Seq(Lines) /\ ~torn' /\ Whole' = DOMAIN file'
      /\ Places(d)' = Places(d) \cup {n}
      /\ \A c \in Docs : c # d => Places(c)' = Places(c)
      /\ DoneDocs' = DoneDocs \cup {d}
  BY <1>1, NewLine DEF TypeOK, FileInv
<1>3. torn' = FALSE
  BY DEF WriteRecord
<1> HIDE DEF n
<1>4. FileInv'
  <2>1. \A h, i \in Places(d) : h = i
    BY <1>1 DEF OnceAt
  <2>2. \A c \in Docs : \A h, i, j \in Places(c)' : h = i \/ i = j \/ h = j
    BY <1>2, <2>1 DEF FileInv
  <2> QED
    BY <1>2, <2>2 DEF FileInv
<1>5. \A k \in DOMAIN Corpus : Recorded(k)' <=> Recorded(k) \/ k = Min(work)
  BY <1>1, <1>2 DEF Recorded
<1>6. ASSUME NEW k \in DOMAIN Corpus, OnceAt(k), k = Min(work) => ~ Recorded(k)
      PROVE  OnceAt(k)'
  <2>1. CASE k = Min(work)
    <3>1. Places(Corpus[k]) = {} /\ Corpus[k] = d
      BY <1>1, <1>6, <2>1, DoneHasPlace DEF Recorded
    <3>2. Places(Corpus[k])' = {n}
      BY <1>2, <3>1
    <3> QED
      BY <3>2 DEF OnceAt
  <2>2. CASE k # Min(work)
    <3>1. Corpus[k] \in Docs /\ Corpus[k] # d
      BY <1>1, <2>2, CorpusFacts
    <3>2. Places(Corpus[k])' = Places(Corpus[k])
      BY <1>2, <3>1
    <3> QED
      BY <1>6, <3>2 DEF OnceAt
  <2> QED
    BY <2>1, <2>2
<1> QED
  BY <1>2, <1>3, <1>4, <1>5, <1>6

-----------------------------------------------------------------------------
(* The inductive invariant                                                 *)

LEMMA BatchOfTodo == Batch \subseteq todo
BY DEF Batch

LEMMA SameBatch == todo' = todo => Batch' = Batch
BY DEF Batch

LEMMA InitIInv == Init => IInv
<1> SUFFICES ASSUME Init
             PROVE  IInv
  OBVIOUS
<1>1. file = <<>> /\ DOMAIN file = {} /\ file \in Seq(Lines) /\ torn = FALSE
  BY EmptySeq, LenProperties DEF Init, FileInit
<1>2. Whole = DOMAIN file /\ \A d : Places(d) = {}
  BY <1>1 DEF Whole, Places
<1>3. 1 \in 1..MaxLives
  BY BulkAssumption
<1>4. TypeOK
  BY <1>1, <1>3 DEF Init, TypeOK
<1> QED
  BY <1>1, <1>2, <1>4 DEF Init, IInv, FileInv, PipeInv, OrderInv, BatchInv

LEMMA BootIInv == IInv /\ Boot => IInv'
<1> SUFFICES ASSUME IInv, Boot
             PROVE  IInv'
  OBVIOUS
<1>1. /\ todo' = {k \in DOMAIN Corpus : Corpus[k] \notin DoneDocs}
      /\ \/ pc' = "batch" /\ pipe' = "up"
         \/ pc' = "stopped" /\ pipe' = "down"
      /\ UNCHANGED <<fileVars, got, work, guarded, attempt, lives>>
  BY DEF Boot, Launch
<1>2. /\ Whole' = Whole /\ DoneDocs' = DoneDocs
      /\ \A d : Places(d)' = Places(d)
  BY <1>1, SameFile
<1>3. TypeOK'
  BY <1>1 DEF IInv, TypeOK, fileVars
<1>4. FileInv'
  BY <1>1, <1>2 DEF IInv, FileInv, fileVars
<1>5. /\ \A k \in todo' : ~ Recorded(k)'
      /\ \A k \in DOMAIN Corpus : k \notin todo' => Recorded(k)'
  BY <1>1, <1>2 DEF Recorded
<1>6. Batch' \subseteq todo'
  BY DEF Batch
<1>7. PipeInv'
  BY <1>1 DEF PipeInv
<1>8. OrderInv' /\ BatchInv'
  BY <1>1, <1>5, <1>6 DEF OrderInv, BatchInv
<1> QED
  BY <1>3, <1>4, <1>7, <1>8 DEF IInv

LEMMA SendBatchIInv == IInv /\ SendBatch => IInv'
<1> SUFFICES ASSUME IInv, SendBatch
             PROVE  IInv'
  OBVIOUS
<1>1. pc = "batch" /\ UNCHANGED <<fileVars, todo, guarded, attempt, lives>>
  BY DEF SendBatch
<1>2. /\ Whole' = Whole /\ Batch' = Batch
      /\ \A d : Places(d)' = Places(d)
      /\ \A k : Recorded(k)' = Recorded(k)
      /\ \A k : OnceAt(k)' = OnceAt(k)
  BY <1>1, SameFile, SameBatch
<1>3. FileInv'
  BY <1>1, <1>2 DEF IInv, FileInv, fileVars
<1>4. /\ \A k \in Batch : ~ Recorded(k) /\ Places(Corpus[k]) = {}
      /\ \A k \in Batch : OnceAt(k)
  BY <1>1, DoneHasPlace DEF IInv, BatchInv, Recorded, OnceAt
<1>5. Batch \subseteq DOMAIN Corpus
  BY BatchOfTodo DEF IInv, TypeOK
<1>6. CASE pc' = "except" /\ pipe' = "suspect" /\ UNCHANGED <<got, work>>
  <2>1. TypeOK'
    BY <1>1, <1>6 DEF IInv, TypeOK, fileVars
  <2>2. PipeInv' /\ OrderInv' /\ BatchInv'
    BY <1>1, <1>2, <1>4, <1>6 DEF IInv, PipeInv, OrderInv, BatchInv
  <2> QED
    BY <1>3, <2>1, <2>2 DEF IInv
<1>7. ASSUME NEW r \in SUBSET Batch, got' = r, work' = Batch, pc' = "write",
             pipe' = IF r = Batch THEN "up" ELSE "suspect"
      PROVE  IInv'
  <2>1. TypeOK'
    BY <1>1, <1>5, <1>7 DEF IInv, TypeOK, fileVars
  <2>2. PipeInv'
    BY <1>2, <1>7 DEF PipeInv
  <2>3. OrderInv'
    BY <1>1, <1>2, <1>7 DEF IInv, OrderInv
  <2>4. BatchInv'
    BY <1>2, <1>4, <1>7 DEF BatchInv
  <2> QED
    BY <1>3, <2>1, <2>2, <2>3, <2>4 DEF IInv
<1> QED
  BY <1>6, <1>7 DEF SendBatch

LEMMA WriteBulkIInv == IInv /\ WriteBulk => IInv'
<1> SUFFICES ASSUME IInv, WriteBulk
             PROVE  IInv'
  OBVIOUS
<1>1. /\ pc = "write" /\ work # {}
      /\ UNCHANGED <<todo, got, guarded, attempt, pipe, lives>>
  BY DEF WriteBulk
<1>2. Batch' = Batch /\ Batch \subseteq todo /\ Batch \subseteq DOMAIN Corpus
  BY <1>1, SameBatch, BatchOfTodo DEF IInv, TypeOK
<1>3. Min(work) \in work /\ Min(work) \in Batch
  BY <1>1, CurrentPosition DEF IInv, BatchInv
<1>4. CASE /\ Min(work) \notin got /\ work' = work \ {Min(work)}
           /\ UNCHANGED <<fileVars, pc>>
  <2>1. /\ Whole' = Whole /\ \A d : Places(d)' = Places(d)
        /\ \A k : Recorded(k)' = Recorded(k)
        /\ \A k : OnceAt(k)' = OnceAt(k)
    BY <1>4, SameFile
  <2>2. TypeOK'
    BY <1>1, <1>4 DEF IInv, TypeOK, fileVars
  <2>3. FileInv' /\ PipeInv' /\ OrderInv'
    BY <1>1, <1>2, <1>4, <2>1
    DEF IInv, FileInv, PipeInv, OrderInv, fileVars
  <2>4. BatchInv'
    BY <1>1, <1>2, <1>4, <2>1 DEF IInv, BatchInv
  <2> QED
    BY <2>2, <2>3, <2>4 DEF IInv
<1>5. CASE /\ Min(work) \in got /\ WriteRecord(Current, TRUE)
           /\ work' = work \ {Min(work)} /\ UNCHANGED pc
  <2>1. OnceAt(Min(work)) /\ ~ Recorded(Min(work))
    BY <1>1, <1>3 DEF IInv, BatchInv
  <2>2. /\ file' \in Seq(Lines) /\ torn' = FALSE /\ FileInv'
        /\ \A k \in DOMAIN Corpus :
             Recorded(k)' <=> Recorded(k) \/ k = Min(work)
        /\ \A k \in DOMAIN Corpus : OnceAt(k) => OnceAt(k)'
    BY <1>1, <1>5, <2>1, RecordCurrent DEF IInv
  <2>3. TypeOK'
    BY <1>1, <1>5, <2>2 DEF IInv, TypeOK
  <2>4. PipeInv'
    BY <1>1, <1>2, <1>5 DEF IInv, PipeInv
  <2>5. OrderInv'
    BY <1>1, <1>2, <1>3, <1>5, <2>2 DEF IInv, TypeOK, OrderInv
  <2>6. BatchInv'
    <3>1. \A k \in Batch : Recorded(k)' <=> k \in got' \ work'
      BY <1>1, <1>2, <1>3, <1>5, <2>2 DEF IInv, BatchInv
    <3>2. \A k \in Batch : OnceAt(k)'
      BY <1>1, <1>2, <2>2 DEF IInv, BatchInv
    <3> QED
      BY <1>1, <1>2, <1>5, <3>1, <3>2 DEF IInv, BatchInv
  <2> QED
    BY <2>2, <2>3, <2>4, <2>5, <2>6 DEF IInv
<1>6. CASE pc' = "except" /\ UNCHANGED <<fileVars, work>>
  <2>1. /\ Whole' = Whole /\ \A d : Places(d)' = Places(d)
        /\ \A k : Recorded(k)' = Recorded(k)
        /\ \A k : OnceAt(k)' = OnceAt(k)
    BY <1>6, SameFile
  <2>2. TypeOK'
    BY <1>1, <1>6 DEF IInv, TypeOK, fileVars
  <2>3. FileInv' /\ PipeInv' /\ OrderInv'
    BY <1>1, <1>2, <1>6, <2>1
    DEF IInv, FileInv, PipeInv, OrderInv, fileVars
  <2>4. BatchInv'
    BY <1>1, <1>2, <1>6, <2>1 DEF IInv, BatchInv
  <2> QED
    BY <2>2, <2>3, <2>4 DEF IInv
<1> QED
  BY <1>4, <1>5, <1>6 DEF WriteBulk

(* The batch is written: the next one, or the documents it lacks. *)
LEMMA BatchWrittenIInv == IInv /\ BatchWritten => IInv'
<1> SUFFICES ASSUME IInv, BatchWritten
             PROVE  IInv'
  OBVIOUS
<1>1. /\ pc = "write" /\ work = {}
      /\ UNCHANGED <<fileVars, got, lives>>
  BY DEF BatchWritten
<1>2. /\ Whole' = Whole /\ \A d : Places(d)' = Places(d)
      /\ \A k : Recorded(k)' = Recorded(k)
      /\ \A k : OnceAt(k)' = OnceAt(k)
  BY <1>1, SameFile
<1>3. FileInv'
  BY <1>1, <1>2 DEF IInv, FileInv, fileVars
<1>4. /\ got \subseteq Batch /\ Batch \subseteq todo /\ todo \subseteq DOMAIN Corpus
      /\ \A k \in Batch : Recorded(k) <=> k \in got
      /\ \A k \in Batch : OnceAt(k)
      /\ \A k \in DOMAIN Corpus \ todo : Recorded(k)
      /\ \A k \in todo \ Batch : ~ Recorded(k)
  BY <1>1, BatchOfTodo DEF IInv, BatchInv, OrderInv, TypeOK
<1>5. CASE /\ Batch \subseteq got /\ todo' = todo \ Batch /\ pc' = "batch"
           /\ UNCHANGED <<work, guarded, attempt, pipe>>
  <2>1. Batch' \subseteq todo'
    BY DEF Batch
  <2>2. TypeOK'
    BY <1>1, <1>5 DEF IInv, TypeOK, fileVars
  <2>3. PipeInv'
    BY <1>1, <1>5 DEF IInv, PipeInv
  <2>4. OrderInv' /\ BatchInv'
    BY <1>2, <1>4, <1>5, <2>1 DEF OrderInv, BatchInv
  <2> QED
    BY <1>3, <2>2, <2>3, <2>4 DEF IInv
<1>6. CASE /\ Launch("doc", "except") /\ work' = Batch \ got
           /\ guarded' = TRUE /\ attempt' = 1 /\ UNCHANGED todo
  <2>1. Batch' = Batch
    BY <1>6, SameBatch
  <2>2. \/ pc' = "doc" /\ pipe' = "up"
        \/ pc' = "except" /\ pipe' = "down"
    BY <1>6 DEF Launch
  <2>3. TypeOK'
    BY <1>1, <1>4, <1>6, <2>2 DEF IInv, TypeOK, fileVars
  <2>4. PipeInv'
    BY <2>2 DEF PipeInv
  <2>5. OrderInv' /\ BatchInv'
    BY <1>2, <1>4, <1>6, <2>1, <2>2 DEF OrderInv, BatchInv
  <2> QED
    BY <1>3, <2>3, <2>4, <2>5 DEF IInv
<1> QED
  BY <1>5, <1>6 DEF BatchWritten

(* The handler: the whole batch again, each document once more at most. *)
LEMMA BatchFailedIInv == IInv /\ BatchFailed => IInv'
<1> SUFFICES ASSUME IInv, BatchFailed
             PROVE  IInv'
  OBVIOUS
<1>1. /\ pc = "except" /\ work' = Batch /\ guarded' = FALSE /\ attempt' = 1
      /\ \/ pc' = "doc" /\ pipe' = "up"
         \/ pc' = "stopped" /\ pipe' = "down"
      /\ UNCHANGED <<fileVars, todo, got, lives>>
  BY DEF BatchFailed, Launch
<1>2. /\ Whole' = Whole /\ Batch' = Batch
      /\ \A d : Places(d)' = Places(d)
      /\ \A k : Recorded(k)' = Recorded(k)
      /\ \A k : OnceAt(k)' = OnceAt(k)
  BY <1>1, SameFile, SameBatch
<1>3. FileInv'
  BY <1>1, <1>2 DEF IInv, FileInv, fileVars
<1>4. TypeOK'
  BY <1>1, BatchOfTodo DEF IInv, TypeOK, fileVars
<1>5. PipeInv'
  BY <1>1 DEF PipeInv
<1>6. OrderInv' /\ BatchInv'
  BY <1>1, <1>2 DEF IInv, OrderInv, BatchInv
<1> QED
  BY <1>3, <1>4, <1>5, <1>6 DEF IInv

(* A document is recorded, by its output or by its second failure. *)
LEMMA DocRecorded ==
  ASSUME IInv, pc = "doc", work # {}, work' = work \ {Min(work)},
         \E ok \in BOOLEAN : WriteRecord(Current, ok),
         UNCHANGED <<todo, got, guarded, lives>>, attempt' \in {1, 2},
         \/ pc' = "doc" /\ pipe' = "up"
         \/ pc' = "reap" /\ pipe' = "suspect"
  PROVE  IInv'
<1> PICK ok \in BOOLEAN : WriteRecord(Current, ok)
  OBVIOUS
<1>1. /\ Batch' = Batch /\ Batch \subseteq todo /\ todo \subseteq DOMAIN Corpus
      /\ work \subseteq Batch /\ Min(work) \in work
  BY SameBatch, BatchOfTodo, CurrentPosition DEF IInv, TypeOK, BatchInv
<1>2. OnceAt(Min(work))
  BY <1>1 DEF IInv, BatchInv
<1>3. /\ file' \in Seq(Lines) /\ torn' = FALSE /\ FileInv'
      /\ \A k \in DOMAIN Corpus :
           Recorded(k)' <=> Recorded(k) \/ k = Min(work)
      /\ \A k \in DOMAIN Corpus :
           OnceAt(k) /\ (k = Min(work) => ~ Recorded(k)) => OnceAt(k)'
  BY <1>2, RecordCurrent DEF IInv
<1>4. TypeOK'
  BY <1>3 DEF IInv, TypeOK
<1>5. PipeInv'
  BY DEF PipeInv
<1>6. OrderInv'
  BY <1>1, <1>3 DEF IInv, OrderInv
<1>7. BatchInv'
  <2>1. /\ work' \subseteq Batch'
        /\ \A k \in Batch' \ work' : Recorded(k)'
        /\ \A k \in work' : OnceAt(k)'
    BY <1>1, <1>3 DEF IInv, BatchInv
  <2>2. guarded' => /\ \A k \in work' : ~ Recorded(k)'
                    /\ \A k \in Batch' : OnceAt(k)'
    BY <1>1, <1>3 DEF IInv, BatchInv
  <2> QED
    BY <2>1, <2>2 DEF BatchInv
<1> QED
  BY <1>3, <1>4, <1>5, <1>6, <1>7 DEF IInv

LEMMA SendDocIInv == IInv /\ SendDoc => IInv'
<1> SUFFICES ASSUME IInv, SendDoc
             PROVE  IInv'
  OBVIOUS
<1>1. pc = "doc" /\ work # {} /\ UNCHANGED <<todo, got, guarded, lives>>
  BY DEF SendDoc
<1>2. CASE /\ WriteRecord(Current, TRUE) /\ work' = work \ {Min(work)}
           /\ attempt' = 1 /\ UNCHANGED <<pc, pipe>>
  <2>1. pc' = "doc" /\ pipe' = "up" /\ attempt' \in {1, 2}
    BY <1>1, <1>2 DEF IInv, PipeInv
  <2>2. \E ok \in BOOLEAN : WriteRecord(Current, ok)
    BY <1>2
  <2>3. work' = work \ {Min(work)}
    BY <1>2
  <2> QED
    BY <1>1, <2>1, <2>2, <2>3, DocRecorded
<1>3. CASE /\ pc' = "retry" /\ pipe' = "suspect"
           /\ UNCHANGED <<fileVars, work, attempt>>
  <2>1. /\ Whole' = Whole /\ Batch' = Batch
        /\ \A d : Places(d)' = Places(d)
        /\ \A k : Recorded(k)' = Recorded(k)
        /\ \A k : OnceAt(k)' = OnceAt(k)
    BY <1>1, <1>3, SameFile, SameBatch
  <2>2. TypeOK'
    BY <1>1, <1>3 DEF IInv, TypeOK, fileVars
  <2>3. FileInv' /\ PipeInv' /\ OrderInv'
    BY <1>1, <1>3, <2>1 DEF IInv, FileInv, PipeInv, OrderInv, fileVars
  <2>4. BatchInv'
    BY <1>1, <1>3, <2>1 DEF IInv, BatchInv
  <2> QED
    BY <2>2, <2>3, <2>4 DEF IInv
<1>4. CASE /\ WriteRecord(Current, FALSE) /\ pc' = "reap" /\ pipe' = "suspect"
           /\ work' = work \ {Min(work)} /\ UNCHANGED attempt
  <2>1. attempt' \in {1, 2}
    BY <1>4 DEF IInv, TypeOK
  <2>2. \E ok \in BOOLEAN : WriteRecord(Current, ok)
    BY <1>4
  <2> QED
    BY <1>1, <1>4, <2>1, <2>2, DocRecorded
<1> QED
  BY <1>2, <1>3, <1>4 DEF SendDoc

LEMMA RelaunchIInv == IInv /\ Relaunch => IInv'
<1> SUFFICES ASSUME IInv, Relaunch
             PROVE  IInv'
  OBVIOUS
<1>1. /\ pc \in {"retry", "reap"} /\ attempt' \in {1, 2}
      /\ UNCHANGED <<fileVars, todo, got, work, guarded, lives>>
      /\ \/ pc' = "doc" /\ pipe' = "up"
         \/ pc' = Handler /\ pipe' = "down"
  BY DEF Relaunch, Launch
<1>2. /\ Whole' = Whole /\ Batch' = Batch
      /\ \A d : Places(d)' = Places(d)
      /\ \A k : Recorded(k)' = Recorded(k)
      /\ \A k : OnceAt(k)' = OnceAt(k)
  BY <1>1, SameFile, SameBatch
<1>3. pc' \in {"doc", "except", "stopped"} /\ (pc' = "except" => guarded)
  BY <1>1 DEF Handler
<1>4. TypeOK'
  BY <1>1, <1>3 DEF IInv, TypeOK, fileVars
<1>5. FileInv' /\ OrderInv'
  BY <1>1, <1>2, <1>3 DEF IInv, FileInv, OrderInv, fileVars
<1>6. PipeInv'
  BY <1>1, <1>3 DEF Handler, PipeInv
<1>7. BatchInv'
  BY <1>1, <1>2, <1>3 DEF IInv, BatchInv
<1> QED
  BY <1>4, <1>5, <1>6, <1>7 DEF IInv

LEMMA DocsDoneIInv == IInv /\ DocsDone => IInv'
<1> SUFFICES ASSUME IInv, DocsDone
             PROVE  IInv'
  OBVIOUS
<1>1. /\ pc = "doc" /\ work = {} /\ todo' = todo \ Batch /\ pc' = "batch"
      /\ UNCHANGED <<fileVars, got, work, guarded, attempt, pipe, lives>>
  BY DEF DocsDone
<1>2. /\ Whole' = Whole /\ \A d : Places(d)' = Places(d)
      /\ \A k : Recorded(k)' = Recorded(k)
  BY <1>1, SameFile
<1>3. Batch' \subseteq todo'
  BY DEF Batch
<1>4. /\ Batch \subseteq todo /\ todo \subseteq DOMAIN Corpus
      /\ \A k \in Batch : Recorded(k)
      /\ \A k \in DOMAIN Corpus \ todo : Recorded(k)
      /\ \A k \in todo \ Batch : ~ Recorded(k)
  BY <1>1, BatchOfTodo DEF IInv, TypeOK, BatchInv, OrderInv
<1>5. TypeOK'
  BY <1>1 DEF IInv, TypeOK, fileVars
<1>6. FileInv' /\ PipeInv'
  BY <1>1, <1>2 DEF IInv, FileInv, PipeInv, fileVars
<1>7. OrderInv' /\ BatchInv'
  BY <1>1, <1>2, <1>3, <1>4 DEF OrderInv, BatchInv
<1> QED
  BY <1>5, <1>6, <1>7 DEF IInv

(* The end of a run, a kill, a restart: the file stays as it is. *)
LEMMA EndIInv == IInv /\ (Finish \/ Crash \/ Restart) => IInv'
<1> SUFFICES ASSUME IInv, Finish \/ Crash \/ Restart
             PROVE  IInv'
  OBVIOUS
<1>1. /\ UNCHANGED <<fileVars, loopVars>> /\ pipe' = "down"
      /\ pc' \in {"done", "stopped", "boot"}
      /\ pc' = "done" => pc = "batch" /\ todo = {}
  BY DEF Finish, Crash, Restart
<1>2. /\ Whole' = Whole /\ Batch' = Batch
      /\ \A d : Places(d)' = Places(d)
      /\ \A k : Recorded(k)' = Recorded(k)
  BY <1>1, SameFile, SameBatch DEF loopVars
<1>3. lives' \in 1..MaxLives
  BY BulkAssumption DEF IInv, TypeOK, Finish, Crash, Restart
<1>4. TypeOK'
  BY <1>1, <1>3 DEF IInv, TypeOK, fileVars, loopVars
<1>5. FileInv' /\ PipeInv' /\ BatchInv'
  BY <1>1, <1>2 DEF IInv, FileInv, PipeInv, BatchInv, fileVars
<1>6. OrderInv'
  BY <1>1, <1>2 DEF IInv, OrderInv, loopVars
<1> QED
  BY <1>4, <1>5, <1>6 DEF IInv

LEMMA NextIInv == IInv /\ [Next]_vars => IInv'
<1>1. IInv /\ UNCHANGED vars => IInv'
  <2> SUFFICES ASSUME IInv, UNCHANGED vars
               PROVE  IInv'
    OBVIOUS
  <2>1. /\ Whole' = Whole /\ Batch' = Batch
        /\ \A d : Places(d)' = Places(d)
        /\ \A k : Recorded(k)' = Recorded(k)
        /\ \A k : OnceAt(k)' = OnceAt(k)
    BY SameFile, SameBatch DEF vars, loopVars
  <2>2. TypeOK' /\ FileInv' /\ PipeInv'
    BY <2>1 DEF IInv, TypeOK, FileInv, PipeInv, vars, loopVars, fileVars
  <2>3. OrderInv' /\ BatchInv'
    BY <2>1 DEF IInv, OrderInv, BatchInv, vars, loopVars
  <2> QED
    BY <2>2, <2>3 DEF IInv
<1> QED
  BY <1>1, BootIInv, SendBatchIInv, WriteBulkIInv, BatchWrittenIInv,
     BatchFailedIInv, SendDocIInv, RelaunchIInv, DocsDoneIInv, EndIInv
  DEF Next, Main

-----------------------------------------------------------------------------
(* The theorems                                                            *)

(* The invariant holds over any number of processes, kills between writes, *)
(* and launches and saves that raise.                                      *)
THEOREM BulkInvariant == Spec => []IInv
BY InitIInv, NextIInv, PTL DEF Spec

(* "on any batch failure, reap ALL node.py backends, relaunch a fresh      *)
(* pipe" (rr_bulk.py:9-11): whatever raises where, no upload goes to a     *)
(* pipe on which one has failed or come back empty.                        *)
THEOREM BulkPipe == Spec => []NoSendOnSuspectPipe
<1>1. IInv => NoSendOnSuspectPipe
  BY DEF IInv, PipeInv, NoSendOnSuspectPipe
<1> QED
  BY <1>1, BulkInvariant, PTL

(* A set no three members of which differ. *)
LEMMA AtMostTwo ==
  ASSUME NEW T, \A h, i, j \in T : h = i \/ i = j \/ h = j
  PROVE  Cardinality(T) <= 2
<1>1. CASE T = {}
  BY <1>1, FS_EmptySet
<1>2. ASSUME NEW x \in T
      PROVE  Cardinality(T) <= 2
  <2>1. PICK y \in T : T \subseteq {x} \cup {y}
    <3>1. CASE T = {x}
      BY <3>1
    <3>2. CASE T # {x}
      BY <3>2
    <3> QED
      BY <3>1, <3>2
  <2>2. /\ IsFiniteSet({x}) /\ Cardinality({x}) = 1
    BY FS_Singleton
  <2>3. /\ IsFiniteSet({x} \cup {y})
        /\ Cardinality({x} \cup {y}) \in {1, 2}
    BY <2>2, FS_AddElement
  <2>4. IsFiniteSet(T) /\ Cardinality(T) <= Cardinality({x} \cup {y})
    BY <2>1, <2>3, FS_Subset
  <2>5. Cardinality(T) \in Nat
    BY <2>4, FS_CardinalityType
  <2> QED
    BY <2>3, <2>4, <2>5
<1> QED
  BY <1>1, <1>2

(* A resumed run takes up exactly where the file ends, a run that ends has *)
(* a record of every document, and no document has a third one             *)
(* (rr_bulk.py:113-121, 205-211).                                          *)
THEOREM BulkResume == Spec => []ResumeExact
<1>1. IInv => ResumeExact
  <2> SUFFICES ASSUME IInv
               PROVE  ResumeExact
    OBVIOUS
  <2>1. pc = "batch" =>
          \A k \in DOMAIN Corpus : Corpus[k] \in DoneDocs <=> k \notin todo
    BY DEF IInv, OrderInv, BatchInv, Recorded
  <2>2. pc = "done" => Range(Corpus) \subseteq DoneDocs
    BY DEF IInv, OrderInv, Recorded, Range
  <2>3. ASSUME NEW d \in Docs
        PROVE  Cardinality(Places(d)) <= 2
    <3>1. \A h, i, j \in Places(d) : h = i \/ i = j \/ h = j
      BY DEF IInv, FileInv
    <3> QED
      BY <3>1, AtMostTwo
  <2> QED
    BY <2>1, <2>2, <2>3 DEF ResumeExact
<1> QED
  BY <1>1, BulkInvariant, PTL

-----------------------------------------------------------------------------
(* The refinement of RecordLedger                                          *)

(* The first record of a document is a Record of the ledger, a further one *)
(* an event it does not count.                                             *)
LEMMA RecordRefines ==
  ASSUME IInv, work # {}, NEW ok \in BOOLEAN, WriteRecord(Current, ok),
         LedgerStatus = "open", LedgerStatus' = "open"
  PROVE  Ledger!Next
<1> PICK d \in Docs : d = Current
  BY CurrentPosition DEF IInv
<1> DEFINE n == Len(file) + 1
<1>1. /\ Len(file) \in Nat /\ Len(file') = n /\ DOMAIN file = 1..Len(file)
      /\ Places(d)' = Places(d) \cup {n}
      /\ \A c \in Docs : c # d => Places(c)' = Places(c)
      /\ \A c \in Docs : Places(c) \subseteq DOMAIN file
  BY NewLine DEF IInv, TypeOK, FileInv
<1>2. \A j \in Places(d) : j \in Nat /\ j <= n /\ ~(n <= j)
  BY <1>1
<1>3. \A c \in Docs : c # d => FirstPlaces'[c] = FirstPlaces[c]
  BY <1>1 DEF FirstPlaces
<1>4. CASE Places(d) = {}
  <2>1. FirstPlaces[d] = {}
    BY <1>4 DEF FirstPlaces
  <2>2. n <= n
    BY <1>1
  <2>3. FirstPlaces'[d] = {n}
    <3> HIDE DEF n
    <3>1. Places(d)' = {n}
      BY <1>1, <1>4
    <3> QED
      BY <2>2, <3>1 DEF FirstPlaces
  <2>4. FirstPlaces' = [FirstPlaces EXCEPT ![d] = {n}]
    <3> HIDE DEF n
    <3> QED
      BY <1>3, <2>3 DEF FirstPlaces
  <2> QED
    BY <1>1, <2>1, <2>4 DEF Ledger!Next, Ledger!Record
<1>5. CASE Places(d) # {}
  <2>1. FirstPlaces'[d] = FirstPlaces[d]
    <3> HIDE DEF n
    <3>1. \A k \in Places(d)' :
            (\A j \in Places(d)' : k <= j)
              <=> k \in Places(d) /\ \A j \in Places(d) : k <= j
      BY <1>1, <1>2, <1>5
    <3> QED
      BY <1>1, <3>1 DEF FirstPlaces
  <2>2. FirstPlaces' = FirstPlaces
    BY <1>3, <2>1 DEF FirstPlaces
  <2> QED
    BY <1>1, <2>2 DEF Ledger!Next, Ledger!Note
<1> QED
  BY <1>4, <1>5

(* A document that is done has a first line. *)
LEMMA DoneHasFirst ==
  ASSUME IInv, NEW d \in Docs, d \in DoneDocs
  PROVE  FirstPlaces[d] # {}
<1>1. Places(d) # {} /\ Places(d) \in SUBSET Nat
  BY DoneHasPlace, LenProperties DEF IInv, TypeOK, FileInv, Places
<1>2. PICK n \in Places(d) : \A m \in Places(d) : n <= m
  BY <1>1, LeastOf
<1> QED
  BY <1>2 DEF FirstPlaces

(* One step of the driver is one step of the ledger or none. *)
LEMMA BulkStepRefines == IInv /\ [Next]_vars => [Ledger!Next]_(Ledger!vars)
<1> SUFFICES ASSUME IInv, [Next]_vars
             PROVE  Ledger!Next \/ UNCHANGED Ledger!vars
  BY DEF Ledger!vars
<1> USE DEF Ledger!vars
<1>1. ASSUME UNCHANGED fileVars, LedgerStatus' = LedgerStatus
      PROVE  UNCHANGED Ledger!vars
  <2>1. FirstPlaces' = FirstPlaces
    BY <1>1, SameFile DEF FirstPlaces
  <2> QED
    BY <1>1, <2>1 DEF fileVars
<1>2. ASSUME UNCHANGED <<fileVars, lives>>, pc \notin {"done", "stopped"},
             pc' \notin {"done"}
      PROVE  Ledger!Next \/ UNCHANGED Ledger!vars
  <2>1. FirstPlaces' = FirstPlaces
    BY <1>2, SameFile DEF FirstPlaces
  <2>2. CASE LedgerStatus' = "open"
    BY <1>1, <1>2, <2>2 DEF LedgerStatus
  <2>3. CASE LedgerStatus' = "aborted"
    <3>1. LedgerStatus = "open"
      BY <1>2 DEF LedgerStatus
    <3> QED
      BY <1>2, <2>1, <2>3, <3>1 DEF Ledger!Next, Ledger!Abort, fileVars
  <2> QED
    BY <1>2, <2>2, <2>3 DEF LedgerStatus
<1>3. CASE WriteBulk
  <2>1. CASE UNCHANGED fileVars
    BY <1>2, <1>3, <2>1 DEF WriteBulk
  <2>2. CASE WriteRecord(Current, TRUE)
    <3>1. work # {} /\ LedgerStatus = "open"
      BY <1>3 DEF WriteBulk, LedgerStatus
    <3>2. CASE LedgerStatus' = "open"
      <4>1. \E ok \in BOOLEAN : WriteRecord(Current, ok)
        BY <2>2
      <4> QED
        BY <3>1, <3>2, <4>1, RecordRefines
    <3>3. pc' \in {"write", "except"}
      BY <1>3 DEF WriteBulk
    <3> QED
      BY <3>2, <3>3 DEF LedgerStatus
  <2> QED
    BY <1>3, <2>1, <2>2 DEF WriteBulk
<1>4. CASE SendDoc
  <2>1. CASE UNCHANGED fileVars
    BY <1>2, <1>4, <2>1 DEF SendDoc
  <2>2. CASE \E ok \in BOOLEAN : WriteRecord(Current, ok)
    <3>1. /\ work # {} /\ LedgerStatus = "open"
          /\ pc' \in {"doc", "retry", "reap"}
      BY <1>4 DEF SendDoc, LedgerStatus
    <3>2. LedgerStatus' = "open"
      BY <3>1 DEF LedgerStatus
    <3> QED
      BY <2>2, <3>1, <3>2, RecordRefines
  <2> QED
    BY <1>4, <2>1, <2>2 DEF SendDoc
<1>5. CASE Boot \/ SendBatch \/ BatchWritten \/ BatchFailed \/ DocsDone
  BY <1>2, <1>5
  DEF Boot, SendBatch, BatchWritten, BatchFailed, DocsDone, Launch
<1>6. CASE Relaunch
  BY <1>2, <1>6 DEF Relaunch, Launch, Handler
<1>7. CASE Finish
  <2>1. /\ LedgerStatus = "open" /\ LedgerStatus' = "closed"
        /\ UNCHANGED fileVars
    BY <1>7 DEF Finish, LedgerStatus
  <2>2. FirstPlaces' = FirstPlaces /\ Len(file') = Len(file)
    BY <2>1, SameFile DEF FirstPlaces, fileVars
  <2>3. \A d \in Docs : d \in DoneDocs
    BY <1>7, CorpusFacts DEF Finish, IInv, OrderInv, Recorded
  <2>4. \A d \in Docs : FirstPlaces[d] # {}
    BY <2>3, DoneHasFirst
  <2> QED
    BY <2>1, <2>2, <2>4 DEF Ledger!Next, Ledger!Close
<1>8. CASE Crash \/ Restart
  <2>1. UNCHANGED fileVars
    BY <1>8 DEF Crash, Restart
  <2>2. LedgerStatus' = LedgerStatus
    BY <1>8, BulkAssumption DEF Crash, Restart, LedgerStatus, IInv, TypeOK
  <2> QED
    BY <1>1, <2>1, <2>2
<1>9. CASE UNCHANGED vars
  BY <1>1, <1>9 DEF vars, LedgerStatus
<1> QED
  BY <1>3, <1>4, <1>5, <1>6, <1>7, <1>8, <1>9 DEF Next, Main

(* The driver implements the ledger over all its processes: first lines    *)
(* are never taken back, and a run that ends has everybody's.              *)
THEOREM BulkImplementsLedger == Spec => LedgerSpec
<1>1. Init => Ledger!Init
  <2> SUFFICES ASSUME Init
               PROVE  Ledger!Init
    OBVIOUS
  <2>1. file = <<>> /\ DOMAIN file = {} /\ Len(file) = 0
    BY EmptySeq, LenProperties DEF Init, FileInit
  <2>2. \A d : Places(d) = {}
    BY <2>1 DEF Whole, Places
  <2>3. FirstPlaces = [d \in Docs |-> {}]
    BY <2>2 DEF FirstPlaces
  <2>4. LedgerStatus = "open"
    BY DEF Init, LedgerStatus
  <2> QED
    BY <2>1, <2>3, <2>4 DEF Ledger!Init
<1> QED
  BY <1>1, BulkStepRefines, BulkInvariant, PTL DEF Spec, LedgerSpec, Ledger!Spec

-----------------------------------------------------------------------------
(* A process ends                                                          *)

(* What the single runs of w documents may still take, from a place in     *)
(* them and with the attempt a of the first: five steps for each.          *)
Singles(there, a, w) ==
  CASE there = "doc"   -> 5 * w + (IF a = 1 THEN 4 ELSE 2)
    [] there = "retry" -> 5 * w + 3
    [] there = "reap"  -> 5 * w + 5

AllSingles == 5 * Len(Corpus) + 6

(* What a batch may still take: the upload, the records, and the single    *)
(* runs twice, under the try and, when that is left, without it.           *)
OfBatch(there, a, w, g) ==
  CASE there \in {"doc", "retry", "reap"} ->
         Singles(there, a, w) + (IF g THEN AllSingles ELSE 0)
    [] there = "except" -> AllSingles
    [] there = "write"  -> 2 * AllSingles + w
    [] there = "batch"  -> 2 * AllSingles + Len(Corpus) + 1

OneBatch == 2 * AllSingles + Len(Corpus) + 2

(* And a process, with t documents in the batch and those ahead.           *)
Left(there, a, w, g, t) ==
  CASE there = "boot" -> OneBatch * Len(Corpus) + OneBatch
    [] there \in {"done", "stopped"} -> 0
    [] OTHER -> OneBatch * t + OfBatch(there, a, w, g)

StepsLeft == Left(pc, attempt, Cardinality(work), guarded, Cardinality(todo))

(* A process that is in a batch has one. *)
InBatch == pc \in {"write", "except", "doc", "retry", "reap"} => todo # {}

LEMMA CorpusLength == Len(Corpus) \in Nat /\ DOMAIN Corpus = 1..Len(Corpus)
BY BulkAssumption, LenProperties

LEMMA PositionCount ==
  ASSUME NEW T \in SUBSET (DOMAIN Corpus)
  PROVE  IsFiniteSet(T) /\ Cardinality(T) \in 0..Len(Corpus)
<1>1. IsFiniteSet(1..Len(Corpus)) /\ Cardinality(1..Len(Corpus)) = Len(Corpus)
  BY CorpusLength, FS_Interval
<1> QED
  BY <1>1, CorpusLength, FS_Subset, FS_CardinalityType

(* One document less. *)
LEMMA PositionLess ==
  ASSUME NEW T \in SUBSET (DOMAIN Corpus), NEW x \in T
  PROVE  Cardinality(T) > 0 /\ Cardinality(T \ {x}) = Cardinality(T) - 1
<1>1. IsFiniteSet(T) /\ Cardinality(T) \in Nat
  BY PositionCount, CorpusLength
<1>2. Cardinality(T \ {x}) = Cardinality(T) - 1
  BY <1>1, FS_RemoveElement
<1>3. Cardinality(T) # 0
  BY <1>1, FS_EmptySet
<1> QED
  BY <1>1, <1>2, <1>3

(* A batch has a document as long as there is one to do. *)
LEMMA BatchShrinks ==
  ASSUME TypeOK, todo # {}
  PROVE  Cardinality(todo \ Batch) < Cardinality(todo)
<1>1. todo \in SUBSET Nat /\ todo \in SUBSET (DOMAIN Corpus)
  BY CorpusFacts DEF TypeOK
<1>2. PICK m \in todo : \A j \in todo : m <= j
  BY <1>1, LeastOf
<1>3. {j \in todo : j <= m} = {m}
  <2>1. \A j \in todo : j <= m <=> j = m
    BY <1>1, <1>2
  <2> QED
    BY <1>2, <2>1
<1>4. Cardinality({j \in todo : j <= m}) = 1
  BY <1>3, FS_Singleton
<1>5. m \in Batch
  BY <1>4, BulkAssumption DEF Batch
<1>6. /\ IsFiniteSet(todo) /\ Cardinality(todo) \in Nat
      /\ IsFiniteSet(todo \ Batch) /\ Cardinality(todo \ Batch) \in Nat
      /\ IsFiniteSet(todo \ {m}) /\ Cardinality(todo \ {m}) = Cardinality(todo) - 1
  <2>1. todo \ Batch \in SUBSET (DOMAIN Corpus) /\ todo \ {m} \in SUBSET (DOMAIN Corpus)
    BY <1>1
  <2> QED
    <3>1. \A T \in SUBSET (DOMAIN Corpus) : IsFiniteSet(T) /\ Cardinality(T) \in Nat
      BY PositionCount, CorpusLength
    <3>2. Cardinality(todo \ {m}) = Cardinality(todo) - 1
      BY <1>1, <1>2, PositionLess
    <3> QED
      BY <1>1, <2>1, <3>1, <3>2
<1>7. Cardinality(todo \ Batch) <= Cardinality(todo \ {m})
  BY <1>5, <1>6, FS_Subset
<1> QED
  BY <1>6, <1>7

(* What is left falls from place to place, within a batch. *)
LEMMA WithinBatch ==
  ASSUME NEW w \in 0..Len(Corpus), NEW v \in 0..Len(Corpus),
         NEW a \in {1, 2}, NEW b \in {1, 2}, NEW g \in BOOLEAN, NEW h \in BOOLEAN
  PROVE  /\ OfBatch("except", b, v, h) < OfBatch("batch", a, w, g)
         /\ OfBatch("write", b, v, h) < OfBatch("batch", a, w, g)
         /\ OfBatch("except", b, v, h) < OfBatch("write", a, w, g)
         /\ OfBatch("doc", 1, v, TRUE) < OfBatch("write", a, w, g)
         /\ OfBatch("doc", 1, v, FALSE) < OfBatch("except", a, w, g)
         /\ w > 0 => /\ OfBatch("write", a, w - 1, g) < OfBatch("write", a, w, g)
                     /\ OfBatch("doc", 1, w - 1, g) < OfBatch("doc", a, w, g)
                     /\ OfBatch("reap", 2, w - 1, g) < OfBatch("doc", 2, w, g)
         /\ OfBatch("retry", 1, w, g) < OfBatch("doc", 1, w, g)
         /\ OfBatch("doc", 2, w, g) < OfBatch("retry", a, w, g)
         /\ OfBatch("doc", 1, w, g) < OfBatch("reap", a, w, g)
         /\ \A p \in {"retry", "reap"} :
              OfBatch("except", b, v, TRUE) < OfBatch(p, a, w, TRUE)
<1>1. Len(Corpus) \in Nat
  BY CorpusLength
<1>2. /\ OfBatch("except", b, v, h) < OfBatch("batch", a, w, g)
      /\ OfBatch("write", b, v, h) < OfBatch("batch", a, w, g)
      /\ OfBatch("except", b, v, h) < OfBatch("write", a, w, g)
  BY <1>1 DEF OfBatch, Singles, AllSingles
<1>3. OfBatch("doc", 1, v, TRUE) < OfBatch("write", a, w, g)
  BY <1>1 DEF OfBatch, Singles, AllSingles
<1>4. OfBatch("doc", 1, v, FALSE) < OfBatch("except", a, w, g)
  BY <1>1 DEF OfBatch, Singles, AllSingles
<1>5. w > 0 => OfBatch("write", a, w - 1, g) < OfBatch("write", a, w, g)
  BY <1>1 DEF OfBatch, Singles, AllSingles
<1>6. w > 0 => OfBatch("doc", 1, w - 1, g) < OfBatch("doc", a, w, g)
  BY <1>1 DEF OfBatch, Singles, AllSingles
<1>7. w > 0 => OfBatch("reap", 2, w - 1, g) < OfBatch("doc", 2, w, g)
  BY <1>1 DEF OfBatch, Singles, AllSingles
<1>8. OfBatch("retry", 1, w, g) < OfBatch("doc", 1, w, g)
  BY <1>1 DEF OfBatch, Singles, AllSingles
<1>9. OfBatch("doc", 2, w, g) < OfBatch("retry", a, w, g)
  BY <1>1 DEF OfBatch, Singles, AllSingles
<1>10. OfBatch("doc", 1, w, g) < OfBatch("reap", a, w, g)
  BY <1>1 DEF OfBatch, Singles, AllSingles
<1>11. \A p \in {"retry", "reap"} : OfBatch("except", b, v, TRUE) < OfBatch(p, a, w, TRUE)
  BY <1>1 DEF OfBatch, Singles, AllSingles
<1> QED
  BY <1>2, <1>3, <1>4, <1>5, <1>6, <1>7, <1>8, <1>9, <1>10, <1>11

LEMMA OfBatchRange ==
  ASSUME NEW w \in 0..Len(Corpus), NEW a \in {1, 2}, NEW g \in BOOLEAN,
         NEW p \in {"batch", "write", "except", "doc", "retry", "reap"}
  PROVE  OfBatch(p, a, w, g) \in 1..(OneBatch - 1) /\ OneBatch \in Nat
BY CorpusLength DEF OfBatch, Singles, AllSingles, OneBatch

(* The places of main() from the first batch to the last. *)
Inside == {"batch", "write", "except", "doc", "retry", "reap"}

LEMMA Rounds ==
  ASSUME NEW b \in Nat, NEW s \in Nat, NEW t \in Nat, s < t
  PROVE  b * s \in Nat /\ b * t \in Nat /\ b * s + b <= b * t
<1>1. PICK d \in Nat : t = s + 1 + d
  <2>1. t - s - 1 \in Nat /\ t = s + 1 + (t - s - 1)
    OBVIOUS
  <2> QED
    BY <2>1
<1>2. b * t = b * s + b + b * d
  BY <1>1
<1>3. b * s \in Nat /\ b * t \in Nat /\ b * d \in Nat
  BY <1>1
<1> QED
  BY <1>2, <1>3

(* What a process has left falls with what its batch has left, and with    *)
(* the batches.                                                            *)
LEMMA SameBatchFalls ==
  ASSUME NEW w \in 0..Len(Corpus), NEW v \in 0..Len(Corpus), NEW t \in 0..Len(Corpus),
         NEW a \in {1, 2}, NEW b \in {1, 2}, NEW g \in BOOLEAN, NEW h \in BOOLEAN,
         NEW p \in Inside, NEW q \in Inside,
         OfBatch(q, b, v, h) < OfBatch(p, a, w, g)
  PROVE  Left(q, b, v, h, t) < Left(p, a, w, g, t)
<1>1. /\ OfBatch(q, b, v, h) \in Nat /\ OfBatch(p, a, w, g) \in Nat /\ OneBatch \in Nat
  <2>1. /\ OfBatch(q, b, v, h) \in 1..(OneBatch - 1) /\ OfBatch(p, a, w, g) \in 1..(OneBatch - 1)
        /\ OneBatch \in Nat
    BY OfBatchRange DEF Inside
  <2> QED
    BY <2>1
<1>2. t \in Nat /\ OneBatch * t \in Nat
  BY <1>1, CorpusLength
<1>3. /\ Left(q, b, v, h, t) = OneBatch * t + OfBatch(q, b, v, h)
      /\ Left(p, a, w, g, t) = OneBatch * t + OfBatch(p, a, w, g)
  BY DEF Left, Inside
<1>4. \A x, y, z \in Nat : y < z => x + y < x + z
  OBVIOUS
<1> QED
  BY <1>1, <1>2, <1>3, <1>4

LEMMA NextBatchFalls ==
  ASSUME NEW w \in 0..Len(Corpus), NEW v \in 0..Len(Corpus),
         NEW s \in 0..Len(Corpus), NEW t \in 0..Len(Corpus), s < t,
         NEW a \in {1, 2}, NEW b \in {1, 2}, NEW g \in BOOLEAN, NEW h \in BOOLEAN,
         NEW p \in Inside, NEW q \in Inside
  PROVE  Left(q, b, v, h, s) < Left(p, a, w, g, t)
<1>1. /\ OfBatch(q, b, v, h) \in 1..(OneBatch - 1) /\ OfBatch(p, a, w, g) \in 1..(OneBatch - 1)
      /\ OneBatch \in Nat
  BY OfBatchRange, CorpusLength DEF Inside
<1>2. s \in Nat /\ t \in Nat
  BY CorpusLength
<1>3. /\ OneBatch * s \in Nat /\ OneBatch * t \in Nat
      /\ OneBatch * s + OneBatch <= OneBatch * t
  BY <1>1, <1>2, Rounds
<1>4. /\ Left(q, b, v, h, s) = OneBatch * s + OfBatch(q, b, v, h)
      /\ Left(p, a, w, g, t) = OneBatch * t + OfBatch(p, a, w, g)
  BY DEF Left, Inside
<1>5. \A x, y, z, e, f \in Nat : x + e <= y /\ z \in 1..(e - 1) /\ f \in 1..(e - 1) => x + z < y + f
  OBVIOUS
<1>6. OfBatch(q, b, v, h) \in Nat /\ OfBatch(p, a, w, g) \in Nat
  BY <1>1
<1> QED
  BY <1>1, <1>3, <1>4, <1>5, <1>6

LEMMA LeftRange ==
  ASSUME NEW w \in 0..Len(Corpus), NEW t \in 0..Len(Corpus),
         NEW a \in {1, 2}, NEW g \in BOOLEAN,
         NEW p \in Inside \cup {"boot", "done", "stopped"}
  PROVE  /\ Left(p, a, w, g, t) \in 0..(OneBatch * Len(Corpus) + OneBatch)
         /\ p \notin {"done", "stopped"} => 0 < Left(p, a, w, g, t)
         /\ p \in Inside => Left(p, a, w, g, t) < OneBatch * Len(Corpus) + OneBatch
<1>1. /\ OneBatch \in Nat /\ Len(Corpus) \in Nat /\ OneBatch > 0
  BY CorpusLength DEF OneBatch, AllSingles
<1>2. OneBatch * Len(Corpus) \in Nat
  BY <1>1
<1>3. CASE p \in Inside
  <2>1. OfBatch(p, a, w, g) \in 1..(OneBatch - 1)
    BY <1>3, OfBatchRange DEF Inside
  <2>2. OneBatch * t \in Nat /\ OneBatch * t <= OneBatch * Len(Corpus)
    <3>1. CASE t = Len(Corpus)
      BY <1>2, <3>1
    <3>2. CASE t < Len(Corpus)
      <4>1. /\ OneBatch * t \in Nat /\ OneBatch * t + OneBatch <= OneBatch * Len(Corpus)
        BY <1>1, <3>2, Rounds
      <4> QED
        BY <1>1, <1>2, <4>1
    <3> QED
      BY <1>1, <3>1, <3>2
  <2>3. Left(p, a, w, g, t) = OneBatch * t + OfBatch(p, a, w, g)
    BY <1>3 DEF Left, Inside
  <2>4. \A x, y, z, e \in Nat :
          x <= y /\ z \in 1..(e - 1) => x + z \in 0..(y + e) /\ 0 < x + z /\ x + z < y + e
    OBVIOUS
  <2>5. OfBatch(p, a, w, g) \in Nat
    BY <1>1, <2>1
  <2> QED
    BY <1>1, <1>2, <2>1, <2>2, <2>3, <2>4, <2>5
<1>4. CASE p = "boot"
  <2>1. Left(p, a, w, g, t) = OneBatch * Len(Corpus) + OneBatch
    BY <1>4 DEF Left
  <2> QED
    BY <1>1, <1>2, <1>4, <2>1 DEF Inside
<1>5. CASE p \in {"done", "stopped"}
  <2>1. Left(p, a, w, g, t) = 0
    BY <1>5 DEF Left
  <2> QED
    BY <1>1, <1>2, <1>5, <2>1 DEF Inside
<1> QED
  BY <1>3, <1>4, <1>5

LEMMA InBatchHolds == Spec => []InBatch
<1>1. Init => InBatch
  BY DEF Init, InBatch
<1>2. InBatch /\ [Next]_vars => InBatch'
  BY DEF InBatch, Next, Main, Boot, SendBatch, WriteBulk, BatchWritten, BatchFailed,
     SendDoc, Relaunch, Launch, Handler, DocsDone, Finish, Crash, Restart, vars, loopVars
<1> QED
  BY <1>1, <1>2, PTL DEF Spec

(* "with one retry on a fresh pipe" for a document, and one fallback for a *)
(* batch (rr_bulk.py): whatever fails, in the loop, in the try, in its     *)
(* handler or in a relaunch, no step of a process repeats an earlier one:  *)
(* every step but a restart leaves fewer to take, of a number that depends *)
(* on the corpus alone. *)
THEOREM BulkSteps ==
  Spec => /\ [](StepsLeft \in 0..(OneBatch * Len(Corpus) + OneBatch))
          /\ [][Restart \/ StepsLeft' < StepsLeft]_vars
<1>1. IInv => StepsLeft \in 0..(OneBatch * Len(Corpus) + OneBatch)
  <2> SUFFICES ASSUME IInv
               PROVE  StepsLeft \in 0..(OneBatch * Len(Corpus) + OneBatch)
    OBVIOUS
  <2>1. /\ Cardinality(work) \in 0..Len(Corpus) /\ Cardinality(todo) \in 0..Len(Corpus)
        /\ attempt \in {1, 2} /\ guarded \in BOOLEAN
        /\ pc \in Inside \cup {"boot", "done", "stopped"}
    BY PositionCount DEF IInv, TypeOK, Inside
  <2>2. Left(pc, attempt, Cardinality(work), guarded, Cardinality(todo))
          \in 0..(OneBatch * Len(Corpus) + OneBatch)
    BY <2>1, LeftRange
  <2> QED
    BY <2>2 DEF StepsLeft
<1>2. IInv /\ IInv' /\ InBatch /\ Next => Restart \/ StepsLeft' < StepsLeft
  <2> SUFFICES ASSUME IInv, IInv', InBatch, Next, ~Restart
               PROVE  StepsLeft' < StepsLeft
    OBVIOUS
  <2> DEFINE w == Cardinality(work)
             t == Cardinality(todo)
  <2>1. /\ w \in 0..Len(Corpus) /\ w' \in 0..Len(Corpus)
        /\ t \in 0..Len(Corpus) /\ t' \in 0..Len(Corpus)
        /\ attempt \in {1, 2} /\ attempt' \in {1, 2}
        /\ guarded \in BOOLEAN /\ guarded' \in BOOLEAN
        /\ pc \in Inside \cup {"boot", "done", "stopped"}
    BY PositionCount DEF IInv, TypeOK, Inside
  <2>2. /\ StepsLeft = Left(pc, attempt, w, guarded, t)
        /\ StepsLeft' = Left(pc', attempt', w', guarded', t')
    BY DEF StepsLeft, Left, OfBatch, Singles
  <2>3. /\ todo' = todo => t' = t
        /\ work' = work => w' = w
    OBVIOUS
  <2>4. ASSUME work # {}, work' = work \ {Min(work)}
        PROVE  w > 0 /\ w' = w - 1
    <3>1. Min(work) \in work /\ work \in SUBSET (DOMAIN Corpus)
      BY <2>4, CurrentPosition DEF IInv, TypeOK
    <3> QED
      BY <2>4, <3>1, PositionLess
  <2>5. ASSUME pc \in Inside, todo # {}, todo' = todo \ Batch
        PROVE  t' < t
    BY <2>5, BatchShrinks DEF IInv
  <2> HIDE DEF w, t
  <2>6. ASSUME pc' \in {"done", "stopped"}, pc \notin {"done", "stopped"}
        PROVE  StepsLeft' < StepsLeft
    <3>1. Left(pc', attempt', w', guarded', t') = 0
      BY <2>6 DEF Left
    <3>2. 0 < Left(pc, attempt, w, guarded, t)
      BY <2>1, <2>6, LeftRange
    <3> QED
      BY <2>2, <3>1, <3>2
  <2>7. ASSUME pc \in Inside, pc' \in Inside, todo' = todo,
               OfBatch(pc', attempt', w', guarded') < OfBatch(pc, attempt, w, guarded)
        PROVE  StepsLeft' < StepsLeft
    <3>1. Left(pc', attempt', w', guarded', t) < Left(pc, attempt, w, guarded, t)
      BY <2>1, <2>7, SameBatchFalls
    <3> QED
      BY <2>2, <2>3, <2>7, <3>1
  <2>8. ASSUME pc \in Inside, pc' \in Inside, todo # {}, todo' = todo \ Batch
        PROVE  StepsLeft' < StepsLeft
    <3>1. Left(pc', attempt', w', guarded', t') < Left(pc, attempt, w, guarded, t)
      BY <2>1, <2>5, <2>8, NextBatchFalls
    <3> QED
      BY <2>2, <3>1
  <2>9. ASSUME Boot
        PROVE  StepsLeft' < StepsLeft
    <3>1. pc = "boot" /\ (pc' = "batch" \/ pc' = "stopped")
      BY <2>9 DEF Boot, Launch
    <3>2. CASE pc' = "batch"
      <4>1. Left(pc, attempt, w, guarded, t) = OneBatch * Len(Corpus) + OneBatch
        BY <3>1 DEF Left
      <4>2. Left(pc', attempt', w', guarded', t') < OneBatch * Len(Corpus) + OneBatch
        BY <2>1, <3>2, LeftRange DEF Inside
      <4> QED
        BY <2>2, <4>1, <4>2
    <3> QED
      BY <2>6, <3>1, <3>2
  <2>10. ASSUME SendBatch
         PROVE  StepsLeft' < StepsLeft
    <3>1. pc = "batch" /\ (pc' = "except" \/ pc' = "write") /\ todo' = todo
      BY <2>10 DEF SendBatch
    <3>2. OfBatch(pc', attempt', w', guarded') < OfBatch(pc, attempt, w, guarded)
      BY <2>1, <3>1, WithinBatch
    <3> QED
      BY <2>7, <3>1, <3>2 DEF Inside
  <2>11. ASSUME WriteBulk
         PROVE  StepsLeft' < StepsLeft
    <3>1. /\ pc = "write" /\ todo' = todo /\ attempt' = attempt /\ guarded' = guarded
          /\ \/ work # {} /\ pc' = "write" /\ work' = work \ {Min(work)}
             \/ pc' = "except"
      BY <2>11 DEF WriteBulk
    <3>2. OfBatch(pc', attempt', w', guarded') < OfBatch(pc, attempt, w, guarded)
      <4>1. CASE pc' = "except"
        BY <2>1, <3>1, <4>1, WithinBatch
      <4>2. CASE work # {} /\ pc' = "write" /\ work' = work \ {Min(work)}
        <5>1. w > 0 /\ w' = w - 1
          BY <2>4, <4>2
        <5>2. OfBatch("write", attempt, w - 1, guarded) < OfBatch("write", attempt, w, guarded)
          BY <2>1, <5>1, WithinBatch
        <5> QED
          BY <3>1, <4>2, <5>1, <5>2
      <4> QED
        BY <3>1, <4>1, <4>2
    <3> QED
      BY <2>7, <3>1, <3>2 DEF Inside
  <2>12. ASSUME BatchWritten
         PROVE  StepsLeft' < StepsLeft
    <3>1. /\ pc = "write" /\ todo # {}
          /\ \/ pc' = "batch" /\ todo' = todo \ Batch
             \/ /\ pc' = "doc" \/ pc' = "except"
                /\ todo' = todo /\ guarded' = TRUE /\ attempt' = 1
      BY <2>12 DEF BatchWritten, Launch, InBatch
    <3>2. CASE pc' = "batch" /\ todo' = todo \ Batch
      BY <2>8, <3>1, <3>2 DEF Inside
    <3>3. CASE /\ pc' = "doc" \/ pc' = "except"
               /\ todo' = todo /\ guarded' = TRUE /\ attempt' = 1
      <4>1. OfBatch(pc', attempt', w', guarded') < OfBatch(pc, attempt, w, guarded)
        BY <2>1, <3>1, <3>3, WithinBatch
      <4> QED
        BY <2>7, <3>1, <3>3, <4>1 DEF Inside
    <3> QED
      BY <3>1, <3>2, <3>3
  <2>13. ASSUME BatchFailed
         PROVE  StepsLeft' < StepsLeft
    <3>1. /\ pc = "except" /\ (pc' = "doc" \/ pc' = "stopped")
          /\ todo' = todo /\ guarded' = FALSE /\ attempt' = 1
      BY <2>13 DEF BatchFailed, Launch
    <3>2. pc' = "doc" =>
            OfBatch(pc', attempt', w', guarded') < OfBatch(pc, attempt, w, guarded)
      BY <2>1, <3>1, WithinBatch
    <3> QED
      BY <2>6, <2>7, <3>1, <3>2 DEF Inside
  <2>14. ASSUME SendDoc
         PROVE  StepsLeft' < StepsLeft
    <3>1. /\ pc = "doc" /\ todo' = todo /\ guarded' = guarded /\ work # {}
          /\ \/ pc' = "doc" /\ work' = work \ {Min(work)} /\ attempt' = 1
             \/ pc' = "retry" /\ work' = work /\ attempt = 1 /\ attempt' = 1
             \/ /\ pc' = "reap" /\ work' = work \ {Min(work)}
                /\ attempt = 2 /\ attempt' = 2
      BY <2>14 DEF SendDoc
    <3>2. OfBatch(pc', attempt', w', guarded') < OfBatch(pc, attempt, w, guarded)
      <4>1. CASE pc' = "retry" /\ work' = work /\ attempt = 1 /\ attempt' = 1
        BY <2>1, <2>3, <3>1, <4>1, WithinBatch
      <4>2. CASE work' = work \ {Min(work)} /\ pc' = "doc" /\ attempt' = 1
        <5>1. w > 0 /\ w' = w - 1
          BY <2>4, <3>1, <4>2
        <5>2. OfBatch("doc", 1, w - 1, guarded) < OfBatch("doc", attempt, w, guarded)
          BY <2>1, <5>1, WithinBatch
        <5> QED
          BY <3>1, <4>2, <5>1, <5>2
      <4>3. CASE /\ pc' = "reap" /\ work' = work \ {Min(work)}
                 /\ attempt = 2 /\ attempt' = 2
        <5>1. w > 0 /\ w' = w - 1
          BY <2>4, <3>1, <4>3
        <5>2. OfBatch("reap", 2, w - 1, guarded) < OfBatch("doc", 2, w, guarded)
          BY <2>1, <5>1, WithinBatch
        <5> QED
          BY <3>1, <4>3, <5>1, <5>2
      <4> QED
        BY <3>1, <4>1, <4>2, <4>3
    <3> QED
      BY <2>7, <3>1, <3>2 DEF Inside
  <2>15. ASSUME Relaunch
         PROVE  StepsLeft' < StepsLeft
    <3>1. /\ todo' = todo /\ guarded' = guarded /\ work' = work
          /\ \/ pc = "retry" /\ attempt' = 2
             \/ pc = "reap" /\ attempt' = 1
          /\ pc' = "doc" \/ pc' = "stopped" \/ (pc' = "except" /\ guarded)
      BY <2>15 DEF Relaunch, Launch, Handler
    <3>2. pc' # "stopped" =>
            OfBatch(pc', attempt', w', guarded') < OfBatch(pc, attempt, w, guarded)
      <4>1. CASE pc' = "doc"
        BY <2>1, <2>3, <3>1, <4>1, WithinBatch
      <4>2. CASE pc' = "except" /\ guarded
        <5>1. \A p \in {"retry", "reap"} :
                OfBatch("except", attempt', w', TRUE) < OfBatch(p, attempt, w, TRUE)
          BY <2>1, WithinBatch
        <5>2. guarded = TRUE /\ guarded' = TRUE
          BY <2>1, <3>1, <4>2
        <5> QED
          BY <3>1, <4>2, <5>1, <5>2
      <4> QED
        BY <3>1, <4>1, <4>2
    <3> QED
      BY <2>6, <2>7, <3>1, <3>2 DEF Inside
  <2>16. ASSUME DocsDone
         PROVE  StepsLeft' < StepsLeft
    <3>1. pc = "doc" /\ pc' = "batch" /\ todo # {} /\ todo' = todo \ Batch
      BY <2>16 DEF DocsDone, InBatch
    <3> QED
      BY <2>8, <3>1 DEF Inside
  <2>17. ASSUME Finish \/ Crash
         PROVE  StepsLeft' < StepsLeft
    <3>1. pc' \in {"done", "stopped"} /\ pc \notin {"done", "stopped"}
      BY <2>17 DEF Finish, Crash
    <3> QED
      BY <2>6, <3>1
  <2> QED
    BY <2>9, <2>10, <2>11, <2>12, <2>13, <2>14, <2>15, <2>16, <2>17 DEF Next, Main
<1> QED
  BY <1>1, <1>2, BulkInvariant, InBatchHolds, PTL DEF Spec
=============================================================================
