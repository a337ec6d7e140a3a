--------------------------- MODULE MetricsProofs -----------------------------
(***************************************************************************)
(* Proofs about what a finished run is judged by: the operators of         *)
(* RunMetrics and TextSplit, for every input of Measures, and RepCampaign, *)
(* which judges its repetitions with them, for every corpus, every set of  *)
(* contents and every number of repetitions.                               *)
(***************************************************************************)
EXTENDS Measures, RepCampaign, FiniteSetTheorems, SequenceTheorems, TLAPS

-----------------------------------------------------------------------------
(* Corpus and records                                                      *)

LEMMA CorpusFacts ==
  /\ Len(Corpus) \in Nat /\ DOMAIN Corpus = 1..Len(Corpus)
  /\ \A i \in DOMAIN Corpus : Corpus[i] \in Docs
  /\ \A d \in Docs : \E i \in DOMAIN Corpus : Corpus[i] = d
  /\ \A i, j \in DOMAIN Corpus : Corpus[i] = Corpus[j] => i = j
  /\ IsFiniteSet(Docs) /\ Cardinality(Docs) = Len(Corpus)
<1>1. /\ Len(Corpus) \in Nat /\ DOMAIN Corpus = 1..Len(Corpus)
      /\ Corpus \in [1..Len(Corpus) -> Docs]
      /\ \A i, j \in 1..Len(Corpus) : Corpus[i] = Corpus[j] => i = j
  BY CampaignAssumption, LenProperties
<1>2. \A d \in Docs : \E i \in 1..Len(Corpus) : Corpus[i] = d
  BY <1>1 DEF Docs, Range
<1>3. Corpus \in Injection(1..Len(Corpus), Docs)
  BY <1>1 DEF Injection, IsInjective
<1>4. Corpus \in Surjection(1..Len(Corpus), Docs)
  BY <1>1, <1>2 DEF Surjection
<1>5. Corpus \in Bijection(1..Len(Corpus), Docs)
  BY <1>3, <1>4 DEF Bijection
<1>6. ExistsBijection(1..Len(Corpus), Docs)
  BY <1>5 DEF ExistsBijection
<1>7. IsFiniteSet(Docs) /\ Cardinality(Docs) = Len(Corpus)
  BY <1>1, <1>6, FS_CountingElements, FS_NatBijection
<1> QED
  BY <1>1, <1>2, <1>7

(* What one() makes of an answer, or of none. *)
LEMMA FailedRecord ==
  ASSUME NEW d \in Docs, NEW reason \in Reasons
  PROVE  /\ Failed(d, reason) \in RecordSet
         /\ Failed(d, reason).doc = d /\ ~Failed(d, reason).ok
BY DEF Failed, RecordSet

LEMMA CompletedRecord ==
  ASSUME NEW d \in Docs, NEW c \in Contents
  PROVE  /\ Completed(d, c) \in RecordSet
         /\ Completed(d, c).doc = d /\ Completed(d, c).hashes = <<c>>
BY DEF Completed, RecordSet, Reasons

(* A record is ok only for the content of its own document. *)
Proved(r, item) ==
  r.ok => /\ item.content \in Contents /\ item.file = r.doc
          /\ r.hashes = <<item.content>>

LEMMA JudgedRecord ==
  ASSUME NEW d \in Docs, NEW item \in Items
  PROVE  /\ Judge(d, item) \in RecordSet /\ Judge(d, item).doc = d
         /\ Proved(Judge(d, item), item)
<1>1. CASE item.content = NoText
  <2>1. Judge(d, item) = Failed(d, "no_documents")
    BY <1>1 DEF Judge
  <2> QED
    BY <2>1, FailedRecord DEF Reasons, Proved
<1>2. CASE item.content # NoText /\ item.file # d
  <2>1. Judge(d, item) = Failed(d, "completion_proof_missing")
    BY <1>2 DEF Judge
  <2> QED
    BY <2>1, FailedRecord DEF Reasons, Proved
<1>3. CASE item.content # NoText /\ item.file = d
  <2>1. Judge(d, item) = Completed(d, item.content)
    BY <1>3 DEF Judge
  <2>2. item.content \in Contents
    BY <1>3 DEF Items
  <2> QED
    BY <1>3, <2>1, <2>2, CompletedRecord DEF Proved
<1> QED
  BY <1>1, <1>2, <1>3

LEMMA UnsavedRecord ==
  ASSUME NEW r \in RecordSet, NEW item
  PROVE  /\ Unsaved(r) \in RecordSet /\ Unsaved(r).doc = r.doc
         /\ Proved(r, item) => Proved(Unsaved(r), item)
<1>1. /\ Unsaved(r).doc = r.doc /\ Unsaved(r).ok = r.ok
      /\ Unsaved(r).hashes = r.hashes
  BY DEF Unsaved, RecordSet
<1>2. Unsaved(r) \in RecordSet
  BY DEF Unsaved, RecordSet, Reasons
<1> QED
  BY <1>1, <1>2 DEF Proved

(* A set of natural numbers has a least one, and a finite one a greatest. *)
LEMMA LeastOf ==
  ASSUME NEW T \in SUBSET Nat, T # {}
  PROVE  \E n \in T : \A m \in T : n <= m
<1>1. IsWellFoundedOn(OpToRel(<, Nat), Nat)
  BY NatLessThanWellFounded
<1>2. PICK n \in T : \A m \in T : ~(<<m, n>> \in OpToRel(<, Nat))
  BY <1>1, WFMin
<1>3. \A m \in T : <<m, n>> \in OpToRel(<, Nat) <=> m < n
  BY <1>2 DEF OpToRel
<1>4. \A m \in T : ~(m < n)
  BY <1>2, <1>3
<1>5. \A m \in T : n <= m
  BY <1>4
<1> QED
  BY <1>5

LEMMA MinOf ==
  ASSUME NEW T \in SUBSET Nat, T # {}
  PROVE  Min(T) \in T /\ \A x \in T : Min(T) <= x
<1>1. PICK n \in T : \A m \in T : n <= m
  BY LeastOf
<1> QED
  BY <1>1 DEF Min

LEMMA MaxIn ==
  ASSUME NEW n \in Nat, NEW T \in SUBSET (1..n), T # {}
  PROVE  Max(T) \in T /\ \A m \in T : m <= Max(T)
<1> DEFINE U == {n - m : m \in T}
<1>1. U \in SUBSET Nat /\ U # {}
  <2>1. \A m \in T : m \in 1..n /\ n - m \in Nat
    OBVIOUS
  <2> QED
    BY <2>1
<1>2. PICK u \in U : \A v \in U : u <= v
  BY <1>1, LeastOf
<1>3. PICK t \in T : u = n - t
  BY <1>2
<1>4. \A m \in T : n - t <= n - m
  BY <1>2, <1>3
<1>5. \A m \in T : t >= m
  BY <1>4
<1> QED
  BY <1>3, <1>5 DEF Max

(* records_from_batch() finds the document's own item. *)
LEMMA BatchedRecord ==
  ASSUME NEW d \in Docs, NEW result \in Seq(Items)
  PROVE  /\ BatchRecord(d, result) \in RecordSet
         /\ BatchRecord(d, result).doc = d
         /\ BatchRecord(d, result).ok => \E i \in DOMAIN result :
              Proved(BatchRecord(d, result), result[i])
<1> DEFINE own == {i \in DOMAIN result : result[i].file = d}
<1>1. CASE own = {}
  <2>1. BatchRecord(d, result) = Failed(d, "no_response_for_file")
    BY <1>1 DEF BatchRecord
  <2> QED
    BY <2>1, FailedRecord DEF Reasons
<1>2. CASE own # {}
  <2>1. own \in SUBSET Nat
    BY LenProperties
  <2>2. Min(own) \in own
    BY <1>2, <2>1, MinOf
  <2>3. Min(own) \in DOMAIN result /\ result[Min(own)] \in Items
    BY <2>2, LenProperties, ElementOfSeq
  <2>4. BatchRecord(d, result) = Judge(d, result[Min(own)])
    BY <1>2 DEF BatchRecord
  <2> QED
    BY <2>3, <2>4, JudgedRecord
<1> QED
  BY <1>1, <1>2

-----------------------------------------------------------------------------
(* Files                                                                   *)

LEMMA FunctionSeq ==
  ASSUME NEW S, NEW n \in Nat, NEW f \in [1..n -> S]
  PROVE  f \in Seq(S) /\ Len(f) = n /\ DOMAIN f = 1..n
OBVIOUS

LEMMA CorpusRecords ==
  ASSUME NEW f \in [DOMAIN Corpus -> RecordSet],
         \A i \in DOMAIN Corpus : f[i].doc = Corpus[i]
  PROVE  f \in Seq(RecordSet) /\ OneEach(f, Docs)
<1>1. f \in Seq(RecordSet) /\ Len(f) = Len(Corpus) /\ DOMAIN f = DOMAIN Corpus
  BY CorpusFacts, FunctionSeq
<1>2. DocsOf(f) = Docs
  <2>1. \A i \in DOMAIN f : f[i].doc \in Docs
    BY <1>1, CorpusFacts
  <2>2. \A d \in Docs : \E i \in DOMAIN f : f[i].doc = d
    BY <1>1, CorpusFacts
  <2> QED
    BY <2>1, <2>2 DEF DocsOf
<1>3. \A j, k \in DOMAIN f : f[j].doc = f[k].doc => j = k
  BY <1>1, CorpusFacts
<1> QED
  BY <1>1, <1>2, <1>3, CorpusFacts DEF OneEach

(* gather() and map() lose and add nothing. *)
LEMMA InOrderRecords ==
  ASSUME NEW rows \in Seq(RecordSet), OneEach(rows, Docs)
  PROVE  \A i \in DOMAIN Corpus : /\ InOrder(rows)[i] \in RecordSet
                                  /\ InOrder(rows)[i].doc = Corpus[i]
<1>1. DOMAIN rows = 1..Len(rows) /\ \A k \in DOMAIN rows : rows[k] \in RecordSet
  BY LenProperties, ElementOfSeq
<1>2. ASSUME NEW i \in DOMAIN Corpus
      PROVE  InOrder(rows)[i] \in RecordSet /\ InOrder(rows)[i].doc = Corpus[i]
  <2>1. Corpus[i] \in DocsOf(rows)
    BY CorpusFacts DEF OneEach
  <2>2. PICK k \in DOMAIN rows : rows[k].doc = Corpus[i]
    BY <2>1 DEF DocsOf
  <2> QED
    BY <1>1, <2>2 DEF InOrder
<1> QED
  BY <1>2

(* A file that is written line by line, up to the last document. *)
LEMMA NoneYet == <<>> \in Seq(RecordSet) /\ FirstOnes(<<>>)
<1>1. <<>> \in Seq(RecordSet) /\ Len(<<>>) = 0 /\ DOMAIN <<>> = {}
  BY EmptySeq
<1> QED
  BY <1>1, CorpusFacts DEF FirstOnes

LEMMA NextOne ==
  ASSUME NEW rows \in Seq(RecordSet), FirstOnes(rows),
         Len(rows) < Len(Corpus),
         NEW r \in RecordSet, r.doc = Corpus[Len(rows) + 1]
  PROVE  Append(rows, r) \in Seq(RecordSet) /\ FirstOnes(Append(rows, r))
<1> DEFINE n == Len(rows)
           more == Append(rows, r)
<1>1. /\ n \in Nat /\ DOMAIN rows = 1..n
      /\ more \in Seq(RecordSet) /\ Len(more) = n + 1 /\ DOMAIN more = 1..(n + 1)
      /\ \A k \in 1..n : more[k] = rows[k]
      /\ more[n + 1] = r
  BY AppendProperties, LenProperties
<1>2. \A i \in 1..(n + 1) : i \in 1..n \/ i = n + 1
  BY <1>1
<1>3. \A i \in 1..(n + 1) : more[i].doc = Corpus[i]
  BY <1>1, <1>2 DEF FirstOnes
<1>4. n + 1 <= Len(Corpus)
  BY <1>1, CorpusFacts
<1> QED
  BY <1>1, <1>3, <1>4 DEF FirstOnes

LEMMA AllWritten ==
  ASSUME NEW rows \in Seq(RecordSet), FirstOnes(rows), Len(rows) = Len(Corpus)
  PROVE  OneEach(rows, Docs)
<1>1. DOMAIN rows = DOMAIN Corpus /\ \A i \in DOMAIN Corpus : rows[i] \in RecordSet
  BY LenProperties, ElementOfSeq, CorpusFacts
<1>2. rows \in [DOMAIN Corpus -> RecordSet]
  BY <1>1, LenProperties, CorpusFacts
<1> QED
  BY <1>1, <1>2, CorpusRecords DEF FirstOnes

(* A record of a document that has none yet. *)
LEMMA OneMore ==
  ASSUME NEW rows \in Seq(RecordSet), NEW D \in SUBSET Docs, OneEach(rows, D),
         NEW r \in RecordSet, r.doc \in Docs \ D
  PROVE  /\ Append(rows, r) \in Seq(RecordSet)
         /\ OneEach(Append(rows, r), D \cup {r.doc})
<1> DEFINE n == Len(rows)
           more == Append(rows, r)
<1>1. /\ n \in Nat /\ DOMAIN rows = 1..n
      /\ more \in Seq(RecordSet) /\ Len(more) = n + 1 /\ DOMAIN more = 1..(n + 1)
      /\ \A k \in 1..n : more[k] = rows[k]
      /\ more[n + 1] = r
  BY AppendProperties, LenProperties
<1>2. DOMAIN more = DOMAIN rows \cup {n + 1} /\ n + 1 \notin DOMAIN rows
  BY <1>1
<1>3. \A k \in DOMAIN rows : more[k].doc = rows[k].doc /\ rows[k].doc \in D
  BY <1>1 DEF OneEach, DocsOf
<1>4. DocsOf(more) = D \cup {r.doc}
  <2>1. DocsOf(more) \subseteq D \cup {r.doc}
    BY <1>1, <1>2, <1>3 DEF DocsOf
  <2>2. \A d \in D : \E k \in DOMAIN rows : rows[k].doc = d
    BY DEF OneEach, DocsOf
  <2>3. D \cup {r.doc} \subseteq DocsOf(more)
    BY <1>1, <1>2, <1>3, <2>2 DEF DocsOf
  <2> QED
    BY <2>1, <2>3
<1>5. \A j, k \in DOMAIN more : more[j].doc = more[k].doc => j = k
  BY <1>1, <1>2, <1>3 DEF OneEach
<1>6. Cardinality(D \cup {r.doc}) = Cardinality(D) + 1
  BY CorpusFacts, FS_Subset, FS_AddElement
<1> QED
  BY <1>1, <1>4, <1>5, <1>6 DEF OneEach

(* The duplicates that the gate looks for. *)
LEMMA OneEachHasNoDuplicates ==
  ASSUME NEW rows, NEW D, OneEach(rows, D)
  PROVE  Duplicates(rows) = {}
<1> SUFFICES ASSUME NEW d \in DocsOf(rows)
             PROVE  ~(Cardinality({k \in DOMAIN rows : rows[k].doc = d}) > 1)
  BY DEF Duplicates
<1>1. PICK k \in DOMAIN rows : rows[k].doc = d
  BY DEF DocsOf
<1>2. {j \in DOMAIN rows : rows[j].doc = d} = {k}
  BY <1>1 DEF OneEach
<1>3. Cardinality({j \in DOMAIN rows : rows[j].doc = d}) = 1
  BY <1>2, FS_Singleton
<1> QED
  BY <1>3

LEMMA NoDuplicates ==
  ASSUME NEW S, NEW rows \in Seq(S), Duplicates(rows) = {},
         NEW d \in DocsOf(rows)
  PROVE  \E k \in DOMAIN rows : \A j \in DOMAIN rows : rows[j].doc = d <=> j = k
<1> DEFINE K == {k \in DOMAIN rows : rows[k].doc = d}
<1>1. IsFiniteSet(K)
  <2>1. Len(rows) \in Nat /\ DOMAIN rows = 1..Len(rows)
    BY LenProperties
  <2>2. IsFiniteSet(1..Len(rows)) /\ K \in SUBSET (1..Len(rows))
    BY <2>1, FS_Interval
  <2> QED
    BY <2>2, FS_Subset
<1>2. K # {}
  BY DEF DocsOf
<1>3. Cardinality(K) \in Nat /\ Cardinality(K) # 0
  BY <1>1, <1>2, FS_EmptySet, FS_CardinalityType
<1>4. ~(Cardinality(K) > 1)
  BY DEF Duplicates
<1>5. Cardinality(K) = 1
  BY <1>3, <1>4
<1>6. PICK k : K = {k}
  BY <1>1, <1>5, FS_Singleton
<1> QED
  BY <1>6

-----------------------------------------------------------------------------
(* Types                                                                   *)

LEMMA ScriptFacts ==
  ASSUME TypeOK
  PROVE  /\ campaign.driver \in {"lg", "rr", "native"}
         /\ campaign.script = "native" <=> campaign.driver = "native"
         /\ campaign.script = "rr_run" => campaign.driver = "rr"
         /\ campaign.script = "smoke10" => campaign.driver = "lg"
         /\ Reps \subseteq 1..REPS /\ 1 \in Reps
         /\ campaign.script # "rr_run" => 2 \in Reps
         /\ 1 \in 1..REPS /\ rep \in 1..REPS /\ rep \in Nat
<1>1. campaign \in Campaigns /\ rep \in Reps
  BY DEF TypeOK
<1>2. /\ campaign.driver \in {"lg", "rr", "native"}
      /\ campaign.script = "native" <=> campaign.driver = "native"
      /\ campaign.script = "rr_run" => campaign.driver = "rr"
      /\ campaign.script = "smoke10" => campaign.driver = "lg"
  BY <1>1 DEF Campaigns
<1>3. /\ Reps \subseteq 1..REPS /\ 1 \in Reps
      /\ campaign.script # "rr_run" => 2 \in Reps
  BY CampaignAssumption DEF Reps
<1>4. 1 \in 1..REPS /\ rep \in 1..REPS /\ rep \in Nat
  BY <1>1, <1>3
<1> QED
  BY <1>2, <1>3, <1>4

LEMMA FileTypes ==
  /\ Missing \in FileSet /\ Missing.age = "none"
  /\ \A rows \in Seq(RecordSet) : /\ Fresh(rows) \in FileSet
                                  /\ Fresh(rows).age = "new"
                                  /\ Fresh(rows).rows = rows
                                  /\ Torn(rows) \in FileSet
                                  /\ Torn(rows).age = "torn"
                                  /\ Torn(rows).rows = rows
  /\ Old \in FileSet /\ Old.age = "old"
<1>1. <<>> \in Seq(RecordSet)
  BY EmptySeq
<1>2. Missing \in FileSet /\ Missing.age = "none"
  BY <1>1 DEF Missing, FileSet
<1>3. ASSUME NEW rows \in Seq(RecordSet)
      PROVE  /\ Fresh(rows) \in FileSet /\ Fresh(rows).age = "new"
             /\ Fresh(rows).rows = rows
             /\ Torn(rows) \in FileSet /\ Torn(rows).age = "torn"
             /\ Torn(rows).rows = rows
  BY DEF Fresh, Torn, FileSet
<1>4. Old \in FileSet /\ Old.age = "old"
  <2> DEFINE some == CHOOSE c \in Contents : TRUE
             rows == [i \in DOMAIN Corpus |-> Completed(Corpus[i], some)]
  <2>1. some \in Contents
    BY CampaignAssumption
  <2>2. \A i \in DOMAIN Corpus : Completed(Corpus[i], some) \in RecordSet
    BY <2>1, CorpusFacts, CompletedRecord
  <2>3. rows \in [DOMAIN Corpus -> RecordSet]
    BY <2>2
  <2>4. rows \in Seq(RecordSet)
    BY <2>3, CorpusFacts, FunctionSeq
  <2>5. Old = [age |-> "old", rows |-> rows]
    BY DEF Old
  <2> QED
    BY <2>4, <2>5 DEF FileSet
<1> QED
  BY <1>2, <1>3, <1>4

(* Whatever came back for d, it is kept as a record of d, and ok only for  *)
(* a content that was served for d. *)
LEMMA AnswerKeeps ==
  ASSUME TypeOK, NEW d \in Docs, Answer(d)
  PROVE  \E r \in RecordSet :
           /\ r.doc = d /\ Keep(r)
           /\ served \subseteq served'
           /\ served' \subseteq Docs \X (Contents \cup {NoText})
           /\ r.ok => \E c \in Contents : /\ <<d, c>> \in served'
                                        /\ r.hashes = <<c>>
<1>1. ASSUME Keep(Failed(d, "transport_error")), UNCHANGED served
      PROVE  \E r \in RecordSet :
               /\ r.doc = d /\ Keep(r)
               /\ served \subseteq served'
               /\ served' \subseteq Docs \X (Contents \cup {NoText})
               /\ r.ok => \E c \in Contents : /\ <<d, c>> \in served'
                                            /\ r.hashes = <<c>>
  <2>1. /\ Failed(d, "transport_error") \in RecordSet
        /\ Failed(d, "transport_error").doc = d
        /\ ~Failed(d, "transport_error").ok
    BY FailedRecord DEF Reasons
  <2> QED
    BY <1>1, <2>1 DEF TypeOK
<1>2. ASSUME NEW item \in Items,
             served' = served \cup {<<item.file, item.content>>},
             NEW r \in RecordSet, r.doc = d, Keep(r), Proved(r, item)
      PROVE  /\ served \subseteq served'
             /\ served' \subseteq Docs \X (Contents \cup {NoText})
             /\ r.ok => \E c \in Contents : /\ <<d, c>> \in served'
                                          /\ r.hashes = <<c>>
  <2>1. /\ item.file \in Docs /\ item.content \in Contents \cup {NoText}
        /\ served \subseteq Docs \X (Contents \cup {NoText})
    BY DEF Items, TypeOK
  <2>2. r.ok => item.content \in Contents /\ item.file = d
                /\ r.hashes = <<item.content>>
    BY <1>2 DEF Proved
  <2>3. served' \subseteq Docs \X (Contents \cup {NoText})
    BY <1>2, <2>1
  <2> QED
    BY <1>2, <2>2, <2>3
<1>3. CASE \E item \in Items :
             /\ served' = served \cup {<<item.file, item.content>>}
             /\ \/ Keep(Judge(d, item))
                \/ Keep(Unsaved(Judge(d, item)))
  <2>1. PICK item \in Items :
             /\ served' = served \cup {<<item.file, item.content>>}
             /\ \/ Keep(Judge(d, item))
                \/ Keep(Unsaved(Judge(d, item)))
    BY <1>3
  <2>2. CASE Keep(Judge(d, item))
    BY <1>2, <2>1, <2>2, JudgedRecord
  <2>3. CASE Keep(Unsaved(Judge(d, item)))
    <3> DEFINE r == Judge(d, item)
    <3>1. r \in RecordSet /\ r.doc = d /\ Proved(r, item)
      BY JudgedRecord
    <3>2. Unsaved(r) \in RecordSet /\ Unsaved(r).doc = d /\ Proved(Unsaved(r), item)
      BY <3>1, UnsavedRecord
    <3> HIDE DEF r
    <3>3. Keep(Unsaved(r))
      BY <2>3 DEF r
    <3> QED
      BY <1>2, <2>1, <3>2, <3>3
  <2> QED
    BY <2>1, <2>2, <2>3
<1>4. \/ \E item \in Items :
           /\ served' = served \cup {<<item.file, item.content>>}
           /\ \/ Keep(Judge(d, item))
              \/ Keep(Unsaved(Judge(d, item)))
      \/ Keep(Failed(d, "transport_error")) /\ UNCHANGED served
  BY Zenon DEF Answer
<1>5. CASE Keep(Failed(d, "transport_error")) /\ UNCHANGED served
  BY <1>1, <1>5
<1> QED
  BY <1>3, <1>4, <1>5

(* A batch gives every document a record, ok only for its own content. *)
LEMMA BatchKeeps ==
  ASSUME TypeOK, Batch
  PROVE  /\ records' \in Seq(RecordSet) /\ OneEach(records', Docs)
         /\ served' \subseteq Docs \X (Contents \cup {NoText})
         /\ \A k \in DOMAIN records' :
              records'[k].ok => \E c \in Contents :
                /\ <<records'[k].doc, c>> \in served'
                /\ records'[k].hashes = <<c>>
<1>1. PICK result \in BoundedSeq(Items, BatchItems) :
        /\ records' = [i \in DOMAIN Corpus |-> BatchRecord(Corpus[i], result)]
        /\ served' = {<<result[i].file, result[i].content>> : i \in DOMAIN result}
  BY DEF Batch
<1>2. result \in Seq(Items)
  BY CampaignAssumption DEF BoundedSeq, SeqOf
<1>3. \A i \in DOMAIN result : /\ result[i].file \in Docs
                               /\ result[i].content \in Contents \cup {NoText}
  <2>1. \A i \in DOMAIN result : result[i] \in Items
    BY <1>2, LenProperties, ElementOfSeq
  <2> QED
    BY <2>1 DEF Items
<1>4. ASSUME NEW i \in DOMAIN Corpus
      PROVE  /\ records'[i] \in RecordSet /\ records'[i].doc = Corpus[i]
             /\ records'[i].ok => \E j \in DOMAIN result :
                                    Proved(records'[i], result[j])
  BY <1>1, <1>2, CorpusFacts, BatchedRecord
<1>5. records' \in [DOMAIN Corpus -> RecordSet]
  BY <1>1, <1>4
<1>6. records' \in Seq(RecordSet) /\ OneEach(records', Docs)
  BY <1>4, <1>5, CorpusRecords
<1>7. ASSUME NEW k \in DOMAIN records', records'[k].ok
      PROVE  \E c \in Contents : /\ <<records'[k].doc, c>> \in served'
                                /\ records'[k].hashes = <<c>>
  <2>1. PICK j \in DOMAIN result : Proved(records'[k], result[j])
    BY <1>1, <1>4, <1>7
  <2> QED
    BY <1>1, <1>7, <2>1 DEF Proved
<1>8. served' \subseteq Docs \X (Contents \cup {NoText})
  BY <1>1, <1>3
<1> QED
  BY <1>6, <1>7, <1>8

(* When all documents are answered there is a record of every one. *)
LEMMA AllAnswered ==
  ASSUME RecordsInv, Open
  PROVE  OneEach(records, Docs)
<1>1. {d \in Docs : task[d] = "done"} = Docs
  BY DEF Open
<1> QED
  BY <1>1 DEF RecordsInv, Open

(* A line that is written is the record of the next document. *)
LEMMA LineOfNext ==
  ASSUME TypeOK, RecordsInv, WriteLine
  PROVE  \E r \in RecordSet :
           /\ out[rep].rows \in Seq(RecordSet)
           /\ out' = [out EXCEPT ![rep].rows = Append(@, r)]
           /\ out'[rep].rows = Append(out[rep].rows, r)
           /\ out'[rep].age = out[rep].age
           /\ out'[rep] \in FileSet
           /\ Len(out[rep].rows) < Len(Corpus)
           /\ r.doc = Corpus[Len(out[rep].rows) + 1]
<1> DEFINE rows == out[rep].rows
           r == InOrder(records)[Len(rows) + 1]
<1>1. /\ rep \in 1..REPS /\ out \in [1..REPS -> FileSet] /\ out[rep] \in FileSet
      /\ records \in Seq(RecordSet)
  BY ScriptFacts DEF TypeOK
<1>2. rows \in Seq(RecordSet)
  BY <1>1 DEF FileSet
<1>3. Len(rows) \in Nat /\ Len(rows) < Len(Corpus)
  BY <1>2, LenProperties DEF WriteLine
<1>4. Len(rows) + 1 \in DOMAIN Corpus
  BY <1>3, CorpusFacts
<1>5. OneEach(records, Docs)
  BY DEF RecordsInv, WriteLine
<1>6. r \in RecordSet /\ r.doc = Corpus[Len(rows) + 1]
  BY <1>1, <1>4, <1>5, InOrderRecords
<1>7. out' = [out EXCEPT ![rep].rows = Append(@, r)]
  BY DEF WriteLine
<1> HIDE DEF r
<1>8. out'[rep] = [out[rep] EXCEPT !.rows = Append(out[rep].rows, r)]
  BY <1>1, <1>7
<1>9. Append(rows, r) \in Seq(RecordSet)
  BY <1>2, <1>6, AppendProperties
<1>10. /\ out'[rep].rows = Append(rows, r) /\ out'[rep].age = out[rep].age
       /\ out'[rep] \in FileSet
  BY <1>1, <1>8, <1>9 DEF FileSet
<1> QED
  BY <1>2, <1>3, <1>6, <1>7, <1>10

LEMMA NextType == TypeOK /\ RecordsInv /\ [Next]_vars => TypeOK'
<1> SUFFICES ASSUME TypeOK, RecordsInv, [Next]_vars
             PROVE  TypeOK'
  OBVIOUS
<1> DEFINE SameReps == Reps' = Reps
<1>1. UNCHANGED campaign /\ SameReps /\ rep \in 1..REPS
  BY ScriptFacts DEF Next, Driver, Launch, WarmUp, Send, Answer, Batch, Open,
     WriteLine, Close, Die, Collect, Report, vars, Reps
<1>2. CASE Launch
  BY <1>1, <1>2, FileTypes, EmptySeq DEF TypeOK, Launch
<1>3. CASE WarmUp
  BY <1>1, <1>3, FileTypes, EmptySeq DEF TypeOK, WarmUp
<1>4. ASSUME NEW d \in Docs, Send(d)
      PROVE  TypeOK'
  BY <1>1, <1>4 DEF TypeOK, Send
<1>5. ASSUME NEW d \in Docs, Answer(d)
      PROVE  TypeOK'
  <2>1. PICK r \in RecordSet :
          /\ Keep(r) /\ served' \subseteq Docs \X (Contents \cup {NoText})
    BY <1>5, AnswerKeeps
  <2>2. records' \in Seq(RecordSet)
    BY <2>1, AppendProperties DEF TypeOK, Keep
  <2>3. out' \in [1..REPS -> FileSet]
    <3>1. out[rep] \in FileSet
      BY <1>1 DEF TypeOK
    <3>2. Append(out[rep].rows, r) \in Seq(RecordSet)
      BY <3>1, AppendProperties DEF FileSet
    <3>3. [out[rep] EXCEPT !.rows = Append(out[rep].rows, r)] \in FileSet
      BY <3>1, <3>2 DEF FileSet
    <3> QED
      BY <2>1, <3>3 DEF TypeOK, Keep
  <2> QED
    BY <1>1, <1>5, <2>1, <2>2, <2>3 DEF TypeOK, Answer
<1>6. CASE Batch
  <2>1. /\ records' \in Seq(RecordSet)
        /\ served' \subseteq Docs \X (Contents \cup {NoText})
    BY <1>6, BatchKeeps
  <2>2. /\ task' = [d \in Docs |-> "done"]
        /\ UNCHANGED <<campaign, rep, phase, out, host, status, verdict>>
    BY <1>6 DEF Batch
  <2> QED
    BY <1>1, <2>1, <2>2 DEF TypeOK
<1>7. CASE Open
  <2>1. Fresh(<<>>) \in FileSet
    BY NoneYet, FileTypes
  <2> QED
    BY <1>1, <1>7, <2>1 DEF TypeOK, Open
<1>8. CASE Die
  <2>1. out[rep] \in FileSet /\ Torn(out[rep].rows) \in FileSet
    <3>1. out[rep] \in FileSet
      BY <1>1 DEF TypeOK
    <3> QED
      BY <3>1, FileTypes DEF FileSet
  <2> QED
    BY <1>1, <1>8, <2>1, EmptySeq DEF TypeOK, Die
<1>12. CASE WriteLine
  <2>1. PICK r \in RecordSet : /\ out' = [out EXCEPT ![rep].rows = Append(@, r)]
                               /\ out'[rep] \in FileSet
    BY <1>12, LineOfNext
  <2>2. out' \in [1..REPS -> FileSet]
    BY <1>1, <2>1 DEF TypeOK
  <2>3. UNCHANGED <<campaign, rep, phase, task, records, host, status, served,
                    verdict>>
    BY <1>12 DEF WriteLine
  <2> QED
    BY <1>1, <2>2, <2>3 DEF TypeOK
<1>13. CASE Close
  BY <1>1, <1>13 DEF TypeOK, Close
<1>9. CASE Collect
  BY <1>1, <1>9 DEF TypeOK, Collect
<1>10. CASE Report
  BY <1>1, <1>10 DEF TypeOK, Report
<1>11. CASE UNCHANGED vars
  BY <1>1, <1>11 DEF TypeOK, vars
<1> QED
  BY <1>2, <1>3, <1>4, <1>5, <1>6, <1>7, <1>8, <1>9, <1>10, <1>11, <1>12, <1>13
  DEF Next, Driver

-----------------------------------------------------------------------------
(* The records of the repetition under way                                 *)

LEMMA NothingYet == OneEach(<<>>, {})
<1>1. DOMAIN <<>> = {} /\ Len(<<>>) = 0
  OBVIOUS
<1> QED
  BY <1>1, FS_EmptySet DEF OneEach, DocsOf

LEMMA NextRecords ==
  TypeOK /\ RecordsInv /\ [Next]_vars => RecordsInv'
<1> SUFFICES ASSUME TypeOK, RecordsInv, [Next]_vars
             PROVE  RecordsInv'
  OBVIOUS
<1> DEFINE Over == {d \in Docs : task[d] = "done"}
<1>1. rep \in 1..REPS /\ out \in [1..REPS -> FileSet] /\ records \in Seq(RecordSet)
  BY ScriptFacts DEF TypeOK
<1>2. CASE Launch
  <2>1. records' = <<>> /\ Over' = {} /\ \A d \in Docs : task'[d] = "waiting"
    BY <1>2 DEF Launch
  <2> QED
    BY <1>2, <2>1, NothingYet DEF RecordsInv, Launch
<1>3. CASE WarmUp
  <2>1. records = <<>> /\ Over = {}
    BY <1>3 DEF RecordsInv, WarmUp
  <2> QED
    BY <1>1, <1>3, <2>1, NothingYet DEF RecordsInv, WarmUp
<1>4. ASSUME NEW d \in Docs, Send(d)
      PROVE  RecordsInv'
  <2>1. Over' = Over
    BY <1>4 DEF TypeOK, Send
  <2> QED
    BY <1>4, <2>1 DEF RecordsInv, Send
<1>5. ASSUME NEW d \in Docs, Answer(d)
      PROVE  RecordsInv'
  <2>1. PICK r \in RecordSet : r.doc = d /\ Keep(r)
    BY <1>5, AnswerKeeps
  <2>2. Over' = Over \cup {d} /\ d \notin Over
    BY <1>5 DEF TypeOK, Answer
  <2>3. phase = "run" /\ phase' = "run" /\ UNCHANGED <<campaign, rep>>
    BY <1>5 DEF Answer
  <2>4. OneEach(records', Over')
    BY <1>1, <2>1, <2>2, <2>3, OneMore DEF RecordsInv, Keep
  <2>5. ASSUME campaign.driver = "native"
        PROVE  out'[rep] = Fresh(records')
    <3>1. out[rep] = [age |-> "new", rows |-> records]
      BY <2>3, <2>5 DEF RecordsInv, Fresh
    <3>2. /\ out' = [out EXCEPT ![rep] =
                      [out[rep] EXCEPT !.rows = Append(out[rep].rows, r)]]
          /\ records' = Append(records, r)
      BY <2>1, <2>5 DEF Keep
    <3>3. out'[rep] = [out[rep] EXCEPT !.rows = Append(out[rep].rows, r)]
      BY <1>1, <3>2
    <3>4. out[rep].rows = records
      BY <3>1
    <3>5. out'[rep] = [[age |-> "new", rows |-> records] EXCEPT !.rows = records']
      BY <3>1, <3>2, <3>3, <3>4
    <3>6. out'[rep] = [age |-> "new", rows |-> records']
      BY <3>5
    <3> QED
      BY <3>6 DEF Fresh
  <2> QED
    BY <2>3, <2>4, <2>5 DEF RecordsInv
<1>6. CASE Batch
  <2>1. OneEach(records', Docs) /\ Over' = Docs
    BY <1>6, BatchKeeps DEF Batch
  <2>2. campaign'.driver # "native" /\ phase' = "run"
    BY <1>6 DEF Batch, Batched
  <2> QED
    BY <2>1, <2>2 DEF RecordsInv
<1>7. CASE Close \/ Die \/ Collect \/ Report
  <2>1. phase' \notin {"warm", "run", "writing"}
    BY <1>7 DEF Close, Die, Collect, Report
  <2> QED
    BY <2>1 DEF RecordsInv
<1>8. CASE UNCHANGED vars
  BY <1>8 DEF RecordsInv, vars
<1>9. CASE Open
  <2>1. CASE campaign.driver = "native"
    <3>1. phase' = "written"
      BY <1>9, <2>1 DEF Open
    <3> QED
      BY <3>1 DEF RecordsInv
  <2>2. CASE campaign.driver # "native"
    <3>1. /\ phase' = "writing" /\ out' = [out EXCEPT ![rep] = Fresh(<<>>)]
          /\ UNCHANGED <<campaign, rep, records>>
      BY <1>9, <2>2 DEF Open
    <3>2. out'[rep'].age = "new"
      BY <1>1, <3>1, NoneYet, FileTypes
    <3>3. OneEach(records', Docs)
      BY <1>9, <3>1, AllAnswered
    <3> QED
      BY <2>2, <3>1, <3>2, <3>3 DEF RecordsInv
  <2> QED
    BY <2>1, <2>2
<1>10. CASE WriteLine
  <2>1. out'[rep].age = out[rep].age
    BY <1>10, LineOfNext
  <2>2. phase = "writing" /\ UNCHANGED <<campaign, rep, phase, records>>
    BY <1>10 DEF WriteLine
  <2> QED
    BY <2>1, <2>2 DEF RecordsInv
<1> QED
  BY <1>2, <1>3, <1>4, <1>5, <1>6, <1>7, <1>8, <1>9, <1>10 DEF Next, Driver

LEMMA NextOwn ==
  TypeOK /\ OkIsOwn /\ [Next]_vars => OkIsOwn'
<1> SUFFICES ASSUME TypeOK, OkIsOwn, [Next]_vars
             PROVE  OkIsOwn'
  OBVIOUS
<1>1. CASE Launch \/ Die
  <2>1. records' = <<>>
    BY <1>1 DEF Launch, Die
  <2> QED
    BY <2>1 DEF OkIsOwn
<1>2. ASSUME NEW d \in Docs, Answer(d)
      PROVE  OkIsOwn'
  <2>1. PICK r \in RecordSet :
          /\ r.doc = d /\ Keep(r) /\ served \subseteq served'
          /\ r.ok => \E c \in Contents : /\ <<d, c>> \in served'
                                       /\ r.hashes = <<c>>
    BY <1>2, AnswerKeeps
  <2>2. /\ Len(records) \in Nat /\ DOMAIN records = 1..Len(records)
        /\ DOMAIN records' = 1..(Len(records) + 1)
        /\ \A k \in 1..Len(records) : records'[k] = records[k]
        /\ records'[Len(records) + 1] = r
    <3>1. records \in Seq(RecordSet) /\ records' = Append(records, r)
      BY <2>1 DEF TypeOK, Keep
    <3>2. /\ records' \in Seq(RecordSet) /\ Len(records') = Len(records) + 1
          /\ \A k \in 1..Len(records) : records'[k] = records[k]
          /\ records'[Len(records) + 1] = r
      BY <3>1, AppendProperties
    <3> QED
      BY <3>1, <3>2, LenProperties
  <2>3. \A k \in DOMAIN records' :
          \/ k \in DOMAIN records /\ records'[k] = records[k]
          \/ records'[k] = r
    BY <2>2
  <2> QED
    BY <2>1, <2>3 DEF OkIsOwn
<1>3. CASE Batch
  BY <1>3, BatchKeeps DEF OkIsOwn
<1>4. ASSUME UNCHANGED <<records, served>>
      PROVE  OkIsOwn'
  BY <1>4 DEF OkIsOwn
<1>5. CASE \/ WarmUp \/ Open \/ WriteLine \/ Close
           \/ Collect \/ Report \/ UNCHANGED vars
  BY <1>4, <1>5 DEF WarmUp, Open, WriteLine, Close, Collect, Report, vars
<1>6. ASSUME NEW d \in Docs, Send(d)
      PROVE  OkIsOwn'
  BY <1>4, <1>6 DEF Send
<1> QED
  BY <1>1, <1>2, <1>3, <1>5, <1>6 DEF Next, Driver

-----------------------------------------------------------------------------
(* Status and files                                                        *)

LEMMA NextStatus ==
  TypeOK /\ StatusInv /\ [Next]_vars => StatusInv'
<1> SUFFICES ASSUME TypeOK, StatusInv, [Next]_vars
             PROVE  StatusInv'
  OBVIOUS
<1>1. /\ rep \in 1..REPS /\ rep \in Nat
      /\ status \in [1..REPS -> {"none", "ended", "dead"}]
  BY ScriptFacts DEF TypeOK
<1>2. CASE Launch
  BY <1>1, <1>2 DEF StatusInv, Launch
<1>3. CASE WarmUp
  BY <1>1, <1>3 DEF StatusInv, WarmUp
<1>4. ASSUME NEW d \in Docs, Send(d) \/ Answer(d)
      PROVE  StatusInv'
  BY <1>1, <1>4 DEF StatusInv, Send, Answer
<1>5. CASE Batch
  BY <1>1, <1>5 DEF StatusInv, Batch
<1>6. CASE Open \/ Close
  <2>1. CASE phase' = "written"
    <3>1. /\ rep' = rep /\ status'[rep] = "ended"
          /\ \A r \in 1..REPS : r # rep => status'[r] = status[r]
      BY <1>1, <1>6, <2>1 DEF Open, Close
    <3> QED
      BY <1>1, <2>1, <3>1 DEF StatusInv
  <2>2. CASE phase' # "written"
    <3>1. phase = "run" /\ phase' = "writing" /\ UNCHANGED <<rep, status>>
      BY <1>6, <2>2 DEF Open, Close
    <3> QED
      BY <1>1, <3>1 DEF StatusInv
  <2> QED
    BY <2>1, <2>2
<1>11. CASE WriteLine
  BY <1>1, <1>11 DEF StatusInv, WriteLine
<1>7. CASE Die
  <2>1. /\ rep' = rep /\ phase' = "dead" /\ status'[rep] = "dead"
        /\ \A r \in 1..REPS : r # rep => status'[r] = status[r]
    BY <1>1, <1>7 DEF Die
  <2> QED
    BY <1>1, <2>1 DEF StatusInv
<1>8. CASE Collect
  <2>1. /\ status' = status /\ status[rep] # "none"
        /\ \/ rep' = rep /\ phase' = "report"
           \/ rep' = rep + 1 /\ phase' = "launch" /\ rep + 1 \in 1..REPS
    BY <1>1, <1>8, ScriptFacts DEF StatusInv, Collect
  <2> QED
    BY <1>1, <2>1 DEF StatusInv
<1>9. CASE Report
  BY <1>1, <1>9 DEF StatusInv, Report
<1>10. CASE UNCHANGED vars
  BY <1>10 DEF StatusInv, vars
<1> QED
  BY <1>2, <1>3, <1>4, <1>5, <1>6, <1>7, <1>8, <1>9, <1>10, <1>11
  DEF Next, Driver

(* A step that touches the files and the status of the repetition under    *)
(* way at most leaves the others as they were. *)
LEMMA FileStays ==
  ASSUME NEW r \in 1..REPS, FileInv(r), campaign' = campaign,
         out'[r] = out[r], host'[r] = host[r], status'[r] = status[r],
         \/ r # rep /\ r # rep'
         \/ /\ rep' = rep
            /\ \/ phase' = phase
               \/ phase' = "reported" /\ phase \in {"report", "dead"}
  PROVE  FileInv(r)'
<1>1. Passes' <=> Passes
  BY DEF Passes
<1> QED
  BY <1>1 DEF FileInv, WrittenInv, CopyInv

(* The file that the repetition under way has come to write. *)
LEMMA NextWritten ==
  ASSUME TypeOK, RecordsInv, StatusInv, Driver \/ Die, WrittenInv(rep)
  PROVE  WrittenInv(rep)'
<1>1. /\ rep \in 1..REPS /\ rep' = rep /\ UNCHANGED campaign
      /\ out \in [1..REPS -> FileSet] /\ out[rep] \in FileSet
      /\ status \in [1..REPS -> {"none", "ended", "dead"}]
      /\ records \in Seq(RecordSet)
  BY ScriptFacts DEF TypeOK, Driver, WarmUp, Send, Answer, Batch, Open,
     WriteLine, Close, Die
<1>2. CASE WarmUp
  <2>1. phase = "warm" /\ phase' = "run" /\ status'[rep] = "none"
    BY <1>2 DEF StatusInv, WarmUp
  <2>2. CASE campaign.driver = "native"
    BY <1>1, <1>2, <2>1, <2>2, NoneYet, FileTypes DEF WrittenInv, WarmUp
  <2>3. CASE campaign.driver # "native"
    BY <1>1, <1>2, <2>1, <2>3 DEF WrittenInv, WarmUp
  <2> QED
    BY <2>2, <2>3
<1>3. ASSUME NEW d \in Docs, Send(d)
      PROVE  WrittenInv(rep)'
  BY <1>1, <1>3 DEF WrittenInv, Send
<1>4. ASSUME NEW d \in Docs, Answer(d)
      PROVE  WrittenInv(rep)'
  <2>1. PICK record \in RecordSet : Keep(record)
    BY <1>4, AnswerKeeps
  <2>2. /\ phase = "run" /\ phase' = "run" /\ status'[rep] = "none"
        /\ UNCHANGED status
    BY <1>4 DEF StatusInv, Answer
  <2>3. CASE campaign.driver # "native"
    BY <1>1, <2>1, <2>2, <2>3 DEF WrittenInv, Keep
  <2>4. CASE campaign.driver = "native"
    <3>1. out[rep].age = "new"
      BY <1>1, <2>2, <2>4, FileTypes DEF RecordsInv
    <3>2. out'[rep].age = "new"
      BY <1>1, <2>1, <2>4, <3>1 DEF Keep, FileSet
    <3> QED
      BY <1>1, <2>2, <2>4, <3>2 DEF WrittenInv
  <2> QED
    BY <2>3, <2>4
<1>5. CASE Batch
  BY <1>1, <1>5 DEF WrittenInv, Batch
<1>6. CASE Open
  <2>1. CASE campaign.driver = "native"
    <3>1. out[rep] = Fresh(records) /\ OneEach(records, Docs)
      BY <1>6, <2>1, AllAnswered DEF RecordsInv, Open
    <3>2. out[rep].age = "new" /\ out[rep].rows = records
      BY <1>1, <3>1, FileTypes
    <3>3. Duplicates(records) = {}
      BY <3>1, OneEachHasNoDuplicates
    <3>4. /\ UNCHANGED <<campaign, rep, out>> /\ status'[rep] = "ended"
      BY <1>1, <1>6, <2>1 DEF Open
    <3> QED
      BY <2>1, <3>1, <3>2, <3>3, <3>4 DEF WrittenInv
  <2>2. CASE campaign.driver # "native"
    <3>1. /\ phase' = "writing" /\ status'[rep] = "none"
          /\ out'[rep] = Fresh(<<>>)
      BY <1>1, <1>6, <2>2 DEF Open, StatusInv
    <3> QED
      BY <1>1, <2>2, <3>1, NoneYet, FileTypes DEF WrittenInv
  <2> QED
    BY <2>1, <2>2
<1>7. CASE WriteLine
  <2>1. PICK r \in RecordSet :
          /\ out[rep].rows \in Seq(RecordSet)
          /\ out'[rep].rows = Append(out[rep].rows, r)
          /\ out'[rep].age = out[rep].age
          /\ Len(out[rep].rows) < Len(Corpus)
          /\ r.doc = Corpus[Len(out[rep].rows) + 1]
    BY <1>7, LineOfNext
  <2>2. /\ phase = "writing" /\ UNCHANGED <<phase, campaign, rep, status>>
        /\ campaign.driver # "native" /\ out[rep].age = "new"
        /\ status[rep] = "none"
    BY <1>7 DEF WriteLine, RecordsInv, StatusInv
  <2>3. FirstOnes(out[rep].rows)
    BY <2>2 DEF WrittenInv
  <2>4. FirstOnes(out'[rep].rows)
    BY <2>1, <2>3, NextOne
  <2> QED
    BY <2>1, <2>2, <2>4 DEF WrittenInv
<1>8. CASE Close
  <2>1. /\ phase = "writing" /\ Len(out[rep].rows) = Len(Corpus)
        /\ status'[rep] = "ended" /\ UNCHANGED <<campaign, rep, out>>
        /\ campaign.driver # "native" /\ out[rep].age = "new"
    BY <1>1, <1>8 DEF Close, RecordsInv
  <2>2. FirstOnes(out[rep].rows) /\ out[rep].rows \in Seq(RecordSet)
    BY <1>1, <2>1 DEF WrittenInv, FileSet
  <2>3. OneEach(out[rep].rows, Docs)
    BY <2>1, <2>2, AllWritten
  <2> QED
    BY <2>1, <2>2, <2>3 DEF WrittenInv
<1>9. CASE Die
  <2>1. /\ phase \in {"warm", "run", "writing", "written"}
        /\ status'[rep] = "dead" /\ UNCHANGED <<campaign, rep>>
    BY <1>1, <1>9 DEF Die
  <2>2. \/ out'[rep] = out[rep]
        \/ HasOpenFile /\ out'[rep] = Torn(out[rep].rows)
    BY <1>1, <1>9 DEF Die
  <2>3. out[rep].rows \in Seq(RecordSet)
    BY <1>1 DEF FileSet
  <2>4. /\ out'[rep].rows = out[rep].rows
        /\ out'[rep].age \in {"new", "torn"} =>
             out[rep].age \in {"new", "torn"} \/ HasOpenFile
    BY <2>2, <2>3, FileTypes
  <2>5. HasOpenFile => out[rep].age = "new"
    BY <1>1, FileTypes DEF HasOpenFile, RecordsInv
  <2>6. ASSUME campaign.driver = "native", out[rep].age \in {"new", "torn"}
        PROVE  Duplicates(out[rep].rows) = {}
    <3>1. CASE phase = "run"
      <4>1. /\ out[rep] = Fresh(records)
            /\ OneEach(records, {d \in Docs : task[d] = "done"})
        BY <2>6, <3>1 DEF RecordsInv
      <4>2. out[rep].rows = records
        BY <1>1, <4>1, FileTypes
      <4> QED
        BY <4>1, <4>2, OneEachHasNoDuplicates
    <3>2. CASE phase # "run"
      BY <2>6, <3>2 DEF WrittenInv
    <3> QED
      BY <3>1, <3>2
  <2> QED
    BY <2>1, <2>4, <2>5, <2>6 DEF WrittenInv
<1> QED
  BY <1>2, <1>3, <1>4, <1>5, <1>6, <1>7, <1>8, <1>9 DEF Driver

(* The copies of the host, while the repetition is under way. *)
LEMMA CopyStays ==
  ASSUME TypeOK, RecordsInv, StatusInv, StatusInv', Driver \/ Die,
         CopyInv(rep)
  PROVE  CopyInv(rep)'
<1>1. /\ rep \in 1..REPS /\ rep' = rep /\ UNCHANGED <<campaign, host>>
      /\ out \in [1..REPS -> FileSet] /\ out[rep] \in FileSet
      /\ status \in [1..REPS -> {"none", "ended", "dead"}]
      /\ phase \in {"warm", "run", "writing", "written"}
  BY ScriptFacts DEF TypeOK, Driver, WarmUp, Send, Answer, Batch, Open,
     WriteLine, Close, Die
<1>2. out'[rep].age = "old" => out[rep].age = "old"
  <2>1. CASE UNCHANGED out
    BY <2>1
  <2>2. CASE WarmUp \/ Open \/ Die
    <3>1. out[rep].rows \in Seq(RecordSet)
      BY <1>1 DEF FileSet
    <3>2. \/ out'[rep] = out[rep]
          \/ out'[rep] = Fresh(<<>>) \/ out'[rep] = Torn(out[rep].rows)
      BY <1>1, <2>2 DEF WarmUp, Open, Die
    <3> QED
      BY <3>1, <3>2, NoneYet, FileTypes
  <2>3. ASSUME NEW d \in Docs, Answer(d)
        PROVE  out'[rep].age = out[rep].age
    <3>1. PICK r \in RecordSet : Keep(r)
      BY <2>3, AnswerKeeps
    <3> QED
      BY <1>1, <3>1 DEF Keep, FileSet
  <2>4. CASE WriteLine
    BY <2>4, LineOfNext
  <2>5. ASSUME NEW d \in Docs, Send(d)
        PROVE  UNCHANGED out
    BY <2>5 DEF Send
  <2>6. Batch \/ Close => UNCHANGED out
    BY DEF Batch, Close
  <2> QED
    BY <2>1, <2>2, <2>3, <2>4, <2>5, <2>6 DEF Driver
<1>3. status'[rep] = "ended" => phase' = "written"
  <2>1. phase' \in {"run", "writing", "written", "dead"}
    BY <1>1 DEF Driver, WarmUp, Send, Answer, Batch, Open, WriteLine, Close, Die
  <2> QED
    BY <1>1, <2>1 DEF StatusInv
<1>4. campaign.driver = "rr" => host[rep] = Missing
  BY <1>1 DEF CopyInv
<1>5. out[rep].age = "old" => campaign.driver # "lg" /\ Passes
  BY <1>1 DEF CopyInv
<1>6. Passes' <=> Passes
  BY <1>1 DEF Passes
<1> QED
  BY <1>1, <1>2, <1>3, <1>4, <1>5, <1>6 DEF CopyInv

LEMMA NextFiles ==
  ASSUME TypeOK, RecordsInv, StatusInv, StatusInv', [Next]_vars,
         NEW r \in 1..REPS, FileInv(r)
  PROVE  FileInv(r)'
<1>1. /\ rep \in 1..REPS /\ rep \in Nat
      /\ status \in [1..REPS -> {"none", "ended", "dead"}]
      /\ out \in [1..REPS -> FileSet] /\ host \in [1..REPS -> FileSet]
  BY ScriptFacts DEF TypeOK
<1>2. CASE Launch
  <2>1. /\ phase = "launch" /\ phase' \in {"warm", "run"} /\ status[rep] = "none"
        /\ UNCHANGED <<campaign, rep, host, status>> /\ (Passes' <=> Passes)
    BY <1>1, <1>2 DEF StatusInv, Launch, Passes
  <2>2. /\ r # rep => out'[r] = out[r]
        /\ Passes => out'[r] = out[r]
        /\ ~Passes /\ r = rep => out'[r] = Missing
    BY <1>1, <1>2 DEF Launch
  <2>3. CASE r # rep
    BY <2>1, <2>2, <2>3, FileStays
  <2>4. CASE r = rep
    <3>1. /\ out[r].age \notin {"new", "torn"}
          /\ campaign.driver = "rr" => host[r] = Missing
          /\ out[r].age = "old" => campaign.driver # "lg"
      BY <2>1, <2>4 DEF FileInv, WrittenInv, CopyInv
    <3>2. out'[r].age \notin {"new", "torn"}
      BY <2>2, <2>4, <3>1, FileTypes
    <3>3. out'[r].age = "old" => Passes /\ out[r].age = "old"
      BY <2>2, <2>4, FileTypes
    <3> QED
      BY <2>1, <2>4, <3>1, <3>2, <3>3 DEF FileInv, WrittenInv, CopyInv
  <2> QED
    BY <2>3, <2>4
<1>3. CASE Driver \/ Die
  <2>1. CASE r = rep
    <3>1. UNCHANGED rep
      BY <1>3 DEF Driver, WarmUp, Send, Answer, Batch, Open, WriteLine, Close, Die
    <3>2. WrittenInv(rep)' /\ CopyInv(rep)'
      BY <1>3, <2>1, NextWritten, CopyStays DEF FileInv
    <3> QED
      BY <2>1, <3>1, <3>2 DEF FileInv
  <2>2. CASE r # rep
    <3>1. /\ UNCHANGED <<campaign, rep, host>> /\ status'[r] = status[r]
          /\ out'[r] = out[r]
      <4>1. CASE WarmUp \/ Batch \/ Open \/ WriteLine \/ Close \/ Die
        BY <1>1, <2>2, <4>1 DEF WarmUp, Batch, Open, WriteLine, Close, Die
      <4>2. ASSUME NEW d \in Docs, Send(d)
            PROVE  UNCHANGED <<campaign, rep, host, out, status>>
        BY <4>2 DEF Send
      <4>3. ASSUME NEW d \in Docs, Answer(d)
            PROVE  UNCHANGED <<campaign, rep, host, status>> /\ out'[r] = out[r]
        <5>1. PICK record \in RecordSet : Keep(record)
          BY <4>3, AnswerKeeps
        <5> QED
          BY <1>1, <2>2, <4>3, <5>1 DEF Answer, Keep
      <4> QED
        BY <1>3, <4>1, <4>2, <4>3 DEF Driver
    <3> QED
      BY <2>2, <3>1, FileStays
  <2> QED
    BY <2>1, <2>2
<1>4. CASE Collect
  <2>1. /\ \/ phase = "written" /\ status[rep] = "ended"
           \/ /\ phase = "dead" /\ status[rep] = "dead"
              /\ campaign.script \in {"rr_run", "native"}
        /\ UNCHANGED <<campaign, out, status>> /\ (Passes' <=> Passes)
        /\ \/ rep' = rep /\ phase' = "report"
           \/ rep' = rep + 1 /\ phase' = "launch"
    BY <1>1, <1>4 DEF StatusInv, Collect, Passes
  <2>2. /\ r # rep \/ campaign.driver # "rr" => host'[r] = host[r]
        /\ campaign.driver = "rr" /\ r = rep =>
             \/ host'[r] = out[r]
             \/ host'[r] = host[r] /\ campaign.script = "rr_run"
    BY <1>1, <1>4 DEF Collect
  <2>3. CASE r = rep
    <3>1. campaign.driver = "rr" => host[r] = Missing
      BY <2>1, <2>3 DEF FileInv, CopyInv
    <3>2. campaign.driver = "rr" /\ status[r] # "ended" => campaign.script = "rr_run"
      BY <2>1, <2>3, ScriptFacts
    <3>3. WrittenInv(r)'
      <4>1. /\ phase # "run" /\ status[r] # "none" /\ UNCHANGED campaign
            /\ out'[r] = out[r] /\ status'[r] = status[r]
        BY <2>1, <2>3
      <4>2. /\ status[r] = "ended" => out[r].age = "new" /\ OneEach(out[r].rows, Docs)
            /\ out[r].age = "torn" => status[r] = "dead"
            /\ out[r].age \in {"new", "torn"} =>
                 /\ campaign.driver # "native" => FirstOnes(out[r].rows)
                 /\ campaign.driver = "native" => Duplicates(out[r].rows) = {}
        BY <4>1 DEF FileInv, WrittenInv
      <4> QED
        BY <4>1, <4>2 DEF WrittenInv
    <3>4. CopyInv(r)'
      <4>1. out[r].age = "old" => campaign.driver # "lg" /\ Passes
        BY <2>1, <2>3 DEF FileInv, CopyInv
      <4>2. r = rep' => phase' = "report"
        <5>1. rep + 1 # rep
          BY <1>1
        <5>2. (rep' = rep /\ phase' = "report") \/ rep' = rep + 1
          BY <2>1
        <5> QED
          BY <2>3, <5>1, <5>2
      <4>3. status[r] # "none"
        BY <2>1, <2>3
      <4> QED
        BY <2>1, <2>2, <2>3, <3>1, <3>2, <4>1, <4>2, <4>3 DEF CopyInv
    <3> QED
      BY <3>3, <3>4 DEF FileInv
  <2>4. CASE r # rep /\ r # rep'
    BY <2>1, <2>2, <2>4, FileStays
  <2>5. CASE r # rep /\ r = rep'
    <3>1. status[r] = "none" /\ phase' = "launch"
      BY <1>1, <2>1, <2>5 DEF StatusInv
    <3> QED
      BY <2>1, <2>2, <2>5, <3>1 DEF FileInv, WrittenInv, CopyInv
  <2> QED
    BY <2>3, <2>4, <2>5
<1>5. CASE Report
  BY <1>5, FileStays DEF Report
<1>6. CASE UNCHANGED vars
  BY <1>6, FileStays DEF vars
<1> QED
  BY <1>2, <1>3, <1>4, <1>5, <1>6 DEF Next

-----------------------------------------------------------------------------
(* The verdict                                                             *)

LEMMA NextVerdict ==
  TypeOK /\ VerdictInv /\ [Next]_vars => VerdictInv'
<1> SUFFICES ASSUME TypeOK, VerdictInv, [Next]_vars
             PROVE  VerdictInv'
  OBVIOUS
<1>1. CASE \/ Launch \/ WarmUp \/ Batch \/ Open
           \/ WriteLine \/ Close \/ Die \/ Collect
  <2>1. phase # "reported" /\ phase' # "reported" /\ verdict' = verdict
    BY <1>1 DEF Launch, WarmUp, Batch, Open, WriteLine, Close, Die,
       Collect
  <2> QED
    BY <2>1 DEF VerdictInv
<1>2. ASSUME NEW d \in Docs, Send(d) \/ Answer(d)
      PROVE  VerdictInv'
  <2>1. phase # "reported" /\ phase' # "reported" /\ verdict' = verdict
    BY <1>2 DEF Send, Answer
  <2> QED
    BY <2>1 DEF VerdictInv
<1>3. ASSUME UNCHANGED <<campaign, rep, out, host>>
      PROVE  Passed' <=> Passed
  BY <1>3 DEF Passed, Passes, PassesPass, BlastPass, RepPasses, Second,
     Exists, Loads, Rows, Evidence
<1>4. CASE Report
  <2>1. phase' = "reported" /\ UNCHANGED <<campaign, rep, out, host>>
    BY <1>4 DEF Report
  <2>2. verdict' = "PASS" => Passed
    BY <1>4 DEF Report
  <2> QED
    BY <1>3, <2>1, <2>2 DEF VerdictInv
<1>5. CASE UNCHANGED vars
  <2>1. UNCHANGED <<campaign, rep, out, host, phase, verdict>>
    BY <1>5 DEF vars
  <2> QED
    BY <1>3, <2>1 DEF VerdictInv
<1> QED
  BY <1>1, <1>2, <1>4, <1>5 DEF Next, Driver

LEMMA InitIInv == Init => IInv
<1> SUFFICES ASSUME Init
             PROVE  IInv
  OBVIOUS
<1>1. 1 \in 1..REPS /\ 1 \in Reps
  BY CampaignAssumption DEF Reps
<1>2. PICK f \in {Missing, Old} : out = [r \in 1..REPS |-> f]
  BY DEF Init
<1>3. f \in FileSet /\ f.age \in {"none", "old"} /\ out[1] = f
  BY <1>1, <1>2, FileTypes
<1>4. TypeOK
  BY <1>1, <1>2, <1>3, FileTypes, EmptySeq DEF Init, TypeOK
<1>5. RecordsInv /\ StatusInv /\ VerdictInv
  BY <1>1 DEF Init, RecordsInv, StatusInv, VerdictInv
<1>6. OkIsOwn
  <2>1. DOMAIN records = {}
    BY DEF Init
  <2> QED
    BY <2>1 DEF OkIsOwn
<1>7. ASSUME NEW r \in 1..REPS
      PROVE  FileInv(r)
  <2>1. /\ status[r] = "none" /\ host[r] = Missing /\ out[r] = f
        /\ phase = "launch" /\ (campaign.driver = "lg" => f = Missing)
    BY <1>2, <1>3, <1>7 DEF Init
  <2> QED
    BY <1>3, <2>1, FileTypes DEF FileInv, WrittenInv, CopyInv
<1> QED
  BY <1>4, <1>5, <1>6, <1>7 DEF IInv

LEMMA NextIInv == IInv /\ [Next]_vars => IInv'
<1> SUFFICES ASSUME IInv, [Next]_vars
             PROVE  IInv'
  OBVIOUS
<1>1. /\ TypeOK /\ RecordsInv /\ StatusInv /\ VerdictInv /\ OkIsOwn
      /\ \A r \in 1..REPS : FileInv(r)
  BY DEF IInv
<1>2. TypeOK' /\ RecordsInv' /\ StatusInv' /\ VerdictInv' /\ OkIsOwn'
  BY <1>1, NextType, NextRecords, NextStatus, NextVerdict, NextOwn
<1>3. \A r \in 1..REPS : FileInv(r)'
  BY <1>1, <1>2, NextFiles
<1> QED
  BY <1>2, <1>3 DEF IInv

-----------------------------------------------------------------------------
(* The gate, the censuses and the comparisons, of any record files         *)

(* A census leaves one record of each document, ok or excused. *)
LEMMA CensusMeans ==
  ASSUME NEW S, NEW rows \in Seq(S), NEW offered, NEW expected, NEW empty,
         Census(rows, offered, expected, empty), NEW d \in expected
  PROVE  \E k \in DOMAIN rows :
           /\ \A j \in DOMAIN rows : rows[j].doc = d <=> j = k
           /\ \/ rows[k].ok
              \/ d \in empty /\ rows[k].reason = "no_documents"
<1>1. /\ Duplicates(rows) = {} /\ d \in DocsOf(rows)
      /\ \A k \in DOMAIN rows : rows[k].ok \/ Excused(rows[k], empty)
  BY DEF Census
<1>2. PICK k \in DOMAIN rows : \A j \in DOMAIN rows : rows[j].doc = d <=> j = k
  BY <1>1, NoDuplicates
<1>3. \/ rows[k].ok
      \/ d \in empty /\ rows[k].reason = "no_documents"
  BY <1>1, <1>2 DEF Excused
<1> QED
  BY <1>2, <1>3

(* The dictionary has an ok record for each of its documents, the last. *)
LEMMA LastOkMeans ==
  ASSUME NEW S, NEW rows \in Seq(S), NEW d \in OkDocs(rows)
  PROVE  \E k \in DOMAIN rows :
           /\ rows[k].doc = d /\ LastOk(rows)[d] = rows[k]
           /\ rows[k].ok /\ LastOkRecord(rows, k)
<1> DEFINE K == {k \in DOMAIN rows : rows[k].doc = d /\ rows[k].ok}
<1>1. K # {}
  BY DEF OkDocs
<1>2. Len(rows) \in Nat /\ K \in SUBSET (1..Len(rows))
  BY LenProperties
<1>3. Max(K) \in K /\ \A j \in K : j <= Max(K)
  BY <1>1, <1>2, MaxIn
<1>4. LastOk(rows)[d] = rows[Max(K)]
  BY DEF LastOk
<1>5. LastOkRecord(rows, Max(K))
  BY <1>3 DEF LastOkRecord
<1> QED
  BY <1>3, <1>4, <1>5

(* Two files that agree have, for each document that is ok in the first,   *)
(* an ok record in both, and with the same hashes. *)
LEMMA DeterminismMeans ==
  ASSUME NEW S, NEW a \in Seq(S), NEW b \in Seq(S), Determinism(a, b),
         NEW d \in OkDocs(a)
  PROVE  \E j \in DOMAIN a, k \in DOMAIN b :
           /\ a[j].doc = d /\ a[j].ok /\ b[k].doc = d /\ b[k].ok
           /\ a[j].hashes = b[k].hashes
<1>1. DOMAIN LastOk(a) = OkDocs(a) /\ DOMAIN LastOk(b) = OkDocs(b)
  BY DEF LastOk
<1>2. d \in OkDocs(b) /\ LastOk(a)[d].hashes = LastOk(b)[d].hashes
  BY <1>1 DEF Determinism
<1>3. PICK j \in DOMAIN a : a[j].doc = d /\ a[j].ok /\ LastOk(a)[d] = a[j]
  BY LastOkMeans
<1>4. PICK k \in DOMAIN b : b[k].doc = d /\ b[k].ok /\ LastOk(b)[d] = b[k]
  BY <1>2, LastOkMeans
<1> QED
  BY <1>2, <1>3, <1>4

(* As many documents as records: none has two. *)
LEMMA CountedOnce ==
  ASSUME NEW S, NEW rows \in Seq(S)
  PROVE  /\ IsFiniteSet(DocsOf(rows))
         /\ Cardinality(DocsOf(rows)) = Len(rows) <=> Duplicates(rows) = {}
         /\ Duplicates(rows) = {} => \A k \in DOMAIN rows : OnlyRecord(rows, k)
<1> DEFINE D == DocsOf(rows)
           n == Len(rows)
           f == [k \in 1..n |-> rows[k].doc]
<1>1. n \in Nat /\ DOMAIN rows = 1..n
  BY LenProperties
<1>2. IsFiniteSet(1..n) /\ Cardinality(1..n) = n
  BY <1>1, FS_Interval
<1>3. f \in Surjection(1..n, D)
  <2>1. f \in [1..n -> D] /\ \A d \in D : \E k \in 1..n : f[k] = d
    BY <1>1 DEF DocsOf
  <2> QED
    BY <2>1 DEF Surjection
<1>4. IsFiniteSet(D)
  BY <1>2, <1>3, FS_Surjection
<1>5. Duplicates(rows) = {} => \A k \in DOMAIN rows : OnlyRecord(rows, k)
  <2> SUFFICES ASSUME Duplicates(rows) = {}, NEW k \in DOMAIN rows
               PROVE  OnlyRecord(rows, k)
    OBVIOUS
  <2>1. rows[k].doc \in D
    BY DEF DocsOf
  <2>2. PICK m \in DOMAIN rows : \A j \in DOMAIN rows :
                                   rows[j].doc = rows[k].doc <=> j = m
    BY <2>1, NoDuplicates
  <2> QED
    BY <2>2 DEF OnlyRecord
<1>6. Duplicates(rows) = {} => Cardinality(D) = n
  <2> SUFFICES ASSUME \A k \in DOMAIN rows : OnlyRecord(rows, k)
               PROVE  Cardinality(D) = n
    BY <1>5
  <2>1. f \in Injection(1..n, D)
    BY <1>1, <1>3 DEF Injection, IsInjective, Surjection, OnlyRecord
  <2>2. ExistsBijection(1..n, D)
    BY <1>3, <2>1 DEF ExistsBijection, Bijection
  <2> QED
    BY <1>1, <2>2, FS_CountingElements
<1>7. Cardinality(D) = n => Duplicates(rows) = {}
  <2> SUFFICES ASSUME Cardinality(D) = n
               PROVE  Duplicates(rows) = {}
    OBVIOUS
  <2>1. f \in Injection(1..n, D)
    BY <1>2, <1>3, FS_SurjSameCardinalityImpliesInj
  <2>2. \A j, k \in DOMAIN rows : rows[j].doc = rows[k].doc => j = k
    BY <1>1, <2>1 DEF Injection, IsInjective
  <2> SUFFICES ASSUME NEW d \in D
               PROVE  ~(Cardinality({k \in DOMAIN rows : rows[k].doc = d}) > 1)
    BY DEF Duplicates
  <2>3. PICK k \in DOMAIN rows : rows[k].doc = d
    BY DEF DocsOf
  <2>4. {j \in DOMAIN rows : rows[j].doc = d} = {k}
    BY <2>2, <2>3
  <2>5. Cardinality({j \in DOMAIN rows : rows[j].doc = d}) = 1
    BY <2>4, FS_Singleton
  <2> QED
    BY <2>5
<1> QED
  BY <1>4, <1>5, <1>6, <1>7

(* "every check FAILS CLOSED ... absence of evidence is absence of         *)
(* correctness" (m0_correctness.py:3-5): for any two files and any         *)
(* manifest, a gate that passes proves every document twice or says that   *)
(* it was expected to be empty. *)
THEOREM GatePassProves ==
  ASSUME NEW S, Loaded(S), NEW a \in Seq(S), NEW b \in Seq(S),
         NEW expected, NEW empty
  PROVE  GateProves(a, b, expected, empty)
<1> SUFFICES ASSUME Gate(a, b, Cardinality(expected), expected, empty)
             PROVE  /\ DocsOf(a) = expected /\ OkDocs(b) = OkDocs(a)
                    /\ \A d \in expected : \E k \in DOMAIN a :
                         /\ a[k].doc = d /\ OnlyRecord(a, k)
                         /\ ProvenTwice(a[k], b, empty)
  BY DEF GateProves
<1>1. /\ Census(a, Cardinality(expected), expected, empty)
      /\ Structure(a, empty) /\ Determinism(a, b)
  BY DEF Gate
<1>2. DocsOf(a) = expected
  BY <1>1 DEF Census
<1>3. DOMAIN LastOk(a) = OkDocs(a) /\ DOMAIN LastOk(b) = OkDocs(b)
  BY DEF LastOk
<1>4. /\ OkDocs(b) = OkDocs(a)
      /\ \A d \in OkDocs(a) : LastOk(a)[d].hashes = LastOk(b)[d].hashes
  BY <1>1, <1>3 DEF Determinism
<1>5. ASSUME NEW d \in expected
      PROVE  \E k \in DOMAIN a : /\ a[k].doc = d /\ OnlyRecord(a, k)
                                 /\ ProvenTwice(a[k], b, empty)
  <2>1. PICK k \in DOMAIN a : /\ \A j \in DOMAIN a : a[j].doc = d <=> j = k
                              /\ \/ a[k].ok
                                 \/ d \in empty /\ a[k].reason = "no_documents"
    BY <1>1, CensusMeans
  <2>2. a[k].doc = d /\ OnlyRecord(a, k) /\ a[k] \in S
    BY <2>1, ElementOfSeq, LenProperties DEF OnlyRecord
  <2>3. ASSUME a[k].ok
        PROVE  ProvenTwice(a[k], b, empty)
    <3>1. d \in OkDocs(a) /\ d \in OkDocs(b)
      BY <1>4, <2>2, <2>3 DEF OkDocs
    <3>2. LastOk(a)[d] = a[k]
      BY <2>1, <3>1, LastOkMeans
    <3>3. PICK m \in DOMAIN b : /\ b[m].doc = d /\ LastOk(b)[d] = b[m]
                                /\ LastOkRecord(b, m)
      BY <3>1, LastOkMeans
    <3>4. b[m].hashes = a[k].hashes
      BY <1>4, <3>1, <3>2, <3>3
    <3>5. ~Malformed(a[k], empty)
      BY <1>1, <2>3 DEF Structure
    <3>6. /\ a[k].flags
          /\ a[k].doc \in empty \/ (Len(a[k].hashes) = a[k].chunks
                                    /\ a[k].chunks > 0)
      BY <2>2, <3>5 DEF Malformed, Loaded
    <3> QED
      BY <2>2, <2>3, <3>3, <3>4, <3>6 DEF ProvenTwice
  <2>4. ASSUME ~a[k].ok
        PROVE  ProvenTwice(a[k], b, empty)
    <3>1. d \notin OkDocs(b)
      BY <1>4, <2>1, <2>4 DEF OkDocs
    <3> QED
      BY <2>1, <2>2, <2>4, <3>1 DEF ProvenTwice
  <2> QED
    BY <2>2, <2>3, <2>4
<1> QED
  BY <1>2, <1>4, <1>5

(* And it refuses no pass that is perfect and comes out the same again. *)
THEOREM GateAdmitsPerfect ==
  ASSUME NEW S, Loaded(S), NEW rows \in Seq(S), NEW expected, NEW empty
  PROVE  GateAdmits(rows, expected, empty)
<1> SUFFICES ASSUME expected # {}, DocsOf(rows) = expected,
                    Len(rows) = Cardinality(expected),
                    \A k \in DOMAIN rows : Perfect(rows[k])
             PROVE  Gate(rows, rows, Cardinality(expected), expected, empty)
  BY DEF GateAdmits
<1>1. \A k \in DOMAIN rows : rows[k] \in S
  BY ElementOfSeq, LenProperties
<1>2. Census(rows, Cardinality(expected), expected, empty)
  <2>1. Duplicates(rows) = {}
    BY CountedOnce
  <2>2. \A k \in DOMAIN rows : rows[k].ok
    BY DEF Perfect
  <2> QED
    BY <2>1, <2>2 DEF Census
<1>3. Structure(rows, empty)
  BY <1>1 DEF Structure, Malformed, Perfect, Loaded
<1>4. Determinism(rows, rows)
  <2>1. DOMAIN LastOk(rows) = OkDocs(rows)
    BY DEF LastOk
  <2>2. OkDocs(rows) = DocsOf(rows)
    BY DEF OkDocs, DocsOf, Perfect
  <2>3. ASSUME NEW d \in OkDocs(rows)
        PROVE  LastOk(rows)[d].hashes # NoHashes
    <3>1. PICK k \in DOMAIN rows : LastOk(rows)[d] = rows[k]
      BY LastOkMeans
    <3> QED
      BY <3>1 DEF Perfect
  <2> QED
    BY <2>1, <2>2, <2>3 DEF Determinism
<1>5. rows # <<>>
  BY DEF DocsOf
<1> QED
  BY <1>2, <1>3, <1>4, <1>5 DEF Gate

(* The older census of pdf500/census.py reconciles what m0 passes, and m0  *)
(* passes what that one reconciles unless a document is missing or failed. *)
THEOREM CensusesAgreeAlways ==
  ASSUME NEW S, Loaded(S), NEW rows \in Seq(S), NEW expected, NEW empty,
         IsFiniteSet(expected)
  PROVE  CensusesAgree(rows, expected, empty)
<1> DEFINE n == Cardinality(expected)
<1>1. ASSUME Census(rows, n, expected, empty)
      PROVE  ShotCensus(rows, n)
  BY <1>1, CountedOnce DEF Census, ShotCensus
<1>2. ASSUME ShotCensus(rows, n), DocsOf(rows) \subseteq expected,
             OkDocs(rows) = DocsOf(rows)
      PROVE  Census(rows, n, expected, empty)
  <2>1. Len(rows) = n /\ Cardinality(DocsOf(rows)) = n
    BY <1>2 DEF ShotCensus
  <2>2. DocsOf(rows) = expected
    BY <1>2, <2>1, FS_Subset
  <2>3. Duplicates(rows) = {} /\ \A k \in DOMAIN rows : OnlyRecord(rows, k)
    BY <2>1, CountedOnce
  <2>4. ASSUME NEW k \in DOMAIN rows
        PROVE  rows[k].ok
    <3>1. rows[k].doc \in OkDocs(rows)
      BY <1>2 DEF DocsOf
    <3>2. PICK j \in DOMAIN rows : rows[j].ok /\ rows[j].doc = rows[k].doc
      BY <3>1 DEF OkDocs
    <3> QED
      BY <2>3, <3>2 DEF OnlyRecord
  <2> QED
    BY <2>1, <2>2, <2>3, <2>4 DEF Census
<1> QED
  BY <1>1, <1>2 DEF CensusesAgree

(* load() of compare_summarize.py has a record for every document. *)
LEMMA LastRecordMeans ==
  ASSUME NEW S, NEW rows \in Seq(S), NEW d \in DocsOf(rows)
  PROVE  \E k \in DOMAIN rows : LastRecord(rows)[d] = rows[k]
<1> DEFINE K == {k \in DOMAIN rows : rows[k].doc = d}
<1>1. K # {}
  BY DEF DocsOf
<1>2. Len(rows) \in Nat /\ K \in SUBSET (1..Len(rows))
  BY LenProperties
<1>3. Max(K) \in K
  BY <1>1, <1>2, MaxIn
<1>4. LastRecord(rows)[d] = rows[Max(K)]
  BY DEF LastRecord
<1> QED
  BY <1>3, <1>4

LEMMA FailuresMeans ==
  ASSUME NEW a, NEW b
  PROVE  {f[2] : f \in Failures(a, b)} =
           {d \in DocsOf(a) \cup DocsOf(b) :
              \/ d \in DocsOf(a) => ~LastRecord(a)[d].ok
              \/ d \in DocsOf(b) => ~LastRecord(b)[d].ok}
<1> DEFINE D == DocsOf(a) \cup DocsOf(b)
           arm == <<LastRecord(a), LastRecord(b)>>
           F == {f \in {1, 2} \X D : f[2] \in DOMAIN arm[f[1]] => ~arm[f[1]][f[2]].ok}
           failed == {d \in D : \/ d \in DocsOf(a) => ~LastRecord(a)[d].ok
                                \/ d \in DocsOf(b) => ~LastRecord(b)[d].ok}
<1>1. Failures(a, b) = F
  BY DEF Failures
<1>2. /\ DOMAIN LastRecord(a) = DocsOf(a) /\ DOMAIN LastRecord(b) = DocsOf(b)
      /\ arm[1] = LastRecord(a) /\ arm[2] = LastRecord(b)
  BY DEF LastRecord
<1>3. ASSUME NEW f \in F
      PROVE  f[2] \in failed
  <2>1. f[1] \in {1, 2} /\ f[2] \in D /\ (f[2] \in DOMAIN arm[f[1]] => ~arm[f[1]][f[2]].ok)
    BY <1>3
  <2> HIDE DEF arm
  <2>2. CASE f[1] = 1
    BY <1>2, <2>1, <2>2
  <2>3. CASE f[1] = 2
    BY <1>2, <2>1, <2>3
  <2> QED
    BY <2>1, <2>2, <2>3
<1>4. ASSUME NEW d \in failed
      PROVE  \E f \in F : f[2] = d
  <2>1. d \in D
    BY <1>4
  <2>2. CASE d \in DocsOf(a) => ~LastRecord(a)[d].ok
    <3>1. <<1, d>> \in F
      BY <1>2, <2>1, <2>2
    <3> QED
      BY <3>1
  <2>3. CASE d \in DocsOf(b) => ~LastRecord(b)[d].ok
    <3>1. <<2, d>> \in F
      BY <1>2, <2>1, <2>3
    <3> QED
      BY <3>1
  <2> QED
    BY <1>4, <2>2, <2>3
<1> QED
  BY <1>1, <1>3, <1>4

(* Determinism is byte parity over the same documents.  In the summary of  *)
(* compare_summarize.py every document is ok in both arms or listed as a   *)
(* failure, and determinism of two clean passes leaves no failure. *)
THEOREM ArmsAgreeAlways ==
  ASSUME NEW S, Loaded(S), NEW a \in Seq(S), NEW b \in Seq(S)
  PROVE  ArmsAgree(a, b)
<1> DEFINE failed == {f[2] : f \in Failures(a, b)}
<1>1. failed = {d \in DocsOf(a) \cup DocsOf(b) :
                  \/ d \in DocsOf(a) => ~LastRecord(a)[d].ok
                  \/ d \in DocsOf(b) => ~LastRecord(b)[d].ok}
  BY FailuresMeans
<1>2. BothOk(a, b) = {d \in DocsOf(a) \cap DocsOf(b) :
                        LastRecord(a)[d].ok /\ LastRecord(b)[d].ok}
  BY DEF BothOk, LastRecord
<1>3. Determinism(a, b) <=> ByteParity(a, b) /\ OkDocs(a) = OkDocs(b)
  <2>1. DOMAIN LastOk(a) = OkDocs(a) /\ DOMAIN LastOk(b) = OkDocs(b)
    BY DEF LastOk
  <2> QED
    BY <2>1 DEF Determinism, ByteParity
<1>4. /\ BothOk(a, b) \cup failed = DocsOf(a) \cup DocsOf(b)
      /\ BothOk(a, b) \cap failed = {}
  <2> HIDE DEF failed
  <2> QED
    BY <1>1, <1>2
<1>5. ASSUME Determinism(a, b),
             \A rows \in {a, b} : \A k \in DOMAIN rows : rows[k].ok
      PROVE  failed = {}
  <2>1. OkDocs(a) = OkDocs(b)
    BY <1>3, <1>5
  <2>2. OkDocs(a) = DocsOf(a) /\ OkDocs(b) = DocsOf(b)
    BY <1>5 DEF OkDocs, DocsOf
  <2>3. \A d \in DocsOf(a) : LastRecord(a)[d].ok
    BY <1>5, LastRecordMeans
  <2>4. \A d \in DocsOf(b) : LastRecord(b)[d].ok
    BY <1>5, LastRecordMeans
  <2> HIDE DEF failed
  <2> QED
    BY <1>1, <2>1, <2>2, <2>3, <2>4
<1> QED
  BY <1>3, <1>4, <1>5 DEF ArmsAgree

-----------------------------------------------------------------------------
(* The slice of the resource sampler                                       *)

LEMMA TimesMonotonic ==
  ASSUME NEW n \in Nat, NEW x \in Int, NEW y \in Int, x <= y
  PROVE  n * x <= n * y
OBVIOUS

LEMMA SampledFacts ==
  ASSUME NEW lines \in Seq(SampleSet), NEW cpus, Sampled(lines, cpus)
  PROVE  /\ Len(lines) \in Nat /\ DOMAIN lines = 1..Len(lines)
         /\ \A k \in DOMAIN lines : lines[k].ts \in Nat /\ lines[k].cpu \in Nat
         /\ \A j, k \in DOMAIN lines : j <= k =>
              lines[j].ts <= lines[k].ts /\ lines[j].cpu <= lines[k].cpu
         /\ \A j, k \in DOMAIN lines :
              lines[j].ts < lines[k].ts => j < k
<1>1. /\ Len(lines) \in Nat /\ DOMAIN lines = 1..Len(lines)
      /\ \A k \in DOMAIN lines : lines[k].ts \in Nat /\ lines[k].cpu \in Nat
  <2>1. /\ Len(lines) \in Nat /\ DOMAIN lines = 1..Len(lines)
        /\ \A k \in DOMAIN lines : lines[k] \in SampleSet
    BY LenProperties, ElementOfSeq
  <2> QED
    BY <2>1 DEF SampleSet
<1>2. ASSUME NEW j \in DOMAIN lines, NEW k \in DOMAIN lines, j < k
      PROVE  lines[j].ts < lines[k].ts /\ lines[j].cpu <= lines[k].cpu
  BY <1>1, <1>2 DEF Sampled
<1>3. \A j, k \in DOMAIN lines : j < k \/ j = k \/ k < j
  BY <1>1
<1>4. ASSUME NEW j \in DOMAIN lines, NEW k \in DOMAIN lines, j <= k
      PROVE  lines[j].ts <= lines[k].ts /\ lines[j].cpu <= lines[k].cpu
  <2>1. CASE j < k
    BY <1>1, <1>2, <2>1
  <2>2. CASE j = k
    BY <1>1, <2>2
  <2> QED
    BY <1>1, <1>4, <2>1, <2>2
<1>5. ASSUME NEW j \in DOMAIN lines, NEW k \in DOMAIN lines,
             lines[j].ts < lines[k].ts
      PROVE  j < k
  <2>1. j # k
    BY <1>1, <1>5
  <2>2. ASSUME k < j
        PROVE  FALSE
    <3>1. lines[k].ts < lines[j].ts
      BY <1>2, <2>2
    <3> QED
      BY <1>1, <1>5, <3>1
  <2> QED
    BY <1>3, <2>1, <2>2
<1> QED
  BY <1>1, <1>4, <1>5

(* A slice is between two samples, the first of them the last one before   *)
(* the window when there is any. *)
LEMMA SliceEnds ==
  ASSUME NEW lines \in Seq(SampleSet), NEW cpus,
         Sampled(lines, cpus), NEW t0 \in Int, NEW t1 \in Int,
         Slice(lines, t0, t1) # <<>>
  PROVE  \E j, k \in DOMAIN lines :
           /\ j < k /\ lines[k].ts <= t1 /\ Len(lines) >= 3
           /\ Slice(lines, t0, t1) = <<lines[j], lines[k]>>
           /\ \A m \in DOMAIN lines :
                lines[m].ts <= t0 => lines[m].ts <= lines[j].ts
<1> DEFINE before == {k \in DOMAIN lines : lines[k].ts <= t0}
           inside == {k \in DOMAIN lines : t0 < lines[k].ts /\ lines[k].ts <= t1}
           anchor == IF before # {} THEN Max(before) ELSE Min(inside)
<1>1. /\ Len(lines) \in Nat /\ DOMAIN lines = 1..Len(lines)
      /\ \A k \in DOMAIN lines : lines[k].ts \in Nat
  BY SampledFacts
<1>2. /\ Len(lines) >= 3 /\ inside # {} /\ anchor # Max(inside)
      /\ Slice(lines, t0, t1) = <<lines[anchor], lines[Max(inside)]>>
  <2>1. ~(Len(lines) < 3 \/ inside = {} \/ anchor = Max(inside))
    BY DEF Slice
  <2>2. Slice(lines, t0, t1) = <<lines[anchor], lines[Max(inside)]>>
    BY <2>1 DEF Slice
  <2> HIDE DEF inside, anchor
  <2> QED
    BY <1>1, <2>1, <2>2
<1>3. Max(inside) \in inside /\ \A k \in inside : k <= Max(inside)
  BY <1>1, <1>2, MaxIn
<1>4. PICK last \in inside : last = Max(inside) /\ \A k \in inside : k <= last
  BY <1>3
<1>5. CASE before # {}
  <2>1. Max(before) \in before /\ \A m \in before : m <= Max(before)
    BY <1>1, <1>5, MaxIn
  <2>2. PICK j \in before : j = Max(before) /\ \A m \in before : m <= j
    BY <2>1
  <2>3. anchor = j
    BY <1>5, <2>2
  <2>4. lines[j].ts < lines[last].ts
    BY <1>1, <1>4
  <2>5. j < last
    BY <2>4, SampledFacts
  <2>6. \A m \in DOMAIN lines : lines[m].ts <= t0 => lines[m].ts <= lines[j].ts
    BY <2>2, SampledFacts
  <2> QED
    BY <1>2, <1>4, <2>2, <2>3, <2>5, <2>6
<1>6. CASE before = {}
  <2>1. inside \in SUBSET Nat
    BY <1>1
  <2>2. PICK j \in inside : \A m \in inside : j <= m
    BY <1>2, <2>1, LeastOf
  <2>3. \A x \in inside : (\A m \in inside : x <= m) => x = j
    BY <2>1, <2>2
  <2>4. Min(inside) = j
    BY <2>2, <2>3 DEF Min
  <2>5. anchor = j
    BY <1>6, <2>4
  <2>6. j <= last /\ j # last /\ j \in Nat /\ last \in Nat
    BY <1>2, <1>4, <2>1, <2>2, <2>5
  <2>7. j < last
    BY <2>6
  <2> QED
    BY <1>2, <1>4, <1>6, <2>5, <2>7
<1> QED
  BY <1>5, <1>6

(* "above that means cost was attributed outside the window"               *)
(* (m7_resources.py:110-113): of any stream and any window, the slice      *)
(* starts at the last sample before it or within it, and only when it      *)
(* starts before can the utilisation come out above 1.0. *)
THEOREM SliceFitsAlways ==
  ASSUME NEW lines \in Seq(SampleSet), NEW cpus \in Nat,
         Sampled(lines, cpus), NEW t0 \in Int, NEW t1 \in Int
  PROVE  SliceFits(lines, t0, t1, cpus)
<1> SUFFICES ASSUME Slice(lines, t0, t1) # <<>>, NEW s, s = Slice(lines, t0, t1)
             PROVE  /\ s[1].ts < s[2].ts /\ s[2].ts <= t1
                    /\ \A m \in DOMAIN lines :
                         lines[m].ts <= t0 => lines[m].ts <= s[1].ts
                    /\ CpuSeconds(s) <= CpuSeconds(WholeStream(lines))
                    /\ ~UtilizationValid(s, t1 - t0, cpus) => s[1].ts < t0
  BY DEF SliceFits
<1>1. PICK j \in DOMAIN lines, k \in DOMAIN lines :
        /\ j < k /\ lines[k].ts <= t1 /\ Len(lines) >= 3
        /\ s = <<lines[j], lines[k]>>
        /\ \A m \in DOMAIN lines : lines[m].ts <= t0 => lines[m].ts <= lines[j].ts
  BY SliceEnds
<1> DEFINE n == Len(lines)
<1>2. /\ n \in Nat /\ DOMAIN lines = 1..n /\ 1 \in 1..n /\ n \in 1..n
      /\ \A m \in 1..n : lines[m].ts \in Nat /\ lines[m].cpu \in Nat
  BY <1>1, SampledFacts
<1>3. /\ lines[j].ts < lines[k].ts
      /\ lines[k].cpu - lines[j].cpu \in 0..(cpus * (lines[k].ts - lines[j].ts))
  BY <1>1 DEF Sampled
<1>4. CpuSeconds(s) <= CpuSeconds(WholeStream(lines))
  <2>1. lines[1].cpu <= lines[j].cpu /\ lines[k].cpu <= lines[n].cpu
    BY <1>2, SampledFacts
  <2>2. WholeStream(lines) = <<lines[1], lines[n]>>
    BY <1>1, <1>2 DEF WholeStream
  <2>3. /\ CpuSeconds(s) = lines[k].cpu - lines[j].cpu
        /\ CpuSeconds(WholeStream(lines)) = lines[n].cpu - lines[1].cpu
    BY <1>1, <2>2 DEF CpuSeconds
  <2>4. /\ lines[1].cpu \in Nat /\ lines[n].cpu \in Nat
        /\ lines[j].cpu \in Nat /\ lines[k].cpu \in Nat
    BY <1>2
  <2> QED
    BY <2>1, <2>3, <2>4
<1>5. ASSUME ~(s[1].ts < t0)
      PROVE  UtilizationValid(s, t1 - t0, cpus)
  <2> DEFINE x == lines[k].ts - lines[j].ts
             y == t1 - t0
             cost == lines[k].cpu - lines[j].cpu
  <2>1. x \in Int /\ y \in Int /\ x <= y /\ cost \in Int
    <3>1. /\ lines[j].ts \in Nat /\ lines[k].ts \in Nat
          /\ lines[j].cpu \in Nat /\ lines[k].cpu \in Nat
      BY <1>2
    <3>2. t0 <= lines[j].ts /\ lines[k].ts <= t1
      BY <1>1, <1>5, <3>1
    <3>3. x \in Int /\ y \in Int /\ cost \in Int
      BY <3>1
    <3>4. x <= y
      BY <3>1, <3>2
    <3> QED
      BY <3>3, <3>4
  <2>2. cost \in 0..(cpus * x)
    BY <1>3
  <2> HIDE DEF x, y, cost
  <2>3. cpus * x <= cpus * y
    BY <2>1, TimesMonotonic
  <2>4. cpus * x \in Int /\ cpus * y \in Int /\ cpus * y = y * cpus
    BY <2>1
  <2>5. cost <= y * cpus
    BY <2>1, <2>2, <2>3, <2>4
  <2> QED
    BY <1>1, <2>5 DEF UtilizationValid, CpuSeconds, cost, y
<1> QED
  BY <1>1, <1>3, <1>4, <1>5

-----------------------------------------------------------------------------
(* The theorems about campaigns                                            *)

(* What the report reads of a repetition. *)
LEMMA EvidenceFacts ==
  ASSUME IInv, phase = "reported", NEW r \in 1..REPS
  PROVE  /\ Evidence(r) \in FileSet
         /\ status[r] = "ended" =>
              \/ Evidence(r).age = "new" /\ OneEach(Evidence(r).rows, Docs)
              \/ campaign.script = "rr_run" /\ Evidence(r).age = "none"
         /\ status[r] = "none" /\ campaign.driver # "native"
              => Evidence(r).age = "none"
         /\ Evidence(r).age = "old" => /\ campaign.driver = "native"
                                       /\ status[r] # "ended"
         /\ status[r] # "ended" /\ Evidence(r).age \in {"new", "torn"} =>
              /\ status[r] = "dead"
              /\ campaign.driver = "rr" => campaign.script = "rr_run"
              /\ campaign.driver = "native" => Duplicates(Evidence(r).rows) = {}
              /\ campaign.driver # "native" => FirstOnes(Evidence(r).rows)
<1>1. /\ WrittenInv(r) /\ CopyInv(r) /\ campaign.driver \in {"lg", "rr", "native"}
      /\ campaign.script = "native" <=> campaign.driver = "native"
      /\ campaign.script = "rr_run" => campaign.driver = "rr"
      /\ out[r] \in FileSet /\ host[r] \in FileSet
      /\ status[r] \in {"none", "ended", "dead"}
  BY ScriptFacts DEF IInv, TypeOK, FileInv
<1>2. /\ out[r].age \in {"none", "old", "new", "torn"}
      /\ Missing.age = "none" /\ Missing \in FileSet
  BY <1>1, FileTypes DEF FileSet
<1>3. CASE campaign.driver = "rr"
  <2>1. /\ Evidence(r) = host[r] /\ host[r] \in {Missing, out[r]}
        /\ host[r] # Missing => /\ status[r] # "none"
                                /\ status[r] = "ended" \/ campaign.script = "rr_run"
        /\ status[r] = "ended" /\ campaign.script # "rr_run" => host[r] = out[r]
    BY <1>1, <1>3 DEF CopyInv, Evidence
  <2>2. campaign.script = "rr_run" => ~Passes
    BY DEF Passes
  <2>3. host[r] = out[r] /\ host[r] # Missing => out[r].age # "old"
    BY <1>1, <2>1, <2>2 DEF WrittenInv, CopyInv
  <2>4. CASE host[r] = Missing
    BY <1>1, <1>2, <1>3, <2>1, <2>4 DEF WrittenInv
  <2>5. CASE host[r] = out[r] /\ host[r] # Missing
    BY <1>1, <1>2, <1>3, <2>1, <2>3, <2>5 DEF WrittenInv
  <2> QED
    BY <2>1, <2>4, <2>5
<1>4. CASE campaign.driver = "lg"
  <2>1. Evidence(r) = out[r] /\ out[r].age # "old"
    BY <1>1, <1>4 DEF Evidence, CopyInv
  <2> QED
    BY <1>1, <1>2, <1>4, <2>1 DEF WrittenInv
<1>5. CASE campaign.driver = "native"
  <2>1. Evidence(r) = out[r]
    BY <1>5 DEF Evidence
  <2> QED
    BY <1>1, <1>2, <1>5, <2>1 DEF WrittenInv
<1> QED
  BY <1>1, <1>3, <1>4, <1>5

(* Whatever passes, the first repetition passed the census, and it agrees  *)
(* with the second of the report. *)
LEMMA PassedFacts ==
  ASSUME IInv, Passed
  PROVE  /\ Census(Rows(1), Len(Corpus), Docs, ExpectedEmpty)
         /\ \A r \in Compared : r = 1 \/ Determinism(Rows(1), Rows(r))
         /\ 2 \in 1..REPS /\ Compared \subseteq 1..REPS
         /\ ~Passes => /\ \E r \in Reps : r # 1
                       /\ \A r \in 1..rep : Exists(r) =>
                            Census(Rows(r), Len(Corpus), Docs, ExpectedEmpty)
<1>0. /\ rep \in Nat /\ 1 \in 1..rep /\ rep \in Reps /\ rep <= REPS
      /\ REPS \in Nat /\ REPS >= 2
  <2>1. TypeOK
    BY DEF IInv
  <2>2. rep \in 1..REPS /\ rep \in Reps /\ REPS \in Nat /\ REPS >= 2
    BY <2>1, ScriptFacts, CampaignAssumption DEF TypeOK
  <2> QED
    BY <2>2
<1>1. CASE Passes
  BY <1>0, <1>1 DEF Passed, PassesPass, Gate, Compared
<1>2. CASE ~Passes
  <2>1. BlastPass(1..rep)
    BY <1>2 DEF Passed
  <2>2. Compared = {1, Second} /\ Second \in 1..REPS
    BY <1>0, <1>2 DEF Compared, Second
  <2>3. \A r \in 1..rep : Exists(r) =>
          Census(Rows(r), Len(Corpus), Docs, ExpectedEmpty)
    BY <2>1 DEF BlastPass, RepPasses
  <2>4. \E r \in Reps : r # 1
    <3>1. rep # 1
      <4> SUFFICES ASSUME rep = 1
                   PROVE  FALSE
        OBVIOUS
      <4> DEFINE E == {r \in 1..rep : Exists(r)}
      <4>1. E \in SUBSET {1}
        <5>1. 1..rep = {1}
          BY <1>0
        <5> QED
          BY <5>1
      <4>2. Cardinality(E) >= 2
        BY <2>1 DEF BlastPass
      <4> HIDE DEF E
      <4>3. IsFiniteSet({1}) /\ Cardinality({1}) = 1
        BY FS_Singleton
      <4>4. IsFiniteSet(E) /\ Cardinality(E) <= Cardinality({1})
        BY <4>1, <4>3, FS_Subset
      <4>5. Cardinality(E) \in Nat
        BY <4>4, FS_CardinalityType
      <4> QED
        BY <4>2, <4>3, <4>4, <4>5
    <3> QED
      BY <1>0, <3>1
  <2> QED
    BY <1>0, <1>2, <2>1, <2>2, <2>3, <2>4 DEF BlastPass
<1> QED
  BY <1>1, <1>2

(* The invariant holds of every campaign, however its drivers end.         *)
THEOREM CampaignInvariant == Spec => []IInv
<1> QED
  BY InitIInv, NextIInv, PTL DEF Spec

(* "position-based zip silently mis-credits work if the engine reorders"   *)
(* (rr_smoke_driver.py:87-89): whatever comes back in which order, a       *)
(* record is ok only with a content served for its own document.           *)
THEOREM CampaignOwn == Spec => []OkIsOwn
<1>1. IInv => OkIsOwn
  BY DEF IInv
<1> QED
  BY <1>1, CampaignInvariant, PTL

(* What a report judges is complete where the driver ended, and written    *)
(* by this campaign but in a native one (rr_run.sh:80-82, 101); of a       *)
(* driver that died it is what had reached the file. *)
THEOREM CampaignEvidence == Spec => []EvidenceOfThisRun
<1>1. IInv => EvidenceOfThisRun
  <2> SUFFICES ASSUME IInv, verdict # "none", NEW r \in Reps
               PROVE  /\ Evidence(r).age = "old" => campaign.driver = "native"
                                                    /\ status[r] # "ended"
                      /\ status[r] = "ended" =>
                           \/ Len(Rows(r)) = Len(Corpus) /\ DocsOf(Rows(r)) = Docs
                           \/ campaign.script = "rr_run" /\ ~Exists(r)
                      /\ status[r] # "ended" /\ Evidence(r).age \in {"new", "torn"} =>
                           /\ status[r] = "dead"
                           /\ campaign.driver = "rr" => campaign.script = "rr_run"
                           /\ IF campaign.driver = "native"
                              THEN Duplicates(Rows(r)) = {}
                              ELSE FirstOnes(Rows(r))
    BY DEF EvidenceOfThisRun
  <2>1. phase = "reported" /\ r \in 1..REPS
    BY ScriptFacts DEF IInv, VerdictInv
  <2> QED
    BY <2>1, EvidenceFacts, CorpusFacts DEF Rows, Exists, OneEach
<1> QED
  BY <1>1, CampaignInvariant, PTL

(* "every offered doc must come back as exactly one record, and every      *)
(* failure must be explicit and expected" (m0_correctness.py:68-70): what  *)
(* a PASS proves, of every campaign. *)
THEOREM CampaignPass == Spec => []PassMeansProven
<1>1. ASSUME IInv, verdict = "PASS", NEW d \in Docs \ ExpectedEmpty
      PROVE  \E c \in Contents : \A r \in Compared :
               \E k \in DOMAIN Rows(r) : Rows(r)[k].doc = d /\ Rows(r)[k].ok
                                         /\ Rows(r)[k].hashes = <<c>>
  <2>1. phase = "reported" /\ 1 \in 1..REPS /\ Passed
    BY <1>1, ScriptFacts DEF IInv, VerdictInv
  <2>2. \A r \in 1..REPS : Rows(r) \in Seq(RecordSet)
    BY <1>1, <2>1, EvidenceFacts DEF Rows, FileSet
  <2>3. /\ Census(Rows(1), Len(Corpus), Docs, ExpectedEmpty)
        /\ Compared \subseteq 1..REPS
        /\ \A r \in Compared : r = 1 \/ Determinism(Rows(1), Rows(r))
    BY <1>1, <2>1, PassedFacts
  <2>4. PICK k \in DOMAIN Rows(1) : Rows(1)[k].doc = d /\ Rows(1)[k].ok
    BY <1>1, <2>1, <2>2, <2>3, CensusMeans
  <2>5. d \in OkDocs(Rows(1)) /\ Rows(1) \in Seq(RecordSet)
    BY <2>1, <2>2, <2>4 DEF OkDocs
  <2>6. PICK second \in 1..REPS : Compared = {1, second}
    BY <2>3 DEF Compared
  <2>7. CASE second = 1
    <3>1. Rows(1)[k] \in RecordSet
      BY <2>5, LenProperties, ElementOfSeq
    <3>2. PICK c \in Contents : Rows(1)[k].hashes = <<c>>
      BY <2>4, <3>1 DEF RecordSet
    <3> QED
      BY <2>4, <2>6, <2>7, <3>2
  <2>8. CASE second # 1
    <3>1. Determinism(Rows(1), Rows(second)) /\ Rows(second) \in Seq(RecordSet)
      BY <2>2, <2>3, <2>6, <2>8
    <3>2. PICK i \in DOMAIN Rows(1), j \in DOMAIN Rows(second) :
            /\ Rows(1)[i].doc = d /\ Rows(1)[i].ok
            /\ Rows(second)[j].doc = d /\ Rows(second)[j].ok
            /\ Rows(1)[i].hashes = Rows(second)[j].hashes
      BY <2>5, <3>1, DeterminismMeans
    <3>3. Rows(1)[i] \in RecordSet
      BY <2>5, LenProperties, ElementOfSeq
    <3>4. PICK c \in Contents : Rows(1)[i].hashes = <<c>>
      BY <3>2, <3>3 DEF RecordSet
    <3> QED
      BY <2>6, <3>2, <3>4
  <2> QED
    BY <2>7, <2>8
<1>2. ASSUME IInv, verdict = "PASS", NEW r \in Reps
      PROVE  /\ status[r] = "ended" => Exists(r)
             /\ Exists(r) /\ (Passes => r = 1) => \A d \in Docs :
                  \E k \in DOMAIN Rows(r) :
                    /\ \A j \in DOMAIN Rows(r) : Rows(r)[j].doc = d <=> j = k
                    /\ \/ Rows(r)[k].ok
                       \/ d \in ExpectedEmpty /\ Rows(r)[k].reason = "no_documents"
  <2>1. phase = "reported" /\ r \in 1..REPS /\ Passed
    BY <1>2, ScriptFacts DEF IInv, VerdictInv
  <2>2. status[r] = "ended" => Exists(r)
    <3>1. campaign.script # "rr_run"
      <4>1. campaign.script = "rr_run" => ~Passes /\ Reps = {1}
        BY DEF Passes, Reps
      <4> QED
        BY <1>2, <2>1, <4>1, PassedFacts
    <3> QED
      BY <1>2, <2>1, <3>1, EvidenceFacts DEF Exists
  <2>3. ASSUME Exists(r), Passes => r = 1
        PROVE  Census(Rows(r), Len(Corpus), Docs, ExpectedEmpty)
    <3>1. CASE Passes
      BY <1>2, <2>1, <2>3, <3>1, PassedFacts
    <3>2. CASE ~Passes
      <4>1. campaign.driver # "native"
        BY <1>2, <3>2, ScriptFacts DEF Passes, IInv
      <4>2. status[r] # "none"
        BY <1>2, <2>1, <2>3, <4>1, EvidenceFacts DEF Exists
      <4>3. r \in 1..rep
        BY <1>2, <2>1, <4>2, ScriptFacts DEF IInv, StatusInv
      <4> QED
        BY <1>2, <2>1, <2>3, <3>2, <4>3, PassedFacts
    <3> QED
      BY <3>1, <3>2
  <2>4. Rows(r) \in Seq(RecordSet)
    BY <1>2, <2>1, EvidenceFacts DEF Rows, FileSet
  <2> QED
    BY <2>2, <2>3, <2>4, CensusMeans
<1>3. IInv => PassMeansProven
  BY <1>1, <1>2 DEF PassMeansProven
<1> QED
  BY <1>3, CampaignInvariant, PTL

-----------------------------------------------------------------------------
(* A campaign ends                                                         *)

(* The documents not yet sent, and those without a record. *)
Waiting == {d \in Docs : task[d] = "waiting"}
Undone == {d \in Docs : task[d] # "done"}

TasksLeft == Cardinality(Waiting) + Cardinality(Undone)

(* Then the lines of its file. *)
WorkLeft == IF phase = "writing" THEN Len(Corpus) - Len(out[rep].rows)
            ELSE TasksLeft

(* What a repetition may still take, and the repetitions after it. *)
OfRep(p, n) ==
  CASE p = "launch"   -> 3 * Len(Corpus) + 8
    [] p = "warm"     -> 3 * Len(Corpus) + 7
    [] p = "run"      -> Len(Corpus) + n + 6
    [] p = "writing"  -> n + 5
    [] p = "written"  -> 4
    [] p = "dead"     -> 3
    [] p = "report"   -> 1
    [] p = "reported" -> 0

OneRep == 3 * Len(Corpus) + 9

Left(r, p, n) == (REPS - r) * OneRep + OfRep(p, n)

StepsLeft == Left(rep, phase, WorkLeft)

LEMMA ProductFalls ==
  ASSUME NEW e \in Nat, NEW k \in Nat
  PROVE  e * k \in Nat /\ k * e = e * k /\ (k + 1) * e = k * e + e
<1>1. (k + 1) * e = k * e + e /\ k * e = e * k /\ e * k \in Nat
  OBVIOUS
<1> QED
  BY <1>1

LEMMA DocSets ==
  ASSUME NEW T \in SUBSET Docs
  PROVE  /\ Cardinality(T) \in Nat /\ Cardinality(T) <= Len(Corpus)
         /\ \A d \in T : Cardinality(T \ {d}) = Cardinality(T) - 1
         /\ T # {} => Cardinality(T) # 0
         /\ Cardinality({}) = 0
<1>1. IsFiniteSet(Docs) /\ Cardinality(Docs) = Len(Corpus)
  BY CorpusFacts
<1>2. IsFiniteSet(T) /\ Cardinality(T) <= Cardinality(Docs)
  BY <1>1, FS_Subset
<1>3. Cardinality(T) \in Nat /\ (T # {} => Cardinality(T) # 0) /\ Cardinality({}) = 0
  BY <1>2, FS_CardinalityType, FS_EmptySet
<1>4. \A d \in T : Cardinality(T \ {d}) = Cardinality(T) - 1
  BY <1>2, FS_RemoveElement
<1> QED
  BY <1>1, <1>2, <1>3, <1>4

(* Where the numbers lie that StepsLeft is made of. *)
Counts ==
  /\ rep \in Nat /\ rep >= 1 /\ rep <= REPS
  /\ TasksLeft \in 0..(2 * Len(Corpus)) /\ WorkLeft \in Nat
  /\ phase = "writing" => WorkLeft <= Len(Corpus)
  /\ phase # "writing" => WorkLeft <= 2 * Len(Corpus)
  /\ OfRep(phase, WorkLeft) \in 0..(OneRep - 1)
  /\ StepsLeft \in 0..(REPS * OneRep - 1)

LEMMA CountsHold == IInv => Counts
<1> SUFFICES ASSUME IInv
             PROVE  Counts
  OBVIOUS
<1>0. TypeOK
  BY DEF IInv
<1>1. Len(Corpus) \in Nat /\ REPS \in Nat /\ OneRep \in Nat
  BY CorpusFacts, CampaignAssumption DEF OneRep
<1>2. rep \in Nat /\ rep >= 1 /\ rep <= REPS
  BY <1>0, <1>1, ScriptFacts
<1>3. TasksLeft \in 0..(2 * Len(Corpus))
  <2>1. Waiting \in SUBSET Docs /\ Undone \in SUBSET Docs
    BY DEF Waiting, Undone
  <2>2. /\ Cardinality(Waiting) \in Nat /\ Cardinality(Waiting) <= Len(Corpus)
        /\ Cardinality(Undone) \in Nat /\ Cardinality(Undone) <= Len(Corpus)
    BY <2>1, DocSets
  <2> QED
    BY <1>1, <2>2 DEF TasksLeft
<1>6. /\ WorkLeft \in Nat
      /\ phase = "writing" => WorkLeft <= Len(Corpus)
      /\ phase # "writing" => WorkLeft <= 2 * Len(Corpus)
  <2>1. CASE phase = "writing"
    <3>1. rep \in 1..REPS /\ out[rep] \in FileSet
      BY <1>0, ScriptFacts DEF TypeOK
    <3>2. FirstOnes(out[rep].rows)
      BY <2>1, <3>1 DEF IInv, FileInv, WrittenInv, RecordsInv
    <3>3. Len(out[rep].rows) \in Nat /\ Len(out[rep].rows) <= Len(Corpus)
      BY <3>1, <3>2, LenProperties DEF FileSet, FirstOnes
    <3> QED
      BY <1>1, <2>1, <3>3 DEF WorkLeft
  <2>2. CASE phase # "writing"
    BY <1>1, <1>3, <2>2 DEF WorkLeft
  <2> QED
    BY <2>1, <2>2
<1>4. OfRep(phase, WorkLeft) \in 0..(OneRep - 1)
  <2>1. phase \in {"launch", "warm", "run", "writing", "written", "dead",
                   "report", "reported"}
    BY <1>0 DEF TypeOK
  <2> DEFINE n == WorkLeft
  <2>2. n \in Nat /\ n <= 2 * Len(Corpus) /\ (phase = "writing" => n <= Len(Corpus))
    BY <1>1, <1>6
  <2> HIDE DEF n
  <2>3. OfRep(phase, n) \in 0..(OneRep - 1)
    BY <1>1, <2>1, <2>2 DEF OfRep, OneRep
  <2> QED
    BY <2>3 DEF n
<1>5. StepsLeft \in 0..(REPS * OneRep - 1)
  <2>1. PICK k \in Nat : k = REPS - rep
    BY <1>1, <1>2
  <2>2. PICK j \in Nat : rep = j + 1
    <3>1. rep - 1 \in Nat /\ rep = (rep - 1) + 1
      BY <1>2
    <3> QED
      BY <3>1
  <2>3. REPS = k + 1 + j
    BY <1>1, <1>2, <2>1, <2>2
  <2>4. /\ REPS * OneRep = k * OneRep + OneRep + j * OneRep
        /\ k * OneRep \in Nat /\ j * OneRep \in Nat
    BY <1>1, <2>3
  <2>5. StepsLeft = k * OneRep + OfRep(phase, WorkLeft)
    BY <2>1 DEF StepsLeft, Left
  <2> QED
    BY <1>1, <1>4, <2>4, <2>5
<1> QED
  BY <1>2, <1>3, <1>4, <1>5, <1>6 DEF Counts

LEMMA WithinRep ==
  ASSUME NEW r \in Nat, r <= REPS, NEW p, NEW q, NEW n \in Nat, NEW m \in Nat,
         OfRep(p, n) \in Nat, OfRep(q, m) \in Nat, OfRep(q, m) < OfRep(p, n)
  PROVE  Left(r, q, m) < Left(r, p, n)
<1>1. PICK k \in Nat : k = REPS - r
  BY CampaignAssumption
<1>2. k * OneRep \in Nat
  <2>1. OneRep \in Nat
    BY CorpusFacts DEF OneRep
  <2> QED
    BY <2>1
<1>3. Left(r, q, m) = k * OneRep + OfRep(q, m) /\ Left(r, p, n) = k * OneRep + OfRep(p, n)
  BY <1>1 DEF Left
<1> QED
  BY <1>2, <1>3

LEMMA NextRep ==
  ASSUME NEW r \in Nat, r + 1 <= REPS, NEW p, NEW q, NEW n \in Nat, NEW m \in Nat,
         OfRep(p, n) \in Nat, OfRep(q, m) \in 0..(OneRep - 1)
  PROVE  Left(r + 1, q, m) < Left(r, p, n)
<1>1. PICK k \in Nat : k = REPS - (r + 1)
  BY CampaignAssumption
<1>2. OneRep \in Nat
  BY CorpusFacts DEF OneRep
<1>3. k * OneRep \in Nat /\ (k + 1) * OneRep = k * OneRep + OneRep
  BY <1>2, ProductFalls
<1>4. REPS - r = k + 1
  BY <1>1, CampaignAssumption
<1>5. /\ Left(r + 1, q, m) = k * OneRep + OfRep(q, m)
      /\ Left(r, p, n) = (k + 1) * OneRep + OfRep(p, n)
  BY <1>1, <1>4 DEF Left
<1> QED
  BY <1>2, <1>3, <1>5

(* A document sent, a document recorded. *)
LEMMA TaskFalls ==
  ASSUME TypeOK, NEW d \in Docs, NEW s,
         task' = [task EXCEPT ![d] = s],
         \/ task[d] = "waiting" /\ s = "sent"
         \/ task[d] = "sent" /\ s = "done"
  PROVE  TasksLeft' < TasksLeft
<1> DEFINE a == Cardinality(Waiting)  b == Cardinality(Undone)
<1>0. /\ Waiting \in SUBSET Docs /\ Undone \in SUBSET Docs
      /\ Waiting' \in SUBSET Docs /\ Undone' \in SUBSET Docs
  BY DEF Waiting, Undone
<1>1. a \in Nat /\ b \in Nat /\ a' \in Nat /\ b' \in Nat
  BY <1>0, DocSets
<1>2. task'[d] = s /\ \A c \in Docs : c # d => task'[c] = task[c]
  BY DEF TypeOK
<1>3. CASE task[d] = "waiting" /\ s = "sent"
  <2>1. Waiting' = Waiting \ {d} /\ d \in Waiting /\ Undone' = Undone
    BY <1>2, <1>3 DEF Waiting, Undone
  <2>2. a' = a - 1 /\ b' = b
    BY <1>0, <2>1, DocSets
  <2> QED
    BY <1>1, <2>2 DEF TasksLeft
<1>4. CASE task[d] = "sent" /\ s = "done"
  <2>1. Undone' = Undone \ {d} /\ d \in Undone /\ Waiting' = Waiting
    BY <1>2, <1>4 DEF Waiting, Undone
  <2>2. b' = b - 1 /\ a' = a
    BY <1>0, <2>1, DocSets
  <2> QED
    BY <1>1, <2>2 DEF TasksLeft
<1> QED
  BY <1>3, <1>4

(* The batch records every document at once; of an empty corpus it records *)
(* nothing and changes nothing.                                            *)
LEMMA BatchFalls ==
  ASSUME IInv, Batch
  PROVE  TasksLeft' < TasksLeft \/ UNCHANGED vars
<1>1. CASE Docs = {}
  <2>1. DOMAIN Corpus = {}
    BY <1>1, CorpusFacts
  <2>2. records' = records
    BY <2>1 DEF Batch
  <2>3. task' = task
    BY <1>1 DEF Batch, IInv, TypeOK
  <2>4. served' = served
    <3>1. served = {}
      BY <1>1 DEF IInv, TypeOK
    <3>2. PICK result \in BoundedSeq(Items, BatchItems) :
            served' = {<<result[i].file, result[i].content>> : i \in DOMAIN result}
      BY DEF Batch
    <3>3. result \in Seq(Items)
      BY <3>2, CampaignAssumption DEF BoundedSeq, SeqOf
    <3>4. \A i \in DOMAIN result : result[i] \in Items
      BY <3>3, ElementOfSeq
    <3>5. Items = {}
      BY <1>1 DEF Items
    <3> QED
      BY <3>1, <3>2, <3>4, <3>5
  <2> QED
    BY <2>2, <2>3, <2>4 DEF Batch, vars
<1>2. CASE Docs # {}
  <2>1. OneEach(records, {d \in Docs : task[d] = "done"}) /\ records = <<>>
    BY DEF Batch, IInv, RecordsInv
  <2>2. {d \in Docs : task[d] = "done"} = {}
    <3>1. Cardinality({d \in Docs : task[d] = "done"}) = 0
      BY <2>1 DEF OneEach
    <3> QED
      BY <3>1, DocSets
  <2>3. Undone = Docs /\ Undone \in SUBSET Docs /\ Waiting \in SUBSET Docs
    BY <2>2 DEF Undone, Waiting
  <2>4. Undone' = {} /\ Waiting' = {}
    BY DEF Batch, Undone, Waiting
  <2>5. /\ Cardinality(Undone) \in Nat /\ Cardinality(Waiting) \in Nat
        /\ Cardinality(Undone) # 0
        /\ Cardinality(Undone') = 0 /\ Cardinality(Waiting') = 0
    BY <1>2, <2>3, <2>4, DocSets
  <2> QED
    BY <2>5 DEF TasksLeft
<1> QED
  BY <1>1, <1>2

LEMMA CampaignFalls ==
  IInv /\ Counts /\ Counts' /\ [Next]_vars => [StepsLeft' < StepsLeft]_vars
<1> SUFFICES ASSUME IInv, Counts, Counts', Next
             PROVE  StepsLeft' < StepsLeft \/ UNCHANGED vars
  OBVIOUS
<1> DEFINE n == WorkLeft
<1>0. /\ Len(Corpus) \in Nat /\ rep \in Nat /\ rep <= REPS
      /\ n \in Nat /\ n' \in Nat
      /\ phase = "writing" => n <= Len(Corpus)
      /\ phase' = "writing" => n' <= Len(Corpus)
      /\ phase' # "writing" => n' <= 2 * Len(Corpus)
      /\ OfRep(phase, n) \in Nat /\ OfRep(phase', n') \in 0..(OneRep - 1)
      /\ OfRep(phase', n') \in Nat
      /\ StepsLeft = Left(rep, phase, n) /\ StepsLeft' = Left(rep', phase', n')
  BY CorpusFacts DEF Counts, StepsLeft, OneRep
<1> HIDE DEF n
<1>1. ASSUME rep' = rep, OfRep(phase', n') < OfRep(phase, n)
      PROVE  StepsLeft' < StepsLeft
  BY <1>0, <1>1, WithinRep
<1>2. ASSUME n' < n, phase \in {"run", "writing"}, phase' = phase, rep' = rep
      PROVE  StepsLeft' < StepsLeft
  <2>1. OfRep(phase', n') < OfRep(phase, n)
    BY <1>0, <1>2 DEF OfRep
  <2> QED
    BY <1>1, <1>2, <2>1
<1>3. ASSUME \/ phase = "launch" /\ phase' \in {"run", "warm"}
             \/ phase = "warm" /\ phase' = "run"
             \/ phase = "run" /\ phase' \in {"writing", "written"}
             \/ phase = "writing" /\ phase' = "written"
             \/ phase \in {"warm", "run", "writing", "written"} /\ phase' = "dead"
             \/ phase \in {"written", "dead"} /\ phase' = "report"
             \/ phase \in {"report", "dead"} /\ phase' = "reported",
             rep' = rep
      PROVE  StepsLeft' < StepsLeft
  <2>1. OfRep(phase', n') < OfRep(phase, n)
    BY <1>0, <1>3 DEF OfRep
  <2> QED
    BY <1>1, <1>3, <2>1
<1>4. CASE Launch \/ WarmUp \/ Open \/ Close \/ Die \/ Report
  BY <1>3, <1>4 DEF Launch, WarmUp, Open, Close, Die, Report
<1>5. ASSUME NEW d \in Docs, Send(d) \/ Answer(d)
      PROVE  StepsLeft' < StepsLeft
  <2>1. PICK s \in {"sent", "done"} :
          /\ task' = [task EXCEPT ![d] = s]
          /\ \/ task[d] = "waiting" /\ s = "sent"
             \/ task[d] = "sent" /\ s = "done"
    BY <1>5 DEF Send, Answer
  <2>2. TasksLeft' < TasksLeft
    BY <2>1, TaskFalls DEF IInv
  <2>3. phase = "run" /\ phase' = phase /\ rep' = rep
    BY <1>5 DEF Send, Answer
  <2>4. n' < n
    BY <2>2, <2>3 DEF n, WorkLeft
  <2> QED
    BY <1>2, <2>3, <2>4
<1>6. CASE Batch
  <2>1. phase = "run" /\ phase' = phase /\ rep' = rep
    BY <1>6 DEF Batch
  <2>2. n' < n \/ UNCHANGED vars
    BY <1>6, <2>1, BatchFalls DEF n, WorkLeft
  <2> QED
    BY <1>2, <2>1, <2>2
<1>7. CASE WriteLine
  <2>1. phase = "writing" /\ phase' = phase /\ rep' = rep
    BY <1>7 DEF WriteLine
  <2>2. PICK r \in RecordSet :
          /\ out[rep].rows \in Seq(RecordSet)
          /\ out'[rep].rows = Append(out[rep].rows, r)
    BY <1>7, LineOfNext DEF IInv
  <2>3. /\ Len(out[rep].rows) \in Nat
        /\ Len(out'[rep].rows) = Len(out[rep].rows) + 1
    BY <2>2, LenProperties, AppendProperties
  <2>4. n' < n
    BY <1>0, <2>1, <2>3 DEF n, WorkLeft
  <2> QED
    BY <1>2, <2>1, <2>4
<1>8. CASE Collect
  <2>1. \/ rep' = rep + 1 /\ phase' = "launch"
        \/ rep' = rep /\ phase \in {"written", "dead"} /\ phase' = "report"
    BY <1>8 DEF Collect
  <2>2. CASE rep' = rep + 1
    <3>1. rep + 1 <= REPS
      BY <2>2 DEF Counts
    <3> QED
      BY <1>0, <2>2, <3>1, NextRep
  <2> QED
    BY <1>3, <2>1, <2>2
<1> QED
  BY <1>4, <1>5, <1>6, <1>7, <1>8 DEF Next, Driver

(* However the drivers end and whoever calls the report, a campaign cannot *)
(* go on for ever: it has REPS repetitions of three steps per document and *)
(* nine more.  What is left to RepResolves is that the driver does move.   *)
THEOREM CampaignSteps ==
  Spec => /\ [](StepsLeft \in 0..(REPS * OneRep - 1))
          /\ [][StepsLeft' < StepsLeft]_vars
<1>1. IInv => Counts
  BY CountsHold
<1>2. Counts => StepsLeft \in 0..(REPS * OneRep - 1)
  BY DEF Counts
<1> QED
  BY <1>1, <1>2, CampaignFalls, CampaignInvariant, PTL DEF Spec

-----------------------------------------------------------------------------
(* The inputs                                                              *)

(* A line that follows the last one keeps the stream of a sampler in order. *)
LEMMA SampledAppend ==
  ASSUME samples \in Seq(SampleSet), Sampled(samples, Cpus),
         NEW gap \in 1..MaxGap, NEW rise \in 0..(Cpus * gap),
         samples' = Append(samples, NextSample(gap, rise))
  PROVE  samples' \in Seq(SampleSet) /\ Sampled(samples', Cpus)
<1> DEFINE n == Len(samples)
           last == samples[n]
           next == NextSample(gap, rise)
<1>1. /\ n \in Nat /\ DOMAIN samples = 1..n
      /\ \A k \in 1..n : samples[k].ts \in Nat /\ samples[k].cpu \in Nat
  BY SampledFacts
<1>2. gap \in Nat /\ gap > 0 /\ rise \in Nat /\ Cpus \in Nat /\ rise <= Cpus * gap
  <2>1. gap \in Nat /\ gap > 0 /\ Cpus \in Nat
    BY MeasuresAssumption
  <2>2. Cpus * gap \in Nat
    BY <2>1
  <2> QED
    BY <2>1, <2>2
<1>3. /\ next.ts \in Nat /\ next.cpu \in Nat /\ next \in SampleSet
      /\ n > 0 => next.ts = last.ts + gap /\ next.cpu = last.cpu + rise
  <2>1. CASE samples = <<>>
    <3>1. n = 0
      BY <2>1
    <3> QED
      BY <1>2, <2>1, <3>1 DEF NextSample, SampleSet
  <2>2. CASE samples # <<>>
    <3>1. n > 0 /\ n \in 1..n
      BY <1>1, <2>2, EmptySeq
    <3>2. last.ts \in Nat /\ last.cpu \in Nat
      BY <1>1, <3>1
    <3>3. next = [ts |-> last.ts + gap, cpu |-> last.cpu + rise]
      BY <2>2 DEF NextSample
    <3> QED
      BY <1>2, <3>2, <3>3 DEF SampleSet
  <2> QED
    BY <2>1, <2>2
<1>4. /\ samples' \in Seq(SampleSet) /\ Len(samples') = n + 1
      /\ samples'[n + 1] = next
      /\ \A k \in 1..n : samples'[k] = samples[k]
  BY <1>3, AppendProperties
<1>5. DOMAIN samples' = 1..(n + 1)
  BY <1>1, <1>4, LenProperties
<1> HIDE DEF n, last, next
<1>6. ASSUME NEW j \in 1..n
      PROVE  /\ samples[j].ts < next.ts
             /\ next.cpu - samples[j].cpu \in 0..(Cpus * (next.ts - samples[j].ts))
  <2> DEFINE x == last.ts - samples[j].ts
             c == last.cpu - samples[j].cpu
  <2>1. n > 0 /\ n \in 1..n
    BY <1>1
  <2>2. /\ samples[j].ts \in Nat /\ samples[j].cpu \in Nat
        /\ last.ts \in Nat /\ last.cpu \in Nat
    BY <1>1, <2>1 DEF last
  <2>3. x \in Nat /\ c \in Nat /\ c <= Cpus * x
    <3>1. CASE j = n
      <4>1. last.ts - samples[j].ts = 0 /\ last.cpu - samples[j].cpu = 0
        BY <2>2, <3>1 DEF last
      <4>2. Cpus * 0 = 0
        BY <1>2
      <4> QED
        BY <4>1, <4>2
    <3>2. CASE j < n
      <4>1. samples[j].ts < last.ts /\ c \in 0..(Cpus * x)
        BY <1>1, <2>1, <3>2 DEF Sampled, last
      <4>2. x \in Nat
        BY <2>2, <4>1
      <4>3. Cpus * x \in Nat
        BY <1>2, <4>2
      <4> QED
        BY <4>1, <4>2, <4>3
    <3> QED
      BY <1>1, <3>1, <3>2
  <2> HIDE DEF x, c
  <2>4. next.ts - samples[j].ts = x + gap /\ next.cpu - samples[j].cpu = c + rise
    <3>1. next.ts = last.ts + gap /\ next.cpu = last.cpu + rise
      BY <1>3, <2>1
    <3>2. next.ts - samples[j].ts = x + gap
      BY <1>2, <2>2, <3>1 DEF x
    <3>3. next.cpu - samples[j].cpu = c + rise
      BY <1>2, <2>2, <3>1 DEF c
    <3> QED
      BY <3>2, <3>3
  <2>5. /\ Cpus * (x + gap) = Cpus * x + Cpus * gap
        /\ Cpus * x \in Nat /\ Cpus * gap \in Nat
    BY <1>2, <2>3
  <2>6. c + rise \in 0..(Cpus * (x + gap))
    BY <1>2, <2>3, <2>5
  <2>7. samples[j].ts < next.ts
    <3>1. next.ts - samples[j].ts > 0
      BY <1>2, <2>3, <2>4
    <3> QED
      BY <1>3, <2>2, <3>1
  <2> QED
    BY <2>4, <2>6, <2>7
<1>7. Sampled(samples', Cpus)
  <2> SUFFICES ASSUME NEW j \in 1..(n + 1), NEW k \in 1..(n + 1), j < k
               PROVE  /\ samples'[j].ts < samples'[k].ts
                      /\ samples'[k].cpu - samples'[j].cpu
                           \in 0..(Cpus * (samples'[k].ts - samples'[j].ts))
    BY <1>5 DEF Sampled
  <2>1. CASE k = n + 1
    <3>1. j \in 1..n
      BY <1>1, <2>1
    <3> QED
      BY <1>4, <1>6, <2>1, <3>1
  <2>2. CASE k # n + 1
    <3>1. j \in 1..n /\ k \in 1..n
      BY <1>1, <2>2
    <3> QED
      BY <1>1, <1>4, <3>1 DEF Sampled
  <2> QED
    BY <2>1, <2>2
<1> QED
  BY <1>4, <1>7

(* The next piece starts after the last one. *)
LEMMA CutsAppend ==
  ASSUME InputOK, NEW from \in 1..Len(text), NEW to \in 1..Len(text),
         from <= to, cuts # <<>> => cuts[Len(cuts)][1] < from,
         cuts' = Append(cuts, <<from, to>>)
  PROVE  /\ cuts' \in Seq((1..Len(text)) \X (1..Len(text)))
         /\ \A i \in DOMAIN cuts' : cuts'[i][1] <= cuts'[i][2]
         /\ \A i, j \in DOMAIN cuts' : i < j => cuts'[i][1] < cuts'[j][1]
<1> DEFINE n == Len(cuts)
           Cut == (1..Len(text)) \X (1..Len(text))
<1>1. /\ cuts \in Seq(Cut) /\ n \in Nat /\ DOMAIN cuts = 1..n
      /\ \A i \in 1..n : cuts[i][1] <= cuts[i][2]
      /\ \A i, j \in 1..n : i < j => cuts[i][1] < cuts[j][1]
  BY LenProperties DEF InputOK
<1>2. <<from, to>> \in Cut
  OBVIOUS
<1>3. /\ cuts' \in Seq(Cut) /\ Len(cuts') = n + 1
      /\ cuts'[n + 1] = <<from, to>>
      /\ \A i \in 1..n : cuts'[i] = cuts[i]
  BY <1>1, <1>2, AppendProperties
<1>4. DOMAIN cuts' = 1..(n + 1)
  BY <1>1, <1>3, LenProperties
<1>5. Len(text) \in Nat
  BY LenProperties DEF InputOK
<1>6. \A i \in 1..n : cuts[i][1] \in Int /\ cuts[i][2] \in Int
  <2>1. \A i \in 1..n : cuts[i] \in Cut
    BY <1>1, ElementOfSeq
  <2> QED
    BY <1>5, <2>1
<1> HIDE DEF n, Cut
<1>7. \A i \in 1..(n + 1) : cuts'[i][1] <= cuts'[i][2]
  <2> SUFFICES ASSUME NEW i \in 1..(n + 1)
               PROVE  cuts'[i][1] <= cuts'[i][2]
    OBVIOUS
  <2>1. i \in 1..n \/ i = n + 1
    BY <1>1
  <2> QED
    BY <1>1, <1>3, <2>1
<1>8. ASSUME NEW i \in 1..(n + 1), NEW j \in 1..(n + 1), i < j
      PROVE  cuts'[i][1] < cuts'[j][1]
  <2>1. i \in 1..n
    BY <1>1, <1>8
  <2>2. CASE j = n + 1
    <3>1. cuts # <<>> /\ n \in 1..n
      BY <1>1, <2>1 DEF n
    <3>2. cuts[i][1] <= cuts[n][1] /\ cuts[n][1] < from
      <4>1. CASE i = n
        BY <1>6, <3>1, <4>1 DEF n
      <4>2. CASE i # n
        <5>1. i < n
          BY <2>1, <4>2, <1>1
        <5>2. cuts[i][1] < cuts[n][1]
          BY <1>1, <2>1, <3>1, <5>1
        <5> QED
          BY <1>6, <2>1, <3>1, <5>2 DEF n
      <4> QED
        BY <4>1, <4>2
    <3>3. cuts[i][1] < from
      BY <1>5, <1>6, <2>1, <3>1, <3>2
    <3> QED
      BY <1>3, <2>1, <2>2, <3>3
  <2>3. CASE j # n + 1
    <3>1. j \in 1..n
      BY <1>1, <2>3
    <3> QED
      BY <1>1, <1>3, <1>8, <2>1, <3>1
  <2> QED
    BY <2>2, <2>3
<1> QED
  BY <1>3, <1>4, <1>7, <1>8 DEF Cut

(* Whatever has been put together is an input that the programs can read.  *)
LEMMA InputsOK == Inputs => []InputOK
<1>1. NoInput => InputOK
  BY EmptySeq DEF NoInput, InputOK, Sampled
<1>2. InputOK /\ [Grow]_input => InputOK'
  <2> SUFFICES ASSUME InputOK, [Grow]_input
               PROVE  InputOK'
    OBVIOUS
  <2>1. CASE GrowFirst
    <3>1. passA' \in Seq(FirstRecords)
      BY <2>1, AppendProperties DEF GrowFirst, InputOK
    <3> QED
      BY <2>1, <3>1 DEF GrowFirst, InputOK
  <2>2. CASE GrowSecond
    <3>1. passB' \in Seq(SecondRecords)
      BY <2>2, AppendProperties DEF GrowSecond, InputOK
    <3> QED
      BY <2>2, <3>1 DEF GrowSecond, InputOK
  <2>3. CASE GrowTimed
    <3>1. timed' \in Seq(TimedRecords)
      BY <2>3, AppendProperties DEF GrowTimed, InputOK
    <3> QED
      BY <2>3, <3>1 DEF GrowTimed, InputOK
  <2>4. CASE GrowSamples
    <3>1. samples' \in Seq(SampleSet) /\ Sampled(samples', Cpus)
      BY <2>4, SampledAppend DEF GrowSamples, InputOK
    <3> QED
      BY <2>4, <3>1 DEF GrowSamples, InputOK
  <2>5. CASE GrowFigures
    <3>1. figures' \in Seq(Figures \cup {Absent})
      BY <2>5, AppendProperties DEF GrowFigures, InputOK
    <3> QED
      BY <2>5, <3>1 DEF GrowFigures, InputOK
  <2>6. CASE GrowText
    <3>1. text' \in Seq(Letters) /\ cuts' = <<>>
      BY <2>6, AppendProperties DEF GrowText, InputOK
    <3>2. cuts' \in Seq((1..Len(text')) \X (1..Len(text')))
      BY <3>1, EmptySeq
    <3>3. \A i \in DOMAIN cuts' : FALSE
      BY <3>1
    <3> QED
      BY <2>6, <3>1, <3>2, <3>3 DEF GrowText, InputOK
  <2>7. CASE GrowCuts
    <3>1. /\ cuts' \in Seq((1..Len(text)) \X (1..Len(text)))
          /\ \A i \in DOMAIN cuts' : cuts'[i][1] <= cuts'[i][2]
          /\ \A i, j \in DOMAIN cuts' : i < j => cuts'[i][1] < cuts'[j][1]
      BY <2>7, CutsAppend DEF GrowCuts
    <3> QED
      BY <2>7, <3>1 DEF GrowCuts, InputOK
  <2>8. CASE UNCHANGED input
    BY <2>8 DEF input, InputOK
  <2> QED
    BY <2>1, <2>2, <2>3, <2>4, <2>5, <2>6, <2>7, <2>8 DEF Grow
<1> QED
  BY <1>1, <1>2, PTL DEF Inputs

(* "every check FAILS CLOSED" (m0_correctness.py:3-5): whatever two files  *)
(* of well-formed records are read, a gate that passes proves every        *)
(* document of the manifest, and no pair of perfect passes is refused.     *)
THEOREM MeasuresGate == Inputs => []GateSound
<1>1. InputOK => GateSound
  <2> SUFFICES ASSUME InputOK
               PROVE  GateSound
    OBVIOUS
  <2> DEFINE S == FirstRecords \cup SecondRecords
  <2>1. Loaded(S)
    BY MeasuresAssumption DEF Loaded
  <2>2. passA \in Seq(S) /\ passB \in Seq(S)
    BY ElementOfSeq, LenProperties, SeqDef DEF InputOK
  <2> HIDE DEF S
  <2>3. GateProves(passA, passB, Expected, Empty)
    BY <2>1, <2>2, GatePassProves
  <2>4. GateAdmits(passA, Expected, Empty)
    BY <2>1, <2>2, GateAdmitsPerfect
  <2> QED
    BY <2>3, <2>4 DEF GateSound
<1> QED
  BY <1>1, InputsOK, PTL

(* The censuses and the comparisons of two arms agree with each other      *)
(* (m0_correctness.py, pdf500/census.py, compare_summarize.py), whatever   *)
(* two files are read. *)
THEOREM MeasuresComparisons == Inputs => []ComparisonsAgree
<1>1. InputOK => ComparisonsAgree
  <2> SUFFICES ASSUME InputOK
               PROVE  ComparisonsAgree
    OBVIOUS
  <2> DEFINE S == FirstRecords \cup SecondRecords
  <2>1. Loaded(S)
    BY MeasuresAssumption DEF Loaded
  <2>2. passA \in Seq(S) /\ passB \in Seq(S)
    BY ElementOfSeq, LenProperties, SeqDef DEF InputOK
  <2> HIDE DEF S
  <2>3. CensusesAgree(passA, Expected, Empty)
    BY <2>1, <2>2, CensusesAgreeAlways, MeasuresAssumption
  <2>4. ArmsAgree(passA, passB)
    BY <2>1, <2>2, ArmsAgreeAlways
  <2> QED
    BY <2>3, <2>4 DEF ComparisonsAgree
<1> QED
  BY <1>1, InputsOK, PTL

(* "above that means cost was attributed outside the window"               *)
(* (m7_resources.py:110-113): for any stream that the sampler writes and   *)
(* any window, the slice is within it but for the sample before it.        *)
THEOREM MeasuresSlice == Inputs => []SliceTight
<1>1. InputOK => SliceTight
  <2> SUFFICES ASSUME InputOK, NEW t0 \in 0..(MaxSamples * MaxGap),
                      NEW t1 \in 0..(MaxSamples * MaxGap)
               PROVE  SliceFits(samples, t0, t1, Cpus)
    BY DEF SliceTight
  <2> QED
    BY SliceFitsAlways, MeasuresAssumption DEF InputOK
<1> QED
  BY <1>1, InputsOK, PTL

-----------------------------------------------------------------------------
(* Times, faults and their radius                                          *)

(* A record that completed has times, the submission first. *)
LEMMA TimedFacts ==
  ASSUME InputOK
  PROVE  /\ Len(timed) \in Nat /\ DOMAIN timed = 1..Len(timed)
         /\ Done(timed) \subseteq DOMAIN timed /\ IsFiniteSet(DOMAIN timed)
         /\ \A k \in DOMAIN timed : timed[k].ok \in BOOLEAN
         /\ \A k \in DOMAIN timed : timed[k].ok => k \in Done(timed)
         /\ \A k \in DOMAIN timed \ Done(timed) : timed[k].submit = Absent
         /\ \A k \in Done(timed) : /\ timed[k].submit \in 0..Horizon
                                   /\ timed[k].completion \in 0..Horizon
                                   /\ timed[k].submit <= timed[k].completion
<1>1. Len(timed) \in Nat /\ DOMAIN timed = 1..Len(timed)
  BY LenProperties DEF InputOK
<1>2. IsFiniteSet(DOMAIN timed)
  BY <1>1, FS_Interval
<1>3. \A k \in DOMAIN timed : timed[k] \in TimedRecords
  BY <1>1, ElementOfSeq DEF InputOK
<1>4. ASSUME NEW r \in TimedRecords
      PROVE  \/ /\ r.ok \in BOOLEAN /\ r.submit \in 0..Horizon
                /\ r.completion \in 0..Horizon /\ r.submit <= r.completion
                /\ r.completion # Absent
             \/ ~r.ok /\ r.ok \in BOOLEAN /\ r.submit = Absent
                /\ r.completion = Absent
  <2>1. CASE r \in [doc : TimedDocs, ok : {FALSE}, submit : {Absent},
                    completion : {Absent}]
    BY <2>1
  <2>2. CASE r \notin [doc : TimedDocs, ok : {FALSE}, submit : {Absent},
                       completion : {Absent}]
    <3>1. /\ r \in [doc : TimedDocs, ok : BOOLEAN, submit : 0..Horizon,
                    completion : 0..Horizon]
          /\ r.submit <= r.completion
      BY <2>2 DEF TimedRecords
    <3>2. r.ok \in BOOLEAN /\ r.submit \in 0..Horizon /\ r.completion \in 0..Horizon
      BY <3>1
    <3>3. r.completion # Absent
      BY <3>2 DEF Absent
    <3> QED
      BY <3>1, <3>2, <3>3
  <2> QED
    BY <2>1, <2>2
<1> QED
  BY <1>1, <1>2, <1>3, <1>4 DEF Done

(* The outcome of a fault is as early as any of its records.               *)
LEMMA FaultTimeIs ==
  ASSUME InputOK, NEW j \in Done(timed),
         \A i \in Done(timed) : timed[i].doc = timed[j].doc
                                => timed[j].completion <= timed[i].completion
  PROVE  FaultTime(timed, timed[j].doc) = timed[j].completion
<1> DEFINE T == {timed[k].completion : k \in Outcomes(timed, timed[j].doc)}
<1>1. \A k \in Done(timed) : timed[k].completion \in Nat
  BY TimedFacts, MeasuresAssumption
<1>2. T \in SUBSET Nat /\ timed[j].completion \in T
  BY <1>1 DEF Outcomes
<1>3. Min(T) \in T
  BY <1>2, MinOf
<1>4. \A x \in T : Min(T) <= x
  <2>1. PICK n \in T : \A m \in T : n <= m
    BY <1>2, LeastOf
  <2> QED
    BY <2>1 DEF Min
<1>5. PICK i \in Outcomes(timed, timed[j].doc) : Min(T) = timed[i].completion
  BY <1>3
<1>6. timed[j].completion <= timed[i].completion /\ i \in Done(timed)
  BY <1>5 DEF Outcomes
<1>7. Min(T) <= timed[j].completion
  BY <1>2, <1>4
<1>8. Min(T) = timed[j].completion
  BY <1>1, <1>5, <1>6, <1>7
<1> QED
  BY <1>8 DEF FaultTime

(* A count of zero: no failure is within the window of any fault. *)
LEMMA ZeroBlastMeans ==
  ASSUME InputOK
  PROVE  ZeroBlast(timed, Faults, Window) <=>
           \A f \in Faults : Collateral(timed, Faults, f, Window) = {}
<1> DEFINE P == {p \in Faults \X DOMAIN timed :
                   p[2] \in Collateral(timed, Faults, p[1], Window)}
<1>1. IsFiniteSet(Faults \X DOMAIN timed)
  BY TimedFacts, MeasuresAssumption, FS_Product
<1>2. IsFiniteSet(P)
  BY <1>1, FS_Subset
<1>3. ZeroBlast(timed, Faults, Window) <=> P = {}
  BY <1>2, FS_EmptySet DEF ZeroBlast
<1>4. P = {} <=> \A f \in Faults : Collateral(timed, Faults, f, Window) = {}
  <2>1. ASSUME NEW f \in Faults, NEW k \in Collateral(timed, Faults, f, Window)
        PROVE  <<f, k>> \in P
    BY <2>1 DEF Collateral, Unrelated
  <2>2. ASSUME NEW p \in P
        PROVE  p[1] \in Faults /\ p[2] \in Collateral(timed, Faults, p[1], Window)
    OBVIOUS
  <2> HIDE DEF P
  <2> QED
    BY <2>1, <2>2
<1> QED
  BY <1>3, <1>4

-----------------------------------------------------------------------------
(* Recursion                                                               *)

(* What holds of zero and passes from a number to the next holds of all.   *)
LEMMA AllNaturals ==
  ASSUME NEW S, 0 \in S, \A n \in Nat : n \in S => n + 1 \in S
  PROVE  \A n \in Nat : n \in S
<1> SUFFICES ASSUME Nat \ S # {}
             PROVE  FALSE
  OBVIOUS
<1>1. PICK n \in Nat \ S : \A m \in Nat \ S : n <= m
  BY LeastOf
<1>2. n # 0 /\ n - 1 \in Nat
  BY <1>1
<1>3. n - 1 \in S
  BY <1>1, <1>2
<1>4. (n - 1) + 1 \in S /\ (n - 1) + 1 = n
  BY <1>2, <1>3
<1> QED
  BY <1>1, <1>4

(* A function on 0..n that is first at 0 and goes on by step exists.       *)
GoesOn(g, n, T, first, step) ==
  /\ g \in [0..n -> T] /\ g[0] = first
  /\ \A i \in 1..n : g[i] = step[<<i, g[i - 1]>>]

(* For every first value and every step there is such a function.          *)
LEMMA Recursion ==
  ASSUME NEW T, NEW n \in Nat, NEW first \in T, NEW step \in [(1..n) \X T -> T]
  PROVE  \E g : GoesOn(g, n, T, first, step)
<1> DEFINE S == {m \in Nat : m <= n => \E g : GoesOn(g, m, T, first, step)}
<1>1. 0 \in S
  <2>1. GoesOn([i \in 0..0 |-> first], 0, T, first, step)
    BY DEF GoesOn
  <2> QED
    BY <2>1
<1>2. ASSUME NEW m \in Nat, m \in S
      PROVE  m + 1 \in S
  <2> SUFFICES ASSUME m + 1 <= n
               PROVE  \E g : GoesOn(g, m + 1, T, first, step)
    OBVIOUS
  <2>1. PICK g : GoesOn(g, m, T, first, step)
    BY <1>2
  <2> USE DEF GoesOn
  <2> DEFINE h == [i \in 0..(m + 1) |-> IF i <= m THEN g[i]
                                        ELSE step[<<m + 1, g[m]>>]]
  <2>2. g[m] \in T /\ m + 1 \in 1..n
    BY <2>1
  <2>3. step[<<m + 1, g[m]>>] \in T
    BY <2>2
  <2>4. h \in [0..(m + 1) -> T]
    BY <2>1, <2>3
  <2>5. h[0] = first
    BY <2>1
  <2>6. ASSUME NEW i \in 1..(m + 1)
        PROVE  h[i] = step[<<i, h[i - 1]>>]
    <3>1. i - 1 \in 0..m /\ h[i - 1] = g[i - 1]
      OBVIOUS
    <3>2. CASE i <= m
      <4>1. i \in 1..m /\ h[i] = g[i]
        BY <3>2
      <4>2. g[i] = step[<<i, g[i - 1]>>]
        BY <2>1, <4>1
      <4> HIDE DEF h
      <4> QED
        BY <3>1, <4>1, <4>2
    <3>3. CASE i = m + 1
      <4>1. h[m + 1] = step[<<m + 1, g[m]>>] /\ i - 1 = m
        BY <3>3
      <4> HIDE DEF h
      <4> QED
        BY <3>1, <3>3, <4>1
    <3> QED
      BY <3>2, <3>3
  <2>7. GoesOn(h, m + 1, T, first, step)
    BY <2>4, <2>5, <2>6
  <2> QED
    BY <2>7
<1>3. n \in S
  <2> HIDE DEF S
  <2> QED
    BY <1>1, <1>2, AllNaturals
<1> QED
  BY <1>3

(* Where f and g have had the same value, they have the same next one.     *)
Alike(f, g, n) == \A i \in 1..n : f[i - 1] = g[i - 1] => f[i] = g[i]

(* Two functions that start alike and go on alike agree. *)
LEMMA Agree ==
  ASSUME NEW n \in Nat, NEW f, NEW g, f[0] = g[0],
         Alike(f, g, n)
  PROVE  \A i \in 0..n : f[i] = g[i]
<1> DEFINE S == {i \in Nat : i <= n => f[i] = g[i]}
<1>1. 0 \in S
  OBVIOUS
<1>2. ASSUME NEW i \in Nat, i \in S
      PROVE  i + 1 \in S
  <2> SUFFICES ASSUME i + 1 <= n
               PROVE  f[i + 1] = g[i + 1]
    OBVIOUS
  <2>1. i + 1 \in 1..n /\ (i + 1) - 1 = i /\ f[i] = g[i]
    BY <1>2
  <2> QED
    BY <2>1 DEF Alike
<1>3. \A i \in Nat : i \in S
  <2> HIDE DEF S
  <2> QED
    BY <1>1, <1>2, AllNaturals
<1> QED
  BY <1>3

(* The greater of two numbers. *)
LEMMA MaxOfTwo ==
  ASSUME NEW x \in Int, NEW y \in Int
  PROVE  /\ Max({x, y}) \in {x, y} /\ Max({x, y}) >= x /\ Max({x, y}) >= y
<1>1. \E m \in {x, y} : \A o \in {x, y} : m >= o
  <2>1. CASE x >= y
    BY <2>1
  <2>2. CASE y >= x
    BY <2>2
  <2> QED
    BY <2>1, <2>2
<1> QED
  BY <1>1 DEF Max

-----------------------------------------------------------------------------
(* Where pieces start in the text                                          *)

(* What str.find() finds is a place, and none before it is. *)
LEMMA FindIs ==
  ASSUME NEW string, NEW piece, NEW from \in Nat, Len(string) \in Nat,
         Len(piece) \in Nat
  PROVE  LET places == {p \in from..(Len(string) - Len(piece)) :
                          SubSeq(string, p + 1, p + Len(piece)) = piece}
             found == Find(string, piece, from)
         IN /\ found = -1 \/ found \in places
            /\ \A p \in places : found \in places /\ found <= p
<1> DEFINE places == {p \in from..(Len(string) - Len(piece)) :
                        SubSeq(string, p + 1, p + Len(piece)) = piece}
<1>1. places \in SUBSET Nat
  OBVIOUS
<1>2. Find(string, piece, from) = IF places = {} THEN -1 ELSE Min(places)
  BY DEF Find
<1> HIDE DEF places
<1>3. CASE places = {}
  BY <1>2, <1>3 DEF places
<1>4. CASE places # {}
  BY <1>1, <1>2, <1>4, MinOf DEF places
<1> QED
  BY <1>3, <1>4

(* What is taken for the start of a piece is a number. *)
LEMMA PlaceIs ==
  ASSUME NEW string, NEW piece, NEW cursor \in Nat, Len(string) \in Nat,
         Len(piece) \in Nat
  PROVE  Place(string, piece, cursor) \in Nat
<1>1. /\ Find(string, piece, cursor) \in Nat \cup {-1}
      /\ Find(string, piece, 0) \in Nat \cup {-1}
  BY FindIs
<1> QED
  BY <1>1 DEF Place

(* The cursors are numbers, and each follows from the one before. *)
LEMMA CursorsAre ==
  ASSUME NEW string, NEW pieces, Len(string) \in Nat, Len(pieces) \in Nat,
         \A i \in 1..Len(pieces) : Len(pieces[i]) \in Nat
  PROVE  LET c == Cursors(string, pieces)
         IN /\ c \in [0..Len(pieces) -> Nat] /\ c[0] = 0
            /\ \A i \in 1..Len(pieces) :
                 c[i] = Max({c[i - 1], Place(string, pieces[i], c[i - 1]) + 1})
<1> DEFINE n == Len(pieces)
           Next1(i, x) == Max({x, Place(string, pieces[i], x) + 1})
           step == [p \in (1..n) \X Nat |-> Next1(p[1], p[2])]
           c == Cursors(string, pieces)
<1>0. n \in Nat /\ 0 \in Nat
  OBVIOUS
<1> HIDE DEF n
<1>1. ASSUME NEW i \in 1..n, NEW x \in Nat
      PROVE  Next1(i, x) \in Nat
  <2>1. Place(string, pieces[i], x) + 1 \in Nat
    BY PlaceIs DEF n
  <2> DEFINE y == Place(string, pieces[i], x) + 1
  <2>2. x \in Int /\ y \in Int
    BY <2>1
  <2> HIDE DEF y
  <2>3. Max({x, y}) \in {x, y}
    BY <2>2, MaxOfTwo
  <2>4. Max({x, y}) \in Nat
    BY <2>1, <2>3 DEF y
  <2> QED
    BY <2>4 DEF y
<1>2. step \in [(1..n) \X Nat -> Nat]
  <2> HIDE DEF Next1
  <2> QED
    BY <1>1
<1>3. PICK g \in [0..n -> Nat] : g[0] = 0 /\ \A i \in 1..n : g[i] = step[<<i, g[i - 1]>>]
  <2> HIDE DEF step
  <2>1. PICK g : GoesOn(g, n, Nat, 0, step)
    BY <1>0, <1>2, Recursion
  <2> QED
    BY <2>1 DEF GoesOn
<1>4. \A i \in 1..n : i - 1 \in 0..n /\ g[i] = Next1(i, g[i - 1])
  <2> SUFFICES ASSUME NEW i \in 1..n
               PROVE  i - 1 \in 0..n /\ g[i] = Next1(i, g[i - 1])
    OBVIOUS
  <2>1. i - 1 \in 0..n
    BY <1>0
  <2>3. g[i - 1] \in Nat
    BY <1>3, <2>1
  <2>2. g[i] = step[<<i, g[i - 1]>>]
    BY <1>3
  <2> HIDE DEF Next1
  <2> QED
    BY <2>1, <2>2, <2>3
<1>5. g = [i \in 0..n |-> IF i = 0 THEN 0 ELSE Next1(i, g[i - 1])]
  <2> HIDE DEF Next1
  <2> QED
    BY <1>3, <1>4
<1>6. c = [i \in 0..n |-> IF i = 0 THEN 0 ELSE Next1(i, c[i - 1])]
  BY <1>5 DEF Cursors, n
<1> HIDE DEF Next1, c
<1>7. c[0] = 0 /\ \A i \in 1..n : c[i] = Next1(i, c[i - 1])
  BY <1>0, <1>6
<1>8. \A i \in 0..n : c[i] = g[i]
  <2>1. c[0] = g[0]
    BY <1>3, <1>7
  <2>2. Alike(c, g, n)
    BY <1>4, <1>7 DEF Alike
  <2> QED
    BY <1>0, <2>1, <2>2, Agree
<1>9. c \in [0..n -> Nat]
  BY <1>3, <1>6, <1>8
<1> QED
  BY <1>7, <1>9 DEF Next1, c, n

(* A piece has the length that is cut out. *)
LEMMA PieceLength ==
  ASSUME NEW string, Len(string) \in Nat, NEW from \in 1..Len(string),
         NEW to \in from..Len(string)
  PROVE  /\ Len(SubSeq(string, from, to)) = to - from + 1
         /\ Len(SubSeq(string, from, to)) \in Nat
<1>1. \A i \in from..to : string[i] \in {string[j] : j \in from..to}
  OBVIOUS
<1>2. Len(SubSeq(string, from, to)) = to - from + 1
  BY <1>1, SubSeqProperties
<1>3. to - from + 1 \in Nat
  OBVIOUS
<1> QED
  BY <1>2, <1>3

(* A piece that starts where the cursor is, or later, is found there, or   *)
(* sooner where the same characters stand. *)
LEMMA PlaceFound ==
  ASSUME NEW string, Len(string) \in Nat, NEW from \in 1..Len(string),
         NEW to \in from..Len(string), NEW cursor \in 0..(from - 1)
  PROVE  LET piece == SubSeq(string, from, to)
             place == Place(string, piece, cursor)
         IN /\ Len(piece) = to - from + 1
            /\ place \in cursor..(from - 1)
            /\ place \in 0..(Len(string) - Len(piece))
            /\ SubSeq(string, place + 1, place + Len(piece)) = piece
<1> DEFINE piece == SubSeq(string, from, to)
           n == Len(piece)
           places == {p \in cursor..(Len(string) - n) :
                        SubSeq(string, p + 1, p + n) = piece}
           found == Find(string, piece, cursor)
<1>1. n = to - from + 1
  BY PieceLength
<1>2. n \in Nat /\ from - 1 \in cursor..(Len(string) - n)
  BY <1>1
<1>3. (from - 1) + 1 = from /\ (from - 1) + n = to
  BY <1>1
<1> HIDE DEF n
<1>4. from - 1 \in places
  BY <1>2, <1>3
<1>5. found \in places /\ found <= from - 1
  <2>1. Len(piece) \in Nat /\ cursor \in Nat
    BY <1>2 DEF n
  <2> QED
    BY <1>4, <2>1, FindIs DEF n
<1>6. Place(string, piece, cursor) = found
  <2>1. found >= 0
    BY <1>5
  <2> QED
    BY <2>1 DEF Place
<1>7. /\ found \in cursor..(from - 1) /\ found \in 0..(Len(string) - n)
      /\ SubSeq(string, found + 1, found + n) = piece
  <2>1. /\ found \in cursor..(Len(string) - n)
        /\ SubSeq(string, found + 1, found + n) = piece
    BY <1>5
  <2> HIDE DEF found
  <2> QED
    BY <1>2, <1>5, <2>1
<1> QED
  BY <1>1, <1>6, <1>7 DEF n

(* Text and pieces as the properties of the inputs give them. *)
LEMMA TextFacts ==
  ASSUME InputOK
  PROVE  /\ Len(text) \in Nat /\ Len(cuts) \in Nat
         /\ DOMAIN cuts = 1..Len(cuts)
         /\ \A i \in 1..Len(cuts) : /\ cuts[i][1] \in 1..Len(text)
                                    /\ cuts[i][2] \in cuts[i][1]..Len(text)
         /\ \A i, j \in 1..Len(cuts) : i < j => cuts[i][1] < cuts[j][1]
<1>1. /\ Len(text) \in Nat /\ Len(cuts) \in Nat /\ DOMAIN cuts = 1..Len(cuts)
  BY LenProperties DEF InputOK
<1>2. \A i \in 1..Len(cuts) : cuts[i] \in (1..Len(text)) \X (1..Len(text))
  BY <1>1, ElementOfSeq DEF InputOK
<1>3. \A i \in 1..Len(cuts) : cuts[i][1] <= cuts[i][2]
  BY <1>1 DEF InputOK
<1>4. \A i \in 1..Len(cuts) : cuts[i][1] \in 1..Len(text) /\ cuts[i][2] \in 1..Len(text)
  BY <1>2
<1>5. \A i \in 1..Len(cuts) : cuts[i][2] \in cuts[i][1]..Len(text)
  BY <1>1, <1>3, <1>4
<1> QED
  BY <1>1, <1>4, <1>5 DEF InputOK

(* "located in order so repeated chunk text still yields monotonically     *)
(* increasing offsets" (split.py:40-41): for any text and any pieces that  *)
(* start one after another, however they overlap and repeat each other.    *)
THEOREM MeasuresOffsets == Inputs => []OffsetsIncrease
<1>1. InputOK => OffsetsIncrease
  <2> SUFFICES ASSUME InputOK
               PROVE  OffsetsIncrease
    OBVIOUS
  <2> DEFINE n == Len(cuts)
             pieces == [i \in DOMAIN cuts |-> SubSeq(text, cuts[i][1], cuts[i][2])]
             c == Cursors(text, pieces)
             start(i) == Place(text, pieces[i], c[i - 1])
             Found(i) == /\ start(i) \in c[i - 1]..(cuts[i][1] - 1)
                         /\ start(i) \in 0..(Len(text) - Len(pieces[i]))
                         /\ SubSeq(text, start(i) + 1, start(i) + Len(pieces[i]))
                              = pieces[i]
  <2>1. /\ Len(text) \in Nat /\ n \in Nat /\ DOMAIN cuts = 1..n
        /\ \A i \in 1..n : /\ cuts[i][1] \in 1..Len(text)
                           /\ cuts[i][2] \in cuts[i][1]..Len(text)
        /\ \A i, j \in 1..n : i < j => cuts[i][1] < cuts[j][1]
    BY TextFacts
  <2>2. Len(pieces) = n /\ DOMAIN pieces = 1..n
    BY <2>1
  <2>3. \A i \in 1..n : Len(pieces[i]) \in Nat
    <3> SUFFICES ASSUME NEW i \in 1..n
                 PROVE  Len(pieces[i]) \in Nat
      OBVIOUS
    <3>1. pieces[i] = SubSeq(text, cuts[i][1], cuts[i][2])
      BY <2>1
    <3>2. /\ Len(text) \in Nat /\ cuts[i][1] \in 1..Len(text)
          /\ cuts[i][2] \in cuts[i][1]..Len(text)
      BY <2>1
    <3> HIDE DEF pieces
    <3> QED
      BY <3>1, <3>2, PieceLength
  <2>4. /\ c \in [0..n -> Nat] /\ c[0] = 0
        /\ \A i \in 1..n : c[i] = Max({c[i - 1], start(i) + 1})
    <3> HIDE DEF pieces, c, n, start
    <3>1. /\ Len(text) \in Nat /\ Len(pieces) \in Nat
          /\ \A i \in 1..Len(pieces) : Len(pieces[i]) \in Nat
      BY <2>1, <2>2, <2>3
    <3>2. /\ c \in [0..Len(pieces) -> Nat] /\ c[0] = 0
          /\ \A i \in 1..Len(pieces) :
               c[i] = Max({c[i - 1], Place(text, pieces[i], c[i - 1]) + 1})
      BY <3>1, CursorsAre DEF c
    <3> QED
      BY <2>2, <3>2 DEF start
  <2>5. ASSUME NEW i \in 1..n, c[i - 1] < cuts[i][1]
        PROVE  Found(i) /\ c[i] = start(i) + 1
    <3>1. pieces[i] = SubSeq(text, cuts[i][1], cuts[i][2])
      BY <2>1
    <3>2. c[i - 1] \in 0..(cuts[i][1] - 1)
      <4>1. i - 1 \in 0..n
        BY <2>1
      <4>2. c[i - 1] \in Nat
        BY <2>4, <4>1
      <4> QED
        BY <2>1, <2>5, <4>2
    <3> HIDE DEF pieces, c
    <3>3. Found(i)
      BY <2>1, <3>1, <3>2, PlaceFound
    <3>4. start(i) \in c[i - 1]..(cuts[i][1] - 1) /\ c[i] = Max({c[i - 1], start(i) + 1})
      BY <2>4, <3>3
    <3> HIDE DEF start
    <3>5. c[i - 1] \in Int /\ start(i) + 1 \in Int /\ c[i - 1] < start(i) + 1
      BY <2>1, <3>2, <3>4
    <3>6. Max({c[i - 1], start(i) + 1}) = start(i) + 1
      <4> DEFINE x == c[i - 1]
                 y == start(i) + 1
      <4>1. x \in Int /\ y \in Int /\ x < y
        BY <3>5
      <4> HIDE DEF x, y
      <4>2. Max({x, y}) \in {x, y} /\ Max({x, y}) >= y
        BY <4>1, MaxOfTwo
      <4>3. Max({x, y}) = y
        BY <4>1, <4>2
      <4> QED
        BY <4>3 DEF x, y
    <3> QED
      BY <3>3, <3>4, <3>6
  <2> HIDE DEF Found, start, c, n, pieces
  <2> DEFINE S == {i \in Nat : i < n => c[i] < cuts[i + 1][1]}
  <2>6. \A i \in Nat : i \in S
    <3>1. 0 \in S
      <4> SUFFICES ASSUME 0 < n
                   PROVE  c[0] < cuts[0 + 1][1]
        OBVIOUS
      <4>1. 0 + 1 \in 1..n
        BY <2>1
      <4>2. cuts[0 + 1][1] \in 1..Len(text)
        BY <2>1, <4>1
      <4>3. cuts[0 + 1][1] > 0
        BY <2>1, <4>2
      <4> QED
        BY <2>4, <4>3
    <3>2. ASSUME NEW i \in Nat, i \in S
          PROVE  i + 1 \in S
      <4> SUFFICES ASSUME i + 1 < n
                   PROVE  c[i + 1] < cuts[(i + 1) + 1][1]
        OBVIOUS
      <4>1. i + 1 \in 1..n /\ (i + 1) - 1 = i /\ (i + 1) + 1 \in 1..n /\ i + 1 < (i + 1) + 1
        BY <2>1
      <4>2. c[i] < cuts[i + 1][1]
        BY <2>1, <3>2
      <4>3. Found(i + 1) /\ c[i + 1] = start(i + 1) + 1
        BY <2>5, <4>1, <4>2
      <4>4. start(i + 1) \in c[i]..(cuts[i + 1][1] - 1)
        BY <4>1, <4>3 DEF Found
      <4>5. cuts[i + 1][1] < cuts[(i + 1) + 1][1]
        BY <2>1, <4>1
      <4>6. /\ cuts[i + 1][1] \in Int /\ cuts[(i + 1) + 1][1] \in Int
            /\ c[i] \in Int
        <5>1. i \in 0..n
          BY <2>1
        <5>2. c[i] \in Nat
          BY <2>4, <5>1
        <5> QED
          BY <2>1, <4>1, <5>2
      <4> QED
        BY <4>3, <4>4, <4>5, <4>6
    <3> HIDE DEF S
    <3> QED
      BY <3>1, <3>2, AllNaturals
  <2>7. ASSUME NEW i \in 1..n
        PROVE  /\ Found(i) /\ c[i] = start(i) + 1 /\ c[i] \in Nat
               /\ start(i) >= c[i - 1] /\ start(i) \in Nat
    <3>1. i - 1 \in S /\ i - 1 \in 0..n /\ i - 1 < n /\ (i - 1) + 1 = i
      BY <2>1, <2>6
    <3>2. Found(i) /\ c[i] = start(i) + 1
      BY <2>5, <3>1
    <3>3. start(i) \in c[i - 1]..(cuts[i][1] - 1) /\ c[i - 1] \in Nat
      BY <2>4, <3>1, <3>2 DEF Found
    <3> QED
      BY <2>1, <2>4, <3>2, <3>3
  <2> DEFINE R == {i \in Nat : i <= n => \A j \in 1..i : start(j) < c[i]}
  <2>8. \A i \in Nat : i \in R
    <3>1. 0 \in R
      OBVIOUS
    <3>2. ASSUME NEW i \in Nat, i \in R
          PROVE  i + 1 \in R
      <4> SUFFICES ASSUME i + 1 <= n, NEW j \in 1..(i + 1)
                   PROVE  start(j) < c[i + 1]
        OBVIOUS
      <4>0. n \in Nat
        BY <2>1
      <4>1. i + 1 \in 1..n /\ (i + 1) - 1 = i
        BY <4>0
      <4>2. /\ c[i + 1] = start(i + 1) + 1 /\ start(i + 1) >= c[i]
            /\ start(i + 1) \in Nat
        BY <2>7, <4>1
      <4>3. CASE j = i + 1
        BY <4>2, <4>3
      <4>4. CASE j # i + 1
        <5>1. j \in 1..i /\ i \in 1..n /\ j \in 1..n
          BY <2>1, <4>4
        <5>2. start(j) < c[i] /\ start(j) \in Nat /\ c[i] \in Nat
          BY <2>1, <2>7, <3>2, <5>1
        <5> QED
          BY <4>2, <5>2
      <4> QED
        BY <4>3, <4>4
    <3> HIDE DEF R
    <3> QED
      BY <3>1, <3>2, AllNaturals
  <2>9. ASSUME NEW i \in 1..n, NEW j \in 1..n, j < i
        PROVE  start(j) < start(i)
    <3>1. i - 1 \in R /\ i - 1 <= n /\ j \in 1..(i - 1) /\ i - 1 \in 0..n
      BY <2>1, <2>8, <2>9
    <3>2. start(j) < c[i - 1] /\ start(i) >= c[i - 1] /\ c[i - 1] \in Nat
      BY <2>4, <2>7, <3>1
    <3> QED
      BY <2>7, <3>2
  <2>10. Starts(text, pieces) = [i \in 1..n |-> start(i)]
    BY <2>2 DEF Starts, start, c
  <2>11. \A i \in 1..n : Starts(text, pieces)[i] = start(i)
    BY <2>10
  <2>12. \A i \in 1..n :
           /\ start(i) \in {p \in 0..(Len(text) - Len(pieces[i])) :
                              SubSeq(text, p + 1, p + Len(pieces[i])) = pieces[i]}
           /\ start(i) <= cuts[i][1] - 1
    <3> SUFFICES ASSUME NEW i \in 1..n
                 PROVE  /\ start(i) \in {p \in 0..(Len(text) - Len(pieces[i])) :
                              SubSeq(text, p + 1, p + Len(pieces[i])) = pieces[i]}
                        /\ start(i) <= cuts[i][1] - 1
      OBVIOUS
    <3>1. Found(i)
      BY <2>7
    <3> QED
      BY <2>1, <3>1 DEF Found
  <2>13. \A i \in 1..n : \A j \in 1..n : j < i => start(j) < start(i)
    BY <2>9
  <2>14. \A i \in DOMAIN cuts :
           LET starts == Starts(text, pieces)
           IN /\ starts[i] \in {p \in 0..(Len(text) - Len(pieces[i])) :
                              SubSeq(text, p + 1, p + Len(pieces[i])) = pieces[i]}
              /\ starts[i] <= cuts[i][1] - 1
              /\ \A j \in DOMAIN cuts : j < i => starts[j] < starts[i]
    BY <2>1, <2>11, <2>12, <2>13
  <2> QED
    BY <2>14 DEF OffsetsIncrease, pieces
<1> QED
  BY <1>1, InputsOK, PTL

-----------------------------------------------------------------------------
(* Stability over repetitions                                              *)

(* Partial sums, each from the one before. *)
PartialSums(s, f, n) ==
  /\ s \in [0..n -> Int] /\ s[0] = 0
  /\ \A i \in 1..n : s[i] = s[i - 1] + f[i]

(* A sum is the last of its partial sums. *)
LEMMA SumOfIs ==
  ASSUME NEW n \in Nat, NEW f \in [1..n -> Int]
  PROVE  \E s : PartialSums(s, f, n) /\ SumOf(f, n) = s[n]
<1> DEFINE step == [p \in (1..n) \X Int |-> p[2] + f[p[1]]]
           s == CHOOSE sum : sum = [i \in 0..n |-> IF i = 0 THEN 0 ELSE sum[i - 1] + f[i]]
<1>1. step \in [(1..n) \X Int -> Int] /\ 0 \in Int
  OBVIOUS
<1>2. PICK g : GoesOn(g, n, Int, 0, step)
  <2> HIDE DEF step
  <2> QED
    BY <1>1, Recursion
<1>3. g \in [0..n -> Int] /\ g[0] = 0
  BY <1>2 DEF GoesOn
<1>4. \A i \in 1..n : g[i] = g[i - 1] + f[i]
  <2> SUFFICES ASSUME NEW i \in 1..n
               PROVE  g[i] = g[i - 1] + f[i]
    OBVIOUS
  <2>1. g[i] = step[<<i, g[i - 1]>>]
    BY <1>2 DEF GoesOn
  <2>2. i - 1 \in 0..n
    OBVIOUS
  <2>3. g[i - 1] \in Int
    BY <1>3, <2>2
  <2> QED
    BY <2>1, <2>3
<1>5. g = [i \in 0..n |-> IF i = 0 THEN 0 ELSE g[i - 1] + f[i]]
  BY <1>3, <1>4
<1>6. s = [i \in 0..n |-> IF i = 0 THEN 0 ELSE s[i - 1] + f[i]]
  BY <1>5
<1>7. SumOf(f, n) = s[n]
  BY DEF SumOf
<1> HIDE DEF s
<1>8. s[0] = 0 /\ \A i \in 1..n : s[i] = s[i - 1] + f[i]
  BY <1>6
<1>9. \A i \in 0..n : s[i] = g[i]
  <2>1. Alike(s, g, n)
    BY <1>4, <1>8 DEF Alike
  <2>2. s[0] = g[0]
    BY <1>3, <1>8
  <2> QED
    BY <2>1, <2>2, Agree
<1>10. s \in [0..n -> Int]
  BY <1>3, <1>6, <1>9
<1> QED
  BY <1>7, <1>8, <1>10 DEF PartialSums

(* A sum of terms that are not negative is at least any two of them. *)
LEMMA TwoTerms ==
  ASSUME NEW n \in Nat, NEW f \in [1..n -> Nat], NEW s, PartialSums(s, f, n),
         NEW j \in 1..n, NEW k \in 1..n, j # k
  PROVE  s[n] >= f[j] + f[k]
<1> DEFINE Part(i, l) == IF l <= i THEN f[l] ELSE 0
           S == {i \in Nat : i <= n => s[i] >= Part(i, j) + Part(i, k)}
<1>1. 0 \in S
  BY DEF PartialSums
<1>2. ASSUME NEW i \in Nat, i \in S
      PROVE  i + 1 \in S
  <2> SUFFICES ASSUME i + 1 <= n
               PROVE  s[i + 1] >= Part(i + 1, j) + Part(i + 1, k)
    OBVIOUS
  <2>1. i + 1 \in 1..n /\ (i + 1) - 1 = i /\ i \in 0..n
    OBVIOUS
  <2>2. s[i + 1] = s[i] + f[i + 1] /\ s[i] \in Int /\ f[i + 1] \in Nat
    BY <2>1 DEF PartialSums
  <2>3. s[i] >= Part(i, j) + Part(i, k)
    BY <1>2
  <2>4. f[j] \in Nat /\ f[k] \in Nat
    OBVIOUS
  <2>5. CASE j = i + 1
    <3>1. Part(i, j) = 0 /\ Part(i + 1, j) = f[i + 1] /\ Part(i + 1, k) = Part(i, k)
      BY <2>5
    <3>2. Part(i, k) \in Int
      BY <2>4
    <3> HIDE DEF Part
    <3> QED
      BY <2>2, <2>3, <3>1, <3>2
  <2>6. CASE k = i + 1
    <3>1. Part(i, k) = 0 /\ Part(i + 1, k) = f[i + 1] /\ Part(i + 1, j) = Part(i, j)
      BY <2>6
    <3>2. Part(i, j) \in Int
      BY <2>4
    <3> HIDE DEF Part
    <3> QED
      BY <2>2, <2>3, <3>1, <3>2
  <2>7. CASE j # i + 1 /\ k # i + 1
    <3>1. Part(i + 1, k) = Part(i, k) /\ Part(i + 1, j) = Part(i, j)
      BY <2>7
    <3>2. Part(i, j) \in Int /\ Part(i, k) \in Int
      BY <2>4
    <3> HIDE DEF Part
    <3> QED
      BY <2>2, <2>3, <3>1, <3>2
  <2> QED
    BY <2>5, <2>6, <2>7
<1>3. n \in S
  <2> HIDE DEF S
  <2> QED
    BY <1>1, <1>2, AllNaturals
<1>4. Part(n, j) = f[j] /\ Part(n, k) = f[k]
  OBVIOUS
<1> QED
  BY <1>3, <1>4

(* Counting the members of a set of indices one index at a time. *)
LEMMA CountedOneByOne ==
  ASSUME NEW n \in Nat, NEW V \in SUBSET (1..n), NEW i \in 1..n
  PROVE  /\ Cardinality(V \cap (1..0)) = 0
         /\ Cardinality(V \cap (1..(i - 1))) \in Nat
         /\ Cardinality(V \cap (1..i)) = Cardinality(V \cap (1..(i - 1)))
                                           + IF i \in V THEN 1 ELSE 0
<1> DEFINE A == V \cap (1..(i - 1))
<1>1. V \cap (1..0) = {}
  OBVIOUS
<1>2. IsFiniteSet(A)
  <2>1. IsFiniteSet(1..n)
    BY FS_Interval
  <2>2. A \in SUBSET (1..n)
    OBVIOUS
  <2> QED
    BY <2>1, <2>2, FS_Subset
<1>3. i \in V => V \cap (1..i) = A \cup {i}
  OBVIOUS
<1>4. i \notin V => V \cap (1..i) = A
  OBVIOUS
<1>5. i \notin A
  OBVIOUS
<1> HIDE DEF A
<1>6. Cardinality(A) \in Nat /\ Cardinality(A \cup {i}) = Cardinality(A) + 1
  BY <1>2, <1>5, FS_AddElement, FS_CardinalityType
<1>7. Cardinality(V \cap (1..0)) = 0
  BY <1>1, FS_EmptySet
<1>8. Cardinality(V \cap (1..i)) = Cardinality(A) + IF i \in V THEN 1 ELSE 0
  <2>1. CASE i \in V
    BY <1>3, <1>6, <2>1
  <2>2. CASE i \notin V
    <3>1. V \cap (1..i) = A
      BY <1>4, <2>2
    <3> QED
      BY <1>6, <2>2, <3>1
  <2> QED
    BY <2>1, <2>2
<1> QED
  BY <1>6, <1>7, <1>8 DEF A

(* Squares of whole numbers, and what one more value adds to a sum of them.*)
LEMMA SquareNat ==
  ASSUME NEW x \in Int
  PROVE  x * x \in Nat
OBVIOUS

LEMMA SquareStep ==
  ASSUME NEW m \in Int, NEW u \in Int, NEW q \in Int, NEW t \in Int,
         NEW c \in Int, NEW v \in Int
  PROVE  m * m * (q + v * v) - 2 * m * u * (t + v) + (c + 1) * (u * u)
           = (m * m * q - 2 * m * u * t + c * (u * u)) + (m * v - u) * (m * v - u)
OBVIOUS

(* The squared distances of the values of a metric from u over m: a sum    *)
(* that the total, the sum of squares and the number of values give.       *)
LEMMA SquaresApart ==
  ASSUME InputOK, NEW m \in Int, NEW u \in Int,
         NEW j \in Values(figures), NEW k \in Values(figures), j # k
  PROVE  /\ Total(figures) \in Int /\ Squares(figures) \in Int
         /\ m * m * Squares(figures) - 2 * m * u * Total(figures)
              + Cardinality(Values(figures)) * (u * u)
            >= (m * figures[j] - u) * (m * figures[j] - u)
                 + (m * figures[k] - u) * (m * figures[k] - u)
<1> DEFINE n == Len(figures)
           V == Values(figures)
           x == [i \in 1..n |-> IF i \in V THEN figures[i] ELSE 0]
           y == [i \in 1..n |-> IF i \in V THEN figures[i] * figures[i] ELSE 0]
           d == [i \in 1..n |-> IF i \in V THEN (m * figures[i] - u) * (m * figures[i] - u)
                                ELSE 0]
           c(i) == Cardinality(V \cap (1..i))
<1>1. /\ n \in Nat /\ DOMAIN figures = 1..n /\ V \in SUBSET (1..n)
      /\ \A i \in V : figures[i] \in Nat
  <2>1. n \in Nat /\ DOMAIN figures = 1..n
    BY LenProperties DEF InputOK
  <2>2. \A i \in 1..n : figures[i] \in Figures \cup {Absent}
    BY <2>1, ElementOfSeq DEF InputOK
  <2> QED
    BY <2>1, <2>2, MeasuresAssumption DEF Values
<1> HIDE DEF V, n
<1>2. x \in [1..n -> Int] /\ y \in [1..n -> Int] /\ d \in [1..n -> Nat]
  <2>1. ASSUME NEW i \in V
        PROVE  /\ figures[i] \in Int /\ figures[i] * figures[i] \in Int
               /\ (m * figures[i] - u) * (m * figures[i] - u) \in Nat
    <3>1. figures[i] \in Int
      BY <1>1
    <3>2. m * figures[i] - u \in Int
      BY <3>1
    <3> QED
      BY <3>1, <3>2, SquareNat
  <2> QED
    BY <2>1
<1>3. PICK t : PartialSums(t, x, n) /\ Total(figures) = t[n]
  <2>1. Total(figures) = SumOf(x, n)
    BY <1>1 DEF Total, V, n
  <2> HIDE DEF x
  <2> QED
    BY <1>1, <1>2, <2>1, SumOfIs
<1>4. PICK q : PartialSums(q, y, n) /\ Squares(figures) = q[n]
  <2>1. Squares(figures) = SumOf(y, n)
    BY <1>1 DEF Squares, V, n
  <2> HIDE DEF y
  <2> QED
    BY <1>1, <1>2, <2>1, SumOfIs
<1> DEFINE z == [i \in 0..n |-> m * m * q[i] - 2 * m * u * t[i] + c(i) * (u * u)]
<1>5. \A i \in 0..n : q[i] \in Int /\ t[i] \in Int /\ c(i) \in Int
  <2>1. \A i \in 0..n : q[i] \in Int /\ t[i] \in Int
    BY <1>3, <1>4 DEF PartialSums
  <2>2. ASSUME NEW i \in 0..n
        PROVE  c(i) \in Int
    <3>1. IsFiniteSet(V)
      <4>1. IsFiniteSet(1..n)
        BY <1>1, 1 \in Int, n \in Int, FS_Interval
      <4> QED
        BY <1>1, <4>1, FS_Subset
    <3>2. IsFiniteSet(V \cap (1..i))
      BY <3>1, FS_Intersection
    <3> QED
      BY <3>2, FS_CardinalityType
  <2> QED
    BY <2>1, <2>2
<1>6. PartialSums(z, d, n)
  <2>1. c(0) = 0
    <3>1. V \cap (1..0) = {}
      OBVIOUS
    <3> QED
      BY <3>1, FS_EmptySet
  <2>2. ASSUME NEW i \in 1..n
        PROVE  z[i] = z[i - 1] + d[i]
    <3>1. i - 1 \in 0..n /\ i \in 0..n
      BY <1>1
    <3>2. q[i] = q[i - 1] + y[i] /\ t[i] = t[i - 1] + x[i]
      BY <1>3, <1>4 DEF PartialSums
    <3>3. c(i) = c(i - 1) + IF i \in V THEN 1 ELSE 0
      BY <1>1, CountedOneByOne
    <3> DEFINE a == q[i - 1]
               b == t[i - 1]
               e == c(i - 1)
    <3>4. a \in Int /\ b \in Int /\ e \in Int
      BY <1>5, <3>1
    <3>5. /\ z[i] = m * m * q[i] - 2 * m * u * t[i] + c(i) * (u * u)
          /\ z[i - 1] = m * m * a - 2 * m * u * b + e * (u * u)
      BY <3>1
    <3>6. CASE i \in V
      <4> DEFINE v == figures[i]
      <4>1. v \in Int
        BY <1>1, <3>6
      <4>2. q[i] = a + v * v /\ t[i] = b + v /\ c(i) = e + 1
        BY <3>2, <3>3, <3>6
      <4>3. d[i] = (m * v - u) * (m * v - u)
        BY <3>6
      <4> HIDE DEF a, b, e, v, z, d, c
      <4>4. z[i] = m * m * (a + v * v) - 2 * m * u * (b + v) + (e + 1) * (u * u)
        BY <3>5, <4>2
      <4>5. m * m * (a + v * v) - 2 * m * u * (b + v) + (e + 1) * (u * u)
              = (m * m * a - 2 * m * u * b + e * (u * u)) + (m * v - u) * (m * v - u)
        BY <3>4, <4>1, SquareStep
      <4> QED
        BY <3>5, <4>3, <4>4, <4>5
    <3>7. CASE i \notin V
      <4>1. q[i] = a /\ t[i] = b /\ c(i) = e
        BY <3>2, <3>3, <3>4, <3>7
      <4>2. d[i] = 0
        BY <3>7
      <4>3. m * m * a - 2 * m * u * b + e * (u * u) \in Int
        <5> HIDE DEF a, b, e
        <5> QED
          BY <3>4
      <4> HIDE DEF a, b, e, z, d, c
      <4> QED
        BY <3>5, <4>1, <4>2, <4>3
    <3> QED
      BY <3>6, <3>7
  <2>3. z[0] = 0
    <3>1. q[0] = 0 /\ t[0] = 0 /\ 0 \in 0..n
      BY <1>1, <1>3, <1>4 DEF PartialSums
    <3>2. z[0] = m * m * 0 - 2 * m * u * 0 + 0 * (u * u)
      BY <2>1, <3>1
    <3> QED
      BY <3>2
  <2>4. z \in [0..n -> Int]
    <3> SUFFICES ASSUME NEW i \in 0..n
                 PROVE  m * m * q[i] - 2 * m * u * t[i] + c(i) * (u * u) \in Int
      OBVIOUS
    <3>1. q[i] \in Int /\ t[i] \in Int /\ c(i) \in Int
      BY <1>5
    <3> HIDE DEF c
    <3> QED
      BY <3>1
  <2> HIDE DEF z, d
  <2> QED
    BY <2>2, <2>3, <2>4 DEF PartialSums
<1>7. j \in 1..n /\ k \in 1..n /\ j \in V /\ k \in V
  BY <1>1 DEF V
<1>8. z[n] >= d[j] + d[k]
  <2> HIDE DEF z, d
  <2> QED
    BY <1>1, <1>2, <1>6, <1>7, TwoTerms
<1>9. V \cap (1..n) = V /\ n \in 0..n
  <2>1. n \in 0..n
    BY <1>1
  <2>2. V \cap (1..n) = V
    <3> QED
      BY <1>1, Zenon
  <2> QED
    BY <2>1, <2>2
<1>10. z[n] = m * m * Squares(figures) - 2 * m * u * Total(figures)
                + Cardinality(V) * (u * u)
  BY <1>3, <1>4, <1>9
<1>11. /\ d[j] = (m * figures[j] - u) * (m * figures[j] - u)
       /\ d[k] = (m * figures[k] - u) * (m * figures[k] - u)
  BY <1>7
<1>12. Total(figures) \in Int /\ Squares(figures) \in Int
  BY <1>3, <1>4, <1>5, <1>9
<1> QED
  BY <1>8, <1>10, <1>11, <1>12 DEF V

(* n values, of the total t and the sum of squares q, that are as close to *)
(* their mean as a stable metric, and two of them.                         *)
CloseToMean(n, q, t, v, w) ==
  /\ n * n * q - 2 * n * t * t + n * (t * t)
       >= (n * v - t) * (n * v - t) + (n * w - t) * (n * w - t)
  /\ 10000 * n * (n * q - t * t) <= 10 * 10 * (n - 1) * t * t

CloseTogether(n, t, v, w) ==
  100 * n * n * (v - w) * (v - w) <= 2 * (n - 1) * t * t

(* Two of the values are then close to each other.                         *)
LEMMA TwoClose ==
  ASSUME NEW n \in Nat, n >= 1, NEW q \in Int, NEW t \in Int,
         NEW v \in Int, NEW w \in Int, CloseToMean(n, q, t, v, w)
  PROVE  CloseTogether(n, t, v, w)
<1> DEFINE a == n * v - t
           b == n * w - t
           e == n * q - t * t
           d == v - w
           s == (n - 1) * t * t
<1>0. a \in Int /\ b \in Int /\ e \in Int /\ d \in Int /\ s \in Int
  OBVIOUS
<1>1. n * e >= a * a + b * b
  <2>1. n * n * q - 2 * n * t * t + n * (t * t) = n * (n * q - t * t)
    OBVIOUS
  <2> QED
    BY <2>1 DEF CloseToMean
<1>2. a - b = n * d
  OBVIOUS
<1>3. 10000 * n * e <= 100 * s
  <2>1. 10 * 10 * (n - 1) * t * t = 100 * ((n - 1) * t * t)
    OBVIOUS
  <2> QED
    BY <2>1 DEF CloseToMean
<1>4. 100 * n * n * (v - w) * (v - w) = 100 * ((n * d) * (n * d))
  OBVIOUS
<1>5. 2 * (n - 1) * t * t = 2 * s
  OBVIOUS
<1> HIDE DEF a, b, e, d, s
<1>6. (a - b) * (a - b) <= 2 * (a * a + b * b)
  <2>1. (a + b) * (a + b) >= 0
    BY <1>0, a + b \in Int, SquareNat
  <2>2. (a - b) * (a - b) + (a + b) * (a + b) = 2 * (a * a + b * b)
    BY <1>0
  <2> QED
    BY <1>0, <2>1, <2>2
<1>7. (n * d) * (n * d) <= 2 * (n * e)
  <2>1. (n * d) * (n * d) = (a - b) * (a - b)
    BY <1>2
  <2> QED
    BY <1>0, <1>1, <1>6, <2>1
<1>8. 100 * (n * e) <= s
  <2> DEFINE g == n * e
  <2>1. g \in Int /\ 10000 * n * e = 10000 * g
    BY <1>0
  <2> HIDE DEF g
  <2>2. 10000 * g <= 100 * s
    BY <1>3, <2>1
  <2>3. 100 * g <= s
    BY <1>0, <2>1, <2>2
  <2> QED
    BY <2>3 DEF g
<1> QED
  <2> DEFINE g == n * e
             h == (n * d) * (n * d)
  <2>1. g \in Int /\ h \in Int
    BY <1>0
  <2> HIDE DEF g, h
  <2>2. h <= 2 * g /\ 100 * g <= s
    BY <1>7, <1>8 DEF g, h
  <2>3. 100 * h <= 2 * s
    BY <1>0, <2>1, <2>2
  <2> QED
    BY <1>4, <1>5, <2>3 DEF h, CloseTogether

(* A stable metric, in any repetitions. *)
LEMMA PointValueOnInputs == InputOK => PointValue
<1> SUFFICES ASSUME InputOK, Stable(figures) PROVE PointValue
  BY DEF PointValue
<1> DEFINE V == Values(figures)
           n == Cardinality(V)
<1>1. n \in Nat /\ n >= MinReps
  <2>1. IsFiniteSet(V)
    <3>1. Len(figures) \in Nat /\ DOMAIN figures = 1..Len(figures)
      BY LenProperties DEF InputOK
    <3>2. IsFiniteSet(1..Len(figures))
      BY <3>1, 1 \in Int, Len(figures) \in Int, FS_Interval
    <3> QED
      BY <3>1, <3>2, FS_Subset DEF Values
  <2> QED
    BY <2>1, FS_CardinalityType DEF Stable
<1>2. \A i \in V : figures[i] \in Int
  <2>1. DOMAIN figures = 1..Len(figures)
    BY LenProperties DEF InputOK
  <2>2. \A i \in 1..Len(figures) : figures[i] \in Figures \cup {Absent}
    BY ElementOfSeq DEF InputOK
  <2>3. Figures \subseteq Int
    BY MeasuresAssumption
  <2>4. ASSUME NEW i \in V
        PROVE  i \in DOMAIN figures /\ figures[i] # Absent
    BY DEF Values
  <2> QED
    BY <2>1, <2>2, <2>3, <2>4
<1> HIDE DEF V
<1>3. ASSUME NEW i \in V, NEW j \in V
      PROVE  100 * n * n * (figures[i] - figures[j]) * (figures[i] - figures[j])
               <= 2 * (n - 1) * Total(figures) * Total(figures)
  <2> DEFINE t == Total(figures)
             q == Squares(figures)
             v == figures[i]
             w == figures[j]
  <2>1. CASE i # j
    <3>1. /\ t \in Int /\ q \in Int
          /\ n * n * q - 2 * n * t * t + n * (t * t)
               >= (n * v - t) * (n * v - t) + (n * w - t) * (n * w - t)
      <4>1. n \in Int /\ i \in Values(figures) /\ j \in Values(figures)
        BY <1>1 DEF V
      <4>2. t \in Int /\ q \in Int
        BY <2>1, <4>1, SquaresApart, 0 \in Int
      <4> QED
        BY <2>1, <4>1, <4>2, SquaresApart, Zenon DEF V
    <3>2. v \in Int /\ w \in Int
      BY <1>2
    <3>3. 10000 * n * (n * q - t * t) <= 10 * 10 * (n - 1) * t * t
      BY DEF Stable, CvStable, V
    <3>4. n >= 1
      BY <1>1 DEF MinReps
    <3> HIDE DEF t, q, v, w, n
    <3>5. CloseToMean(n, q, t, v, w)
      BY <3>1, <3>3 DEF CloseToMean
    <3>6. CloseTogether(n, t, v, w)
      BY <1>1, <3>1, <3>2, <3>4, <3>5, TwoClose
    <3> QED
      BY <3>6, Zenon DEF t, v, w, CloseTogether
  <2>2. CASE i = j
    <3>1. t \in Int /\ v \in Int
      <4>1. PICK k \in V : k # i
        <5>1. V # {i}
          <6>1. Cardinality({i}) = 1
            BY FS_Singleton
          <6> QED
            BY <1>1, <6>1 DEF MinReps
        <5> QED
          BY <5>1
      <4>2. t \in Int
        BY <4>1, SquaresApart, 0 \in Int DEF V
      <4> QED
        BY <1>2, <4>2
    <3>2. figures[i] - figures[j] = 0
      BY <2>2, <3>1
    <3> HIDE DEF t, v, n
    <3>3. 100 * n * n * 0 * 0 = 0
      BY <1>1
    <3>4. 2 * (n - 1) * t * t >= 0
      <4>1. t * t \in Nat
        BY <3>1, SquareNat
      <4>2. 2 * (n - 1) \in Nat
        BY <1>1 DEF MinReps
      <4> DEFINE a == 2 * (n - 1)
                 b == t * t
      <4>3. 2 * (n - 1) * t * t = a * b
        BY <1>1, <3>1
      <4> HIDE DEF a, b
      <4>4. a \in Nat /\ b \in Nat
        BY <4>1, <4>2 DEF a, b
      <4>5. a * b >= 0
        BY <4>4
      <4> QED
        BY <4>3, <4>5
    <3> QED
      BY <3>2, <3>3, <3>4 DEF t
  <2> QED
    BY <2>1, <2>2
<1> QED
  BY <1>1, <1>3 DEF PointValue, V

(* "a rep that failed to produce a metric must not silently become a zero" *)
(* (stability.py:62-63): whatever repetitions there are, and with whatever *)
(* figures, a metric whose verdict is STABLE was produced by three of them *)
(* or more, and any two differ by less than a share of the mean that       *)
(* depends on their number alone.                                          *)
THEOREM MeasuresPointValue == Inputs => []PointValue
BY InputsOK, PointValueOnInputs, PTL

-----------------------------------------------------------------------------
(* Sorting                                                                 *)

(* The pairs of before put the members of S in one order.                  *)
Orders(before, S) ==
  /\ \A x \in S : <<x, x>> \notin before
  /\ \A x, y \in S : x # y => <<x, y>> \in before \/ <<y, x>> \in before
  /\ \A x, y, z \in S : <<x, y>> \in before /\ <<y, z>> \in before
                        => <<x, z>> \in before

(* s lists the members of S, each once, in that order.                     *)
Lists(s, S, before) ==
  /\ s \in [1..Cardinality(S) -> S]
  /\ \A k \in S : \E i \in 1..Cardinality(S) : s[i] = k
  /\ \A i, j \in 1..Cardinality(S) : i < j => <<s[i], s[j]>> \in before

(* sorted() lists a finite set: what comes before a member gives its place.*)
LEMMA SortedLists ==
  ASSUME NEW S, IsFiniteSet(S), NEW before, Orders(before, S)
  PROVE  Lists(Sorted(S, before), S, before)
<1> DEFINE n == Cardinality(S)
           B(k) == {j \in S : <<j, k>> \in before}
           place == [k \in S |-> 1 + Cardinality(B(k))]
           s == Sorted(S, before)
<1>1. n \in Nat /\ IsFiniteSet(1..n) /\ Cardinality(1..n) = n
  <2>1. n \in Nat
    BY FS_CardinalityType
  <2>2. n \in Int /\ 1 \in Int
    BY <2>1
  <2> HIDE DEF n
  <2>3. /\ IsFiniteSet(1..n)
        /\ Cardinality(1..n) = IF 1 > n THEN 0 ELSE n - 1 + 1
    BY <2>2, FS_Interval
  <2> QED
    BY <2>1, <2>3
<1>2. \A k \in S : /\ B(k) \in SUBSET S /\ k \notin B(k) /\ IsFiniteSet(B(k))
                   /\ Cardinality(B(k)) \in Nat /\ Cardinality(B(k)) < n
  <2> TAKE k \in S
  <2>1. B(k) \in SUBSET S /\ k \notin B(k)
    BY DEF Orders
  <2> HIDE DEF B
  <2>2. IsFiniteSet(B(k)) /\ Cardinality(B(k)) <= n /\ B(k) # S
    BY <2>1, FS_Subset
  <2>3. Cardinality(B(k)) # n
    BY <2>1, <2>2, FS_Subset
  <2>4. Cardinality(B(k)) \in Nat
    BY <2>2, FS_CardinalityType
  <2> HIDE DEF n
  <2> QED
    BY <1>1, <2>1, <2>2, <2>3, <2>4
<1>3. place \in [S -> 1..n]
  <2> SUFFICES ASSUME NEW k \in S
               PROVE  1 + Cardinality(B(k)) \in 1..n
    OBVIOUS
  <2> DEFINE b == Cardinality(B(k))
  <2>1. b \in Nat /\ b < n
    BY <1>2
  <2> HIDE DEF b, n
  <2>2. 1 + b \in 1..n
    BY <1>1, <2>1
  <2> QED
    BY <2>2 DEF b
<1>4. ASSUME NEW j \in S, NEW k \in S, <<j, k>> \in before
      PROVE  place[j] < place[k]
  <2>1. B(j) \cup {j} \subseteq B(k) /\ j \notin B(j)
    BY <1>4 DEF Orders
  <2>2. IsFiniteSet(B(j)) /\ IsFiniteSet(B(k))
    BY <1>2
  <2>3. Cardinality(B(j)) \in Nat /\ Cardinality(B(k)) \in Nat
    BY <1>2
  <2>4. place[j] = 1 + Cardinality(B(j)) /\ place[k] = 1 + Cardinality(B(k))
    OBVIOUS
  <2> HIDE DEF B, place
  <2>5. Cardinality(B(j) \cup {j}) = Cardinality(B(j)) + 1
    BY <2>1, <2>2, FS_AddElement
  <2>6. Cardinality(B(j) \cup {j}) <= Cardinality(B(k))
    BY <2>1, <2>2, FS_Subset
  <2> DEFINE x == Cardinality(B(j))
             y == Cardinality(B(k))
  <2>7. x \in Nat /\ y \in Nat /\ x + 1 <= y /\ place[j] = 1 + x /\ place[k] = 1 + y
    BY <2>3, <2>4, <2>5, <2>6
  <2> HIDE DEF x, y
  <2> QED
    BY <2>7
<1>5. ASSUME NEW j \in S, NEW k \in S, place[j] = place[k]
      PROVE  j = k
  <2> HIDE DEF n, place
  <2>1. place[j] \in Int /\ place[k] \in Int
    BY <1>1, <1>3
  <2>2. ~(place[j] < place[k]) /\ ~(place[k] < place[j])
    BY <1>5, <2>1
  <2>3. <<j, k>> \notin before /\ <<k, j>> \notin before
    BY <1>4, <2>2
  <2> QED
    BY <2>3 DEF Orders
<1> HIDE DEF n, place
<1>6. \A i \in 1..n : \E k \in S : place[k] = i
  <2>1. place \in Injection(S, 1..n)
    BY <1>3, <1>5 DEF Injection, IsInjective
  <2>2. place \in Surjection(S, 1..n)
    BY <1>1, <2>1, FS_Injection DEF n
  <2> QED
    BY <2>2 DEF Surjection
<1>7. s = [i \in 1..n |-> CHOOSE k \in S : place[k] = i]
  BY DEF Sorted, n, place
<1>8. \A i \in 1..n : s[i] \in S /\ place[s[i]] = i
  BY <1>6, <1>7
<1>9. s \in [1..n -> S]
  BY <1>7, <1>8
<1>10. ASSUME NEW k \in S
       PROVE  \E i \in 1..n : s[i] = k
  <2>1. place[k] \in 1..n
    BY <1>3
  <2>2. s[place[k]] = k
    BY <1>5, <1>8, <2>1
  <2> QED
    BY <2>1, <2>2
<1>11. ASSUME NEW i \in 1..n, NEW j \in 1..n, i < j
       PROVE  <<s[i], s[j]>> \in before
  <2>1. s[i] \in S /\ s[j] \in S /\ place[s[i]] = i /\ place[s[j]] = j
    BY <1>8
  <2>2. s[i] # s[j] /\ ~(place[s[j]] < place[s[i]])
    BY <1>1, <1>11, <2>1
  <2> HIDE DEF s
  <2>3. <<s[j], s[i]>> \notin before
    BY <1>4, <2>1, <2>2
  <2> QED
    BY <2>1, <2>2, <2>3 DEF Orders
<1> HIDE DEF s
<1> QED
  BY <1>9, <1>10, <1>11 DEF Lists, n, s

(* What a stable sort by a key returns.                                    *)
Ranked(s, S, key) ==
  /\ Cardinality(S) \in Nat /\ s \in [1..Cardinality(S) -> S]
  /\ \A k \in S : \E i \in 1..Cardinality(S) : s[i] = k
  /\ \A i, j \in 1..Cardinality(S) :
       i <= j => key[s[i]] <= key[s[j]]
  /\ \A i, j \in 1..Cardinality(S) : s[i] = s[j] => i = j

(* ByKey() does, and keeps those with equal keys apart. *)
LEMMA ByKeyRanks ==
  ASSUME NEW S \in SUBSET Nat, IsFiniteSet(S), NEW key,
         \A k \in S : key[k] \in Int
  PROVE  Ranked(ByKey(S, key), S, key)
<1> DEFINE before == {p \in S \X S : \/ key[p[1]] < key[p[2]]
                                     \/ key[p[1]] = key[p[2]] /\ p[1] < p[2]}
           s == ByKey(S, key)
           n == Cardinality(S)
<1>1. \A x, y \in S : <<x, y>> \in before <=>
                        \/ key[x] < key[y]
                        \/ key[x] = key[y] /\ x < y
  <2> TAKE x, y \in S
  <2> DEFINE P(p) == \/ key[p[1]] < key[p[2]]
                     \/ key[p[1]] = key[p[2]] /\ p[1] < p[2]
             e == <<x, y>>
  <2>1. e \in S \X S /\ e[1] = x /\ e[2] = y
    OBVIOUS
  <2>2. before = {p \in S \X S : P(p)}
    OBVIOUS
  <2>3. P(e) <=> (key[x] < key[y] \/ (key[x] = key[y] /\ x < y))
    BY <2>1
  <2> HIDE DEF P, before, e
  <2>4. e \in before <=> P(e)
    BY <2>1, <2>2
  <2> QED
    BY <2>3, <2>4 DEF e
<1>2. Orders(before, S)
  <2> HIDE DEF before
  <2>1. \A x \in S : <<x, x>> \notin before
    BY <1>1
  <2>2. \A x, y \in S : x # y => <<x, y>> \in before \/ <<y, x>> \in before
    <3> SUFFICES ASSUME NEW x \in S, NEW y \in S, x # y
                 PROVE  \/ key[x] < key[y]
                        \/ key[x] = key[y] /\ x < y
                        \/ key[y] < key[x]
                        \/ key[y] = key[x] /\ y < x
      BY <1>1
    <3>1. x \in Nat /\ y \in Nat /\ key[x] \in Int /\ key[y] \in Int
      OBVIOUS
    <3> QED
      BY <3>1
  <2>3. \A x, y, z \in S : <<x, y>> \in before /\ <<y, z>> \in before
                           => <<x, z>> \in before
    BY <1>1
  <2> QED
    BY <2>1, <2>2, <2>3 DEF Orders
<1>3. Lists(s, S, before)
  <2>1. s = Sorted(S, before)
    BY DEF ByKey
  <2> HIDE DEF before, s
  <2> QED
    BY <1>2, <2>1, SortedLists
<1>4. n \in Nat
  BY FS_CardinalityType
<1> HIDE DEF before, s
<1>5. /\ s \in [1..n -> S]
      /\ \A k \in S : \E i \in 1..n : s[i] = k
      /\ \A i, j \in 1..n : i < j => <<s[i], s[j]>> \in before
  BY <1>3 DEF Lists
<1> HIDE DEF n
<1>6. ASSUME NEW i \in 1..n, NEW j \in 1..n, i < j
      PROVE  key[s[i]] <= key[s[j]] /\ s[i] # s[j]
  <2>1. s[i] \in S /\ s[j] \in S /\ <<s[i], s[j]>> \in before
    BY <1>5, <1>6
  <2>2. key[s[i]] \in Int /\ key[s[j]] \in Int /\ s[i] \in Nat
    BY <2>1
  <2>3. \/ key[s[i]] < key[s[j]]
        \/ key[s[i]] = key[s[j]] /\ s[i] < s[j]
    BY <1>1, <2>1
  <2> QED
    BY <2>2, <2>3
<1>7. \A i, j \in 1..n : i <= j => key[s[i]] <= key[s[j]]
  <2> SUFFICES ASSUME NEW i \in 1..n, NEW j \in 1..n, i <= j
               PROVE  key[s[i]] <= key[s[j]]
    OBVIOUS
  <2>1. CASE i < j
    BY <1>6, <2>1
  <2>2. CASE i = j
    <3>1. s[i] \in S
      BY <1>5
    <3>2. key[s[i]] \in Int
      BY <3>1
    <3> QED
      BY <2>2, <3>2
  <2> QED
    BY <1>4, <2>1, <2>2
<1>8. \A i, j \in 1..n : s[i] = s[j] => i = j
  <2> SUFFICES ASSUME NEW i \in 1..n, NEW j \in 1..n, i # j
               PROVE  s[i] # s[j]
    OBVIOUS
  <2>1. i < j \/ j < i
    BY <1>4
  <2> QED
    BY <1>6, <2>1
<1> QED
  BY <1>4, <1>5, <1>7, <1>8 DEF Ranked, n, s

-----------------------------------------------------------------------------
(* The measured window                                                     *)

(* The keys by which the records of the window are sorted. *)
Completion == [k \in Done(timed) |-> timed[k].completion]

Slowness == [k \in Done(timed) |-> Latency(timed[k])]

(* The records that completed: finitely many, with times and latencies.    *)
LEMMA DoneFacts ==
  ASSUME InputOK
  PROVE  /\ Done(timed) \in SUBSET Nat /\ IsFiniteSet(Done(timed))
         /\ Cardinality(Done(timed)) \in Nat
         /\ \A k \in Done(timed) :
              /\ Completion[k] = timed[k].completion /\ Completion[k] \in Nat
              /\ Slowness[k] = Latency(timed[k]) /\ Slowness[k] \in Nat
              /\ timed[k].submit \in Nat /\ timed[k].submit <= timed[k].completion
<1>1. /\ Done(timed) \subseteq 1..Len(timed) /\ IsFiniteSet(1..Len(timed))
      /\ Len(timed) \in Nat
  BY TimedFacts
<1>2. IsFiniteSet(Done(timed)) /\ Cardinality(Done(timed)) \in Nat
  BY <1>1, FS_Subset, FS_CardinalityType
<1>3. ASSUME NEW k \in Done(timed)
      PROVE  /\ Completion[k] = timed[k].completion /\ Completion[k] \in Nat
             /\ Slowness[k] = Latency(timed[k]) /\ Slowness[k] \in Nat
             /\ timed[k].submit \in Nat /\ timed[k].submit <= timed[k].completion
  <2>1. /\ timed[k].submit \in Nat /\ timed[k].completion \in Nat
        /\ timed[k].submit <= timed[k].completion
    BY TimedFacts, MeasuresAssumption
  <2>2. Latency(timed[k]) \in Nat
    BY <2>1 DEF Latency
  <2> QED
    BY <2>1, <2>2 DEF Completion, Slowness
<1> QED
  BY <1>1, <1>2, <1>3

(* Equal domains are of equal length. *)
LEMMA SameLength ==
  ASSUME NEW m \in Nat, NEW n \in Nat, 1..m = 1..n
  PROVE  m = n
OBVIOUS

(* A sequence of n numbers that does not descend.                          *)
Climbs(f, n) ==
  /\ n \in Nat /\ f \in [1..n -> Int] /\ Len(f) = n
  /\ \A i, j \in 1..n : i <= j => f[i] <= f[j]

(* Sorting keeps the number of records, and of completions. *)
LEMMA RankedLen ==
  ASSUME NEW s, NEW S, NEW key, Ranked(s, S, key)
  PROVE  Len(s) = Cardinality(S)
<1>1. s \in Seq(S) /\ DOMAIN s = 1..Cardinality(S) /\ Cardinality(S) \in Nat
  BY SeqDef DEF Ranked
<1>2. DOMAIN s = 1..Len(s) /\ Len(s) \in Nat
  BY <1>1, LenProperties
<1> QED
  BY <1>1, <1>2

LEMMA ByCompletionRanks ==
  ASSUME InputOK, NEW S, S \cap Done(timed) \in SUBSET Done(timed)
  PROVE  Ranked(ByCompletion(timed, S), S \cap Done(timed), Completion)
<1> DEFINE D == S \cap Done(timed)
<1>1. D \in SUBSET Nat /\ IsFiniteSet(D) /\ \A k \in D : Completion[k] \in Int
  BY DoneFacts, FS_Subset
<1>2. ByCompletion(timed, S) = ByKey(D, Completion)
  BY DEF ByCompletion, Completion
<1> HIDE DEF D
<1>3. Ranked(ByKey(D, Completion), D, Completion)
  BY <1>1, ByKeyRanks
<1> QED
  BY <1>2, <1>3 DEF D

(* The latencies in ascending order: every one of them, and nothing else.  *)
LEMMA LatenciesClimb ==
  ASSUME InputOK, NEW S \in SUBSET Done(timed)
  PROVE  /\ Climbs(Latencies(timed, S), Cardinality(S))
         /\ \A k \in S : \E i \in 1..Cardinality(S) :
              Latencies(timed, S)[i] = Latency(timed[k])
<1> DEFINE s == ByKey(S, Slowness)
           n == Cardinality(S)
           f == Latencies(timed, S)
<1>1. S \in SUBSET Nat /\ IsFiniteSet(S) /\ \A k \in S : Slowness[k] \in Int
  BY DoneFacts, FS_Subset
<1>2. Ranked(s, S, Slowness)
  BY <1>1, ByKeyRanks
<1>3. f = [i \in DOMAIN s |-> Slowness[s[i]]]
  BY DEF Latencies, Ascending, Slowness
<1>4. /\ n \in Nat /\ s \in [1..n -> S]
      /\ \A k \in S : \E i \in 1..n : s[i] = k
      /\ \A i, j \in 1..n : i <= j => Slowness[s[i]] <= Slowness[s[j]]
  BY <1>2 DEF Ranked
<1>5. \A k \in S : Slowness[k] = Latency(timed[k])
  BY DoneFacts
<1> HIDE DEF s, n, f
<1>6. f \in [1..n -> Int] /\ \A i \in 1..n : f[i] = Slowness[s[i]]
  BY <1>1, <1>3, <1>4
<1>7. Len(f) = n
  <2>1. f \in Seq(Int)
    BY <1>4, <1>6, SeqDef
  <2>2. DOMAIN f = 1..Len(f) /\ Len(f) \in Nat /\ DOMAIN f = 1..n
    BY <1>6, <2>1, LenProperties
  <2> QED
    BY <1>4, <2>2, SameLength
<1>8. \A i, j \in 1..n : i <= j => f[i] <= f[j]
  BY <1>4, <1>6
<1>9. \A k \in S : \E i \in 1..n : f[i] = Latency(timed[k])
  BY <1>4, <1>5, <1>6
<1> QED
  BY <1>4, <1>6, <1>7, <1>8, <1>9 DEF Climbs, f, n

(* A quantile of a sequence that climbs: the first q numbers are at most   *)
(* the q-th, and q is no less than that share of them.                     *)
LEMMA QuantileCoversAll ==
  ASSUME NEW lats, NEW n, Climbs(lats, n), n > 0, NEW p \in 0..100
  PROVE  QuantileCovers(lats, p)
<1> DEFINE g == (n * p) \div 100
           q == Min({g, n - 1}) + 1
           Low == {i \in 1..n : lats[i] <= lats[q]}
<1>1. n \in Nat /\ DOMAIN lats = 1..n /\ Len(lats) = n
  BY DEF Climbs
<1>2. g \in Nat /\ 100 * (g + 1) > n * p
  <2> DEFINE x == n * p
  <2>1. x \in Nat /\ g = x \div 100
    BY <1>1
  <2> HIDE DEF x, g
  <2> QED
    <3>1. g \in Nat /\ 100 * (g + 1) > x
      BY <2>1
    <3> QED
      BY <3>1 DEF x
<1>3. q \in 1..n /\ (q = n \/ q = g + 1)
  <2> DEFINE T == {g, n - 1}
  <2>1. n - 1 \in Nat /\ T \in SUBSET Nat /\ T # {}
    BY <1>1, <1>2
  <2> HIDE DEF g
  <2>2. Min(T) \in T /\ \A x \in T : Min(T) <= x
    BY <2>1, MinOf
  <2> DEFINE m == Min(T)
  <2>3. m \in {g, n - 1} /\ m <= n - 1 /\ m \in Nat
    BY <2>1, <2>2
  <2> HIDE DEF m, T
  <2>4. m + 1 \in 1..n /\ (m + 1 = n \/ m + 1 = g + 1)
    BY <1>1, <2>3
  <2> QED
    BY <2>4 DEF m, T
<1>4. Quantile(lats, p) = lats[q]
  BY <1>1 DEF Quantile
<1> HIDE DEF g, q
<1>5. 100 * q >= p * n
  <2>1. CASE q = n
    <3>1. p * n <= 100 * n
      BY <1>1
    <3> QED
      BY <2>1, <3>1
  <2>2. CASE q = g + 1
    <3> DEFINE x == n * p
    <3>1. x \in Nat /\ p * n = x /\ 100 * (g + 1) > x
      BY <1>1, <1>2
    <3> HIDE DEF x
    <3> QED
      BY <1>2, <2>2, <3>1
  <2> QED
    BY <1>3, <2>1, <2>2
<1>6. 1..q \in SUBSET Low
  BY <1>1, <1>3 DEF Climbs
<1>7. IsFiniteSet(Low) /\ Cardinality(Low) \in Nat
  <2>1. IsFiniteSet(1..n)
    BY <1>1, 1 \in Int, n \in Int, FS_Interval
  <2> QED
    BY <2>1, FS_Subset, FS_CardinalityType
<1>8. Cardinality(1..q) = q
  <2>1. q \in Int /\ 1 \in Int /\ q >= 1
    BY <1>1, <1>3
  <2>2. Cardinality(1..q) = IF 1 > q THEN 0 ELSE q - 1 + 1
    BY <2>1, FS_Interval
  <2> QED
    BY <2>1, <2>2
<1>9. q <= Cardinality(Low)
  <2> HIDE DEF Low
  <2>1. Cardinality(1..q) <= Cardinality(Low)
    BY <1>6, <1>7, FS_Subset
  <2> QED
    BY <1>8, <2>1
<1>10. Low = {i \in DOMAIN lats : lats[i] <= Quantile(lats, p)}
  BY <1>1, <1>4
<1> DEFINE c == Cardinality(Low)
           y == p * Len(lats)
<1>11. c \in Nat /\ q \in Nat /\ q <= c /\ y \in Int /\ 100 * q >= y
  <2>1. p * n \in Int
    BY <1>1
  <2> QED
    BY <1>1, <1>3, <1>5, <1>7, <1>9, <2>1
<1> HIDE DEF c, y
<1>12. 100 * c >= y
  BY <1>11
<1> QED
  BY <1>10, <1>12 DEF QuantileCovers, c, y

(* No document that completed was submitted before the first submission.   *)
LEMMA FirstSubmitIs ==
  ASSUME InputOK, Done(timed) # {}
  PROVE  /\ FirstSubmit(timed) \in Nat
         /\ \A k \in Done(timed) : FirstSubmit(timed) <= timed[k].submit
<1> DEFINE T == {timed[k].submit : k \in DOMAIN timed} \ {Absent}
<1>1. \A k \in Done(timed) : timed[k].submit \in Nat /\ timed[k].submit \in T
  <2> TAKE k \in Done(timed)
  <2>1. timed[k].submit \in Nat /\ k \in DOMAIN timed
    BY DoneFacts, TimedFacts
  <2>2. timed[k].submit # Absent
    BY <2>1 DEF Absent
  <2> QED
    BY <2>1, <2>2
<1>2. T \in SUBSET Nat
  <2> SUFFICES ASSUME NEW k \in DOMAIN timed, timed[k].submit # Absent
               PROVE  timed[k].submit \in Nat
    OBVIOUS
  <2>1. k \in Done(timed)
    BY TimedFacts
  <2> QED
    BY <1>1, <2>1
<1>3. T # {}
  BY <1>1
<1> HIDE DEF T
<1>4. Min(T) \in T /\ \A x \in T : Min(T) <= x
  BY <1>2, <1>3, MinOf
<1>5. FirstSubmit(timed) = Min(T)
  BY DEF FirstSubmit, T
<1> QED
  BY <1>1, <1>2, <1>4, <1>5

(* The window: from the first submission or the completion of the last     *)
(* document of the warm-up to the last completion.                         *)
LEMMA WindowIs ==
  ASSUME InputOK, NEW warm \in Warmups
  PROVE  LET w == PerfWindow(timed, warm)
             done == ByCompletion(timed, DOMAIN timed)
             n == Cardinality(Done(timed))
         IN /\ warm \in Nat /\ n \in Nat /\ warm < n /\ Len(done) = n
            /\ Ranked(done, Done(timed), Completion)
            /\ w.t1 \in Nat /\ w.t1 = timed[done[n]].completion
            /\ \A k \in Done(timed) : timed[k].completion <= w.t1
            /\ w.t0 \in Nat
            /\ warm = 0 => w.t0 = FirstSubmit(timed)
            /\ warm > 0 => w.t0 = timed[done[warm]].completion
            /\ w.docs = {k \in Done(timed) : warm > 0 => timed[k].completion > w.t0}
<1> DEFINE w == PerfWindow(timed, warm)
           done == ByCompletion(timed, DOMAIN timed)
           n == Cardinality(Done(timed))
<1>1. warm \in Nat /\ n \in Nat /\ warm < n
  BY DoneFacts, MeasuresAssumption DEF Warmups
<1>2. Ranked(done, Done(timed), Completion)
  <2>1. DOMAIN timed \cap Done(timed) = Done(timed)
    BY TimedFacts
  <2> QED
    BY <2>1, ByCompletionRanks
<1>3. Len(done) = n
  BY <1>2, RankedLen
<1> HIDE DEF done, n
<1>4. /\ done \in [1..n -> Done(timed)]
      /\ \A k \in Done(timed) : \E i \in 1..n : done[i] = k
      /\ \A i, j \in 1..n : i <= j => Completion[done[i]] <= Completion[done[j]]
  BY <1>2 DEF Ranked, n
<1>5. /\ w.docs = {k \in Done(timed) : warm > 0 => timed[k].completion > w.t0}
      /\ w.t0 = IF warm = 0 THEN FirstSubmit(timed) ELSE timed[done[warm]].completion
      /\ w.t1 = timed[done[n]].completion
  BY <1>3 DEF PerfWindow, done
<1> HIDE DEF w
<1>6. n \in 1..n /\ warm > 0 => warm \in 1..n
  BY <1>1
<1>7. n \in 1..n
  BY <1>1
<1>8. w.t1 \in Nat /\ \A k \in Done(timed) : timed[k].completion <= w.t1
  <2>1. done[n] \in Done(timed)
    BY <1>4, <1>7
  <2>2. w.t1 = Completion[done[n]] /\ w.t1 \in Nat
    BY <1>5, <2>1, DoneFacts
  <2>3. ASSUME NEW k \in Done(timed)
        PROVE  timed[k].completion <= w.t1
    <3>1. PICK i \in 1..n : done[i] = k
      BY <1>4
    <3>2. i <= n
      BY <1>1
    <3>3. Completion[done[i]] <= Completion[done[n]]
      BY <1>4, <1>7, <3>2
    <3> QED
      BY <2>2, <3>1, <3>3, DoneFacts
  <2> QED
    BY <2>2, <2>3
<1>9. w.t0 \in Nat
  <2>1. CASE warm = 0
    <3>1. Done(timed) # {}
      BY <1>4, <1>7
    <3> QED
      BY <1>5, <2>1, <3>1, FirstSubmitIs
  <2>2. CASE warm # 0
    <3>1. warm \in 1..n
      BY <1>1, <2>2
    <3>2. done[warm] \in Done(timed)
      BY <1>4, <3>1
    <3> QED
      BY <1>5, <2>2, <3>2, DoneFacts
  <2> QED
    BY <2>1, <2>2
<1> QED
  BY <1>1, <1>2, <1>3, <1>5, <1>8, <1>9 DEF w, done, n

(* The first document that completed well is one that completed, and in    *)
(* its place when every document did.                                      *)
LEMMA TtfrIs ==
  ASSUME InputOK, NEW j \in Done(timed), timed[j].ok
  PROVE  \E k \in Done(timed) :
           /\ timed[k].ok
           /\ Ttfr(timed) = timed[k].completion - FirstSubmit(timed)
<1> DEFINE S == OkRecords(timed) \cap Done(timed)
           s == ByCompletion(timed, OkRecords(timed))
<1>1. S \in SUBSET Done(timed) /\ j \in S
  BY TimedFacts DEF OkRecords
<1>2. Ranked(s, S, Completion)
  BY <1>1, ByCompletionRanks
<1>3. s \in [1..Cardinality(S) -> S] /\ Cardinality(S) \in Nat
  BY <1>2 DEF Ranked
<1>4. \E i \in 1..Cardinality(S) : s[i] = j
  BY <1>1, <1>2 DEF Ranked
<1>5. 1 \in 1..Cardinality(S)
  BY <1>3, <1>4
<1>6. s[1] \in S
  BY <1>3, <1>5
<1>7. Ttfr(timed) = timed[s[1]].completion - FirstSubmit(timed)
  BY DEF Ttfr
<1> QED
  BY <1>6, <1>7 DEF OkRecords

(* The measured window, its throughput, first result and quantiles.        *)
LEMMA WindowOfInputs ==
  ASSUME InputOK, NEW warm \in Warmups
  PROVE  WindowOf(warm)
<1> DEFINE w == PerfWindow(timed, warm)
           done == ByCompletion(timed, DOMAIN timed)
           n == Cardinality(Done(timed))
<1>1. /\ warm \in Nat /\ n \in Nat /\ warm < n /\ Len(done) = n
      /\ Ranked(done, Done(timed), Completion)
      /\ w.t1 \in Nat /\ w.t1 = timed[done[n]].completion
      /\ \A k \in Done(timed) : timed[k].completion <= w.t1
      /\ w.t0 \in Nat
      /\ warm = 0 => w.t0 = FirstSubmit(timed)
      /\ warm > 0 => w.t0 = timed[done[warm]].completion
      /\ w.docs = {k \in Done(timed) : warm > 0 => timed[k].completion > w.t0}
  BY WindowIs
<1>2. Throughput(timed, warm) =
        [docs |-> Cardinality({k \in Counted(w.t1) :
                                 warm > 0 => timed[k].completion > w.t0}),
         span |-> w.t1 - w.t0]
  <2>1. {k \in w.docs : timed[k].ok}
          = {k \in Counted(w.t1) : warm > 0 => timed[k].completion > w.t0}
    BY <1>1 DEF Counted
  <2> QED
    BY <2>1 DEF Throughput
<1> HIDE DEF w, n, done
<1>3. ASSUME NEW i \in 1..warm
      PROVE  done[i] \notin w.docs
  <2>1. i \in 1..n /\ warm \in 1..n /\ i <= warm /\ warm > 0
    BY <1>1
  <2>2. /\ done \in [1..n -> Done(timed)]
        /\ \A a, b \in 1..n : a <= b => Completion[done[a]] <= Completion[done[b]]
    BY <1>1 DEF Ranked, n
  <2>3. done[i] \in Done(timed) /\ done[warm] \in Done(timed)
    BY <2>1, <2>2
  <2>4. Completion[done[i]] <= Completion[done[warm]]
    BY <2>1, <2>2
  <2>5. /\ timed[done[i]].completion <= w.t0
        /\ timed[done[i]].completion \in Nat
    BY <1>1, <2>1, <2>3, <2>4, DoneFacts
  <2>6. ~(timed[done[i]].completion > w.t0)
    BY <1>1, <2>5
  <2> QED
    BY <1>1, <2>1, <2>6
<1>4. ASSUME warm = 0, NEW k \in Done(timed)
      PROVE  w.t0 <= timed[k].submit
  BY <1>1, <1>4, FirstSubmitIs
<1>5. ASSUME warm = 0, Counted(w.t1) # {}
      PROVE  Ttfr(timed) \in 0..(w.t1 - w.t0)
  <2>1. PICK j \in Done(timed) : timed[j].ok
    BY <1>5 DEF Counted
  <2>2. PICK k \in Done(timed) :
          Ttfr(timed) = timed[k].completion - FirstSubmit(timed)
    BY <2>1, TtfrIs
  <2>3. /\ w.t0 <= timed[k].submit /\ timed[k].completion <= w.t1
        /\ Ttfr(timed) = timed[k].completion - w.t0
    BY <1>1, <1>4, <1>5, <2>2
  <2>4. /\ timed[k].submit \in Nat /\ timed[k].completion \in Nat
        /\ timed[k].submit <= timed[k].completion
    BY DoneFacts
  <2> DEFINE a == timed[k].submit
             b == timed[k].completion
             t0 == w.t0
             t1 == w.t1
  <2>5. /\ a \in Nat /\ b \in Nat /\ t0 \in Nat /\ t1 \in Nat /\ a <= b
        /\ t0 <= a /\ b <= t1
    BY <1>1, <2>3, <2>4
  <2> HIDE DEF a, b, t0, t1
  <2>6. b - t0 \in 0..(t1 - t0)
    BY <2>5
  <2> QED
    BY <2>3, <2>6 DEF b, t0, t1
<1>6. ASSUME OkLatencies(timed, warm) # <<>>, NEW p \in {50, 90, 95, 99}
      PROVE  QuantileCovers(OkLatencies(timed, warm), p)
  <2> DEFINE S == w.docs \cap OkRecords(timed)
             lats == OkLatencies(timed, warm)
             m == Cardinality(S)
  <2>1. S \in SUBSET Done(timed)
    BY <1>1
  <2>2. lats = Latencies(timed, S)
    BY DEF OkLatencies, w
  <2>3. Climbs(lats, m)
    BY <2>1, <2>2, LatenciesClimb
  <2> HIDE DEF m, lats
  <2>4. m > 0
    <3>1. m \in Nat /\ Len(lats) = m /\ lats \in Seq(Int)
      BY <2>3, SeqDef DEF Climbs
    <3>2. lats # <<>>
      BY <1>6 DEF lats
    <3> QED
      BY <3>1, <3>2, EmptySeq
  <2>5. p \in 0..100
    OBVIOUS
  <2> QED
    BY <2>3, <2>4, <2>5, QuantileCoversAll DEF lats
<1> QED
  BY <1>2, <1>3, <1>4, <1>5, <1>6 DEF WindowOf, w, done

(* The window that check_gate50.py computes for itself.                    *)
LEMMA GateWindowOfInputs ==
  ASSUME InputOK, NEW warm \in Warmups, warm > 0
  PROVE  GateWindowOf(warm)
<1> DEFINE w == PerfWindow(timed, warm)
           g == GateWindow(timed, warm)
           done == ByCompletion(timed, DOMAIN timed)
           n == Cardinality(Done(timed))
<1>1. /\ warm \in Nat /\ n \in Nat /\ warm < n /\ Len(done) = n
      /\ Ranked(done, Done(timed), Completion)
      /\ w.t1 = timed[done[n]].completion
      /\ \A k \in Done(timed) : timed[k].completion <= w.t1
      /\ w.t0 = timed[done[warm]].completion
      /\ w.docs = {k \in Done(timed) : warm > 0 => timed[k].completion > w.t0}
  BY WindowIs
<1>2. /\ g.docs = {k \in Done(timed) : timed[k].completion > timed[done[warm]].completion}
      /\ g.span = timed[done[Len(done)]].completion - timed[done[warm]].completion
      /\ g.ttfr = timed[done[1]].completion - FirstSubmit(timed)
  BY DEF GateWindow
<1> HIDE DEF w, g, n
<1>3. g.docs = w.docs /\ g.span = w.t1 - w.t0
  BY <1>1, <1>2
<1>4. ASSUME \A k \in DOMAIN timed : timed[k].ok
      PROVE  g.ttfr = Ttfr(timed)
  <2>1. OkRecords(timed) = DOMAIN timed
    BY <1>4 DEF OkRecords
  <2> QED
    BY <1>2, <2>1 DEF Ttfr
<1> HIDE DEF done
<1>5. ASSUME Counted(w.t1) # {}
      PROVE  g.ttfr <= Ttfr(timed)
  <2>1. PICK j \in Done(timed) : timed[j].ok
    BY <1>5 DEF Counted
  <2>2. PICK k \in Done(timed) :
          Ttfr(timed) = timed[k].completion - FirstSubmit(timed)
    BY <2>1, TtfrIs
  <2>3. /\ done \in [1..n -> Done(timed)]
        /\ \A a, b \in 1..n : a <= b => Completion[done[a]] <= Completion[done[b]]
        /\ \E i \in 1..n : done[i] = k
    BY <1>1 DEF Ranked, n
  <2>4. PICK i \in 1..n : done[i] = k
    BY <2>3
  <2>5. 1 \in 1..n /\ 1 <= i
    BY <1>1
  <2>6. Completion[done[1]] <= Completion[k] /\ done[1] \in Done(timed)
    BY <2>3, <2>4, <2>5
  <2>7. /\ timed[done[1]].completion <= timed[k].completion
        /\ timed[done[1]].completion \in Nat /\ timed[k].completion \in Nat
    BY <2>6, DoneFacts
  <2>8. FirstSubmit(timed) \in Nat
    BY <2>1, FirstSubmitIs
  <2> QED
    BY <1>2, <2>2, <2>7, <2>8
<1> QED
  BY <1>3, <1>4, <1>5 DEF GateWindowOf, w, g

(* The rank of the 99th percentile of up to a hundred values is the last.  *)
LEMMA LastRank ==
  ASSUME NEW n \in Nat, 0 < n, n <= 100
  PROVE  (n * 99) \div 100 + 1 = n
OBVIOUS

(* A value is rounded down or up by half of a tick at most. *)
LEMMA RoundedIs ==
  ASSUME NEW x \in Int, NEW tick \in Nat, NEW t \in Rounded(x, tick), tick > 0
  PROVE  t \in Int /\ 2 * (x - t) <= tick
<1>1. x \div tick \in Int
  OBVIOUS
<1> DEFINE q == x \div tick
<1>2. q \in Int
  BY <1>1
<1>3. t \in {tick * q, tick * (q + 1)} /\ 2 * (x - t) <= tick
  BY DEF Rounded
<1> HIDE DEF q
<1> QED
  BY <1>2, <1>3

(* The time-out is at least five times any latency, less half a tick.      *)
LEMMA FrozenOverInputs ==
  ASSUME InputOK, Cardinality(Done(timed)) <= 100, NEW k \in Done(timed),
         NEW t \in FrozenTimeouts(timed, LeastTimeout, Tick)
  PROVE  2 * t + Tick >= 10 * Latency(timed[k])
<1> DEFINE lats == Latencies(timed, Done(timed))
           n == Cardinality(Done(timed))
<1>1. /\ Climbs(lats, n)
      /\ \E i \in 1..n : lats[i] = Latency(timed[k])
  BY LatenciesClimb
<1>2. PICK i \in 1..n : lats[i] = Latency(timed[k])
  BY <1>1
<1>3. t \in IF lats = <<>> THEN {LeastTimeout}
            ELSE {Max({LeastTimeout, u}) :
                    u \in Rounded(5 * lats[(Len(lats) * 99) \div 100 + 1], Tick)}
  BY DEF FrozenTimeouts
<1> HIDE DEF lats
<1>4. n \in Nat /\ 0 < n /\ n <= 100 /\ Len(lats) = n
  BY <1>1 DEF Climbs
<1> HIDE DEF n
<1>5. (Len(lats) * 99) \div 100 + 1 = n
  BY <1>4, LastRank
<1>6. lats # <<>>
  <2>1. lats \in Seq(Int)
    BY <1>1, SeqDef DEF Climbs
  <2> QED
    BY <1>4, <2>1, EmptySeq
<1>7. lats[i] <= lats[n] /\ lats[n] \in Int /\ lats[i] \in Int
  BY <1>1, <1>4 DEF Climbs
<1> DEFINE x == LeastTimeout
           y == 5 * lats[n]
<1>8. x \in Int /\ y \in Int /\ Tick \in Nat /\ Tick > 0
  BY <1>7, MeasuresAssumption, TickAssumption
<1>9. t \in {Max({x, u}) : u \in Rounded(y, Tick)}
  BY <1>3, <1>5, <1>6
<1>10. y >= 5 * Latency(timed[k]) /\ Latency(timed[k]) \in Int
  BY <1>2, <1>7
<1> HIDE DEF x, y
<1>11. PICK u \in Rounded(y, Tick) : t = Max({x, u})
  BY <1>9
<1>12. u \in Int /\ 2 * (y - u) <= Tick
  BY <1>8, RoundedIs
<1>13. t >= u /\ t \in {x, u}
  BY <1>8, <1>11, <1>12, MaxOfTwo
<1> QED
  BY <1>8, <1>10, <1>12, <1>13

(* Together, for every file and every warm-up. *)
LEMMA WindowExactOnInputs == InputOK => WindowExact
<1> SUFFICES ASSUME InputOK PROVE WindowExact
  OBVIOUS
<1>1. Cardinality(Done(timed)) <= 100 =>
        \A k \in Done(timed) : \A t \in FrozenTimeouts(timed, LeastTimeout, Tick) :
          2 * t + Tick >= 10 * Latency(timed[k])
  BY FrozenOverInputs
<1>2. \A warm \in Warmups : WindowOf(warm) /\ (warm > 0 => GateWindowOf(warm))
  BY WindowOfInputs, GateWindowOfInputs
<1> QED
  BY <1>1, <1>2 DEF WindowExact

(* "the window spans from the Nth completion to the last"                  *)
(* (m1_m2_perf.py:11-13): for any file and any warm-up that leaves a       *)
(* record, what is counted completed within the span that it is divided    *)
(* by, ties or not; the quantiles cover their share of the latencies; the  *)
(* gate's window is the same one; and a time-out frozen after up to a      *)
(* hundred documents is short of five times the slowest by its rounding    *)
(* at most.                                                                *)
THEOREM MeasuresWindow == Inputs => []WindowExact
BY InputsOK, WindowExactOnInputs, PTL

-----------------------------------------------------------------------------
(* The radius of a fault                                                   *)

(* What completes after the first record of a fault, and before the next   *)
(* success, does so between the two.                                       *)
LEMMA RunIs ==
  ASSUME InputOK, NEW fault \in Faults, Outcomes(timed, fault) # {},
         NEW k \in FailureRun(fault)
  PROVE  /\ k \in Done(timed) /\ k \in Unrelated(timed, Faults) /\ ~timed[k].ok
         /\ FaultTime(timed, fault) \in Nat
         /\ FaultTime(timed, fault) <= timed[k].completion
         /\ \A m \in Successes(timed, Faults, fault) :
              timed[k].completion <= timed[m].completion
<1> DEFINE done == ByCompletion(timed, DOMAIN timed)
           n == Cardinality(Done(timed))
           I == {i \in DOMAIN done : timed[done[i]].doc = fault}
           first == Min(I)
           Unbroken(i) == \A j \in (first + 1)..i :
                            timed[done[j]].doc \in Faults \/ ~timed[done[j]].ok
           tail == {j \in (first + 1)..Len(done) : Unbroken(j)}
<1>1. Ranked(done, Done(timed), Completion)
  <2>1. DOMAIN timed \cap Done(timed) = Done(timed)
    BY TimedFacts
  <2> QED
    BY <2>1, ByCompletionRanks
<1>2. Len(done) = n
  BY <1>1, RankedLen
<1>3. k \in {done[i] : i \in tail} /\ k \in Unrelated(timed, Faults)
  BY DEF FailureRun
<1> HIDE DEF done, n
<1>4. /\ n \in Nat /\ done \in [1..n -> Done(timed)]
      /\ \A e \in Done(timed) : \E i \in 1..n : done[i] = e
      /\ \A i, j \in 1..n : i <= j => Completion[done[i]] <= Completion[done[j]]
  BY <1>1 DEF Ranked, n
<1>5. DOMAIN done = 1..n
  BY <1>4
<1>6. I \in SUBSET Nat /\ I # {}
  <2>1. PICK e \in Outcomes(timed, fault) : TRUE
    OBVIOUS
  <2>2. e \in Done(timed) /\ timed[e].doc = fault
    BY DEF Outcomes
  <2>3. PICK i \in 1..n : done[i] = e
    BY <1>4, <2>2
  <2> QED
    BY <1>5, <2>2, <2>3
<1>7. first \in I /\ \A i \in I : first <= i
  <2> HIDE DEF I
  <2> QED
    BY <1>6, MinOf
<1>8. first \in 1..n /\ timed[done[first]].doc = fault
  BY <1>5, <1>7
<1> DEFINE f == done[first]
<1>9. f \in Done(timed) /\ timed[f].doc = fault
  BY <1>4, <1>8
<1>10. \A e \in Done(timed) : timed[e].completion \in Nat
                              /\ Completion[e] = timed[e].completion
  BY DoneFacts
<1>11. \A e \in Done(timed) : timed[e].doc = fault
                               => timed[f].completion <= timed[e].completion
  <2> TAKE e \in Done(timed)
  <2> HAVE timed[e].doc = fault
  <2>1. PICK i \in 1..n : done[i] = e
    BY <1>4
  <2>2. first <= i
    BY <1>5, <1>7, <2>1
  <2>3. Completion[f] <= Completion[e]
    BY <1>4, <1>8, <2>1, <2>2
  <2> QED
    BY <1>9, <1>10, <2>3
<1>12. FaultTime(timed, fault) = timed[f].completion
  <2> HIDE DEF f
  <2> QED
    BY <1>9, <1>11, FaultTimeIs
<1> HIDE DEF I, first
<1>13. PICK i \in tail : done[i] = k
  BY <1>3
<1>14. i \in (first + 1)..n /\ Unbroken(i)
  BY <1>2, <1>13
<1>15. i \in 1..n /\ first < i /\ first <= i /\ i \in (first + 1)..i
  BY <1>4, <1>8, <1>14
<1>16. k \in Done(timed) /\ Completion[f] <= Completion[k]
  BY <1>4, <1>8, <1>13, <1>15
<1>17. ~timed[k].ok
  <2>1. timed[done[i]].doc \in Faults \/ ~timed[done[i]].ok
    BY <1>14, <1>15
  <2> QED
    BY <1>3, <1>13, <2>1 DEF Unrelated
<1>18. ASSUME NEW m \in Successes(timed, Faults, fault)
       PROVE  timed[k].completion <= timed[m].completion
  <2>1. /\ m \in Done(timed) /\ timed[m].doc \notin Faults /\ timed[m].ok
        /\ timed[m].completion > timed[f].completion
    BY <1>12 DEF Successes, Unrelated
  <2>2. PICK j \in 1..n : done[j] = m
    BY <1>4, <2>1
  <2>3. ~(j <= first)
    <3>1. ASSUME j <= first PROVE Completion[m] <= Completion[f]
      BY <1>4, <1>8, <2>2, <3>1
    <3> QED
      BY <1>9, <1>10, <2>1, <3>1
  <2>4. j \notin (first + 1)..i
    BY <1>14, <2>1, <2>2
  <2>5. i <= j
    BY <1>8, <1>15, <2>2, <2>3, <2>4
  <2>6. Completion[k] <= Completion[m]
    BY <1>4, <1>13, <1>15, <2>2, <2>5
  <2> QED
    BY <1>10, <1>16, <2>1, <2>6
<1> QED
  BY <1>3, <1>9, <1>10, <1>12, <1>16, <1>17, <1>18

(* Of a wedge that is over within the window, every failure is counted     *)
(* (m4_m5_faults.py:18-19,30-34), ties included; of a longer one, the time *)
(* to the next success says that it was longer: for any file, any faults   *)
(* and any window.                                                         *)
THEOREM MeasuresWedges == Inputs => []WedgesSeen
<1>1. ASSUME InputOK, NEW fault \in Faults, Outcomes(timed, fault) # {},
             NEW m \in Successes(timed, Faults, fault),
             timed[m].completion <= FaultTime(timed, fault) + Window
      PROVE  FailureRun(fault) \subseteq Collateral(timed, Faults, fault, Window)
  <2> SUFFICES ASSUME NEW k \in FailureRun(fault)
               PROVE  k \in Collateral(timed, Faults, fault, Window)
    OBVIOUS
  <2>1. /\ k \in Done(timed) /\ k \in Unrelated(timed, Faults) /\ ~timed[k].ok
        /\ FaultTime(timed, fault) \in Nat
        /\ FaultTime(timed, fault) <= timed[k].completion
        /\ timed[k].completion <= timed[m].completion
    BY <1>1, RunIs
  <2>2. timed[k].completion \in Nat /\ timed[m].completion \in Nat
    BY <1>1, <2>1, TimedFacts, MeasuresAssumption DEF Successes
  <2>3. timed[k].completion - FaultTime(timed, fault) \in 0..Window
    BY <1>1, <2>1, <2>2, MeasuresAssumption
  <2> QED
    BY <1>1, <2>1, <2>3 DEF Collateral
<1>2. ASSUME InputOK, NEW fault \in Faults, Outcomes(timed, fault) # {},
             ~\A k \in Successes(timed, Faults, fault) :
                timed[k].completion > FaultTime(timed, fault) + Window
      PROVE  /\ FailureRun(fault) \subseteq Collateral(timed, Faults, fault, Window)
             /\ ZeroBlast(timed, Faults, Window) => FailureRun(fault) = {}
  <2>1. PICK m \in Successes(timed, Faults, fault) :
          ~(timed[m].completion > FaultTime(timed, fault) + Window)
    BY <1>2
  <2>2. m \in Done(timed)
    BY DEF Successes
  <2>3. timed[m].completion \in Nat
    BY <1>2, <2>2, TimedFacts, MeasuresAssumption
  <2>4. FaultTime(timed, fault) \in Nat
    <3>1. PICK e \in Outcomes(timed, fault) : TRUE
      BY <1>2
    <3> DEFINE T == {timed[k].completion : k \in Outcomes(timed, fault)}
    <3>2. T \in SUBSET Nat /\ T # {}
      BY <1>2, <3>1, DoneFacts DEF Outcomes
    <3>3. FaultTime(timed, fault) = Min(T)
      BY DEF FaultTime
    <3> HIDE DEF T
    <3> QED
      BY <3>2, <3>3, MinOf
  <2>5. timed[m].completion <= FaultTime(timed, fault) + Window
    BY <2>1, <2>3, <2>4, MeasuresAssumption
  <2>6. FailureRun(fault) \subseteq Collateral(timed, Faults, fault, Window)
    BY <1>1, <1>2, <2>5
  <2>7. ZeroBlast(timed, Faults, Window) =>
          Collateral(timed, Faults, fault, Window) = {}
    BY <1>2, ZeroBlastMeans
  <2> QED
    BY <2>6, <2>7
<1>3. InputOK => WedgesSeen
  BY <1>2 DEF WedgesSeen
<1> QED
  BY <1>3, InputsOK, PTL

-----------------------------------------------------------------------------
(* The sweep over submissions and completions                              *)

(* The time of the i-th event. *)
When(ev, i) == EventTime(timed, ev[i])

(* ev lists n events, the submission and the completion of each of docs:   *)
(* in the order of time, and at one instant the completions first.         *)
Timetable(ev, docs, n) ==
  /\ n \in Nat /\ Len(ev) = n /\ ev \in [1..n -> [doc : docs, delta : {-1, 1}]]
  /\ \A k \in docs : \A d \in {-1, 1} :
       \E i \in 1..n : ev[i].doc = k /\ ev[i].delta = d
  /\ \A i \in 1..n : When(ev, i) \in 0..Horizon
  /\ \A i, j \in 1..n : i <= j => When(ev, i) <= When(ev, j)
  /\ \A i, j \in 1..n : i < j =>
       /\ ev[i].doc # ev[j].doc \/ ev[i].delta # ev[j].delta
       /\ When(ev, i) = When(ev, j) => ev[i].delta <= ev[j].delta

(* The sorted events are one. *)
LEMMA EventsAre ==
  ASSUME InputOK, NEW docs \in SUBSET Done(timed)
  PROVE  \E n \in Nat : Timetable(Events(timed, docs), docs, n)
<1> DEFINE E == [doc : docs, delta : {-1, 1}]
           before == {p \in E \X E : Earlier(timed, p[1], p[2])}
           ev == Events(timed, docs)
           n == Cardinality(E)
           T(e) == EventTime(timed, e)
<1>1. \A e \in E : T(e) \in 0..Horizon /\ e.doc \in Nat /\ e.delta \in {-1, 1}
  <2> TAKE e \in E
  <2>1. e.doc \in docs /\ e.delta \in {-1, 1}
    OBVIOUS
  <2>2. /\ timed[e.doc].submit \in 0..Horizon
        /\ timed[e.doc].completion \in 0..Horizon /\ e.doc \in Nat
    BY <2>1, TimedFacts
  <2> QED
    BY <2>1, <2>2 DEF EventTime
<1>2. IsFiniteSet(E)
  <2> DEFINE code == [e \in E |-> <<e.doc, e.delta>>]
  <2>1. IsFiniteSet(docs) /\ IsFiniteSet({-1, 1})
    <3>1. IsFiniteSet(docs)
      BY DoneFacts, FS_Subset
    <3>2. IsFiniteSet({-1}) /\ IsFiniteSet({1})
      BY FS_Singleton
    <3>3. {-1, 1} = {-1} \cup {1}
      OBVIOUS
    <3> QED
      BY <3>1, <3>2, <3>3, FS_Union
  <2>2. IsFiniteSet(docs \X {-1, 1})
    BY <2>1, FS_Product
  <2>3. code \in Injection(E, docs \X {-1, 1})
    <3>1. code \in [E -> docs \X {-1, 1}]
      OBVIOUS
    <3>2. ASSUME NEW a \in E, NEW b \in E, code[a] = code[b]
          PROVE  a = b
      <4>1. a.doc = b.doc /\ a.delta = b.delta
        BY <3>2
      <4>2. /\ a = [doc |-> a.doc, delta |-> a.delta]
            /\ b = [doc |-> b.doc, delta |-> b.delta]
        OBVIOUS
      <4> QED
        BY <4>1, <4>2
    <3> HIDE DEF code
    <3> QED
      BY <3>1, <3>2 DEF Injection, IsInjective
  <2> QED
    BY <2>2, <2>3, FS_Injection
<1>3. \A e, f \in E : <<e, f>> \in before <=>
                        \/ T(e) < T(f)
                        \/ T(e) = T(f) /\ e.delta < f.delta
                        \/ T(e) = T(f) /\ e.delta = f.delta /\ e.doc < f.doc
  <2> TAKE e, f \in E
  <2> DEFINE P(p) == Earlier(timed, p[1], p[2])
             p0 == <<e, f>>
  <2>1. p0 \in E \X E /\ p0[1] = e /\ p0[2] = f
    OBVIOUS
  <2>2. before = {p \in E \X E : P(p)}
    OBVIOUS
  <2>3. P(p0) <=> Earlier(timed, e, f)
    BY <2>1
  <2> HIDE DEF P, before, p0
  <2>4. p0 \in before <=> P(p0)
    BY <2>1, <2>2
  <2>5. <<e, f>> \in before <=> Earlier(timed, e, f)
    BY <2>3, <2>4 DEF p0
  <2>6. Earlier(timed, e, f) <=>
          \/ T(e) < T(f)
          \/ T(e) = T(f) /\ e.delta < f.delta
          \/ T(e) = T(f) /\ e.delta = f.delta /\ e.doc < f.doc
    BY Zenon DEF Earlier
  <2> QED
    BY <2>5, <2>6
<1>4. Orders(before, E)
  <2> DEFINE D(e) == e.delta
             K(e) == e.doc
  <2>1. \A e \in E : T(e) \in Int /\ K(e) \in Int /\ D(e) \in Int
    BY <1>1, MeasuresAssumption
  <2>2. \A e, f \in E : <<e, f>> \in before <=>
                        \/ T(e) < T(f)
                        \/ T(e) = T(f) /\ D(e) < D(f)
                        \/ T(e) = T(f) /\ D(e) = D(f) /\ K(e) < K(f)
    BY <1>3
  <2>3. ASSUME NEW e \in E, NEW f \in E, D(e) = D(f), K(e) = K(f)
        PROVE  e = f
    <3>1. /\ e = [doc |-> e.doc, delta |-> e.delta]
          /\ f = [doc |-> f.doc, delta |-> f.delta]
      OBVIOUS
    <3> QED
      BY <2>3, <3>1
  <2> HIDE DEF before, E, T, D, K
  <2>4. \A e \in E : <<e, e>> \notin before
    <3> TAKE e \in E
    <3>1. T(e) \in Int /\ K(e) \in Int /\ D(e) \in Int
      BY <2>1
    <3> QED
      BY <2>2, <3>1
  <2>5. \A e, f \in E : e # f => <<e, f>> \in before \/ <<f, e>> \in before
    <3> SUFFICES ASSUME NEW e \in E, NEW f \in E, e # f
                 PROVE  <<e, f>> \in before \/ <<f, e>> \in before
      OBVIOUS
    <3>1. /\ T(e) \in Int /\ K(e) \in Int /\ D(e) \in Int
          /\ T(f) \in Int /\ K(f) \in Int /\ D(f) \in Int
      BY <2>1
    <3>2. D(e) # D(f) \/ K(e) # K(f)
      BY <2>3
    <3> QED
      BY <2>2, <3>1, <3>2
  <2>6. \A e, f, g \in E : <<e, f>> \in before /\ <<f, g>> \in before
                           => <<e, g>> \in before
    <3> SUFFICES ASSUME NEW e \in E, NEW f \in E, NEW g \in E,
                        <<e, f>> \in before, <<f, g>> \in before
                 PROVE  <<e, g>> \in before
      OBVIOUS
    <3>1. /\ T(e) \in Int /\ K(e) \in Int /\ D(e) \in Int
          /\ T(f) \in Int /\ K(f) \in Int /\ D(f) \in Int
          /\ T(g) \in Int /\ K(g) \in Int /\ D(g) \in Int
      BY <2>1
    <3> QED
      BY <2>2, <3>1
  <2> QED
    BY <2>4, <2>5, <2>6 DEF Orders
<1>5. Lists(ev, E, before) /\ n \in Nat
  <2>1. ev = Sorted(E, before)
    BY DEF Events
  <2> HIDE DEF E, before, ev
  <2> QED
    BY <1>2, <1>4, <2>1, SortedLists, FS_CardinalityType
<1>6. /\ ev \in [1..n -> E]
      /\ \A e \in E : \E i \in 1..n : ev[i] = e
      /\ \A i, j \in 1..n : i < j => <<ev[i], ev[j]>> \in before
  <2> HIDE DEF E, before, ev
  <2> QED
    BY <1>5 DEF Lists
<1>7. Len(ev) = n
  <2> HIDE DEF E, ev, n
  <2>1. ev \in Seq(E)
    BY <1>5, <1>6, SeqDef
  <2>2. DOMAIN ev = 1..Len(ev) /\ Len(ev) \in Nat /\ DOMAIN ev = 1..n
    BY <1>6, <2>1, LenProperties
  <2> QED
    BY <1>5, <2>2, SameLength
<1>8. \A i \in 1..n : /\ When(ev, i) = T(ev[i]) /\ ev[i] \in E
                      /\ When(ev, i) \in 0..Horizon
  <2> HIDE DEF E, ev, n
  <2> QED
    BY <1>1, <1>6 DEF When
<1>9. ASSUME NEW k \in docs, NEW d \in {-1, 1}
      PROVE  \E i \in 1..n : ev[i].doc = k /\ ev[i].delta = d
  <2> DEFINE e == [doc |-> k, delta |-> d]
  <2>1. e \in E /\ e.doc = k /\ e.delta = d
    OBVIOUS
  <2>2. PICK i \in 1..n : ev[i] = e
    <3> HIDE DEF E, ev, n, e
    <3> QED
      BY <1>6, <2>1
  <2> QED
    BY <2>1, <2>2
<1>10. ASSUME NEW i \in 1..n, NEW j \in 1..n, i < j
       PROVE  /\ When(ev, i) <= When(ev, j)
              /\ ev[i].doc # ev[j].doc \/ ev[i].delta # ev[j].delta
              /\ When(ev, i) = When(ev, j) => ev[i].delta <= ev[j].delta
  <2> DEFINE e == ev[i]
             f == ev[j]
  <2>1. e \in E /\ f \in E /\ <<e, f>> \in before
    BY <1>6, <1>8, <1>10
  <2>2. \/ T(e) < T(f)
        \/ T(e) = T(f) /\ e.delta < f.delta
        \/ T(e) = T(f) /\ e.delta = f.delta /\ e.doc < f.doc
    <3> HIDE DEF E, e, f, before, T
    <3> QED
      BY <1>3, <2>1
  <2>3. /\ T(e) \in Nat /\ e.doc \in Nat /\ e.delta \in Int
        /\ T(f) \in Nat /\ f.doc \in Nat /\ f.delta \in Int
    BY <1>1, <2>1, MeasuresAssumption
  <2>4. When(ev, i) = T(e) /\ When(ev, j) = T(f)
    BY DEF When
  <2> HIDE DEF E, e, f, before, T
  <2>5. /\ T(e) <= T(f)
        /\ e.doc # f.doc \/ e.delta # f.delta \/ T(e) # T(f)
        /\ T(e) = T(f) => e.delta <= f.delta
    BY <2>2, <2>3
  <2>6. e.doc = f.doc /\ e.delta = f.delta => T(e) = T(f)
    BY DEF T, EventTime
  <2> QED
    BY <2>4, <2>5, <2>6 DEF e, f
<1>11. \A i, j \in 1..n : i <= j => When(ev, i) <= When(ev, j)
  <2> SUFFICES ASSUME NEW i \in 1..n, NEW j \in 1..n, i <= j
               PROVE  When(ev, i) <= When(ev, j)
    OBVIOUS
  <2> HIDE DEF n, ev
  <2>1. CASE i < j
    BY <1>10, <2>1
  <2>2. CASE i = j
    <3>1. When(ev, i) \in Int
      BY <1>8, MeasuresAssumption
    <3> QED
      BY <2>2, <3>1
  <2> QED
    BY <1>5, <2>1, <2>2
<1>12. Timetable(ev, docs, n)
  <2>1. ev \in [1..n -> [doc : docs, delta : {-1, 1}]]
    BY <1>6
  <2> HIDE DEF ev, n, E
  <2>2. \A i, j \in 1..n : i < j =>
          /\ ev[i].doc # ev[j].doc \/ ev[i].delta # ev[j].delta
          /\ When(ev, i) = When(ev, j) => ev[i].delta <= ev[j].delta
    BY <1>10
  <2> QED
    BY <1>5, <1>7, <1>8, <1>9, <1>11, <2>1, <2>2 DEF Timetable
<1> HIDE DEF ev, n
<1> QED
  BY <1>5, <1>12 DEF ev

(* What the sweep carries from event to event.                             *)
Acc == [cur : Int, peak : Int, area : Int, prev : Int]

(* Each value follows from the one before and the event.                   *)
Swept(sw, ev, n) ==
  /\ sw \in [0..n -> Acc]
  /\ sw[0] = [cur |-> 0, peak |-> 0, area |-> 0, prev |-> When(ev, 1)]
  /\ \A i \in 1..n :
       /\ sw[i].cur = sw[i - 1].cur + ev[i].delta
       /\ sw[i].peak = Max({sw[i - 1].peak, sw[i].cur})
       /\ sw[i].area = sw[i - 1].area + sw[i - 1].cur * (When(ev, i) - sw[i - 1].prev)
       /\ sw[i].prev = When(ev, i)

(* achieved_concurrency() computes them. *)
LEMMA SweepIs ==
  ASSUME MeasuresAssumption, NEW docs, NEW ev, NEW n, Timetable(ev, docs, n), n > 0
  PROVE  Swept(Sweep(timed, ev), ev, n)
<1> DEFINE Next1(i, acc) ==
             [cur  |-> acc.cur + ev[i].delta,
              peak |-> Max({acc.peak, acc.cur + ev[i].delta}),
              area |-> acc.area + acc.cur * (When(ev, i) - acc.prev),
              prev |-> When(ev, i)]
           first == [cur |-> 0, peak |-> 0, area |-> 0, prev |-> When(ev, 1)]
           step == [p \in (1..n) \X Acc |-> Next1(p[1], p[2])]
           c == Sweep(timed, ev)
<1>0. /\ n \in Nat /\ Len(ev) = n
      /\ \A i \in 1..n : When(ev, i) \in Int /\ ev[i].delta \in Int
  <2>1. ASSUME NEW i \in 1..n
        PROVE  When(ev, i) \in Int /\ ev[i].delta \in Int
    <3>1. ev[i] \in [doc : docs, delta : {-1, 1}] /\ When(ev, i) \in 0..Horizon
      BY DEF Timetable
    <3> QED
      BY <3>1
  <2> QED
    BY <2>1 DEF Timetable
<1>1. first \in Acc
  <2>1. When(ev, 1) \in Int
    BY <1>0
  <2> QED
    BY <2>1 DEF Acc
<1>2. ASSUME NEW i \in 1..n, NEW acc \in Acc
      PROVE  Next1(i, acc) \in Acc
  <2> DEFINE x == acc.peak
             y == acc.cur + ev[i].delta
  <2>1. /\ acc.cur \in Int /\ acc.peak \in Int /\ acc.area \in Int /\ acc.prev \in Int
        /\ ev[i].delta \in Int /\ When(ev, i) \in Int
    BY <1>0 DEF Acc
  <2>2. x \in Int /\ y \in Int
    BY <2>1
  <2>3. Max({x, y}) \in Int
    <3> HIDE DEF x, y
    <3>1. Max({x, y}) \in {x, y}
      BY <2>2, MaxOfTwo
    <3> QED
      BY <2>2, <3>1
  <2>4. acc.area + acc.cur * (When(ev, i) - acc.prev) \in Int
    BY <2>1
  <2>5. Max({acc.peak, acc.cur + ev[i].delta}) \in Int
    BY <2>3
  <2> QED
    BY <2>1, <2>2, <2>4, <2>5 DEF Acc
<1>3. step \in [(1..n) \X Acc -> Acc]
  <2> HIDE DEF Next1
  <2> QED
    BY <1>2
<1>4. PICK g : GoesOn(g, n, Acc, first, step)
  <2> HIDE DEF step, first
  <2> QED
    BY <1>0, <1>1, <1>3, Recursion
<1>5. g \in [0..n -> Acc] /\ g[0] = first
  <2> HIDE DEF step, first
  <2> QED
    BY <1>4 DEF GoesOn
<1>6. \A i \in 1..n : g[i] = Next1(i, g[i - 1])
  <2> SUFFICES ASSUME NEW i \in 1..n
               PROVE  g[i] = Next1(i, g[i - 1])
    OBVIOUS
  <2>1. i - 1 \in 0..n
    BY <1>0
  <2>2. g[i - 1] \in Acc
    BY <1>5, <2>1
  <2>3. g[i] = step[<<i, g[i - 1]>>]
    <3> HIDE DEF step, first
    <3> QED
      BY <1>4 DEF GoesOn
  <2> HIDE DEF Next1
  <2> QED
    BY <2>1, <2>2, <2>3
<1>7. g = [i \in 0..n |-> IF i = 0 THEN first ELSE Next1(i, g[i - 1])]
  <2> HIDE DEF Next1, first
  <2> QED
    BY <1>5, <1>6
<1>8. c = [i \in 0..n |-> IF i = 0 THEN first ELSE Next1(i, c[i - 1])]
  BY <1>0, <1>7 DEF Sweep, When
<1> HIDE DEF Next1, c, first
<1>9. c[0] = first /\ \A i \in 1..n : c[i] = Next1(i, c[i - 1])
  BY <1>0, <1>8
<1>10. \A i \in 0..n : c[i] = g[i]
  <2>1. c[0] = g[0]
    BY <1>5, <1>9
  <2>2. Alike(c, g, n)
    BY <1>6, <1>9 DEF Alike
  <2> QED
    BY <1>0, <2>1, <2>2, Agree
<1>11. c \in [0..n -> Acc]
  BY <1>5, <1>8, <1>10
<1>12. \A i \in 1..n :
         /\ c[i].cur = c[i - 1].cur + ev[i].delta
         /\ c[i].peak = Max({c[i - 1].peak, c[i].cur})
         /\ c[i].area = c[i - 1].area + c[i - 1].cur * (When(ev, i) - c[i - 1].prev)
         /\ c[i].prev = When(ev, i)
  <2> TAKE i \in 1..n
  <2>1. c[i] = Next1(i, c[i - 1])
    BY <1>9
  <2>2. ASSUME NEW acc
        PROVE  /\ Next1(i, acc).cur = acc.cur + ev[i].delta
               /\ Next1(i, acc).peak = Max({acc.peak, Next1(i, acc).cur})
               /\ Next1(i, acc).area = acc.area + acc.cur * (When(ev, i) - acc.prev)
               /\ Next1(i, acc).prev = When(ev, i)
    BY DEF Next1
  <2> QED
    BY <2>1, <2>2
<1> QED
  BY <1>9, <1>11, <1>12 DEF Swept, first, c

(* The documents with the event d among the first i.                       *)
Through(ev, docs, i, d) ==
  {k \in docs : \E j \in 1..i : ev[j].doc = k /\ ev[j].delta = d}

(* An event adds its document to those that it is about, and no other.     *)
LEMMA ThroughStep ==
  ASSUME NEW docs, NEW ev, NEW n, Timetable(ev, docs, n), NEW i \in 1..n,
         NEW d \in {-1, 1}
  PROVE  /\ ev[i].delta = d =>
              /\ Through(ev, docs, i, d) = Through(ev, docs, i - 1, d) \cup {ev[i].doc}
              /\ ev[i].doc \notin Through(ev, docs, i - 1, d)
         /\ ev[i].delta # d =>
              Through(ev, docs, i, d) = Through(ev, docs, i - 1, d)
<1>1. /\ n \in Nat
      /\ ev \in [1..n -> [doc : docs, delta : {-1, 1}]]
      /\ \A a, b \in 1..n : a < b => ev[a].doc # ev[b].doc \/ ev[a].delta # ev[b].delta
  BY DEF Timetable
<1>2. ev[i] \in [doc : docs, delta : {-1, 1}]
  BY <1>1
<1>3. ev[i].doc \in docs
  BY <1>2
<1>4. \A j \in 1..i : j = i \/ j \in 1..(i - 1)
  BY <1>1
<1>5. \A j \in 1..(i - 1) : j \in 1..i /\ j \in 1..n /\ j < i
  BY <1>1
<1>6. i \in 1..i
  BY <1>1
<1>7. ev[i].delta = d => ev[i].doc \notin Through(ev, docs, i - 1, d)
  BY <1>1, <1>5 DEF Through
<1>8. ASSUME ev[i].delta = d
      PROVE  Through(ev, docs, i, d) = Through(ev, docs, i - 1, d) \cup {ev[i].doc}
  BY <1>3, <1>4, <1>5, <1>6, <1>8, Zenon DEF Through
<1>9. ASSUME ev[i].delta # d
      PROVE  Through(ev, docs, i, d) = Through(ev, docs, i - 1, d)
  BY <1>4, <1>5, <1>9, Zenon DEF Through
<1> QED
  BY <1>7, <1>8, <1>9

(* The number in flight after i events: the submissions among them without *)
(* the completions. *)
LEMMA CurIs ==
  ASSUME NEW docs, IsFiniteSet(docs), NEW ev, NEW n, Timetable(ev, docs, n),
         NEW sw, Swept(sw, ev, n), NEW i \in 0..n
  PROVE  /\ Cardinality(Through(ev, docs, i, 1)) \in Nat
         /\ Cardinality(Through(ev, docs, i, -1)) \in Nat
         /\ sw[i].cur = Cardinality(Through(ev, docs, i, 1))
                          - Cardinality(Through(ev, docs, i, -1))
<1> DEFINE In(j) == Through(ev, docs, j, 1)
           Out(j) == Through(ev, docs, j, -1)
           C(j) == sw[j].cur = Cardinality(In(j)) - Cardinality(Out(j))
           S == {j \in Nat : j <= n => C(j)}
<1>0. n \in Nat
  BY DEF Timetable
<1>1. \A j : /\ IsFiniteSet(In(j)) /\ IsFiniteSet(Out(j))
             /\ Cardinality(In(j)) \in Nat /\ Cardinality(Out(j)) \in Nat
  <2> TAKE j
  <2>1. In(j) \in SUBSET docs /\ Out(j) \in SUBSET docs
    BY DEF Through
  <2> HIDE DEF In, Out
  <2> QED
    BY <2>1, FS_Subset, FS_CardinalityType
<1>2. 0 \in S
  <2>1. In(0) = {} /\ Out(0) = {}
    BY DEF Through
  <2>2. Cardinality({}) = 0
    BY FS_EmptySet
  <2>3. sw[0].cur = 0
    BY DEF Swept
  <2> QED
    BY <2>1, <2>2, <2>3
<1>3. ASSUME NEW j \in Nat, j \in S
      PROVE  j + 1 \in S
  <2> SUFFICES ASSUME j + 1 <= n
               PROVE  C(j + 1)
    OBVIOUS
  <2>1. j + 1 \in 1..n /\ (j + 1) - 1 = j /\ C(j)
    BY <1>0, <1>3
  <2>2. sw[j + 1].cur = sw[j].cur + ev[j + 1].delta
    BY <2>1 DEF Swept
  <2>3. ev[j + 1].delta \in {-1, 1}
    <3>1. ev[j + 1] \in [doc : docs, delta : {-1, 1}]
      BY <2>1 DEF Timetable
    <3> QED
      BY <3>1
  <2>4. \A d \in {-1, 1} :
          /\ ev[j + 1].delta = d =>
               /\ Through(ev, docs, j + 1, d) = Through(ev, docs, j, d) \cup {ev[j + 1].doc}
               /\ ev[j + 1].doc \notin Through(ev, docs, j, d)
          /\ ev[j + 1].delta # d =>
               Through(ev, docs, j + 1, d) = Through(ev, docs, j, d)
    BY <2>1, ThroughStep
  <2> DEFINE x == Cardinality(In(j))
             y == Cardinality(Out(j))
  <2>5. x \in Nat /\ y \in Nat /\ sw[j].cur = x - y
    BY <1>1, <2>1
  <2>6. CASE ev[j + 1].delta = 1
    <3>1. /\ In(j + 1) = In(j) \cup {ev[j + 1].doc} /\ ev[j + 1].doc \notin In(j)
          /\ Out(j + 1) = Out(j)
      BY <2>4, <2>6
    <3>2. Cardinality(In(j + 1)) = x + 1
      <4> HIDE DEF In
      <4> QED
        BY <1>1, <3>1, FS_AddElement
    <3>3. Cardinality(Out(j + 1)) = y
      BY <3>1
    <3> HIDE DEF x, y, In, Out
    <3> QED
      BY <2>2, <2>5, <2>6, <3>2, <3>3
  <2>7. CASE ev[j + 1].delta = -1
    <3>1. /\ Out(j + 1) = Out(j) \cup {ev[j + 1].doc} /\ ev[j + 1].doc \notin Out(j)
          /\ In(j + 1) = In(j)
      BY <2>4, <2>7
    <3>2. Cardinality(Out(j + 1)) = y + 1
      <4> HIDE DEF Out
      <4> QED
        BY <1>1, <3>1, FS_AddElement
    <3>3. Cardinality(In(j + 1)) = x
      BY <3>1
    <3> HIDE DEF x, y, In, Out
    <3> QED
      BY <2>2, <2>5, <2>7, <3>2, <3>3
  <2> QED
    BY <2>3, <2>6, <2>7
<1>4. \A j \in Nat : j \in S
  <2> HIDE DEF S
  <2> QED
    BY <1>2, <1>3, AllNaturals
<1>5. C(i)
  <2>1. i \in Nat /\ i <= n
    BY <1>0
  <2> HIDE DEF C
  <2> QED
    BY <1>4, <2>1
<1> QED
  BY <1>1, <1>5

(* The documents submitted by t, and those completed by t.                 *)
Begun(docs, t) == {k \in docs : timed[k].submit <= t}

Ended(docs, t) == {k \in docs : timed[k].completion <= t}

(* What is in flight has been submitted and not completed: it can be       *)
(* counted by counting the two. *)
LEMMA UnderwayIs ==
  ASSUME InputOK, NEW docs \in SUBSET Done(timed), NEW t \in Int
  PROVE  /\ Underway(docs, t) = Begun(docs, t) \ Ended(docs, t)
         /\ IsFiniteSet(docs)
         /\ IsFiniteSet(Begun(docs, t)) /\ IsFiniteSet(Ended(docs, t))
         /\ IsFiniteSet(Underway(docs, t))
         /\ Cardinality(Begun(docs, t)) \in Nat /\ Cardinality(Ended(docs, t)) \in Nat
         /\ Cardinality(Underway(docs, t)) \in Nat
         /\ Cardinality(Underway(docs, t))
              = Cardinality(Begun(docs, t)) - Cardinality(Ended(docs, t))
<1> DEFINE A == Begun(docs, t)
           B == Ended(docs, t)
           U == Underway(docs, t)
<1>1. \A k \in docs : /\ timed[k].submit \in Int /\ timed[k].completion \in Int
                      /\ timed[k].submit <= timed[k].completion
  BY DoneFacts
<1>2. U = A \ B /\ A \cap B = B /\ A \in SUBSET docs /\ B \in SUBSET docs
      /\ U \in SUBSET docs
  BY <1>1 DEF Underway, Begun, Ended
<1>3. IsFiniteSet(docs)
  BY DoneFacts, FS_Subset
<1> HIDE DEF A, B, U
<1>4. /\ IsFiniteSet(A) /\ IsFiniteSet(B) /\ IsFiniteSet(U)
      /\ Cardinality(A) \in Nat /\ Cardinality(B) \in Nat /\ Cardinality(U) \in Nat
  BY <1>2, <1>3, FS_Subset, FS_CardinalityType
<1>5. Cardinality(A \ B) = Cardinality(A) - Cardinality(A \cap B)
  BY <1>4, FS_Difference
<1>6. Cardinality(U) = Cardinality(A) - Cardinality(B)
  BY <1>2, <1>5
<1> QED
  BY <1>2, <1>3, <1>4, <1>6 DEF A, B, U

(* What the time of an event says.                                         *)
LEMMA WhenIs ==
  ASSUME NEW docs, NEW ev, NEW n, Timetable(ev, docs, n), NEW j \in 1..n
  PROVE  /\ ev[j].doc \in docs /\ ev[j].delta \in {-1, 1}
         /\ ev[j].delta = 1 => When(ev, j) = timed[ev[j].doc].submit
         /\ ev[j].delta = -1 => When(ev, j) = timed[ev[j].doc].completion
         /\ When(ev, j) \in Nat /\ When(ev, j) \in 0..Horizon
<1>1. ev[j] \in [doc : docs, delta : {-1, 1}] /\ When(ev, j) \in 0..Horizon
  BY DEF Timetable
<1>2. ev[j].doc \in docs /\ ev[j].delta \in {-1, 1}
  BY <1>1
<1>3. When(ev, j) = IF ev[j].delta = 1 THEN timed[ev[j].doc].submit
                    ELSE timed[ev[j].doc].completion
  BY DEF When, EventTime
<1>4. When(ev, j) \in Nat
  BY <1>1
<1> QED
  BY <1>1, <1>2, <1>3, <1>4

(* Events up to an instant, and the documents that they are about. *)
LEMMA ThroughBefore ==
  ASSUME NEW docs, NEW ev, NEW n, Timetable(ev, docs, n), NEW i \in 0..n,
         NEW t \in Int
  PROVE  /\ (\A j \in 1..i : ev[j].delta = 1 => When(ev, j) <= t)
              => Through(ev, docs, i, 1) \subseteq Begun(docs, t)
         /\ (\A j \in 1..i : ev[j].delta = -1 => When(ev, j) <= t)
              => Through(ev, docs, i, -1) \subseteq Ended(docs, t)
         /\ (\A j \in 1..n : When(ev, j) <= t => j <= i)
              => /\ Begun(docs, t) \subseteq Through(ev, docs, i, 1)
                 /\ Ended(docs, t) \subseteq Through(ev, docs, i, -1)
<1>1. n \in Nat /\ \A j \in 1..i : j \in 1..n
  BY DEF Timetable
<1>2. \A k \in docs : \A d \in {-1, 1} :
        \E j \in 1..n : ev[j].doc = k /\ ev[j].delta = d
  BY DEF Timetable
<1>3. \A j \in 1..n :
        /\ ev[j].delta = 1 => When(ev, j) = timed[ev[j].doc].submit
        /\ ev[j].delta = -1 => When(ev, j) = timed[ev[j].doc].completion
  BY WhenIs
<1>4. ASSUME \A j \in 1..i : ev[j].delta = 1 => When(ev, j) <= t,
             NEW k \in Through(ev, docs, i, 1)
      PROVE  k \in Begun(docs, t)
  <2>1. PICK j \in 1..i : ev[j].doc = k /\ ev[j].delta = 1
    BY DEF Through
  <2>2. When(ev, j) <= t /\ When(ev, j) = timed[k].submit /\ k \in docs
    BY <1>1, <1>3, <1>4, <2>1 DEF Through
  <2> QED
    BY <2>2 DEF Begun
<1>5. ASSUME \A j \in 1..i : ev[j].delta = -1 => When(ev, j) <= t,
             NEW k \in Through(ev, docs, i, -1)
      PROVE  k \in Ended(docs, t)
  <2>1. PICK j \in 1..i : ev[j].doc = k /\ ev[j].delta = -1
    BY DEF Through
  <2>2. When(ev, j) <= t /\ When(ev, j) = timed[k].completion /\ k \in docs
    BY <1>1, <1>3, <1>5, <2>1 DEF Through
  <2> QED
    BY <2>2 DEF Ended
<1>6. ASSUME \A j \in 1..n : When(ev, j) <= t => j <= i, NEW k \in docs
      PROVE  /\ k \in Begun(docs, t) => k \in Through(ev, docs, i, 1)
             /\ k \in Ended(docs, t) => k \in Through(ev, docs, i, -1)
  <2>1. PICK a \in 1..n : ev[a].doc = k /\ ev[a].delta = 1
    BY <1>2
  <2>2. PICK b \in 1..n : ev[b].doc = k /\ ev[b].delta = -1
    BY <1>2
  <2>3. /\ timed[k].submit <= t => a \in 1..i
        /\ timed[k].completion <= t => b \in 1..i
    BY <1>1, <1>3, <1>6, <2>1, <2>2
  <2> QED
    BY <2>1, <2>2, <2>3 DEF Through, Begun, Ended
<1>7. Begun(docs, t) \subseteq docs /\ Ended(docs, t) \subseteq docs
  BY DEF Begun, Ended
<1> QED
  BY <1>4, <1>5, <1>6, <1>7

(* The first i events are those up to t.                                   *)
UpTo(ev, n, i, t) == \A j \in 1..n : j <= i <=> When(ev, j) <= t

(* The documents in flight after i events. *)
StillOpen(ev, docs, i) == Through(ev, docs, i, 1) \ Through(ev, docs, i, -1)

(* After exactly the events up to t, what is in flight is what is in       *)
(* flight at t.                                                            *)
LEMMA CurAt ==
  ASSUME InputOK, NEW docs \in SUBSET Done(timed), NEW ev, NEW n,
         Timetable(ev, docs, n), NEW sw, Swept(sw, ev, n), NEW t \in Int,
         NEW i \in 0..n, UpTo(ev, n, i, t)
  PROVE  /\ Underway(docs, t) = StillOpen(ev, docs, i)
         /\ sw[i].cur = Cardinality(Underway(docs, t))
<1>1. \A j \in 1..i : j \in 1..n /\ When(ev, j) <= t
  <2> TAKE j \in 1..i
  <2>1. j \in 1..n /\ j <= i
    BY DEF Timetable
  <2> QED
    BY <2>1 DEF UpTo
<1>2. /\ Begun(docs, t) = Through(ev, docs, i, 1)
      /\ Ended(docs, t) = Through(ev, docs, i, -1)
  <2>1. \A j \in 1..i : ev[j].delta = 1 => When(ev, j) <= t
    BY <1>1
  <2>2. \A j \in 1..i : ev[j].delta = -1 => When(ev, j) <= t
    BY <1>1
  <2>3. \A j \in 1..n : When(ev, j) <= t => j <= i
    BY DEF UpTo
  <2>4. Through(ev, docs, i, 1) \subseteq Begun(docs, t)
    BY <2>1, ThroughBefore
  <2>5. Through(ev, docs, i, -1) \subseteq Ended(docs, t)
    BY <2>2, ThroughBefore
  <2>6. /\ Begun(docs, t) \subseteq Through(ev, docs, i, 1)
        /\ Ended(docs, t) \subseteq Through(ev, docs, i, -1)
    BY <2>3, ThroughBefore
  <2> QED
    BY <2>4, <2>5, <2>6
<1>3. sw[i].cur = Cardinality(Through(ev, docs, i, 1))
                    - Cardinality(Through(ev, docs, i, -1))
  BY UnderwayIs, CurIs
<1> QED
  BY <1>2, <1>3, UnderwayIs DEF StillOpen

(* There is such a moment in the sweep for every instant. *)
LEMMA MomentOf ==
  ASSUME NEW docs, NEW ev, NEW n, Timetable(ev, docs, n), NEW t \in Int
  PROVE  \E i \in 0..n : UpTo(ev, n, i, t)
<1> DEFINE Later == {j \in 1..n : When(ev, j) > t}
<1>1. /\ n \in Nat /\ \A j \in 1..n : When(ev, j) \in Int
      /\ \A a, b \in 1..n : a <= b => When(ev, a) <= When(ev, b)
  BY WhenIs DEF Timetable
<1>2. CASE Later = {}
  <2>1. \A j \in 1..n : j <= n /\ When(ev, j) <= t
    BY <1>1, <1>2
  <2>2. n \in 0..n
    BY <1>1
  <2>3. UpTo(ev, n, n, t)
    BY <2>1 DEF UpTo
  <2> QED
    BY <2>2, <2>3
<1>3. CASE Later # {}
  <2>1. Later \in SUBSET Nat
    BY <1>1
  <2>2. PICK m \in Later : \A j \in Later : m <= j
    <3> HIDE DEF Later
    <3> QED
      BY <1>3, <2>1, LeastOf
  <2>3. m \in 1..n /\ m - 1 \in 0..n /\ When(ev, m) > t
    BY <1>1, <2>2
  <2>4. ASSUME NEW j \in 1..n
        PROVE  j <= m - 1 <=> When(ev, j) <= t
    <3>1. CASE j < m
      <4>1. j \notin Later
        BY <1>1, <2>2, <2>3, <3>1
      <4> QED
        BY <1>1, <2>3, <3>1, <4>1
    <3>2. CASE m <= j
      <4>1. When(ev, m) <= When(ev, j)
        BY <1>1, <2>3, <3>2
      <4> QED
        BY <1>1, <2>3, <3>2, <4>1
    <3> QED
      BY <1>1, <2>3, <3>1, <3>2
  <2>5. UpTo(ev, n, m - 1, t)
    BY <2>4 DEF UpTo
  <2> QED
    BY <2>3, <2>5
<1> QED
  BY <1>2, <1>3

(* The sweep never counts more than are in flight at some instant: the one *)
(* of the event, or when completions of that instant are still to come,    *)
(* the one before it.                                                      *)
LEMMA NeverMore ==
  ASSUME InputOK, NEW docs \in SUBSET Done(timed), NEW ev, NEW n,
         Timetable(ev, docs, n), NEW sw, Swept(sw, ev, n), NEW i \in 1..n
  PROVE  \E t \in 0..Horizon : sw[i].cur <= Cardinality(Underway(docs, t))
<1> DEFINE In == Through(ev, docs, i, 1)
           Out == Through(ev, docs, i, -1)
           T == When(ev, i)
<1>1. /\ T \in 0..Horizon /\ T \in Int /\ n \in Nat /\ i \in 0..n /\ Horizon \in Nat
      /\ \A j \in 1..n : When(ev, j) \in Int
      /\ \A a, b \in 1..n : a <= b => When(ev, a) <= When(ev, b)
  BY WhenIs, MeasuresAssumption DEF Timetable
<1>2. \A j \in 1..i : j \in 1..n /\ When(ev, j) <= T
  BY <1>1
<1>3. /\ sw[i].cur = Cardinality(In) - Cardinality(Out)
      /\ Cardinality(In) \in Nat /\ Cardinality(Out) \in Nat
  BY <1>1, CurIs, UnderwayIs
<1>4. ASSUME NEW t \in Int, In \subseteq Begun(docs, t), Ended(docs, t) \subseteq Out
      PROVE  sw[i].cur <= Cardinality(Underway(docs, t))
  <2>1. IsFiniteSet(Out)
    <3>1. Out \in SUBSET docs
      BY DEF Through
    <3> HIDE DEF Out
    <3> QED
      BY <3>1, UnderwayIs, FS_Subset
  <2> HIDE DEF In, Out, T
  <2>2. /\ Cardinality(In) <= Cardinality(Begun(docs, t))
        /\ Cardinality(Ended(docs, t)) <= Cardinality(Out)
    BY <1>4, <2>1, UnderwayIs, FS_Subset
  <2> DEFINE a == Cardinality(In)
             b == Cardinality(Out)
             c == Cardinality(Begun(docs, t))
             d == Cardinality(Ended(docs, t))
             u == Cardinality(Underway(docs, t))
  <2>3. /\ a \in Nat /\ b \in Nat /\ c \in Nat /\ d \in Nat /\ u = c - d
        /\ a <= c /\ d <= b /\ sw[i].cur = a - b
    BY <1>3, <2>2, UnderwayIs
  <2> HIDE DEF a, b, c, d, u
  <2>4. sw[i].cur <= u
    BY <2>3
  <2> QED
    BY <2>4 DEF u
<1>5. CASE Ended(docs, T) \subseteq Out
  <2>1. In \subseteq Begun(docs, T)
    BY <1>1, <1>2, ThroughBefore
  <2>2. sw[i].cur <= Cardinality(Underway(docs, T))
    BY <1>1, <1>4, <1>5, <2>1
  <2> QED
    BY <1>1, <2>2
<1>6. CASE ~(Ended(docs, T) \subseteq Out)
  <2>1. PICK k \in docs : timed[k].completion <= T /\ k \notin Out
    BY <1>6 DEF Ended
  <2>2. PICK j \in 1..n : ev[j].doc = k /\ ev[j].delta = -1
    BY <2>1 DEF Timetable
  <2>3. i < j
    <3>1. j \notin 1..i
      BY <2>1, <2>2 DEF Through
    <3> QED
      BY <1>1, <3>1
  <2>4. When(ev, j) = T
    <3>1. When(ev, j) <= T
      BY <2>1, <2>2, WhenIs
    <3>2. T <= When(ev, j)
      BY <1>1, <2>3
    <3> QED
      BY <1>1, <3>1, <3>2
  <2>5. ASSUME NEW m \in 1..i, ev[m].delta = 1
        PROVE  When(ev, m) <= T - 1
    <3>1. m \in 1..n /\ When(ev, m) <= T /\ m < j
      BY <1>1, <1>2, <2>3
    <3>2. When(ev, m) # T
      BY <2>2, <2>4, <2>5, <3>1 DEF Timetable
    <3> QED
      BY <1>1, <3>1, <3>2
  <2>6. \A m \in 1..n : When(ev, m) <= T - 1 => m <= i
    <3> SUFFICES ASSUME NEW m \in 1..n, ~(m <= i)
                 PROVE  ~(When(ev, m) <= T - 1)
      OBVIOUS
    <3>1. T <= When(ev, m)
      BY <1>1
    <3> QED
      BY <1>1, <3>1
  <2>7. T - 1 \in Int
    BY <1>1
  <2>8. In \subseteq Begun(docs, T - 1) /\ Ended(docs, T - 1) \subseteq Out
    BY <1>1, <2>5, <2>6, <2>7, ThroughBefore
  <2>9. sw[i].cur <= Cardinality(Underway(docs, T - 1))
    BY <1>4, <2>7, <2>8
  <2>10. CASE T > 0
    <3>1. T - 1 \in 0..Horizon
      BY <1>1, <2>10
    <3> QED
      BY <2>9, <3>1
  <2>11. CASE T = 0
    <3>1. Underway(docs, -1) = {}
      BY DoneFacts DEF Underway
    <3>2. Cardinality(Underway(docs, T - 1)) = 0
      BY <2>11, <3>1, FS_EmptySet
    <3>3. 0 \in 0..Horizon /\ Cardinality(Underway(docs, 0)) \in Nat
      <4>1. 0 \in Int /\ 0 \in 0..Horizon
        BY <1>1
      <4> QED
        BY <4>1, UnderwayIs
    <3>4. sw[i].cur <= 0 /\ sw[i].cur \in Int
      BY <1>3, <2>9, <3>2
    <3>5. sw[i].cur <= Cardinality(Underway(docs, 0))
      BY <3>3, <3>4
    <3> QED
      BY <3>3, <3>5
  <2> QED
    BY <1>1, <2>10, <2>11
<1> QED
  BY <1>5, <1>6

(* The peak is the greatest number in flight after any of the events. *)
LEMMA PeakIs ==
  ASSUME NEW docs, NEW ev, NEW n, Timetable(ev, docs, n), NEW sw, Swept(sw, ev, n)
  PROVE  /\ \A j \in 0..n : sw[j].cur <= sw[n].peak
         /\ \E j \in 0..n : sw[n].peak = sw[j].cur
<1> DEFINE Below(i) == \A j \in 0..i : sw[j].cur <= sw[i].peak
           Reached(i) == \E j \in 0..i : sw[i].peak = sw[j].cur
           S == {i \in Nat : i <= n => Below(i) /\ Reached(i)}
<1>0. n \in Nat /\ \A j \in 0..n : sw[j].cur \in Int /\ sw[j].peak \in Int
  <2>1. n \in Nat
    BY DEF Timetable
  <2>2. \A j \in 0..n : sw[j] \in Acc
    BY DEF Swept
  <2> QED
    BY <2>1, <2>2 DEF Acc
<1>1. 0 \in S
  <2>1. sw[0].cur = 0 /\ sw[0].peak = 0
    BY DEF Swept
  <2>2. \A j \in 0..0 : j = 0
    OBVIOUS
  <2>3. Below(0) /\ Reached(0)
    BY <2>1, <2>2
  <2> QED
    BY <2>3
<1>2. ASSUME NEW i \in Nat, i \in S
      PROVE  i + 1 \in S
  <2> SUFFICES ASSUME i + 1 <= n
               PROVE  Below(i + 1) /\ Reached(i + 1)
    OBVIOUS
  <2>1. i + 1 \in 1..n /\ (i + 1) - 1 = i /\ i \in 0..n /\ i + 1 \in 0..n
    BY <1>0
  <2>2. Below(i) /\ Reached(i)
    BY <1>0, <1>2
  <2> DEFINE x == sw[i].peak
             y == sw[i + 1].cur
             z == sw[i + 1].peak
  <2>3. z = Max({x, y})
    BY <2>1 DEF Swept
  <2>4. x \in Int /\ y \in Int
    BY <1>0, <2>1
  <2> HIDE DEF x, y, z
  <2>5. z \in {x, y} /\ z >= x /\ z >= y /\ z \in Int
    BY <2>3, <2>4, MaxOfTwo
  <2>6. \A j \in 0..(i + 1) : j \in 0..i \/ j = i + 1
    OBVIOUS
  <2>7. \A j \in 0..i : sw[j].cur \in Int /\ sw[j].cur <= x
    BY <1>0, <2>1, <2>2 DEF x
  <2>8. \A j \in 0..i : sw[j].cur <= z
    BY <2>4, <2>5, <2>7
  <2>9. Below(i + 1)
    BY <2>5, <2>6, <2>8 DEF y, z
  <2>10. \E j \in 0..i : x = sw[j].cur
    BY <2>2 DEF x
  <2>11. Reached(i + 1)
    <3>1. CASE z = x
      <4>1. PICK j \in 0..i : x = sw[j].cur
        BY <2>10
      <4>2. j \in 0..(i + 1)
        OBVIOUS
      <4> QED
        BY <3>1, <4>1, <4>2 DEF z
    <3>2. CASE z = y
      <4>1. i + 1 \in 0..(i + 1)
        OBVIOUS
      <4> QED
        BY <3>2, <4>1 DEF y, z
    <3> QED
      BY <2>5, <3>1, <3>2
  <2> QED
    BY <2>9, <2>11
<1>3. \A i \in Nat : i \in S
  <2> HIDE DEF S
  <2> QED
    BY <1>1, <1>2, AllNaturals
<1> QED
  BY <1>0, <1>3

(* The pairs of a document and an instant before t that it was in flight.  *)
Lived(docs, t) ==
  {p \in docs \X (0..Horizon) : p[1] \in Underway(docs, p[2]) /\ p[2] < t}

(* There are finitely many. *)
LEMMA LivedFinite ==
  ASSUME InputOK, NEW docs \in SUBSET Done(timed), NEW t
  PROVE  IsFiniteSet(Lived(docs, t))
<1>1. IsFiniteSet(docs)
  BY 0 \in Int, UnderwayIs
<1>2. IsFiniteSet(0..Horizon)
  BY MeasuresAssumption, 0 \in Int, Horizon \in Int, FS_Interval
<1>3. IsFiniteSet(docs \X (0..Horizon))
  BY <1>1, <1>2, FS_Product
<1>4. Lived(docs, t) \in SUBSET (docs \X (0..Horizon))
  BY DEF Lived
<1> QED
  BY <1>3, <1>4, FS_Subset

(* When the same documents are in flight from a to b, so many instants are *)
(* added for each of them.                                                 *)
LEMMA LivedOn ==
  ASSUME InputOK, NEW docs \in SUBSET Done(timed),
         NEW a \in 0..Horizon, NEW b \in 0..Horizon, a <= b, NEW F \in SUBSET docs,
         \A t \in a..(b - 1) : Underway(docs, t) = F
  PROVE  /\ Cardinality(F) \in Nat
         /\ Cardinality(Lived(docs, b))
              = Cardinality(Lived(docs, a)) + Cardinality(F) * (b - a)
<1> DEFINE X == Lived(docs, a)
           Y == Lived(docs, b)
           span == a..(b - 1)
           Z == F \X span
<1>1. a \in Nat /\ b \in Nat /\ Horizon \in Nat
  BY MeasuresAssumption
<1>2. span \in SUBSET (0..Horizon) /\ \A t \in 0..Horizon : t \in span <=> a <= t /\ t < b
  BY <1>1
<1>3. X \cup Z = Y
  <2> HIDE DEF X, Y, Z, span
  <2>1. ASSUME NEW k \in docs, NEW t \in 0..Horizon
        PROVE  /\ <<k, t>> \in X <=> k \in Underway(docs, t) /\ t < a
               /\ <<k, t>> \in Y <=> k \in Underway(docs, t) /\ t < b
               /\ <<k, t>> \in Z <=> k \in F /\ a <= t /\ t < b
    <3> DEFINE p == <<k, t>>
    <3>1. p \in docs \X (0..Horizon) /\ p[1] = k /\ p[2] = t
      OBVIOUS
    <3> HIDE DEF p
    <3>2. /\ p \in X <=> k \in Underway(docs, t) /\ t < a
          /\ p \in Y <=> k \in Underway(docs, t) /\ t < b
      BY <3>1, Zenon DEF X, Y, Lived
    <3>3. <<k, t>> \in Z <=> k \in F /\ a <= t /\ t < b
      BY <1>2 DEF Z
    <3> QED
      BY <3>2, <3>3 DEF p
  <2>2. ASSUME NEW k \in docs, NEW t \in 0..Horizon
        PROVE  <<k, t>> \in Y <=> <<k, t>> \in X \/ <<k, t>> \in Z
    <3>1. t \in Nat
      OBVIOUS
    <3>2. CASE a <= t /\ t < b
      <4>1. Underway(docs, t) = F
        BY <1>2, <3>2 DEF span
      <4> QED
        BY <1>1, <2>1, <3>1, <3>2, <4>1
    <3>3. CASE ~(a <= t /\ t < b)
      <4>1. t < a <=> t < b
        BY <1>1, <3>1, <3>3
      <4> QED
        BY <2>1, <3>3, <4>1
    <3> QED
      BY <3>2, <3>3
  <2>3. /\ X \subseteq docs \X (0..Horizon) /\ Y \subseteq docs \X (0..Horizon)
        /\ Z \subseteq docs \X (0..Horizon)
    BY <1>2 DEF X, Y, Z, Lived
  <2> QED
    BY <2>2, <2>3
<1>4. X \cap Z = {}
  <2> SUFFICES ASSUME NEW k \in F, NEW t \in span, <<k, t>> \in X
               PROVE  FALSE
    BY DEF Z
  <2>1. t < a
    BY DEF Lived
  <2> QED
    BY <1>1, <2>1
<1>5. IsFiniteSet(F) /\ Cardinality(F) \in Nat
  BY 0 \in Int, UnderwayIs, FS_Subset, FS_CardinalityType
<1>6. IsFiniteSet(span) /\ Cardinality(span) = b - a
  <2>1. b - 1 \in Int /\ a \in Int
    BY <1>1
  <2>2. IsFiniteSet(a..(b - 1)) /\ Cardinality(a..(b - 1)) = IF a > b - 1 THEN 0 ELSE (b - 1) - a + 1
    BY <2>1, FS_Interval
  <2>3. (IF a > b - 1 THEN 0 ELSE (b - 1) - a + 1) = b - a
    BY <1>1
  <2> QED
    BY <2>2, <2>3
<1> HIDE DEF X, Y, span
<1>7. IsFiniteSet(Z) /\ Cardinality(Z) = Cardinality(F) * Cardinality(span)
  BY <1>5, <1>6, FS_Product
<1>8. IsFiniteSet(X)
  BY LivedFinite DEF X
<1> HIDE DEF Z
<1>9. Cardinality(X \cup Z) = Cardinality(X) + Cardinality(Z) - Cardinality(X \cap Z)
  BY <1>7, <1>8, FS_Union
<1>10. Cardinality(X \cap Z) = 0
  BY <1>4, FS_EmptySet
<1>11. Cardinality(X) \in Nat /\ Cardinality(Z) \in Int
  BY <1>7, <1>8, FS_CardinalityType
<1>12. Cardinality(Z) = Cardinality(F) * (b - a)
  BY <1>6, <1>7
<1>13. Cardinality(Y) = Cardinality(X) + Cardinality(Z)
  BY <1>3, <1>9, <1>10, <1>11
<1> QED
  BY <1>5, <1>12, <1>13 DEF X, Y

(* The area after each event has every instant before it.                  *)
LEMMA AreaIs ==
  ASSUME InputOK, NEW docs \in SUBSET Done(timed), NEW ev, NEW n,
         Timetable(ev, docs, n), n > 0, NEW sw, Swept(sw, ev, n)
  PROVE  \A i \in 0..n : sw[i].area = Cardinality(Lived(docs, sw[i].prev))
<1> DEFINE A(i) == sw[i].area = Cardinality(Lived(docs, sw[i].prev))
           S == {i \in Nat : i <= n => A(i)}
<1>0. /\ n \in Nat /\ 1 \in 1..n
      /\ \A j \in 1..n : When(ev, j) \in 0..Horizon /\ When(ev, j) \in Nat
      /\ \A a, b \in 1..n : a <= b => When(ev, a) <= When(ev, b)
  <2>1. \A j \in 1..n : When(ev, j) \in 0..Horizon /\ When(ev, j) \in Nat
    BY WhenIs
  <2>2. n \in Nat /\ \A a, b \in 1..n : a <= b => When(ev, a) <= When(ev, b)
    BY DEF Timetable
  <2> QED
    BY <2>1, <2>2
<1>1. 0 \in S
  <2>1. sw[0].area = 0 /\ sw[0].prev = When(ev, 1)
    BY DEF Swept
  <2>2. Lived(docs, When(ev, 1)) = {}
    <3> SUFFICES ASSUME NEW p \in docs \X (0..Horizon), p[1] \in Underway(docs, p[2]),
                        p[2] < When(ev, 1)
                 PROVE  FALSE
      BY DEF Lived
    <3> DEFINE k == p[1]
               t == p[2]
    <3>1. k \in docs /\ t \in Nat /\ timed[k].submit <= t
      BY DEF Underway
    <3>2. PICK j \in 1..n : ev[j].doc = k /\ ev[j].delta = 1
      BY <3>1 DEF Timetable
    <3>3. When(ev, j) = timed[k].submit
      BY <3>2, WhenIs
    <3>4. When(ev, 1) <= When(ev, j) /\ When(ev, 1) \in Nat /\ When(ev, j) \in Nat
      BY <1>0
    <3> QED
      BY <3>1, <3>3, <3>4
  <2>3. Cardinality({}) = 0
    BY FS_EmptySet
  <2> QED
    BY <2>1, <2>2, <2>3
<1>2. ASSUME NEW i \in Nat, i \in S
      PROVE  i + 1 \in S
  <2> SUFFICES ASSUME i + 1 <= n
               PROVE  A(i + 1)
    OBVIOUS
  <2>1. i + 1 \in 1..n /\ (i + 1) - 1 = i /\ i \in 0..n /\ A(i)
    BY <1>0, <1>2
  <2> DEFINE a == sw[i].prev
             b == When(ev, i + 1)
             c == sw[i].cur
  <2>2. sw[i + 1].area = sw[i].area + c * (b - a) /\ sw[i + 1].prev = b
    BY <2>1 DEF Swept
  <2>3. a = When(ev, IF i = 0 THEN 1 ELSE i)
    <3>1. CASE i = 0
      BY <3>1 DEF Swept
    <3>2. CASE i # 0
      <4>1. i \in 1..n
        BY <1>0, <2>1, <3>2
      <4> QED
        BY <3>2, <4>1 DEF Swept
    <3> QED
      BY <3>1, <3>2
  <2>4. a \in 0..Horizon /\ b \in 0..Horizon /\ a \in Nat /\ b \in Nat /\ a <= b
    <3> DEFINE m == IF i = 0 THEN 1 ELSE i
    <3>1. m \in 1..n /\ m <= i + 1
      BY <1>0, <2>1
    <3> HIDE DEF m
    <3>2. a = When(ev, m)
      BY <2>3 DEF m
    <3> QED
      BY <1>0, <2>1, <3>1, <3>2
  <2>5. c \in Int /\ sw[i].area \in Int
    <3>1. sw[i] \in Acc
      BY <2>1 DEF Swept
    <3> QED
      BY <3>1 DEF Acc
  <2>6. CASE a = b
    <3>1. b - a = 0
      BY <2>4, <2>6
    <3> DEFINE d == b - a
    <3>2. c * d = 0
      BY <2>5, <3>1
    <3>3. sw[i + 1].area = sw[i].area
      BY <2>2, <2>5, <3>2
    <3> QED
      BY <2>1, <2>2, <2>6, <3>3
  <2>7. CASE a < b
    <3> DEFINE F == StillOpen(ev, docs, i)
    <3>1. i \in 1..n /\ a = When(ev, i)
      <4>1. ASSUME i = 0
            PROVE  FALSE
        <5>1. a = When(ev, 1) /\ i + 1 = 1
          BY <2>3, <4>1
        <5>2. b = When(ev, 1)
          BY <5>1
        <5> HIDE DEF a, b
        <5> QED
          BY <2>4, <2>7, <5>1, <5>2
      <4> QED
        BY <1>0, <2>1, <2>3, <4>1
    <3>2. ASSUME NEW t \in a..(b - 1)
          PROVE  Underway(docs, t) = F /\ c = Cardinality(Underway(docs, t))
      <4>1. t \in Int /\ a <= t /\ t < b
        BY <2>4
      <4>2. ASSUME NEW j \in 1..n
            PROVE  j <= i <=> When(ev, j) <= t
        <5>1. CASE j <= i
          <6>1. When(ev, j) <= a
            BY <1>0, <3>1, <5>1
          <6> QED
            BY <1>0, <2>4, <4>1, <5>1, <6>1
        <5>2. CASE ~(j <= i)
          <6>1. i + 1 <= j
            BY <1>0, <5>2
          <6>2. b <= When(ev, j)
            BY <1>0, <2>1, <6>1
          <6> QED
            BY <1>0, <2>4, <4>1, <5>2, <6>2
        <5> QED
          BY <5>1, <5>2
      <4>3. UpTo(ev, n, i, t)
        BY <4>2 DEF UpTo
      <4> HIDE DEF a, b
      <4> QED
        BY <2>1, <4>1, <4>3, CurAt
    <3>3. F \in SUBSET docs
      BY DEF StillOpen, Through
    <3>4. c = Cardinality(F)
      <4>1. a \in a..(b - 1)
        BY <2>4, <2>7
      <4> QED
        BY <3>2, <4>1
    <3> HIDE DEF F, a, b, c
    <3>5. Cardinality(Lived(docs, b))
            = Cardinality(Lived(docs, a)) + Cardinality(F) * (b - a)
      BY <2>4, <3>2, <3>3, LivedOn
    <3>6. sw[i].area = Cardinality(Lived(docs, a))
      BY <2>1 DEF a
    <3> QED
      BY <2>2, <3>4, <3>5, <3>6
  <2> HIDE DEF A
  <2> QED
    BY <2>4, <2>6, <2>7
<1>3. \A i \in Nat : i \in S
  <2> HIDE DEF S
  <2> QED
    BY <1>1, <1>2, AllNaturals
<1> QED
  BY <1>0, <1>3

(* A member of a set that none exceeds is its maximum. *)
LEMMA MaxIs ==
  ASSUME NEW T \in SUBSET Int, NEW m \in T, \A x \in T : x <= m
  PROVE  Max(T) = m
<1>1. \A y \in T : m >= y
  OBVIOUS
<1>2. Max(T) \in T /\ \A y \in T : Max(T) >= y
  BY <1>1 DEF Max
<1>3. Max(T) <= m /\ Max(T) >= m /\ Max(T) \in Int
  BY <1>2
<1> QED
  BY <1>3

(* The peak, the area and the end of the sweep, over any documents.        *)
LEMMA SweepExact ==
  ASSUME InputOK, NEW docs \in SUBSET Done(timed), docs # {}
  PROVE  LET ev == Events(timed, docs)
             c == Sweep(timed, ev)[Len(ev)]
         IN /\ c.peak = Max({Cardinality(Underway(docs, t)) : t \in 0..Horizon})
            /\ c.area = Cardinality({p \in docs \X (0..Horizon) :
                                       p[1] \in Underway(docs, p[2])})
            /\ c.cur = 0
<1> DEFINE ev == Events(timed, docs)
           sw == Sweep(timed, ev)
           c == sw[Len(ev)]
<1>1. PICK n \in Nat : Timetable(ev, docs, n)
  BY EventsAre
<1>2. Len(ev) = n
  BY <1>1 DEF Timetable
<1> HIDE DEF ev
<1>3. n > 0
  <2>1. PICK k \in docs : TRUE
    OBVIOUS
  <2>2. \E i \in 1..n : ev[i].doc = k /\ ev[i].delta = 1
    BY <1>1, <2>1 DEF Timetable
  <2> QED
    BY <2>2
<1>4. Swept(sw, ev, n)
  BY <1>1, <1>3, SweepIs, MeasuresAssumption
<1>5. c = sw[n] /\ n \in 0..n /\ n \in 1..n
  BY <1>2, <1>3
<1> HIDE DEF sw, c
<1>6. \A j \in 1..n : /\ When(ev, j) \in Nat /\ When(ev, j) \in 0..Horizon
                      /\ When(ev, j) <= When(ev, n)
  <2> TAKE j \in 1..n
  <2>1. j <= n
    OBVIOUS
  <2> QED
    BY <1>1, <1>5, <2>1, WhenIs DEF Timetable
<1>7. c.peak = Max({Cardinality(Underway(docs, t)) : t \in 0..Horizon})
  <2> DEFINE T == {Cardinality(Underway(docs, t)) : t \in 0..Horizon}
             m == sw[n].peak
  <2>1. \A t \in 0..Horizon : Cardinality(Underway(docs, t)) \in Nat
    <3> TAKE t \in 0..Horizon
    <3>1. t \in Int
      OBVIOUS
    <3> QED
      BY <3>1, UnderwayIs
  <2>2. \A j \in 0..n : sw[j].cur \in Int /\ sw[j].cur <= m
    <3>1. \A j \in 0..n : sw[j] \in Acc
      BY <1>4 DEF Swept
    <3>2. \A j \in 0..n : sw[j].cur <= m
      BY <1>1, <1>4, PeakIs
    <3> QED
      BY <3>1, <3>2 DEF Acc
  <2>3. PICK i \in 0..n : m = sw[i].cur
    BY <1>1, <1>4, PeakIs
  <2>4. ASSUME NEW t \in 0..Horizon
        PROVE  Cardinality(Underway(docs, t)) <= m
    <3>1. t \in Int
      OBVIOUS
    <3>2. PICK l \in 0..n : UpTo(ev, n, l, t)
      BY <1>1, <3>1, MomentOf
    <3>3. sw[l].cur = Cardinality(Underway(docs, t))
      BY <1>1, <1>4, <3>1, <3>2, CurAt
    <3> QED
      BY <2>2, <3>3
  <2>5. \E t \in 0..Horizon : m <= Cardinality(Underway(docs, t))
    <3>1. CASE i = 0
      <4>1. m = 0
        BY <1>4, <2>3, <3>1 DEF Swept
      <4>2. 0 \in 0..Horizon
        BY MeasuresAssumption
      <4> QED
        BY <2>1, <4>1, <4>2
    <3>2. CASE i # 0
      <4>1. i \in 1..n
        BY <3>2
      <4> QED
        BY <1>1, <1>4, <2>3, <4>1, NeverMore
    <3> QED
      BY <3>1, <3>2
  <2>6. PICK t \in 0..Horizon : m <= Cardinality(Underway(docs, t))
    BY <2>5
  <2>7. m = Cardinality(Underway(docs, t)) /\ m \in Int
    BY <2>1, <2>2, <2>3, <2>4, <2>6
  <2>8. T \in SUBSET Int /\ m \in T /\ \A x \in T : x <= m
    BY <2>1, <2>4, <2>7
  <2> HIDE DEF T, m
  <2>9. Max(T) = m
    BY <2>8, MaxIs
  <2> QED
    BY <1>5, <2>9 DEF T, m
<1>8. c.area = Cardinality({p \in docs \X (0..Horizon) :
                              p[1] \in Underway(docs, p[2])})
  <2>1. sw[n].prev = When(ev, n)
    BY <1>4, <1>5 DEF Swept
  <2>2. sw[n].area = Cardinality(Lived(docs, When(ev, n)))
    BY <1>1, <1>3, <1>4, <1>5, <2>1, AreaIs
  <2>3. ASSUME NEW p \in docs \X (0..Horizon), p[1] \in Underway(docs, p[2])
        PROVE  p[2] < When(ev, n)
    <3>1. p[1] \in docs /\ p[2] \in Nat /\ p[2] < timed[p[1]].completion
      BY <2>3 DEF Underway
    <3>2. PICK j \in 1..n : ev[j].doc = p[1] /\ ev[j].delta = -1
      BY <1>1, <3>1 DEF Timetable
    <3>3. When(ev, j) = timed[p[1]].completion
      BY <1>1, <3>2, WhenIs
    <3>4. When(ev, j) <= When(ev, n) /\ When(ev, j) \in Nat /\ When(ev, n) \in Nat
      BY <1>5, <1>6
    <3> QED
      BY <3>1, <3>3, <3>4
  <2>4. Lived(docs, When(ev, n))
          = {p \in docs \X (0..Horizon) : p[1] \in Underway(docs, p[2])}
    BY <2>3 DEF Lived
  <2> QED
    BY <1>5, <2>2, <2>4
<1>9. c.cur = 0
  <2>1. /\ Through(ev, docs, n, 1) = docs
        /\ Through(ev, docs, n, -1) = docs
    BY <1>1 DEF Timetable, Through
  <2>2. IsFiniteSet(docs)
    BY 0 \in Int, UnderwayIs
  <2>3. /\ Cardinality(docs) \in Nat
        /\ sw[n].cur = Cardinality(docs) - Cardinality(docs)
    BY <1>1, <1>4, <1>5, <2>1, <2>2, CurIs
  <2> QED
    BY <1>5, <2>3
<1> QED
  BY <1>7, <1>8, <1>9 DEF ev, sw, c

(* And so over those of the window. *)
LEMMA ConcurrencyOnInputs == InputOK => ConcurrencyExact
<1> SUFFICES ASSUME InputOK, NEW warm \in Warmups,
                    PerfWindow(timed, warm).docs # {}
             PROVE  LET docs == PerfWindow(timed, warm).docs
                        c == AchievedConcurrency(timed, warm)
                    IN /\ c.peak = Max({Cardinality(Underway(docs, t)) : t \in 0..Horizon})
                       /\ c.area = Cardinality({p \in docs \X (0..Horizon) :
                                                  p[1] \in Underway(docs, p[2])})
                       /\ c.cur = 0
  BY DEF ConcurrencyExact
<1> DEFINE docs == PerfWindow(timed, warm).docs
<1>1. docs \in SUBSET Done(timed)
  BY WindowIs
<1>2. AchievedConcurrency(timed, warm)
        = Sweep(timed, Events(timed, docs))[Len(Events(timed, docs))]
  BY DEF AchievedConcurrency
<1> HIDE DEF docs
<1>3. docs # {}
  BY DEF docs
<1> QED
  BY <1>1, <1>2, <1>3, SweepExact DEF docs

(* "asking for C=8 does not prove eight requests were ever simultaneously  *)
(* in flight" (m1_m2_perf.py:70-71): for any file, the peak is the         *)
(* greatest number of window documents in flight at one instant, the area  *)
(* has each instant of each of them once, and nothing is left in flight:   *)
(* whatever order the events of one instant come in from the file.         *)
THEOREM MeasuresConcurrency == Inputs => []ConcurrencyExact
BY InputsOK, ConcurrencyOnInputs, PTL
=============================================================================
