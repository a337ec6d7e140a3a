----------------------- MODULE LangGraphServiceProofs -----------------------
(***************************************************************************)
(* Proofs about LangGraphService, for every set of requests, every         *)
(* configuration, upload limit, read size and number of threads.           *)
(***************************************************************************)
EXTENDS LangGraphService, SequenceTheorems, FiniteSetTheorems, TLAPS

-----------------------------------------------------------------------------
(* The queue of the executor                                               *)

(* A call that is appended stands behind the others. *)
LEMMA AppendCall ==
  ASSUME queue \in Seq(Requests), NEW r \in Requests, r \notin Queued,
         \A j, k \in DOMAIN queue : queue[j] = queue[k] => j = k,
         queue' = Append(queue, r)
  PROVE  /\ queue' \in Seq(Requests)
         /\ Queued' = Queued \cup {r}
         /\ \A j, k \in DOMAIN queue' : queue'[j] = queue'[k] => j = k
<1>1. /\ queue' \in Seq(Requests) /\ Len(queue') = Len(queue) + 1
      /\ \A k \in 1..Len(queue) : queue'[k] = queue[k]
      /\ queue'[Len(queue) + 1] = r
  BY AppendProperties
<1>2. /\ Len(queue) \in Nat /\ DOMAIN queue = 1..Len(queue)
      /\ DOMAIN queue' = 1..(Len(queue) + 1)
  BY <1>1, LenProperties
<1>3. Queued' = Queued \cup {r}
  BY <1>1, <1>2 DEF Queued
<1>4. ASSUME NEW j \in DOMAIN queue', NEW k \in DOMAIN queue',
             queue'[j] = queue'[k]
      PROVE  j = k
  BY <1>1, <1>2, <1>4 DEF Queued
<1> QED
  BY <1>1, <1>3, <1>4

(* A thread takes the first call, and no other. *)
LEMMA TakeCall ==
  ASSUME queue \in Seq(Requests), queue # <<>>,
         \A j, k \in DOMAIN queue : queue[j] = queue[k] => j = k,
         queue' = Tail(queue)
  PROVE  /\ queue' \in Seq(Requests)
         /\ Head(queue) \in Queued
         /\ Queued' = Queued \ {Head(queue)}
         /\ \A j, k \in DOMAIN queue' : queue'[j] = queue'[k] => j = k
<1>1. /\ queue' \in Seq(Requests) /\ Len(queue') = Len(queue) - 1
      /\ \A k \in 1..Len(queue') : queue'[k] = queue[k + 1]
      /\ Head(queue) = queue[1]
  BY HeadTailProperties
<1>2. /\ Len(queue) \in Nat \ {0} /\ DOMAIN queue = 1..Len(queue)
      /\ DOMAIN queue' = 1..(Len(queue) - 1)
  BY <1>1, LenProperties, EmptySeq
<1>3. ASSUME NEW j \in DOMAIN queue', NEW k \in DOMAIN queue',
             queue'[j] = queue'[k]
      PROVE  j = k
  <2>1. /\ j \in 1..(Len(queue) - 1) /\ k \in 1..(Len(queue) - 1)
        /\ queue[j + 1] = queue[k + 1]
    BY <1>1, <1>2, <1>3
  <2>2. j + 1 \in DOMAIN queue /\ k + 1 \in DOMAIN queue
    BY <1>2, <2>1
  <2>3. j + 1 = k + 1
    BY <2>1, <2>2
  <2> QED
    BY <2>1, <2>3
<1>4. Head(queue) \in Queued
  BY <1>1, <1>2 DEF Queued
<1>5. Queued' \subseteq Queued \ {Head(queue)}
  <2> SUFFICES ASSUME NEW k \in 1..(Len(queue) - 1)
               PROVE  queue'[k] \in Queued \ {Head(queue)}
    BY <1>2 DEF Queued
  <2>1. k + 1 \in DOMAIN queue /\ 1 \in DOMAIN queue /\ k + 1 # 1
    BY <1>2
  <2>2. queue'[k] = queue[k + 1] /\ queue[k + 1] # queue[1]
    BY <1>1, <1>2, <2>1
  <2> QED
    BY <1>1, <2>1, <2>2 DEF Queued
<1>6. Queued \ {Head(queue)} \subseteq Queued'
  <2> SUFFICES ASSUME NEW k \in DOMAIN queue, queue[k] # Head(queue)
               PROVE  queue[k] \in Queued'
    BY DEF Queued
  <2>1. k - 1 \in DOMAIN queue' /\ queue'[k - 1] = queue[k]
    BY <1>1, <1>2
  <2> QED
    BY <2>1 DEF Queued
<1> QED
  BY <1>1, <1>3, <1>4, <1>5, <1>6

-----------------------------------------------------------------------------
(* The data of a request                                                   *)

LEMMA InputFacts ==
  ASSUME TypeOK, NEW r \in Requests
  PROVE  /\ input[r].file \in Nat
         /\ input[r].options \in {"object", "nan", "malformed"}
         /\ input[r].attached \in BOOLEAN
         /\ input[r].media \in {"pdf", "other"}
         /\ size[r] \in 0..MaxUpload
         /\ MaxUpload \in Nat \ {0}
BY InputsAssumption, ServerAssumption DEF TypeOK

(* A read brings the copy forward, and never beyond the file. *)
LEMMA SizeReadBounds ==
  ASSUME TypeOK, NEW r \in Requests, size[r] < input[r].file
  PROVE  SizeRead(r) \in Nat /\ size[r] < SizeRead(r)
         /\ SizeRead(r) <= input[r].file
<1> DEFINE left == input[r].file - size[r]
<1>1. left \in Nat \ {0} /\ Chunk \in Nat \ {0} /\ size[r] \in Nat
  BY InputFacts, ServerAssumption
<1>2. PICK m \in {Chunk, left} : \A y \in {Chunk, left} : m <= y
  <2>1. CASE Chunk <= left
    BY <1>1, <2>1
  <2>2. CASE left <= Chunk
    BY <1>1, <2>2
  <2> QED
    BY <1>1, <2>1, <2>2
<1>3. Min({Chunk, left}) \in {Chunk, left} /\ Min({Chunk, left}) <= left
  BY <1>2 DEF Min
<1>4. input[r].file \in Nat /\ SizeRead(r) = size[r] + Min({Chunk, left})
  BY InputFacts DEF SizeRead
<1> HIDE DEF left
<1>5. left = input[r].file - size[r]
  BY DEF left
<1> QED
  BY <1>1, <1>3, <1>4, <1>5

(* The two series of checks, as what each outcome tells. *)
LEMMA EntryErrorFacts ==
  ASSUME NEW r \in Requests
  PROVE  LET e == EntryError(r) IN
         /\ e \in {"server_not_ready", "unknown_pipeline", "invalid_options",
                   "empty_input", "none"}
         /\ e # "server_not_ready" => ready
         /\ e = "unknown_pipeline" => input[r].pipeline \notin registered
         /\ e \in {"invalid_options", "empty_input", "none"}
              => input[r].pipeline \in registered
         /\ e = "invalid_options" => input[r].options = "malformed"
         /\ e \in {"empty_input", "none"} => input[r].options # "malformed"
         /\ e = "empty_input" => ~input[r].attached
         /\ e = "none" => input[r].attached
  BY Zenon DEF EntryError

LEMMA InputErrorFacts ==
  ASSUME NEW r \in Requests
  PROVE  LET e == InputError(r) IN
         /\ e \in {"empty_input", "unsupported_media_type", "none"}
         /\ e = "empty_input" <=> size[r] = 0
         /\ e = "unsupported_media_type"
              => input[r].pipeline = Pdf /\ input[r].media # "pdf"
         /\ e = "none" => ~ (input[r].pipeline = Pdf /\ input[r].media # "pdf")
  BY Zenon DEF InputError

-----------------------------------------------------------------------------
(* The lifespan                                                            *)

LEMMA LifespanSteps ==
  ASSUME IInv, Startup \/ (\E p \in registered : Warm(p)) \/ WarmFails
               \/ BecomeReady \/ Shutdown
  PROVE  IInv'
<1>1. UNCHANGED <<config, input, pc, size, temp, stranded, stage, queue,
                  running, response>>
  BY DEF Startup, Warm, WarmFails, BecomeReady, Shutdown
<1>2. TypeOK' /\ LifespanInv'
  <2> USE DEF IInv, LifespanInv
  <2>1. CASE Startup
    <3>1. server \in {"down", "failed"} /\ warmed' = {} /\ ready' = FALSE
          /\ model_loaded' = model_loaded
      BY <2>1 DEF Startup
    <3>2. CASE BadEntries(config) = {}
      <4>1. registered' = Names(config) /\ server' = "warming"
        BY <2>1, <3>2 DEF Startup
      <4> QED
        BY <1>1, <3>1, <3>2, <4>1 DEF TypeOK, BadEntries, Names
    <3>3. CASE BadEntries(config) # {}
      <4>1. server' = "failed" /\ registered' \subseteq Names(config)
        BY <2>1, <3>3 DEF Startup, Names
      <4> QED
        BY <1>1, <3>1, <4>1 DEF TypeOK, Names
    <3> QED
      BY <3>2, <3>3
  <2>2. ASSUME NEW p \in registered, Warm(p)
        PROVE  TypeOK' /\ LifespanInv'
    BY <1>1, <2>2 DEF Warm, TypeOK
  <2>3. CASE WarmFails
    BY <1>1, <2>3 DEF WarmFails, TypeOK
  <2>4. CASE BecomeReady
    BY <1>1, <2>4 DEF BecomeReady, TypeOK
  <2>5. CASE Shutdown
    BY <1>1, <2>5 DEF Shutdown, TypeOK
  <2> QED
    BY <2>1, <2>2, <2>3, <2>4, <2>5
<1>3. ExecutorInv'
  BY <1>1 DEF IInv, ExecutorInv, Queued
<1>4. HandlerInv'
  <2>1. \A r \in Requests : pc[r] \in {"upload", "graph"}
                            => server' = "up" /\ registered' = registered
    BY DEF IInv, HandlerInv, InFlight, Startup, Warm, WarmFails, BecomeReady,
           Shutdown
  <2>2. \A r \in Requests : InputError(r)' = InputError(r)
    BY <1>1 DEF InputError
  <2> QED
    BY <1>1, <2>1, <2>2 DEF IInv, HandlerInv
<1>5. TempFileLifetime'
  BY <1>1 DEF IInv, TempFileLifetime, InFlight
<1>6. AnswerContract'
  BY <1>1 DEF IInv, AnswerContract, AllowedAnswers
<1> QED
  BY <1>2, <1>3, <1>4, <1>5, <1>6 DEF IInv

-----------------------------------------------------------------------------
(* The handlers                                                            *)

(* Whoever is in flight has passed the checks at the entry, on a warm      *)
(* server; a PDF finds the model loaded.                                   *)
LEMMA InFlightFacts ==
  ASSUME IInv, NEW r \in InFlight
  PROVE  /\ server = "up" /\ ready
         /\ registered = Names(config) /\ warmed = registered
         /\ input[r].pipeline \in Names(config)
         /\ input[r].options # "malformed" /\ input[r].attached
         /\ size[r] <= input[r].file
         /\ input[r].pipeline = Pdf => model_loaded
BY DEF IInv, LifespanInv, HandlerInv, InFlight

(* The disk fails a request only when its form and name are in order.      *)
LEMMA InternalAllowed ==
  ASSUME NEW r \in Requests, DiskFaults, input[r].attached,
         input[r].pipeline \in Names(config), input[r].options # "malformed"
  PROVE  "internal" \in AllowedAnswers(r)
BY DEF AllowedAnswers, Refusals

(* What a handler that has got so far may answer. *)
LEMMA AllowedInFlight ==
  ASSUME IInv, NEW r \in InFlight
  PROVE  /\ input[r].file = 0 => "empty_input" \in AllowedAnswers(r)
         /\ input[r].file > MaxUpload => "payload_too_large" \in AllowedAnswers(r)
         /\ DiskFaults => "internal" \in AllowedAnswers(r)
         /\ input[r].file \in 1..MaxUpload =>
              /\ input[r].pipeline = Pdf /\ input[r].media # "pdf"
                   => "unsupported_media_type" \in AllowedAnswers(r)
              /\ input[r].pipeline = Pdf /\ input[r].media = "pdf"
                   => {"ok", "processing_failed", "canonical_encoding_failed"}
                        \subseteq AllowedAnswers(r)
              /\ input[r].pipeline = Mock =>
                   /\ DiskFaults => "processing_failed" \in AllowedAnswers(r)
                   /\ input[r].options = "nan"
                        => "canonical_encoding_failed" \in AllowedAnswers(r)
                   /\ input[r].options # "nan" => "ok" \in AllowedAnswers(r)
<1>1. /\ input[r].pipeline \in Names(config)
      /\ input[r].options # "malformed" /\ input[r].attached
  BY InFlightFacts
<1>2. input[r].file \in Nat /\ input[r].media \in {"pdf", "other"}
      /\ MaxUpload \in Nat \ {0} /\ r \in Requests
  BY InputFacts DEF IInv, InFlight
<1>3. Pdf # Mock
  BY DEF Pdf, Mock
<1>4. DiskFaults => "internal" \in AllowedAnswers(r)
  BY <1>1, <1>2, InternalAllowed
<1> HIDE DEF Pdf, Mock
<1> QED
  BY <1>1, <1>2, <1>3, <1>4 DEF AllowedAnswers

LEMMA AllowedAtEntry ==
  ASSUME IInv, NEW r \in Requests, EntryError(r) # "none"
  PROVE  EntryError(r) \in AllowedAnswers(r)
<1>1. EntryError(r) # "server_not_ready" => registered = Names(config)
  BY EntryErrorFacts DEF IInv, LifespanInv
<1> QED
  BY <1>1, EntryErrorFacts DEF AllowedAnswers

LEMMA AllowedAreAnswers ==
  ASSUME NEW r \in Requests
  PROVE  AllowedAnswers(r) \subseteq Answers
BY DEF AllowedAnswers, Answers, Codes

(* What a handler leaves alone. *)
LEMMA LifespanStays ==
  ASSUME IInv, UNCHANGED <<lifespanVars, model_loaded>>
  PROVE  LifespanInv'
BY DEF IInv, LifespanInv, lifespanVars, BadEntries, Names

LEMMA ContractStays ==
  ASSUME IInv, UNCHANGED <<lifespanVars, input, response>>
  PROVE  AnswerContract'
<1>1. \A r \in Requests : AllowedAnswers(r)' = AllowedAnswers(r)
  BY DEF AllowedAnswers, lifespanVars
<1> QED
  BY <1>1 DEF IInv, AnswerContract

(* The file of a request that leaves the flight: none was made, or one of  *)
(* its owners has tried to remove it.                                      *)
FileLeft(r) ==
  \/ pc[r] = "idle" /\ UNCHANGED <<temp, stranded>>
  \/ pc[r] \in {"upload", "graph"} /\ Unlink(r)

(* An answer takes the request out of flight, and its file off the disk    *)
(* unless the removal fails.                                               *)
LEMMA AnswerKeeps ==
  ASSUME IInv, NEW r \in Requests, NEW code \in AllowedAnswers(r),
         Answer(r, code), FileLeft(r), UNCHANGED <<lifespanVars, input, size>>
  PROVE  /\ pc' = [pc EXCEPT ![r] = "answered"]
         /\ pc' \in [Requests -> {"idle", "upload", "graph", "answered"}]
         /\ temp' \subseteq Requests /\ stranded' \subseteq Requests
         /\ response' \in [Requests -> Answers \cup {"none"}]
         /\ HandlerInv' /\ TempFileLifetime' /\ AnswerContract'
<1>1. /\ pc' = [pc EXCEPT ![r] = "answered"]
      /\ response' = [response EXCEPT ![r] = code]
  BY DEF Answer
<1>2. /\ pc \in [Requests -> {"idle", "upload", "graph", "answered"}]
      /\ temp \subseteq Requests /\ stranded \subseteq Requests
      /\ response \in [Requests -> Answers \cup {"none"}]
      /\ code \in Answers
  BY AllowedAreAnswers DEF IInv, TypeOK
<1>3. HandlerInv'
  <2>1. \A q \in Requests : InputError(q)' = InputError(q)
    BY DEF InputError
  <2> QED
    BY <1>1, <1>2, <2>1 DEF IInv, HandlerInv, lifespanVars
<1>4. TempFileLifetime' /\ temp' \subseteq Requests /\ stranded' \subseteq Requests
  <2>1. /\ temp = InFlight \cup stranded
        /\ \A q \in stranded : DiskFaults /\ pc[q] = "answered"
        /\ InFlight' = InFlight \ {r} /\ pc'[r] = "answered"
        /\ \A q \in Requests : pc[q] = "answered" => pc'[q] = "answered"
    BY <1>1, <1>2 DEF IInv, TempFileLifetime, InFlight
  <2>2. CASE pc[r] = "idle" /\ UNCHANGED <<temp, stranded>>
    <3>1. r \notin InFlight
      BY <2>2 DEF InFlight
    <3> QED
      BY <1>2, <2>1, <2>2, <3>1 DEF TempFileLifetime
  <2>3. CASE pc[r] \in {"upload", "graph"} /\ Unlink(r)
    <3>1. r \in InFlight /\ r \notin stranded
      BY <2>1, <2>3 DEF InFlight
    <3>2. CASE temp' = temp \ {r} /\ UNCHANGED stranded
      BY <1>2, <2>1, <3>1, <3>2 DEF TempFileLifetime
    <3>3. CASE DiskFaults /\ stranded' = stranded \cup {r} /\ UNCHANGED temp
      BY <1>2, <2>1, <3>1, <3>3 DEF TempFileLifetime
    <3> QED
      BY <2>3, <3>2, <3>3 DEF Unlink
  <2> QED
    BY <2>2, <2>3 DEF FileLeft
<1>5. AnswerContract'
  <2>1. \A q \in Requests : AllowedAnswers(q)' = AllowedAnswers(q)
    BY DEF AllowedAnswers, lifespanVars
  <2> QED
    BY <1>1, <1>2, <2>1 DEF IInv, AnswerContract
<1> QED
  BY <1>1, <1>2, <1>3, <1>4, <1>5

(* ... and who had no call in the executor leaves it as it was. *)
LEMMA AnswerOutsideGraph ==
  ASSUME IInv, NEW r \in Requests, pc[r] # "graph",
         NEW code \in AllowedAnswers(r), Answer(r, code), FileLeft(r),
         UNCHANGED <<lifespanVars, model_loaded, input, size, stage, queue,
                     running>>
  PROVE  IInv'
<1>1. /\ pc' = [pc EXCEPT ![r] = "answered"]
      /\ pc' \in [Requests -> {"idle", "upload", "graph", "answered"}]
      /\ temp' \subseteq Requests /\ stranded' \subseteq Requests
      /\ response' \in [Requests -> Answers \cup {"none"}]
      /\ HandlerInv' /\ TempFileLifetime' /\ AnswerContract'
  BY AnswerKeeps
<1>2. TypeOK'
  BY <1>1 DEF IInv, TypeOK, lifespanVars
<1>3. LifespanInv'
  BY LifespanStays
<1>4. ExecutorInv'
  <2>1. \A q \in Requests : pc'[q] = "graph" <=> pc[q] = "graph"
    BY <1>1 DEF IInv, TypeOK
  <2> QED
    BY <2>1 DEF IInv, ExecutorInv, Queued
<1> QED
  BY <1>1, <1>2, <1>3, <1>4 DEF IInv

LEMMA EnterPreserves ==
  ASSUME IInv, NEW r \in Requests, Enter(r)
  PROVE  IInv'
<1>1. /\ pc[r] = "idle"
      /\ UNCHANGED <<lifespanVars, model_loaded, input, size, stage, queue,
                     running>>
  BY DEF Enter
<1>2. CASE /\ EntryError(r) # "none" /\ Answer(r, EntryError(r))
           /\ UNCHANGED <<temp, stranded>>
  BY <1>1, <1>2, AllowedAtEntry, AnswerOutsideGraph DEF FileLeft
<1>3. CASE EntryError(r) = "none"
  <2>1. /\ ready /\ server = "up" /\ registered = Names(config)
        /\ input[r].pipeline \in registered
        /\ input[r].options # "malformed" /\ input[r].attached
    BY <1>3, EntryErrorFacts DEF IInv, LifespanInv
  <2>2. CASE /\ DiskFaults /\ Answer(r, "internal")
             /\ UNCHANGED <<temp, stranded>>
    <3>1. "internal" \in AllowedAnswers(r)
      BY <2>1, <2>2, InternalAllowed
    <3> QED
      BY <1>1, <2>2, <3>1, AnswerOutsideGraph DEF FileLeft
  <2>3. CASE /\ pc' = [pc EXCEPT ![r] = "upload"]
             /\ temp' = temp \cup {r}
             /\ UNCHANGED <<stranded, response>>
    <3>1. TypeOK'
      BY <1>1, <2>3 DEF IInv, TypeOK, lifespanVars
    <3>2. LifespanInv'
      BY <1>1, LifespanStays
    <3>3. ExecutorInv'
      <4>1. \A q \in Requests : pc'[q] = "graph" <=> pc[q] = "graph"
        BY <1>1, <2>3 DEF IInv, TypeOK
      <4> QED
        BY <1>1, <4>1 DEF IInv, ExecutorInv, Queued
    <3>4. HandlerInv'
      <4>1. \A q \in Requests : InputError(q)' = InputError(q)
        BY <1>1 DEF InputError
      <4>2. size[r] <= input[r].file
        BY <1>1, InputFacts DEF IInv, HandlerInv
      <4> QED
        BY <1>1, <2>1, <2>3, <4>1, <4>2 DEF IInv, TypeOK, HandlerInv, lifespanVars
    <3>5. TempFileLifetime'
      BY <1>1, <2>3 DEF IInv, TypeOK, TempFileLifetime, InFlight
    <3>6. AnswerContract'
      BY <1>1, <2>3, ContractStays
    <3> QED
      BY <3>1, <3>2, <3>3, <3>4, <3>5, <3>6 DEF IInv
  <2> QED
    BY <1>3, <2>2, <2>3 DEF Enter
<1> QED
  BY <1>2, <1>3 DEF Enter

LEMMA CopyChunkPreserves ==
  ASSUME IInv, NEW r \in Requests, CopyChunk(r)
  PROVE  IInv'
<1>1. /\ pc[r] = "upload" /\ r \in InFlight /\ size[r] < input[r].file
      /\ UNCHANGED <<lifespanVars, model_loaded, input, stage, queue, running>>
  BY DEF CopyChunk, InFlight
<1>2. /\ SizeRead(r) \in Nat /\ SizeRead(r) <= input[r].file
      /\ input[r].file \in Nat /\ MaxUpload \in Nat
  BY <1>1, SizeReadBounds, InputFacts DEF IInv
<1>3. CASE /\ SizeRead(r) > MaxUpload /\ Answer(r, "payload_too_large")
           /\ DropPartial(r) /\ UNCHANGED size
  <2>1. "payload_too_large" \in AllowedAnswers(r)
    BY <1>1, <1>2, <1>3, AllowedInFlight
  <2> QED
    BY <1>1, <1>3, <2>1, AnswerOutsideGraph DEF FileLeft, DropPartial
<1>4. CASE /\ DiskFaults /\ Answer(r, "internal")
           /\ DropPartial(r) /\ UNCHANGED size
  <2>1. "internal" \in AllowedAnswers(r)
    BY <1>1, <1>4, AllowedInFlight
  <2> QED
    BY <1>1, <1>4, <2>1, AnswerOutsideGraph DEF FileLeft, DropPartial
<1>5. CASE /\ SizeRead(r) <= MaxUpload
           /\ size' = [size EXCEPT ![r] = SizeRead(r)]
           /\ UNCHANGED <<pc, temp, stranded, response>>
  <2>1. TypeOK'
    BY <1>1, <1>2, <1>5 DEF IInv, TypeOK, lifespanVars
  <2>2. LifespanInv'
    BY <1>1, LifespanStays
  <2>3. ExecutorInv'
    BY <1>1, <1>5 DEF IInv, ExecutorInv, Queued
  <2>4. HandlerInv'
    <3>1. \A q \in Requests \ {r} : InputError(q)' = InputError(q)
      <4>1. \A q \in Requests \ {r} : size'[q] = size[q]
        BY <1>5 DEF IInv, TypeOK
      <4> QED
        BY <1>1, <4>1 DEF InputError
    <3>2. size'[r] = SizeRead(r) /\ \A q \in Requests \ {r} : size'[q] = size[q]
      BY <1>5 DEF IInv, TypeOK
    <3> QED
      BY <1>1, <1>2, <1>5, <3>1, <3>2 DEF IInv, HandlerInv, lifespanVars
  <2>5. TempFileLifetime'
    BY <1>5 DEF IInv, TempFileLifetime, InFlight
  <2>6. AnswerContract'
    BY <1>1, <1>5, ContractStays
  <2> QED
    BY <2>1, <2>2, <2>3, <2>4, <2>5, <2>6 DEF IInv
<1> QED
  BY <1>3, <1>4, <1>5 DEF CopyChunk

LEMMA EndUploadPreserves ==
  ASSUME IInv, NEW r \in Requests, EndUpload(r)
  PROVE  IInv'
<1>1. /\ pc[r] = "upload" /\ r \in InFlight /\ size[r] = input[r].file
      /\ UNCHANGED <<lifespanVars, model_loaded, input, size, stage, running>>
  BY DEF EndUpload, InFlight
<1>2. /\ input[r].file \in 0..MaxUpload /\ MaxUpload \in Nat \ {0}
      /\ input[r].media \in {"pdf", "other"}
  BY <1>1, InputFacts DEF IInv
<1>3. CASE /\ InputError(r) # "none" /\ Answer(r, InputError(r))
           /\ IF size[r] = 0 THEN DropPartial(r) ELSE DropSource(r)
           /\ UNCHANGED queue
  <2>1. InputError(r) \in AllowedAnswers(r)
    <3>1. CASE InputError(r) = "empty_input"
      BY <1>1, <3>1, InputErrorFacts, AllowedInFlight
    <3>2. CASE InputError(r) = "unsupported_media_type"
      <4>1. input[r].file \in 1..MaxUpload
        BY <1>1, <1>2, <3>2, InputErrorFacts
      <4> QED
        BY <1>1, <3>2, <4>1, InputErrorFacts, AllowedInFlight
    <3> QED
      BY <1>3, <3>1, <3>2, InputErrorFacts
  <2> QED
    BY <1>1, <1>3, <2>1, AnswerOutsideGraph DEF FileLeft, DropPartial, DropSource
<1>4. CASE InputError(r) = "none"
  <2>1. input[r].file \in 1..MaxUpload
    BY <1>1, <1>2, <1>4, InputErrorFacts
  <2>2. CASE /\ input[r].pipeline = Mock
             /\ Answer(r, IF input[r].options = "nan"
                            THEN "canonical_encoding_failed" ELSE "ok")
             /\ DropSource(r) /\ UNCHANGED queue
    BY <1>1, <2>1, <2>2, AllowedInFlight, AnswerOutsideGraph
       DEF FileLeft, DropSource
  <2>3. CASE /\ input[r].pipeline = Mock /\ DiskFaults
             /\ Answer(r, "processing_failed")
             /\ DropSource(r) /\ UNCHANGED queue
    BY <1>1, <2>1, <2>3, AllowedInFlight, AnswerOutsideGraph
       DEF FileLeft, DropSource
  <2>4. CASE /\ input[r].pipeline = Pdf
             /\ pc' = [pc EXCEPT ![r] = "graph"]
             /\ queue' = Append(queue, r)
             /\ UNCHANGED <<temp, stranded, response>>
    <3>1. r \notin Queued /\ r \notin running
      BY <1>1 DEF IInv, ExecutorInv
    <3>2. /\ queue' \in Seq(Requests) /\ Queued' = Queued \cup {r}
          /\ \A j, k \in DOMAIN queue' : queue'[j] = queue'[k] => j = k
      BY <2>4, <3>1, AppendCall DEF IInv, TypeOK, ExecutorInv
    <3>3. \A q \in Requests : pc'[q] = "graph" <=> pc[q] = "graph" \/ q = r
      BY <2>4 DEF IInv, TypeOK
    <3>4. TypeOK'
      BY <1>1, <2>4, <3>2 DEF IInv, TypeOK, lifespanVars
    <3>5. LifespanInv'
      BY <1>1, LifespanStays
    <3>6. ExecutorInv'
      BY <1>1, <3>1, <3>2, <3>3 DEF IInv, ExecutorInv
    <3>7. HandlerInv'
      <4>1. \A q \in Requests : InputError(q)' = InputError(q)
        BY <1>1 DEF InputError
      <4> QED
        BY <1>1, <1>4, <2>4, <4>1 DEF IInv, TypeOK, HandlerInv, lifespanVars
    <3>8. TempFileLifetime'
      BY <1>1, <2>4 DEF IInv, TypeOK, TempFileLifetime, InFlight
    <3>9. AnswerContract'
      BY <1>1, <2>4, ContractStays
    <3> QED
      BY <3>4, <3>5, <3>6, <3>7, <3>8, <3>9 DEF IInv
  <2> QED
    BY <1>4, <2>2, <2>3, <2>4 DEF EndUpload
<1> QED
  BY <1>3, <1>4 DEF EndUpload

-----------------------------------------------------------------------------
(* The executor                                                            *)

LEMMA StartNodePreserves ==
  ASSUME IInv, StartNode
  PROVE  IInv'
<1> DEFINE r == Head(queue)
<1>1. /\ queue # <<>> /\ Cardinality(running) < Workers
      /\ running' = running \cup {r} /\ queue' = Tail(queue)
      /\ UNCHANGED <<lifespanVars, model_loaded, input, pc, size, temp,
                     stranded, stage, response>>
  BY DEF StartNode
<1>2. /\ queue' \in Seq(Requests) /\ r \in Queued
      /\ Queued' = Queued \ {r}
      /\ \A j, k \in DOMAIN queue' : queue'[j] = queue'[k] => j = k
  BY <1>1, TakeCall DEF IInv, TypeOK, ExecutorInv
<1> HIDE DEF r
<1>3. r \in Requests /\ r \notin running
  BY <1>2 DEF IInv, ExecutorInv
<1>4. TypeOK'
  BY <1>1, <1>2, <1>3 DEF IInv, TypeOK, lifespanVars
<1>5. ExecutorInv'
  <2>1. /\ IsFiniteSet(running') /\ Cardinality(running') = Cardinality(running) + 1
        /\ Cardinality(running) \in Nat
    BY <1>1, <1>3, FS_AddElement, FS_CardinalityType DEF IInv, ExecutorInv
  <2>2. Cardinality(running') <= Workers
    BY <1>1, <2>1, ServerAssumption
  <2>3. running' \cap Queued' = {} /\ running' \cup Queued' = running \cup Queued
    BY <1>1, <1>2 DEF IInv, ExecutorInv
  <2>4. {q \in Requests : pc[q] = "graph"}' = {q \in Requests : pc[q] = "graph"}
    BY <1>1
  <2> QED
    BY <1>2, <2>1, <2>2, <2>3, <2>4 DEF IInv, ExecutorInv
<1>6. HandlerInv'
  <2>1. \A q \in Requests : InputError(q)' = InputError(q)
    BY <1>1 DEF InputError
  <2> QED
    BY <1>1, <2>1 DEF IInv, HandlerInv, lifespanVars
<1>7. TempFileLifetime'
  BY <1>1 DEF IInv, TempFileLifetime, InFlight
<1> QED
  BY <1>1, <1>4, <1>5, <1>6, <1>7, LifespanStays, ContractStays DEF IInv

(* Whoever is on a thread is a PDF that has passed every check. *)
LEMMA RunningFacts ==
  ASSUME IInv, NEW r \in running
  PROVE  /\ r \in Requests /\ pc[r] = "graph" /\ r \in InFlight
         /\ r \notin Queued /\ model_loaded
         /\ {"ok", "processing_failed", "canonical_encoding_failed"}
              \subseteq AllowedAnswers(r)
<1>1. r \in Requests /\ pc[r] = "graph" /\ r \in InFlight /\ r \notin Queued
  BY DEF IInv, ExecutorInv, InFlight
<1>2. /\ InputError(r) = "none" /\ input[r].pipeline = Pdf
      /\ size[r] = input[r].file
  BY <1>1 DEF IInv, HandlerInv
<1>3. /\ input[r].file \in 1..MaxUpload
      /\ input[r].media = "pdf"
  BY <1>1, <1>2, InputFacts, InputErrorFacts DEF IInv
<1> QED
  BY <1>1, <1>2, <1>3, InFlightFacts, AllowedInFlight

(* A call that is over leaves its thread, which keeps the pool in bounds. *)
LEMMA ThreadFreed ==
  ASSUME IInv, NEW r \in running, running' = running \ {r}
  PROVE  /\ IsFiniteSet(running') /\ Cardinality(running') <= Workers
         /\ running' \subseteq Requests
<1>1. /\ IsFiniteSet(running') /\ Cardinality(running') = Cardinality(running) - 1
      /\ Cardinality(running) \in Nat /\ Cardinality(running) <= Workers
  BY FS_RemoveElement, FS_CardinalityType DEF IInv, ExecutorInv
<1> QED
  BY <1>1, ServerAssumption DEF IInv, TypeOK

(* The answer after a node: the last one has returned, or one has raised.  *)
LEMMA AnswerFromGraph ==
  ASSUME IInv, NEW r \in running, running' = running \ {r},
         NEW code \in AllowedAnswers(r), Answer(r, code), Unlink(r),
         UNCHANGED <<lifespanVars, model_loaded, input, size, stage, queue>>
  PROVE  IInv'
<1>1. r \in Requests /\ pc[r] = "graph" /\ r \notin Queued
  BY RunningFacts
<1>2. /\ pc' = [pc EXCEPT ![r] = "answered"]
      /\ pc' \in [Requests -> {"idle", "upload", "graph", "answered"}]
      /\ temp' \subseteq Requests /\ stranded' \subseteq Requests
      /\ response' \in [Requests -> Answers \cup {"none"}]
      /\ HandlerInv' /\ TempFileLifetime' /\ AnswerContract'
  BY <1>1, AnswerKeeps DEF FileLeft
<1>3. TypeOK'
  BY <1>2, ThreadFreed DEF IInv, TypeOK, lifespanVars
<1>4. ExecutorInv'
  <2>1. \A q \in Requests : pc'[q] = "graph" <=> pc[q] = "graph" /\ q # r
    BY <1>1, <1>2 DEF IInv, TypeOK
  <2>2. Queued' = Queued
    BY DEF Queued
  <2>3. running' \cap Queued' = {}
    BY <2>2 DEF IInv, ExecutorInv
  <2>4. running' \cup Queued' = {q \in Requests : pc'[q] = "graph"}
    BY <1>1, <2>1, <2>2 DEF IInv, ExecutorInv
  <2> QED
    BY <2>3, <2>4, ThreadFreed DEF IInv, ExecutorInv
<1> QED
  BY <1>2, <1>3, <1>4, LifespanStays DEF IInv

LEMMA NodePreserves ==
  ASSUME IInv, NEW r \in Requests, NodeReturns(r) \/ NodeRaises(r)
  PROVE  IInv'
<1>1. /\ r \in running /\ running' = running \ {r}
      /\ UNCHANGED <<lifespanVars, input, size>>
  BY DEF NodeReturns, NodeRaises
<1>2. /\ pc[r] = "graph" /\ r \notin Queued /\ model_loaded = TRUE
      /\ {"ok", "processing_failed", "canonical_encoding_failed"}
           \subseteq AllowedAnswers(r)
  BY <1>1, RunningFacts DEF IInv, TypeOK
<1>3. UNCHANGED model_loaded
  BY <1>2 DEF NodeReturns, NodeRaises
<1>4. CASE NodeRaises(r)
  <2>1. /\ Answer(r, "processing_failed") /\ Unlink(r)
        /\ UNCHANGED <<stage, queue>>
    BY <1>4 DEF NodeRaises, DropSource
  <2> QED
    BY <1>1, <1>2, <1>3, <2>1, AnswerFromGraph
<1>5. CASE /\ stage[r] = Len(Nodes)
           /\ \E code \in {"ok", "canonical_encoding_failed"} : Answer(r, code)
           /\ DropSource(r)
           /\ UNCHANGED <<stage, queue>>
  BY <1>1, <1>2, <1>3, <1>5, AnswerFromGraph DEF DropSource
<1>6. CASE /\ stage[r] < Len(Nodes)
           /\ stage' = [stage EXCEPT ![r] = @ + 1]
           /\ queue' = Append(queue, r)
           /\ UNCHANGED <<pc, temp, stranded, response>>
  <2>1. /\ queue' \in Seq(Requests) /\ Queued' = Queued \cup {r}
        /\ \A j, k \in DOMAIN queue' : queue'[j] = queue'[k] => j = k
    BY <1>2, <1>6, AppendCall DEF IInv, TypeOK, ExecutorInv
  <2>2. TypeOK'
    <3>1. Len(Nodes) = 4
      BY DEF Nodes
    <3>2. stage' \in [Requests -> 1..Len(Nodes)]
      BY <1>6, <3>1 DEF IInv, TypeOK
    <3> QED
      BY <1>1, <1>3, <1>6, <2>1, <3>2, ThreadFreed DEF IInv, TypeOK, lifespanVars
  <2>3. ExecutorInv'
    <3>1. /\ running' \cap Queued' = {}
          /\ running' \cup Queued' = running \cup Queued
      BY <1>1, <2>1 DEF IInv, ExecutorInv
    <3> QED
      BY <1>1, <1>6, <2>1, <3>1, ThreadFreed DEF IInv, ExecutorInv
  <2>4. HandlerInv'
    <3>1. \A q \in Requests : InputError(q)' = InputError(q)
      BY <1>1 DEF InputError
    <3> QED
      BY <1>1, <1>6, <3>1 DEF IInv, HandlerInv, lifespanVars
  <2>5. TempFileLifetime'
    BY <1>6 DEF IInv, TempFileLifetime, InFlight
  <2> QED
    BY <1>1, <1>3, <1>6, <2>2, <2>3, <2>4, <2>5, LifespanStays, ContractStays
       DEF IInv
<1> QED
  BY <1>4, <1>5, <1>6 DEF NodeReturns

-----------------------------------------------------------------------------
(* The invariant, and what follows from it                                 *)

LEMMA InitIInv == Init => IInv
<1> SUFFICES ASSUME Init PROVE IInv
  OBVIOUS
<1>1. TypeOK
  <2>1. queue \in Seq(Requests)
    BY EmptySeq DEF Init
  <2>2. stage \in [Requests -> 1..Len(Nodes)]
    BY DEF Init, Nodes
  <2>3. size \in [Requests -> 0..MaxUpload]
    BY ServerAssumption DEF Init
  <2> QED
    BY <2>1, <2>2, <2>3 DEF Init, TypeOK
<1>2. LifespanInv
  BY DEF Init, LifespanInv
<1>3. ExecutorInv
  <2>1. Queued = {}
    BY DEF Init, Queued
  <2> QED
    BY <2>1, FS_EmptySet, ServerAssumption DEF Init, ExecutorInv
<1>4. HandlerInv
  BY DEF Init, HandlerInv
<1>5. TempFileLifetime /\ AnswerContract
  BY DEF Init, TempFileLifetime, InFlight, AnswerContract
<1> QED
  BY <1>1, <1>2, <1>3, <1>4, <1>5 DEF IInv

LEMMA StutterPreserves ==
  ASSUME IInv, UNCHANGED vars
  PROVE  IInv'
<1>1. TypeOK'
  BY DEF IInv, TypeOK, vars, lifespanVars
<1>2. ExecutorInv'
  BY DEF IInv, ExecutorInv, Queued, vars
<1>3. HandlerInv'
  <2>1. \A q \in Requests : InputError(q)' = InputError(q)
    BY DEF InputError, vars
  <2> QED
    BY <2>1 DEF IInv, HandlerInv, vars, lifespanVars
<1>4. TempFileLifetime'
  BY DEF IInv, TempFileLifetime, InFlight, vars
<1> QED
  BY <1>1, <1>2, <1>3, <1>4, LifespanStays, ContractStays DEF IInv, vars

LEMMA NextIInv == IInv /\ [Next]_vars => IInv'
<1> SUFFICES ASSUME IInv, [Next]_vars PROVE IInv'
  OBVIOUS
<1>1. CASE LifespanStep \/ Shutdown
  BY <1>1, LifespanSteps DEF LifespanStep
<1>2. ASSUME NEW r \in Requests, Enter(r)
      PROVE  IInv'
  BY <1>2, EnterPreserves
<1>3. ASSUME NEW r \in Requests, HandlerStep(r)
      PROVE  IInv'
  BY <1>3, CopyChunkPreserves, EndUploadPreserves, NodePreserves DEF HandlerStep
<1>4. CASE StartNode
  BY <1>4, StartNodePreserves
<1>5. CASE UNCHANGED vars
  BY <1>5, StutterPreserves
<1> QED
  BY <1>1, <1>2, <1>3, <1>4, <1>5 DEF Next

(* The inductive invariant holds of every server, whatever comes in.       *)
THEOREM ServiceInvariant == Spec => []IInv
<1> QED
  BY InitIInv, NextIInv, PTL DEF Spec

(* "cleanup in finally, always" (HANDOFF-phase1-generic-server.md:139-142):*)
(* the temp files on disk are those of the requests in flight, and those   *)
(* whose one removal a failing disk refused (app.py:216-220,               *)
(* upload.py:49-54).                                                       *)
THEOREM ServiceTempFiles == Spec => []TempFileLifetime
<1>1. IInv => TempFileLifetime
  BY DEF IInv
<1> QED
  BY <1>1, ServiceInvariant, PTL

(* A request in the graph has one call in the executor, on a thread or in  *)
(* the queue, nobody else has any, and no more threads run than there are. *)
THEOREM ServiceExecutor == Spec => []ExecutorSound
<1>1. IInv => ExecutorSound
  <2> SUFFICES ASSUME IInv PROVE ExecutorSound
    OBVIOUS
  <2> SUFFICES ASSUME NEW r \in Requests
               PROVE  Cardinality({k \in DOMAIN queue : queue[k] = r})
                        + (IF r \in running THEN 1 ELSE 0)
                      = IF pc[r] = "graph" THEN 1 ELSE 0
    BY DEF IInv, ExecutorInv, ExecutorSound
  <2> DEFINE places == {k \in DOMAIN queue : queue[k] = r}
  <2>1. pc[r] = "graph" <=> r \in running \/ r \in Queued
    BY DEF IInv, ExecutorInv
  <2>2. ~ (r \in running /\ r \in Queued)
    BY DEF IInv, ExecutorInv
  <2>3. CASE r \in Queued
    <3>1. PICK k \in DOMAIN queue : queue[k] = r
      BY <2>3 DEF Queued
    <3>2. places = {k}
      BY <3>1 DEF IInv, ExecutorInv
    <3>3. Cardinality(places) = 1
      BY <3>2, FS_Singleton
    <3> QED
      BY <2>1, <2>2, <2>3, <3>3
  <2>4. CASE r \notin Queued
    <3>1. places = {}
      BY <2>4 DEF Queued
    <3>2. Cardinality(places) = 0
      BY <3>1, FS_EmptySet
    <3> QED
      BY <2>1, <2>4, <3>2
  <2> QED
    BY <2>3, <2>4
<1> QED
  BY <1>1, ServiceInvariant, PTL

(* "503 until every loaded pipeline's warmup succeeded"                    *)
(* (HANDOFF-phase1-generic-server.md:102-103): a ready server has exactly  *)
(* its pipelines, all warm, and no node loads the model.                   *)
THEOREM ServiceReady == Spec => []ReadyMeansWarm
<1>1. IInv => ReadyMeansWarm
  <2> SUFFICES ASSUME IInv PROVE ReadyMeansWarm
    OBVIOUS
  <2>1. ready => /\ server = "up" /\ BadEntries(config) = {}
                 /\ registered = Names(config) /\ warmed = registered
    BY DEF IInv, LifespanInv
  <2>2. \A r \in InFlight : ready /\ input[r].pipeline \in warmed
    BY InFlightFacts
  <2>3. \A r \in running : model_loaded
    BY RunningFacts
  <2> QED
    BY <2>1, <2>2, <2>3 DEF ReadyMeansWarm
<1> QED
  BY <1>1, ServiceInvariant, PTL

(* Every answer is one that the request itself calls for. *)
THEOREM ServiceAnswers == Spec => []AnswerContract
<1>1. IInv => AnswerContract
  BY DEF IInv
<1> QED
  BY <1>1, ServiceInvariant, PTL

-----------------------------------------------------------------------------
(* Every request moves on                                                  *)

(* What a request may still take: a turn of the copy for each unit of its  *)
(* file, two steps for each node of the graph, and its answer.             *)
Left(there, rest, at, waits) ==
  CASE there = "idle"     -> rest + 10
    [] there = "upload"   -> rest + 9
    [] there = "graph"    -> 2 * (Len(Nodes) - at) + (IF waits THEN 2 ELSE 1)
    [] there = "answered" -> 0

StepsLeft(r) == Left(pc[r], input[r].file - size[r], stage[r], r \in Queued)

(* A call waits for a thread only while one is free, or busy with a node   *)
(* that comes to an end.                                                   *)
NobodyStuck ==
  \A r \in Requests : pc[r] = "graph" =>
    \/ r \in running
    \/ r \in Queued /\ (Cardinality(running) < Workers \/ running # {})

LEMMA ReadsQueue ==
  ASSUME NEW r
  PROVE  \E b \in BOOLEAN : StepsLeft(r) = Left(pc[r], input[r].file - size[r], stage[r], b)
<1>1. CASE r \in Queued
  BY <1>1 DEF StepsLeft, Left
<1>2. CASE r \notin Queued
  BY <1>2 DEF StepsLeft, Left
<1> QED
  BY <1>1, <1>2

LEMMA LeftIsNat ==
  ASSUME IInv, NEW r \in Requests
  PROVE  /\ StepsLeft(r) \in 0..(input[r].file + 10)
         /\ input[r].file \in Nat /\ size[r] \in Nat /\ stage[r] \in 1..4 /\ Len(Nodes) = 4
         /\ pc[r] = "idle" => size[r] = 0
         /\ pc[r] \in {"upload", "graph"} => size[r] <= input[r].file
<1>1. /\ input[r].file \in Nat /\ size[r] \in Nat /\ stage[r] \in 1..4 /\ Len(Nodes) = 4
      /\ pc[r] \in {"idle", "upload", "graph", "answered"}
  <2>1. Len(Nodes) = 4
    BY DEF Nodes
  <2> QED
    BY <2>1, InputFacts DEF IInv, TypeOK
<1>2. /\ pc[r] = "idle" => size[r] = 0
      /\ pc[r] \in {"upload", "graph"} => size[r] <= input[r].file
  BY DEF IInv, HandlerInv
<1>3. \A b \in BOOLEAN : Left(pc[r], input[r].file - size[r], stage[r], b)
                          \in 0..(input[r].file + 10)
  BY <1>1, <1>2 DEF Left
<1>4. \E b \in BOOLEAN : StepsLeft(r) = Left(pc[r], input[r].file - size[r], stage[r], b)
  BY ReadsQueue
<1> QED
  BY <1>1, <1>2, <1>3, <1>4

(* Other requests stay where they are. *)
LEMMA OthersStay ==
  ASSUME NEW r \in Requests, IInv, input' = input,
         pc' = pc \/ \E p : pc' = [pc EXCEPT ![r] = p],
         size' = size \/ \E z : size' = [size EXCEPT ![r] = z],
         stage' = stage \/ \E g : stage' = [stage EXCEPT ![r] = g],
         Queued' \in {Queued, Queued \cup {r}, Queued \ {r}}
  PROVE  \A q \in Requests \ {r} : StepsLeft(q)' = StepsLeft(q)
<1> SUFFICES ASSUME NEW q \in Requests, q # r
             PROVE  StepsLeft(q)' = StepsLeft(q)
  OBVIOUS
<1>1. pc'[q] = pc[q] /\ size'[q] = size[q] /\ stage'[q] = stage[q]
  BY DEF IInv, TypeOK
<1>2. q \in Queued' <=> q \in Queued
  OBVIOUS
<1> QED
  BY <1>1, <1>2 DEF StepsLeft

LEMMA AnswerEnds ==
  ASSUME IInv, NEW r \in Requests, NEW code, Answer(r, code), pc[r] # "answered"
  PROVE  /\ pc' = [pc EXCEPT ![r] = "answered"]
         /\ StepsLeft(r)' < StepsLeft(r)
<1>1. pc' = [pc EXCEPT ![r] = "answered"] /\ pc'[r] = "answered"
  BY DEF Answer, IInv, TypeOK
<1>2. StepsLeft(r)' = 0
  BY <1>1 DEF StepsLeft, Left
<1>3. pc[r] \in {"idle", "upload", "graph"}
  BY DEF IInv, TypeOK
<1>4. \A b \in BOOLEAN : 0 < Left(pc[r], input[r].file - size[r], stage[r], b)
  <2>1. /\ input[r].file \in Nat /\ size[r] \in Nat /\ stage[r] \in 1..4 /\ Len(Nodes) = 4
        /\ pc[r] = "idle" => size[r] = 0
        /\ pc[r] \in {"upload", "graph"} => size[r] <= input[r].file
    BY LeftIsNat
  <2> QED
    BY <1>3, <2>1 DEF Left
<1>5. 0 < StepsLeft(r)
  BY <1>4, ReadsQueue
<1> QED
  BY <1>1, <1>2, <1>5

LEMMA HandlerMoves ==
  ASSUME IInv, NEW r \in Requests, Enter(r) \/ HandlerStep(r)
  PROVE  /\ StepsLeft(r)' < StepsLeft(r)
         /\ \A q \in Requests \ {r} : StepsLeft(q)' = StepsLeft(q)
<1>0. /\ StepsLeft(r) \in Nat
      /\ input[r].file \in Nat /\ size[r] \in Nat /\ stage[r] \in 1..4 /\ Len(Nodes) = 4
      /\ pc[r] = "idle" => size[r] = 0
      /\ pc[r] \in {"upload", "graph"} => size[r] <= input[r].file
      /\ input' = input
  BY LeftIsNat DEF Enter, HandlerStep, CopyChunk, EndUpload, NodeReturns, NodeRaises
<1>1. CASE Enter(r)
  <2>1. pc[r] = "idle" /\ size' = size /\ stage' = stage /\ queue' = queue
    BY <1>1 DEF Enter
  <2>2. Queued' = Queued
    BY <2>1 DEF Queued
  <2>3. CASE \E code : Answer(r, code)
    BY <1>0, <2>1, <2>2, <2>3, AnswerEnds, OthersStay
  <2>4. CASE pc' = [pc EXCEPT ![r] = "upload"]
    <3>1. pc'[r] = "upload"
      BY <2>4 DEF IInv, TypeOK
    <3>2. StepsLeft(r)' = input[r].file - size[r] + 9
      BY <1>0, <2>1, <3>1 DEF StepsLeft, Left
    <3>3. StepsLeft(r) = input[r].file - size[r] + 10
      BY <2>1 DEF StepsLeft, Left
    <3>4. StepsLeft(r)' < StepsLeft(r)
      BY <1>0, <3>2, <3>3
    <3> QED
      BY <1>0, <2>1, <2>2, <2>4, <3>4, OthersStay
  <2> QED
    BY <1>1, <2>3, <2>4 DEF Enter
<1>2. CASE CopyChunk(r)
  <2>1. pc[r] = "upload" /\ size[r] < input[r].file /\ stage' = stage /\ queue' = queue
    BY <1>2 DEF CopyChunk
  <2>2. Queued' = Queued
    BY <2>1 DEF Queued
  <2>3. CASE (\E code : Answer(r, code)) /\ size' = size
    BY <1>0, <2>1, <2>2, <2>3, AnswerEnds, OthersStay
  <2>4. CASE size' = [size EXCEPT ![r] = SizeRead(r)] /\ pc' = pc
    <3>1. /\ SizeRead(r) \in Nat /\ size[r] < SizeRead(r) /\ SizeRead(r) <= input[r].file
          /\ size'[r] = SizeRead(r)
      BY <2>1, <2>4, SizeReadBounds DEF IInv, TypeOK
    <3>2. StepsLeft(r)' = input[r].file - SizeRead(r) + 9
      BY <1>0, <2>1, <2>4, <3>1 DEF StepsLeft, Left
    <3>3. StepsLeft(r) = input[r].file - size[r] + 9
      BY <2>1 DEF StepsLeft, Left
    <3>4. StepsLeft(r)' < StepsLeft(r)
      BY <1>0, <3>1, <3>2, <3>3
    <3> QED
      BY <1>0, <2>1, <2>2, <2>4, <3>4, OthersStay
  <2> QED
    BY <1>2, <2>3, <2>4 DEF CopyChunk
<1>3. CASE EndUpload(r)
  <2>1. pc[r] = "upload" /\ size[r] = input[r].file /\ stage' = stage /\ size' = size
    BY <1>3 DEF EndUpload
  <2>2. CASE (\E code : Answer(r, code)) /\ queue' = queue
    <3>1. Queued' = Queued
      BY <2>2 DEF Queued
    <3> QED
      BY <1>0, <2>1, <2>2, <3>1, AnswerEnds, OthersStay
  <2>3. CASE pc' = [pc EXCEPT ![r] = "graph"] /\ queue' = Append(queue, r)
    <3>1. r \notin Queued
      BY <2>1 DEF IInv, ExecutorInv
    <3>2. Queued' = Queued \cup {r}
      BY <2>3, <3>1, AppendCall DEF IInv, TypeOK, ExecutorInv
    <3>3. pc'[r] = "graph" /\ r \in Queued'
      BY <2>3, <3>2 DEF IInv, TypeOK
    <3>4. StepsLeft(r)' = 2 * (4 - stage[r]) + 2
      BY <1>0, <2>1, <3>3 DEF StepsLeft, Left
    <3>5. StepsLeft(r) = input[r].file - size[r] + 9
      BY <2>1 DEF StepsLeft, Left
    <3>6. StepsLeft(r)' < StepsLeft(r)
      BY <1>0, <2>1, <3>4, <3>5
    <3> QED
      BY <1>0, <2>1, <2>3, <3>2, <3>6, OthersStay
  <2> QED
    BY <1>3, <2>2, <2>3 DEF EndUpload
<1>4. CASE NodeReturns(r)
  <2>1. r \in running /\ size' = size
    BY <1>4 DEF NodeReturns
  <2>2. pc[r] = "graph" /\ r \notin Queued
    BY <2>1 DEF IInv, ExecutorInv
  <2>3. CASE (\E code : Answer(r, code)) /\ queue' = queue /\ stage' = stage
    <3>1. Queued' = Queued
      BY <2>3 DEF Queued
    <3> QED
      BY <1>0, <2>1, <2>2, <2>3, <3>1, AnswerEnds, OthersStay
  <2>4. CASE /\ stage[r] < Len(Nodes) /\ stage' = [stage EXCEPT ![r] = @ + 1]
             /\ queue' = Append(queue, r) /\ pc' = pc
    <3>1. Queued' = Queued \cup {r}
      BY <2>2, <2>4, AppendCall DEF IInv, TypeOK, ExecutorInv
    <3>2. stage'[r] = stage[r] + 1 /\ r \in Queued' /\ pc'[r] = "graph"
      BY <2>2, <2>4, <3>1 DEF IInv, TypeOK
    <3>3. StepsLeft(r)' = 2 * (4 - (stage[r] + 1)) + 2
      BY <1>0, <3>2 DEF StepsLeft, Left
    <3>4. StepsLeft(r) = 2 * (4 - stage[r]) + 1
      BY <1>0, <2>2 DEF StepsLeft, Left
    <3>5. StepsLeft(r)' < StepsLeft(r)
      BY <1>0, <3>3, <3>4
    <3> QED
      BY <1>0, <2>1, <2>4, <3>1, <3>5, OthersStay
  <2> QED
    BY <1>4, <2>3, <2>4 DEF NodeReturns
<1>5. CASE NodeRaises(r)
  <2>1. /\ r \in running /\ size' = size /\ stage' = stage /\ queue' = queue
        /\ Answer(r, "processing_failed")
    BY <1>5 DEF NodeRaises
  <2>2. pc[r] = "graph" /\ Queued' = Queued
    BY <2>1 DEF IInv, ExecutorInv, Queued
  <2> QED
    BY <1>0, <2>1, <2>2, AnswerEnds, OthersStay
<1> QED
  BY <1>1, <1>2, <1>3, <1>4, <1>5 DEF HandlerStep

LEMMA ExecutorMoves ==
  ASSUME IInv, StartNode
  PROVE  \E r \in Requests :
           /\ StepsLeft(r)' < StepsLeft(r)
           /\ \A q \in Requests \ {r} : StepsLeft(q)' = StepsLeft(q)
<1>1. /\ queue # <<>> /\ queue' = Tail(queue)
      /\ input' = input /\ pc' = pc /\ size' = size /\ stage' = stage
  BY DEF StartNode
<1>2. Head(queue) \in Queued /\ Queued' = Queued \ {Head(queue)}
  BY <1>1, TakeCall DEF IInv, TypeOK, ExecutorInv
<1>3. PICK r \in Requests : r = Head(queue) /\ pc[r] = "graph"
  BY <1>2 DEF IInv, ExecutorInv
<1>4. stage[r] \in 1..4 /\ Len(Nodes) = 4
  BY LeftIsNat
<1>5. StepsLeft(r) = 2 * (4 - stage[r]) + 2
  BY <1>2, <1>3, <1>4 DEF StepsLeft, Left
<1>6. StepsLeft(r)' = 2 * (4 - stage[r]) + 1
  BY <1>1, <1>2, <1>3, <1>4 DEF StepsLeft, Left
<1>7. StepsLeft(r)' < StepsLeft(r)
  BY <1>4, <1>5, <1>6
<1> QED
  BY <1>1, <1>2, <1>3, <1>7, OthersStay

(* A request that has come is answered within a step for each unit of its  *)
(* file and ten more, of its own or of the thread it waits for: no step of *)
(* the server, of the lifespan or of another request sets it back, and no  *)
(* call waits while there is neither a free thread nor a busy one.  What   *)
(* EveryRequestAnswered asks besides is that what is ready runs.           *)
THEOREM ServiceSteps ==
  Spec => /\ [](\A r \in Requests : StepsLeft(r) \in 0..(input[r].file + 10))
          /\ []NobodyStuck
          /\ [][\/ /\ LifespanStep \/ Shutdown
                   /\ \A r \in Requests : StepsLeft(r)' = StepsLeft(r)
                \/ \E r \in Requests :
                     /\ StepsLeft(r)' < StepsLeft(r)
                     /\ \A q \in Requests \ {r} : StepsLeft(q)' = StepsLeft(q)]_vars
<1>1. IInv => \A r \in Requests : StepsLeft(r) \in 0..(input[r].file + 10)
  BY LeftIsNat
<1>2. IInv => NobodyStuck
  <2> SUFFICES ASSUME IInv, NEW r \in Requests, pc[r] = "graph", r \notin running
               PROVE  r \in Queued /\ (Cardinality(running) < Workers \/ running # {})
    BY DEF NobodyStuck
  <2>1. r \in Queued
    BY DEF IInv, ExecutorInv
  <2>2. running = {} => Cardinality(running) < Workers
    BY FS_EmptySet, ServerAssumption
  <2> QED
    BY <2>1, <2>2
<1>3. ASSUME IInv, LifespanStep \/ Shutdown
      PROVE  \A r \in Requests : StepsLeft(r)' = StepsLeft(r)
  <2>1. UNCHANGED <<input, pc, size, stage, queue>>
    BY <1>3 DEF LifespanStep, Startup, Warm, WarmFails, BecomeReady, Shutdown
  <2>2. Queued' = Queued
    BY <2>1 DEF Queued
  <2> QED
    BY <2>1, <2>2 DEF StepsLeft
<1>4. ASSUME IInv, Next
      PROVE  \/ /\ LifespanStep \/ Shutdown
                /\ \A r \in Requests : StepsLeft(r)' = StepsLeft(r)
             \/ \E r \in Requests :
                  /\ StepsLeft(r)' < StepsLeft(r)
                  /\ \A q \in Requests \ {r} : StepsLeft(q)' = StepsLeft(q)
  <2>1. CASE LifespanStep \/ Shutdown
    BY <1>3, <1>4, <2>1
  <2>2. ASSUME NEW r \in Requests, Enter(r) \/ HandlerStep(r)
        PROVE  /\ StepsLeft(r)' < StepsLeft(r)
               /\ \A q \in Requests \ {r} : StepsLeft(q)' = StepsLeft(q)
    BY <1>4, <2>2, HandlerMoves
  <2>3. CASE StartNode
    BY <1>4, <2>3, ExecutorMoves
  <2> QED
    BY <1>4, <2>1, <2>2, <2>3 DEF Next
<1>5. IInv /\ [Next]_vars
        => [\/ /\ LifespanStep \/ Shutdown
               /\ \A r \in Requests : StepsLeft(r)' = StepsLeft(r)
            \/ \E r \in Requests :
                 /\ StepsLeft(r)' < StepsLeft(r)
                 /\ \A q \in Requests \ {r} : StepsLeft(q)' = StepsLeft(q)]_vars
  BY <1>4
<1> QED
  BY <1>1, <1>2, <1>5, ServiceInvariant, PTL DEF Spec

-----------------------------------------------------------------------------
(* The refinement of ServiceContract                                       *)

(* What an action does, seen from outside. *)
LEMMA AnswerRefines ==
  ASSUME IInv, AnswerContract', NEW r \in Requests, NEW code, Answer(r, code),
         code # "none", config' = config, input' = input,
         \/ pc[r] = "idle" /\ code \notin Results
         \/ pc[r] \in {"upload", "graph"} /\ code \notin Refusals
  PROVE  Contract!Next
<1>1. /\ pc \in [Requests -> {"idle", "upload", "graph", "answered"}]
      /\ response \in [Requests -> Answers \cup {"none"}]
      /\ pc' = [pc EXCEPT ![r] = "answered"]
      /\ response' = [response EXCEPT ![r] = code]
  BY DEF Answer, IInv, TypeOK
<1>2. \A q \in Requests : AllowedAnswers(q)' = AllowedAnswers(q)
  BY DEF AllowedAnswers, Names
<1>3. code \in AllowedAnswers(r)
  <2>1. response'[r] = code
    BY <1>1
  <2> QED
    BY <1>2, <2>1 DEF AnswerContract
<1> DEFINE allowed == [q \in Requests |-> AllowedAnswers(q)]
           place == [q \in Requests |-> IF pc[q] = "idle" THEN "sent"
                                       ELSE IF pc[q] = "answered" THEN "answered"
                                       ELSE "taken"]
<1>4. allowed' = allowed /\ code \in allowed[r]
  BY <1>2, <1>3
<1>5. place' = [place EXCEPT ![r] = "answered"]
  BY <1>1
<1>6. CASE pc[r] = "idle" /\ code \notin Results
  <2>1. place[r] = "sent"
    BY <1>6
  <2>2. Contract!Refuse(r)
    BY <1>1, <1>4, <1>5, <1>6, <2>1 DEF Contract!Refuse, Contract!Give
  <2> QED
    BY <2>2 DEF Contract!Next
<1>7. CASE pc[r] \in {"upload", "graph"} /\ code \notin Refusals
  <2>1. place[r] = "taken"
    BY <1>7
  <2>2. Contract!Conclude(r)
    BY <1>1, <1>4, <1>5, <1>7, <2>1 DEF Contract!Conclude, Contract!Give
  <2> QED
    BY <2>2 DEF Contract!Next
<1> QED
  BY <1>6, <1>7

LEMMA TakeRefines ==
  ASSUME IInv, NEW r \in Requests, pc[r] = "idle", EntryError(r) = "none",
         pc' = [pc EXCEPT ![r] = "upload"],
         UNCHANGED <<config, input, response>>
  PROVE  Contract!Next
<1>1. pc \in [Requests -> {"idle", "upload", "graph", "answered"}]
  BY DEF IInv, TypeOK
<1>2. \A q \in Requests : AllowedAnswers(q)' = AllowedAnswers(q)
  BY DEF AllowedAnswers, Names
<1>3. \E code \in AllowedAnswers(r) : code \notin Refusals
  <2>1. /\ input[r].pipeline \in Names(config) /\ input[r].options # "malformed"
        /\ input[r].attached
    BY EntryErrorFacts DEF IInv, LifespanInv
  <2>2. /\ input[r].file \in Nat /\ input[r].media \in {"pdf", "other"}
        /\ MaxUpload \in Nat \ {0}
    BY InputFacts DEF IInv
  <2> DEFINE i == input[r]
  <2>3. CASE i.file = 0
    <3>1. "empty_input" \in AllowedAnswers(r)
      BY <2>1, <2>3 DEF AllowedAnswers
    <3> QED
      BY <3>1 DEF Refusals
  <2>4. CASE i.file # 0 /\ i.file > MaxUpload
    <3>1. "payload_too_large" \in AllowedAnswers(r)
      BY <2>1, <2>4 DEF AllowedAnswers
    <3> QED
      BY <3>1 DEF Refusals
  <2>5. CASE i.file # 0 /\ ~(i.file > MaxUpload) /\ i.pipeline = Pdf
    <3>1. "unsupported_media_type" \in AllowedAnswers(r) \/ "ok" \in AllowedAnswers(r)
      BY <2>1, <2>5 DEF AllowedAnswers
    <3> QED
      BY <3>1 DEF Refusals
  <2>6. CASE i.file # 0 /\ ~(i.file > MaxUpload) /\ i.pipeline # Pdf
    <3>1. "canonical_encoding_failed" \in AllowedAnswers(r) \/ "ok" \in AllowedAnswers(r)
      BY <2>1, <2>6 DEF AllowedAnswers
    <3> QED
      BY <3>1 DEF Refusals
  <2> QED
    BY <2>2, <2>3, <2>4, <2>5, <2>6
<1> DEFINE allowed == [q \in Requests |-> AllowedAnswers(q)]
           place == [q \in Requests |-> IF pc[q] = "idle" THEN "sent"
                                       ELSE IF pc[q] = "answered" THEN "answered"
                                       ELSE "taken"]
<1>4. allowed' = allowed /\ ~(allowed[r] \subseteq Refusals)
  BY <1>2, <1>3
<1>5. place[r] = "sent" /\ place' = [place EXCEPT ![r] = "taken"]
  BY <1>1
<1> QED
  BY <1>4, <1>5 DEF Contract!Next, Contract!Take

(* Steps that no sender of a request can see. *)
LEMMA InsideRefines ==
  ASSUME IInv, UNCHANGED <<config, input, response>>,
         \/ pc' = pc
         \/ \E r \in Requests : pc[r] = "upload" /\ pc' = [pc EXCEPT ![r] = "graph"]
  PROVE  UNCHANGED Contract!vars
<1>1. pc \in [Requests -> {"idle", "upload", "graph", "answered"}]
  BY DEF IInv, TypeOK
<1>2. \A q \in Requests : AllowedAnswers(q)' = AllowedAnswers(q)
  BY DEF AllowedAnswers, Names
<1>3. \A q \in Requests : /\ pc'[q] = "idle" <=> pc[q] = "idle"
                          /\ pc'[q] = "answered" <=> pc[q] = "answered"
  BY <1>1
<1> QED
  BY <1>2, <1>3 DEF Contract!vars

LEMMA ServiceStepRefines ==
  IInv /\ AnswerContract' /\ [Next]_vars => [Contract!Next]_(Contract!vars)
<1> SUFFICES ASSUME IInv, AnswerContract', [Next]_vars
             PROVE  Contract!Next \/ UNCHANGED Contract!vars
  OBVIOUS
<1>1. CASE LifespanStep \/ Shutdown \/ StartNode \/ UNCHANGED vars
  <2>1. UNCHANGED <<config, input, response, pc>>
    BY <1>1 DEF LifespanStep, Startup, Warm, WarmFails, BecomeReady, Shutdown,
                StartNode, lifespanVars, vars
  <2> QED
    BY <2>1, InsideRefines
<1>2. ASSUME NEW r \in Requests, Enter(r)
      PROVE  Contract!Next \/ UNCHANGED Contract!vars
  <2>1. pc[r] = "idle" /\ config' = config /\ input' = input
    BY <1>2 DEF Enter, lifespanVars
  <2>2. CASE EntryError(r) # "none" /\ Answer(r, EntryError(r))
    <3>1. EntryError(r) \notin Results
      BY <2>2, EntryErrorFacts DEF Results
    <3> QED
      BY <2>1, <2>2, <3>1, AnswerRefines
  <2>3. CASE Answer(r, "internal")
    BY <2>1, <2>3, AnswerRefines DEF Results
  <2>4. CASE /\ EntryError(r) = "none" /\ pc' = [pc EXCEPT ![r] = "upload"]
             /\ response' = response
    BY <2>1, <2>4, TakeRefines
  <2> QED
    BY <1>2, <2>2, <2>3, <2>4 DEF Enter
<1>3. ASSUME NEW r \in Requests, CopyChunk(r)
      PROVE  Contract!Next \/ UNCHANGED Contract!vars
  <2>1. pc[r] = "upload" /\ config' = config /\ input' = input
    BY <1>3 DEF CopyChunk, lifespanVars
  <2>2. CASE \E code \in {"payload_too_large", "internal"} : Answer(r, code)
    BY <2>1, <2>2, AnswerRefines DEF Refusals
  <2>3. CASE pc' = pc /\ response' = response
    BY <2>1, <2>3, InsideRefines
  <2> QED
    BY <1>3, <2>2, <2>3 DEF CopyChunk
<1>4. ASSUME NEW r \in Requests, EndUpload(r)
      PROVE  Contract!Next \/ UNCHANGED Contract!vars
  <2>1. pc[r] = "upload" /\ config' = config /\ input' = input
    BY <1>4 DEF EndUpload, lifespanVars
  <2>2. CASE InputError(r) # "none" /\ Answer(r, InputError(r))
    <3>1. InputError(r) \notin Refusals
      BY <2>2, InputErrorFacts DEF Refusals
    <3> QED
      BY <2>1, <2>2, <3>1, AnswerRefines
  <2>3. CASE \E code \in {"canonical_encoding_failed", "ok", "processing_failed"} :
               Answer(r, code)
    BY <2>1, <2>3, AnswerRefines DEF Refusals
  <2>4. CASE pc' = [pc EXCEPT ![r] = "graph"] /\ response' = response
    BY <2>1, <2>4, InsideRefines
  <2> QED
    BY <1>4, <2>2, <2>3, <2>4 DEF EndUpload
<1>5. ASSUME NEW r \in Requests, NodeReturns(r) \/ NodeRaises(r)
      PROVE  Contract!Next \/ UNCHANGED Contract!vars
  <2>1. pc[r] = "graph" /\ config' = config /\ input' = input
    BY <1>5, RunningFacts DEF NodeReturns, NodeRaises, lifespanVars
  <2>2. CASE \E code \in {"canonical_encoding_failed", "ok", "processing_failed"} :
               Answer(r, code)
    BY <2>1, <2>2, AnswerRefines DEF Refusals
  <2>3. CASE pc' = pc /\ response' = response
    BY <2>1, <2>3, InsideRefines
  <2> QED
    BY <1>5, <2>2, <2>3 DEF NodeReturns, NodeRaises
<1> QED
  BY <1>1, <1>2, <1>3, <1>4, <1>5 DEF Next, HandlerStep

(* Whatever the disk, the nodes and the lifespan do, the senders of        *)
(* requests see the contract (HANDOFF-phase1-generic-server.md:127-138):   *)
(* one answer for each, for good, from those its request calls for; a      *)
(* refusal comes before anything is copied, and never after.               *)
THEOREM ServiceImplementsContract == Spec => ContractSpec
<1>1. Init => Contract!Init
  BY DEF Init, Contract!Init
<1>2. IInv => AnswerContract
  BY DEF IInv
<1> QED
  BY <1>1, <1>2, ServiceStepRefines, ServiceInvariant, PTL
  DEF Spec, ContractSpec, Contract!Spec

LEMMA ContractStep ==
  /\ Contract!TypeOK /\ Contract!Kept /\ [Contract!Next]_(Contract!vars)
  => Contract!TypeOK' /\ Contract!Kept'
<1> DEFINE allowed == [r \in Requests |-> AllowedAnswers(r)]
           place == [r \in Requests |-> IF pc[r] = "idle" THEN "sent"
                                       ELSE IF pc[r] = "answered" THEN "answered"
                                       ELSE "taken"]
<1> SUFFICES ASSUME Contract!TypeOK, Contract!Kept, [Contract!Next]_(Contract!vars)
             PROVE  Contract!TypeOK' /\ Contract!Kept'
  OBVIOUS
<1>1. /\ place \in [Requests -> {"sent", "taken", "answered"}]
      /\ response = [q \in Requests |-> response[q]]
      /\ \A q \in Requests : IF place[q] = "answered" THEN response[q] \in allowed[q]
                                                     ELSE response[q] = "none"
  BY DEF Contract!TypeOK, Contract!Kept
<1> HIDE DEF allowed, place
<1>2. CASE UNCHANGED Contract!vars
  <2>1. allowed' = allowed /\ place' = place /\ response' = response
    BY <1>2 DEF Contract!vars, allowed, place
  <2>2. /\ place' \in [Requests -> {"sent", "taken", "answered"}]
        /\ response' = [q \in Requests |-> response'[q]]
        /\ \A q \in Requests : IF place'[q] = "answered"
                               THEN response'[q] \in allowed'[q]
                               ELSE response'[q] = "none"
    BY <1>1, <2>1
  <2> QED
    BY <2>2 DEF Contract!TypeOK, Contract!Kept, allowed, place
<1>3. ASSUME NEW r \in Requests,
             Contract!Take(r) \/ Contract!Refuse(r) \/ Contract!Conclude(r)
      PROVE  Contract!TypeOK' /\ Contract!Kept'
  <2>1. /\ allowed' = allowed
        /\ \/ place' = [place EXCEPT ![r] = "taken"] /\ place[r] = "sent"
              /\ response' = response
           \/ \E code \in allowed[r] :
                /\ place' = [place EXCEPT ![r] = "answered"]
                /\ response' = [response EXCEPT ![r] = code]
    BY <1>3 DEF Contract!Take, Contract!Refuse, Contract!Conclude, Contract!Give,
                allowed, place
  <2>2. /\ place' \in [Requests -> {"sent", "taken", "answered"}]
        /\ response' = [q \in Requests |-> response'[q]]
        /\ \A q \in Requests : IF place'[q] = "answered"
                               THEN response'[q] \in allowed'[q]
                               ELSE response'[q] = "none"
    BY <1>1, <2>1
  <2> QED
    BY <2>2 DEF Contract!TypeOK, Contract!Kept, allowed, place
<1> QED
  BY <1>2, <1>3 DEF Contract!Next

(* What was answered stays answered, with one of the answers called for:   *)
(* inherited from the contract. *)
THEOREM ServiceKept == Spec => []Contract!Kept
<1>1. Contract!Init => Contract!TypeOK /\ Contract!Kept
  BY DEF Contract!Init, Contract!TypeOK, Contract!Kept
<1>2. Contract!Spec => []Contract!Kept
  BY <1>1, ContractStep, PTL DEF Contract!Spec
<1> QED
  BY <1>2, ServiceImplementsContract DEF ContractSpec
=============================================================================
