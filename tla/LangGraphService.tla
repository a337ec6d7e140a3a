-------------------------- MODULE LangGraphService --------------------------
(***************************************************************************)
(* langgraph-fastapi: the generic pipeline server.  The lifespan registers *)
(* and warms the configured pipelines; POST /v1/process/{pipeline} streams *)
(* the upload to a temp file, runs the pipeline and answers; on every path *)
(* one of the file's two owners tries to remove it.  Handlers interleave   *)
(* at their awaits; the nodes of the PDF graph run on the executor         *)
(* threads, in queue order.                                                *)
(*                                                                         *)
(* External: the ASGI server (when requests and the shutdown come), the    *)
(* LangGraph runtime (one executor call per node) and the disk.  Sizes are *)
(* counted in units of the upload limit's granularity, not in bytes.       *)
(***************************************************************************)
EXTENDS Naturals, Sequences, FiniteSets, FiniteSetsExt

CONSTANTS
  Requests,      (* request slots: each delivers one request               *)
  Inputs,        (* the requests a client may send, see InputsAssumption   *)
  Configs,       (* values of Settings.pipelines to start with             *)
  MaxUpload,     (* Settings.max_upload_bytes                              *)
  Chunk,         (* CHUNK_BYTES, what one read returns at most             *)
  Workers,       (* threads of the default executor                        *)
  DiskFaults     (* TRUE when the temp directory may refuse a file, data   *)
                 (* or a removal                                           *)

(* default_builders(), in the order in which names() sorts them. *)
Mock == "mock-v1"
Pdf == "document-pdf-v1"
Builders == {Mock, Pdf}
WarmupOrder == <<Pdf, Mock>>

(* attached: the form has a file, of file units; options "nan" is a JSON   *)
(* object holding a NaN, which json.loads takes and canonical_encode not.  *)
ASSUME InputsAssumption ==
  \A i \in Inputs :
    /\ DOMAIN i = {"pipeline", "options", "attached", "file", "media"}
    /\ i.options \in {"object", "nan", "malformed"}
    /\ i.attached \in BOOLEAN
    /\ i.file \in Nat
    /\ i.media \in {"pdf", "other"}

ASSUME ServerAssumption ==
  /\ MaxUpload \in Nat \ {0}
  /\ Chunk \in Nat \ {0}
  /\ Workers \in Nat \ {0}
  /\ DiskFaults \in BOOLEAN
  /\ \A c \in Configs : c \in Seq(STRING) \ {<<>>}

VARIABLES
  config,        (* Settings.pipelines                                     *)
  server,        (* where the lifespan stands                              *)
  ready,         (* app.state.ready                                        *)
  registered,    (* names in the registry                                  *)
  warmed,        (* registered pipelines whose warmup has succeeded        *)
  model_loaded,  (* embed._model is not None                               *)
  input,         (* the request each slot delivers                         *)
  pc,            (* where each handler stands                              *)
  size,          (* units of the upload copied so far                      *)
  temp,          (* requests whose temp file is on disk                    *)
  stranded,      (* requests whose temp file could not be removed          *)
  stage,         (* the graph node a request is at                         *)
  queue,         (* executor calls that wait for a thread                  *)
  running,       (* executor calls on a thread                             *)
  response       (* the code each request was answered with                *)

lifespanVars == <<config, server, ready, registered, warmed>>
vars == <<lifespanVars, model_loaded, input, pc, size, temp, stranded, stage,
          queue, running, response>>

Codes == {"unknown_pipeline", "server_not_ready", "invalid_options",
          "empty_input", "unsupported_media_type", "payload_too_large",
          "processing_timeout", "processing_failed",
          "canonical_encoding_failed"}

(* "internal": an exception that is no ServiceError leaves the handler and *)
(* the framework answers with its own plain-text 500.                      *)
Answers == Codes \cup {"ok", "internal"}

(* build_pdf_graph(): the nodes in edge order. *)
Nodes == <<"extract", "chunk", "embed", "assemble">>

Names(c) == {c[k] : k \in DOMAIN c}

(* Positions at which the registration loop raises RegistryError: no       *)
(* builder, or a name already registered.                                  *)
BadEntries(c) ==
  {k \in DOMAIN c : c[k] \notin Builders \/ \E j \in 1..(k - 1) : c[j] = c[k]}

(* The size once the next chunk has been read. *)
SizeRead(r) == size[r] + Min({Chunk, input[r].file - size[r]})

InFlight == {r \in Requests : pc[r] \in {"upload", "graph"}}

-----------------------------------------------------------------------------

Init ==
  /\ config \in Configs
  /\ server = "down"
  /\ ready = FALSE
  /\ registered = {}
  /\ warmed = {}
  /\ model_loaded = FALSE
  /\ input \in [Requests -> Inputs]
  /\ pc = [r \in Requests |-> "idle"]
  /\ size = [r \in Requests |-> 0]
  /\ temp = {}
  /\ stranded = {}
  /\ stage = [r \in Requests |-> 1]
  /\ queue = <<>>
  /\ running = {}
  /\ response = [r \in Requests |-> "none"]

(* lifespan: clear the registry and register every configured pipeline; it *)
(* can run again on the same app after a shutdown or a failed start.       *)
Startup ==
  /\ server \in {"down", "failed"}
  /\ warmed' = {}
  /\ \/ /\ BadEntries(config) = {}
        /\ registered' = Names(config)
        /\ server' = "warming"
     \/ /\ BadEntries(config) # {}
        /\ registered' = {config[k] : k \in {j \in DOMAIN config :
                            \A b \in BadEntries(config) : j < b}}
        /\ server' = "failed"
  /\ UNCHANGED <<config, ready, model_loaded, input, pc, size, temp,
                 stranded, stage, queue, running, response>>

(* warmup_all: one pipeline after the other, sorted.  The PDF pipeline     *)
(* loads the model and runs its fixture through the graph, and either may  *)
(* raise.                                                                  *)
Warm(p) ==
  /\ server = "warming"
  /\ p \in registered \ warmed
  /\ \A k \in 2..Len(WarmupOrder) :
       p = WarmupOrder[k] => WarmupOrder[k - 1] \notin registered \ warmed
  /\ warmed' = warmed \cup {p}
  /\ model_loaded' = (model_loaded \/ p = Pdf)
  /\ UNCHANGED <<config, server, ready, registered, input, pc, size, temp,
                 stranded, stage, queue, running, response>>

WarmFails ==
  /\ server = "warming"
  /\ Pdf \in registered \ warmed
  /\ server' = "failed"
  /\ model_loaded' \in {model_loaded, TRUE}
  /\ UNCHANGED <<config, ready, registered, warmed, input, pc, size, temp,
                 stranded, stage, queue, running, response>>

BecomeReady ==
  /\ server = "warming"
  /\ warmed = registered
  /\ ready' = TRUE
  /\ server' = "up"
  /\ UNCHANGED <<config, registered, warmed, model_loaded, input, pc, size,
                 temp, stranded, stage, queue, running, response>>

(* Bug: ready survives the shutdown. *)
ShutdownBug ==
  /\ server = "up"
  /\ InFlight = {}
  /\ server' = "down"
  /\ UNCHANGED <<config, ready, registered, warmed, model_loaded, input, pc,
                 size, temp, stranded, stage, queue, running, response>>

(* The ASGI server ends the lifespan when no request is in flight. *)
Shutdown ==
  /\ server = "up"
  /\ InFlight = {}
  /\ ready' = FALSE
  /\ server' = "down"
  /\ UNCHANGED <<config, registered, warmed, model_loaded, input, pc, size,
                 temp, stranded, stage, queue, running, response>>

-----------------------------------------------------------------------------

(* The response goes out. *)
Answer(r, code) ==
  /\ response' = [response EXCEPT ![r] = code]
  /\ pc' = [pc EXCEPT ![r] = "answered"]

(* Both owners of a temp file swallow the OSError of its unlink.           *)
Unlink(r) ==
  \/ temp' = temp \ {r} /\ UNCHANGED stranded
  \/ DiskFaults /\ stranded' = stranded \cup {r} /\ UNCHANGED temp

(* Bug: persist_upload leaves its partial file to its caller, whose        *)
(* source_path is still None.                                              *)
DropPartialBug(r) == UNCHANGED <<temp, stranded>>

(* persist_upload raises: its except clause removes the file it has begun, *)
(* and the handler, which never learns its path, removes nothing.          *)
DropPartial(r) == Unlink(r)

(* Bug: the finally clause is missing. *)
DropSourceBug(r) == UNCHANGED <<temp, stranded>>

(* persist_upload has returned the path: from here on the finally clause   *)
(* of the handler removes the file.                                        *)
DropSource(r) == Unlink(r)

(* The checks a handler makes before it first awaits, in their order.      *)
EntryError(r) ==
  CASE ~ready -> "server_not_ready"
    [] ready /\ input[r].pipeline \notin registered -> "unknown_pipeline"
    [] ready /\ input[r].pipeline \in registered
             /\ input[r].options = "malformed" -> "invalid_options"
    [] ready /\ input[r].pipeline \in registered
             /\ input[r].options # "malformed"
             /\ ~input[r].attached -> "empty_input"
    [] OTHER -> "none"

(* A request enters its handler: it is refused, or its temp file is made   *)
(* (mkstemp, outside persist_upload's try) and the copy begins.            *)
Enter(r) ==
  /\ pc[r] = "idle"
  /\ \/ /\ EntryError(r) # "none"
        /\ Answer(r, EntryError(r))
        /\ UNCHANGED <<temp, stranded>>
     \/ /\ EntryError(r) = "none"
        /\ pc' = [pc EXCEPT ![r] = "upload"]
        /\ temp' = temp \cup {r}
        /\ UNCHANGED <<stranded, response>>
     \/ /\ EntryError(r) = "none"
        /\ DiskFaults
        /\ Answer(r, "internal")
        /\ UNCHANGED <<temp, stranded>>
  /\ UNCHANGED <<lifespanVars, model_loaded, input, size, stage, queue,
                 running>>

(* Bug: the limit is checked against what was written before this chunk. *)
CopyChunkBug(r) ==
  /\ pc[r] = "upload"
  /\ size[r] < input[r].file
  /\ \/ /\ size[r] > MaxUpload
        /\ Answer(r, "payload_too_large")
        /\ DropPartial(r)
        /\ UNCHANGED size
     \/ /\ size[r] <= MaxUpload
        /\ size' = [size EXCEPT ![r] = SizeRead(r)]
        /\ UNCHANGED <<pc, temp, stranded, response>>
  /\ UNCHANGED <<lifespanVars, model_loaded, input, stage, queue, running>>

(* One turn of persist_upload's loop: the chunk that crosses the limit     *)
(* ends the copy, any other is written, if the disk takes it.              *)
CopyChunk(r) ==
  /\ pc[r] = "upload"
  /\ size[r] < input[r].file
  /\ \/ /\ SizeRead(r) > MaxUpload
        /\ Answer(r, "payload_too_large")
        /\ DropPartial(r)
        /\ UNCHANGED size
     \/ /\ SizeRead(r) <= MaxUpload
        /\ size' = [size EXCEPT ![r] = SizeRead(r)]
        /\ UNCHANGED <<pc, temp, stranded, response>>
     \/ /\ SizeRead(r) <= MaxUpload
        /\ DiskFaults
        /\ Answer(r, "internal")
        /\ DropPartial(r)
        /\ UNCHANGED size
  /\ UNCHANGED <<lifespanVars, model_loaded, input, stage, queue, running>>

(* What is refused in a complete upload: by persist_upload when it is      *)
(* empty, else by prepare_input.                                           *)
InputError(r) ==
  CASE size[r] = 0 -> "empty_input"
    [] size[r] # 0 /\ input[r].pipeline = Pdf /\ input[r].media # "pdf"
         -> "unsupported_media_type"
    [] OTHER -> "none"

(* The copy is complete: the input is refused, or the mock pipeline runs   *)
(* to the end on the event loop (its read of the temp file may fail), or   *)
(* the graph's first node is handed to the executor.                       *)
EndUpload(r) ==
  /\ pc[r] = "upload"
  /\ size[r] = input[r].file
  /\ \/ /\ InputError(r) # "none"
        /\ Answer(r, InputError(r))
        /\ IF size[r] = 0 THEN DropPartial(r) ELSE DropSource(r)
        /\ UNCHANGED queue
     \/ /\ InputError(r) = "none"
        /\ input[r].pipeline = Mock
        /\ Answer(r, IF input[r].options = "nan"
                       THEN "canonical_encoding_failed" ELSE "ok")
        /\ DropSource(r)
        /\ UNCHANGED queue
     \/ /\ InputError(r) = "none"
        /\ input[r].pipeline = Mock
        /\ DiskFaults
        /\ Answer(r, "processing_failed")
        /\ DropSource(r)
        /\ UNCHANGED queue
     \/ /\ InputError(r) = "none"
        /\ input[r].pipeline = Pdf
        /\ pc' = [pc EXCEPT ![r] = "graph"]
        /\ queue' = Append(queue, r)
        /\ UNCHANGED <<temp, stranded, response>>
  /\ UNCHANGED <<lifespanVars, model_loaded, input, size, stage, running>>

(* An idle thread takes the oldest call. *)
StartNode ==
  /\ queue # <<>>
  /\ Cardinality(running) < Workers
  /\ running' = running \cup {Head(queue)}
  /\ queue' = Tail(queue)
  /\ UNCHANGED <<lifespanVars, model_loaded, input, pc, size, temp,
                 stranded, stage, response>>

(* A node returns: the next one is queued, or after the last the output is *)
(* encoded and answered; a vector that is not finite cannot be encoded.    *)
(* embed_chunks loads the model if nobody has, unless there is no chunk.   *)
NodeReturns(r) ==
  /\ r \in running
  /\ running' = running \ {r}
  /\ model_loaded' \in {model_loaded,
                       model_loaded \/ Nodes[stage[r]] = "embed"}
  /\ \/ /\ stage[r] < Len(Nodes)
        /\ stage' = [stage EXCEPT ![r] = @ + 1]
        /\ queue' = Append(queue, r)
        /\ UNCHANGED <<pc, temp, stranded, response>>
     \/ /\ stage[r] = Len(Nodes)
        /\ \E code \in {"ok", "canonical_encoding_failed"} : Answer(r, code)
        /\ DropSource(r)
        /\ UNCHANGED <<stage, queue>>
  /\ UNCHANGED <<lifespanVars, input, size>>

(* Bug: the exception is lost and nobody answers. *)
NodeRaisesBug(r) ==
  /\ r \in running
  /\ Nodes[stage[r]] # "assemble"
  /\ running' = running \ {r}
  /\ UNCHANGED <<lifespanVars, model_loaded, input, pc, size, temp,
                 stranded, stage, queue, response>>

(* A node raises: extraction of a corrupt file, the model, memory. *)
NodeRaises(r) ==
  /\ r \in running
  /\ Nodes[stage[r]] # "assemble"
  /\ running' = running \ {r}
  /\ Answer(r, "processing_failed")
  /\ DropSource(r)
  /\ UNCHANGED <<lifespanVars, model_loaded, input, size, stage, queue>>

LifespanStep == Startup \/ (\E p \in registered : Warm(p)) \/ WarmFails
                \/ BecomeReady

HandlerStep(r) == CopyChunk(r) \/ EndUpload(r) \/ NodeReturns(r) \/ NodeRaises(r)

Next ==
  \/ LifespanStep
  \/ Shutdown
  \/ \E r \in Requests : Enter(r) \/ HandlerStep(r)
  \/ StartNode

Spec == Init /\ [][Next]_vars

(* The event loop and the executor threads run what is ready, a node comes *)
(* to an end, and a lifespan that has begun is carried on.  Requests and   *)
(* the shutdown need never come.                                           *)
Fairness ==
  /\ \A r \in Requests : WF_vars(HandlerStep(r))
  /\ WF_vars(StartNode)
  /\ WF_vars(server = "warming" /\ LifespanStep)

FairSpec == Spec /\ Fairness

-----------------------------------------------------------------------------

TypeOK ==
  /\ config \in Configs
  /\ server \in {"down", "warming", "up", "failed"}
  /\ ready \in BOOLEAN
  /\ registered \subseteq Names(config)
  /\ warmed \subseteq registered
  /\ model_loaded \in BOOLEAN
  /\ input \in [Requests -> Inputs]
  /\ pc \in [Requests -> {"idle", "upload", "graph", "answered"}]
  /\ size \in [Requests -> 0..MaxUpload]
  /\ temp \subseteq Requests
  /\ stranded \subseteq Requests
  /\ stage \in [Requests -> 1..Len(Nodes)]
  /\ queue \in Seq(Requests)
  /\ running \subseteq Requests
  /\ response \in [Requests -> Answers \cup {"none"}]

(* "cleanup in finally, always" (HANDOFF-phase1-generic-server.md:139-142) *)
(* by two owners, one after the other: a temp file is on disk while its    *)
(* handler is in flight, so that no node on a thread finds its file gone,  *)
(* and later only when the one attempt to remove it has failed, which both *)
(* owners swallow (app.py:217-220, upload.py:50-53).                       *)
TempFileLifetime ==
  /\ temp = InFlight \cup stranded
  /\ \A r \in stranded : DiskFaults /\ pc[r] = "answered"

(* Work handed to the executor is neither lost nor run twice: a request in *)
(* the graph is on one thread or at one place of the queue, nobody else is *)
(* in either, and the pool is never overrun.                               *)
ExecutorSound ==
  /\ Cardinality(running) <= Workers
  /\ \A r \in Requests :
       Cardinality({k \in DOMAIN queue : queue[k] = r})
         + (IF r \in running THEN 1 ELSE 0)
       = IF pc[r] = "graph" THEN 1 ELSE 0

(* "503 until every loaded pipeline's warmup succeeded", "Startup MUST     *)
(* abort on: unknown configured pipeline, duplicate registration, warmup   *)
(* failure" (HANDOFF-phase1-generic-server.md:102-103, 159-160), across    *)
(* restarts: a ready server has exactly its configured pipelines, each     *)
(* warm, and whoever is in flight runs on a warm one.  No node ever loads  *)
(* the model ("Explicit, never lazy-in-node", embed.py:28).                *)
ReadyMeansWarm ==
  /\ ready => /\ server = "up"
              /\ BadEntries(config) = {}
              /\ registered = Names(config) /\ warmed = registered
  /\ \A r \in InFlight : ready /\ input[r].pipeline \in warmed
  /\ \A r \in running : Nodes[stage[r]] = "embed" => model_loaded

(* The answers given before a handler first awaits, and by nobody later.   *)
Refusals == {"server_not_ready", "unknown_pipeline", "invalid_options"}

(* The error contract, as a function of the request alone: the order of    *)
(* the checks, the size limit to the unit, and which pipelines can fail    *)
(* how.                                                                    *)
AllowedAnswers(r) ==
  LET i == input[r]
      refused == IF i.pipeline \notin Names(config) THEN {"unknown_pipeline"}
                 ELSE IF i.options = "malformed" THEN {"invalid_options"}
                 ELSE IF ~i.attached \/ i.file = 0 THEN {"empty_input"}
                 ELSE IF i.file > MaxUpload THEN {"payload_too_large"}
                 ELSE IF i.pipeline = Pdf /\ i.media = "other"
                   THEN {"unsupported_media_type"}
                 ELSE {}
  IN {"server_not_ready"}
     \cup (IF DiskFaults /\ i.attached /\ refused \cap Refusals = {}
           THEN {"internal"} ELSE {})
     \cup (IF refused # {} THEN refused
           ELSE IF i.pipeline = Pdf
             THEN {"ok", "processing_failed", "canonical_encoding_failed"}
           ELSE (IF DiskFaults THEN {"processing_failed"} ELSE {})
                \cup (IF i.options = "nan" THEN {"canonical_encoding_failed"}
                      ELSE {"ok"}))

AnswerContract ==
  \A r \in Requests : response[r] # "none" => response[r] \in AllowedAnswers(r)

(* The inductive invariant behind the four.  LifespanInv: what the server  *)
(* has registered and warmed, and when it is ready.  ExecutorInv: who is   *)
(* on a thread or in the queue.  HandlerInv: what a handler has found out  *)
(* of its request by the time it stands where it does.                     *)
LifespanInv ==
  /\ ready <=> server = "up"
  /\ server \in {"warming", "up"} => /\ BadEntries(config) = {}
                                     /\ registered = Names(config)
  /\ server = "up" => warmed = registered
  /\ Pdf \in warmed => model_loaded

Queued == {queue[k] : k \in DOMAIN queue}

ExecutorInv ==
  /\ IsFiniteSet(running)
  /\ Cardinality(running) <= Workers
  /\ \A j, k \in DOMAIN queue : queue[j] = queue[k] => j = k
  /\ running \cap Queued = {}
  /\ running \cup Queued = {r \in Requests : pc[r] = "graph"}

HandlerInv ==
  \A r \in Requests :
    /\ pc[r] = "idle" => size[r] = 0
    /\ pc[r] \in {"upload", "graph"} =>
         /\ server = "up"
         /\ input[r].pipeline \in registered
         /\ input[r].options # "malformed"
         /\ input[r].attached
         /\ size[r] <= input[r].file
    /\ pc[r] = "graph" => /\ InputError(r) = "none"
                          /\ input[r].pipeline = Pdf
                          /\ size[r] = input[r].file

IInv == /\ TypeOK /\ LifespanInv /\ ExecutorInv /\ HandlerInv
        /\ TempFileLifetime /\ AnswerContract

(* Every request that entered its handler is answered, whatever raises on  *)
(* the way, and a startup that has begun ends, ready or aborted.           *)
EveryRequestAnswered ==
  /\ \A r \in Requests : pc[r] \in {"upload", "graph"} ~> pc[r] = "answered"
  /\ server = "warming" ~> server \in {"up", "failed"}

(* The server as the senders of requests see it. *)
Results == {"ok", "payload_too_large", "unsupported_media_type",
            "processing_failed", "canonical_encoding_failed"}

Contract == INSTANCE ServiceContract WITH
  allowed <- [r \in Requests |-> AllowedAnswers(r)],
  place <- [r \in Requests |-> IF pc[r] = "idle" THEN "sent"
                              ELSE IF pc[r] = "answered" THEN "answered"
                              ELSE "taken"],
  answer <- response

(* The error contract (HANDOFF-phase1-generic-server.md:127-138), as a     *)
(* specification of its own that the server implements: every request gets *)
(* one answer, for good, and one of its AllowedAnswers; who cannot be      *)
(* served is refused before anything is copied, and who has been let in is *)
(* never refused any more.                                                 *)
ContractSpec == Contract!Spec
=============================================================================
