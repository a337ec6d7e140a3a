----------------------------- MODULE EngineProbe -----------------------------
(***************************************************************************)
(* rocketride/run_probe.py: boots an engine of its own, runs four captures *)
(* through it, each with a pipeline of its own (twice the PDF, then with a *)
(* field the schema does not declare, then a text), judges them, and tears *)
(* the engine down.  The engine is external: it boots, or exits at any     *)
(* time, ignores SIGTERM, answers a call or raises.  When another engine   *)
(* holds the port already, the probe's own cannot come up.                 *)
(***************************************************************************)
EXTENDS Naturals, Sequences

CONSTANTS
  Contents       (* the chunk hashes that a capture can come back with     *)

Captures == 1..4

(* What a capture comes back with: no chunk, or a text. *)
Hashes == {<<>>} \cup {<<c>> : c \in Contents}

Capture == [by : {"own", "foreign"}, hashes : Hashes]

GateSet == [produced : BOOLEAN, determinism : BOOLEAN, ignored : BOOLEAN]

VARIABLES
  foreign,       (* another engine listens on PORT                         *)
  own,           (* the process of Engine: "none", "booting", "up", "gone" *)
  phase,         (* of the probe                                           *)
  k,             (* the capture under way                                  *)
  caps,          (* the captures made: who answered, and the chunk hashes  *)
  live,          (* the captures whose pipeline exists in the engine       *)
  lost,          (* those the probe cannot or did not manage to terminate  *)
  raised,        (* an exception is on its way up                          *)
  gates,         (* of the report, if there is one                         *)
  rc             (* the exit code                                          *)

vars == <<foreign, own, phase, k, caps, live, lost, raised, gates, rc>>

NoGates == [produced |-> FALSE, determinism |-> FALSE, ignored |-> FALSE]

Init ==
  /\ foreign \in BOOLEAN /\ own = "none" /\ phase = "start" /\ k = 1
  /\ caps = <<>> /\ live = {} /\ lost = {} /\ raised = FALSE
  /\ gates = NoGates /\ rc = 1

PortOpen == foreign \/ own = "up"

-----------------------------------------------------------------------------
(* The engine                                                              *)

EngineUp ==
  /\ own = "booting" /\ ~foreign /\ own' = "up"
  /\ UNCHANGED <<foreign, phase, k, caps, live, lost, raised, gates, rc>>

(* Its pipelines go with it. *)
EngineGone ==
  /\ own' = "gone" /\ live' = IF foreign THEN live ELSE {}

EngineExits ==
  /\ own \in {"booting", "up"} /\ EngineGone
  /\ UNCHANGED <<foreign, phase, k, caps, lost, raised, gates, rc>>

-----------------------------------------------------------------------------
(* Engine.start() and the connection                                       *)

Start ==
  /\ phase = "start" /\ phase' = "boot" /\ own' = "booting"
  /\ UNCHANGED <<foreign, k, caps, live, lost, raised, gates, rc>>

Raise(next) == phase' = next /\ raised' = TRUE

(* The port is looked at before the process; after wait_s it is given up.  *)
Poll ==
  /\ phase = "boot"
  /\ \/ PortOpen /\ phase' = "connect" /\ UNCHANGED raised
     \/ ~PortOpen /\ Raise("stop")
  /\ UNCHANGED <<foreign, own, k, caps, live, lost, gates, rc>>

(* Outside the try block that disconnects. *)
Connect ==
  /\ phase = "connect"
  /\ \/ PortOpen /\ phase' = "use" /\ UNCHANGED raised
     \/ Raise("stop")
  /\ UNCHANGED <<foreign, own, k, caps, live, lost, gates, rc>>

-----------------------------------------------------------------------------
(* run_once()                                                              *)

(* The call of use() is outside the try block that terminates: when it     *)
(* raises, a pipeline it may have started is lost. *)
Use ==
  /\ phase = "use"
  /\ \/ /\ PortOpen /\ live' = live \cup {k}
        /\ \/ phase' = "send" /\ UNCHANGED <<lost, raised>>
           \/ Raise("disconnect") /\ lost' = lost \cup {k}
     \/ Raise("disconnect") /\ UNCHANGED <<live, lost>>
  /\ UNCHANGED <<foreign, own, k, caps, gates, rc>>

Send ==
  /\ phase = "send"
  /\ \/ /\ PortOpen /\ phase' = "terminate"
        /\ \E hashes \in Hashes :
             caps' = Append(caps, [by |-> IF foreign THEN "foreign" ELSE "own",
                                   hashes |-> hashes])
        /\ UNCHANGED raised
     \/ Raise("terminate") /\ UNCHANGED caps
  /\ UNCHANGED <<foreign, own, k, live, lost, gates, rc>>

(* Bug: only a capture that succeeded is terminated. *)
TerminateBug ==
  /\ phase = "terminate"
  /\ IF raised THEN UNCHANGED <<live, lost>>
     ELSE \/ PortOpen /\ live' = live \ {k} /\ UNCHANGED lost
          \/ lost' = lost \cup {k} /\ UNCHANGED live
  /\ IF raised \/ k = 4 THEN phase' = "disconnect" /\ UNCHANGED k
                        ELSE phase' = "use" /\ k' = k + 1
  /\ UNCHANGED <<foreign, own, caps, raised, gates, rc>>

(* In a finally block; an exception of terminate() is suppressed. *)
Terminate ==
  /\ phase = "terminate"
  /\ \/ PortOpen /\ live' = live \ {k} /\ UNCHANGED lost
     \/ lost' = lost \cup {k} /\ UNCHANGED live
  /\ IF raised \/ k = 4 THEN phase' = "disconnect" /\ UNCHANGED k
                        ELSE phase' = "use" /\ k' = k + 1
  /\ UNCHANGED <<foreign, own, caps, raised, gates, rc>>

Disconnect ==
  /\ phase = "disconnect" /\ phase' = IF raised THEN "stop" ELSE "report"
  /\ UNCHANGED <<foreign, own, k, caps, live, lost, raised, gates, rc>>

-----------------------------------------------------------------------------
(* The report, and Engine.stop()                                           *)

(* Bug: two runs without output agree. *)
GatesBug(c) ==
  [produced    |-> c[1].hashes # <<>> /\ c[2].hashes # <<>>,
   determinism |-> c[1].hashes = c[2].hashes,
   ignored     |-> c[1].hashes = c[3].hashes]

Gates(c) ==
  LET produced == c[1].hashes # <<>> /\ c[2].hashes # <<>>
  IN [produced    |-> produced,
      determinism |-> produced /\ c[1].hashes = c[2].hashes,
      ignored     |-> produced /\ c[3].hashes # <<>>
                      /\ c[1].hashes = c[3].hashes]

(* 0 whatever the gates say.  Writing the artefacts may raise, before the  *)
(* file with the gates or after it. *)
Report ==
  /\ phase = "report" /\ phase' = "stop"
  /\ \/ gates' = Gates(caps) /\ rc' = 0 /\ UNCHANGED raised
     \/ gates' \in {gates, Gates(caps)} /\ raised' = TRUE /\ UNCHANGED rc
  /\ UNCHANGED <<foreign, own, k, caps, live, lost>>

(* SIGTERM to the process group. *)
Stop ==
  /\ phase = "stop" /\ phase' = "wait"
  /\ EngineGone \/ UNCHANGED <<own, live>>
  /\ UNCHANGED <<foreign, k, caps, lost, raised, gates, rc>>

(* After at most 20 seconds, SIGKILL if it has not exited. *)
Kill ==
  /\ phase = "wait" /\ phase' = "exited"
  /\ IF own = "gone" THEN UNCHANGED <<own, live>> ELSE EngineGone
  /\ UNCHANGED <<foreign, k, caps, lost, raised, gates, rc>>

Next ==
  \/ EngineUp \/ EngineExits \/ Start \/ Poll \/ Connect
  \/ Use \/ Send \/ Terminate \/ Disconnect \/ Report \/ Stop \/ Kill

Spec == Init /\ [][Next]_vars

-----------------------------------------------------------------------------

TypeOK ==
  /\ foreign \in BOOLEAN /\ raised \in BOOLEAN /\ rc \in {0, 1}
  /\ own \in {"none", "booting", "up", "gone"}
  /\ phase \in {"start", "boot", "connect", "use", "send", "terminate",
                "disconnect", "report", "stop", "wait", "exited"}
  /\ k \in Captures /\ live \subseteq Captures /\ lost \subseteq Captures
  /\ caps \in Seq(Capture)
  /\ gates \in GateSet

(* "then tears the engine down" (run_probe.py:4-5): there is one pipeline  *)
(* at a time, besides those that could not be terminated; and when the     *)
(* probe exits, by whatever way, its engine is gone, and a pipeline is     *)
(* left only in another engine that held the port, which it never stops. *)
TornDown ==
  /\ live \subseteq lost \cup
       (IF phase \in {"send", "terminate"} THEN {k} ELSE {})
  /\ phase = "exited" => own = "gone" /\ (live # {} => foreign)

(* "otherwise two failed runs would `agree'" (run_probe.py:318-319): an    *)
(* exit code 0, or a report that passes a gate, means four captures, all   *)
(* of one engine, the probe's own unless the port was taken; the           *)
(* determinism gate means that the first two had output, the same; and a   *)
(* field counts as ignored only against a determinism that had something   *)
(* to compare.  No exception ends in exit code 0. *)
GatesHonest ==
  /\ rc = 0 => ~raised
  /\ rc = 0 \/ gates # NoGates =>
       /\ Len(caps) = 4
       /\ \A i \in Captures : caps[i].by = IF foreign THEN "foreign" ELSE "own"
  /\ gates.determinism =>
       \E c \in Contents : caps[1].hashes = <<c>> /\ caps[2].hashes = <<c>>
  /\ gates.ignored =>
       /\ \A i \in 1..3 : caps[i].hashes # <<>>
       /\ gates.determinism <=> caps[2].hashes = caps[3].hashes

(* The inductive invariant, in parts.                                      *)

(* A pipeline lives in an engine that runs, and only while run_once() is   *)
(* at it or after terminate() has failed; the probe's own engine does not  *)
(* come up beside another, and is gone when the probe exits.               *)
EngineInv ==
  /\ live \subseteq lost \cup
       (IF phase \in {"send", "terminate"} THEN {k} ELSE {})
  /\ live # {} => PortOpen
  /\ phase = "start" => own = "none"
  /\ own = "up" => ~foreign
  /\ phase = "exited" => own = "gone"

(* As many captures as the probe has come through, each of the engine at   *)
(* the port; an exception leads past the report; and a report holds the    *)
(* gates of the four captures.                                             *)
CaptureInv ==
  /\ \A i \in DOMAIN caps : caps[i].by = IF foreign THEN "foreign" ELSE "own"
  /\ phase \in {"start", "boot", "connect"} => k = 1 /\ Len(caps) = 0
  /\ phase \in {"start", "boot", "connect", "use", "send", "report"} => ~raised
  /\ phase \in {"use", "send"} => Len(caps) = k - 1
  /\ phase = "terminate" /\ ~raised => Len(caps) = k
  /\ phase \in {"disconnect", "report"} /\ ~raised => Len(caps) = 4
  /\ rc = 0 \/ gates # NoGates => /\ phase \in {"stop", "wait", "exited"}
                                  /\ Len(caps) = 4 /\ gates = Gates(caps)
  /\ rc = 0 => ~raised /\ gates = Gates(caps)

IInv == TypeOK /\ EngineInv /\ CaptureInv
=============================================================================
