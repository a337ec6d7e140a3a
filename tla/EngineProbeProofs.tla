-------------------------- MODULE EngineProbeProofs --------------------------
(***************************************************************************)
(* Proofs about EngineProbe, for whatever the captures come back with, and *)
(* an engine that exits, raises or ignores the probe at any time.          *)
(***************************************************************************)
EXTENDS EngineProbe, SequenceTheorems, TLAPS

LEMMA InitIInv == Init => IInv
<1> SUFFICES ASSUME Init
             PROVE  IInv
  OBVIOUS
<1>1. caps \in Seq(Capture) /\ Len(caps) = 0 /\ DOMAIN caps = {}
  BY EmptySeq, LenProperties DEF Init
<1>2. TypeOK
  <2>1. gates \in GateSet
    BY DEF Init, NoGates, GateSet
  <2>2. foreign \in BOOLEAN /\ raised \in BOOLEAN /\ rc \in {0, 1}
    BY DEF Init
  <2>3. k \in Captures
    BY DEF Init, Captures
  <2> QED
    BY <1>1, <2>1, <2>2, <2>3 DEF Init, TypeOK
<1>3. EngineInv /\ CaptureInv
  BY <1>1 DEF Init, EngineInv, CaptureInv
<1> QED
  BY <1>2, <1>3 DEF IInv

-----------------------------------------------------------------------------
(* The engine and its pipelines                                            *)

(* The engine comes up only at a free port, and takes its pipelines along  *)
(* when it goes; a call starts or ends one only where an engine listens.   *)
LEMMA NextEngine == EngineInv /\ [Next]_vars => EngineInv'
<1> SUFFICES ASSUME EngineInv, [Next]_vars
             PROVE  EngineInv'
  OBVIOUS
<1> USE DEF EngineInv, PortOpen
<1>1. CASE EngineUp
  BY <1>1 DEF EngineUp
<1>2. CASE EngineExits
  BY <1>2 DEF EngineExits, EngineGone
<1>3. CASE Start
  BY <1>3 DEF Start
<1>4. CASE Poll \/ Connect
  BY <1>4 DEF Poll, Connect, Raise
<1>5. CASE Use
  BY <1>5 DEF Use, Raise
<1>6. CASE Send
  BY <1>6 DEF Send, Raise
<1>7. CASE Terminate
  BY <1>7 DEF Terminate
<1>8. CASE Disconnect \/ Report
  BY <1>8 DEF Disconnect, Report
<1>9. CASE Stop
  BY <1>9 DEF Stop, EngineGone
<1>10. CASE Kill
  BY <1>10 DEF Kill, EngineGone
<1>11. CASE UNCHANGED vars
  BY <1>11 DEF vars
<1> QED
  BY <1>1, <1>2, <1>3, <1>4, <1>5, <1>6, <1>7, <1>8, <1>9, <1>10, <1>11
  DEF Next

-----------------------------------------------------------------------------
(* The captures and the gates                                              *)

LEMMA NewCapture ==
  ASSUME TypeOK, NEW c \in Capture, caps' = Append(caps, c)
  PROVE  /\ caps' \in Seq(Capture) /\ Len(caps) \in Nat
         /\ Len(caps') = Len(caps) + 1
         /\ \A i \in DOMAIN caps' :
              \/ i \in DOMAIN caps /\ caps'[i] = caps[i]
              \/ caps'[i] = c
<1>1. caps \in Seq(Capture)
  BY DEF TypeOK
<1>2. /\ Len(caps) \in Nat /\ DOMAIN caps = 1..Len(caps)
      /\ caps' \in Seq(Capture) /\ Len(caps') = Len(caps) + 1
      /\ \A i \in 1..Len(caps) : caps'[i] = caps[i]
      /\ caps'[Len(caps) + 1] = c
  BY <1>1, AppendProperties, LenProperties
<1>3. DOMAIN caps' = 1..(Len(caps) + 1)
  BY <1>2, LenProperties
<1> QED
  BY <1>2, <1>3

LEMMA GatesType == Gates(caps) \in GateSet
BY DEF Gates, GateSet

LEMMA NextType == TypeOK /\ [Next]_vars => TypeOK'
<1> SUFFICES ASSUME TypeOK, [Next]_vars
             PROVE  TypeOK'
  OBVIOUS
<1>1. CASE EngineUp \/ EngineExits
  BY <1>1 DEF TypeOK, EngineUp, EngineExits, EngineGone
<1>2. CASE Start \/ Poll \/ Connect
  BY <1>2 DEF TypeOK, Start, Poll, Connect, Raise
<1>3. CASE Use
  BY <1>3 DEF TypeOK, Use, Raise
<1>4. CASE Send
  <2>1. CASE UNCHANGED caps
    BY <1>4, <2>1 DEF TypeOK, Send, Raise
  <2>2. CASE \E hashes \in Hashes :
               caps' = Append(caps, [by |-> IF foreign THEN "foreign" ELSE "own",
                                     hashes |-> hashes])
    <3>1. PICK c \in Capture : caps' = Append(caps, c)
      BY <2>2 DEF Capture
    <3>2. caps' \in Seq(Capture)
      BY <3>1, NewCapture
    <3> QED
      BY <1>4, <3>2 DEF TypeOK, Send, Raise
  <2> QED
    BY <1>4, <2>1, <2>2 DEF Send
<1>5. CASE Terminate
  <2>1. k' \in Captures /\ k \in Captures
    BY <1>5 DEF TypeOK, Terminate, Captures
  <2> QED
    BY <1>5, <2>1 DEF TypeOK, Terminate
<1>6. CASE Disconnect
  BY <1>6 DEF TypeOK, Disconnect
<1>7. CASE Report
  BY <1>7, GatesType DEF TypeOK, Report
<1>8. CASE Stop \/ Kill
  BY <1>8 DEF TypeOK, Stop, Kill, EngineGone
<1>9. CASE UNCHANGED vars
  BY <1>9 DEF TypeOK, vars
<1> QED
  BY <1>1, <1>2, <1>3, <1>4, <1>5, <1>6, <1>7, <1>8, <1>9 DEF Next

LEMMA NextCapture == TypeOK /\ CaptureInv /\ [Next]_vars => CaptureInv'
<1> SUFFICES ASSUME TypeOK, CaptureInv, [Next]_vars
             PROVE  CaptureInv'
  OBVIOUS
<1>1. CASE EngineUp \/ EngineExits \/ UNCHANGED vars
  BY <1>1 DEF CaptureInv, EngineUp, EngineExits, vars
<1>2. CASE Start \/ Poll \/ Connect
  BY <1>2 DEF TypeOK, CaptureInv, Start, Poll, Connect, Raise
<1>3. CASE Use
  BY <1>3 DEF TypeOK, CaptureInv, Use, Raise
<1>4. CASE Send
  <2>1. CASE Raise("terminate") /\ UNCHANGED caps
    BY <1>4, <2>1 DEF TypeOK, CaptureInv, Send, Raise
  <2>2. CASE /\ phase' = "terminate" /\ UNCHANGED raised
             /\ \E hashes \in Hashes :
                  caps' = Append(caps, [by |-> IF foreign THEN "foreign" ELSE "own",
                                        hashes |-> hashes])
    <3>1. PICK c \in Capture : /\ caps' = Append(caps, c)
                               /\ c.by = IF foreign THEN "foreign" ELSE "own"
      BY <2>2 DEF Capture
    <3>2. /\ Len(caps) \in Nat /\ Len(caps') = Len(caps) + 1
          /\ \A i \in DOMAIN caps' :
               \/ i \in DOMAIN caps /\ caps'[i] = caps[i]
               \/ caps'[i] = c
      BY <3>1, NewCapture
    <3>3. /\ phase = "send"
          /\ UNCHANGED <<foreign, k, gates, rc>>
      BY <1>4 DEF Send
    <3>4. \A i \in DOMAIN caps' :
            caps'[i].by = IF foreign' THEN "foreign" ELSE "own"
      BY <3>1, <3>2, <3>3 DEF CaptureInv
    <3>5. Len(caps') = k' /\ rc' = 1 /\ gates' = NoGates
      <4>1. Len(caps) = k - 1 /\ k \in 1..4 /\ rc = 1 /\ gates = NoGates
        BY <3>3 DEF CaptureInv, TypeOK, Captures
      <4> QED
        BY <3>2, <3>3, <4>1
    <3> QED
      BY <2>2, <3>4, <3>5 DEF CaptureInv
  <2> QED
    BY <1>4, <2>1, <2>2 DEF Send
<1>5. CASE Terminate
  <2>1. k \in 1..4 /\ rc \in {0, 1} /\ rc' = rc /\ phase = "terminate"
    BY <1>5 DEF TypeOK, Terminate, Captures
  <2>2. rc = 1 /\ gates' = NoGates
    BY <1>5, <2>1 DEF CaptureInv, Terminate
  <2>3. CASE raised
    BY <1>5, <2>1, <2>2, <2>3 DEF CaptureInv, Terminate
  <2>4. CASE ~raised /\ k = 4
    BY <1>5, <2>1, <2>2, <2>4 DEF CaptureInv, Terminate
  <2>5. CASE ~raised /\ k # 4
    BY <1>5, <2>1, <2>2, <2>5 DEF CaptureInv, Terminate
  <2> QED
    BY <2>3, <2>4, <2>5
<1>6. CASE Disconnect
  BY <1>6 DEF TypeOK, CaptureInv, Disconnect
<1>7. CASE Report
  BY <1>7 DEF TypeOK, CaptureInv, Report
<1>8. CASE Stop \/ Kill
  BY <1>8 DEF TypeOK, CaptureInv, Stop, Kill
<1> QED
  BY <1>1, <1>2, <1>3, <1>4, <1>5, <1>6, <1>7, <1>8 DEF Next

-----------------------------------------------------------------------------
(* The theorems                                                            *)

(* The invariant holds at every exception and exit of the engine.          *)
THEOREM ProbeInvariant == Spec => []IInv
<1>1. IInv /\ [Next]_vars => IInv'
  BY NextType, NextEngine, NextCapture DEF IInv
<1> QED
  BY InitIInv, <1>1, PTL DEF Spec

(* "then tears the engine down" (run_probe.py:4-5): whichever way the      *)
(* probe exits, its engine is gone and no pipeline is left in it.          *)
THEOREM ProbeTornDown == Spec => []TornDown
<1>1. IInv => TornDown
  BY DEF IInv, EngineInv, TornDown, PortOpen
<1> QED
  BY <1>1, ProbeInvariant, PTL

(* "otherwise two failed runs would `agree'" (run_probe.py:318-319): the   *)
(* exit code and the gates mean what they say.                             *)
THEOREM ProbeGates == Spec => []GatesHonest
<1>1. IInv => GatesHonest
  <2> SUFFICES ASSUME IInv
               PROVE  GatesHonest
    OBVIOUS
  <2> DEFINE Reported == rc = 0 \/ gates # NoGates
  <2>1. /\ Reported => Len(caps) = 4 /\ gates = Gates(caps)
        /\ rc = 0 => ~raised
    BY DEF IInv, CaptureInv
  <2>2. Reported =>
          /\ gates.determinism <=>
               /\ caps[1].hashes # <<>> /\ caps[2].hashes # <<>>
               /\ caps[1].hashes = caps[2].hashes
          /\ gates.ignored <=>
               /\ caps[1].hashes # <<>> /\ caps[2].hashes # <<>>
               /\ caps[3].hashes # <<>> /\ caps[1].hashes = caps[3].hashes
    <3>1. /\ Gates(caps).determinism <=>
               /\ caps[1].hashes # <<>> /\ caps[2].hashes # <<>>
               /\ caps[1].hashes = caps[2].hashes
          /\ Gates(caps).ignored <=>
               /\ caps[1].hashes # <<>> /\ caps[2].hashes # <<>>
               /\ caps[3].hashes # <<>> /\ caps[1].hashes = caps[3].hashes
      BY DEF Gates
    <3> QED
      BY <2>1, <3>1
  <2>3. CASE ~Reported
    BY <2>1, <2>3 DEF GatesHonest, NoGates
  <2>4. CASE Reported
    <3>1. DOMAIN caps = 1..4 /\ \A i \in 1..4 : caps[i].hashes \in Hashes
      <4>1. caps \in Seq(Capture) /\ Len(caps) = 4
        BY <2>1, <2>4 DEF IInv, TypeOK
      <4>2. DOMAIN caps = 1..4 /\ \A i \in 1..4 : caps[i] \in Capture
        BY <4>1, LenProperties, ElementOfSeq
      <4> QED
        BY <4>2 DEF Capture
    <3>2. \A i \in Captures : caps[i].by = IF foreign THEN "foreign" ELSE "own"
      BY <3>1 DEF IInv, CaptureInv, Captures
    <3>3. gates.determinism =>
            \E c \in Contents : caps[1].hashes = <<c>> /\ caps[2].hashes = <<c>>
      <4>1. gates.determinism =>
              /\ caps[1].hashes # <<>> /\ caps[1].hashes = caps[2].hashes
        BY <2>2, <2>4
      <4>2. caps[1].hashes \in Hashes
        BY <3>1
      <4> QED
        BY <4>1, <4>2 DEF Hashes
    <3>4. gates.ignored =>
            /\ \A i \in 1..3 : caps[i].hashes # <<>>
            /\ gates.determinism <=> caps[2].hashes = caps[3].hashes
      <4>1. gates.ignored =>
              /\ caps[1].hashes # <<>> /\ caps[2].hashes # <<>>
              /\ caps[3].hashes # <<>> /\ caps[1].hashes = caps[3].hashes
        BY <2>2, <2>4
      <4>2. gates.ignored =>
              (gates.determinism <=> caps[1].hashes = caps[2].hashes)
        BY <2>2, <2>4
      <4>3. \A i \in 1..3 : i = 1 \/ i = 2 \/ i = 3
        OBVIOUS
      <4>4. ASSUME gates.ignored
            PROVE  gates.determinism <=> caps[2].hashes = caps[3].hashes
        BY <4>1, <4>2, <4>4
      <4> QED
        BY <4>1, <4>3, <4>4
    <3> QED
      BY <2>1, <2>4, <3>2, <3>3, <3>4 DEF GatesHonest
  <2> QED
    BY <2>3, <2>4
<1> QED
  BY <1>1, ProbeInvariant, PTL

-----------------------------------------------------------------------------
(* The probe ends                                                          *)

(* The phases that lie ahead, each capture with its three, and what may    *)
(* still become of the engine. *)
PhasesAhead ==
  CASE phase = "start"      -> 19
    [] phase = "boot"       -> 18
    [] phase = "connect"    -> 17
    [] phase = "use"        -> 19 - 3 * k
    [] phase = "send"       -> 18 - 3 * k
    [] phase = "terminate"  -> 17 - 3 * k
    [] phase = "disconnect" -> 4
    [] phase = "report"     -> 3
    [] phase = "stop"       -> 2
    [] phase = "wait"       -> 1
    [] phase = "exited"     -> 0

EngineAhead ==
  CASE own = "none" -> 3 [] own = "booting" -> 2 [] own = "up" -> 1
    [] own = "gone" -> 0

StepsLeft == PhasesAhead + EngineAhead

LEMMA EitherFalls ==
  \A p, q, e \in Nat : q < p => q + e < p + e /\ e + q < e + p
OBVIOUS

LEMMA StepsLeftNat == TypeOK => PhasesAhead \in 0..19 /\ EngineAhead \in 0..3
BY DEF TypeOK, PhasesAhead, EngineAhead, Captures

(* "then tears the engine down" (run_probe.py:4-5) cannot be put off: no   *)
(* exception, no exit of the engine and no other engine at the port makes  *)
(* the probe repeat a phase, so that it exits after 22 steps at most, its  *)
(* engine's own included. *)
THEOREM ProbeSteps ==
  Spec => [](StepsLeft \in 0..22) /\ [][StepsLeft' < StepsLeft]_vars
<1>1. IInv => StepsLeft \in 0..22
  BY StepsLeftNat DEF IInv, StepsLeft
<1>2. IInv /\ IInv' /\ [Next]_vars => [StepsLeft' < StepsLeft]_vars
  <2> SUFFICES ASSUME IInv, IInv', Next
               PROVE  StepsLeft' < StepsLeft
    OBVIOUS
  <2>0. /\ StepsLeft = PhasesAhead + EngineAhead
        /\ StepsLeft' = PhasesAhead' + EngineAhead'
    BY DEF StepsLeft
  <2>1. /\ PhasesAhead \in Nat /\ PhasesAhead' \in Nat
        /\ EngineAhead \in Nat /\ EngineAhead' \in Nat
        /\ k \in 1..4
    <3>1. k \in 1..4 /\ k' \in 1..4
      BY DEF IInv, TypeOK, Captures
    <3>2. PhasesAhead \in Nat /\ EngineAhead \in Nat
      BY StepsLeftNat DEF IInv
    <3>3. PhasesAhead' \in Nat
      BY <3>1 DEF IInv, TypeOK, PhasesAhead
    <3>4. EngineAhead' \in Nat
      BY DEF IInv, TypeOK, EngineAhead
    <3> QED
      BY <3>1, <3>2, <3>3, <3>4
  <2>2. CASE own' = own /\ PhasesAhead' < PhasesAhead
    <3>1. EngineAhead' = EngineAhead
      BY <2>2 DEF EngineAhead
    <3>2. PhasesAhead' + EngineAhead < PhasesAhead + EngineAhead
      BY <2>1, <2>2, EitherFalls
    <3> QED
      BY <2>0, <3>1, <3>2
  <2>3. ASSUME EngineUp \/ EngineExits
        PROVE  StepsLeft' < StepsLeft
    <3>1. /\ phase' = phase /\ k' = k
          /\ \/ own = "booting" /\ own' \in {"up", "gone"}
             \/ own = "up" /\ own' = "gone"
      BY <2>3 DEF EngineUp, EngineExits, EngineGone
    <3>2. PhasesAhead' = PhasesAhead
      BY <3>1 DEF PhasesAhead
    <3>3. EngineAhead' < EngineAhead
      BY <3>1 DEF EngineAhead
    <3>4. PhasesAhead + EngineAhead' < PhasesAhead + EngineAhead
      BY <2>1, <3>3, EitherFalls
    <3> QED
      BY <2>0, <3>2, <3>4
  <2>4. ASSUME Start
        PROVE  StepsLeft' < StepsLeft
    BY <2>4, <2>1 DEF Start, StepsLeft, EngineAhead, PhasesAhead, IInv, EngineInv
  <2>5. ASSUME Poll \/ Connect
        PROVE  StepsLeft' < StepsLeft
    <3>1. CASE Poll
      BY <3>1, <2>2 DEF Poll, Raise, PhasesAhead
    <3>2. CASE Connect
      BY <3>2, <2>2 DEF Connect, Raise, PhasesAhead, IInv, CaptureInv
    <3> QED
      BY <2>5, <3>1, <3>2
  <2>6. ASSUME Use \/ Send
        PROVE  StepsLeft' < StepsLeft
    <3>1. own' = own /\ k' = k
      BY <2>6 DEF Use, Send
    <3>2. \/ phase = "use" /\ phase' \in {"send", "disconnect"}
          \/ phase = "send" /\ phase' = "terminate"
      BY <2>6 DEF Use, Send, Raise
    <3>3. PhasesAhead' < PhasesAhead
      BY <2>1, <3>1, <3>2 DEF PhasesAhead
    <3> QED
      BY <2>2, <3>1, <3>3
  <2>7. ASSUME Terminate
        PROVE  StepsLeft' < StepsLeft
    <3>1. /\ own' = own /\ phase = "terminate"
          /\ \/ phase' = "disconnect" /\ k' = k
             \/ phase' = "use" /\ k' = k + 1
      BY <2>7 DEF Terminate
    <3>2. PhasesAhead' < PhasesAhead
      BY <2>1, <3>1 DEF PhasesAhead
    <3> QED
      BY <2>2, <3>1, <3>2
  <2>8. ASSUME Disconnect \/ Report
        PROVE  StepsLeft' < StepsLeft
    BY <2>8, <2>2 DEF Disconnect, Report, PhasesAhead
  <2>9. ASSUME Stop \/ Kill
        PROVE  StepsLeft' < StepsLeft
    BY <2>9, <2>1 DEF Stop, Kill, EngineGone, StepsLeft, EngineAhead, PhasesAhead,
       IInv, TypeOK
  <2> QED
    BY <2>3, <2>4, <2>5, <2>6, <2>7, <2>8, <2>9 DEF Next
<1> QED
  BY <1>1, <1>2, ProbeInvariant, PTL DEF Spec
=============================================================================
