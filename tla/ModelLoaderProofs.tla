-------------------------- MODULE ModelLoaderProofs --------------------------
(***************************************************************************)
(* For any set of threads and any number of calls: load_model builds at    *)
(* most one model, everybody gets it, and it is never replaced.            *)
(***************************************************************************)
EXTENDS ModelLoader, TLAPS

(* Nobody is in load_model and nothing is built at the start. *)
LEMMA InitIInv == Init => IInv
  BY LoaderAssumption DEF Init, IInv, TypeOK, LockInv, None

(* Every step of every thread keeps the lock's owner and its critical      *)
(* section in agreement, and the model as it is once there.                *)
LEMMA NextIInv == IInv /\ [Next]_vars => IInv' /\ (model # None => model' = model)
<1> SUFFICES ASSUME IInv, [Next]_vars
             PROVE  IInv' /\ (model # None => model' = model)
  OBVIOUS
<1> USE DEF IInv, TypeOK, LockInv, None, Goto
<1>1. ASSUME NEW t \in Threads, Call(t)
      PROVE  IInv' /\ (model # None => model' = model)
  BY <1>1, LoaderAssumption DEF Call
<1>2. ASSUME NEW t \in Threads, Acquire(t)
      PROVE  IInv' /\ (model # None => model' = model)
  BY <1>2 DEF Acquire
<1>3. ASSUME NEW t \in Threads, Recheck(t)
      PROVE  IInv' /\ (model # None => model' = model)
  <2>1. CASE model = None
    BY <1>3, <2>1 DEF Recheck
  <2>2. CASE model # None
    <3>1. lock = {t} /\ lock' = {} /\ pc' = [pc EXCEPT ![t] = "return"]
      BY <1>3, <2>2 DEF Recheck
    <3>2. UNCHANGED <<model, built, result, calls>>
      BY <1>3, <2>2 DEF Recheck
    <3>3. \A u \in Threads :
            pc'[u] \in {"idle", "acquire", "return"} /\ lock' # {u}
      BY <3>1
    <3>4. TypeOK'
      BY <3>1, <3>2
    <3>5. \A u \in Threads : pc'[u] \in {"release", "return"} => model' # None
      BY <2>2, <3>2
    <3> QED
      BY <3>1, <3>2, <3>3, <3>4, <3>5
  <2> QED
    BY <2>1, <2>2
<1>4. ASSUME NEW t \in Threads, Construct(t)
      PROVE  IInv' /\ (model # None => model' = model)
  BY <1>4 DEF Construct
<1>5. ASSUME NEW t \in Threads, ConstructFails(t)
      PROVE  IInv' /\ (model # None => model' = model)
  BY <1>5 DEF ConstructFails
<1>6. ASSUME NEW t \in Threads, Release(t)
      PROVE  IInv' /\ (model # None => model' = model)
  BY <1>6 DEF Release
<1>7. ASSUME NEW t \in Threads, Return(t)
      PROVE  IInv' /\ (model # None => model' = model)
  BY <1>7 DEF Return
<1>8. CASE UNCHANGED vars
  BY <1>8 DEF vars
<1> QED
  BY <1>1, <1>2, <1>3, <1>4, <1>5, <1>6, <1>7, <1>8 DEF Next, InCall

(* The lock's owner is the thread in the critical section, a constructor   *)
(* runs alone and only while there is no model, and whoever returns finds  *)
(* one: in every reachable state.                                          *)
THEOREM LoaderInvariant == Spec => []IInv
<1>1. IInv /\ [Next]_vars => IInv'
  BY NextIInv
<1> QED
  BY InitIInv, <1>1, PTL DEF Spec

(* At most one model is ever built and every caller shares it, whichever   *)
(* constructors failed before.                                             *)
THEOREM LoaderOneModel == Spec => []OneModel
<1>1. IInv => OneModel
  BY DEF IInv, TypeOK, LockInv, OneModel, None
<1> QED
  BY LoaderInvariant, <1>1, PTL

(* A loaded model stays. *)
THEOREM LoaderModelStays == Spec => ModelStays
<1>1. IInv /\ [Next]_vars => [model # None => model' = model]_vars
  BY NextIInv
<1> QED
  BY LoaderInvariant, <1>1, PTL DEF Spec, ModelStays

(* The steps a thread has before it in its call, and with the calls it may *)
(* still make.                                                             *)
CallLeft(there) ==
  CASE there = "acquire"   -> 5
    [] there = "recheck"   -> 4
    [] there = "construct" -> 3
    [] there = "release"   -> 2
    [] there = "return"    -> 1
    [] there = "idle"      -> 0

Left(c, there) == 6 * (MaxCalls - c) + CallLeft(there)

StepsLeft(t) == Left(calls[t], pc[t])

(* Who waits for the lock can have it, or waits for a thread whose next    *)
(* step asks for nothing. *)
NobodyStuck ==
  \A t \in Threads : pc[t] = "acquire" =>
    \/ lock = {}
    \/ \E u \in Threads : lock = {u} /\ pc[u] \in {"recheck", "construct", "release"}

LEMMA OneStep ==
  ASSUME IInv, NEW t \in Threads, Call(t) \/ InCall(t)
  PROVE  /\ StepsLeft(t)' < StepsLeft(t)
         /\ \A u \in Threads \ {t} : StepsLeft(u)' = StepsLeft(u)
<1>0. /\ calls[t] \in Nat /\ calls[t] <= MaxCalls /\ MaxCalls \in Nat
      /\ calls \in [Threads -> 0..MaxCalls]
      /\ pc \in [Threads -> {"idle", "acquire", "recheck", "construct", "release", "return"}]
  BY LoaderAssumption DEF IInv, TypeOK
<1>1. CASE Call(t)
  <2>1. PICK there \in {"acquire", "return"} : pc' = [pc EXCEPT ![t] = there]
    BY <1>1 DEF Call, Goto
  <2>2. calls' = [calls EXCEPT ![t] = calls[t] + 1] /\ calls[t] < MaxCalls /\ pc[t] = "idle"
    BY <1>1 DEF Call
  <2>3. calls'[t] = calls[t] + 1 /\ pc'[t] = there
    BY <1>0, <2>1, <2>2
  <2>4. \A u \in Threads \ {t} : calls'[u] = calls[u] /\ pc'[u] = pc[u]
    BY <1>0, <2>1, <2>2
  <2>5. Left(calls[t] + 1, there) < Left(calls[t], "idle")
    BY <1>0, <2>1, <2>2 DEF Left, CallLeft
  <2> QED
    BY <2>2, <2>3, <2>4, <2>5 DEF StepsLeft
<1>2. CASE InCall(t)
  <2> DEFINE Moves(there) ==
               \/ pc[t] = "acquire" /\ there = "recheck"
               \/ pc[t] = "recheck" /\ there \in {"construct", "return"}
               \/ pc[t] = "construct" /\ there \in {"release", "idle"}
               \/ pc[t] = "release" /\ there = "return"
               \/ pc[t] = "return" /\ there = "idle"
  <2>0. PICK there : /\ pc' = [pc EXCEPT ![t] = there] /\ calls' = calls
                     /\ Moves(there)
    <3>1. CASE Recheck(t)
      <4>1. calls' = calls /\ pc[t] = "recheck"
        BY <3>1 DEF Recheck
      <4>2. CASE pc' = [pc EXCEPT ![t] = "construct"]
        BY <4>1, <4>2
      <4>3. CASE pc' = [pc EXCEPT ![t] = "return"]
        BY <4>1, <4>3
      <4> QED
        BY <3>1, <4>2, <4>3 DEF Recheck, Goto
    <3>2. CASE Acquire(t)
      BY <3>2, Zenon DEF Acquire, Goto
    <3>3. CASE Construct(t)
      BY <3>3, Zenon DEF Construct, Goto
    <3>4. CASE ConstructFails(t)
      BY <3>4, Zenon DEF ConstructFails, Goto
    <3>5. CASE Release(t)
      BY <3>5, Zenon DEF Release, Goto
    <3>6. CASE Return(t)
      BY <3>6, Zenon DEF Return, Goto
    <3> QED
      BY <1>2, <3>1, <3>2, <3>3, <3>4, <3>5, <3>6 DEF InCall
  <2>1. /\ CallLeft(there) \in Nat /\ CallLeft(pc[t]) \in Nat
        /\ CallLeft(there) < CallLeft(pc[t])
    BY <2>0 DEF CallLeft
  <2>2. pc'[t] = there /\ \A u \in Threads \ {t} : pc'[u] = pc[u]
    BY <1>0, <2>0
  <2>3. Left(calls[t], there) < Left(calls[t], pc[t])
    BY <1>0, <2>1 DEF Left
  <2> QED
    BY <2>0, <2>2, <2>3 DEF StepsLeft
<1> QED
  BY <1>1, <1>2

(* No step of another thread sets a call of load_model back, each of its   *)
(* own brings it nearer to its end, and nobody waits for a lock that is    *)
(* not about to be released.  That is what EveryLoadEnds rests on besides  *)
(* the scheduler.                                                          *)
THEOREM LoaderSteps ==
  Spec => /\ [](\A t \in Threads : StepsLeft(t) \in Nat)
          /\ []NobodyStuck
          /\ [][\E t \in Threads :
                   /\ StepsLeft(t)' < StepsLeft(t)
                   /\ \A u \in Threads \ {t} : StepsLeft(u)' = StepsLeft(u)]_vars
<1>1. IInv => \A t \in Threads : StepsLeft(t) \in Nat
  <2> SUFFICES ASSUME IInv, NEW t \in Threads
               PROVE  StepsLeft(t) \in Nat
    OBVIOUS
  <2>1. calls[t] \in Nat /\ calls[t] <= MaxCalls /\ MaxCalls \in Nat
    BY LoaderAssumption DEF IInv, TypeOK
  <2>2. CallLeft(pc[t]) \in Nat
    BY DEF IInv, TypeOK, CallLeft
  <2> QED
    BY <2>1, <2>2 DEF StepsLeft, Left
<1>2. IInv => NobodyStuck
  BY DEF IInv, LockInv, NobodyStuck
<1>3. IInv /\ [Next]_vars
        => [\E t \in Threads :
              /\ StepsLeft(t)' < StepsLeft(t)
              /\ \A u \in Threads \ {t} : StepsLeft(u)' = StepsLeft(u)]_vars
  BY OneStep DEF Next
<1> QED
  BY <1>1, <1>2, <1>3, LoaderInvariant, PTL DEF Spec
=============================================================================
