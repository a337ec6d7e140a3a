----------------------------- MODULE ModelLoader -----------------------------
(***************************************************************************)
(* workload/document/embed.py, load_model(): the double-checked lock that  *)
(* lets several pipelines share one embedding model.  It is called by the  *)
(* warmup on the event loop and by the embed node on any executor thread;  *)
(* a step is one read or write of _model, or one operation on _lock.  The  *)
(* constructor may raise (a cache miss under HF_HUB_OFFLINE): the with     *)
(* statement releases the lock and _model stays None.                      *)
(***************************************************************************)
EXTENDS Naturals

CONSTANTS
  Threads,       (* threads that may call load_model                       *)
  MaxCalls       (* bound on the calls of one thread                       *)

ASSUME LoaderAssumption == MaxCalls \in Nat

VARIABLES
  model,         (* _model: 0 for None, else the number of the instance    *)
  lock,          (* who holds _lock: a set of at most one thread           *)
  built,         (* instances constructed so far                           *)
  pc,            (* where each thread stands in load_model                 *)
  result,        (* what its last call returned, 0 when it raised          *)
  calls          (* calls it has made                                      *)

vars == <<model, lock, built, pc, result, calls>>

None == 0

Init ==
  /\ model = None
  /\ lock = {}
  /\ built = 0
  /\ pc = [t \in Threads |-> "idle"]
  /\ result = [t \in Threads |-> None]
  /\ calls = [t \in Threads |-> 0]

Goto(t, there) == pc' = [pc EXCEPT ![t] = there]

(* The first, unlocked test of _model. *)
Call(t) ==
  /\ pc[t] = "idle"
  /\ calls[t] < MaxCalls
  /\ calls' = [calls EXCEPT ![t] = @ + 1]
  /\ Goto(t, IF model = None THEN "acquire" ELSE "return")
  /\ UNCHANGED <<model, lock, built, result>>

Acquire(t) ==
  /\ pc[t] = "acquire"
  /\ lock = {}
  /\ lock' = {t}
  /\ Goto(t, "recheck")
  /\ UNCHANGED <<model, built, result, calls>>

(* Bug: the test is not repeated under the lock. *)
RecheckBug(t) ==
  /\ pc[t] = "recheck"
  /\ Goto(t, "construct")
  /\ UNCHANGED <<model, lock, built, result, calls>>

(* The second test, under the lock; when it finds a model, the with        *)
(* statement is left.                                                      *)
Recheck(t) ==
  /\ pc[t] = "recheck"
  /\ \/ model = None /\ Goto(t, "construct") /\ UNCHANGED lock
     \/ model # None /\ Goto(t, "return") /\ lock' = lock \ {t}
  /\ UNCHANGED <<model, built, result, calls>>

(* The constructor returns and the instance is published. *)
Construct(t) ==
  /\ pc[t] = "construct"
  /\ built' = built + 1
  /\ model' = built + 1
  /\ Goto(t, "release")
  /\ UNCHANGED <<lock, result, calls>>

(* Bug: the lock is taken by hand and not released by the exception. *)
ConstructFailsBug(t) ==
  /\ pc[t] = "construct"
  /\ Goto(t, "idle")
  /\ result' = [result EXCEPT ![t] = None]
  /\ UNCHANGED <<model, lock, built, calls>>

(* The constructor raises and the exception leaves load_model. *)
ConstructFails(t) ==
  /\ pc[t] = "construct"
  /\ lock' = lock \ {t}
  /\ Goto(t, "idle")
  /\ result' = [result EXCEPT ![t] = None]
  /\ UNCHANGED <<model, built, calls>>

Release(t) ==
  /\ pc[t] = "release"
  /\ lock' = lock \ {t}
  /\ Goto(t, "return")
  /\ UNCHANGED <<model, built, result, calls>>

(* return _model: the global is read again. *)
Return(t) ==
  /\ pc[t] = "return"
  /\ result' = [result EXCEPT ![t] = model]
  /\ Goto(t, "idle")
  /\ UNCHANGED <<model, lock, built, calls>>

InCall(t) ==
  \/ Acquire(t) \/ Recheck(t) \/ Construct(t) \/ ConstructFails(t)
  \/ Release(t) \/ Return(t)

Next == \E t \in Threads : Call(t) \/ InCall(t)

Spec == Init /\ [][Next]_vars

(* A thread inside load_model is scheduled, and a constructor ends. *)
FairSpec == Spec /\ \A t \in Threads : WF_vars(InCall(t))

-----------------------------------------------------------------------------

TypeOK ==
  /\ model \in Nat
  /\ lock \subseteq Threads
  /\ built \in Nat
  /\ pc \in [Threads -> {"idle", "acquire", "recheck", "construct",
                         "release", "return"}]
  /\ result \in [Threads -> Nat]
  /\ calls \in [Threads -> 0..MaxCalls]

(* The thread that holds _lock is the one between the acquisition and the  *)
(* end of the with statement; in the constructor it is alone, with no      *)
(* model yet, and whoever is about to return finds one.                    *)
LockInv ==
  /\ \A t \in Threads :
       pc[t] \in {"recheck", "construct", "release"} <=> lock = {t}
  /\ lock # {} => \E t \in Threads : lock = {t}
  /\ model = built /\ built <= 1
  /\ \A t \in Threads : pc[t] = "construct" => model = None
  /\ \A t \in Threads : pc[t] \in {"release", "return"} => model # None
  /\ \A t \in Threads : result[t] \in {None, model}

IInv == TypeOK /\ LockInv

(* "several pipelines share ONE loaded model rather than a copy each"      *)
(* (embed.py:10-11): at most one instance is ever built, whatever failed   *)
(* before, and every call that returned has it.                            *)
OneModel ==
  /\ built <= 1
  /\ \A t, u \in Threads :
       result[t] # None /\ result[u] # None => result[t] = result[u]

(* A loaded model is never replaced or dropped under its users. *)
ModelStays == [][model # None => model' = model]_vars

(* A call ends, returning or raising: the lock is never left held. *)
EveryLoadEnds == \A t \in Threads : pc[t] = "acquire" ~> pc[t] = "idle"
=============================================================================
