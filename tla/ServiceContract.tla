-------------------------- MODULE ServiceContract ---------------------------
(***************************************************************************)
(* What the service promises to whoever sends it a request, whatever else  *)
(* goes on inside: one answer, never changed, out of those that the        *)
(* request and the configuration call for.  A request that may only be     *)
(* refused is not taken on, and one that is taken on is no longer refused, *)
(* even if the server stops being ready meanwhile.                         *)
(***************************************************************************)

CONSTANTS
  Requests,
  Refusals,         (* answers that only a request not taken on gets       *)
  Results           (* answers that only a request taken on gets           *)

VARIABLES
  allowed,          (* the answers that each request calls for             *)
  place,            (* each request: "sent", "taken" or "answered"         *)
  answer            (* what it was answered, or "none"                     *)

vars == <<allowed, place, answer>>

Init ==
  /\ place = [r \in Requests |-> "sent"]
  /\ answer = [r \in Requests |-> "none"]

Take(r) ==
  /\ place[r] = "sent"
  /\ ~(allowed[r] \subseteq Refusals)
  /\ place' = [place EXCEPT ![r] = "taken"]
  /\ UNCHANGED <<allowed, answer>>

Give(r, codes) ==
  /\ \E code \in codes : answer' = [answer EXCEPT ![r] = code]
  /\ place' = [place EXCEPT ![r] = "answered"]
  /\ UNCHANGED allowed

Refuse(r) == place[r] = "sent" /\ Give(r, allowed[r] \ Results)

Conclude(r) == place[r] = "taken" /\ Give(r, allowed[r] \ Refusals)

Next == \E r \in Requests : Take(r) \/ Refuse(r) \/ Conclude(r)

Spec == Init /\ [][Next]_vars

-----------------------------------------------------------------------------

TypeOK ==
  /\ place \in [Requests -> {"sent", "taken", "answered"}]
  /\ answer = [r \in Requests |-> answer[r]]

(* An answer is there when it was given, and is one of those called for.   *)
Kept ==
  \A r \in Requests :
    IF place[r] = "answered" THEN answer[r] \in allowed[r] ELSE answer[r] = "none"
=============================================================================
