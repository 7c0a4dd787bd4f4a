-------------------------- MODULE Recommendations --------------------------
(***************************************************************************)
(* The lifecycle of a recommendation: recommendations_store.py with its    *)
(* table of valid transitions, the engine that makes one for every fault   *)
(* of every FDD cycle, and the handlers of app/api/recommendations.py.     *)
(* Both telemetry stores merge the whole row on conflict as far as the     *)
(* lifecycle is concerned.                                                 *)
(*                                                                         *)
(* A cycle makes new rows for faults it has already recommended for, so    *)
(* the table grows without bound; the model follows the first MaxRecs of   *)
(* each fault.                                                             *)
(***************************************************************************)
EXTENDS Integers

CONSTANTS
  Subject,   \* what rows are made for: the ids of faults
  MaxRecs,   \* model bound: rows that are followed for each
  None

State == {"DETECTED", "INVESTIGATING", "RECOMMENDED", "APPROVED", "SCHEDULED",
          "IMPLEMENTED", "MONITORING", "VERIFIED", "CLOSED", "REJECTED"}

(* Slip: a rejected recommendation may be taken up again where it was. *)
ValidReopening(s) ==
  CASE s = "RECOMMENDED" -> {"APPROVED", "REJECTED", "INVESTIGATING"}
    [] s = "APPROVED"    -> {"SCHEDULED", "IMPLEMENTED", "REJECTED"}
    [] s = "SCHEDULED"   -> {"IMPLEMENTED", "REJECTED"}
    [] s = "REJECTED"    -> {"CLOSED", "SCHEDULED"}
    [] OTHER             -> {}

(* VALID_TRANSITIONS *)
Valid(s) ==
  CASE s = "DETECTED"      -> {"INVESTIGATING", "RECOMMENDED", "REJECTED", "CLOSED"}
    [] s = "INVESTIGATING" -> {"RECOMMENDED", "REJECTED", "CLOSED"}
    [] s = "RECOMMENDED"   -> {"APPROVED", "REJECTED", "INVESTIGATING"}
    [] s = "APPROVED"      -> {"SCHEDULED", "IMPLEMENTED", "REJECTED"}
    [] s = "SCHEDULED"     -> {"IMPLEMENTED", "REJECTED"}
    [] s = "IMPLEMENTED"   -> {"MONITORING", "CLOSED"}
    [] s = "MONITORING"    -> {"VERIFIED", "CLOSED", "REJECTED"}
    [] s = "VERIFIED"      -> {"CLOSED"}
    [] s = "REJECTED"      -> {"CLOSED", "INVESTIGATING"}
    [] s = "CLOSED"        -> {}

Recs == Subject \X (1..MaxRecs)

RecommendationsAssumption == MaxRecs \in Nat /\ None \notin State

VARIABLES
  recs,      \* state of each recommendation, by fault and order of creation
  decision   \* history: the last approval or rejection of each row

vars == <<recs, decision>>

Init ==
  /\ recs = [r \in Recs |-> None]
  /\ decision = [r \in Recs |-> "none"]

Made == {r \in Recs : recs[r] # None}
Free(f) == {n \in 1..MaxRecs : recs[<<f, n>>] = None}

(* upsert_recommendation: on a known id only the contents are replaced. *)
Upserted(r, state) == [recs EXCEPT ![r] = state]

(* generate_recommendations_from_faults: a new id and state RECOMMENDED     *)
(* each time; a row past the bound is written but not followed.             *)
Generate(f) ==
  \/ /\ \E n \in Free(f) :
          /\ \A other \in Free(f) : n <= other
          /\ recs' = Upserted(<<f, n>>, "RECOMMENDED")
     /\ UNCHANGED decision
  \/ Free(f) = {} /\ UNCHANGED vars

Decided(state, before) ==
  CASE state = "APPROVED" -> "approved"
    [] state = "REJECTED" -> "rejected"
    [] OTHER              -> before

(* /approve, /reject and /transition: refused unless the table allows it.   *)
Transition(r, state) ==
  /\ r \in Made
  /\ state \in Valid(recs[r])
  /\ recs' = Upserted(r, state)
  /\ decision' = [decision EXCEPT ![r] = Decided(state, @)]

Next ==
  \/ \E f \in Subject : Generate(f)
  \/ \E r \in Recs, s \in State : Transition(r, s)

Spec == Init /\ [][Next]_vars

-----------------------------------------------------------------------------
TypeOK ==
  /\ recs \in [Recs -> State \cup {None}]
  /\ decision \in [Recs -> {"none", "approved", "rejected"}]

(***************************************************************************)
(* What is scheduled, implemented, monitored or verified was approved, and *)
(* not rejected since: the ways back from a rejection lead through a new   *)
(* approval.                                                               *)
(***************************************************************************)
ImplementedWasApproved ==
  \A r \in Made : recs[r] \in {"SCHEDULED", "IMPLEMENTED", "MONITORING", "VERIFIED"}
                  => decision[r] = "approved"
=============================================================================
