------------------------------- MODULE Faults -------------------------------
(***************************************************************************)
(* Fault rows and their audit trail: FddFaultStore                         *)
(* (app/services/fdd_fault_store.py) over the tables fdd_faults and        *)
(* fdd_fault_audit of the SQLite telemetry store, with the handlers of     *)
(* app/api/fdd.py.  The PostgREST store has no fault tables.               *)
(*                                                                         *)
(* The key of a row is rule:equipment, without the building.  Both times   *)
(* of detection, first_seen and detected_at, are abstracted to whether     *)
(* they are still those of the row's insertion; last_seen, confidence and  *)
(* evidence play no part.                                                  *)
(***************************************************************************)
EXTENDS Integers

CONSTANTS FddCondition, None

IdOf(c) == <<c.rule, c.equipment>>
FaultId == {IdOf(c) : c \in FddCondition}
FAULT_STATUSES == {"DETECTED", "INVESTIGATING", "CONFIRMED", "SUPPRESSED", "RESOLVED", "CLOSED"}
Inactive == {"RESOLVED", "CLOSED"}
Building == {c.building : c \in FddCondition}

Row == [building : Building, status : FAULT_STATUSES, seen : {"first", "later"}]

FaultsAssumption ==
  /\ None \notin Row
  /\ None \notin FAULT_STATUSES
  (* An evaluation of one building reports a rule and equipment once. *)
  /\ \A c, d \in FddCondition : c.building = d.building /\ IdOf(c) = IdOf(d) => c = d

VARIABLES
  faults,     \* fdd_faults
  audit,      \* new_status of the last fdd_fault_audit row of each fault
  unaudited   \* history: faults whose last transition left no audit row

vars == <<faults, audit, unaudited>>

Init ==
  /\ faults = [f \in FaultId |-> None]
  /\ audit = [f \in FaultId |-> None]
  /\ unaudited = {}

Stored == {f \in FaultId : faults[f] # None}

(* On conflict upsert_fdd_fault keeps building, first_seen and detected_at. *)
OnConflict(row, merged) == [row EXCEPT !.status = merged.status]

Fresh(c) == [building |-> c.building, status |-> "DETECTED", seen |-> "first"]

(* upsert_fault merges a detection over the row it found, whatever status   *)
(* that has, and keeps first_seen unless the fault was resolved.            *)
Merged(row, c) ==
  [building |-> c.building, status |-> "DETECTED",
   seen |-> IF row.status \in Inactive THEN "later" ELSE row.seen]

Detected(f, c) ==
  IF faults[f] = None THEN Fresh(c) ELSE OnConflict(faults[f], Merged(faults[f], c))

(* upsert_fault of one detection. *)
Upsert(c) ==
  /\ faults' = [faults EXCEPT ![IdOf(c)] = Detected(IdOf(c), c)]
  /\ UNCHANGED <<audit, unaudited>>

(* POST /fdd/buildings/{id}/evaluate: the faults found are upserted one     *)
(* after the other; when the store raises, the rest is not.                 *)
Evaluate(C) ==
  /\ faults' = [f \in FaultId |->
       IF \E c \in C : IdOf(c) = f
       THEN Detected(f, CHOOSE c \in C : IdOf(c) = f) ELSE faults[f]]
  /\ UNCHANGED <<audit, unaudited>>

(* The row a transition writes: everything else as it was read. *)
Moved(f, status) == OnConflict(faults[f], [faults[f] EXCEPT !.status = status])

(* Slip: the event is written only for a status that ends the fault. *)
TransitionAuditsEnd(f, status) ==
  /\ f \in Stored
  /\ faults' = [faults EXCEPT ![f] = Moved(f, status)]
  /\ audit' = [audit EXCEPT ![f] = IF status \in Inactive THEN status ELSE @]
  /\ unaudited' = unaudited \ {f}

(* POST /fdd/faults/{id}/transition: any status to any status; the row and  *)
(* the audit event are committed one after the other.                       *)
Transition(f, status) ==
  /\ f \in Stored
  /\ faults' = [faults EXCEPT ![f] = Moved(f, status)]
  /\ audit' = [audit EXCEPT ![f] = status]
  /\ unaudited' = unaudited \ {f}

(* The audit insert raises, or the process dies before it. *)
TransitionUnaudited(f, status) ==
  /\ f \in Stored
  /\ faults' = [faults EXCEPT ![f] = Moved(f, status)]
  /\ unaudited' = unaudited \cup {f}
  /\ UNCHANGED audit

Next ==
  \/ \E c \in FddCondition : Upsert(c)
  \/ \E b \in Building : \E C \in SUBSET {c \in FddCondition : c.building = b} : Evaluate(C)
  \/ \E f \in FaultId, s \in FAULT_STATUSES : Transition(f, s) \/ TransitionUnaudited(f, s)

Spec == Init /\ [][Next]_vars

-----------------------------------------------------------------------------
TypeOK ==
  /\ faults \in [FaultId -> Row \cup {None}]
  /\ audit \in [FaultId -> FAULT_STATUSES \cup {None}]
  /\ unaudited \subseteq FaultId

(***************************************************************************)
(* A stored fault is never deleted, and keeps the building and the time of *)
(* its first detection, also when it is detected again after it was        *)
(* resolved, which the code that merges the rows provides for and the      *)
(* statement that writes them does not.                                    *)
(***************************************************************************)
FirstSeenKept ==
  \A f \in Stored : /\ faults'[f] # None
                    /\ faults'[f].building = faults[f].building
                    /\ faults'[f].seen = faults[f].seen

FirstSeenStands == [][FirstSeenKept]_vars

(***************************************************************************)
(* A status that is not the detection's own is the one the last audit      *)
(* event names, whatever detections and failed requests came between,      *)
(* unless the event of that very transition could not be written.          *)
(***************************************************************************)
AuditTells ==
  \A f \in Stored :
    faults[f].status = "DETECTED" \/ audit[f] = faults[f].status \/ f \in unaudited
=============================================================================
