------------------------------ MODULE Savings ------------------------------
(***************************************************************************)
(* Savings opportunities and their verification: savings_engine.py with    *)
(* its table of transitions, savings_mv_engine.py, which goes round the    *)
(* table, and the handlers of app/api/savings.py, over either telemetry    *)
(* store.                                                                  *)
(*                                                                         *)
(* Energies are small integers; a tariff turns kWh into an amount and is   *)
(* left out, so an amount is the energy it stands for.                     *)
(***************************************************************************)
EXTENDS Integers

CONSTANTS
  Opportunity,
  Energy,      \* kWh a client may send
  Days,        \* measurement_days a client may send
  Stores,      \* the store backends to consider: "sqlite", "postgrest"
  None

State == {"POTENTIAL", "APPROVED", "IMPLEMENTED", "MONITORING", "VERIFIED", "REJECTED"}
MIN_DAYS == 14

(* VALID_SAVINGS_TRANSITIONS *)
Valid(s) ==
  CASE s = "POTENTIAL"   -> {"APPROVED", "REJECTED"}
    [] s = "APPROVED"    -> {"IMPLEMENTED", "REJECTED"}
    [] s = "IMPLEMENTED" -> {"MONITORING", "REJECTED"}
    [] s = "MONITORING"  -> {"VERIFIED", "REJECTED"}
    [] OTHER             -> {}

Energies == Energy \cup {None}
Row == [state : State, baseline : Energy, actual : Energies, after : Energies,
        amount : Nat \cup {None}]

SavingsAssumption ==
  /\ Energy \subseteq Nat
  /\ Days \subseteq Int
  /\ None \notin Nat /\ None \notin Row
  /\ Stores \subseteq {"sqlite", "postgrest"}

VARIABLES
  backend,   \* the store in use
  opps,      \* savings_opportunities
  measured   \* history: the actual energy of the last measurement that was long enough

vars == <<backend, opps, measured>>

Init ==
  /\ backend \in Stores
  /\ opps = [o \in Opportunity |-> None]
  /\ measured = [o \in Opportunity |-> None]

Made == {o \in Opportunity : opps[o] # None}

(* Slip: the difference whatever its sign. *)
AvoidedSigned(baseline, actual) == baseline - actual

Avoided(baseline, actual) == IF baseline > actual THEN baseline - actual ELSE 0

(* The row an upsert leaves.  SQLite keeps the energies an opportunity was   *)
(* created with, PostgREST merges the whole row.                            *)
Upserted(o, row) ==
  IF o \in Made /\ backend = "sqlite" THEN [row EXCEPT !.baseline = opps[o].baseline] ELSE row

(* create_potential_savings and compute_opportunity, on a new id or on one  *)
(* that exists: enough coverage is a matter of the caller's data.           *)
Compute(o, baseline) ==
  /\ opps' = [opps EXCEPT ![o] = Upserted(o, [state |-> "POTENTIAL", baseline |-> baseline,
                                    actual |-> None, after |-> None, amount |-> None])]
  /\ measured' = [measured EXCEPT ![o] = None]
  /\ UNCHANGED backend

(* /transition: by the table; the audit event that follows may be lost.     *)
Transition(o, state) ==
  /\ o \in Made
  /\ state \in Valid(opps[o].state)
  /\ opps' = [opps EXCEPT ![o].state = state]
  /\ UNCHANGED <<backend, measured>>

(* Slip: the energies of a measurement are kept even when it was too short. *)
MonitoredKeeping(row, actual) ==
  [row EXCEPT !.state = "MONITORING", !.actual = actual, !.after = actual]

Monitored(row, actual) == [row EXCEPT !.state = "MONITORING", !.actual = actual]

Verified(row, actual) ==
  LET avoided == Avoided(row.baseline, actual)
  IN  [row EXCEPT !.state = IF avoided > 0 THEN "VERIFIED" ELSE "REJECTED",
                  !.actual = actual, !.after = actual, !.amount = avoided]

(* /verify: from any state, without the table and without an audit event.   *)
Verify(o, actual, days) ==
  /\ o \in Made
  /\ IF days < MIN_DAYS
     THEN opps' = [opps EXCEPT ![o] = Monitored(@, actual)] /\ UNCHANGED measured
     ELSE /\ opps' = [opps EXCEPT ![o] = Verified(@, actual)]
          /\ measured' = [measured EXCEPT ![o] = actual]
  /\ UNCHANGED backend

Next ==
  \E o \in Opportunity :
    \/ \E e \in Energy : Compute(o, e)
    \/ \E s \in State : Transition(o, s)
    \/ \E e \in Energy, d \in Days : Verify(o, e, d)

Spec == Init /\ [][Next]_vars

-----------------------------------------------------------------------------
TypeOK ==
  /\ backend \in Stores
  /\ opps \in [Opportunity -> Row \cup {None}]
  /\ measured \in [Opportunity -> Energies]

(***************************************************************************)
(* An amount of verified savings is always the energy avoided, against the *)
(* baseline the row shows, in the last measurement of 14 days or more:     *)
(* neither a shorter measurement nor a transition by hand nor a repeated   *)
(* verification changes it, and a recomputed opportunity has none, over    *)
(* stores that keep different parts of the old row.                        *)
(***************************************************************************)
AmountIsMeasured ==
  \A o \in Made :
    opps[o].amount # None =>
      /\ measured[o] # None
      /\ opps[o].after = measured[o]
      /\ opps[o].amount = Avoided(opps[o].baseline, measured[o])
=============================================================================
