--------------------------- MODULE FddEvaluation ---------------------------
(***************************************************************************)
(* What the fault rules are evaluated on: the readings of a building's     *)
(* approved points (app/services/semantic_readings_service.py), their      *)
(* score (data_quality_engine.py), the readiness of a rule's inputs        *)
(* (fdd_input_validator.py) and the rule engine (fdd_rule_framework.py),   *)
(* as run_fdd_cycle and POST /fdd/buildings/{id}/evaluate call them.       *)
(*                                                                         *)
(* A rule is the set of its required inputs.  Values are abstracted to     *)
(* what the checks tell apart: two inputs that should agree do not, or a   *)
(* single input is high.  Every equipment is evaluated as an AHU.          *)
(***************************************************************************)
EXTENDS Integers, SequencesExt

CONSTANTS
  Point,       \* source points of one building
  Equipment,
  Input,       \* semantic keys
  Rule,        \* AHU_RULES: the required inputs of each
  Quality,     \* normalized qualities the gateways report
  None

EvaluationAssumption ==
  /\ IsFiniteSet(Input)
  /\ None \notin Equipment \cup Input
  /\ Rule \subseteq SUBSET Input /\ {} \notin Rule
  /\ Quality \subseteq {"GOOD", "UNCERTAIN", "BAD", "STALE", "NO_DATA", "COMM_ERROR"}

VARIABLES
  listed,    \* the order of list_points: by last_seen_at, newest first
  mapping,   \* of an approved point, its semantic_key and equipment_id
  current    \* point_current_state: last_value and normalized_quality

vars == <<listed, mapping, current>>

Mapping == [key : Input, equipment : Equipment \cup {None}]
Current == [value : {"low", "high", "text"}, quality : Quality]

Init ==
  /\ listed = <<>>
  /\ mapping = [p \in Point |-> None]
  /\ current = [p \in Point |-> None]

Listed == Range(listed)
(* A point seen now is listed first. *)
ListFirst(p) ==
  \/ \E i \in DOMAIN listed : listed[i] = p /\ listed' = <<p>> \o RemoveAt(listed, i)
  \/ p \notin Listed /\ listed' = <<p>> \o listed

(* A discovery batch, at any time: the metadata is overwritten. *)
Discover(p) ==
  /\ ListFirst(p)
  /\ mapping' = [mapping EXCEPT ![p] = None]
  /\ UNCHANGED current

(* An accepted reading; the first one registers the point. *)
Receive(p, reading) ==
  /\ IF p \in Listed THEN UNCHANGED listed ELSE ListFirst(p)
  /\ current' = [current EXCEPT ![p] = reading]
  /\ UNCHANGED mapping

Approve(p, m) ==
  /\ p \in Listed
  /\ mapping' = [mapping EXCEPT ![p] = m]
  /\ UNCHANGED <<listed, current>>

(* Reject, edit and revert all take the approval back. *)
TakeBack(p) ==
  /\ mapping[p] # None
  /\ mapping' = [mapping EXCEPT ![p] = None]
  /\ UNCHANGED <<listed, current>>

Next ==
  \E p \in Point :
    \/ Discover(p) \/ TakeBack(p)
    \/ \E reading \in Current : Receive(p, reading)
    \/ \E m \in Mapping : Approve(p, m)

Spec == Init /\ [][Next]_vars

-----------------------------------------------------------------------------
(* build_semantic_readings. *)

(* What a call considers that names an equipment, or none. *)
Considered(p, only) ==
  /\ p \in Listed
  /\ mapping[p] # None
  /\ only = None \/ mapping[p].equipment \in {only, None}
  /\ current[p] # None /\ current[p].value # "text"

(* Positions of the points a key is read from. *)
Sources(key, only) ==
  {i \in DOMAIN listed : Considered(listed[i], only) /\ mapping[listed[i]].key = key}

Keys(only) == {k \in Input : Sources(k, only) # {}}

(* Later points overwrite earlier ones: the point each key is read from.    *)
Readings(only) ==
  [k \in Keys(only) |-> listed[CHOOSE i \in Sources(k, only) : \A j \in Sources(k, only) : j <= i]]

(* Slip: an equipment is evaluated on the readings of the whole building. *)
OfEquipmentAny(readings, e) == readings

(* The readings of an equipment.  Those of points without one are evaluated *)
(* under the name UNASSIGNED, but filtered by a name that none of them has. *)
OfEquipment(readings, e) ==
  [k \in {l \in DOMAIN readings : e # None /\ mapping[readings[l]].equipment = e}
     |-> readings[k]]

-----------------------------------------------------------------------------
(* score_point and validate_fdd_inputs. *)

Validity(q) ==
  CASE q = "BAD"       -> 0
    [] q = "UNCERTAIN" -> 5
    [] OTHER           -> 10

(* The sum of the components, in tenths.  A stored value has been stamped    *)
(* with freshness 0 when it was received (see PointHealth), its range and   *)
(* unit are not known, and the components flatline, timestamp_integrity and *)
(* sampling_consistency stay 0.                                             *)
Score(p) ==
  LET availability == 10 completeness == 10 freshness == 10 range == 10
      unit == 10 outlier == 10
  IN  availability + freshness + completeness + Validity(current[p].quality)
        + range + unit + outlier

MIN_QUALITY_SCORE == 60

(* Slip: an input of the lowest quality that is still enough blocks a rule. *)
ReadinessStrict(rule, readings) ==
  LET missing == rule \ DOMAIN readings
  IN  CASE missing = rule -> "INSUFFICIENT_DATA"
        [] missing # rule /\ missing # {} -> "BLOCKED"
        [] missing = {} /\ \E k \in rule : Score(readings[k]) <= MIN_QUALITY_SCORE -> "BLOCKED"
        [] OTHER -> "READY"

Readiness(rule, readings) ==
  LET missing == rule \ DOMAIN readings
  IN  CASE missing = rule -> "INSUFFICIENT_DATA"
        [] missing # rule /\ missing # {} -> "BLOCKED"
        [] missing = {} /\ \E k \in rule : Score(readings[k]) < MIN_QUALITY_SCORE -> "PARTIAL"
        [] OTHER -> "READY"

(* GET equipment-readiness looks at approvals only, whatever was received.  *)

(* _approved_keys_by_equipment *)
MappedKeys(e) ==
  {mapping[p].key : p \in {q \in Listed : mapping[q] # None /\ mapping[q].equipment = e}}

(* equipment_fdd_readiness, for the required keys of a template. *)
Coverage(required, e) ==
  LET mapped == Cardinality(required \cap MappedKeys(e))
  IN  CASE mapped = Cardinality(required)                   -> "READY"
        [] mapped \in ((Cardinality(required) + 1) \div 2)..(Cardinality(required) - 1)
                                                            -> "PARTIAL INPUT COVERAGE"
        [] OTHER                                            -> "INSUFFICIENT INPUT COVERAGE"

-----------------------------------------------------------------------------
(* evaluate_equipment. *)

(* RULE_CHECKS, for values of the inputs of a rule. *)
Broken(values) ==
  IF \A k, l \in DOMAIN values : k = l
  THEN \A k \in DOMAIN values : values[k] = "high"
  ELSE \E k, l \in DOMAIN values : values[k] # values[l]

Observed(rule, readings) == [k \in rule |-> current[readings[k]].value]

Fault(rule, readings) ==
  /\ Readiness(rule, readings) \notin {"BLOCKED", "INSUFFICIENT_DATA"}
  /\ Broken(Observed(rule, readings))

(* What the job (only = None) or the handler reports. *)
Reported(only) ==
  {report \in Rule \X Equipment : Fault(report[1], OfEquipment(Readings(only), report[2]))}

-----------------------------------------------------------------------------
TypeOK ==
  /\ \A i, j \in DOMAIN listed : listed[i] \in Point /\ (listed[i] = listed[j] => i = j)
  /\ mapping \in [Point -> Mapping \cup {None}]
  /\ current \in [Point -> Current \cup {None}]

Calls == Equipment \cup {None}

(* A fault of an equipment, seen from its points: each required input is    *)
(* approved for one of them and has a number, and the numbers break the     *)
(* rule.                                                                    *)
Evident(rule, e, only) ==
  \E f \in [rule -> Point] :
    /\ \A k \in rule : /\ Considered(f[k], only)
                       /\ mapping[f[k]] = [key |-> k, equipment |-> e]
    /\ Broken([k \in rule |-> current[f[k]].value])

(***************************************************************************)
(* "No diagnosis when inputs are missing" (docs/FDD_ARCHITECTURE.md), and  *)
(* none on the inputs of another equipment: a fault is reported for an     *)
(* equipment only when its own approved points show it, although the       *)
(* readings of a building are keyed without the equipment and overwrite    *)
(* each other; and so never for one whose readiness, which is found from   *)
(* the approvals alone, lacks an input of the rule.                        *)
(***************************************************************************)
ReportsAreSound ==
  \A only \in Calls : \A report \in Reported(only) :
    /\ Evident(report[1], report[2], only)
    /\ Coverage(report[1], report[2]) = "READY"

Unambiguous(only) ==
  \A p, q \in Point :
    Considered(p, only) /\ Considered(q, only) /\ mapping[p].key = mapping[q].key => p = q

(***************************************************************************)
(* Every fault the points show is reported, of whatever quality its inputs *)
(* are, as long as no two of the points considered are approved for one    *)
(* key: that is the building for the job, the equipment named in the       *)
(* request for the handler.                                                *)
(***************************************************************************)
ReportsAreComplete ==
  \A only \in Calls : Unambiguous(only) =>
    \A e \in Equipment, r \in Rule : Evident(r, e, only) => <<r, e>> \in Reported(only)
=============================================================================
