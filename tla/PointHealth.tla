---------------------------- MODULE PointHealth ----------------------------
(***************************************************************************)
(* How old a point's value is, as the cloud computes and shows it: the     *)
(* freshness stamped when a reading is stored (freshness_engine.py,        *)
(* update_current_state of the telemetry stores), what GET /points serves, *)
(* and the health computed on demand (data_quality.py,                     *)
(* data_health_engine.py).                                                 *)
(*                                                                         *)
(* Time is counted in expected intervals of a reading; a source's clock    *)
(* may run ahead of the cloud's, and a replayed reading is old when it     *)
(* arrives.                                                                *)
(***************************************************************************)
EXTENDS Integers, FiniteSetsExt

CONSTANTS
  Point,
  Quality,    \* normalized qualities the gateways report
  MaxAhead,   \* how far a source's clock may run ahead, in intervals
  MaxAge,     \* model bound: ages from here on are not told apart
  None

(* A silent source is told from one that is three intervals late. *)
HealthAssumption ==
  /\ IsFiniteSet(Point)
  /\ MaxAhead \in Nat
  /\ MaxAge \in Nat /\ MaxAge > 3 + MaxAhead
  /\ None \notin Int

Ages == 0..MaxAge
SourceAges == (-MaxAhead..MaxAge) \cup {None}

Freshness == {"LIVE", "STALE", "OFFLINE"}

VARIABLES current   \* point_current_state, with the ages of its timestamps
vars == current

Row == [value : {"number", "text"}, source : SourceAges, received : Ages,
        quality : Quality, freshness : Freshness]

(* A point that was discovered has the state NO_DATA. *)
Init == current = [p \in Point |-> None]

Known == {p \in Point : current[p] # None}

(* compute_freshness, by the time since the cloud received a reading.       *)
ComputeFreshness(age) ==
  CASE age <= 2 -> "LIVE"
    [] age > 2 /\ age <= 10 -> "STALE"
    [] OTHER -> "OFFLINE"

(* An accepted reading: update_current_state computes its freshness from    *)
(* the time it is received, now.  A source may send no timestamp.           *)
Receive(p, value, source, quality) ==
  current' = [current EXCEPT ![p] =
    [value |-> value, source |-> source, received |-> 0, quality |-> quality,
     freshness |-> ComputeFreshness(0)]]

Older(age) == IF age = None THEN None ELSE IF age < MaxAge THEN age + 1 ELSE age

Tick ==
  current' = [p \in Point |->
    IF p \notin Known THEN None
    ELSE [current[p] EXCEPT !.source = Older(@), !.received = Older(@)]]

Next ==
  \/ Tick
  \/ \E p \in Point, v \in {"number", "text"}, s \in SourceAges, q \in Quality : Receive(p, v, s, q)

Spec == Init /\ [][Next]_vars

-----------------------------------------------------------------------------
(* What is shown. *)

(* The freshness of the row as it is stored; GET /points serves it, with   *)
(* the quality applied to it.                                               *)
FreshnessState(p) == current[p].freshness

(* assess_point, without limits on the value: its age is that of the source *)
(* timestamp, or of the receipt when there is none.                         *)
AssessedAge(p) == IF current[p].source # None THEN current[p].source ELSE current[p].received

AssessPoint(p) ==
  CASE p \notin Known -> "MISSING"
    [] p \in Known /\ current[p].value = "text" -> "INVALID"
    [] p \in Known /\ current[p].value = "number" /\ AssessedAge(p) > 3 -> "STALE"
    [] OTHER -> "GOOD"

(* assess_point_health *)
Status(p) == IF AssessPoint(p) = "MISSING" THEN "OFFLINE" ELSE AssessPoint(p)

(* Slip: what was live when it was stored is good. *)
RegistryPointHealthLive(p) ==
  CASE p \notin Known -> Status(p)
    [] p \in Known /\ FreshnessState(p) = "STALE" -> "STALE"
    [] p \in Known /\ FreshnessState(p) = "OFFLINE" -> "OFFLINE"
    [] p \in Known /\ FreshnessState(p) = "LIVE" ->
         IF Status(p) = "INVALID" THEN Status(p) ELSE "GOOD"

(* registry_point_health: the stored freshness overrides the status, except *)
(* that LIVE only replaces OFFLINE.                                         *)
RegistryPointHealth(p) ==
  CASE p \notin Known -> Status(p)
    [] p \in Known /\ FreshnessState(p) = "STALE" -> "STALE"
    [] p \in Known /\ FreshnessState(p) = "OFFLINE" -> "OFFLINE"
    [] p \in Known /\ FreshnessState(p) = "LIVE" ->
         IF Status(p) = "OFFLINE" THEN "GOOD" ELSE Status(p)

(* aggregate_health of a building's points. *)
Count(status) == Cardinality({p \in Point : RegistryPointHealth(p) = status})

AggregateHealth ==
  LET total == Cardinality(Point)
  IN  CASE 2 * Count("OFFLINE") > total -> "OFFLINE"
        [] 2 * Count("OFFLINE") <= total /\ 10 * Count("STALE") > 3 * total -> "STALE"
        [] OTHER -> IF 10 * Count("GOOD") >= 9 * total THEN "GOOD" ELSE "DEGRADED"

-----------------------------------------------------------------------------
TypeOK == current \in [Point -> Row \cup {None}]

Silent(p, intervals) == p \in Known /\ current[p].received > intervals

(***************************************************************************)
(* A building whose health is GOOD was heard of from nine in ten of its    *)
(* points within three intervals (and the time source clocks run ahead),   *)
(* although the freshness stored with each point stays what it was when    *)
(* its last reading arrived.                                               *)
(***************************************************************************)
HealthTellsAge ==
  AggregateHealth = "GOOD" =>
    10 * Cardinality({p \in Known : ~Silent(p, 3 + MaxAhead)}) >= 9 * Cardinality(Point)
=============================================================================
