--------------------------- MODULE MCCloudServices --------------------------
(***************************************************************************)
(* CloudServices for TLC.  Conditions come and go two at a time: a poll    *)
(* rule and an FDD rule; an FDD rule on two pieces of equipment of a       *)
(* building; the same rule and name of equipment in two buildings; and one *)
(* of severity info alone.  The fault row is that of the third pair.       *)
(* A rule with two inputs and one with a single input; one gateway that    *)
(* may move; two servers that both have one of the objects; a building of  *)
(* an administrator in the table, and one to be registered.                *)
(***************************************************************************)
EXTENDS CloudServices

CONSTANTS e1, e2, rp, rf, ri, unready

Condition(b, e, rule) == [building |-> b, equipment |-> e, rule |-> rule]

MCPollCondition == {Condition(1, e1, rp), Condition(1, e1, unready)}
MCFddCondition == {Condition(1, e1, rf), Condition(1, e2, rf), Condition(2, e1, rf), Condition(1, e1, ri)}
MCProne == {{Condition(1, e1, rp), Condition(1, e1, rf)},
            {Condition(1, e1, rf), Condition(1, e2, rf)},
            {Condition(1, e1, rf), Condition(2, e1, rf)},
            {Condition(1, e1, ri)}}
MCUnready == {{Condition(1, e1, unready)}}
MCStoredCondition == {Condition(1, e1, rf), Condition(2, e1, rf)}

MCRule == {{"t", "setpoint"}, {"dp"}}

CONSTANTS g1, t1

MCTokenOf(g) == t1

CONSTANTS o1, o2, k1, k2, s1, s2

MCObjectsOf(s) == IF s = s1 THEN {o1, o2} ELSE {o2}
MCDefault == [b \in LiveBuilding |-> [k \in Key |-> IF k = k1 THEN o1 ELSE None]]

CONSTANTS a1, ad, b1, b2

MCRegistered ==
  [b \in OwnedBuilding |->
    IF b = b2 THEN [owner |-> ad, connected |-> FALSE, profile |-> "building_only"] ELSE None]
=============================================================================
