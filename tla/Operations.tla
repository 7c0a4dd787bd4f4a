----------------------------- MODULE Operations -----------------------------
(***************************************************************************)
(* Fault detection as the operators of a building meet it: the jobs of     *)
(* LiveAlerts, which find conditions and list alerts, with the rows they   *)
(* write on the way (Faults, Recommendations).                             *)
(*                                                                         *)
(* run_fdd_cycle writes a fault's row, then its recommendation, then its   *)
(* entry in the lists, each row in a transaction of its own and all of     *)
(* them without giving up the loop; the lists replace the cache's only at  *)
(* the end.  The rows outlive the process, the lists do not.               *)
(*                                                                         *)
(* What engineers do to the rows meanwhile is explored by the two modules  *)
(* on their own, in any order with detections: no step of a job depends on *)
(* the state of a row.                                                     *)
(***************************************************************************)
EXTENDS Integers, FiniteSets

CONSTANTS
  PollCondition, FddCondition, Unready, NumBuildings, Prone, MaxRecs, None,
  InfoRule,      \* rules of severity info, for which nothing is recommended
  MaxMishaps     \* model bound: cycles that raise, and restarts

VARIABLES
  prone, present, alerts, results, pc, copy, at, left, found,
  faults, audit, unaudited,
  recs, decision,
  mishaps   \* cycles that raised, and restarts

Live == INSTANCE LiveAlerts
Store == INSTANCE Faults
Desk == INSTANCE Recommendations WITH Subject <- Store!FaultId

(* A fault can have a recommendation. *)
OperationsAssumption ==
  /\ Live!AlertsAssumption
  /\ Store!FaultsAssumption
  /\ Desk!RecommendationsAssumption
  /\ MaxRecs >= 1
  /\ MaxMishaps \in Nat

lists == <<prone, present, alerts, results, pc, copy, at, left, found>>
store == <<faults, audit, unaudited>>
desk == <<recs, decision>>
vars == <<lists, store, desk, mishaps>>

Init == Live!Init /\ Store!Init /\ Desk!Init /\ mishaps = 0

-----------------------------------------------------------------------------
(* Steps of the jobs that write no row. *)
NoRow == UNCHANGED <<store, desk, mishaps>>

ConditionChanges == Live!ConditionChanges /\ NoRow
PollStart == Live!PollStart /\ NoRow
FddStart == Live!FddStart /\ NoRow

PollStep(t) ==
  /\ Live!PollScans(t) \/ Live!PollResumes(t)
  /\ NoRow

Recommend(c) ==
  IF c.rule \in InfoRule THEN UNCHANGED desk ELSE Desk!Generate(Store!IdOf(c))

(* Slip: the rows are written for a condition that raises an alert. *)
FddReportsAlerted(t, c) ==
  /\ Live!FddReports(t, c)
  /\ IF Live!Titled(copy[t], c)
     THEN UNCHANGED <<store, desk>>
     ELSE Store!Upsert(c) /\ Recommend(c)
  /\ UNCHANGED mishaps

FddReports(t, c) ==
  /\ Live!FddReports(t, c)
  /\ Store!Upsert(c)
  /\ Recommend(c)
  /\ UNCHANGED mishaps

FddEnds(t) == Live!FddEnds(t) /\ NoRow

Mishap == mishaps < MaxMishaps /\ mishaps' = mishaps + 1

PollRaises(t) == Mishap /\ Live!PollRaises(t) /\ UNCHANGED <<store, desk>>

(* The cycle raises while it reports a condition: before a row is written,  *)
(* between the two rows or after them.                                      *)
FddRaises(t) ==
  /\ Mishap
  /\ Live!FddRaises(t)
  /\ \/ UNCHANGED <<store, desk>>
     \/ \E c \in left :
          /\ \A d \in left : c.building <= d.building
          /\ Store!Upsert(c)
          /\ Recommend(c) \/ UNCHANGED desk

Restart == Mishap /\ Live!Restart /\ UNCHANGED <<store, desk>>

-----------------------------------------------------------------------------
Next ==
  \/ ConditionChanges \/ PollStart \/ FddStart
  \/ Restart
  \/ \E t \in Live!Poller : PollStep(t) \/ PollRaises(t)
  \/ \E t \in Live!Task : FddEnds(t) \/ FddRaises(t)
  \/ \E t \in Live!Task, c \in FddCondition : FddReports(t, c)

Spec == Init /\ [][Next]_vars

(* An evaluation that has begun goes on, and the scheduler starts the FDD    *)
(* job every minute: it has to find the loop free, which handlers and the   *)
(* other jobs leave again and again, in the order in which they ask for it. *)
(* Polls may hang for ever.                                                 *)
Fairness ==
  /\ WF_vars(\E t \in Live!Task : FddEnds(t) \/ \E c \in FddCondition : FddReports(t, c))
  /\ SF_vars(FddStart)

LiveSpec == Spec /\ Fairness

-----------------------------------------------------------------------------
TypeOK ==
  /\ Live!TypeOK /\ Store!TypeOK /\ Desk!TypeOK
  /\ mishaps \in 0..MaxMishaps

OneAlertPerTitle == Live!OneAlertPerTitle

(***************************************************************************)
(* Whatever GET /alerts/fdd lists, and whatever alert the FDD job raised,  *)
(* has its row among the faults and, unless its severity is info, a        *)
(* recommendation, although the lists are replaced as a whole, by three    *)
(* tasks, and the rows are written one by one in cycles that may raise.    *)
(***************************************************************************)
Recorded(c) ==
  /\ Store!IdOf(c) \in Store!Stored
  /\ c.rule \in InfoRule \/ recs[<<Store!IdOf(c), 1>>] # None

ListedIsRecorded ==
  /\ \A c \in results : Recorded(c)
  /\ \A a \in alerts : a.cond \in FddCondition => Recorded(a.cond)

(* The cycle takes a condition for one it has reported already.             *)
Shadowed(c) == \E d \in present : d.building < c.building /\ Live!SameResult(c, d)

(***************************************************************************)
(* A condition that stays is listed as an alert, by its title, again and   *)
(* again: a poll that writes back a list it copied before can lose the     *)
(* alert, and a restart loses them all, but no interleaving keeps it away. *)
(* Only the same rule on equipment of the same name in a building before   *)
(* it in the registry does: results are searched without the building.     *)
(***************************************************************************)
ConditionsAreListed ==
  \A c \in FddCondition :
    <>[](c \in present /\ ~Shadowed(c)) => []<>(Live!Titled(alerts, c))
=============================================================================
