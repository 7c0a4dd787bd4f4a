----------------------------- MODULE LiveAlerts -----------------------------
(***************************************************************************)
(* The alert list of the cloud process: live_cache, and the jobs that      *)
(* rewrite it, run_poll_cycle and run_fdd_cycle (app/services/pipeline.py),*)
(* started by the scheduler and once more by the bootstrap task of         *)
(* app/main.py.                                                            *)
(*                                                                         *)
(* Each job copies the list, works on its copy and writes the whole copy   *)
(* back.  All jobs and handlers share one asyncio loop, so a job is only   *)
(* interrupted at an await: run_fdd_cycle has none, run_poll_cycle waits   *)
(* for the building systems before it copies the list, and once more in    *)
(* the middle of the scan for a building that has no snapshot yet.         *)
(*                                                                         *)
(* A condition is a rule that evaluates to a fault by what is stored as    *)
(* the current state of the approved points, or, with the rule Unready,    *)
(* that rules of the poll lack inputs, which FaultDetector.evaluate        *)
(* answers when it has no fault to answer.  Lists are sets of alerts:      *)
(* their order is of no consequence.  An alert's uuid is replaced by the   *)
(* task that raised it, which tells apart any two alerts that can exist at *)
(* the same time.  Its acknowledged flag is left out: it is part of the    *)
(* alert itself, which all copies share, and no step reads it.             *)
(***************************************************************************)
EXTENDS Integers, FiniteSets

CONSTANTS
  PollCondition,   \* conditions of the rules of ml/fault_detector.py
  FddCondition,    \* conditions of the rules of fdd_rule_framework.py
  Unready,         \* the rule of a poll condition that stands for missing inputs
  NumBuildings,    \* BUILDING_REGISTRY, in its order
  Prone            \* model bound: sets of conditions that come and go in one behaviour

Building == 1..NumBuildings
Condition == PollCondition \cup FddCondition
Poller == {"poll", "boot"}
Task == Poller \cup {"fdd"}
Alert == [cond : Condition, by : Task]

(* A condition is a record with its building, equipment and rule.  The poll *)
(* evaluates a rule once for a building, whatever the equipment.            *)
AlertsAssumption ==
  /\ NumBuildings \in Nat
  /\ PollCondition \cap FddCondition = {}
  /\ Prone \subseteq SUBSET Condition
  /\ \A c \in Condition : c.building \in Building
  /\ \A c \in PollCondition, d \in Condition :
       c.building = d.building /\ c.rule = d.rule => c = d

VARIABLES
  prone,    \* the conditions of this behaviour
  present,  \* the conditions that hold by the stored current state
  alerts,   \* live_cache._alerts
  results,  \* live_cache._fdd_results
  pc,       \* where each task stands
  copy,     \* all_alerts, new_alerts: the list a task works on
  at,       \* the building a poll waits for
  left,     \* conditions the FDD cycle has still to report
  found     \* results, the local list of the FDD cycle

cache == <<alerts, results>>
jobs == <<pc, copy, at, left, found>>
world == <<prone, present>>
vars == <<world, cache, jobs>>

Init ==
  /\ prone \in Prone
  /\ present = {}
  /\ alerts = {} /\ results = {}
  /\ pc = [t \in Task |-> IF t = "boot" THEN "fetching" ELSE "idle"]
  /\ copy = [t \in Task |-> {}]
  /\ at = [t \in Poller |-> 1]
  /\ left = {} /\ found = {}

(* The readings of a building are keyed by meaning alone, so a rule is      *)
(* evaluated for one of its equipment at most (module FddEvaluation).       *)
Evaluable(C) ==
  \A c, d \in C \cap FddCondition :
    c.building = d.building /\ c.rule = d.rule => c = d

(* The steps of an evaluation hold the loop: they are told apart because    *)
(* rows are written between them (module Operations).                       *)
LoopFree == \A t \in Task : pc[t] # "evaluating"

(* What the lists are searched for: an alert by its title and building, a   *)
(* result by its rule and equipment.  The title is the rule's description.  *)
SameTitle(c, d) == c.rule = d.rule /\ c.building = d.building
SameResult(c, d) == c.rule = d.rule /\ c.equipment = d.equipment

Titled(list, c) == \E a \in list : SameTitle(a.cond, c)

(* The alerts a task adds to a list for a condition. *)
Raised(list, c, t) == IF Titled(list, c) THEN {} ELSE {[cond |-> c, by |-> t]}

-----------------------------------------------------------------------------
(* Handlers and the world outside; each finds the loop free. *)

(* The ingest handler stores readings that break a rule or cure it. *)
ConditionChanges ==
  /\ LoopFree
  /\ \E c \in prone :
       present' = IF c \in present THEN present \ {c} ELSE present \cup {c}
  /\ Evaluable(present')
  /\ UNCHANGED <<prone, cache, jobs>>

-----------------------------------------------------------------------------
(* run_poll_cycle. *)

PollStart ==
  /\ LoopFree
  /\ pc["poll"] = "idle"
  /\ pc' = [pc EXCEPT !["poll"] = "fetching"]
  /\ UNCHANGED <<world, cache, copy, at, left, found>>

(* The bootstrap goes on into run_fdd_cycle without an await. *)
FddBegins(t, list) ==
  /\ copy' = [copy EXCEPT ![t] = list]
  /\ left' = present \cap FddCondition
  /\ found' = {}
  /\ pc' = [pc EXCEPT ![t] = "evaluating"]

Ended(t) == IF t = "boot" THEN "done" ELSE "idle"

Finish(t) ==
  /\ pc' = [pc EXCEPT ![t] = Ended(t)]
  /\ copy' = [copy EXCEPT ![t] = {}]

(* Slip: rules that lack inputs are passed over. *)
EvaluateFaults(b) == {c \in present \cap PollCondition : c.building = b /\ c.rule # Unready}

(* FaultDetector.evaluate: "return faults or not_evaluable". *)
Evaluate(b) ==
  LET here == {c \in present \cap PollCondition : c.building = b}
      faults == {c \in here : c.rule # Unready}
  IN IF faults # {} THEN faults ELSE here

(* A list with the alerts of the buildings that have a snapshot: one for    *)
(* every answer, of whatever kind.                                          *)
Scanned(list, buildings, t) ==
  list \cup UNION {Raised(list, c, t) : c \in UNION {Evaluate(b) : b \in buildings}}

(* Slip: the copy is merged into the list instead of replacing it. *)
SetAlertsMerging(list) == alerts \cup list

SetAlerts(list) == list

(* The scan from a building on, until one without a snapshot whose system   *)
(* is asked for it, or to the end.  On the way some buildings have a        *)
(* snapshot, and the others have no mapping either.                         *)
PollRuns(t, list, first) ==
  \E stop \in first..NumBuildings + 1 : \E seen \in SUBSET (first..stop - 1) :
    IF stop <= NumBuildings
    THEN /\ pc' = [pc EXCEPT ![t] = "waiting"]
         /\ copy' = [copy EXCEPT ![t] = Scanned(list, seen, t)]
         /\ at' = [at EXCEPT ![t] = stop]
         /\ UNCHANGED <<alerts, left, found>>
    ELSE /\ alerts' = SetAlerts(Scanned(list, seen, t))
         /\ at' = [at EXCEPT ![t] = 1]
         /\ IF t = "boot" THEN FddBegins(t, alerts') ELSE Finish(t) /\ UNCHANGED <<left, found>>

(* Back from poll_metasys_buildings and poll_all_buildings. *)
PollScans(t) ==
  /\ LoopFree
  /\ pc[t] = "fetching"
  /\ PollRuns(t, alerts, 1)
  /\ UNCHANGED <<world, results>>

(* The building system has answered, or has not. *)
PollResumes(t) ==
  /\ LoopFree
  /\ pc[t] = "waiting"
  /\ \E seen \in SUBSET {at[t]} : PollRuns(t, Scanned(copy[t], seen, t), at[t] + 1)
  /\ UNCHANGED <<world, results>>

(* A fetch or a store call raises: the cycle's alerts are forgotten. *)
PollRaises(t) ==
  /\ LoopFree
  /\ pc[t] \in {"fetching", "waiting"}
  /\ Finish(t)
  /\ at' = [at EXCEPT ![t] = 1]
  /\ UNCHANGED <<world, cache, left, found>>

-----------------------------------------------------------------------------
(* run_fdd_cycle. *)

FddStart ==
  /\ LoopFree
  /\ pc["fdd"] = "idle"
  /\ FddBegins("fdd", alerts)
  /\ UNCHANGED <<world, cache, at>>

(* Slip: an alert is raised for a condition that was no result before. *)
FddReportsOnce(t, c) ==
  /\ pc[t] = "evaluating"
  /\ c \in left
  /\ \A d \in left : c.building <= d.building
  /\ left' = left \ {c}
  /\ found' = found \cup {c}
  /\ copy' = [copy EXCEPT ![t] = @ \cup IF c \in results THEN {} ELSE Raised(@, c, t)]
  /\ UNCHANGED <<world, cache, pc, at>>

(* The next condition in registry order: a result unless one is listed for  *)
(* its rule and equipment, and with it an alert unless one has its title.   *)
FddReports(t, c) ==
  /\ pc[t] = "evaluating"
  /\ c \in left
  /\ \A d \in left : c.building <= d.building
  /\ left' = left \ {c}
  /\ IF \E d \in found : SameResult(c, d)
     THEN UNCHANGED <<found, copy>>
     ELSE /\ found' = found \cup {c}
          /\ copy' = [copy EXCEPT ![t] = @ \cup Raised(@, c, t)]
  /\ UNCHANGED <<world, cache, pc, at>>

FddEnds(t) ==
  /\ pc[t] = "evaluating"
  /\ left = {}
  /\ results' = found
  /\ alerts' = SetAlerts(copy[t])
  /\ Finish(t)
  /\ found' = {}
  /\ UNCHANGED <<world, at, left>>

(* A store call raises: results and alerts stay those of the last cycle. *)
FddRaises(t) ==
  /\ pc[t] = "evaluating"
  /\ Finish(t)
  /\ left' = {} /\ found' = {}
  /\ UNCHANGED <<world, cache, at>>

(* The process dies and starts again: the cache was memory only. *)
Restart ==
  /\ alerts' = {} /\ results' = {}
  /\ pc' = [t \in Task |-> IF t = "boot" THEN "fetching" ELSE "idle"]
  /\ copy' = [t \in Task |-> {}]
  /\ at' = [t \in Poller |-> 1]
  /\ left' = {} /\ found' = {}
  /\ UNCHANGED world

Next ==
  \/ ConditionChanges \/ PollStart \/ FddStart \/ Restart
  \/ \E t \in Poller : PollScans(t) \/ PollResumes(t) \/ PollRaises(t)
  \/ \E t \in Task : \/ \E c \in FddCondition : FddReports(t, c)
                     \/ FddEnds(t) \/ FddRaises(t)

Spec == Init /\ [][Next]_vars

-----------------------------------------------------------------------------
TypeOK ==
  /\ prone \in Prone
  /\ present \subseteq Condition
  /\ alerts \subseteq Alert
  /\ results \subseteq FddCondition /\ found \subseteq FddCondition /\ left \subseteq FddCondition
  /\ pc \in [Task -> {"idle", "fetching", "waiting", "evaluating", "done"}]
  /\ copy \in [Task -> SUBSET Alert]
  /\ at \in [Poller -> 1..NumBuildings + 1]

(***************************************************************************)
(* No two alerts of one title and building are ever listed together,       *)
(* although up to three jobs search and extend copies of the list taken at *)
(* different times.                                                        *)
(***************************************************************************)
OneAlertPerTitle ==
  \A a, b \in alerts : SameTitle(a.cond, b.cond) => a = b

-----------------------------------------------------------------------------
(***************************************************************************)
(* "Do not substitute demo faults when NOT_EVALUABLE - return explicit     *)
(* status only." (docs/fdd-rules.md:79), and "No diagnosis when inputs are *)
(* missing" (docs/FDD_ARCHITECTURE.md): no alert stands for missing inputs.*)
(***************************************************************************)
AlertsAreFaults == \A a \in alerts : a.cond.rule # Unready
=============================================================================
