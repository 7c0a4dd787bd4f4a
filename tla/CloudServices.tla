--------------------------- MODULE CloudServices ---------------------------
(***************************************************************************)
(* The services beside ingest and collection, put together: each behaviour *)
(* follows one of them, part, and leaves the state of the others as it     *)
(* was.  Nothing is lost by that, because they share no state: what one    *)
(* takes from another (readings, approvals, the requests of users) is an   *)
(* input of its module and may be anything the other can produce.          *)
(***************************************************************************)
EXTENDS Integers

CONSTANTS
  None,
  PollCondition, FddCondition, Unready, NumBuildings, Prone, MaxRecs, InfoRule, MaxMishaps,
  StoredCondition, StoredSubject, MaxStoredRecs,
  Opportunity, Energy, Days, Stores,
  EvaluatedPoint, Equipment, Input, Rule, EvaluatedQuality,
  Gateway, Scope, Token, TokenOf(_), Lifetime, MaxQueue, MaxLate,
  Point, Quality, MaxAhead, MaxAge,
  LiveBuilding, DemoModes,
  Key, Object, System, ObjectsOf(_), Configured, Default, SetupTask,
  MaxRetries, Limit, MaxAttempts, MaxCrashes,
  Account, Administrator, OwnedBuilding, Profile, Registered, Request

VARIABLES
  part,
  prone, present, alerts, results, pc, copy, at, left, found,
  faults, audit, unaudited, recs, decision, mishaps,
  storedFaults, storedAudit, storedUnaudited,
  storedRecs, storedDecision,
  backend, opps, measured,
  listed, mapping, evaluated,
  connector, scope, gatewayPc, say, queue, gatewayTodo, late, gateways, tokens, beats,
  current,
  demo, cache, series, source, plant, asking, reported,
  metasys, saved, overrides, tasks, hand,
  pending, agentPc, agentAt, agentTodo, crashes, up, shown, latePushes, heard,
  rows, memory, savedOwn, keptOwn, request, tested, served

Ops == INSTANCE Operations
Rows == INSTANCE Faults WITH FddCondition <- StoredCondition,
  faults <- storedFaults, audit <- storedAudit, unaudited <- storedUnaudited
Desk == INSTANCE Recommendations WITH Subject <- StoredSubject, MaxRecs <- MaxStoredRecs,
  recs <- storedRecs, decision <- storedDecision
Money == INSTANCE Savings
Rules == INSTANCE FddEvaluation WITH Point <- EvaluatedPoint, Quality <- EvaluatedQuality,
  current <- evaluated
Edges == INSTANCE Fleet WITH pc <- gatewayPc, todo <- gatewayTodo
Health == INSTANCE PointHealth
Snapshots == INSTANCE LiveData WITH Building <- LiveBuilding
Setup == INSTANCE Commissioning WITH Building <- LiveBuilding, Task <- SetupTask
Agent == INSTANCE LegacyAgent WITH queue <- pending, pc <- agentPc, at <- agentAt,
  todo <- agentTodo, late <- latePushes
Owners == INSTANCE Buildings WITH Building <- OwnedBuilding, saved <- savedOwn, kept <- keptOwn

(* Of the constants, what the modules assume. *)
ASSUME PartsAssumption ==
  /\ Ops!OperationsAssumption
  /\ Rows!FaultsAssumption
  /\ Desk!RecommendationsAssumption
  /\ Money!SavingsAssumption
  /\ Rules!EvaluationAssumption
  /\ Edges!FleetAssumption
  /\ Health!HealthAssumption
  /\ Snapshots!LiveDataAssumption
  /\ Setup!CommissioningAssumption
  /\ Agent!AgentAssumption
  /\ Owners!BuildingsAssumption

operations == <<prone, present, alerts, results, pc, copy, at, left, found,
                faults, audit, unaudited, recs, decision, mishaps>>
storedRows == <<storedFaults, storedAudit, storedUnaudited>>
desk == <<storedRecs, storedDecision>>
money == <<backend, opps, measured>>
rules == <<listed, mapping, evaluated>>
edges == <<connector, scope, gatewayPc, say, queue, gatewayTodo, late, gateways, tokens, beats>>
snapshots == <<demo, cache, series, source, plant, asking, reported>>
setup == <<metasys, saved, overrides, tasks, hand>>
agent == <<pending, agentPc, agentAt, agentTodo, crashes, up, shown, latePushes, heard>>
owners == <<rows, memory, savedOwn, keptOwn, request, tested, served>>

vars == <<part, operations, storedRows, desk, money, rules, edges, current, snapshots, setup, agent, owners>>

Part == {"operations", "faults", "recommendations", "savings", "evaluation",
         "fleet", "health", "snapshots", "commissioning", "agent", "buildings"}

(* The parts a behaviour does not follow have one initial state each.       *)
Still ==
  /\ part # "operations" => prone = CHOOSE conditions \in Prone : TRUE
  /\ part # "savings" => backend = CHOOSE store \in Stores : TRUE
  /\ part # "fleet" => /\ connector = [g \in Gateway |-> "up"]
                       /\ scope = [g \in Gateway |-> CHOOSE s \in Scope : TRUE]
  /\ part # "snapshots" => /\ demo = CHOOSE mode \in DemoModes : TRUE
                           /\ source = [b \in LiveBuilding |-> "demo"]
  /\ part # "agent" => up

Init ==
  /\ part \in Part
  /\ Ops!Init /\ Rows!Init /\ Desk!Init /\ Money!Init /\ Rules!Init
  /\ Edges!Init /\ Health!Init /\ Snapshots!Init /\ Setup!Init
  /\ Agent!Init /\ Owners!Init
  /\ Still

-----------------------------------------------------------------------------
(* The steps of each part. *)

ButOperations == UNCHANGED <<part, storedRows, desk, money, rules, edges, current, snapshots, setup, agent, owners>>

Operating == part = "operations" /\ Ops!Next /\ ButOperations

Reporting ==
  /\ part = "operations"
  /\ \E t \in Ops!Live!Task : Ops!FddEnds(t) \/ \E c \in FddCondition : Ops!FddReports(t, c)
  /\ ButOperations

Starting == part = "operations" /\ Ops!FddStart /\ ButOperations

KeepingFaults ==
  /\ part = "faults" /\ Rows!Next
  /\ UNCHANGED <<part, operations, desk, money, rules, edges, current, snapshots, setup, agent, owners>>

Recommending ==
  /\ part = "recommendations" /\ Desk!Next
  /\ UNCHANGED <<part, operations, storedRows, money, rules, edges, current, snapshots, setup, agent, owners>>

Saving ==
  /\ part = "savings" /\ Money!Next
  /\ UNCHANGED <<part, operations, storedRows, desk, rules, edges, current, snapshots, setup, agent, owners>>

Evaluating ==
  /\ part = "evaluation" /\ Rules!Next
  /\ UNCHANGED <<part, operations, storedRows, desk, money, edges, current, snapshots, setup, agent, owners>>

ButFleet == UNCHANGED <<part, operations, storedRows, desk, money, rules, current, snapshots, setup, agent, owners>>

Connecting == part = "fleet" /\ Edges!Next /\ ButFleet
Looping(g) == part = "fleet" /\ Edges!Step(g) /\ ButFleet
Aging(g) == part = "fleet" /\ Edges!Ages(g) /\ ButFleet

Watching ==
  /\ part = "health" /\ Health!Next
  /\ UNCHANGED <<part, operations, storedRows, desk, money, rules, edges, snapshots, setup, agent, owners>>

Showing ==
  /\ part = "snapshots" /\ Snapshots!Next
  /\ UNCHANGED <<part, operations, storedRows, desk, money, rules, edges, current, setup, agent, owners>>

SettingUp ==
  /\ part = "commissioning" /\ Setup!Next
  /\ UNCHANGED <<part, operations, storedRows, desk, money, rules, edges, current, snapshots, agent, owners>>

(* All but the gateways of old and the buildings. *)
others == <<part, operations, storedRows, desk, money, rules, edges, current, snapshots, setup>>

Pushing == part = "agent" /\ Agent!Next /\ UNCHANGED <<others, owners>>
Rounds == part = "agent" /\ Agent!Round /\ UNCHANGED <<others, owners>>

Registering == part = "buildings" /\ Owners!Next /\ UNCHANGED <<others, agent>>

Next ==
  \/ Operating \/ KeepingFaults \/ Recommending \/ Saving \/ Evaluating
  \/ Connecting \/ Watching \/ Showing \/ SettingUp \/ Pushing \/ Registering

Spec == Init /\ [][Next]_vars

(* The fairness of Operations, Fleet and LegacyAgent, within their parts.   *)
Fairness ==
  /\ WF_vars(Reporting)
  /\ SF_vars(Starting)
  /\ WF_vars(Rounds)
  /\ \A g \in Gateway : WF_vars(Looping(g)) /\ WF_vars(Aging(g))

LiveSpec == Spec /\ Fairness

-----------------------------------------------------------------------------
(* What the modules state, about the part a behaviour follows: the others   *)
(* stay as they start.                                                      *)

TypeOK ==
  /\ part \in Part
  /\ part = "operations" => Ops!TypeOK
  /\ part = "faults" => Rows!TypeOK
  /\ part = "recommendations" => Desk!TypeOK
  /\ part = "savings" => Money!TypeOK
  /\ part = "evaluation" => Rules!TypeOK
  /\ part = "fleet" => Edges!TypeOK
  /\ part = "health" => Health!TypeOK
  /\ part = "snapshots" => Snapshots!TypeOK
  /\ part = "commissioning" => Setup!TypeOK
  /\ part = "agent" => Agent!TypeOK
  /\ part = "buildings" => Owners!TypeOK

OneAlertPerTitle == part = "operations" => Ops!OneAlertPerTitle
ListedIsRecorded == part = "operations" => Ops!ListedIsRecorded
ConditionsAreListed == Ops!ConditionsAreListed
AuditTells == part = "faults" => Rows!AuditTells
ImplementedWasApproved == part = "recommendations" => Desk!ImplementedWasApproved
AmountIsMeasured == part = "savings" => Money!AmountIsMeasured
ReportsAreExact == part = "evaluation" => Rules!ReportsAreSound /\ Rules!ReportsAreComplete
BeatsAreRegistered == part = "fleet" => Edges!BeatsAreRegistered
DownIsShown == Edges!DownIsShown
HealthTellsAge == part = "health" => Health!HealthTellsAge
OnlyReported == part = "snapshots" => Snapshots!OnlyReported
HandMappedStands == part = "commissioning" => Setup!HandMappedStands
PendingBounded == part = "agent" => Agent!PendingBounded
RecoversAfterOutage == Agent!RecoversAfterOutage
OwnAndTested == part = "buildings" => Owners!OwnAndTested

(* The claim of docs/fdd-rules.md that LiveAlerts quotes; it does not hold. *)
AlertsAreFaults == Ops!Live!AlertsAreFaults

(* The claim of docs/DATA_PROVENANCE.md that LiveData quotes; it does not   *)
(* hold either.                                                             *)
NothingInvented == part = "snapshots" => Snapshots!NothingInvented
=============================================================================
