------------------------- MODULE ServicesTypesProofs ------------------------
(***************************************************************************)
(* Type correctness of CloudServices, part by part: the invariants of      *)
(* ServicesProofs contain the types of some parts; of the others, what     *)
(* they leave out is added here.                                           *)
(***************************************************************************)
EXTENDS ServicesProofs

(* Savings. *)

LEMMA BackendStays ==
  ASSUME Money!Next \/ UNCHANGED money
  PROVE  backend' = backend
BY DEF Money!Next, Money!Compute, Money!Transition, Money!Verify, money

-----------------------------------------------------------------------------
(* Snapshots. *)

LEMMA SnapshotsStartTyped ==
  ASSUME Init
  PROVE  Snapshots!TypeOK
BY DEF Init, Snapshots!Init, Snapshots!TypeOK

(* Whatever a reader finds is a snapshot or nothing. *)
LEMMA FoundIsTyped ==
  ASSUME Snapshots!TypeOK, NEW b \in LiveBuilding
  PROVE  /\ Snapshots!Of("building") \in Snapshots!Snapshot
         /\ Snapshots!LatestSnapshot(b) \in Snapshots!Snapshot \cup {None}
         /\ Snapshots!Found(b) \in Snapshots!Snapshot \cup {None}
<1>1. \A origin \in Snapshots!Origin : Snapshots!Of(origin) \in Snapshots!Snapshot
  BY DEF Snapshots!Of, Snapshots!Snapshot, Snapshots!Origin
<1>2. {"building", "defaults", "simulator"} = Snapshots!Origin
  BY DEF Snapshots!Origin
<1>3. cache[b] \in Snapshots!Snapshot \cup {None}
  BY DEF Snapshots!TypeOK
<1>4. Snapshots!LatestSnapshot(b) \in Snapshots!Snapshot \cup {None}
  BY <1>1, <1>2 DEF Snapshots!LatestSnapshot
<1> QED
  BY <1>1, <1>2, <1>3, <1>4 DEF Snapshots!Found

(* A write into the time series leaves numbers and texts. *)
LEMMA WritesAreTyped ==
  ASSUME Snapshots!TypeOK, NEW b \in LiveBuilding, Snapshots!WritePoints(b)
  PROVE  series' \in [LiveBuilding -> SUBSET {"number", "text"}]
BY DEF Snapshots!WritePoints, Snapshots!TypeOK

LEMMA PlantsAreTyped ==
  ASSUME Snapshots!TypeOK, NEW b \in LiveBuilding,
         \/ \E from \in Snapshots!Source : Snapshots!PollPlant(b, from)
         \/ Snapshots!PlantRead(b)
         \/ UNCHANGED <<series, plant, reported>>
  PROVE  /\ series' \in [LiveBuilding -> SUBSET {"number", "text"}]
         /\ plant' \in [LiveBuilding -> Snapshots!Origin \cup {None}]
         /\ reported' \subseteq LiveBuilding
<1>1. CASE UNCHANGED <<series, plant, reported>>
  BY <1>1 DEF Snapshots!TypeOK
<1>2. CASE Snapshots!PlantRead(b)
  BY <1>2, WritesAreTyped DEF Snapshots!PlantRead, Snapshots!Reports, Snapshots!TypeOK, Snapshots!Origin
<1>3. CASE /\ plant' = [plant EXCEPT ![b] = "simulator"]
           /\ UNCHANGED <<series, reported>>
  BY <1>3 DEF Snapshots!TypeOK, Snapshots!Origin
<1> QED
  BY <1>1, <1>2, <1>3 DEF Snapshots!PollPlant

LEMMA PollsAskBuildings ==
  ASSUME Snapshots!TypeOK, NEW b \in LiveBuilding, NEW from, Snapshots!PollPlant(b, from)
  PROVE  asking' \subseteq LiveBuilding
BY DEF Snapshots!PollPlant, Snapshots!TypeOK

LEMMA SnapshotsTyped ==
  ASSUME Snapshots!TypeOK, Snapshots!Next \/ UNCHANGED snapshots
  PROVE  Snapshots!TypeOK'
<1>1. ASSUME NEW b \in LiveBuilding,
             \/ Snapshots!IngestSnapshot(b) \/ Snapshots!MetasysAnswers(b) \/ Snapshots!PollScans(b)
      PROVE  Snapshots!TypeOK'
  <2>1. PICK s \in Snapshots!Snapshot \cup {None} : cache' = [cache EXCEPT ![b] = s]
    BY <1>1, FoundIsTyped
       DEF Snapshots!IngestSnapshot, Snapshots!MetasysAnswers, Snapshots!PollScans, Snapshots!Cached
  <2>2. /\ Snapshots!WritePoints(b)
        /\ UNCHANGED <<demo, source, plant, asking>>
        /\ reported' = reported \/ reported' = reported \cup {b}
    BY <1>1 DEF Snapshots!IngestSnapshot, Snapshots!MetasysAnswers, Snapshots!PollScans,
                Snapshots!refrigeration, Snapshots!Reports
  <2> QED
    BY <2>1, <2>2, WritesAreTyped DEF Snapshots!TypeOK
<1>2. ASSUME NEW b \in LiveBuilding, Snapshots!IngestTelemetry(b) \/ Snapshots!Expires(b)
      PROVE  Snapshots!TypeOK'
  <2>1. \A old \in SUBSET {"number", "text"} : old \ {"text"} \in SUBSET {"number", "text"}
    OBVIOUS
  <2>2. series' \in [LiveBuilding -> SUBSET {"number", "text"}]
    BY <1>2, <2>1 DEF Snapshots!IngestTelemetry, Snapshots!Expires, Snapshots!TypeOK
  <2> QED
    BY <1>2, <2>2 DEF Snapshots!IngestTelemetry, Snapshots!Expires, Snapshots!Reports,
                      Snapshots!refrigeration, Snapshots!TypeOK
<1>3. ASSUME NEW b \in LiveBuilding,
             Snapshots!Read(b) \/ Snapshots!LiveRead(b) \/ Snapshots!PollSimulates(b)
      PROVE  Snapshots!TypeOK'
  <2>1. PICK s \in Snapshots!Snapshot \cup {None} : cache' = [cache EXCEPT ![b] = s]
    BY <1>3, FoundIsTyped
       DEF Snapshots!Read, Snapshots!LiveRead, Snapshots!Shown, Snapshots!PollSimulates,
           Snapshots!Cached, Snapshots!TypeOK
  <2>2. UNCHANGED <<demo, series, source, plant, asking, reported>>
    BY <1>3 DEF Snapshots!Read, Snapshots!LiveRead, Snapshots!PollSimulates, Snapshots!refrigeration
  <2> QED
    BY <2>1, <2>2 DEF Snapshots!TypeOK
<1>4. ASSUME NEW b \in LiveBuilding,
             \/ Snapshots!RefrigerationPolled(b)
             \/ \E s \in Snapshots!Source : Snapshots!PutConnection(b, s)
      PROVE  Snapshots!TypeOK'
  <2>1. PICK s \in Snapshots!Source : /\ Snapshots!PollPlant(b, s)
                                      /\ source' = source \/ source' = [source EXCEPT ![b] = s]
                                      /\ UNCHANGED <<demo, cache>>
    BY <1>4 DEF Snapshots!RefrigerationPolled, Snapshots!PutConnection, Snapshots!TypeOK
  <2> QED
    BY <2>1, PlantsAreTyped, PollsAskBuildings DEF Snapshots!TypeOK
<1>5. ASSUME NEW b \in LiveBuilding, Snapshots!RefrigerationAnswers(b)
      PROVE  Snapshots!TypeOK'
  BY <1>5, PlantsAreTyped DEF Snapshots!RefrigerationAnswers, Snapshots!TypeOK
<1>6. CASE Snapshots!Restart
  BY <1>6 DEF Snapshots!Restart, Snapshots!TypeOK
<1>7. CASE UNCHANGED snapshots
  BY <1>7 DEF snapshots, Snapshots!TypeOK
<1> QED
  BY <1>1, <1>2, <1>3, <1>4, <1>5, <1>6, <1>7 DEF Snapshots!Next

-----------------------------------------------------------------------------
(* Commissioning. *)

LEMMA SetupStartTyped ==
  ASSUME PartsAssumption, Init
  PROVE  Setup!TypeOK
<1>1. Setup!NoMap \in Setup!Map
  BY DEF Setup!NoMap, Setup!Map
<1> QED
  BY <1>1 DEF PartsAssumption, Init, Setup!CommissioningAssumption, Setup!Init, Setup!TypeOK

(* A discovery maps keys to objects it found or that were mapped already.   *)
LEMMA RemappedIsTyped ==
  ASSUME PartsAssumption, Setup!TypeOK, NEW B, NEW found_ \in SUBSET Object,
         NEW merge \in BOOLEAN, Setup!Remapped(B, found_, merge)
  PROVE  overrides' \in [LiveBuilding -> Setup!Map] /\ hand' \in [LiveBuilding -> Setup!Map]
<1>1. ASSUME NEW b \in LiveBuilding
      PROVE  Setup!Suggestions(found_, Setup!Objects(b), merge) \subseteq Setup!Map
  <2>1. Setup!Objects(b) \in Setup!Map
    BY DEF PartsAssumption, Setup!CommissioningAssumption, Setup!Objects, Setup!TypeOK, Setup!Map
  <2>2. Setup!Kept(Setup!Objects(b), merge) \in Setup!Map
    BY <2>1 DEF Setup!Kept, Setup!NoMap, Setup!Map
  <2> DEFINE kept_ == Setup!Kept(Setup!Objects(b), merge)
             used == {kept_[k] : k \in Key}
  <2>3. used \ {None} \subseteq Object
    BY <2>2 DEF Setup!Map
  <2> HIDE DEF used
  <2>4. [Key -> found_ \cup (used \ {None}) \cup {None}] \subseteq Setup!Map
    BY <2>3 DEF Setup!Map
  <2>5. Setup!Suggestions(found_, Setup!Objects(b), merge)
          \subseteq [Key -> found_ \cup (used \ {None}) \cup {None}]
    BY DEF Setup!Suggestions, used
  <2> QED
    BY <2>4, <2>5
<1>2. PICK m : /\ \A b \in B : m[b] \in Setup!Suggestions(found_, Setup!Objects(b), merge)
               /\ overrides' = [b \in LiveBuilding |-> IF b \in B THEN m[b] ELSE overrides[b]]
  BY DEF Setup!Remapped
<1>3. Setup!NoMap \in Setup!Map
  BY DEF Setup!NoMap, Setup!Map
<1> QED
  BY <1>1, <1>2, <1>3 DEF Setup!Remapped, Setup!TypeOK

LEMMA SetupTyped ==
  ASSUME PartsAssumption, Setup!TypeOK, Setup!Next \/ UNCHANGED setup
  PROVE  Setup!TypeOK'
<1> DEFINE Tasks == [SetupTask -> Setup!Running \cup {Setup!Idle}]
<1>0. /\ Configured \in System \cup {None}
      /\ \A s \in System : ObjectsOf(s) \subseteq Object
  BY DEF PartsAssumption, Setup!CommissioningAssumption
<1>1. ASSUME NEW t \in SetupTask, NEW s \in System, Setup!SaveCredentials(t, s)
      PROVE  Setup!TypeOK'
  <2>1. [doing |-> "saving", system |-> s, building |-> None, merge |-> TRUE] \in Setup!Running
    BY DEF Setup!Running
  <2> QED
    BY <1>1, <2>1 DEF Setup!SaveCredentials, Setup!Await, Setup!TypeOK
<1>2. ASSUME NEW t \in SetupTask, NEW merge \in BOOLEAN, Setup!AutoConnect(t, merge)
      PROVE  Setup!TypeOK'
  <2>1. [doing |-> "connecting", system |-> metasys, building |-> None, merge |-> merge] \in Setup!Running
    BY DEF Setup!Running, Setup!TypeOK
  <2> QED
    BY <1>2, <2>1 DEF Setup!AutoConnect, Setup!Await, Setup!TypeOK
<1>3. ASSUME NEW t \in SetupTask, NEW b \in LiveBuilding, NEW merge \in BOOLEAN, Setup!AutoMap(t, b, merge)
      PROVE  Setup!TypeOK'
  <2>1. [doing |-> "mapping", system |-> metasys, building |-> b, merge |-> merge] \in Setup!Running
    BY DEF Setup!Running, Setup!TypeOK
  <2> QED
    BY <1>3, <2>1 DEF Setup!AutoMap, Setup!Await, Setup!TypeOK
<1>4. ASSUME NEW t \in SetupTask, Setup!CredentialsSaved(t)
      PROVE  Setup!TypeOK'
  <2>1. [doing |-> "connecting", system |-> metasys, building |-> None, merge |-> TRUE] \in Setup!Running
    BY DEF Setup!Running, Setup!TypeOK
  <2>2. tasks[t].system \in System \cup {None}
    BY DEF Setup!TypeOK, Setup!Running, Setup!Idle
  <2> QED
    BY <1>4, <2>1, <2>2 DEF Setup!CredentialsSaved, Setup!TypeOK
<1>5. ASSUME NEW t \in SetupTask, Setup!Discovered(t)
      PROVE  Setup!TypeOK'
  <2>1. tasks[t] \in Setup!Running \cup {Setup!Idle}
    BY DEF Setup!TypeOK
  <2>2. /\ tasks[t].system \in System
        /\ tasks[t].merge \in BOOLEAN
    BY <1>5, <2>1 DEF Setup!Discovered, Setup!Running, Setup!Idle
  <2>3. PICK B : Setup!Remapped(B, ObjectsOf(tasks[t].system), tasks[t].merge)
    BY <1>5 DEF Setup!Discovered
  <2>4. overrides' \in [LiveBuilding -> Setup!Map] /\ hand' \in [LiveBuilding -> Setup!Map]
    BY <1>0, <2>2, <2>3, RemappedIsTyped
  <2> QED
    BY <1>5, <2>4 DEF Setup!Discovered, Setup!Done, Setup!TypeOK
<1>6. ASSUME NEW t \in SetupTask, Setup!DiscoveryFails(t)
      PROVE  Setup!TypeOK'
  BY <1>6 DEF Setup!DiscoveryFails, Setup!Done, Setup!TypeOK
<1>7. CASE Setup!Restart \/ Setup!DiesWriting
  <2>1. Setup!Loaded
    BY <1>7 DEF Setup!Restart, Setup!DiesWriting
  <2>2. metasys' \in System \cup {None} /\ saved' = saved
    BY <1>0, <2>1 DEF Setup!Loaded, Setup!TypeOK
  <2>3. [doing |-> "connecting", system |-> metasys', building |-> None, merge |-> TRUE] \in Setup!Running
    BY <2>2 DEF Setup!Running
  <2>4. tasks' \in Tasks
    BY <2>1, <2>3 DEF Setup!Loaded
  <2>5. overrides' \in [LiveBuilding -> Setup!Map] /\ hand' \in [LiveBuilding -> Setup!Map]
    BY <1>7 DEF Setup!Restart, Setup!DiesWriting, Setup!NoMap, Setup!Map, Setup!TypeOK
  <2> QED
    BY <2>2, <2>4, <2>5 DEF Setup!TypeOK
<1>8. ASSUME NEW b \in LiveBuilding, NEW map \in Setup!Map, Setup!PutObjects(b, map)
      PROVE  Setup!TypeOK'
  BY <1>8 DEF Setup!PutObjects, Setup!TypeOK
<1>9. CASE UNCHANGED setup
  BY <1>9 DEF setup, Setup!TypeOK
<1> QED
  BY <1>1, <1>2, <1>3, <1>4, <1>5, <1>6, <1>7, <1>8, <1>9 DEF Setup!Next

-----------------------------------------------------------------------------
(* The fleet. *)

(* A gateway never means to send more rows than its queue holds, and while  *)
(* it reports on a row that was taken, that row is among them.              *)
EdgesTypes ==
  /\ Edges!TypeOK
  /\ \A g \in Gateway :
       /\ gatewayTodo[g] <= queue[g]
       /\ gatewayPc[g] = "beat" /\ say[g].next = "ack" => gatewayTodo[g] > 0

LEMMA EdgesStartTyped ==
  ASSUME PartsAssumption, Init
  PROVE  EdgesTypes
<1>1. MaxQueue \in Nat /\ Edges!Quiet \in Edges!Said
  BY DEF PartsAssumption, Edges!FleetAssumption, Edges!Quiet, Edges!Said, Edges!Status
<1>2. Edges!Init
  BY DEF Init
<1> QED
  BY <1>1, <1>2 DEF EdgesTypes, Edges!Init, Edges!TypeOK

(* What the cloud keeps of a report, whether it takes it or not. *)
CloudTyped ==
  /\ gateways \in [Gateway -> Scope \cup {None}]
  /\ beats \in [Gateway -> Edges!Beat \cup {None}]

LEMMA ReportsAreTyped ==
  ASSUME CloudTyped, NEW g \in Gateway, NEW s \in Scope, NEW status \in Edges!Status,
         \/ Edges!RecordGateway(g, s, status)
         \/ Edges!Refused(g, s)
         \/ Edges!Unanswered(g, s)
         \/ UNCHANGED <<gateways, beats>>
  PROVE  CloudTyped'
<1>1. "ONLINE" \in Edges!Status
  BY DEF Edges!Status
<1>2. \A said \in Edges!Status : Edges!Recorded(g, s, said) \in Edges!Beat
  BY DEF Edges!Recorded, Edges!Beat, Edges!Age
<1>3. Edges!Register(g, s) => gateways' \in [Gateway -> Scope \cup {None}]
  BY DEF Edges!Register, CloudTyped
<1>4. ASSUME NEW said \in Edges!Status, Edges!RecordGateway(g, s, said)
      PROVE  CloudTyped'
  BY <1>2, <1>3, <1>4 DEF Edges!RecordGateway, CloudTyped
<1>5. CASE Edges!Refused(g, s)
  BY <1>3, <1>5 DEF Edges!Refused, CloudTyped
<1> QED
  BY <1>1, <1>4, <1>5 DEF Edges!Unanswered, CloudTyped

LEMMA StepsAreTyped ==
  ASSUME PartsAssumption, EdgesTypes, NEW g \in Gateway, Edges!Step(g)
  PROVE  EdgesTypes'
<1> USE DEF EdgesTypes, Edges!TypeOK
<1>0. /\ MaxQueue \in Nat
      /\ queue[g] \in 0..MaxQueue /\ gatewayTodo[g] \in 0..MaxQueue /\ gatewayTodo[g] <= queue[g]
      /\ scope[g] \in Scope /\ say[g] \in Edges!Said /\ say[g].status \in Edges!Status
      /\ CloudTyped
      /\ {"ONLINE", "OFFLINE"} \subseteq Edges!Status
  BY DEF PartsAssumption, Edges!FleetAssumption, Edges!Said, CloudTyped, Edges!Status
<1>1. \A s \in {"ONLINE", "OFFLINE"}, n \in {"dequeue", "ack", "poll"} :
        [status |-> s, next |-> n] \in Edges!Said
  BY DEF Edges!Said, Edges!Status
<1>2. ASSUME NEW s \in {"ONLINE", "OFFLINE"}, NEW n \in {"dequeue", "ack", "poll"},
             Edges!StartBeat(g, s, n)
      PROVE  /\ gatewayPc' \in [Gateway -> {"poll", "beat", "replay", "dead"}]
             /\ say' \in [Gateway -> Edges!Said]
             /\ say'[g].next = n
             /\ \A h \in Gateway \ {g} : gatewayPc'[h] = gatewayPc[h] /\ say'[h] = say[h]
  BY <1>1, <1>2 DEF Edges!StartBeat, Edges!Goto
<1>3. CASE Edges!PollFails(g)
  BY <1>2, <1>3 DEF Edges!PollFails, Edges!cloud
<1>4. CASE Edges!PollUploads(g)
  <2>1. CloudTyped'
    BY <1>0, <1>4, ReportsAreTyped DEF Edges!PollUploads
  <2>2. CASE /\ Edges!StartBeat(g, "ONLINE", "dequeue")
             /\ UNCHANGED <<queue, gatewayTodo>>
    BY <1>2, <1>4, <2>1, <2>2 DEF Edges!PollUploads, CloudTyped
  <2>3. CASE /\ queue' = [queue EXCEPT ![g] = IF @ < MaxQueue THEN @ + 1 ELSE @]
             /\ Edges!Goto(g, "replay") /\ gatewayTodo' = [gatewayTodo EXCEPT ![g] = queue'[g]]
             /\ UNCHANGED say
    <3> DEFINE n == IF queue[g] < MaxQueue THEN queue[g] + 1 ELSE queue[g]
    <3>1. n \in 0..MaxQueue /\ queue' = [queue EXCEPT ![g] = n]
      BY <1>0, <2>3
    <3> HIDE DEF n
    <3>2. gatewayTodo' = [gatewayTodo EXCEPT ![g] = n]
      BY <2>3, <3>1
    <3> QED
      BY <1>4, <2>1, <2>3, <3>1, <3>2 DEF Edges!PollUploads, Edges!Goto, CloudTyped
  <2>4. CASE UNCHANGED <<gatewayPc, say, queue, gatewayTodo>>
    BY <1>4, <2>1, <2>4 DEF Edges!PollUploads, CloudTyped
  <2> QED
    BY <1>4, <2>2, <2>3, <2>4 DEF Edges!PollUploads
<1>5. CASE Edges!SendBeat(g)
  <2>1. Edges!Drifted(say[g].status) \subseteq Edges!Status
    BY <1>0 DEF Edges!Drifted, Edges!Status
  <2>2. CloudTyped'
    BY <1>0, <1>5, <2>1, ReportsAreTyped DEF Edges!SendBeat
  <2>3. late' \subseteq Edges!Heartbeat
    BY <1>0, <1>5 DEF Edges!SendBeat, Edges!Heartbeat
  <2>4. Edges!Quiet \in Edges!Said
    BY DEF Edges!Quiet, Edges!Said, Edges!Status
  <2>5. /\ queue = [queue EXCEPT ![g] = queue[g]]
        /\ gatewayTodo = [gatewayTodo EXCEPT ![g] = gatewayTodo[g]]
    OBVIOUS
  <2>6. PICK n \in 0..MaxQueue, m \in 0..MaxQueue :
          /\ m <= n
          /\ queue' = [queue EXCEPT ![g] = n] /\ gatewayTodo' = [gatewayTodo EXCEPT ![g] = m]
    <3>1. CASE say[g].next = "poll" /\ UNCHANGED <<queue, gatewayTodo>>
      BY <1>0, <2>5, <3>1
    <3>2. CASE say[g].next = "dequeue" /\ gatewayTodo' = [gatewayTodo EXCEPT ![g] = queue[g]] /\ UNCHANGED queue
      <4>1. queue[g] <= queue[g] /\ queue' = [queue EXCEPT ![g] = queue[g]]
        BY <1>0, <2>5, <3>2
      <4> QED
        BY <1>0, <3>2, <4>1
    <3>3. CASE say[g].next = "ack" /\ gatewayTodo' = [gatewayTodo EXCEPT ![g] = @ - 1]
                                   /\ queue' = [queue EXCEPT ![g] = @ - 1]
      <4> DEFINE n == queue[g] - 1
                 m == gatewayTodo[g] - 1
      <4>1. queue' = [queue EXCEPT ![g] = n] /\ gatewayTodo' = [gatewayTodo EXCEPT ![g] = m]
        BY <3>3
      <4>2. gatewayTodo[g] > 0
        BY <1>5, <3>3 DEF Edges!SendBeat
      <4>3. n \in 0..MaxQueue /\ m \in 0..MaxQueue /\ m <= n
        BY <1>0, <4>2
      <4> HIDE DEF n, m
      <4> QED
        BY <4>1, <4>3
    <3> QED
      BY <1>5, <3>1, <3>2, <3>3 DEF Edges!SendBeat, Edges!AfterBeat
  <2>7. PICK step \in {"poll", "replay"} : gatewayPc' = [gatewayPc EXCEPT ![g] = step]
    BY <1>5 DEF Edges!SendBeat, Edges!AfterBeat, Edges!Goto
  <2>8. /\ say' = [say EXCEPT ![g] = Edges!Quiet]
        /\ UNCHANGED <<connector, scope, tokens>>
    BY <1>5 DEF Edges!SendBeat
  <2> QED
    BY <2>2, <2>3, <2>4, <2>6, <2>7, <2>8 DEF CloudTyped
<1>6. CASE Edges!RowTaken(g)
  <2>1. CloudTyped'
    BY <1>0, <1>6, ReportsAreTyped DEF Edges!RowTaken
  <2>2. /\ gatewayPc' \in [Gateway -> {"poll", "beat", "replay", "dead"}]
        /\ say' \in [Gateway -> Edges!Said]
        /\ \A h \in Gateway \ {g} : gatewayPc'[h] = gatewayPc[h] /\ say'[h] = say[h]
    BY <1>2, <1>6 DEF Edges!RowTaken
  <2>3. gatewayTodo[g] > 0 /\ UNCHANGED <<connector, scope, queue, gatewayTodo, late, tokens>>
    BY <1>6 DEF Edges!RowTaken
  <2> QED
    BY <2>1, <2>2, <2>3 DEF CloudTyped
<1>7. CASE Edges!RowRefused(g) \/ Edges!RowRaises(g)
  <2>1. CloudTyped'
    BY <1>0, <1>7, ReportsAreTyped DEF Edges!RowRefused, Edges!RowRaises
  <2>2. gatewayTodo[g] > 0
    BY <1>7 DEF Edges!RowRefused, Edges!RowRaises
  <2>3. PICK m \in 0..MaxQueue : m <= queue[g] /\ gatewayTodo' = [gatewayTodo EXCEPT ![g] = m]
    <3> DEFINE m == IF Edges!RowRefused(g) THEN gatewayTodo[g] - 1 ELSE 0
    <3>1. m \in 0..MaxQueue /\ m <= queue[g]
      BY <1>0, <2>2
    <3>2. gatewayTodo' = [gatewayTodo EXCEPT ![g] = m]
      BY <1>7 DEF Edges!RowRefused, Edges!RowRaises
    <3> HIDE DEF m
    <3> QED
      BY <3>1, <3>2
  <2>4. gatewayPc[g] = "replay"
    BY <1>7 DEF Edges!RowRefused, Edges!RowRaises
  <2>5. PICK step \in {"poll", "replay"} : gatewayPc' = [gatewayPc EXCEPT ![g] = step]
    <3>1. gatewayPc = [gatewayPc EXCEPT ![g] = gatewayPc[g]]
      OBVIOUS
    <3> QED
      BY <1>7, <2>4, <3>1 DEF Edges!RowRefused, Edges!RowRaises, Edges!Goto
  <2>6. UNCHANGED <<connector, scope, say, queue, late, tokens>>
    BY <1>7 DEF Edges!RowRefused, Edges!RowRaises
  <2> QED
    BY <2>1, <2>3, <2>5, <2>6 DEF CloudTyped
<1>8. CASE Edges!ReplayEnds(g)
  BY <1>8 DEF Edges!ReplayEnds, Edges!Goto, Edges!cloud
<1> QED
  BY <1>3, <1>4, <1>5, <1>6, <1>7, <1>8 DEF Edges!Step

LEMMA TokensAreTyped ==
  ASSUME PartsAssumption, EdgesTypes,
         \/ Edges!Midnight
         \/ \E t \in Token : Edges!Revoke(t) \/ \E d \in Lifetime : Edges!Issue(t, d)
  PROVE  EdgesTypes'
<1>0. /\ Lifetime \subseteq Nat
      /\ tokens \in [Token -> Edges!TokenRow \cup {None}]
  BY DEF PartsAssumption, Edges!FleetAssumption, EdgesTypes, Edges!TypeOK
<1>1. tokens' \in [Token -> Edges!TokenRow \cup {None}]
  <2>1. CASE Edges!Midnight
    <3>1. ASSUME NEW t \in Token, Edges!Expiring(t)
          PROVE  [tokens[t] EXCEPT !.days = @ - 1] \in Edges!TokenRow
      <4>1. tokens[t] \in Edges!TokenRow /\ tokens[t].days \in Nat \ {0}
        BY <1>0, <3>1 DEF Edges!Expiring, Edges!TokenRow
      <4> QED
        BY <4>1 DEF Edges!TokenRow
    <3> QED
      BY <1>0, <2>1, <3>1 DEF Edges!Midnight
  <2>2. ASSUME NEW t \in Token, Edges!Revoke(t)
        PROVE  tokens' \in [Token -> Edges!TokenRow \cup {None}]
    <3>1. [tokens[t] EXCEPT !.revoked = TRUE] \in Edges!TokenRow
      BY <1>0, <2>2 DEF Edges!Revoke, Edges!TokenRow
    <3> QED
      BY <1>0, <2>2, <3>1 DEF Edges!Revoke
  <2>3. ASSUME NEW t \in Token, NEW d \in Lifetime, Edges!Issue(t, d)
        PROVE  tokens' \in [Token -> Edges!TokenRow \cup {None}]
    <3>1. [days |-> IF d = 0 THEN None ELSE d, revoked |-> FALSE] \in Edges!TokenRow
      BY <1>0 DEF Edges!TokenRow
    <3> QED
      BY <1>0, <2>3, <3>1 DEF Edges!Issue
  <2> QED
    BY <2>1, <2>2, <2>3
<1>2. UNCHANGED <<connector, scope, gatewayPc, say, queue, gatewayTodo, late, gateways, beats>>
  BY DEF Edges!Midnight, Edges!Revoke, Edges!Issue, Edges!edge
<1> QED
  BY <1>1, <1>2 DEF EdgesTypes, Edges!TypeOK

LEMMA EdgesTyped ==
  ASSUME PartsAssumption, EdgesTypes, Edges!Next \/ UNCHANGED edges
  PROVE  EdgesTypes'
<1> USE DEF EdgesTypes, Edges!TypeOK
<1>1. ASSUME NEW g \in Gateway, Edges!ConnectorChanges(g) \/ Edges!Dies(g) \/ Edges!Starts(g)
      PROVE  EdgesTypes'
  <2>1. MaxQueue \in Nat /\ Edges!Quiet \in Edges!Said
    BY DEF PartsAssumption, Edges!FleetAssumption, Edges!Quiet, Edges!Said, Edges!Status
  <2>2. CASE Edges!ConnectorChanges(g)
    BY <2>2 DEF Edges!ConnectorChanges, Edges!cloud
  <2>3. CASE Edges!Dies(g)
    BY <2>1, <2>3 DEF Edges!Dies, Edges!Goto, Edges!cloud
  <2>4. CASE Edges!Starts(g)
    BY <2>4 DEF Edges!Starts, Edges!Goto, Edges!cloud
  <2> QED
    BY <1>1, <2>2, <2>3, <2>4
<1>2. ASSUME NEW g \in Gateway, Edges!Ages(g)
      PROVE  EdgesTypes'
  <2>1. beats[g] \in Edges!Beat
    BY <1>2 DEF Edges!Ages
  <2>2. PICK a \in Edges!Age : beats' = [beats EXCEPT ![g] = [beats[g] EXCEPT !.age = a]]
    BY <1>2 DEF Edges!Ages, Edges!Age
  <2>3. [beats[g] EXCEPT !.age = a] \in Edges!Beat
    BY <2>1 DEF Edges!Beat
  <2>4. beats' \in [Gateway -> Edges!Beat \cup {None}]
    BY <2>2, <2>3
  <2> QED
    BY <1>2, <2>4 DEF Edges!Ages, Edges!edge
<1>3. ASSUME NEW m \in late, Edges!Arrives(m)
      PROVE  EdgesTypes'
  <2>1. m.gateway \in Gateway /\ m.scope \in Scope /\ m.status \in Edges!Status
    BY DEF Edges!Heartbeat
  <2>2. Edges!Drifted(m.status) \subseteq Edges!Status
    BY <2>1 DEF Edges!Drifted, Edges!Status
  <2>3. CloudTyped
    BY DEF CloudTyped
  <2>4. CloudTyped'
    BY <1>3, <2>1, <2>2, <2>3, ReportsAreTyped DEF Edges!Arrives
  <2> QED
    BY <1>3, <2>4 DEF Edges!Arrives, Edges!edge, CloudTyped
<1>4. CASE Edges!CloudRestarts
  BY <1>4 DEF Edges!CloudRestarts, Edges!edge
<1>5. CASE UNCHANGED edges
  BY <1>5 DEF edges
<1> QED
  BY <1>1, <1>2, <1>3, <1>4, <1>5, StepsAreTyped, TokensAreTyped DEF Edges!Next

-----------------------------------------------------------------------------
(* The older gateway. *)

(* Where it stands in its table, and what the cloud has of it. *)
AgentTypes ==
  /\ agentAt + agentTodo <= Len(pending) + 1
  /\ agentPc \in {"sleeping", "flushing", "pushing"}
  /\ crashes \in 0..MaxCrashes
  /\ up \in BOOLEAN
  /\ shown \in Agent!Snapshot \cup {None}
  /\ latePushes \subseteq Agent!Snapshot
  /\ heard \subseteq {"edge", "bus"}

LEMMA AgentStartTyped ==
  ASSUME PartsAssumption, Init
  PROVE  AgentTypes
<1>1. Len(<<>>) = 0 /\ MaxCrashes \in Nat
  BY DEF PartsAssumption, Agent!AgentAssumption
<1> QED
  BY <1>1 DEF Init, Agent!Init, AgentTypes

LEMMA PushesAreTyped ==
  ASSUME AgentTypes, NEW snap \in Agent!Snapshot, NEW ok \in BOOLEAN, Agent!PushSnapshot(snap, ok)
  PROVE  shown' \in Agent!Snapshot \cup {None} /\ latePushes' \subseteq Agent!Snapshot
BY DEF Agent!PushSnapshot, AgentTypes

LEMMA BeatsAreTyped ==
  ASSUME AgentTypes, NEW protocol \in {"edge", "bus"}, Agent!Beat(protocol)
  PROVE  heard' \subseteq {"edge", "bus"}
BY DEF Agent!Beat, Agent!Heard, AgentTypes

LEMMA AgentTyped ==
  ASSUME PartsAssumption, AgentInv, AgentTypes, Agent!Next \/ UNCHANGED agent
  PROVE  AgentTypes'
<1>0. /\ Len(pending) \in Nat /\ DOMAIN pending = 1..Len(pending)
      /\ agentAt \in Nat \ {0} /\ agentTodo \in Nat /\ MaxCrashes \in Nat /\ Limit \in Nat
      /\ None \notin Agent!Snapshot
      /\ \A i \in 1..Len(pending) : pending[i] \in Agent!Row /\ pending[i].snap \in Agent!Snapshot
  BY RowsOfTheTable DEF AgentInv, PartsAssumption, Agent!AgentAssumption, Agent!Row, Agent!Snapshot
<1>1. CASE Agent!Begin
  <2>1. agentAt' + agentTodo' <= Len(pending') + 1
    BY <1>0, <1>1 DEF Agent!Begin
  <2> QED
    BY <1>1, <2>1, BeatsAreTyped DEF Agent!Begin, AgentTypes
<1>2. CASE Agent!Flush
  <2>1. /\ agentPc = "flushing" /\ agentTodo > 0 /\ agentTodo' = agentTodo - 1
        /\ agentAt + agentTodo = Len(pending) + 1
        /\ UNCHANGED <<agentPc, crashes, up, heard>>
    BY <1>2 DEF Agent!Flush, AgentInv
  <2>2. agentAt \in 1..Len(pending)
    BY <1>0, <2>1
  <2>3. PICK ok \in BOOLEAN : /\ Agent!PushSnapshot(pending[agentAt].snap, ok)
                              /\ IF ok THEN Agent!AfterSuccess ELSE Agent!AfterFailure
    BY <1>2 DEF Agent!Flush
  <2>4. shown' \in Agent!Snapshot \cup {None} /\ latePushes' \subseteq Agent!Snapshot
    BY <1>0, <2>2, <2>3, PushesAreTyped
  <2>5. \/ pending' = Agent!RemoveAt(pending, agentAt) /\ agentAt' = agentAt
        \/ pending' = Agent!Bumped /\ agentAt' = agentAt + 1
    BY <2>3 DEF Agent!AfterSuccess, Agent!AfterFailure
  <2>6. CASE pending' = Agent!RemoveAt(pending, agentAt) /\ agentAt' = agentAt
    <3>1. Len(pending') = Len(pending) - 1
      BY <2>2, <2>6, RemoveAtProperties DEF AgentInv
    <3> QED
      BY <1>0, <2>1, <2>4, <2>6, <3>1 DEF AgentTypes
  <2>7. CASE pending' = Agent!Bumped /\ agentAt' = agentAt + 1
    <3>1. Len(pending') = Len(pending)
      BY <2>7 DEF Agent!Bumped, AgentInv
    <3> QED
      BY <1>0, <2>1, <2>4, <2>7, <3>1 DEF AgentTypes
  <2> QED
    BY <2>5, <2>6, <2>7
<1>3. CASE Agent!ReadSensors
  <2>1. Len(pending') = Len(pending)
    BY <1>0, <1>3 DEF Agent!ReadSensors
  <2>2. \A s \in Agent!Snapshot : Agent!Aged(s) \in Agent!Snapshot
    BY <1>0 DEF Agent!Aged, Agent!Snapshot
  <2>3. Agent!Aged(shown) \in Agent!Snapshot \cup {None}
    BY DEF Agent!Aged, Agent!Snapshot
  <2> QED
    BY <1>3, <2>1, <2>2, <2>3 DEF Agent!ReadSensors, AgentTypes
<1>4. CASE Agent!NoSensors
  BY <1>4 DEF Agent!NoSensors, Agent!cloud, AgentTypes
<1>5. CASE Agent!Push
  <2>1. PICK ok \in BOOLEAN : /\ Agent!PushSnapshot("newest", ok)
                              /\ IF ok THEN UNCHANGED pending ELSE Agent!Enqueue
    BY <1>5 DEF Agent!Push
  <2>2. "newest" \in Agent!Snapshot
    BY DEF Agent!Snapshot
  <2>3. Len(pending') >= Len(pending) /\ Len(pending') \in Nat
    <3>1. CASE Agent!Enqueue
      BY <1>0, <3>1, AppendProperties DEF Agent!Enqueue, AgentInv
    <3> QED
      BY <1>0, <2>1, <3>1
  <2> QED
    BY <1>0, <1>5, <2>1, <2>2, <2>3, PushesAreTyped, BeatsAreTyped DEF Agent!Push, AgentTypes
<1>6. CASE Agent!Crash
  <2>1. shown' \in Agent!Snapshot \cup {None} /\ latePushes' \subseteq Agent!Snapshot
    <3>1. CASE UNCHANGED <<shown, latePushes>>
      BY <3>1 DEF AgentTypes
    <3>2. CASE agentPc = "flushing" /\ agentTodo > 0
                /\ \E ok \in BOOLEAN : Agent!PushSnapshot(pending[agentAt].snap, ok)
      <4>1. agentAt \in 1..Len(pending)
        BY <1>0, <3>2 DEF AgentInv
      <4> QED
        BY <1>0, <3>2, <4>1, PushesAreTyped
    <3>3. CASE \E ok \in BOOLEAN : Agent!PushSnapshot("newest", ok)
      BY <3>3, PushesAreTyped DEF Agent!Snapshot
    <3> QED
      BY <1>6, <3>1, <3>2, <3>3 DEF Agent!Crash
  <2>2. Len(pending') \in Nat
    <3>1. pending' = pending \/ pending' = Agent!Bumped
      BY <1>6 DEF Agent!Crash
    <3> QED
      BY <1>0, <3>1 DEF Agent!Bumped, AgentInv
  <2> QED
    BY <1>0, <1>6, <2>1, <2>2 DEF Agent!Crash, AgentTypes
<1>7. CASE Agent!NetworkChanges \/ Agent!CloudRestarts
  BY <1>7 DEF Agent!NetworkChanges, Agent!CloudRestarts, Agent!agent, Agent!cloud, AgentTypes
<1>8. ASSUME NEW snap \in Agent!Snapshot, Agent!PushArrives(snap)
      PROVE  AgentTypes'
  BY <1>8 DEF Agent!PushArrives, Agent!agent, AgentTypes
<1>9. CASE UNCHANGED agent
  BY <1>9 DEF agent, AgentTypes
<1> QED
  BY <1>1, <1>2, <1>3, <1>4, <1>5, <1>6, <1>7, <1>8, <1>9 DEF Agent!Next, Agent!Round

-----------------------------------------------------------------------------
(* Buildings and accounts. *)

(* Credentials are stored, and buildings reached, of buildings only. *)
OwnersTypes ==
  /\ savedOwn \subseteq OwnedBuilding /\ keptOwn \subseteq OwnedBuilding
  /\ tested \subseteq OwnedBuilding

LEMMA OwnersStartTyped ==
  ASSUME Init
  PROVE  OwnersTypes
BY DEF Init, Owners!Init, OwnersTypes

LEMMA OwnersTyped ==
  ASSUME OwnersInv, OwnersTypes, Owners!Next \/ UNCHANGED owners
  PROVE  OwnersTypes'
<1> USE DEF OwnersTypes
<1>1. ASSUME NEW q \in Request, request[q] # Owners!Idle
      PROVE  request[q].building \in OwnedBuilding
  BY <1>1 DEF OwnersInv, ReachedInv, Asked
<1>2. ASSUME NEW q \in Request, Owners!SaveConnection(q) \/ Owners!TestConnection(q)
      PROVE  OwnersTypes'
  <2>1. request[q] # Owners!Idle
    BY <1>2 DEF Owners!SaveConnection, Owners!TestConnection, Owners!Idle
  <2> QED
    BY <1>1, <1>2, <2>1 DEF Owners!SaveConnection, Owners!TestConnection, Owners!process,
                            Owners!history, Owners!tables
<1>3. ASSUME NEW q \in Request,
             \/ Owners!InsertRow(q) \/ Owners!UpdateStatus(q) \/ Owners!PatchProfile(q)
             \/ Owners!Raises(q)
      PROVE  OwnersTypes'
  BY <1>3 DEF Owners!InsertRow, Owners!UpdateStatus, Owners!PatchProfile, Owners!Raises,
              Owners!process, Owners!history, Owners!tables
<1>4. ASSUME NEW q \in Request, NEW a \in Account, NEW b \in OwnedBuilding,
             \/ \E credentials \in BOOLEAN : Owners!Create(q, a, b, credentials)
             \/ Owners!Test(q, a, b)
             \/ \E profile \in Profile : Owners!UpdateProfile(q, a, b, profile)
      PROVE  OwnersTypes'
  BY <1>4 DEF Owners!Create, Owners!Test, Owners!UpdateProfile, Owners!process, Owners!history,
              Owners!tables
<1>5. ASSUME NEW a \in Account, NEW b \in OwnedBuilding, Owners!Live(a, b) \/ Owners!Stream(a, b)
      PROVE  OwnersTypes'
  BY <1>5 DEF Owners!Live, Owners!Stream, Owners!Serves, Owners!process, Owners!tables
<1>6. CASE Owners!Restart
  BY <1>6 DEF Owners!Restart, Owners!history, Owners!tables
<1>7. CASE UNCHANGED owners
  BY <1>7 DEF owners
<1> QED
  BY <1>2, <1>3, <1>4, <1>5, <1>6, <1>7 DEF Owners!Next

-----------------------------------------------------------------------------
(* Fault detection in operation. *)

LEMMA OperationsStartTyped ==
  ASSUME PartsAssumption, Init
  PROVE  Ops!TypeOK
<1>1. /\ Ops!Live!Init /\ Ops!Store!Init /\ Ops!Desk!Init /\ mishaps = 0
      /\ MaxMishaps \in Nat /\ NumBuildings \in Nat
  BY DEF Init, Ops!Init, PartsAssumption, Ops!OperationsAssumption, Ops!Live!AlertsAssumption
<1>2. Ops!Live!TypeOK
  BY <1>1 DEF Ops!Live!Init, Ops!Live!TypeOK
<1>3. Ops!Store!TypeOK /\ Ops!Desk!TypeOK
  BY <1>1 DEF Ops!Store!Init, Ops!Store!TypeOK, Ops!Desk!Init, Ops!Desk!TypeOK
<1> QED
  BY <1>1, <1>2, <1>3 DEF Ops!TypeOK

(* The scan of a poll adds alerts to alerts, and conditions that hold. *)
LEMMA ScansAreTyped ==
  ASSUME Ops!Live!TypeOK, NEW t \in Ops!Live!Poller, NEW list \in SUBSET Ops!Live!Alert, NEW seen
  PROVE  Ops!Live!Scanned(list, seen, t) \subseteq Ops!Live!Alert
<1>1. \A b : Ops!Live!Evaluate(b) \subseteq Ops!Live!Condition
  BY DEF Ops!Live!Evaluate, Ops!Live!TypeOK
<1>2. \A c \in Ops!Live!Condition : Ops!Live!Raised(list, c, t) \subseteq Ops!Live!Alert
  BY DEF Ops!Live!Raised, Ops!Live!Alert, Ops!Live!Task
<1> QED
  BY <1>1, <1>2 DEF Ops!Live!Scanned

LEMMA PollRunsTyped ==
  ASSUME PartsAssumption, Ops!Live!TypeOK, NEW t \in Ops!Live!Poller,
         NEW list \in SUBSET Ops!Live!Alert, NEW first \in Nat \ {0},
         Ops!Live!PollRuns(t, list, first), UNCHANGED <<prone, present, results>>
  PROVE  Ops!Live!TypeOK'
<1> USE DEF Ops!Live!TypeOK
<1>0. NumBuildings \in Nat /\ t \in Ops!Live!Task
  BY DEF PartsAssumption, Ops!OperationsAssumption, Ops!Live!AlertsAssumption, Ops!Live!Task
<1> DEFINE Scans(stop, seen) ==
        IF stop <= NumBuildings
        THEN /\ pc' = [pc EXCEPT ![t] = "waiting"]
             /\ copy' = [copy EXCEPT ![t] = Ops!Live!Scanned(list, seen, t)]
             /\ at' = [at EXCEPT ![t] = stop]
             /\ UNCHANGED <<alerts, left, found>>
        ELSE /\ alerts' = Ops!Live!Scanned(list, seen, t)
             /\ at' = [at EXCEPT ![t] = 1]
             /\ IF t = "boot" THEN Ops!Live!FddBegins(t, alerts')
                ELSE Ops!Live!Finish(t) /\ UNCHANGED <<left, found>>
<1>1. PICK stop \in first..NumBuildings + 1 : \E seen : Scans(stop, seen)
  BY DEF Ops!Live!PollRuns, Ops!Live!SetAlerts
<1>2. PICK seen : Scans(stop, seen)
  BY <1>1
<1> DEFINE new == Ops!Live!Scanned(list, seen, t)
<1>3. new \subseteq Ops!Live!Alert
  BY ScansAreTyped
<1> HIDE DEF new
<1>4. stop \in 1..NumBuildings + 1 /\ 1 \in 1..NumBuildings + 1
  BY <1>0
<1>5. CASE stop <= NumBuildings
  BY <1>0, <1>2, <1>3, <1>4, <1>5 DEF new
<1>6. CASE ~(stop <= NumBuildings) /\ t = "boot"
  <2>1. /\ alerts' = new /\ at' = [at EXCEPT ![t] = 1]
        /\ Ops!Live!FddBegins(t, new)
    BY <1>2, <1>6 DEF new
  <2> QED
    BY <1>0, <1>3, <1>4, <2>1 DEF Ops!Live!FddBegins
<1>7. CASE ~(stop <= NumBuildings) /\ t # "boot"
  <2>1. /\ alerts' = new /\ at' = [at EXCEPT ![t] = 1]
        /\ Ops!Live!Finish(t) /\ UNCHANGED <<left, found>>
    BY <1>2, <1>7 DEF new
  <2> QED
    BY <1>0, <1>3, <1>4, <2>1 DEF Ops!Live!Finish, Ops!Live!Ended
<1> QED
  BY <1>5, <1>6, <1>7

LEMMA ListsTyped ==
  ASSUME PartsAssumption, Ops!Live!TypeOK, Ops!Live!Next \/ UNCHANGED Ops!Live!vars
  PROVE  Ops!Live!TypeOK'
<1> USE DEF Ops!Live!TypeOK, Ops!Live!world, Ops!Live!cache, Ops!Live!jobs
<1>0. /\ NumBuildings \in Nat /\ 1 \in 1..NumBuildings + 1
      /\ \A C \in Prone : C \subseteq Ops!Live!Condition
      /\ Ops!Live!Poller \subseteq Ops!Live!Task
      /\ Ops!Live!Poller = {"poll", "boot"} /\ Ops!Live!Task = {"poll", "boot", "fdd"}
  BY DEF PartsAssumption, Ops!OperationsAssumption, Ops!Live!AlertsAssumption, Ops!Live!Task,
         Ops!Live!Poller
<1>1. CASE Ops!Live!ConditionChanges
  BY <1>0, <1>1 DEF Ops!Live!ConditionChanges
<1>2. CASE Ops!Live!PollStart
  BY <1>2 DEF Ops!Live!PollStart
<1>3. CASE Ops!Live!FddStart
  BY <1>3 DEF Ops!Live!FddStart, Ops!Live!FddBegins
<1>4. ASSUME NEW t \in Ops!Live!Poller, Ops!Live!PollScans(t)
      PROVE  Ops!Live!TypeOK'
  <2>1. Ops!Live!PollRuns(t, alerts, 1) /\ UNCHANGED <<prone, present, results>>
    BY <1>4 DEF Ops!Live!PollScans
  <2>2. alerts \in SUBSET Ops!Live!Alert /\ 1 \in Nat \ {0}
    OBVIOUS
  <2> QED
    BY <2>1, <2>2, PollRunsTyped
<1>5. ASSUME NEW t \in Ops!Live!Poller, Ops!Live!PollResumes(t)
      PROVE  Ops!Live!TypeOK'
  <2>1. PICK seen : Ops!Live!PollRuns(t, Ops!Live!Scanned(copy[t], seen, t), at[t] + 1)
    BY <1>5 DEF Ops!Live!PollResumes
  <2>2. UNCHANGED <<prone, present, results>>
    BY <1>5 DEF Ops!Live!PollResumes
  <2>3. at[t] + 1 \in Nat \ {0} /\ copy[t] \subseteq Ops!Live!Alert
    BY <1>0
  <2>4. Ops!Live!Scanned(copy[t], seen, t) \subseteq Ops!Live!Alert
    BY <2>3, ScansAreTyped
  <2> QED
    BY <2>1, <2>2, <2>3, <2>4, PollRunsTyped
<1>6. ASSUME NEW t \in Ops!Live!Poller, Ops!Live!PollRaises(t)
      PROVE  Ops!Live!TypeOK'
  BY <1>0, <1>6 DEF Ops!Live!PollRaises, Ops!Live!Finish, Ops!Live!Ended
<1>7. ASSUME NEW t \in Ops!Live!Task, NEW c \in FddCondition, Ops!Live!FddReports(t, c)
      PROVE  Ops!Live!TypeOK'
  <2>1. copy[t] \cup Ops!Live!Raised(copy[t], c, t) \subseteq Ops!Live!Alert
    BY DEF Ops!Live!Raised, Ops!Live!Alert, Ops!Live!Condition
  <2>2. copy' \in [Ops!Live!Task -> SUBSET Ops!Live!Alert]
    BY <1>7, <2>1 DEF Ops!Live!FddReports
  <2> QED
    BY <1>7, <2>2 DEF Ops!Live!FddReports
<1>8. ASSUME NEW t \in Ops!Live!Task, Ops!Live!FddEnds(t)
      PROVE  Ops!Live!TypeOK'
  BY <1>8 DEF Ops!Live!FddEnds, Ops!Live!Finish, Ops!Live!Ended, Ops!Live!SetAlerts
<1>11. ASSUME NEW t \in Ops!Live!Task, Ops!Live!FddRaises(t)
      PROVE  Ops!Live!TypeOK'
  BY <1>11 DEF Ops!Live!FddRaises, Ops!Live!Finish, Ops!Live!Ended
<1>9. CASE Ops!Live!Restart
  BY <1>0, <1>9 DEF Ops!Live!Restart
<1>10. CASE UNCHANGED Ops!Live!vars
  BY <1>10 DEF Ops!Live!vars
<1> QED
  BY <1>1, <1>2, <1>3, <1>4, <1>5, <1>6, <1>7, <1>8, <1>9, <1>10, <1>11 DEF Ops!Live!Next

(* What a step of the composition is to each of the three components. *)
LEMMA StepsOfOperations ==
  ASSUME left \subseteq FddCondition, Ops!Next \/ UNCHANGED operations
  PROVE  /\ Ops!Live!Next \/ UNCHANGED Ops!Live!vars
         /\ (\E c \in FddCondition : Ops!Store!Upsert(c)) \/ UNCHANGED Ops!Store!vars
         /\ \/ \E c \in FddCondition : Ops!Desk!Generate(Ops!Store!IdOf(c))
            \/ UNCHANGED Ops!Desk!vars
         /\ mishaps' = mishaps \/ Ops!Mishap
<1> USE DEF Ops!NoRow, Ops!store, Ops!desk, Ops!Store!vars, Ops!Desk!vars
<1>1. CASE Ops!ConditionChanges \/ Ops!PollStart \/ Ops!FddStart
  BY <1>1 DEF Ops!ConditionChanges, Ops!PollStart, Ops!FddStart, Ops!Live!Next
<1>2. CASE Ops!Restart
  BY <1>2 DEF Ops!Restart, Ops!Live!Next
<1>3. ASSUME NEW t \in Ops!Live!Poller, Ops!PollStep(t) \/ Ops!PollRaises(t)
      PROVE  /\ Ops!Live!Next
             /\ UNCHANGED Ops!Store!vars /\ UNCHANGED Ops!Desk!vars
             /\ mishaps' = mishaps \/ Ops!Mishap
  BY <1>3 DEF Ops!PollStep, Ops!PollRaises, Ops!Live!Next
<1>4. ASSUME NEW t \in Ops!Live!Task, Ops!FddEnds(t)
      PROVE  /\ Ops!Live!Next
             /\ UNCHANGED Ops!Store!vars /\ UNCHANGED Ops!Desk!vars
             /\ mishaps' = mishaps
  BY <1>4 DEF Ops!FddEnds, Ops!Live!Next
<1>5. ASSUME NEW t \in Ops!Live!Task, NEW c \in FddCondition, Ops!FddReports(t, c)
      PROVE  /\ Ops!Live!Next /\ Ops!Store!Upsert(c)
             /\ Ops!Desk!Generate(Ops!Store!IdOf(c)) \/ UNCHANGED Ops!Desk!vars
             /\ mishaps' = mishaps
  BY <1>5 DEF Ops!FddReports, Ops!Recommend, Ops!Live!Next
<1>6. ASSUME NEW t \in Ops!Live!Task, Ops!FddRaises(t)
      PROVE  /\ Ops!Live!Next
             /\ (\E c \in FddCondition : Ops!Store!Upsert(c)) \/ UNCHANGED Ops!Store!vars
             /\ \/ \E c \in FddCondition : Ops!Desk!Generate(Ops!Store!IdOf(c))
                \/ UNCHANGED Ops!Desk!vars
             /\ Ops!Mishap
  <2>1. Ops!Live!Next /\ Ops!Mishap
    BY <1>6 DEF Ops!FddRaises, Ops!Live!Next
  <2>2. CASE UNCHANGED <<Ops!store, Ops!desk>>
    BY <2>1, <2>2
  <2>3. ASSUME NEW c \in left, Ops!Store!Upsert(c), Ops!Recommend(c) \/ UNCHANGED Ops!desk
        PROVE  /\ \E d \in FddCondition : Ops!Store!Upsert(d)
               /\ \/ \E d \in FddCondition : Ops!Desk!Generate(Ops!Store!IdOf(d))
                  \/ UNCHANGED Ops!Desk!vars
    BY <2>3 DEF Ops!Recommend
  <2> QED
    BY <1>6, <2>1, <2>2, <2>3 DEF Ops!FddRaises
<1>7. CASE UNCHANGED operations
  BY <1>7 DEF operations, Ops!Live!vars, Ops!Live!world, Ops!Live!cache, Ops!Live!jobs
<1> QED
  BY <1>1, <1>2, <1>3, <1>4, <1>5, <1>6, <1>7 DEF Ops!Next

LEMMA OperationsTyped ==
  ASSUME PartsAssumption, Ops!TypeOK, Ops!Next \/ UNCHANGED operations
  PROVE  Ops!TypeOK'
<1>0. left \subseteq FddCondition /\ RowsTyped
  BY DEF Ops!TypeOK, Ops!Live!TypeOK, Ops!Store!TypeOK, Ops!Desk!TypeOK, RowsTyped
<1>1. Ops!Live!TypeOK'
  BY <1>0, StepsOfOperations, ListsTyped DEF Ops!TypeOK
<1>2. Ops!Store!TypeOK'
  <2>1. CASE UNCHANGED Ops!Store!vars
    BY <2>1 DEF Ops!TypeOK, Ops!Store!TypeOK, Ops!Store!vars
  <2>2. ASSUME NEW c \in FddCondition, Ops!Store!Upsert(c)
        PROVE  Ops!Store!TypeOK'
    <3>1. UNCHANGED <<audit, unaudited>>
      BY <2>2 DEF Ops!Store!Upsert
    <3> QED
      BY <1>0, <2>2, <3>1, UpsertRecords DEF Ops!TypeOK, Ops!Store!TypeOK
  <2> QED
    BY <1>0, <2>1, <2>2, StepsOfOperations
<1>3. Ops!Desk!TypeOK'
  <2>1. CASE UNCHANGED Ops!Desk!vars
    BY <2>1 DEF Ops!TypeOK, Ops!Desk!TypeOK, Ops!Desk!vars
  <2>2. ASSUME NEW c \in FddCondition, Ops!Desk!Generate(Ops!Store!IdOf(c))
        PROVE  Ops!Desk!TypeOK'
    <3>1. "RECOMMENDED" \in Ops!Desk!State
      BY DEF Ops!Desk!State
    <3> QED
      BY <2>2, <3>1 DEF Ops!Desk!Generate, Ops!Desk!Upserted, Ops!Desk!vars, Ops!TypeOK, Ops!Desk!TypeOK
  <2> QED
    BY <1>0, <2>1, <2>2, StepsOfOperations
<1>4. mishaps' \in 0..MaxMishaps
  <2>1. MaxMishaps \in Nat /\ mishaps \in 0..MaxMishaps
    BY DEF PartsAssumption, Ops!OperationsAssumption, Ops!TypeOK
  <2>2. mishaps' = mishaps \/ (mishaps < MaxMishaps /\ mishaps' = mishaps + 1)
    BY <1>0, StepsOfOperations DEF Ops!Mishap
  <2> QED
    BY <2>1, <2>2
<1> QED
  BY <1>1, <1>2, <1>3, <1>4 DEF Ops!TypeOK

-----------------------------------------------------------------------------
(* What a behaviour satisfies of the part it follows: its types, with what  *)
(* they need to be preserved.                                               *)
PartsTyped ==
  /\ part \in Part
  /\ part = "operations" => Ops!TypeOK
  /\ part = "faults" => RowsInv
  /\ part = "recommendations" => DeskInv
  /\ part = "savings" => MoneyInv /\ backend \in Stores
  /\ part = "evaluation" => RulesInv
  /\ part = "fleet" => EdgesTypes
  /\ part = "health" => HealthInv
  /\ part = "snapshots" => Snapshots!TypeOK
  /\ part = "commissioning" => Setup!TypeOK
  /\ part = "agent" => AgentInv /\ AgentTypes
  /\ part = "buildings" => OwnersInv /\ OwnersTypes

LEMMA PartsStartTyped == Init => PartsTyped
<1> SUFFICES ASSUME Init
             PROVE  PartsTyped
  OBVIOUS
<1>1. part \in Part /\ backend \in Stores
  BY DEF Init, Money!Init
<1> QED
  BY <1>1, PartsAssumption, OperationsStartTyped, RowsStart, DeskStart, MoneyStart, RulesStart,
     EdgesStartTyped, HealthStart, SnapshotsStartTyped, SetupStartTyped, AgentStart,
     AgentStartTyped, OwnersStart, OwnersStartTyped
  DEF PartsTyped

LEMMA PartsStayTyped == PartsTyped /\ [Next]_vars => PartsTyped'
<1> SUFFICES ASSUME PartsTyped, [Next]_vars
             PROVE  PartsTyped'
  OBVIOUS
<1>1. CASE part \in {"operations", "faults", "recommendations", "savings", "evaluation", "fleet"}
  BY <1>1, PartSteps, PartsAssumption, OperationsTyped, RowsInvariant, DeskInvariant, MoneyInvariant,
     BackendStays, RulesInvariant, EdgesTyped
  DEF PartsTyped
<1>2. CASE part \in {"health", "snapshots", "commissioning", "agent", "buildings"}
  BY <1>2, PartSteps, PartsAssumption, HealthInvariant, SnapshotsTyped, SetupTyped, AgentInvariant,
     AgentTyped, OwnersInvariant, OwnersTyped
  DEF PartsTyped
<1> QED
  BY <1>1, <1>2 DEF PartsTyped, Part

(* Every value of the services beside ingest and collection stays of its    *)
(* type, whatever part a behaviour follows and for any constants: the       *)
(* counters of the gateways' queues, tables and retries never leave their   *)
(* bounds, and no row, request or list gains a field it should not have.    *)
THEOREM ServicesTypes == Spec => []TypeOK
<1>1. PartsTyped => TypeOK
  <2> SUFFICES ASSUME PartsTyped
               PROVE  TypeOK
    OBVIOUS
  <2>1. RowsInv => Rows!TypeOK
    BY DEF RowsInv, Rows!TypeOK
  <2>2. DeskInv => Desk!TypeOK
    BY DEF DeskInv, Desk!TypeOK
  <2>3. MoneyInv /\ backend \in Stores => Money!TypeOK
    BY DEF MoneyInv, Money!TypeOK
  <2>4. RulesInv => Rules!TypeOK
    BY DEF RulesInv, Rules!TypeOK
  <2>5. AgentInv /\ AgentTypes => Agent!TypeOK
    BY DEF AgentInv, AgentTypes, Agent!TypeOK
  <2>6. OwnersInv /\ OwnersTypes => Owners!TypeOK
    BY DEF OwnersInv, ReachedInv, ServedInv, Asked, OwnersTypes, Owners!TypeOK
  <2> QED
    BY <2>1, <2>2, <2>3, <2>4, <2>5, <2>6 DEF PartsTyped, TypeOK, EdgesTypes, HealthInv
<1> QED
  BY <1>1, PartsStartTyped, PartsStayTyped, PTL DEF Spec

(* The composition adds no behaviour to the components it puts together:    *)
(* what the operators of a building see is one behaviour of the jobs        *)
(* (LiveAlerts), one of the fault rows (Faults) and one of the              *)
(* recommendations (Recommendations), in step with each other, so whatever  *)
(* is shown of one of them alone holds in operation too.                    *)
THEOREM OperationsAreOfTheParts ==
  Spec /\ part = "operations" => Ops!Live!Spec /\ Ops!Store!Spec /\ Ops!Desk!Spec
<1> DEFINE Inv == part = "operations" /\ PartsTyped
<1>1. Init /\ part = "operations" =>
        Inv /\ Ops!Live!Init /\ Ops!Store!Init /\ Ops!Desk!Init
  BY PartsStartTyped DEF Init, Ops!Init
<1>2. Inv /\ [Next]_vars => Inv'
  BY PartsStayTyped, PartSteps
<1>3. Inv /\ [Next]_vars =>
        /\ [Ops!Live!Next]_Ops!Live!vars
        /\ [Ops!Store!Next]_Ops!Store!vars
        /\ [Ops!Desk!Next]_Ops!Desk!vars
  <2> SUFFICES ASSUME Inv, [Next]_vars
               PROVE  /\ [Ops!Live!Next]_Ops!Live!vars
                      /\ [Ops!Store!Next]_Ops!Store!vars
                      /\ [Ops!Desk!Next]_Ops!Desk!vars
    OBVIOUS
  <2>1. left \subseteq FddCondition
    BY DEF PartsTyped, Ops!TypeOK, Ops!Live!TypeOK
  <2>2. \A c \in FddCondition : Ops!Store!IdOf(c) \in Ops!Store!FaultId
    BY DEF Ops!Store!FaultId
  <2> QED
    BY <2>1, <2>2, PartSteps, StepsOfOperations DEF Ops!Store!Next, Ops!Desk!Next
<1> HIDE DEF Inv
<1> QED
  BY <1>1, <1>2, <1>3, PTL DEF Spec, Ops!Live!Spec, Ops!Store!Spec, Ops!Desk!Spec
=============================================================================
