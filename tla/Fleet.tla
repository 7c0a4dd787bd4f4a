------------------------------- MODULE Fleet -------------------------------
(***************************************************************************)
(* The fleet as operators see it: what the gateways report about           *)
(* themselves (buildopt-edge/app/main.py, telemetry/uploader.py), whose    *)
(* reports the cloud accepts (app/services/ingest_auth.py,                 *)
(* gateway_token_store.py, register_gateway of the telemetry store) and    *)
(* what GET /gateways lists (edge_heartbeat_store.py, app/api/gateways.py, *)
(* the end of the ingest handler in app/api/telemetry.py).                 *)
(*                                                                         *)
(* A gateway sends a heartbeat after every accepted upload, with status    *)
(* ONLINE whatever its connector does, and one with the connector's status *)
(* when it cannot read.  A refused upload sends none.  The cloud keeps the *)
(* last report in memory, records one of its own for every batch, and      *)
(* judges reports by their age when they are listed.  Ages are the classes *)
(* of list_gateways.  Readings are counted only.                           *)
(***************************************************************************)
EXTENDS Integers, FiniteSets

CONSTANTS
  Gateway,
  Scope,       \* pairs of a tenant and a building
  Token,
  TokenOf(_),  \* the scoped token a gateway uses as its key
  Lifetime,    \* expires_in_days of a request for a token; 0 for none
  MaxQueue,    \* model bound: queued readings
  MaxLate,     \* model bound: heartbeats under way that were given up
  None

FleetAssumption ==
  /\ \A g \in Gateway : TokenOf(g) \in Token
  /\ Lifetime \subseteq Nat
  /\ MaxQueue \in Nat /\ MaxLate \in Nat
  /\ None \notin Scope

VARIABLES
  connector,  \* per gateway, whether its building system answers
  scope,      \* the tenant and building a gateway is configured with
  pc,         \* where its loop stands: poll, beat, replay, or dead
  say,        \* the heartbeat it is about to send, and what it does then
  queue,      \* readings in its queue
  todo,       \* rows of dequeue_batch it has still to send
  late,       \* heartbeats the gateway gave up after 10 s
  gateways,   \* table gateways: the scope of a registered gateway
  tokens,     \* table gateway_tokens
  beats       \* _gateways: the last report of a gateway, in memory

edge == <<connector, scope, pc, say, queue, todo>>
cloud == <<gateways, tokens, beats>>
vars == <<edge, late, cloud>>

Status == {"ONLINE", "DEGRADED", "OFFLINE"}
Age == {"120s", "600s", "more"}
Beat == [scope : Scope, status : Status, age : Age]
Said == [status : Status, next : {"dequeue", "ack", "poll"}]
Heartbeat == [gateway : Gateway, scope : Scope, status : Status]
Quiet == [status |-> "ONLINE", next |-> "poll"]
TokenRow == [days : Nat \cup {None}, revoked : BOOLEAN]

Init ==
  /\ connector \in [Gateway -> {"up", "down"}]
  /\ scope \in [Gateway -> Scope]
  /\ pc = [g \in Gateway |-> "poll"]
  /\ say = [g \in Gateway |-> Quiet]
  /\ queue = [g \in Gateway |-> 0]
  /\ todo = [g \in Gateway |-> 0]
  /\ late = {}
  /\ gateways = [g \in Gateway |-> None]
  /\ tokens = [t \in Token |-> None]
  /\ beats = [g \in Gateway |-> None]

-----------------------------------------------------------------------------
(* Tokens. *)

(* POST /gateways/{id}/tokens: a lifetime ends at a midnight; 0 is no end.  *)
Issue(t, days) ==
  /\ tokens[t] = None
  /\ tokens' = [tokens EXCEPT ![t] = [days |-> IF days = 0 THEN None ELSE days, revoked |-> FALSE]]
  /\ UNCHANGED <<edge, late, gateways, beats>>

Revoke(t) ==
  /\ tokens[t] # None
  /\ tokens' = [tokens EXCEPT ![t].revoked = TRUE]
  /\ UNCHANGED <<edge, late, gateways, beats>>

Expiring(t) == tokens[t] # None /\ tokens[t].days \notin {None, 0}

Midnight ==
  /\ \E t \in Token : Expiring(t)
  /\ tokens' = [t \in Token |-> IF Expiring(t) THEN [tokens[t] EXCEPT !.days = @ - 1] ELSE tokens[t]]
  /\ UNCHANGED <<edge, late, gateways, beats>>

(* GatewayTokenStore.validate and verify_ingest_key. *)
KeyAccepted(g) ==
  /\ tokens[TokenOf(g)] # None
  /\ ~tokens[TokenOf(g)].revoked
  /\ tokens[TokenOf(g)].days # 0

-----------------------------------------------------------------------------
(* Reports, as the cloud takes them. *)

(* Slip: a gateway that is registered is let through wherever it reports from. *)
AuthorizedAnywhere(g, s) == KeyAccepted(g)

(* validate_gateway_scope: the first request binds a gateway to its scope.  *)
Authorized(g, s) == KeyAccepted(g) /\ gateways[g] \in {None, s}

Register(g, s) == gateways' = [gateways EXCEPT ![g] = IF @ = None THEN s ELSE @]

(* Slip: a connector that failed leaves the status that was known before.   *)
RecordedMerging(g, s, status) ==
  [scope |-> s, age |-> "120s",
   status |-> IF status = "OFFLINE" /\ beats[g] # None THEN beats[g].status ELSE status]

(* record_gateway *)
Recorded(g, s, status) == [scope |-> s, status |-> status, age |-> "120s"]

RecordGateway(g, s, status) ==
  /\ Authorized(g, s)
  /\ Register(g, s)
  /\ beats' = [beats EXCEPT ![g] = Recorded(g, s, status)]

(* The heartbeat endpoint compares the clocks: an ONLINE gateway whose clock *)
(* is off by more than 120 s becomes DEGRADED.                               *)
Drifted(status) == IF status = "ONLINE" THEN {"ONLINE", "DEGRADED"} ELSE {status}

(* A request that is answered with an error, or with nothing, may have left  *)
(* the registration behind, and no more.                                     *)
Refused(g, s) ==
  /\ \/ Authorized(g, s) /\ Register(g, s)
     \/ UNCHANGED gateways
  /\ UNCHANGED beats

(* A batch the gateway hears nothing of may have been accepted all the same. *)
Unanswered(g, s) == Refused(g, s) \/ RecordGateway(g, s, "ONLINE")

-----------------------------------------------------------------------------
(* The loop of a gateway. *)

Goto(g, step) == pc' = [pc EXCEPT ![g] = step]

StartBeat(g, status, next) ==
  /\ Goto(g, "beat")
  /\ say' = [say EXCEPT ![g] = [status |-> status, next |-> next]]

(* The health check of the connector says so, and the queue is replayed all  *)
(* the same; or reading it raises, which ends the cycle.                     *)
PollFails(g) ==
  /\ pc[g] = "poll"
  /\ connector[g] = "down"
  /\ StartBeat(g, "OFFLINE", "dequeue") \/ StartBeat(g, "OFFLINE", "poll")
  /\ UNCHANGED <<connector, scope, queue, todo, late, cloud>>

(* upload_batch of the readings just collected: accepted, refused and        *)
(* queued, or raising, which ends the cycle.  Without readings there is only *)
(* the heartbeat.                                                            *)
PollUploads(g) ==
  /\ pc[g] = "poll"
  /\ connector[g] = "up"
  /\ \/ /\ RecordGateway(g, scope[g], "ONLINE") \/ UNCHANGED <<gateways, beats>>
        /\ StartBeat(g, "ONLINE", "dequeue")
        /\ UNCHANGED <<queue, todo>>
     \/ /\ Refused(g, scope[g])
        /\ queue' = [queue EXCEPT ![g] = IF @ < MaxQueue THEN @ + 1 ELSE @]
        /\ Goto(g, "replay") /\ todo' = [todo EXCEPT ![g] = queue'[g]]
        /\ UNCHANGED say
     \/ Unanswered(g, scope[g]) /\ UNCHANGED <<pc, say, queue, todo>>
  /\ UNCHANGED <<connector, scope, late, tokens>>

(* What the loop does when the heartbeat is over, answered or not.  The row  *)
(* the cloud took is deleted only now: a gateway that dies before it gets    *)
(* here sends the row again when it runs the next time.                      *)
AfterBeat(g) ==
  \/ /\ say[g].next = "poll"
     /\ Goto(g, "poll") /\ UNCHANGED <<queue, todo>>
  \/ /\ say[g].next = "dequeue"
     /\ Goto(g, "replay") /\ todo' = [todo EXCEPT ![g] = queue[g]]
     /\ UNCHANGED queue
  \/ /\ say[g].next = "ack"
     /\ Goto(g, "replay") /\ todo' = [todo EXCEPT ![g] = @ - 1]
     /\ queue' = [queue EXCEPT ![g] = @ - 1]

SendBeat(g) ==
  /\ pc[g] = "beat"
  /\ \/ /\ \E status \in Drifted(say[g].status) : RecordGateway(g, scope[g], status)
        /\ UNCHANGED late
     \/ Refused(g, scope[g]) /\ UNCHANGED late
     \/ /\ Cardinality(late) < MaxLate
        /\ late' = late \cup {[gateway |-> g, scope |-> scope[g], status |-> say[g].status]}
        /\ UNCHANGED <<gateways, beats>>
  /\ AfterBeat(g)
  /\ say' = [say EXCEPT ![g] = Quiet]
  /\ UNCHANGED <<connector, scope, tokens>>

(* A row: taken, and the gateway hears of it; refused; or raising, which ends *)
(* the cycle, taken or not.                                                   *)
RowTaken(g) ==
  /\ pc[g] = "replay"
  /\ todo[g] > 0
  /\ RecordGateway(g, scope[g], "ONLINE")
  /\ StartBeat(g, "ONLINE", "ack")
  /\ UNCHANGED <<connector, scope, queue, todo, late, tokens>>

RowRefused(g) ==
  /\ pc[g] = "replay"
  /\ todo[g] > 0
  /\ Refused(g, scope[g])
  /\ todo' = [todo EXCEPT ![g] = @ - 1]
  /\ UNCHANGED <<connector, scope, pc, say, queue, late, tokens>>

RowRaises(g) ==
  /\ pc[g] = "replay"
  /\ todo[g] > 0
  /\ Unanswered(g, scope[g])
  /\ Goto(g, "poll") /\ todo' = [todo EXCEPT ![g] = 0]
  /\ UNCHANGED <<connector, scope, say, queue, late, tokens>>

ReplayEnds(g) ==
  /\ pc[g] = "replay"
  /\ todo[g] = 0
  /\ Goto(g, "poll")
  /\ UNCHANGED <<connector, scope, say, queue, todo, late, cloud>>

Step(g) ==
  \/ PollFails(g) \/ PollUploads(g) \/ SendBeat(g)
  \/ RowTaken(g) \/ RowRefused(g) \/ RowRaises(g) \/ ReplayEnds(g)

-----------------------------------------------------------------------------
(* The world. *)

ConnectorChanges(g) ==
  /\ connector' = [connector EXCEPT ![g] = IF @ = "up" THEN "down" ELSE "up"]
  /\ UNCHANGED <<scope, pc, say, queue, todo, late, cloud>>

Dies(g) ==
  /\ pc[g] # "dead"
  /\ Goto(g, "dead")
  /\ say' = [say EXCEPT ![g] = Quiet]
  /\ todo' = [todo EXCEPT ![g] = 0]
  /\ UNCHANGED <<connector, scope, queue, late, cloud>>

(* A gateway starts, perhaps configured for another building. *)
Starts(g) ==
  /\ pc[g] = "dead"
  /\ Goto(g, "poll")
  /\ \E s \in Scope : scope' = [scope EXCEPT ![g] = s]
  /\ UNCHANGED <<connector, say, queue, todo, late, cloud>>

(* A heartbeat that was given up arrives, or is lost. *)
Arrives(m) ==
  /\ late' = late \ {m}
  /\ \/ \E status \in Drifted(m.status) : RecordGateway(m.gateway, m.scope, status)
     \/ Refused(m.gateway, m.scope)
  /\ UNCHANGED <<edge, tokens>>

Ages(g) ==
  /\ beats[g] # None
  /\ beats[g].age # "more"
  /\ beats' = [beats EXCEPT ![g].age = IF @ = "120s" THEN "600s" ELSE "more"]
  /\ UNCHANGED <<edge, late, gateways, tokens>>

CloudRestarts ==
  /\ beats' = [g \in Gateway |-> None]
  /\ UNCHANGED <<edge, late, gateways, tokens>>

Next ==
  \/ \E t \in Token : Revoke(t) \/ \E d \in Lifetime : Issue(t, d)
  \/ Midnight \/ CloudRestarts
  \/ \E g \in Gateway : Step(g) \/ ConnectorChanges(g) \/ Dies(g) \/ Starts(g) \/ Ages(g)
  \/ \E m \in late : Arrives(m)

Spec == Init /\ [][Next]_vars

(* Time passes, and a gateway that runs goes through its loop, whatever      *)
(* becomes of its requests.                                                  *)
Fairness == \A g \in Gateway : WF_vars(Step(g)) /\ WF_vars(Ages(g))
LiveSpec == Spec /\ Fairness

-----------------------------------------------------------------------------
TypeOK ==
  /\ connector \in [Gateway -> {"up", "down"}]
  /\ scope \in [Gateway -> Scope]
  /\ pc \in [Gateway -> {"poll", "beat", "replay", "dead"}]
  /\ say \in [Gateway -> Said]
  /\ queue \in [Gateway -> 0..MaxQueue]
  /\ todo \in [Gateway -> 0..MaxQueue]
  /\ late \subseteq Heartbeat
  /\ gateways \in [Gateway -> Scope \cup {None}]
  /\ tokens \in [Token -> TokenRow \cup {None}]
  /\ beats \in [Gateway -> Beat \cup {None}]

(* list_gateways *)
ListedState(g) ==
  CASE beats[g] = None -> None
    [] beats[g] # None /\ beats[g].age = "more" -> "OFFLINE"
    [] beats[g] # None /\ beats[g].age = "600s" /\ beats[g].status # "OFFLINE" -> "STALE"
    [] OTHER -> beats[g].status

(***************************************************************************)
(* What is listed for a gateway is listed under the tenant and building it *)
(* is registered for, although the list is in memory and the registration  *)
(* in a table, gateways are moved to other buildings, and reports arrive   *)
(* after newer ones.                                                       *)
(***************************************************************************)
BeatsAreRegistered ==
  \A g \in Gateway : beats[g] # None => beats[g].scope = gateways[g]

(* No report of this gateway, but for those under way, can say ONLINE again: *)
(* it does not run; or its building system does not answer and it has no row *)
(* to replay, or none the cloud would take.                                  *)
Silenced(g) ==
  \/ pc[g] = "dead"
  \/ connector[g] = "down" /\ (queue[g] = 0 \/ ~Authorized(g, scope[g]))

(***************************************************************************)
(* A gateway that no longer runs, or whose building system no longer       *)
(* answers while its queue is empty or refused, ends up listed as not      *)
(* ONLINE and not DEGRADED and stays so: although heartbeats are lost or   *)
(* arrive late, it may be started over and over, its token may expire and  *)
(* the cloud may forget the list.  The condition on the queue is needed:   *)
(* every row the cloud takes reports the gateway ONLINE, also when the     *)
(* gateway never hears of it or dies before it deletes the row, so that    *)
(* one row can be replayed, and shown as ONLINE, any number of times.      *)
(***************************************************************************)
DownIsShown ==
  \A g \in Gateway :
    <>[]Silenced(g) => <>[](ListedState(g) \notin {"ONLINE", "DEGRADED"})
=============================================================================
