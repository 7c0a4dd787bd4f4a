----------------------------- MODULE LegacyAgent ----------------------------
(***************************************************************************)
(* The older gateway, edge/agent.py: one thread that reads the building,   *)
(* pushes a snapshot to POST /ingest/live and keeps what it could not push *)
(* in the table pending_snapshots, from which it pushes again at the start *)
(* of every round.  The table has no limit of its own and the cloud shows  *)
(* whatever was pushed last (ingest_live_snapshot).                        *)
(*                                                                         *)
(* A snapshot is told apart only as the newest the agent has read or an    *)
(* older one.  A push is up to MaxRetries POSTs, one step here: while the  *)
(* network is down, none, some or all of them may reach the cloud, at once *)
(* or late, and none or one may be answered.                               *)
(***************************************************************************)
EXTENDS Integers, SequencesExt

CONSTANTS
  None,
  MaxRetries,   \* INGEST_MAX_RETRIES
  Limit,        \* rows dequeue_batch reads
  MaxAttempts,  \* model bound: attempts a row can have collected
  MaxCrashes    \* model bound: restarts of the agent

(* With more retries than the limit the rows behind it would not be tried   *)
(* and the table would grow.                                                *)
AgentAssumption ==
  /\ MaxRetries \in Nat \ {0} /\ Limit \in Nat /\ MaxAttempts \in Nat
  /\ MaxRetries <= Limit /\ MaxRetries <= MaxAttempts
  /\ MaxCrashes \in Nat
  /\ None \notin {"newest", "older"}

Snapshot == {"newest", "older"}
Row == [snap : Snapshot, attempts : 0..MaxAttempts]

VARIABLES
  queue,    \* pending_snapshots, by id
  pc,       \* where main stands
  at,       \* flush_queue: the row it is about to push
  todo,     \* flush_queue: rows of the batch left
  crashes,  \* restarts of the agent so far
  up,       \* the network and the cloud work
  shown,    \* live_cache of the cloud
  late,     \* pushes given up by the agent and still on their way
  heard     \* protocols with a heartbeat in edge_heartbeat_store

agent == <<queue, pc, at, todo, crashes>>
cloud == <<shown, late, heard>>
vars == <<agent, up, cloud>>

Init ==
  /\ queue = <<>> /\ pc = "sleeping" /\ at = 1 /\ todo = 0 /\ crashes = 0
  /\ up \in BOOLEAN
  /\ shown = None /\ late = {} /\ heard = {}

-----------------------------------------------------------------------------
(* POST /ingest/heartbeat *)
Heard(protocol) == heard \cup {protocol}

(* send_heartbeat: one POST, whose failure is ignored. *)
Beat(protocol) ==
  heard' \in {Heard(protocol)} \cup IF up THEN {} ELSE {heard}

(* push_snapshot, and whether it was answered 200. *)
PushSnapshot(snap, ok) ==
  IF up
  THEN ok /\ shown' = snap /\ UNCHANGED late
  ELSE /\ shown' \in {snap} \cup IF ok THEN {} ELSE {shown}
       /\ late' \in {late, late \cup {snap}}

(* The rounds of main. *)
Begin ==
  /\ pc = "sleeping"
  /\ Beat("edge")
  /\ pc' = "flushing"
  /\ at' = 1
  /\ todo' = IF Len(queue) < Limit THEN Len(queue) ELSE Limit
  /\ UNCHANGED <<queue, crashes, up, shown, late>>

Bumped == [queue EXCEPT ![at].attempts = @ + 1]

(* Slip: the attempts are compared before they are raised. *)
AfterFailureLater ==
  IF queue[at].attempts >= MaxRetries
  THEN queue' = RemoveAt(queue, at) /\ UNCHANGED at
  ELSE queue' = Bumped /\ at' = at + 1

AfterFailure ==
  IF queue[at].attempts + 1 >= MaxRetries
  THEN queue' = RemoveAt(queue, at) /\ UNCHANGED at
  ELSE queue' = Bumped /\ at' = at + 1

(* Slip: a row that was pushed stays. *)
AfterSuccessKept == UNCHANGED queue /\ at' = at + 1

AfterSuccess == queue' = RemoveAt(queue, at) /\ UNCHANGED at

Flush ==
  /\ pc = "flushing" /\ todo > 0
  /\ \E ok \in BOOLEAN :
       /\ PushSnapshot(queue[at].snap, ok)
       /\ IF ok THEN AfterSuccess ELSE AfterFailure
  /\ todo' = todo - 1
  /\ UNCHANGED <<pc, crashes, up, heard>>

(* A new snapshot makes all others older ones. *)
Aged(snap) == IF snap = None THEN None ELSE "older"

ReadSensors ==
  /\ pc = "flushing" /\ todo = 0
  /\ pc' = "pushing"
  /\ queue' = [i \in DOMAIN queue |-> [queue[i] EXCEPT !.snap = Aged(@)]]
  /\ shown' = Aged(shown)
  /\ late' = {Aged(s) : s \in late}
  /\ UNCHANGED <<at, todo, crashes, up, heard>>

NoSensors ==
  /\ pc = "flushing" /\ todo = 0
  /\ pc' = "sleeping"
  /\ UNCHANGED <<queue, at, todo, crashes, up, cloud>>

Enqueue == queue' = Append(queue, [snap |-> "newest", attempts |-> 0])

Push ==
  /\ pc = "pushing"
  /\ \E ok \in BOOLEAN :
       /\ PushSnapshot("newest", ok)
       /\ IF ok THEN UNCHANGED queue ELSE Enqueue
  /\ Beat("bus")
  /\ pc' = "sleeping"
  /\ UNCHANGED <<at, todo, crashes, up>>

(* The agent dies and is started again, with the table it kept: between two *)
(* steps, after a POST and before its row was changed, or after a row's     *)
(* attempts were raised and before it was removed.                          *)
Crash ==
  /\ crashes < MaxCrashes
  /\ crashes' = crashes + 1
  /\ \/ UNCHANGED <<queue, shown, late>>
     \/ /\ pc = "flushing" /\ todo > 0
        /\ \E ok \in BOOLEAN : PushSnapshot(queue[at].snap, ok)
        /\ \/ UNCHANGED queue
           \/ queue[at].attempts < MaxAttempts /\ queue' = Bumped
     \/ /\ pc = "pushing"
        /\ \E ok \in BOOLEAN : PushSnapshot("newest", ok)
        /\ UNCHANGED queue
  /\ pc' = "sleeping" /\ at' = 1 /\ todo' = 0
  /\ UNCHANGED <<up, heard>>

-----------------------------------------------------------------------------
(* The network and the cloud. *)

NetworkChanges ==
  /\ up' = ~up
  /\ UNCHANGED <<agent, cloud>>

(* Its caches are memory only. *)
CloudRestarts ==
  /\ ~up
  /\ shown' = None /\ heard' = {} /\ late' \in {{}, late}
  /\ UNCHANGED <<agent, up>>

PushArrives(snap) ==
  /\ snap \in late
  /\ late' = late \ {snap}
  /\ shown' = snap
  /\ UNCHANGED <<agent, up, heard>>

Round == Begin \/ Flush \/ ReadSensors \/ NoSensors \/ Push

Next ==
  \/ Round \/ Crash \/ NetworkChanges \/ CloudRestarts
  \/ \E snap \in Snapshot : PushArrives(snap)

Spec == Init /\ [][Next]_vars

(* main is a loop without an end, run by a service that restarts it.        *)
Fairness == WF_vars(Round)
LiveSpec == Spec /\ Fairness

-----------------------------------------------------------------------------
TypeOK ==
  /\ queue \in Seq(Row)
  /\ pc \in {"sleeping", "flushing", "pushing"}
  /\ at \in Nat \ {0} /\ todo \in Nat /\ at + todo <= Len(queue) + 1
  /\ crashes \in 0..MaxCrashes
  /\ up \in BOOLEAN
  /\ shown \in Snapshot \cup {None}
  /\ late \subseteq Snapshot
  /\ heard \subseteq {"edge", "bus"}

(***************************************************************************)
(* The table, which nothing trims, never holds more snapshots than a row   *)
(* is tried times: every round raises the attempts of all rows before it   *)
(* adds one, however many of them were pushed, in whatever order, and      *)
(* wherever rounds were cut short by crashes.                              *)
(***************************************************************************)
PendingBounded == Len(queue) <= MaxRetries

(***************************************************************************)
(* When the network stays up and the building goes on answering, the table *)
(* empties and what the cloud shows between two rounds is the newest       *)
(* snapshot for good: although old ones are pushed over newer ones, and    *)
(* given-up pushes arrive late.                                            *)
(***************************************************************************)
RecoversAfterOutage ==
  <>[]up /\ []<>(pc = "pushing")
    => <>[](queue = <<>> /\ (pc = "sleeping" => shown = "newest"))
=============================================================================
