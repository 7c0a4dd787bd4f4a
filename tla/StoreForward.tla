---------------------------- MODULE StoreForward ----------------------------
(***************************************************************************)
(* The gateway and the cloud together: the edge loop run_edge              *)
(* (buildopt-edge/app/main.py) with its uploader and its LocalQueue, an    *)
(* HTTPS connection that may lose a request, lose a response or deliver a  *)
(* request after the gateway has given up on it, and the cloud's ingest    *)
(* handler.  Both processes may crash and restart at any point; the queue  *)
(* file and the cloud's tables survive.                                    *)
(*                                                                         *)
(* The gateway has at most one request outstanding.  Its content follows   *)
(* from the gateway's state, so conn only says where it is: on the wire,   *)
(* with a worker, answered, or gone.                                       *)
(***************************************************************************)
EXTENDS Integers, Sequences, FiniteSets, SequencesExt

CONSTANTS
  Point, Value, NoReading, Worker,
  NewStamps(_),     \* source timestamps a point may report in a given cycle
  Unacceptable, NonNumeric,
  Unprocessable,    \* readings the request schema refuses: 422 for the whole batch
  MaxRows, MaxAttempts, BackoffBase, BackoffSteps, MaxBackoff,
  ReplayLimit,      \* limit of dequeue_batch (100 in the code)
  MaxReadCycles,    \* model bound: poll cycles that read something
  MaxStale          \* model bound: abandoned requests still on the wire

Time == 1..MaxReadCycles
Event == [point : Point, ts : Time, value : Value]
KeyOf(e) == <<e.point, e.ts>>
PointOf(e) == e.point

ASSUME StoreForwardAssumption ==
  /\ IsFiniteSet(Event)
  /\ {MaxRows, MaxAttempts, BackoffBase, BackoffSteps, MaxBackoff, MaxReadCycles} \subseteq Nat
  /\ Unacceptable \subseteq Event /\ NonNumeric \subseteq Event /\ NoReading \notin Event
  /\ Worker \cap {"none", "wire", "ok", "refused", "lost"} = {}

VARIABLES
  pc,         \* where run_edge stands
  cycle,      \* edge clock, counted in cycles that read something
  batch,      \* the readings of this cycle not yet uploaded or queued
  replay,     \* the rest of the list dequeue_batch returned: <<id, payload>> pairs
  conn,       \* the gateway's outstanding request
  stale,      \* requests the gateway has given up on, still on the wire
  rows, lastId, overflow, trimmed, acked, untrimmed,
  job, known, current, processed, history, answered, refused, replaced,
  collected,  \* history: readings ever collected
  stored,     \* history: readings ever committed to the queue
  dropped,    \* history: readings trimmed or superseded in the queue
  calm        \* the outage is over: no fault happens any more

Queue == INSTANCE EdgeQueue WITH MaxId <- Cardinality(Event)
Cloud == INSTANCE CloudIngest WITH SlotOf <- KeyOf

edge == <<pc, cycle, batch, replay>>
queue == <<rows, lastId, overflow, trimmed, acked, untrimmed>>
cloud == <<job, known, current, processed, history, answered, refused, replaced>>
trace == <<collected, stored, dropped>>
vars == <<edge, conn, stale, queue, cloud, trace, calm>>

Init ==
  /\ Queue!Init
  /\ Cloud!Init
  /\ pc = "poll"
  /\ cycle = 0
  /\ batch = <<>>
  /\ replay = <<>>
  /\ conn = "none"
  /\ stale = {}
  /\ collected = {}
  /\ stored = {}
  /\ dropped = {}
  /\ calm = FALSE

(* The readings of the outstanding request. *)
Outstanding == IF pc = "upload" THEN batch ELSE <<Head(replay)[2]>>

-----------------------------------------------------------------------------
(* The gateway. *)

(* Health ONLINE and a mapping: collect_readings reads some of the points,  *)
(* normalize_batch, and upload_batch posts them.                            *)
Collect ==
  /\ pc = "poll"
  /\ cycle < MaxReadCycles
  /\ cycle' = cycle + 1
  /\ \E points \in (SUBSET Point) \ {{}} :
       \E read \in [points -> {e \in Event : e.ts \in NewStamps(cycle + 1)}] :
         /\ \A point \in points : read[point].point = point
         /\ batch' = SetToSeq({read[point] : point \in points})
         /\ collected' = collected \cup {read[point] : point \in points}
  /\ pc' = "upload"
  /\ conn' = "wire"
  /\ UNCHANGED <<replay, stale, queue, cloud, stored, dropped, calm>>

(* Connector not ONLINE, no mapping, or no value read: heartbeat only. *)
NothingToUpload ==
  /\ pc = "poll"
  /\ pc' = "drain"
  /\ UNCHANGED <<cycle, batch, replay, conn, stale, queue, cloud, trace, calm>>

(* The config refresh, health or a read raises: the cycle's readings are    *)
(* dropped before they are assembled, and replay is skipped.                *)
ConnectorRaises ==
  /\ pc = "poll"
  /\ ~ calm
  /\ pc' = "sleep"
  /\ UNCHANGED <<cycle, batch, replay, conn, stale, queue, cloud, trace, calm>>

(* upload_batch returned True. *)
UploadOk ==
  /\ pc = "upload"
  /\ conn = "ok"
  /\ conn' = "none"
  /\ batch' = <<>>
  /\ pc' = "drain"
  /\ UNCHANGED <<cycle, replay, stale, queue, cloud, trace, calm>>

(* upload_batch returned False: every reading of the batch goes to the queue. *)
UploadRefused ==
  /\ pc = "upload"
  /\ conn = "refused"
  /\ conn' = "none"
  /\ pc' = "enqueue"
  /\ UNCHANGED <<cycle, batch, replay, stale, queue, cloud, trace, calm>>

(* Payloads leave the queue unsent when a row is trimmed or overwritten. *)
Payloads == {rows[i].payload : i \in DOMAIN rows}
PayloadsNext == {rows'[i].payload : i \in DOMAIN rows'}

(* The queue now holds this reading, and what it made room for is gone. *)
Note(reading) ==
  /\ stored' = stored \cup {reading}
  /\ dropped' = dropped \cup ((Payloads \cup {reading}) \ PayloadsNext)

EnqueueNext ==
  /\ pc = "enqueue"
  /\ Queue!Enqueue(Head(batch))
  /\ Note(Head(batch))
  /\ batch' = Tail(batch)
  /\ pc' = IF Len(batch) = 1 THEN "drain" ELSE "enqueue"
  /\ UNCHANGED <<cycle, replay, conn, stale, cloud, collected, calm>>

(* SQLite raises, or the process dies, before or after the commit: the rest *)
(* of the batch is neither sent nor queued.                                 *)
EnqueueFails ==
  /\ pc = "enqueue"
  /\ ~ calm
  /\ \/ /\ \/ Queue!EnqueueUntrimmed(Head(batch), overflow) /\ pc' = "sleep"
           \/ Queue!EnqueueUntrimmed(Head(batch), FALSE) /\ pc' = "poll"
        /\ Note(Head(batch))
     \/ pc' = "sleep" /\ UNCHANGED <<queue, stored, dropped>>
  /\ batch' = <<>>
  /\ UNCHANGED <<cycle, replay, conn, stale, cloud, collected, calm>>

(* The sequence of a set of numbers in ascending order, as a singleton. *)
Ascending(S) ==
  {f \in [1..Cardinality(S) -> S] : \A m, n \in DOMAIN f : m < n => f[m] < f[n]}

(* Slip: the due rows come newest first. *)
StartReplayNewestFirst ==
  /\ pc = "drain"
  /\ \E ids \in Ascending(Queue!DequeueIds(ReplayLimit)) :
       replay' = [i \in DOMAIN ids |-> LET id == ids[Len(ids) + 1 - i]
                                       IN  <<id, rows[id].payload>>]
  /\ pc' = "replay"
  /\ UNCHANGED <<cycle, batch, conn, stale, queue, cloud, trace, calm>>

(* dequeue_batch: the replay loop works on this list, not on the table. *)
StartReplay ==
  /\ pc = "drain"
  /\ \E ids \in Ascending(Queue!DequeueIds(ReplayLimit)) :
       replay' = [i \in DOMAIN ids |-> <<ids[i], rows[ids[i]].payload>>]
  /\ pc' = "replay"
  /\ UNCHANGED <<cycle, batch, conn, stale, queue, cloud, trace, calm>>

ReplayNext ==
  /\ pc = "replay"
  /\ replay # <<>>
  /\ conn' = "wire"
  /\ pc' = "resend"
  /\ UNCHANGED <<cycle, batch, replay, stale, queue, cloud, trace, calm>>

ReplayDone ==
  /\ pc = "replay"
  /\ replay = <<>>
  /\ pc' = "sleep"
  /\ UNCHANGED <<cycle, batch, replay, conn, stale, queue, cloud, trace, calm>>

ReplayOk ==
  /\ pc = "resend"
  /\ conn = "ok"
  /\ Queue!Ack(Head(replay)[1])
  /\ conn' = "none"
  /\ replay' = Tail(replay)
  /\ pc' = "replay"
  /\ UNCHANGED <<cycle, batch, stale, cloud, trace, calm>>

(* Slip: a refused row is given up once its attempts are used up. *)
ReplayRefusedGivesUp ==
  /\ pc = "resend"
  /\ conn = "refused"
  /\ IF rows[Head(replay)[1]].attempts + 1 >= MaxAttempts
     THEN Queue!Ack(Head(replay)[1])
     ELSE Queue!BumpAttempts(Head(replay)[1])
  /\ conn' = "none"
  /\ replay' = Tail(replay)
  /\ pc' = "replay"
  /\ UNCHANGED <<cycle, batch, stale, cloud, trace, calm>>

(* bump_attempts: retried after the backoff delay, for ever. *)
ReplayRefused ==
  /\ pc = "resend"
  /\ conn = "refused"
  /\ Queue!BumpAttempts(Head(replay)[1])
  /\ conn' = "none"
  /\ replay' = Tail(replay)
  /\ pc' = "replay"
  /\ UNCHANGED <<cycle, batch, stale, cloud, trace, calm>>

(* What becomes of the outstanding request when the gateway stops waiting. *)
Abandon ==
  /\ conn' = "none"
  /\ \/ UNCHANGED stale
     \/ /\ conn = "wire"
        /\ Cardinality(stale) < MaxStale
        /\ stale' = stale \cup {Outstanding}

(* The POST raises (refused connection, timeout, broken response): the      *)
(* exception leaves the cycle; a live batch is neither sent nor queued, and *)
(* the rows left in the replay list are not attempted.                      *)
PostRaises ==
  /\ pc \in {"upload", "resend"}
  /\ ~ calm
  /\ Abandon
  /\ batch' = <<>>
  /\ replay' = <<>>
  /\ pc' = "sleep"
  /\ UNCHANGED <<cycle, queue, cloud, trace, calm>>

(* asyncio.sleep(poll_interval_seconds), the only time that passes. *)
Sleep ==
  /\ pc = "sleep"
  /\ Queue!Tick
  /\ pc' = "poll"
  /\ UNCHANGED <<cycle, batch, replay, conn, stale, cloud, trace, calm>>

(* The gateway process dies and starts again on the same queue file. *)
EdgeCrash ==
  /\ ~ calm
  /\ IF pc \in {"upload", "resend"} THEN Abandon ELSE UNCHANGED <<conn, stale>>
  /\ Queue!Reopen
  /\ batch' = <<>>
  /\ replay' = <<>>
  /\ pc' = "poll"
  /\ UNCHANGED <<cycle, cloud, trace, calm>>

Edge ==
  \/ Collect \/ NothingToUpload \/ UploadOk \/ UploadRefused \/ EnqueueNext
  \/ StartReplay \/ ReplayNext \/ ReplayDone \/ ReplayOk \/ ReplayRefused \/ Sleep

-----------------------------------------------------------------------------
(* The network and the cloud. *)

Processable(readings) == ToSet(readings) \cap Unprocessable = {}

(* A request reaches the handler; with the gateway waiting or long gone. *)
Receive(w) ==
  /\ \/ /\ conn = "wire"
        /\ Processable(Outstanding)
        /\ Cloud!Begin(w, Outstanding)
        /\ conn' = w
        /\ UNCHANGED stale
     \/ \E readings \in stale :
          /\ Processable(readings)
          /\ Cloud!Begin(w, readings)
          /\ stale' = stale \ {readings}
          /\ UNCHANGED conn
  /\ UNCHANGED <<edge, queue, trace, calm>>

(* Answered without processing: 401, 403, 422, 500 or 503. *)
Refuse ==
  /\ conn = "wire"
  /\ calm => ~ Processable(Outstanding)
  /\ conn' = "refused"
  /\ UNCHANGED <<edge, stale, queue, cloud, trace, calm>>

(* A request or its response is lost: the gateway can only time out. *)
Lose ==
  /\ ~ calm
  /\ \/ conn \in {"wire", "ok", "refused"} /\ conn' = "lost" /\ UNCHANGED stale
     \/ \E readings \in stale : stale' = stale \ {readings} /\ UNCHANGED conn
  /\ UNCHANGED <<edge, queue, cloud, trace, calm>>

Serve(w) == Cloud!Advance(w) /\ UNCHANGED <<edge, conn, stale, queue, trace, calm>>

StoreFault(w) ==
  /\ ~ calm
  /\ Cloud!Fault(w)
  /\ UNCHANGED <<edge, conn, stale, queue, trace, calm>>

(* Slip: any answer is taken for the answer to the current request. *)
RespondToAnyone(w) ==
  /\ Cloud!Respond(w)
  /\ conn' = IF conn \in {"wire", w} THEN "ok" ELSE conn
  /\ UNCHANGED <<edge, stale, queue, trace, calm>>

Respond(w) ==
  /\ Cloud!Respond(w)
  /\ conn' = IF conn = w THEN "ok" ELSE conn
  /\ UNCHANGED <<edge, stale, queue, trace, calm>>

CloudCrash(w) ==
  /\ ~ calm
  /\ Cloud!Crash(w)
  /\ conn' = IF conn = w THEN "lost" ELSE conn
  /\ UNCHANGED <<edge, stale, queue, trace, calm>>

(* The outage ends, with nothing half-lost: from here on the network, the   *)
(* store, the connector and both processes behave.                          *)
OutageEnds ==
  /\ ~ calm
  /\ conn # "lost"
  /\ stale = {}
  /\ calm' = TRUE
  /\ UNCHANGED <<edge, conn, stale, queue, cloud, trace>>

Next ==
  \/ Edge
  \/ ConnectorRaises \/ EnqueueFails \/ PostRaises \/ EdgeCrash
  \/ \E w \in Worker : Receive(w) \/ Serve(w) \/ StoreFault(w) \/ Respond(w) \/ CloudCrash(w)
  \/ Refuse \/ Lose \/ OutageEnds

Spec == Init /\ [][Next]_vars

(***************************************************************************)
(* Fairness: the loop runs until shutdown and awaits nothing for ever; a   *)
(* request that is not lost is eventually taken up or refused; the handler *)
(* of a live process runs to its end.  Nothing is assumed of any fault.    *)
(***************************************************************************)
Fairness ==
  /\ WF_vars(Edge)
  /\ WF_vars(Refuse \/ \E w \in Worker : Receive(w))
  /\ \A w \in Worker : WF_vars(Serve(w) \/ Respond(w))

LiveSpec == Spec /\ Fairness

-----------------------------------------------------------------------------
(* Types of the gateway's state, of the connection and of the components. *)
GatewayTypes ==
  /\ pc \in {"poll", "upload", "enqueue", "drain", "replay", "resend", "sleep"}
  /\ cycle \in 0..MaxReadCycles
  /\ batch \in Seq(Event)
  /\ replay \in Seq(Nat \X Event)
  /\ conn \in {"none", "wire", "ok", "refused", "lost"} \cup Worker
  /\ stale \subseteq Seq(Event)
  /\ collected \subseteq Event /\ stored \subseteq Event /\ dropped \subseteq Event
  /\ calm \in BOOLEAN

TypeOK == Queue!TypeOK /\ Cloud!TypeOK /\ GatewayTypes

(***************************************************************************)
(* Once committed to the gateway's queue a reading is never forgotten,     *)
(* whatever is lost, late, repeated or crashes: it is still queued, or the *)
(* cloud has recorded it, or the cloud listed it as rejected, or the       *)
(* overflow policy dropped it (or a newer value of the same instant took   *)
(* its place).                                                             *)
(***************************************************************************)
StoredIsAccountedFor == stored \subseteq Payloads \cup processed \cup refused \cup dropped

(***************************************************************************)
(* The gateway lets go of readings on a success answer only, and then the  *)
(* cloud has dealt with exactly these readings: a late answer to an        *)
(* abandoned request is never taken for the answer to the current one.     *)
(***************************************************************************)
SuccessIsForThisRequest ==
  conn = "ok" => ToSet(Outstanding) \subseteq answered \cup refused

(***************************************************************************)
(* The list the replay loop took before its first await still describes    *)
(* the table when each entry is used: same rows, same payloads, every one  *)
(* once, oldest first.                                                     *)
(***************************************************************************)
ReplayListIsCurrent ==
  /\ \A n \in DOMAIN replay : /\ replay[n][1] \in DOMAIN rows
                              /\ rows[replay[n][1]].payload = replay[n][2]
  /\ \A m, n \in DOMAIN replay : m < n => replay[m][1] < replay[n][1]

(***************************************************************************)
(* A recorded reading is applied to the current state once, although the   *)
(* gateway resends after a lost answer while the first request may still   *)
(* be on the wire.                                                         *)
(***************************************************************************)
AppliedOnce == Cloud!AppliedOnce

(***************************************************************************)
(* Once the outage is over every queued reading the cloud can take leaves  *)
(* the queue: backoff is bounded, and a row the cloud refuses for ever     *)
(* never blocks the rows behind it, even if it fills the replay limit.     *)
(***************************************************************************)
DrainsAfterOutage ==
  \A e \in Event \ Unprocessable : (calm /\ e \in Payloads) ~> (e \notin Payloads)

-----------------------------------------------------------------------------
(* What a reading has come to, for the abstract specification. *)
InMotion ==
  ToSet(batch) \cup (UNION {ToSet(r) : r \in stale})
               \cup (UNION {ToSet(job[w].todo) : w \in Worker})

PlaceOf(e) ==
  CASE e \in processed                       -> "recorded"
    [] e \in Payloads \ processed            -> "queued"
    [] e \in InMotion \ (Payloads \cup processed) -> "moving"
    [] OTHER -> IF e \in collected THEN "gone" ELSE "unread"

(***************************************************************************)
(* The gateway and the cloud together implement store-and-forward delivery *)
(* as TelemetryDelivery states it.                                         *)
(***************************************************************************)
Delivery == INSTANCE TelemetryDelivery WITH
  place <- [e \in Event |-> PlaceOf(e)], excused <- dropped \cup refused
DeliverySpec == Delivery!Spec

-----------------------------------------------------------------------------
(* The inductive invariant. *)

(* What the place in the loop says of what the gateway holds. *)
GatewayOK ==
  /\ conn # "none" <=> pc \in {"upload", "resend"}
  /\ pc \in {"upload", "enqueue"} => batch # <<>>
  /\ pc = "resend" => replay # <<>>
  /\ pc \notin {"replay", "resend"} => replay = <<>>
  /\ <<>> \notin stale

(* A worker that has the gateway's request accounts for its every reading. *)
RequestTracked ==
  conn \in Worker =>
    /\ job[conn].step # "idle"
    /\ ToSet(Outstanding) \subseteq ToSet(job[conn].todo) \cup job[conn].taken \cup job[conn].rejected

(* No reading comes from nowhere. *)
OnlyCollected == InMotion \cup Payloads \cup processed \subseteq collected

IInv ==
  /\ Queue!IInv /\ Cloud!IInv /\ GatewayTypes
  /\ GatewayOK /\ RequestTracked /\ OnlyCollected
  /\ StoredIsAccountedFor /\ SuccessIsForThisRequest /\ ReplayListIsCurrent

-----------------------------------------------------------------------------
(* Statements of the documentation the code does not keep. *)

(***************************************************************************)
(* "Internet failure queues data: PASS, Enqueue on upload failure"         *)
(* (docs/PILOT_READINESS.md, check 14): when the upload of a batch fails   *)
(* its readings are in the queue when the cycle ends.                      *)
(***************************************************************************)
OutageIsBuffered ==
  [][pc = "upload" /\ pc' = "sleep" => ToSet(batch) \subseteq PayloadsNext]_vars

(***************************************************************************)
(* "no silent drop without CRITICAL event"                                 *)
(* (docs/PHASE3_PRE_IMPLEMENTATION_AUDIT.md, P0 fix 6): a row that leaves  *)
(* the queue other than by the CRITICAL overflow was recorded by the       *)
(* cloud, unless its content was unacceptable.                             *)
(***************************************************************************)
AckedIsRecorded ==
  [][acked' # acked => Head(replay)[2] \in processed \cup Unacceptable]_vars
=============================================================================
