------------------------- MODULE StoreForwardProofs -------------------------
(***************************************************************************)
(* Proofs about the gateway and the cloud together, for every set of       *)
(* readings, any limits and any number of server processes.  What the      *)
(* queue and the handler do on their own is taken from EdgeQueueProofs and *)
(* CloudIngestProofs.                                                      *)
(***************************************************************************)
EXTENDS StoreForward, FiniteSetTheorems, TLAPS

QP == INSTANCE EdgeQueueProofs WITH MaxId <- Cardinality(Event)
CP == INSTANCE CloudIngestProofs WITH SlotOf <- KeyOf

-----------------------------------------------------------------------------
(* The components as their own proofs know them. *)

(* The constants satisfy what the components assume of theirs. *)
LEMMA ComponentsAssumed == QP!QueueAssumption /\ CP!IngestAssumption
<1>1. Cardinality(Event) \in Nat
  BY StoreForwardAssumption, FS_CardinalityType
<1>2. \A e \in Event : PointOf(e) \in Point
  BY DEF Event, PointOf
<1> QED
  BY <1>1, <1>2, StoreForwardAssumption DEF QP!QueueAssumption, CP!IngestAssumption

(* The queue's invariant. *)
LEMMA QueueInvariantSame ==
  /\ Queue!IInv <=> QP!IInv
  /\ Queue!IInv' <=> QP!IInv'
<1> USE DEF Queue!Ids, QP!Ids
<1>1. /\ Queue!TypeOK <=> QP!TypeOK
      /\ Queue!TypeOK' <=> QP!TypeOK'
  BY DEF Queue!TypeOK, QP!TypeOK, Queue!Row, QP!Row, Queue!Key, QP!Key, Queue!AttemptCap, QP!AttemptCap
<1>2. /\ Queue!DepthBounded <=> QP!DepthBounded
      /\ Queue!DepthBounded' <=> QP!DepthBounded'
  BY DEF Queue!DepthBounded, QP!DepthBounded, Queue!Cardinality, QP!Cardinality
<1>3. /\ Queue!WellKeyed(rows) <=> QP!WellKeyed(rows)
      /\ Queue!WellKeyed(rows)' <=> QP!WellKeyed(rows)'
  BY DEF Queue!WellKeyed, QP!WellKeyed
<1>4. /\ Queue!OldestDroppedFirst <=> QP!OldestDroppedFirst
      /\ Queue!OldestDroppedFirst' <=> QP!OldestDroppedFirst'
      /\ Queue!NoSilentDeletion <=> QP!NoSilentDeletion
      /\ Queue!NoSilentDeletion' <=> QP!NoSilentDeletion'
  BY DEF Queue!OldestDroppedFirst, QP!OldestDroppedFirst, Queue!NoSilentDeletion,
     QP!NoSilentDeletion
<1> QED
  BY <1>1, <1>2, <1>3, <1>4 DEF Queue!IInv, QP!IInv

(* The queue's operations. *)
LEMMA QueueStepsSame ==
  /\ \A e : Queue!Enqueue(e) <=> QP!Enqueue(e)
  /\ \A e, flag : Queue!EnqueueUntrimmed(e, flag) <=> QP!EnqueueUntrimmed(e, flag)
  /\ \A id : Queue!Ack(id) <=> QP!Ack(id)
  /\ \A id : Queue!BumpAttempts(id) <=> QP!BumpAttempts(id)
  /\ Queue!Tick <=> QP!Tick
  /\ Queue!Reopen <=> QP!Reopen
  /\ Queue!Init <=> QP!Init
<1> USE DEF Queue!Ids, QP!Ids, Queue!Only, QP!Only
<1>1. ASSUME NEW e
      PROVE  /\ Queue!Conflicts(e) = QP!Conflicts(e)
             /\ Queue!Inserted(e) = QP!Inserted(e)
             /\ Queue!Refreshed(e) = QP!Refreshed(e)
  BY DEF Queue!Conflicts, QP!Conflicts, Queue!Inserted, QP!Inserted, Queue!Fresh, QP!Fresh,
     Queue!Refreshed, QP!Refreshed
<1>2. ASSUME NEW table PROVE Queue!CommitAndTrim(table) <=> QP!CommitAndTrim(table)
  BY DEF Queue!CommitAndTrim, QP!CommitAndTrim, Queue!Kept, QP!Kept,
     Queue!Cardinality, QP!Cardinality
<1>3. ASSUME NEW e PROVE Queue!Enqueue(e) <=> QP!Enqueue(e)
  BY <1>1, <1>2 DEF Queue!Enqueue, QP!Enqueue, Queue!Insert, QP!Insert, Queue!Refresh, QP!Refresh
<1>4. ASSUME NEW e, NEW flag
      PROVE  Queue!EnqueueUntrimmed(e, flag) <=> QP!EnqueueUntrimmed(e, flag)
  BY <1>1 DEF Queue!EnqueueUntrimmed, QP!EnqueueUntrimmed
<1>5. ASSUME NEW id PROVE Queue!Ack(id) <=> QP!Ack(id)
  BY DEF Queue!Ack, QP!Ack
<1>6. ASSUME NEW id PROVE Queue!BumpAttempts(id) <=> QP!BumpAttempts(id)
  BY DEF Queue!BumpAttempts, QP!BumpAttempts, Queue!Backoff, QP!Backoff, Queue!Lesser, QP!Lesser,
     Queue!AttemptCap, QP!AttemptCap
<1>7. (Queue!Tick <=> QP!Tick) /\ (Queue!Reopen <=> QP!Reopen) /\ (Queue!Init <=> QP!Init)
  BY DEF Queue!Tick, QP!Tick, Queue!Aged, QP!Aged, Queue!Reopen, QP!Reopen, Queue!Init, QP!Init
<1> QED
  BY <1>3, <1>4, <1>5, <1>6, <1>7

(* The handler's invariant. *)
LEMMA CloudInvariantSame ==
  /\ Cloud!IInv <=> CP!IInv
  /\ Cloud!IInv' <=> CP!IInv'
<1> USE DEF Cloud!Reading, CP!Reading, Cloud!InHand, CP!InHand
<1>1. /\ Cloud!TypeOK <=> CP!TypeOK
      /\ Cloud!TypeOK' <=> CP!TypeOK'
  BY DEF Cloud!TypeOK, CP!TypeOK, Cloud!Job, CP!Job, Cloud!Step, CP!Step
<1>2. /\ \A w \in Worker : Cloud!JobOK(w) <=> CP!JobOK(w)
      /\ \A w \in Worker : Cloud!JobOK(w)' <=> CP!JobOK(w)'
  BY DEF Cloud!JobOK, CP!JobOK
<1>3. /\ Cloud!MarkedAfterApplied <=> CP!MarkedAfterApplied
      /\ Cloud!MarkedAfterApplied' <=> CP!MarkedAfterApplied'
      /\ Cloud!AnsweredIsRecorded <=> CP!AnsweredIsRecorded
      /\ Cloud!AnsweredIsRecorded' <=> CP!AnsweredIsRecorded'
      /\ Cloud!HistoryIsRecorded <=> CP!HistoryIsRecorded
      /\ Cloud!HistoryIsRecorded' <=> CP!HistoryIsRecorded'
  BY DEF Cloud!MarkedAfterApplied, CP!MarkedAfterApplied, Cloud!AnsweredIsRecorded,
     CP!AnsweredIsRecorded, Cloud!HistoryIsRecorded, CP!HistoryIsRecorded
<1> QED
  BY <1>1, <1>2, <1>3 DEF Cloud!IInv, CP!IInv

(* The handler's operations. *)
LEMMA CloudStepsSame ==
  /\ \A w, readings : Cloud!Begin(w, readings) <=> CP!Begin(w, readings)
  /\ \A w : Cloud!Advance(w) <=> CP!Advance(w)
  /\ \A w : Cloud!Fault(w) <=> CP!Fault(w)
  /\ \A w : Cloud!Respond(w) <=> CP!Respond(w)
  /\ \A w : Cloud!Crash(w) <=> CP!Crash(w)
  /\ Cloud!Init <=> CP!Init
<1> USE DEF Cloud!tables, CP!tables, Cloud!observed, CP!observed, Cloud!NoJob, CP!NoJob,
        Cloud!At, CP!At, Cloud!Reading, CP!Reading
<1>1. ASSUME NEW w, NEW readings PROVE Cloud!Begin(w, readings) <=> CP!Begin(w, readings)
  BY DEF Cloud!Begin, CP!Begin
<1>2. ASSUME NEW w
      PROVE  (Cloud!Respond(w) <=> CP!Respond(w)) /\ (Cloud!Crash(w) <=> CP!Crash(w))
  BY DEF Cloud!Respond, CP!Respond, Cloud!Crash, CP!Crash
<1>3. ASSUME NEW w
      PROVE  /\ Cloud!Accepted(w) = CP!Accepted(w)
             /\ Cloud!Duplicate(w) = CP!Duplicate(w)
             /\ Cloud!Rejected(w) = CP!Rejected(w)
  BY DEF Cloud!Accepted, CP!Accepted, Cloud!Duplicate, CP!Duplicate, Cloud!Rejected, CP!Rejected
<1>4. ASSUME NEW w, NEW j PROVE Cloud!NextReading(w, j) <=> CP!NextReading(w, j)
  BY DEF Cloud!NextReading, CP!NextReading
<1>5. ASSUME NEW w, NEW step PROVE Cloud!Goto(w, step) <=> CP!Goto(w, step)
  BY DEF Cloud!Goto, CP!Goto
<1>6. ASSUME NEW e
      PROVE  /\ Cloud!RegisterPoint(e) <=> CP!RegisterPoint(e)
             /\ Cloud!UpdateCurrentState(e) <=> CP!UpdateCurrentState(e)
             /\ Cloud!MarkProcessed(e) <=> CP!MarkProcessed(e)
  BY DEF Cloud!RegisterPoint, CP!RegisterPoint, Cloud!UpdateCurrentState, CP!UpdateCurrentState,
     Cloud!MarkProcessed, CP!MarkProcessed
<1>7. ASSUME NEW w
      PROVE  /\ Cloud!RejectReading(w) <=> CP!RejectReading(w)
             /\ Cloud!SkipDuplicate(w) <=> CP!SkipDuplicate(w)
             /\ Cloud!PassChecks(w) <=> CP!PassChecks(w)
             /\ Cloud!ResolvePoint(w) <=> CP!ResolvePoint(w)
             /\ Cloud!StoreState(w) <=> CP!StoreState(w)
             /\ Cloud!Mark(w) <=> CP!Mark(w)
             /\ Cloud!StoreRaises(w) <=> CP!StoreRaises(w)
  BY <1>3, <1>4, <1>5, <1>6 DEF Cloud!RejectReading, CP!RejectReading, Cloud!SkipDuplicate,
     CP!SkipDuplicate, Cloud!PassChecks, CP!PassChecks, Cloud!ResolvePoint, CP!ResolvePoint,
     Cloud!StoreState, CP!StoreState, Cloud!Mark, CP!Mark, Cloud!StoreRaises, CP!StoreRaises
<1>8. ASSUME NEW w
      PROVE  /\ Cloud!WriteHistory(w) <=> CP!WriteHistory(w)
             /\ Cloud!HistoryWriteFails(w) <=> CP!HistoryWriteFails(w)
  BY DEF Cloud!WriteHistory, CP!WriteHistory, Cloud!HistoryWriteFails, CP!HistoryWriteFails,
     Cloud!DropRow, CP!DropRow
<1>9. Cloud!Init <=> CP!Init
  BY DEF Cloud!Init, CP!Init
<1> QED
  BY <1>1, <1>2, <1>7, <1>8, <1>9 DEF Cloud!Advance, CP!Advance, Cloud!Fault, CP!Fault

-----------------------------------------------------------------------------
(* What the components' operations do, in the terms of the composition. *)

(* An enqueue, whole or cut short: no other payload appears. *)
LEMMA EnqueueStep ==
  ASSUME Queue!IInv, NEW e \in Event,
         Queue!Enqueue(e) \/ \E flag \in BOOLEAN : Queue!EnqueueUntrimmed(e, flag)
  PROVE  Queue!IInv' /\ PayloadsNext \subseteq Payloads \cup {e}
<1>1. QP!IInv /\ QP!QueueAssumption
  BY QueueInvariantSame, ComponentsAssumed
<1>2. QP!Enqueue(e) \/ \E flag \in BOOLEAN : QP!EnqueueUntrimmed(e, flag)
  BY QueueStepsSame
<1>3. QP!IInv'
  BY <1>1, <1>2, QP!EnqueueKeepsIInv, QP!UntrimmedKeepsIInv
<1>4. \A i \in DOMAIN rows' :
        rows'[i].payload = e \/ (i \in DOMAIN rows /\ rows'[i].payload = rows[i].payload)
  BY <1>1, <1>2, QP!EnqueuePayloads DEF QP!Ids
<1> QED
  BY <1>3, <1>4, QueueInvariantSame DEF Payloads, PayloadsNext

(* An ack takes its row away and no other. *)
LEMMA AckStep ==
  ASSUME Queue!IInv, NEW id \in DOMAIN rows, Queue!Ack(id)
  PROVE  /\ Queue!IInv'
         /\ DOMAIN rows' = DOMAIN rows \ {id}
         /\ \A i \in DOMAIN rows' : rows'[i] = rows[i]
<1>1. QP!IInv /\ QP!QueueAssumption /\ QP!Ack(id) /\ id \in QP!Ids
  BY QueueInvariantSame, QueueStepsSame, ComponentsAssumed DEF QP!Ids
<1>2. QP!IInv'
  BY <1>1, QP!AckKeepsIInv
<1>3. DOMAIN rows' = QP!Ids \ {id} /\ \A i \in QP!Ids \ {id} : rows'[i] = rows[i]
  BY <1>1, QP!AckPayloads
<1> QED
  BY <1>2, <1>3, QueueInvariantSame DEF QP!Ids

(* A retry, and the passing of time, change no payload. *)
LEMMA RetimingStep ==
  ASSUME Queue!IInv, Queue!Tick \/ \E id \in DOMAIN rows : Queue!BumpAttempts(id)
  PROVE  /\ Queue!IInv'
         /\ DOMAIN rows' = DOMAIN rows
         /\ \A i \in DOMAIN rows : rows'[i].payload = rows[i].payload
<1>1. QP!IInv /\ QP!QueueAssumption /\ (QP!Tick \/ \E id \in QP!Ids : QP!BumpAttempts(id))
  BY QueueInvariantSame, QueueStepsSame, ComponentsAssumed DEF QP!Ids
<1>2. QP!IInv'
  BY <1>1, QP!TickKeepsIInv, QP!BumpKeepsIInv
<1>3. DOMAIN rows' = QP!Ids /\ \A i \in QP!Ids : rows'[i].payload = rows[i].payload
  BY <1>1, QP!RetimingPayloads
<1> QED
  BY <1>2, <1>3, QueueInvariantSame DEF QP!Ids

(* A restart on the same file, and a step of someone else, leave the table. *)
LEMMA QueueIdle ==
  ASSUME Queue!IInv, Queue!Reopen \/ UNCHANGED queue
  PROVE  Queue!IInv' /\ rows' = rows
<1>1. QP!IInv /\ QP!QueueAssumption /\ (QP!Reopen \/ UNCHANGED QP!queue)
  BY QueueInvariantSame, QueueStepsSame, ComponentsAssumed DEF queue, QP!queue
<1>2. QP!IInv'
  BY <1>1, QP!ReopenKeepsIInv, QP!NextKeepsIInv
<1> QED
  BY <1>1, <1>2, QueueInvariantSame DEF QP!Reopen, QP!queue

(* The readings of a request that worker w has, or has counted. *)
Tracked(w) == ToSet(job[w].todo) \cup job[w].taken \cup job[w].rejected

OthersKeepJobs(w) == \A v \in Worker \ {w} : job'[v] = job[v]

(* A step of the handler between the request and the response. *)
LEMMA HandlerStep ==
  ASSUME Cloud!IInv, NEW w \in Worker, Cloud!Advance(w) \/ Cloud!Fault(w)
  PROVE  /\ Cloud!IInv' /\ OthersKeepJobs(w)
         /\ job[w].step # "idle" /\ job'[w].step # "idle"
         /\ ToSet(job'[w].todo) \subseteq ToSet(job[w].todo)
         /\ Tracked(w) \subseteq Tracked(w)'
         /\ processed \subseteq processed' /\ processed' \subseteq processed \cup ToSet(job[w].todo)
         /\ UNCHANGED <<answered, refused>>
<1>1. CP!IInv /\ CP!IngestAssumption /\ (CP!Advance(w) \/ CP!Fault(w))
  BY CloudInvariantSame, CloudStepsSame, ComponentsAssumed
<1>2. CP!IInv'
  BY <1>1, CP!HandlerKeepsIInv DEF CP!Handles
<1>3. /\ CP!OnlyJob(w) /\ job[w].step # "idle" /\ job'[w].step # "idle"
      /\ CP!Contents(job'[w].todo) \subseteq CP!Contents(job[w].todo)
      /\ CP!Tracked(job[w]) \subseteq CP!Tracked(job'[w])
      /\ processed \subseteq processed'
      /\ processed' \subseteq processed \cup CP!Contents(job[w].todo)
      /\ UNCHANGED CP!observed
  BY <1>1, CP!HandlerTracks
<1> QED
  BY <1>2, <1>3, CloudInvariantSame
     DEF CP!OnlyJob, OthersKeepJobs, CP!Contents, ToSet, CP!Tracked, Tracked, CP!observed

(* A request taken up. *)
LEMMA BeginStep ==
  ASSUME Cloud!IInv, NEW w \in Worker, NEW readings \in Seq(Event), readings # <<>>,
         Cloud!Begin(w, readings)
  PROVE  /\ Cloud!IInv' /\ OthersKeepJobs(w)
         /\ job[w].step = "idle" /\ job'[w].step # "idle" /\ job'[w].todo = readings
         /\ UNCHANGED <<processed, answered, refused>>
<1>1. CP!IInv /\ CP!IngestAssumption /\ CP!Begin(w, readings)
  BY CloudInvariantSame, CloudStepsSame, ComponentsAssumed
<1>2. CP!IInv'
  BY <1>1, CP!HandlerKeepsIInv DEF CP!Handles
<1>3. job \in [Worker -> CP!Job]
  BY <1>1 DEF CP!IInv, CP!TypeOK
<1>4. job' = [job EXCEPT ![w] = [CP!NoJob EXCEPT !.step = "check", !.todo = readings]]
  BY <1>1 DEF CP!Begin
<1>5. job'[w].step = "check" /\ job'[w].todo = readings /\ OthersKeepJobs(w)
  BY <1>3, <1>4 DEF CP!NoJob, OthersKeepJobs
<1>6. job[w].step = "idle" /\ UNCHANGED <<processed, answered, refused>>
  BY <1>1 DEF CP!Begin, CP!At, CP!tables, CP!observed
<1> QED
  BY <1>2, <1>5, <1>6, CloudInvariantSame

(* The end of a job: answered, with every reading of the batch counted, or *)
(* lost with the process.                                                  *)
LEMMA EndStep ==
  ASSUME Cloud!IInv, NEW w \in Worker, Cloud!Respond(w) \/ Cloud!Crash(w)
  PROVE  /\ Cloud!IInv' /\ OthersKeepJobs(w)
         /\ job[w].step # "idle" /\ ToSet(job'[w].todo) = {}
         /\ processed' = processed /\ answered \subseteq answered' /\ refused \subseteq refused'
         /\ Cloud!Respond(w) => Tracked(w) \subseteq answered' \cup refused'
<1>1. CP!IInv /\ CP!IngestAssumption /\ (CP!Respond(w) \/ CP!Crash(w))
  BY CloudInvariantSame, CloudStepsSame, ComponentsAssumed
<1>2. CP!IInv'
  BY <1>1, CP!HandlerKeepsIInv DEF CP!Handles
<1>3. job \in [Worker -> CP!Job] /\ job' = [job EXCEPT ![w] = CP!NoJob]
  BY <1>1 DEF CP!IInv, CP!TypeOK, CP!Respond, CP!Crash
<1>4. job'[w].todo = <<>> /\ OthersKeepJobs(w)
  BY <1>3 DEF CP!NoJob, OthersKeepJobs
<1>5. ToSet(<<>>) = {}
  BY DEF ToSet
<1>6. /\ job[w].step # "idle" /\ processed' = processed
      /\ answered \subseteq answered' /\ refused \subseteq refused'
  BY <1>1 DEF CP!Respond, CP!Crash, CP!At, CP!tables, CP!observed
<1>7. ASSUME Cloud!Respond(w) PROVE Tracked(w) \subseteq answered' \cup refused'
  <2>1. CP!Respond(w)
    BY <1>7, CloudStepsSame
  <2>2. job[w].step = "write" /\ answered' = answered \cup job[w].taken
        /\ refused' = refused \cup job[w].rejected
    BY <2>1 DEF CP!Respond, CP!At
  <2>3. job[w].todo = <<>>
    BY <1>1, <2>2 DEF CP!IInv, CP!JobOK, CP!InHand
  <2> QED
    BY <1>5, <2>2, <2>3 DEF Tracked
<1> QED
  BY <1>2, <1>4, <1>5, <1>6, <1>7, CloudInvariantSame

(* A step of the gateway or of the network. *)
LEMMA CloudIdle == ASSUME Cloud!IInv, UNCHANGED cloud PROVE Cloud!IInv'
<1>1. CP!IInv /\ CP!IngestAssumption /\ UNCHANGED CP!vars
  BY CloudInvariantSame, ComponentsAssumed DEF cloud, CP!vars, CP!tables, CP!observed
<1> QED
  BY <1>1, CP!StutterKeepsIInv, CloudInvariantSame

-----------------------------------------------------------------------------
(* What a step may do to the readings.  Whatever the step, a reading moves   *)
(* only from the gateway's hands to the queue and to the cloud's record, and *)
(* leaves the queue only with a reason.                                      *)
Flow ==
  /\ processed \subseteq processed' /\ processed' \subseteq processed \cup InMotion
  /\ refused \subseteq refused' /\ dropped \subseteq dropped' /\ collected \subseteq collected'
  /\ PayloadsNext \subseteq Payloads \cup InMotion
  /\ Payloads \subseteq PayloadsNext \cup processed' \cup refused' \cup dropped'
  /\ stored' \subseteq stored \cup PayloadsNext \cup dropped'
  /\ InMotion' \subseteq InMotion \cup Payloads \cup collected'
  /\ collected' \subseteq collected \cup InMotion'

(* The two properties of the readings follow from the flow. *)
LEMMA Assemble ==
  ASSUME IInv, Flow, Queue!IInv', Cloud!IInv', GatewayTypes', GatewayOK', RequestTracked',
         SuccessIsForThisRequest', ReplayListIsCurrent'
  PROVE  IInv'
<1>1. Payloads' = PayloadsNext
  BY DEF Payloads, PayloadsNext
<1>2. StoredIsAccountedFor'
  BY <1>1 DEF IInv, Flow, StoredIsAccountedFor
<1>3. OnlyCollected'
  BY <1>1 DEF IInv, Flow, OnlyCollected
<1> QED
  BY <1>2, <1>3 DEF IInv

(* The first of some readings and the rest of them. *)
LEMMA FirstAndRest ==
  ASSUME NEW S, NEW s \in Seq(S), s # <<>>
  PROVE  /\ Head(s) \in S /\ Tail(s) \in Seq(S) /\ ToSet(s) = {Head(s)} \cup ToSet(Tail(s))
         /\ Len(s) # 1 => Tail(s) # <<>>
<1>1. /\ CP!Contents(s) = {Head(s)} \cup CP!Contents(Tail(s))
      /\ Head(s) \in S /\ Tail(s) \in Seq(S)
  BY ComponentsAssumed, CP!HeadAndTail
<1>2. Len(s) # 1 => Tail(s) # <<>>
  <2> DEFINE t == Tail(s)
  <2>1. Len(s) \in Nat /\ Len(s) # 0 /\ Len(t) = Len(s) - 1
    OBVIOUS
  <2> HIDE DEF t
  <2>2. t = <<>> => Len(t) = 0
    OBVIOUS
  <2> SUFFICES Len(s) # 1 => t # <<>>
    BY DEF t
  <2> QED
    BY <2>1, <2>2
<1> QED
  BY <1>1, <1>2 DEF CP!Contents, ToSet

(* The readings of a request in the order the points were read. *)
LEMMA Listed ==
  ASSUME NEW S, IsFiniteSet(S)
  PROVE  SetToSeq(S) \in Seq(S) /\ ToSet(SetToSeq(S)) = S
<1> DEFINE n == Cardinality(S)
           f == SetToSeq(S)
<1>1. n \in Nat /\ ExistsBijection(1..n, S)
  BY FS_CardinalityType
<1>2. \E g \in [1..n -> S] : IsInjective(g)
  BY <1>1 DEF ExistsBijection, Bijection, Injection
<1>3. f \in [1..n -> S] /\ IsInjective(f)
  BY <1>2 DEF SetToSeq
<1>4. Cardinality(1..n) = n
  BY <1>1, FS_Interval
<1> HIDE DEF f
<1>5. f \in Surjection(1..n, S)
  BY <1>3, <1>4, FS_Injection DEF Injection
<1>6. f \in Seq(S) /\ DOMAIN f = 1..n
  BY <1>1, <1>3
<1>7. ToSet(f) = S
  BY <1>3, <1>5, <1>6 DEF ToSet, Surjection
<1> QED
  BY <1>6, <1>7 DEF f

(* The queue holds readings. *)
LEMMA PayloadsType == ASSUME Queue!IInv PROVE Payloads \subseteq Event
<1>1. rows \in [Queue!Ids -> Queue!Row]
  BY DEF Queue!IInv, Queue!TypeOK
<1> QED
  BY <1>1 DEF Payloads, Queue!Row, Queue!Ids

(* The entry the replay loop is at names a row and holds its payload; the   *)
(* entries after it are about other rows.                                   *)
LEMMA ReplayHead ==
  ASSUME IInv, replay # <<>>
  PROVE  /\ Head(replay)[1] \in DOMAIN rows
         /\ rows[Head(replay)[1]].payload = Head(replay)[2]
         /\ Head(replay)[2] \in Event \cap Payloads
         /\ Tail(replay) \in Seq(Nat \X Event)
         /\ \A n \in DOMAIN Tail(replay) :
              /\ Tail(replay)[n][1] \in DOMAIN rows \ {Head(replay)[1]}
              /\ rows[Tail(replay)[n][1]].payload = Tail(replay)[n][2]
         /\ \A m, n \in DOMAIN Tail(replay) : m < n => Tail(replay)[m][1] < Tail(replay)[n][1]
<1> DEFINE t == Tail(replay)
<1>1. replay \in Seq(Nat \X Event) /\ ReplayListIsCurrent
  BY DEF IInv, GatewayTypes
<1>2. /\ Len(replay) \in Nat /\ Len(replay) # 0 /\ DOMAIN replay = 1..Len(replay)
      /\ Head(replay) = replay[1] /\ Head(replay) \in Nat \X Event
      /\ t \in Seq(Nat \X Event) /\ DOMAIN t = 1..(Len(replay) - 1)
      /\ \A n \in DOMAIN t : t[n] = replay[n + 1]
  BY <1>1
<1>3. \A n \in DOMAIN t : /\ n \in Nat /\ n + 1 \in DOMAIN replay /\ 1 < n + 1
                          /\ replay[n + 1] \in Nat \X Event
  BY <1>1, <1>2
<1>4. 1 \in DOMAIN replay
  BY <1>2
<1> HIDE DEF t
<1>5. \A n \in DOMAIN t : /\ t[n][1] \in DOMAIN rows /\ rows[t[n][1]].payload = t[n][2]
                          /\ t[n][1] # Head(replay)[1]
  <2> SUFFICES ASSUME NEW n \in DOMAIN t
               PROVE  /\ t[n][1] \in DOMAIN rows /\ rows[t[n][1]].payload = t[n][2]
                      /\ t[n][1] # Head(replay)[1]
    OBVIOUS
  <2>1. /\ replay[n + 1][1] \in DOMAIN rows /\ rows[replay[n + 1][1]].payload = replay[n + 1][2]
        /\ replay[1][1] < replay[n + 1][1]
    BY <1>1, <1>3, <1>4 DEF ReplayListIsCurrent
  <2>2. replay[1][1] \in Nat /\ replay[n + 1][1] \in Nat
    BY <1>2, <1>3
  <2> QED
    BY <1>2, <2>1, <2>2
<1>6. \A m, n \in DOMAIN t : m < n => t[m][1] < t[n][1]
  <2> SUFFICES ASSUME NEW m \in DOMAIN t, NEW n \in DOMAIN t, m < n PROVE t[m][1] < t[n][1]
    OBVIOUS
  <2>1. m + 1 < n + 1
    BY <1>3
  <2> QED
    BY <1>1, <1>2, <1>3, <2>1 DEF ReplayListIsCurrent
<1>7. Head(replay)[1] \in DOMAIN rows /\ rows[Head(replay)[1]].payload = Head(replay)[2]
  BY <1>1, <1>2, <1>4 DEF ReplayListIsCurrent
<1>8. Head(replay)[2] \in Event \cap Payloads
  BY <1>2, <1>7 DEF Payloads
<1> QED
  BY <1>2, <1>5, <1>6, <1>7, <1>8 DEF t

(* The outstanding request has readings, all of them in motion or queued. *)
LEMMA OutstandingType ==
  ASSUME IInv, conn # "none"
  PROVE  /\ Outstanding \in Seq(Event) /\ Outstanding # <<>>
         /\ ToSet(Outstanding) \subseteq InMotion \cup Payloads
<1>1. CASE pc = "upload"
  BY <1>1 DEF Outstanding, IInv, GatewayTypes, GatewayOK, InMotion
<1>2. CASE pc = "resend"
  <2>1. replay # <<>> /\ Outstanding = <<Head(replay)[2]>>
    BY <1>2 DEF IInv, GatewayOK, Outstanding
  <2>2. Head(replay)[2] \in Event /\ Head(replay)[2] \in Payloads
    BY <2>1, ReplayHead
  <2>3. ToSet(<<Head(replay)[2]>>) = {Head(replay)[2]}
    BY DEF ToSet
  <2> QED
    BY <2>1, <2>2, <2>3
<1> QED
  BY <1>1, <1>2 DEF IInv, GatewayOK

-----------------------------------------------------------------------------
(* Steps of the gateway that touch neither its queue nor the cloud. *)

(* What such a step has to establish. *)
LEMMA GatewayMove ==
  ASSUME IInv, UNCHANGED <<queue, cloud, stored, dropped>>,
         GatewayTypes', GatewayOK', ReplayListIsCurrent',
         collected \subseteq collected', collected' \subseteq collected \cup ToSet(batch'),
         ToSet(batch') \subseteq InMotion \cup collected',
         \A r \in stale' : r \in stale \/ ToSet(r) \subseteq InMotion \cup Payloads,
         \/ conn' \in {"none", "wire", "refused", "lost"}
         \/ UNCHANGED <<conn, pc, batch, replay>>
  PROVE  IInv' /\ Flow
<1>1. Queue!IInv' /\ Cloud!IInv'
  BY QueueIdle, CloudIdle DEF IInv
<1>2. UNCHANGED <<rows, job, processed, answered, refused>> /\ PayloadsNext = Payloads
  BY DEF queue, cloud, Payloads, PayloadsNext
<1>3. InMotion' \subseteq InMotion \cup Payloads \cup collected'
  <2> SUFFICES ASSUME NEW e \in InMotion' PROVE e \in InMotion \cup Payloads \cup collected'
    OBVIOUS
  <2>1. \/ e \in ToSet(batch')
        \/ \E r \in stale' : e \in ToSet(r)
        \/ \E w \in Worker : e \in ToSet(job'[w].todo)
    BY DEF InMotion
  <2>2. CASE \E r \in stale' : e \in ToSet(r)
    BY <2>2 DEF InMotion
  <2>3. CASE \E w \in Worker : e \in ToSet(job'[w].todo)
    BY <1>2, <2>3 DEF InMotion
  <2> QED
    BY <2>1, <2>2, <2>3
<1>4. ToSet(batch') \subseteq InMotion'
  BY DEF InMotion
<1>5. Flow
  BY <1>2, <1>3, <1>4 DEF Flow
<1>6. RequestTracked' /\ SuccessIsForThisRequest'
  <2>1. CASE conn' \in {"none", "wire", "refused", "lost"}
    BY <2>1, StoreForwardAssumption DEF RequestTracked, SuccessIsForThisRequest
  <2>2. CASE UNCHANGED <<conn, pc, batch, replay>>
    <3>1. Outstanding' = Outstanding
      BY <2>2 DEF Outstanding
    <3> QED
      BY <1>2, <2>2, <3>1 DEF IInv, RequestTracked, SuccessIsForThisRequest
  <2> QED
    BY <2>1, <2>2
<1> QED
  BY <1>1, <1>5, <1>6, Assemble

(* The same, for a step that reads nothing and starts no replay. *)
LEMMA GatewayTurn ==
  ASSUME IInv, UNCHANGED <<queue, cloud, trace>>, GatewayTypes', GatewayOK',
         batch' \in {batch, <<>>}, replay' \in {replay, <<>>},
         \A r \in stale' : r \in stale \/ (conn # "none" /\ r = Outstanding),
         \/ conn' \in {"none", "wire", "refused", "lost"}
         \/ UNCHANGED <<conn, pc, batch, replay>>
  PROVE  IInv' /\ Flow
<1>1. ReplayListIsCurrent'
  <2>1. rows' = rows
    BY DEF queue
  <2>2. CASE replay' = <<>>
    BY <2>2 DEF ReplayListIsCurrent
  <2>3. CASE replay' = replay
    BY <2>1, <2>3 DEF IInv, ReplayListIsCurrent
  <2> QED
    BY <2>2, <2>3
<1>2. ToSet(batch') \subseteq InMotion
  <2>1. ToSet(<<>>) = {}
    BY DEF ToSet
  <2> QED
    BY <2>1 DEF InMotion
<1>3. \A r \in stale' : r \in stale \/ ToSet(r) \subseteq InMotion \cup Payloads
  BY OutstandingType
<1> QED
  BY <1>1, <1>2, <1>3, GatewayMove DEF trace

(* Giving a request up: it may still be on its way. *)
LEMMA AbandonOK ==
  ASSUME IInv, conn # "none", Abandon
  PROVE  /\ conn' = "none"
         /\ stale' \subseteq Seq(Event) /\ <<>> \notin stale'
         /\ \A r \in stale' : r \in stale \/ (conn # "none" /\ r = Outstanding)
BY OutstandingType DEF Abandon, IInv, GatewayTypes, GatewayOK

(* A poll: the readings of this cycle are on their way. *)
LEMMA CollectStep == ASSUME IInv, Collect PROVE IInv' /\ Flow
<1>1. PICK points \in (SUBSET Point) \ {{}} :
        \E read \in [points -> {e \in Event : e.ts \in NewStamps(cycle + 1)}] :
          /\ batch' = SetToSeq({read[point] : point \in points})
          /\ collected' = collected \cup {read[point] : point \in points}
  BY DEF Collect
<1>2. PICK read \in [points -> {e \in Event : e.ts \in NewStamps(cycle + 1)}] :
        /\ batch' = SetToSeq({read[point] : point \in points})
        /\ collected' = collected \cup {read[point] : point \in points}
  BY <1>1
<1> DEFINE S == {read[point] : point \in points}
<1>3. S \subseteq Event /\ S # {}
  <2>1. points # {}
    OBVIOUS
  <2>2. S # {}
    BY <2>1
  <2>3. \A other \in points : read[other] \in Event
    BY <1>2
  <2> QED
    BY <2>2, <2>3
<1>4. IsFiniteSet(S)
  BY <1>3, StoreForwardAssumption, FS_Subset
<1> HIDE DEF S
<1>5. batch' \in Seq(S) /\ ToSet(batch') = S
  BY <1>2, <1>4, Listed DEF S
<1>6. batch' \in Seq(Event) /\ batch' # <<>>
  <2>1. batch' \in Seq(Event)
    BY <1>3, <1>5
  <2>2. ToSet(<<>>) = {}
    BY DEF ToSet
  <2> QED
    BY <1>3, <1>5, <2>1, <2>2
<1>7. /\ pc = "poll" /\ pc' = "upload" /\ conn' = "wire" /\ cycle' = cycle + 1
      /\ cycle < MaxReadCycles /\ UNCHANGED <<replay, stale, queue, cloud, stored, dropped, calm>>
  BY DEF Collect
<1>8. collected' = collected \cup S
  BY <1>2 DEF S
<1>9. GatewayTypes'
  BY <1>3, <1>6, <1>7, <1>8, StoreForwardAssumption DEF IInv, GatewayTypes
<1>10. GatewayOK'
  BY <1>6, <1>7 DEF IInv, GatewayOK
<1>11. ReplayListIsCurrent'
  BY <1>7 DEF IInv, ReplayListIsCurrent, queue
<1> QED
  BY <1>5, <1>7, <1>8, <1>9, <1>10, <1>11, GatewayMove

(* Moving on in the loop, with or without an answer. *)
LEMMA LoopStep ==
  ASSUME IInv,
         \/ NothingToUpload \/ ConnectorRaises \/ UploadOk \/ UploadRefused
         \/ ReplayNext \/ ReplayDone
  PROVE  IInv' /\ Flow
<1> USE DEF IInv, GatewayTypes, GatewayOK
<1>1. CASE NothingToUpload \/ ConnectorRaises \/ ReplayDone
  <2>1. conn = "none" /\ UNCHANGED <<cycle, batch, replay, conn, stale, queue, cloud, trace, calm>>
    BY <1>1 DEF NothingToUpload, ConnectorRaises, ReplayDone
  <2>2. GatewayTypes' /\ GatewayOK'
    BY <1>1, <2>1 DEF NothingToUpload, ConnectorRaises, ReplayDone, trace
  <2> QED
    BY <2>1, <2>2, GatewayTurn
<1>2. CASE UploadOk \/ UploadRefused
  <2>1. /\ conn' = "none" /\ batch' \in {batch, <<>>}
        /\ UNCHANGED <<cycle, replay, stale, queue, cloud, trace, calm>>
    BY <1>2 DEF UploadOk, UploadRefused
  <2>2. GatewayTypes' /\ GatewayOK'
    BY <1>2, <2>1 DEF UploadOk, UploadRefused, trace
  <2> QED
    BY <2>1, <2>2, GatewayTurn
<1>3. CASE ReplayNext
  <2>1. conn' = "wire" /\ UNCHANGED <<cycle, batch, replay, stale, queue, cloud, trace, calm>>
    BY <1>3 DEF ReplayNext
  <2>2. GatewayTypes' /\ GatewayOK'
    BY <1>3, <2>1 DEF ReplayNext, trace
  <2> QED
    BY <2>1, <2>2, GatewayTurn
<1> QED
  BY <1>1, <1>2, <1>3

(* The list dequeue_batch returns describes the table it was read from. *)
LEMMA StartReplayStep == ASSUME IInv, StartReplay PROVE IInv' /\ Flow
<1> DEFINE S == Queue!DequeueIds(ReplayLimit)
<1>1. S \subseteq DOMAIN rows /\ DOMAIN rows \subseteq Nat
  <2>1. Queue!TypeOK
    BY DEF IInv, Queue!IInv
  <2> QED
    BY <2>1 DEF Queue!DequeueIds, Queue!Due, Queue!TypeOK, Queue!Ids
<1>2. IsFiniteSet(S)
  <2>1. lastId \in Nat /\ DOMAIN rows \subseteq 1..lastId
    BY DEF IInv, Queue!IInv, Queue!TypeOK, Queue!Ids
  <2>2. IsFiniteSet(1..lastId)
    BY <2>1, FS_Interval
  <2> HIDE DEF S
  <2> QED
    BY <1>1, <2>1, <2>2, FS_Subset
<1> HIDE DEF S
<1>3. PICK ids \in Ascending(S) : replay' = [i \in DOMAIN ids |-> <<ids[i], rows[ids[i]].payload>>]
  BY DEF StartReplay, S
<1> DEFINE n == Cardinality(S)
<1>4. /\ n \in Nat /\ ids \in [1..n -> S]
      /\ \A k, m \in 1..n : k < m => ids[k] < ids[m]
  BY <1>2, FS_CardinalityType DEF Ascending
<1> HIDE DEF n
<1>5. /\ DOMAIN replay' = 1..n
      /\ \A i \in 1..n : replay'[i] = <<ids[i], rows[ids[i]].payload>>
  BY <1>3, <1>4
<1>6. \A i \in 1..n : /\ ids[i] \in Nat /\ ids[i] \in DOMAIN rows
                      /\ rows[ids[i]].payload \in Event
  BY <1>1, <1>4, PayloadsType DEF IInv, Payloads
<1>7. replay' \in Seq(Nat \X Event)
  <2>1. replay' = [i \in 1..n |-> <<ids[i], rows[ids[i]].payload>>]
    BY <1>3, <1>4
  <2> QED
    BY <1>4, <1>6, <2>1
<1>8. pc = "drain" /\ pc' = "replay" /\ UNCHANGED <<cycle, batch, conn, stale, queue, cloud, trace, calm>>
  BY DEF StartReplay
<1>9. ReplayListIsCurrent'
  BY <1>4, <1>5, <1>6, <1>8 DEF ReplayListIsCurrent, queue
<1>10. GatewayTypes' /\ GatewayOK'
  BY <1>7, <1>8 DEF IInv, GatewayTypes, GatewayOK, trace
<1>11. conn' = "none"
  BY <1>8 DEF IInv, GatewayOK
<1>12. ToSet(batch') \subseteq InMotion
  BY <1>8 DEF InMotion
<1> QED
  BY <1>8, <1>9, <1>10, <1>11, <1>12, GatewayMove DEF trace

(* The POST raises: the request is given up, and so is the cycle. *)
LEMMA PostRaisesStep == ASSUME IInv, PostRaises PROVE IInv' /\ Flow
<1>1. /\ conn # "none" /\ Abandon /\ batch' = <<>> /\ replay' = <<>> /\ pc' = "sleep"
      /\ UNCHANGED <<cycle, queue, cloud, trace, calm>>
  BY DEF PostRaises, IInv, GatewayOK
<1>2. /\ conn' = "none" /\ stale' \subseteq Seq(Event) /\ <<>> \notin stale'
      /\ \A r \in stale' : r \in stale \/ (conn # "none" /\ r = Outstanding)
  BY <1>1, AbandonOK
<1>3. GatewayTypes' /\ GatewayOK'
  BY <1>1, <1>2 DEF IInv, GatewayTypes, GatewayOK, trace
<1> QED
  BY <1>1, <1>2, <1>3, GatewayTurn

(* The network answers for the cloud or loses a message; the outage ends. *)
LEMMA NetworkStep == ASSUME IInv, Refuse \/ Lose \/ OutageEnds PROVE IInv' /\ Flow
<1>1. UNCHANGED <<edge, queue, cloud, trace>> /\ stale' \subseteq stale /\ calm' \in BOOLEAN
  BY DEF Refuse, Lose, OutageEnds, IInv, GatewayTypes
<1>2. \/ conn # "none" /\ conn' \in {"refused", "lost"}
      \/ conn' = conn
  BY DEF Refuse, Lose, OutageEnds
<1>3. GatewayTypes' /\ GatewayOK'
  BY <1>1, <1>2 DEF IInv, GatewayTypes, GatewayOK, edge, trace
<1> QED
  BY <1>1, <1>2, <1>3, GatewayTurn DEF edge

-----------------------------------------------------------------------------
(* Steps of the gateway on its queue. *)

(* What such a step has to establish. *)
LEMMA QueueMove ==
  ASSUME IInv, Queue!IInv', UNCHANGED <<cloud, collected>>,
         GatewayTypes', GatewayOK', ReplayListIsCurrent', conn' = "none",
         PayloadsNext \subseteq Payloads \cup InMotion,
         Payloads \subseteq PayloadsNext \cup processed \cup refused \cup dropped',
         stored' \subseteq stored \cup PayloadsNext \cup dropped', dropped \subseteq dropped',
         ToSet(batch') \subseteq ToSet(batch),
         \A r \in stale' : r \in stale \/ (conn # "none" /\ r = Outstanding)
  PROVE  IInv' /\ Flow
<1>1. Cloud!IInv' /\ UNCHANGED <<job, processed, refused>>
  BY CloudIdle DEF IInv, cloud
<1>2. InMotion' \subseteq InMotion \cup Payloads
  <2> SUFFICES ASSUME NEW e \in InMotion' PROVE e \in InMotion \cup Payloads
    OBVIOUS
  <2>1. \/ e \in ToSet(batch')
        \/ \E r \in stale' : e \in ToSet(r)
        \/ \E w \in Worker : e \in ToSet(job'[w].todo)
    BY DEF InMotion
  <2>2. CASE e \in ToSet(batch')
    BY <2>2 DEF InMotion
  <2>3. CASE \E r \in stale' : e \in ToSet(r)
    BY <2>3, OutstandingType DEF InMotion
  <2>4. CASE \E w \in Worker : e \in ToSet(job'[w].todo)
    BY <1>1, <2>4 DEF InMotion
  <2> QED
    BY <2>1, <2>2, <2>3, <2>4
<1>3. Flow
  BY <1>1, <1>2 DEF Flow
<1>4. RequestTracked' /\ SuccessIsForThisRequest'
  BY StoreForwardAssumption DEF RequestTracked, SuccessIsForThisRequest
<1> QED
  BY <1>1, <1>3, <1>4, Assemble

(* A reading goes into the queue; what it makes room for is noted. *)
LEMMA EnqueueKeeps ==
  ASSUME IInv, pc = "enqueue", Note(Head(batch)),
         \/ Queue!Enqueue(Head(batch))
         \/ \E flag \in BOOLEAN : Queue!EnqueueUntrimmed(Head(batch), flag),
         batch' \in {Tail(batch), <<>>}, pc' \in {"enqueue", "drain", "sleep", "poll"},
         pc' = "enqueue" => batch' # <<>>,
         UNCHANGED <<cycle, replay, conn, stale, cloud, collected, calm>>
  PROVE  IInv' /\ Flow
<1> DEFINE e == Head(batch)
<1>1. batch \in Seq(Event) /\ batch # <<>> /\ replay = <<>> /\ conn = "none"
  BY DEF IInv, GatewayTypes, GatewayOK
<1>2. /\ e \in Event /\ Tail(batch) \in Seq(Event)
      /\ ToSet(batch) = {e} \cup ToSet(Tail(batch))
  BY <1>1, FirstAndRest
<1>3. e \in InMotion /\ ToSet(<<>>) = {}
  BY <1>2 DEF InMotion, ToSet
<1>4. Queue!IInv' /\ PayloadsNext \subseteq Payloads \cup {e}
  BY <1>2, EnqueueStep DEF IInv
<1>5. stored' = stored \cup {e} /\ dropped' = dropped \cup ((Payloads \cup {e}) \ PayloadsNext)
  BY DEF Note
<1> HIDE DEF e
<1>6. GatewayTypes'
  <2>1. stored' \subseteq Event /\ dropped' \subseteq Event
    BY <1>2, <1>5, PayloadsType DEF IInv, GatewayTypes
  <2>2. batch' \in Seq(Event)
    <3>1. <<>> \in Seq(Event)
      OBVIOUS
    <3> QED
      BY <1>2, <3>1
  <2> QED
    BY <2>1, <2>2 DEF IInv, GatewayTypes
<1>7. GatewayOK'
  BY <1>1 DEF IInv, GatewayOK
<1>8. ReplayListIsCurrent'
  BY <1>1 DEF ReplayListIsCurrent
<1>9. ToSet(batch') \subseteq ToSet(batch)
  BY <1>2, <1>3
<1> QED
  BY <1>1, <1>3, <1>4, <1>5, <1>6, <1>7, <1>8, <1>9, QueueMove

(* The next reading of a refused batch is queued. *)
LEMMA EnqueueNextStep == ASSUME IInv, EnqueueNext PROVE IInv' /\ Flow
<1>1. batch \in Seq(Event) /\ batch # <<>>
  BY DEF IInv, GatewayTypes, GatewayOK, EnqueueNext
<1>2. pc' = "enqueue" => batch' # <<>>
  BY <1>1, FirstAndRest DEF EnqueueNext
<1> QED
  BY <1>2, EnqueueKeeps DEF EnqueueNext

(* The enqueue fails, before or after its commit. *)
LEMMA EnqueueFailsStep == ASSUME IInv, EnqueueFails PROVE IInv' /\ Flow
<1>1. /\ pc = "enqueue" /\ batch' = <<>> /\ pc' \in {"sleep", "poll"}
      /\ UNCHANGED <<cycle, replay, conn, stale, cloud, collected, calm>>
  BY DEF EnqueueFails
<1>2. CASE UNCHANGED <<queue, stored, dropped>>
  <2>1. conn' = "none" /\ UNCHANGED trace
    BY <1>1, <1>2 DEF IInv, GatewayOK, trace
  <2>2. GatewayTypes' /\ GatewayOK'
    BY <1>1, <2>1 DEF IInv, GatewayTypes, GatewayOK, trace
  <2> QED
    BY <1>1, <1>2, <2>1, <2>2, GatewayTurn
<1>3. CASE /\ Note(Head(batch))
           /\ \E flag \in {overflow, FALSE} : Queue!EnqueueUntrimmed(Head(batch), flag)
  <2>1. overflow \in BOOLEAN
    BY DEF IInv, Queue!IInv, Queue!TypeOK
  <2>2. \E flag \in BOOLEAN : Queue!EnqueueUntrimmed(Head(batch), flag)
    BY <1>3, <2>1
  <2> QED
    BY <1>1, <1>3, <2>2, EnqueueKeeps
<1> QED
  BY <1>2, <1>3 DEF EnqueueFails

(* A success answer: the row goes, and the cloud has dealt with its reading. *)
LEMMA ReplayOkStep == ASSUME IInv, ReplayOk PROVE IInv' /\ Flow
<1> DEFINE id == Head(replay)[1]
           e  == Head(replay)[2]
<1>1. /\ pc = "resend" /\ conn = "ok" /\ Queue!Ack(id) /\ conn' = "none"
      /\ replay' = Tail(replay) /\ pc' = "replay"
      /\ UNCHANGED <<cycle, batch, stale, cloud, trace, calm>>
  BY DEF ReplayOk
<1>2. replay # <<>>
  BY <1>1 DEF IInv, GatewayOK
<1>3. /\ id \in DOMAIN rows /\ rows[id].payload = e
      /\ Tail(replay) \in Seq(Nat \X Event)
      /\ \A n \in DOMAIN Tail(replay) : /\ Tail(replay)[n][1] \in DOMAIN rows \ {id}
                                        /\ rows[Tail(replay)[n][1]].payload = Tail(replay)[n][2]
      /\ \A m, n \in DOMAIN Tail(replay) : m < n => Tail(replay)[m][1] < Tail(replay)[n][1]
  BY <1>2, ReplayHead
<1>4. /\ Queue!IInv' /\ DOMAIN rows' = DOMAIN rows \ {id}
      /\ \A i \in DOMAIN rows' : rows'[i] = rows[i]
  BY <1>1, <1>3, AckStep DEF IInv
<1>5. e \in processed \cup refused
  <2>1. Outstanding = <<e>> /\ ToSet(<<e>>) = {e}
    BY <1>1 DEF Outstanding, ToSet
  <2>2. answered \subseteq processed
    BY DEF IInv, Cloud!IInv, Cloud!AnsweredIsRecorded
  <2> QED
    BY <1>1, <2>1, <2>2 DEF IInv, SuccessIsForThisRequest
<1> HIDE DEF id, e
<1>6. PayloadsNext \subseteq Payloads /\ Payloads \subseteq PayloadsNext \cup {e}
  BY <1>3, <1>4 DEF Payloads, PayloadsNext
<1>7. ReplayListIsCurrent'
  BY <1>1, <1>3, <1>4 DEF ReplayListIsCurrent
<1>8. GatewayTypes' /\ GatewayOK'
  BY <1>1, <1>3 DEF IInv, GatewayTypes, GatewayOK, trace
<1>9. UNCHANGED <<batch, stale, cloud, collected, stored, dropped>>
  BY <1>1 DEF trace
<1> QED
  BY <1>1, <1>4, <1>5, <1>6, <1>7, <1>8, <1>9, QueueMove

(* A refusal puts the row off; time passes. *)
LEMMA RetimingKeeps == ASSUME IInv, ReplayRefused \/ Sleep PROVE IInv' /\ Flow
<1>1. /\ replay' = IF pc = "resend" THEN Tail(replay) ELSE replay
      /\ pc \in {"resend", "sleep"} /\ pc' = (IF pc = "resend" THEN "replay" ELSE "poll")
      /\ UNCHANGED <<cycle, batch, stale, cloud, trace, calm>>
  BY DEF ReplayRefused, Sleep
<1>2. pc = "resend" => replay # <<>>
  BY DEF IInv, GatewayOK
<1>3. /\ Queue!IInv' /\ DOMAIN rows' = DOMAIN rows
      /\ \A i \in DOMAIN rows : rows'[i].payload = rows[i].payload
  <2>1. ASSUME ReplayRefused PROVE \E id \in DOMAIN rows : Queue!BumpAttempts(id)
    BY <1>2, <2>1, ReplayHead DEF ReplayRefused
  <2>2. Queue!Tick \/ \E id \in DOMAIN rows : Queue!BumpAttempts(id)
    BY <2>1 DEF Sleep
  <2> QED
    BY <2>2, RetimingStep DEF IInv
<1>4. PayloadsNext = Payloads
  BY <1>3 DEF Payloads, PayloadsNext
<1>5. replay' \in Seq(Nat \X Event) /\ ReplayListIsCurrent'
  <2>1. CASE pc = "resend"
    BY <1>1, <1>2, <1>3, <2>1, ReplayHead DEF ReplayListIsCurrent
  <2>2. CASE pc = "sleep"
    BY <1>1, <1>3, <2>2 DEF IInv, GatewayTypes, ReplayListIsCurrent
  <2> QED
    BY <1>1, <2>1, <2>2
<1>6. conn' = "none"
  BY DEF ReplayRefused, Sleep, IInv, GatewayOK
<1>7. GatewayTypes' /\ GatewayOK'
  BY <1>1, <1>5, <1>6 DEF IInv, GatewayTypes, GatewayOK, trace
<1>8. UNCHANGED <<batch, stale, cloud, collected, stored, dropped>>
  BY <1>1 DEF trace
<1> QED
  BY <1>3, <1>4, <1>5, <1>6, <1>7, <1>8, QueueMove

(* The gateway dies and opens the same queue again. *)
LEMMA EdgeCrashStep == ASSUME IInv, EdgeCrash PROVE IInv' /\ Flow
<1>1. /\ Queue!Reopen /\ batch' = <<>> /\ replay' = <<>> /\ pc' = "poll"
      /\ UNCHANGED <<cycle, cloud, trace, calm>>
  BY DEF EdgeCrash
<1>2. /\ conn' = "none" /\ stale' \subseteq Seq(Event) /\ <<>> \notin stale'
      /\ \A r \in stale' : r \in stale \/ (conn # "none" /\ r = Outstanding)
  <2>1. CASE pc \in {"upload", "resend"}
    <3>1. Abandon /\ conn # "none"
      BY <2>1 DEF EdgeCrash, IInv, GatewayOK
    <3> QED
      BY <3>1, AbandonOK
  <2>2. CASE pc \notin {"upload", "resend"}
    BY <2>2 DEF EdgeCrash, IInv, GatewayOK, GatewayTypes
  <2> QED
    BY <2>1, <2>2
<1>3. Queue!IInv' /\ rows' = rows
  BY <1>1, QueueIdle DEF IInv
<1>4. PayloadsNext = Payloads /\ ReplayListIsCurrent'
  BY <1>1, <1>3 DEF Payloads, PayloadsNext, ReplayListIsCurrent
<1>5. GatewayTypes' /\ GatewayOK'
  BY <1>1, <1>2 DEF IInv, GatewayTypes, GatewayOK, trace
<1>6. ToSet(batch') \subseteq ToSet(batch)
  BY <1>1 DEF ToSet
<1>7. UNCHANGED <<cloud, collected, stored, dropped>>
  BY <1>1 DEF trace
<1> QED
  BY <1>2, <1>3, <1>4, <1>5, <1>6, <1>7, QueueMove

-----------------------------------------------------------------------------
(* Steps of the cloud. *)

(* What a step of worker w has to establish. *)
LEMMA CloudMove ==
  ASSUME IInv, NEW w \in Worker, Cloud!IInv', UNCHANGED <<edge, queue, trace, calm>>,
         stale' \subseteq stale, OthersKeepJobs(w),
         ToSet(job'[w].todo) \subseteq InMotion \cup Payloads,
         processed \subseteq processed', processed' \subseteq processed \cup InMotion,
         refused \subseteq refused',
         conn' \in {"none", "wire", "ok", "refused", "lost"} \cup Worker,
         conn' # "none" <=> conn # "none",
         RequestTracked', SuccessIsForThisRequest'
  PROVE  IInv' /\ Flow
<1>1. Queue!IInv' /\ rows' = rows
  BY QueueIdle DEF IInv
<1>2. UNCHANGED <<pc, cycle, batch, replay, collected, stored, dropped>>
  BY DEF edge, trace
<1>3. PayloadsNext = Payloads /\ ReplayListIsCurrent'
  BY <1>1, <1>2 DEF IInv, Payloads, PayloadsNext, ReplayListIsCurrent
<1>4. GatewayTypes' /\ GatewayOK'
  BY <1>2 DEF IInv, GatewayTypes, GatewayOK
<1>5. InMotion' \subseteq InMotion \cup Payloads
  <2> SUFFICES ASSUME NEW e \in InMotion' PROVE e \in InMotion \cup Payloads
    OBVIOUS
  <2>1. \/ e \in ToSet(batch')
        \/ \E r \in stale' : e \in ToSet(r)
        \/ \E v \in Worker : e \in ToSet(job'[v].todo)
    BY DEF InMotion
  <2>2. CASE e \in ToSet(batch')
    BY <1>2, <2>2 DEF InMotion
  <2>3. CASE \E r \in stale' : e \in ToSet(r)
    BY <2>3 DEF InMotion
  <2>4. ASSUME NEW v \in Worker, e \in ToSet(job'[v].todo) PROVE e \in InMotion \cup Payloads
    <3>1. CASE v = w
      BY <2>4, <3>1
    <3>2. CASE v # w
      BY <2>4, <3>2 DEF OthersKeepJobs, InMotion
    <3> QED
      BY <3>1, <3>2
  <2> QED
    BY <2>1, <2>2, <2>3, <2>4
<1>6. Flow
  BY <1>2, <1>3, <1>5 DEF Flow
<1> QED
  BY <1>1, <1>3, <1>4, <1>6, Assemble

(* The readings a worker has in hand are in motion. *)
LEMMA JobInMotion == ASSUME NEW w \in Worker PROVE ToSet(job[w].todo) \subseteq InMotion
BY DEF InMotion

(* Which request is outstanding is the gateway's own affair. *)
LEMMA SameOutstanding == ASSUME UNCHANGED edge PROVE Outstanding' = Outstanding
BY DEF edge, Outstanding

(* A request is taken up: the gateway's own, or one it has given up on. *)
LEMMA ReceiveStep == ASSUME IInv, NEW w \in Worker, Receive(w) PROVE IInv' /\ Flow
<1>1. UNCHANGED <<edge, queue, trace, calm>> /\ Outstanding' = Outstanding
  BY SameOutstanding DEF Receive
<1>2. CASE conn = "wire" /\ Cloud!Begin(w, Outstanding) /\ conn' = w /\ UNCHANGED stale
  <2>1. /\ Outstanding \in Seq(Event) /\ Outstanding # <<>>
        /\ ToSet(Outstanding) \subseteq InMotion \cup Payloads
    BY <1>2, OutstandingType
  <2>2. /\ Cloud!IInv' /\ OthersKeepJobs(w) /\ job'[w].step # "idle"
        /\ job'[w].todo = Outstanding /\ UNCHANGED <<processed, answered, refused>>
    BY <1>2, <2>1, BeginStep DEF IInv
  <2>3. w \notin {"none", "ok"}
    BY StoreForwardAssumption
  <2>4. RequestTracked' /\ SuccessIsForThisRequest'
    BY <1>1, <1>2, <2>2, <2>3 DEF RequestTracked, SuccessIsForThisRequest
  <2> QED
    BY <1>1, <1>2, <2>1, <2>2, <2>3, <2>4, CloudMove
<1>3. ASSUME NEW readings \in stale, Cloud!Begin(w, readings),
             stale' = stale \ {readings}, UNCHANGED conn
      PROVE  IInv' /\ Flow
  <2>1. readings \in Seq(Event) /\ readings # <<>> /\ ToSet(readings) \subseteq InMotion
    BY DEF IInv, GatewayTypes, GatewayOK, InMotion
  <2>2. /\ Cloud!IInv' /\ OthersKeepJobs(w) /\ job[w].step = "idle"
        /\ job'[w].todo = readings /\ UNCHANGED <<processed, answered, refused>>
    BY <1>3, <2>1, BeginStep DEF IInv
  <2>3. RequestTracked' /\ SuccessIsForThisRequest'
    <3>1. conn \in Worker => conn # w
      BY <2>2 DEF IInv, RequestTracked
    <3> QED
      BY <1>1, <1>3, <2>2, <3>1
         DEF IInv, RequestTracked, SuccessIsForThisRequest, OthersKeepJobs
  <2>4. conn \in {"none", "wire", "ok", "refused", "lost"} \cup Worker
    BY DEF IInv, GatewayTypes
  <2> QED
    BY <1>1, <1>3, <2>1, <2>2, <2>3, <2>4, CloudMove
<1> QED
  BY <1>2, <1>3 DEF Receive

(* The handler works on, whatever its store does. *)
LEMMA ServeStep == ASSUME IInv, NEW w \in Worker, Serve(w) \/ StoreFault(w) PROVE IInv' /\ Flow
<1>1. /\ UNCHANGED <<edge, conn, stale, queue, trace, calm>> /\ Outstanding' = Outstanding
      /\ Cloud!Advance(w) \/ Cloud!Fault(w)
  BY SameOutstanding DEF Serve, StoreFault
<1>2. /\ Cloud!IInv' /\ OthersKeepJobs(w) /\ job'[w].step # "idle"
      /\ ToSet(job'[w].todo) \subseteq ToSet(job[w].todo) /\ Tracked(w) \subseteq Tracked(w)'
      /\ processed \subseteq processed' /\ processed' \subseteq processed \cup ToSet(job[w].todo)
      /\ UNCHANGED <<answered, refused>>
  BY <1>1, HandlerStep DEF IInv
<1>3. RequestTracked'
  <2>1. CASE conn = w
    BY <1>1, <1>2, <2>1 DEF IInv, RequestTracked, Tracked
  <2>2. CASE conn # w
    BY <1>1, <1>2, <2>2 DEF IInv, RequestTracked, OthersKeepJobs
  <2> QED
    BY <2>1, <2>2
<1>4. SuccessIsForThisRequest'
  BY <1>1, <1>2 DEF IInv, SuccessIsForThisRequest
<1>5. conn \in {"none", "wire", "ok", "refused", "lost"} \cup Worker
  BY DEF IInv, GatewayTypes
<1> QED
  BY <1>1, <1>2, <1>3, <1>4, <1>5, JobInMotion, CloudMove

(* The response, and the death of the process. *)
LEMMA EndOfJobStep ==
  ASSUME IInv, NEW w \in Worker, Respond(w) \/ CloudCrash(w)
  PROVE  IInv' /\ Flow
<1>1. /\ UNCHANGED <<edge, stale, queue, trace, calm>> /\ Outstanding' = Outstanding
      /\ Cloud!Respond(w) \/ Cloud!Crash(w)
      /\ IF conn = w THEN conn' \in {"ok", "lost"} ELSE conn' = conn
      /\ conn' = "ok" => conn = "ok" \/ (conn = w /\ Cloud!Respond(w))
  BY SameOutstanding DEF Respond, CloudCrash
<1>2. /\ Cloud!IInv' /\ OthersKeepJobs(w) /\ ToSet(job'[w].todo) = {}
      /\ processed' = processed /\ answered \subseteq answered' /\ refused \subseteq refused'
      /\ Cloud!Respond(w) => Tracked(w) \subseteq answered' \cup refused'
  BY <1>1, EndStep DEF IInv
<1>3. w \notin {"none", "ok", "lost"} /\ {"ok", "lost"} \cap Worker = {}
  BY StoreForwardAssumption
<1>4. RequestTracked'
  BY <1>1, <1>2, <1>3 DEF IInv, RequestTracked, OthersKeepJobs
<1>5. SuccessIsForThisRequest'
  <2> SUFFICES ASSUME conn' = "ok" PROVE ToSet(Outstanding) \subseteq answered' \cup refused'
    BY <1>1 DEF SuccessIsForThisRequest
  <2>1. CASE conn = "ok"
    BY <1>2, <2>1 DEF IInv, SuccessIsForThisRequest
  <2>2. CASE conn = w /\ Cloud!Respond(w)
    BY <1>2, <2>2 DEF IInv, RequestTracked, Tracked
  <2> QED
    BY <1>1, <2>1, <2>2
<1>6. /\ conn' \in {"none", "wire", "ok", "refused", "lost"} \cup Worker
      /\ conn' # "none" <=> conn # "none"
  BY <1>1, <1>3 DEF IInv, GatewayTypes
<1> QED
  BY <1>1, <1>2, <1>4, <1>5, <1>6, CloudMove

-----------------------------------------------------------------------------
(* The invariant. *)

(* An empty queue, an idle cloud and a gateway about to poll. *)
LEMMA InitIInv == Init => IInv
<1> SUFFICES ASSUME Init PROVE IInv
  OBVIOUS
<1>1. Queue!IInv
  BY QueueStepsSame, QueueInvariantSame, ComponentsAssumed, QP!InitIInv DEF Init
<1>2. CP!Init /\ CP!IInv
  BY CloudStepsSame, ComponentsAssumed, CP!InitIInv DEF Init
<1>3. Cloud!IInv
  BY <1>2, CloudInvariantSame
<1>4. GatewayTypes /\ GatewayOK
  <2>1. <<>> \in Seq(Event) /\ <<>> \in Seq(Nat \X Event) /\ 0 \in 0..MaxReadCycles
    BY StoreForwardAssumption
  <2> QED
    BY <2>1 DEF Init, GatewayTypes, GatewayOK
<1>5. RequestTracked /\ SuccessIsForThisRequest /\ ReplayListIsCurrent /\ StoredIsAccountedFor
  BY StoreForwardAssumption
     DEF Init, RequestTracked, SuccessIsForThisRequest, ReplayListIsCurrent, StoredIsAccountedFor
<1>6. OnlyCollected
  <2>1. Payloads = {} /\ processed = {}
    BY <1>2 DEF Init, Queue!Init, Payloads, CP!Init
  <2>2. ToSet(batch) = {} /\ stale = {} /\ \A w \in Worker : ToSet(job[w].todo) = {}
    BY <1>2 DEF Init, ToSet, CP!Init, CP!NoJob
  <2>3. InMotion = {}
    BY <2>2 DEF InMotion
  <2> QED
    BY <2>1, <2>3 DEF OnlyCollected
<1> QED
  BY <1>1, <1>3, <1>4, <1>5, <1>6 DEF IInv

(* Every step keeps the invariant and respects the flow of the readings. *)
LEMMA NextStep == ASSUME IInv, Next PROVE IInv' /\ Flow
<1>1. CASE Edge
  BY <1>1, CollectStep, LoopStep, EnqueueNextStep, StartReplayStep, ReplayOkStep, RetimingKeeps
     DEF Edge
<1>2. CASE ConnectorRaises \/ EnqueueFails \/ PostRaises \/ EdgeCrash
  BY <1>2, LoopStep, EnqueueFailsStep, PostRaisesStep, EdgeCrashStep
<1>3. ASSUME NEW w \in Worker,
             Receive(w) \/ Serve(w) \/ StoreFault(w) \/ Respond(w) \/ CloudCrash(w)
      PROVE  IInv' /\ Flow
  BY <1>3, ReceiveStep, ServeStep, EndOfJobStep
<1>4. CASE Refuse \/ Lose \/ OutageEnds
  BY <1>4, NetworkStep
<1> QED
  BY <1>1, <1>2, <1>3, <1>4 DEF Next

(* So does a step that changes nothing. *)
LEMMA StutterStep == ASSUME IInv, UNCHANGED vars PROVE IInv' /\ Flow
<1>1. UNCHANGED <<edge, conn, stale, queue, cloud, trace, calm>>
  BY DEF vars
<1>2. GatewayTypes' /\ GatewayOK'
  BY <1>1 DEF IInv, GatewayTypes, GatewayOK, edge, trace
<1> QED
  BY <1>1, <1>2, GatewayTurn DEF edge

(* The invariant is inductive. *)
LEMMA NextKeepsIInv == IInv /\ [Next]_vars => IInv'
BY NextStep, StutterStep

-----------------------------------------------------------------------------
(* The theorems. *)

(* The inductive invariant holds of the gateway and the cloud together. *)
THEOREM PathInvariance == Spec => []IInv
<1> QED
  BY InitIInv, NextKeepsIInv, PTL DEF Spec

(* The gateway, the connection, the queue and the tables keep their types. *)
THEOREM PathTypes == Spec => []TypeOK
<1>1. IInv => TypeOK
  BY DEF IInv, TypeOK, Queue!IInv, Cloud!IInv
<1> QED
  BY <1>1, PathInvariance, PTL

(* No reading the gateway queued is ever forgotten, whatever is lost, late, *)
(* repeated or crashes: any number of readings, points and server processes.*)
THEOREM NothingStoredIsForgotten == Spec => []StoredIsAccountedFor
<1>1. IInv => StoredIsAccountedFor
  BY DEF IInv
<1> QED
  BY <1>1, PathInvariance, PTL

(* A success the gateway acts on is about the request it has outstanding. *)
THEOREM AnswersMatchRequests == Spec => []SuccessIsForThisRequest
<1>1. IInv => SuccessIsForThisRequest
  BY DEF IInv
<1> QED
  BY <1>1, PathInvariance, PTL

(* The replay loop never acts on a row that has changed under it. *)
THEOREM ReplayListStaysCurrent == Spec => []ReplayListIsCurrent
<1>1. IInv => ReplayListIsCurrent
  BY DEF IInv
<1> QED
  BY <1>1, PathInvariance, PTL

(* Initially no reading has been read. *)
LEMMA DeliveryInit == Init => Delivery!Init
<1> SUFFICES ASSUME Init PROVE Delivery!Init
  OBVIOUS
<1>1. IInv
  BY InitIInv
<1>2. collected = {} /\ dropped \cup refused = {}
  BY CloudStepsSame DEF Init, CP!Init
<1>3. processed = {} /\ Payloads = {} /\ InMotion = {}
  BY <1>1, <1>2 DEF IInv, OnlyCollected
<1>4. \A e \in Event : PlaceOf(e) = "unread"
  BY <1>2, <1>3 DEF PlaceOf
<1> QED
  BY <1>2, <1>4 DEF Delivery!Init

(* Every step moves every reading as TelemetryDelivery allows, or not at all. *)
LEMMA DeliveryStep == ASSUME IInv, IInv', Flow PROVE Delivery!Next
<1> DEFINE pl == [e \in Event |-> PlaceOf(e)]
<1>1. Payloads' = PayloadsNext
  BY DEF Payloads, PayloadsNext
<1>2. /\ InMotion \subseteq collected /\ Payloads \subseteq collected /\ processed \subseteq collected
      /\ InMotion' \subseteq collected' /\ Payloads' \subseteq collected'
      /\ processed' \subseteq collected'
  BY DEF IInv, OnlyCollected
<1>3. ASSUME NEW e \in Event
      PROVE  /\ PlaceOf(e)' \in Delivery!Places
             /\ \/ Delivery!Collected(e) \/ Delivery!Stored(e) \/ Delivery!Recorded(e)
                \/ Delivery!Vanished(e) \/ Delivery!Released(e)
                \/ PlaceOf(e)' = PlaceOf(e)
  <2>1. PlaceOf(e) = IF e \in processed THEN "recorded"
                     ELSE IF e \in Payloads THEN "queued"
                     ELSE IF e \in InMotion THEN "moving"
                     ELSE IF e \in collected THEN "gone" ELSE "unread"
    BY DEF PlaceOf
  <2>2. PlaceOf(e)' = IF e \in processed' THEN "recorded"
                      ELSE IF e \in Payloads' THEN "queued"
                      ELSE IF e \in InMotion' THEN "moving"
                      ELSE IF e \in collected' THEN "gone" ELSE "unread"
    BY DEF PlaceOf
  <2>3. pl[e] = PlaceOf(e) /\ pl'[e] = PlaceOf(e)'
    OBVIOUS
  <2> QED
    BY <1>1, <1>2, <2>1, <2>2, <2>3
       DEF Flow, Delivery!Places, Delivery!Collected, Delivery!Stored, Delivery!Recorded,
           Delivery!Vanished, Delivery!Released, Delivery!Moves
<1>4. /\ dropped \cup refused \subseteq dropped' \cup refused'
      /\ dropped' \cup refused' \subseteq Event
  <2>1. Cloud!TypeOK' /\ GatewayTypes'
    BY DEF IInv, Cloud!IInv
  <2> QED
    BY <2>1 DEF Flow, Cloud!TypeOK, GatewayTypes
<1> QED
  BY <1>3, <1>4 DEF Delivery!Next

(* The gateway, the network and the cloud implement store-and-forward        *)
(* delivery: queued, a reading is recorded or let go with an excuse, and what *)
(* is recorded stays recorded.                                               *)
THEOREM ImplementsDelivery == Spec => DeliverySpec
<1>1. ASSUME IInv, [Next]_vars PROVE [Delivery!Next]_(Delivery!vars)
  <2>1. IInv' /\ Flow
    BY <1>1, NextStep, StutterStep
  <2> QED
    BY <1>1, <2>1, DeliveryStep
<1> QED
  BY <1>1, DeliveryInit, PathInvariance, PTL DEF Spec, DeliverySpec, Delivery!Spec

-----------------------------------------------------------------------------
(* One server process, as the deployment runs it. *)

(* To the cloud a step of the whole is a step of a handler, or none. *)
LEMMA CloudPart ==
  ASSUME IInv, [Next]_vars
  PROVE  (\E w \in Worker : CP!Handles(w)) \/ UNCHANGED CP!vars
<1>1. UNCHANGED cloud => UNCHANGED CP!vars
  BY DEF cloud, CP!vars, CP!tables, CP!observed
<1>2. ASSUME NEW w \in Worker,
             Receive(w) \/ Serve(w) \/ StoreFault(w) \/ Respond(w) \/ CloudCrash(w)
      PROVE  CP!Handles(w)
  <2>1. ASSUME Receive(w)
        PROVE  \E readings \in Seq(Event) : readings # <<>> /\ Cloud!Begin(w, readings)
    <3>1. CASE conn = "wire" /\ Cloud!Begin(w, Outstanding)
      BY <3>1, OutstandingType
    <3>2. CASE \E readings \in stale : Cloud!Begin(w, readings)
      BY <3>2 DEF IInv, GatewayTypes, GatewayOK
    <3> QED
      BY <2>1, <3>1, <3>2 DEF Receive
  <2> QED
    BY <1>2, <2>1, CloudStepsSame DEF Serve, StoreFault, Respond, CloudCrash, CP!Handles
<1>3. CASE Edge \/ ConnectorRaises \/ EnqueueFails \/ PostRaises \/ EdgeCrash
           \/ Refuse \/ Lose \/ OutageEnds \/ UNCHANGED vars
  <2>1. UNCHANGED cloud
    BY <1>3 DEF Edge, Collect, NothingToUpload, UploadOk, UploadRefused, EnqueueNext, StartReplay,
       ReplayNext, ReplayDone, ReplayOk, ReplayRefused, Sleep, ConnectorRaises, EnqueueFails,
       PostRaises, EdgeCrash, Refuse, Lose, OutageEnds, vars
  <2> QED
    BY <1>1, <2>1
<1> QED
  BY <1>2, <1>3 DEF Next

(* With one server process a reading that is recorded is never applied to    *)
(* the current state again, however often the gateway resends it.            *)
THEOREM ResendingAppliesOnce ==
  ASSUME NEW w \in Worker, Worker = {w}
  PROVE  Spec => AppliedOnce
<1> DEFINE J == IInv /\ CP!IInvAlone
           Once == \A p \in Point : current'[p] # current[p] => current'[p] \notin processed
<1>1. Init => J
  BY InitIInv, CloudStepsSame, ComponentsAssumed, CP!InitAlone DEF Init
<1>2. ASSUME J, [Next]_vars PROVE J' /\ [Once]_(Cloud!vars)
  <2>1. IInv'
    BY <1>2, NextKeepsIInv
  <2>2. (\E v \in Worker : CP!Handles(v)) \/ UNCHANGED CP!vars
    BY <1>2, CloudPart
  <2>3. CP!IInvAlone'
    BY <1>2, <2>2, ComponentsAssumed, CP!AloneHandles, CP!AloneStutter
  <2>4. Once \/ UNCHANGED Cloud!vars
    <3>1. CASE \E v \in Worker : CP!Handles(v)
      BY <1>2, <3>1, ComponentsAssumed, CP!AloneApplies
    <3>2. CASE UNCHANGED CP!vars
      BY <3>2 DEF CP!vars, CP!tables, CP!observed, Cloud!vars, Cloud!tables, Cloud!observed
    <3> QED
      BY <2>2, <3>1, <3>2
  <2> QED
    BY <2>1, <2>3, <2>4
<1>3. J /\ [Next]_vars => J'
  BY <1>2
<1>4. J /\ [Next]_vars => [Once]_(Cloud!vars)
  BY <1>2
<1> QED
  BY <1>1, <1>3, <1>4, PTL DEF Spec, AppliedOnce, Cloud!AppliedOnce

=============================================================================
