----------------------------- MODULE CloudIngest -----------------------------
(***************************************************************************)
(* The cloud's ingest of telemetry batches: the request handler            *)
(* ingest_telemetry_batch (app/api/telemetry.py) and the pipeline it calls *)
(* (app/services/telemetry_pipeline.py) over the telemetry store.          *)
(*                                                                         *)
(* Every store call is a step of its own: with the PostgREST store each    *)
(* call is a separate HTTP request with no transaction around them, any of *)
(* them may raise with or without having taken effect, and the process may *)
(* die between any two.  A reading stands for its event_id.                *)
(***************************************************************************)
EXTENDS Integers, Sequences, Readings

CONSTANTS
  Worker,         \* server processes handling batches
  Point,          \* source points
  PointOf(_),     \* the source point of a reading
  SlotOf(_),      \* the Influx series and timestamp a reading is written at
  Unacceptable,   \* readings the pipeline's validation rejects
  NonNumeric,     \* readings whose value is text: no Influx row
  NoReading       \* current state of a point that has none (NO_DATA)

ASSUME IngestAssumption ==
  /\ \A e \in Event : PointOf(e) \in Point
  /\ Unacceptable \subseteq Event
  /\ NonNumeric \subseteq Event
  /\ NoReading \notin Event

VARIABLES
  job,         \* per worker, the batch being processed
  known,       \* table raw_points: points with a registry row
  current,     \* table point_current_state
  processed,   \* table telemetry_events
  history,     \* Influx: the reading stored at each series and timestamp
  answered,    \* history: readings a 200 response counted accepted or duplicate
  refused,     \* history: readings a 200 response listed under rejections
  replaced     \* history: readings another value has overwritten in Influx

tables == <<known, current, processed>>
observed == <<answered, refused>>
vars == <<job, tables, history, observed, replaced>>

Step == {"idle", "check", "point", "state", "mark", "write"}

(***************************************************************************)
(* todo: readings not processed yet, the one in progress first; rows: the  *)
(* influx_rows gathered so far; taken, rejected: the response's counts.    *)
(***************************************************************************)
Job == [step : Step, todo : Seq(Event), rows : Seq(Event),
        taken : SUBSET Event, rejected : SUBSET Event]

NoJob == [step |-> "idle", todo |-> <<>>, rows |-> <<>>, taken |-> {}, rejected |-> {}]

Init ==
  /\ job = [w \in Worker |-> NoJob]
  /\ known = {}
  /\ current = [p \in Point |-> NoReading]
  /\ processed = {}
  /\ history = {}
  /\ answered = {}
  /\ refused = {}
  /\ replaced = {}

At(w, step) == job[w].step = step
Reading(w) == Head(job[w].todo)

Goto(w, step) == job' = [job EXCEPT ![w].step = step]

(* The loop of process_batch goes on to the next reading, or leaves the loop. *)
NextReading(w, j) ==
  job' = [job EXCEPT ![w] = [j EXCEPT !.todo = Tail(@),
                                      !.step = IF Len(j.todo) = 1 THEN "write" ELSE "check"]]

Accepted(w) == [job[w] EXCEPT !.taken = @ \cup {Reading(w)},
                              !.rows = IF Reading(w) \in NonNumeric THEN @
                                       ELSE Append(@, Reading(w))]
Duplicate(w) == [job[w] EXCEPT !.taken = @ \cup {Reading(w)}]
Rejected(w) == [job[w] EXCEPT !.rejected = @ \cup {Reading(w)}]

(* The handler starts on an authorized, well-formed, non-empty batch. *)
Begin(w, batch) ==
  /\ At(w, "idle")
  /\ job' = [job EXCEPT ![w] = [NoJob EXCEPT !.step = "check", !.todo = batch]]
  /\ UNCHANGED <<tables, history, observed, replaced>>

(* Validation: a missing value, timestamp or identity, or quality INVALID. *)
RejectReading(w) ==
  /\ At(w, "check")
  /\ Reading(w) \in Unacceptable
  /\ NextReading(w, Rejected(w))
  /\ UNCHANGED <<tables, history, observed, replaced>>

SkipDuplicate(w) ==
  /\ At(w, "check")
  /\ Reading(w) \in processed \ Unacceptable
  /\ NextReading(w, Duplicate(w))
  /\ UNCHANGED <<tables, history, observed, replaced>>

(* Slips: the event_id is claimed before the reading is applied; the dedupe *)
(* check is forgotten.                                                     *)
PassChecksClaiming(w) ==
  /\ At(w, "check")
  /\ Reading(w) \notin processed \cup Unacceptable
  /\ Goto(w, "point")
  /\ processed' = processed \cup {Reading(w)}
  /\ UNCHANGED <<known, current, history, observed, replaced>>

PassChecksAlways(w) ==
  /\ At(w, "check")
  /\ Reading(w) \notin Unacceptable
  /\ Goto(w, "point")
  /\ UNCHANGED <<tables, history, observed, replaced>>

PassChecks(w) ==
  /\ At(w, "check")
  /\ Reading(w) \notin processed \cup Unacceptable
  /\ Goto(w, "point")
  /\ UNCHANGED <<tables, history, observed, replaced>>

(* Slip: the registry row is keyed by the reading. *)
RegisterReading(e) == known' = known \cup {e} /\ UNCHANGED <<current, processed>>

(* The effect of each store call on the tables. *)
RegisterPoint(e) == known' = known \cup {PointOf(e)} /\ UNCHANGED <<current, processed>>
UpdateCurrentState(e) == current' = [current EXCEPT ![PointOf(e)] = e] /\ UNCHANGED <<known, processed>>
MarkProcessed(e) == processed' = processed \cup {e} /\ UNCHANGED <<known, current>>

(* find_point_by_source, else upsert_raw_point. *)
ResolvePoint(w) ==
  /\ At(w, "point")
  /\ RegisterPoint(Reading(w))
  /\ Goto(w, "state")
  /\ UNCHANGED <<history, observed, replaced>>

(* Slip: the time series is written along with the current state. *)
StoreStateAndHistory(w) ==
  /\ At(w, "state")
  /\ UpdateCurrentState(Reading(w))
  /\ history' = history \cup {Reading(w)}
  /\ Goto(w, "mark")
  /\ UNCHANGED <<observed, replaced>>

StoreState(w) ==
  /\ At(w, "state")
  /\ UpdateCurrentState(Reading(w))
  /\ Goto(w, "mark")
  /\ UNCHANGED <<history, observed, replaced>>

Mark(w) ==
  /\ At(w, "mark")
  /\ MarkProcessed(Reading(w))
  /\ NextReading(w, Accepted(w))
  /\ UNCHANGED <<history, observed, replaced>>

(* Slip: the exception is swallowed and the reading counted accepted. *)
StoreRaisesUnnoticed(w) ==
  /\ job[w].step \in {"point", "state", "mark"}
  /\ NextReading(w, Accepted(w))
  /\ UNCHANGED <<tables, history, observed, replaced>>

(***************************************************************************)
(* A store call raises: the reading is counted rejected and the batch goes *)
(* on.  The call may have taken effect before it raised.                   *)
(***************************************************************************)
StoreRaises(w) ==
  /\ \/ At(w, "check") /\ Reading(w) \notin Unacceptable /\ UNCHANGED tables
     \/ At(w, "point") /\ (RegisterPoint(Reading(w)) \/ UNCHANGED tables)
     \/ At(w, "state") /\ (UpdateCurrentState(Reading(w)) \/ UNCHANGED tables)
     \/ At(w, "mark") /\ (MarkProcessed(Reading(w)) \/ UNCHANGED tables)
  /\ NextReading(w, Rejected(w))
  /\ UNCHANGED <<history, observed, replaced>>

DropRow(w) == job' = [job EXCEPT ![w].rows = Tail(@)]

(* write_point: the value at the same series and timestamp is overwritten. *)
WriteHistory(w) ==
  /\ At(w, "write")
  /\ job[w].rows # <<>>
  /\ LET e == Head(job[w].rows)
         old == {h \in history : SlotOf(h) = SlotOf(e) /\ h # e}
     IN  /\ history' = (history \ old) \cup {e}
         /\ replaced' = replaced \cup old
  /\ DropRow(w)
  /\ UNCHANGED <<tables, observed>>

(* write_point returns False: logged, the response is still a success. *)
HistoryWriteFails(w) ==
  /\ At(w, "write")
  /\ job[w].rows # <<>>
  /\ DropRow(w)
  /\ UNCHANGED <<tables, history, observed, replaced>>

(* HTTP 200 with the counts. *)
Respond(w) ==
  /\ At(w, "write")
  /\ job[w].rows = <<>>
  /\ answered' = answered \cup job[w].taken
  /\ refused' = refused \cup job[w].rejected
  /\ job' = [job EXCEPT ![w] = NoJob]
  /\ UNCHANGED <<tables, history, replaced>>

(* The process dies; what the store and Influx hold survives. *)
Crash(w) ==
  /\ ~ At(w, "idle")
  /\ job' = [job EXCEPT ![w] = NoJob]
  /\ UNCHANGED <<tables, history, observed, replaced>>

(* The handler's own steps, in the order the code takes them. *)
Advance(w) ==
  \/ RejectReading(w) \/ SkipDuplicate(w) \/ PassChecks(w)
  \/ ResolvePoint(w) \/ StoreState(w) \/ Mark(w)
  \/ WriteHistory(w)

Fault(w) == StoreRaises(w) \/ HistoryWriteFails(w)

(* Batches any client may send, any number of times: readings are distinct. *)
Batches == {<<e>> : e \in Event} \cup {b \in Event \X Event : b[1] # b[2]}

Next == \E w \in Worker :
  \/ \E batch \in Batches : Begin(w, batch)
  \/ Advance(w)
  \/ Fault(w)
  \/ Respond(w)
  \/ Crash(w)

Spec == Init /\ [][Next]_vars

-----------------------------------------------------------------------------
(* Types of the handler's state and of the tables. *)
TypeOK ==
  /\ job \in [Worker -> Job]
  /\ known \subseteq Point
  /\ current \in [Point -> Event \cup {NoReading}]
  /\ processed \subseteq Event
  /\ history \subseteq Event
  /\ answered \subseteq Event
  /\ refused \subseteq Event
  /\ replaced \subseteq Event

(***************************************************************************)
(* An event_id is recorded only after its reading reached the registry and *)
(* the point's current state, whatever call fails or crashes: otherwise    *)
(* the resent reading would be skipped as a duplicate and the point would  *)
(* stay without data.                                                      *)
(***************************************************************************)
MarkedAfterApplied ==
  \A e \in processed : PointOf(e) \in known /\ current[PointOf(e)] # NoReading

(***************************************************************************)
(* A reading counted accepted or duplicate in a 200 response is durably    *)
(* recorded: a client may forget it.                                       *)
(***************************************************************************)
AnsweredIsRecorded == answered \subseteq processed

(* Only readings whose event_id is recorded are ever in the time series.   *)
HistoryIsRecorded == history \subseteq processed

(***************************************************************************)
(* A reading that a later value of the same series and instant overwrote   *)
(* never comes back, however often it is sent again: the dedupe check      *)
(* stands between a late duplicate and the time series.                    *)
(***************************************************************************)
NoResurrection == history \cap replaced = {}

(***************************************************************************)
(* A recorded reading is never applied to the current state again: a       *)
(* resent batch cannot turn a point back to a value already superseded.    *)
(***************************************************************************)
AppliedOnce ==
  [][\A p \in Point : current'[p] # current[p] => current'[p] \notin processed]_vars

-----------------------------------------------------------------------------
(* The inductive invariants.  JobOK: what a handler's place in the code says *)
(* of the tables, whatever the other handlers do.                            *)
InHand == {"check", "point", "state", "mark"}

JobOK(w) ==
  /\ job[w].step \in InHand <=> job[w].todo # <<>>
  /\ job[w].step \in {"state", "mark"} => PointOf(Reading(w)) \in known
  /\ job[w].step = "mark" => current[PointOf(Reading(w))] # NoReading
  /\ job[w].taken \subseteq processed
  /\ \A n \in 1..Len(job[w].rows) : job[w].rows[n] \in processed

IInv ==
  /\ TypeOK
  /\ \A w \in Worker : JobOK(w)
  /\ MarkedAfterApplied /\ AnsweredIsRecorded /\ HistoryIsRecorded
  /\ replaced \subseteq processed

(* Exclusive: what holds in addition of the only handler there is. *)
Exclusive(w) ==
  /\ job[w].step \in InHand \ {"check"} => Reading(w) \notin processed
  /\ \A n \in 1..Len(job[w].rows) : job[w].rows[n] \notin history \cup replaced
  /\ \A m, n \in 1..Len(job[w].rows) : job[w].rows[m] = job[w].rows[n] => m = n

IInvAlone == IInv /\ NoResurrection /\ \A w \in Worker : Exclusive(w)
=============================================================================
