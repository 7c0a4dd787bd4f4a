------------------------------ MODULE LocalQueue -----------------------------
(***************************************************************************)
(* The gateway's store-and-forward queue: class LocalQueue of              *)
(* buildopt-edge/app/storage/local_queue.py, one SQLite table that keeps   *)
(* the readings the cloud has not taken yet.                               *)
(*                                                                         *)
(* A row keeps the event_id column and the dedupe_key column it was        *)
(* inserted with, and the payload, which a later enqueue under the same    *)
(* key overwrites.  event_id is a hash of everything the reading is made   *)
(* of, so a reading stands for its own event_id; KeyOf gives its           *)
(* dedupe_key (building, source point, source timestamp).                  *)
(*                                                                         *)
(* Time is relative: wait is the number of clock ticks until               *)
(* next_retry_at, 0 when the row is due.                                   *)
(***************************************************************************)
EXTENDS Integers, FiniteSets, Readings

CONSTANTS
  KeyOf(_),       \* the dedupe key of a reading
  MaxRows,        \* max_rows
  MaxAttempts,    \* max_attempts, the limit past which the gateway logs CRITICAL
  BackoffBase,    \* base_backoff_seconds, in ticks
  BackoffSteps,   \* the exponent's cap (10 in the code)
  MaxBackoff,     \* max_backoff_seconds, in ticks
  MaxId           \* model bound: number of rows ever inserted

ASSUME QueueAssumption ==
  /\ MaxRows \in Nat
  /\ MaxAttempts \in Nat
  /\ BackoffBase \in Nat
  /\ BackoffSteps \in Nat
  /\ MaxBackoff \in Nat
  /\ MaxId \in Nat

VARIABLES
  rows,      \* the table: a function from the ids present to rows
  lastId,    \* AUTOINCREMENT counter: the last id handed out
  overflow,  \* critical_overflow, a field of the process, not of the table
  trimmed,   \* history: ids deleted by _trim, each with a CRITICAL log line
  acked,     \* history: ids deleted by ack
  untrimmed  \* history: rows committed since the last _trim that ran

queue == <<rows, lastId, overflow, trimmed, acked, untrimmed>>

Key == {KeyOf(e) : e \in Event}

Lesser(a, b) == IF a <= b THEN a ELSE b

(***************************************************************************)
(* attempts is only ever compared with MaxAttempts and capped at           *)
(* BackoffSteps, so counting stops at the larger of the two.               *)
(***************************************************************************)
AttemptCap == IF MaxAttempts <= BackoffSteps THEN BackoffSteps ELSE MaxAttempts

(* Slip: no delay at all. *)
BackoffZero(attempts) == 0

Backoff(attempts) == Lesser(MaxBackoff, BackoffBase * 2^Lesser(attempts, BackoffSteps))

Row == [event    : Event,
        key      : Key,
        payload  : Event,
        attempts : 0..AttemptCap,
        wait     : 0..MaxBackoff]

Ids == DOMAIN rows

Fresh(e) == [event |-> e, key |-> KeyOf(e), payload |-> e, attempts |-> 0, wait |-> 0]

(* Slip: the unique index on dedupe_key is missing. *)
ConflictsByEvent(e) == {i \in Ids : rows[i].event = e}

(* Rows whose unique event_id or dedupe_key an insert of e would violate. *)
Conflicts(e) == {i \in Ids : rows[i].event = e \/ rows[i].key = KeyOf(e)}

(* Slips: one row too many, newest dropped first, one row too few. *)
KeptOneMore(ids) == {i \in ids : Cardinality({j \in ids : j > i}) <= MaxRows}
KeptOldest(ids) == {i \in ids : Cardinality({j \in ids : j < i}) < MaxRows}
KeptOneLess(ids) == {i \in ids : Cardinality({j \in ids : j > i}) < MaxRows - 1}

(* What _trim leaves of a set of ids: the MaxRows youngest ones. *)
Kept(ids) == {i \in ids : Cardinality({j \in ids : j > i}) < MaxRows}

Only(table, ids) == [i \in ids |-> table[i]]

(* No row is in the way: the reading becomes the newest row. *)
Inserted(e) == [i \in Ids \cup {lastId + 1} |-> IF i \in Ids THEN rows[i] ELSE Fresh(e)]

(* IntegrityError: the payload of every row in the way is replaced and the   *)
(* row is due at once; event_id, dedupe_key and attempts stay.               *)
Refreshed(e) == [i \in Ids |-> IF i \in Conflicts(e)
                               THEN [rows[i] EXCEPT !.payload = e, !.wait = 0]
                               ELSE rows[i]]

(* The commit and the trailing _trim of every enqueue. *)
CommitAndTrim(table) ==
  LET ids == DOMAIN table IN
  /\ rows' = Only(table, Kept(ids))
  /\ trimmed' = trimmed \cup (ids \ Kept(ids))
  /\ overflow' = (overflow \/ Cardinality(ids) > MaxRows)
  /\ untrimmed' = 0

Insert(e) ==
  /\ Conflicts(e) = {}
  /\ lastId' = lastId + 1
  /\ CommitAndTrim(Inserted(e))
  /\ UNCHANGED acked

Refresh(e) ==
  /\ Conflicts(e) # {}
  /\ CommitAndTrim(Refreshed(e))
  /\ UNCHANGED <<lastId, acked>>

Enqueue(e) == Insert(e) \/ Refresh(e)

(* The enqueue commits and is cut short before its _trim, which commits on    *)
(* its own: by an exception (flag is what overflow was) or by a crash (FALSE). *)
EnqueueUntrimmed(e, flag) ==
  /\ IF Conflicts(e) = {}
     THEN rows' = Inserted(e) /\ lastId' = lastId + 1 /\ untrimmed' = untrimmed + 1
     ELSE rows' = Refreshed(e) /\ UNCHANGED <<lastId, untrimmed>>
  /\ overflow' = flag
  /\ UNCHANGED <<trimmed, acked>>

Ack(id) ==
  /\ id \in Ids
  /\ rows' = Only(rows, Ids \ {id})
  /\ acked' = acked \cup {id}
  /\ UNCHANGED <<lastId, overflow, trimmed, untrimmed>>

(* Slip: the row is deleted when its attempts are used up. *)
BumpOrDelete(id) ==
  /\ id \in Ids
  /\ rows' = IF rows[id].attempts + 1 >= MaxAttempts
             THEN Only(rows, Ids \ {id})
             ELSE [rows EXCEPT ![id].attempts = @ + 1, ![id].wait = Backoff(rows[id].attempts)]
  /\ UNCHANGED <<lastId, overflow, trimmed, acked, untrimmed>>

(* schedule_retry: the delay follows from the attempts before this one. *)
BumpAttempts(id) ==
  /\ id \in Ids
  /\ rows' = [rows EXCEPT ![id].attempts = Lesser(@ + 1, AttemptCap),
                          ![id].wait = Backoff(rows[id].attempts)]
  /\ UNCHANGED <<lastId, overflow, trimmed, acked, untrimmed>>

(* Time passes: every next_retry_at comes one tick closer. *)
Aged(table) == [i \in DOMAIN table |->
                  [table[i] EXCEPT !.wait = IF @ = 0 THEN 0 ELSE @ - 1]]

Tick ==
  /\ rows' = Aged(rows)
  /\ UNCHANGED <<lastId, overflow, trimmed, acked, untrimmed>>

(* The process stops and a new LocalQueue opens the same file. *)
Reopen ==
  /\ overflow' = FALSE
  /\ UNCHANGED <<rows, lastId, trimmed, acked, untrimmed>>

(* dequeue_batch: the due rows, at most limit of them, smallest ids first. *)
Due == {i \in Ids : rows[i].wait = 0}
DequeueIds(limit) == {i \in Due : Cardinality({j \in Due : j < i}) < limit}

-----------------------------------------------------------------------------
(***************************************************************************)
(* After any sequence of enqueues, refreshes, acks and restarts the table  *)
(* holds at most max_rows rows, and one more for each insertion since the  *)
(* last _trim that a crash or an exception cut short: the next enqueue     *)
(* that completes repairs the bound, however far it was exceeded.          *)
(***************************************************************************)
DepthBounded == Cardinality(Ids) <= MaxRows + untrimmed

(***************************************************************************)
(* No reading is queued twice: two rows never share a dedupe key or an     *)
(* event_id, and a row's payload is always a reading of the row's own key, *)
(* so a replay can never send a reading of another point or instant.       *)
(***************************************************************************)
OneRowPerReading ==
  /\ \A i, j \in Ids : i # j => /\ rows[i].key # rows[j].key
                                /\ rows[i].event # rows[j].event
  /\ \A i \in Ids : rows[i].key = KeyOf(rows[i].payload)

(***************************************************************************)
(* Drop-oldest policy: a row dropped by an overflow is older than every    *)
(* row still queued, whatever was acknowledged or retried in between.      *)
(***************************************************************************)
OldestDroppedFirst == \A t \in trimmed, i \in Ids : t < i

(***************************************************************************)
(* No silent deletion: every row ever inserted is still queued, or was     *)
(* acknowledged, or was dropped by an overflow that raised                 *)
(* critical_overflow; exhausting max_attempts removes nothing.             *)
(***************************************************************************)
NoSilentDeletion ==
  /\ 1..lastId = Ids \cup trimmed \cup acked
  /\ Ids \cap (trimmed \cup acked) = {}
  /\ trimmed \cap acked = {}

(***************************************************************************)
(* A step drops rows only when the table is over its limit, drops no more  *)
(* than the excess, and leaves critical_overflow raised: an enqueue that   *)
(* refreshes a row, an ack or a retry never costs another row its place.   *)
(***************************************************************************)
DropsOnlyTheExcess ==
  [][trimmed' # trimmed => overflow' /\ Cardinality(DOMAIN rows') = MaxRows]_queue
=============================================================================
