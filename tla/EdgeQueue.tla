------------------------------ MODULE EdgeQueue ------------------------------
(***************************************************************************)
(* The gateway's queue under every order of calls of its methods, at any   *)
(* time, with commits that are cut short and restarts.                     *)
(***************************************************************************)
EXTENDS LocalQueue

Init ==
  /\ rows = [i \in {} |-> i]
  /\ lastId = 0
  /\ overflow = FALSE
  /\ trimmed = {}
  /\ acked = {}
  /\ untrimmed = 0

Next ==
  \/ \E e \in Event : lastId < MaxId /\ Enqueue(e)
  \/ \E e \in Event, flag \in {overflow, FALSE} : lastId < MaxId /\ EnqueueUntrimmed(e, flag)
  \/ \E id \in Due : Ack(id) \/ BumpAttempts(id)
  \/ Tick
  \/ Reopen

Spec == Init /\ [][Next]_queue

-----------------------------------------------------------------------------
(* Types of the table and of the counters. *)
TypeOK ==
  /\ lastId \in Nat
  /\ Ids \subseteq 1..lastId
  /\ rows \in [Ids -> Row]
  /\ overflow \in BOOLEAN
  /\ trimmed \subseteq 1..lastId
  /\ acked \subseteq 1..lastId
  /\ untrimmed \in 0..lastId

-----------------------------------------------------------------------------
(* The inductive invariant: the type, the properties of LocalQueue, and     *)
(* OneRowPerReading strengthened to tie the event_id and dedupe_key columns *)
(* to each other.                                                           *)
WellKeyed(table) ==
  /\ \A i \in DOMAIN table : /\ table[i].key = KeyOf(table[i].event)
                             /\ table[i].key = KeyOf(table[i].payload)
  /\ \A i, j \in DOMAIN table : i # j => table[i].key # table[j].key

IInv == TypeOK /\ DepthBounded /\ WellKeyed(rows) /\ OldestDroppedFirst /\ NoSilentDeletion
=============================================================================
