-------------------------- MODULE TelemetryDelivery --------------------------
(***************************************************************************)
(* What the store-and-forward path promises of every reading, seen from    *)
(* outside: it is collected, is in motion, may rest in the gateway's       *)
(* durable queue, and is recorded by the cloud once and for all.  In       *)
(* motion it may vanish; once stored it is let go only with an excuse: the *)
(* queue overflowed, a newer value of the same instant replaced it, or the *)
(* cloud rejected it.  What has vanished is never recorded.                *)
(***************************************************************************)
CONSTANT Event

VARIABLES
  place,    \* where each reading is
  excused   \* readings the gateway may let go of

vars == <<place, excused>>

Places == {"unread", "moving", "queued", "recorded", "gone"}

Init ==
  /\ place = [e \in Event |-> "unread"]
  /\ excused = {}

Moves(e, from, to) == place[e] \in from /\ place'[e] \in to

(* A poll reads the point; a source may report the same reading again. *)
Collected(e) == Moves(e, {"unread", "gone"}, {"moving"})

(* The gateway commits it to its queue. *)
Stored(e) == Moves(e, {"moving"}, {"queued"})

(* The cloud records its event_id. *)
Recorded(e) == Moves(e, {"moving", "queued"}, {"recorded"})

(* A crash, a POST that raised, a rejection: no copy is left anywhere. *)
Vanished(e) == Moves(e, {"moving"}, {"gone"})

(* It leaves the queue; a late copy of a request may still be under way. *)
Released(e) == Moves(e, {"queued"}, {"gone", "moving"}) /\ e \in excused'

Next ==
  /\ place' \in [Event -> Places]
  /\ excused \subseteq excused' /\ excused' \subseteq Event
  /\ \A e \in Event :
       \/ Collected(e) \/ Stored(e) \/ Recorded(e) \/ Vanished(e) \/ Released(e)
       \/ place'[e] = place[e]

Spec == Init /\ [][Next]_vars
=============================================================================
