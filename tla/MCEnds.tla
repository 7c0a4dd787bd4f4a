------------------------------- MODULE MCEnds -------------------------------
(***************************************************************************)
(* The two ends of the delivery for TLC, each on its own and with every    *)
(* call its callers may make: the gateway's queue, and the ingest handler. *)
(* They share nothing but the readings, so one moves only while the other  *)
(* is as it began.                                                         *)
(*                                                                         *)
(* Readings are (point, time, value) triples.  Two values of one point at  *)
(* one instant and readings of a second point are enough for an enqueue to *)
(* meet a free key, the same reading and another reading of the same key,  *)
(* and for batches with duplicates, corrections and several points.        *)
(***************************************************************************)
EXTENDS CloudIngest, LocalQueue

CONSTANTS p, q, v, x

Queue == INSTANCE EdgeQueue

MCPoint == {p, q}
MCEvent == {<<p, 1, v>>, <<p, 1, x>>, <<q, 1, x>>, <<q, 2, x>>, <<q, 2, v>>}
MCPointOf(e) == e[1]
MCSlotOf(e) == <<e[1], e[2]>>

(* A text value, and a reading of quality INVALID. *)
MCNonNumeric == {<<q, 1, x>>}
MCUnacceptable == {<<q, 2, x>>, <<q, 2, v>>}

EndsInit == Init /\ Queue!Init

EndsNext ==
  \/ Init /\ Queue!Next /\ UNCHANGED vars
  \/ Queue!Init /\ Next /\ UNCHANGED queue

EndsSpec == EndsInit /\ [][EndsNext]_<<vars, queue>>
=============================================================================
