--------------------------- MODULE MCStoreForward ---------------------------
(***************************************************************************)
(* StoreForward for TLC.  EdgeStamps: the gateway stamps a reading with    *)
(* its own clock, so every cycle makes new readings.  SourceStamps: the    *)
(* source supplies the timestamp and may report an old one again, perhaps  *)
(* with another value.                                                     *)
(***************************************************************************)
EXTENDS StoreForward

CONSTANTS p, q, v, x, w1

EdgeStamps(c) == {c}
SourceStamps(c) == 1..c

None == {}
All == Event
FirstReadings == {e \in Event : e.ts = 1}
=============================================================================
