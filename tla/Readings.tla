------------------------------ MODULE Readings ------------------------------
(* What the gateway queues and sends and the cloud takes. *)

CONSTANTS
  Event           \* readings, each standing for its event_id
=============================================================================
