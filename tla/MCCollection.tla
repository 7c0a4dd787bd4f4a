---------------------------- MODULE MCCollection ----------------------------
(***************************************************************************)
(* Collection for TLC: one gateway, one server process (the Dockerfile's), *)
(* both stores.                                                            *)
(***************************************************************************)
EXTENDS Collection

CONSTANTS g1, p, k, l

MCGatewayOf(point) == g1
=============================================================================
