----------------------------- MODULE MCGateway -----------------------------
(***************************************************************************)
(* A gateway of each kind that moves between two nodes, with well-formed   *)
(* and malformed backends.                                                 *)
(***************************************************************************)
EXTENDS GatewayResource

MCFaultSets ==
  {{"deploy", "cancel"}, {"deploy", "sync", "expire"}, {"down"}, {"revert", "kill", "cancel"}}
NoFaults == {{}}
=============================================================================
