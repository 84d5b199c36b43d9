------------------------- MODULE MCPlacedDeployment -------------------------
(***************************************************************************)
(* The resource block of MCSchedulerResource and a deployment placed by    *)
(* its request "a", on a grid that moves or one that is quiet.             *)
(***************************************************************************)
EXTENDS PlacedDeployment, MCSchedulerResource

MCFaultSets == {{"cancel", "deploy", "sync", "revert", "kill", "expire"}}
=============================================================================
