---------------------------- MODULE MCDeployment ----------------------------
(***************************************************************************)
(* One block that moves between two nodes and two contents.  All faults at *)
(* once; all but the failing cancellations; and the faults after which no  *)
(* contract may be lost.                                                   *)
(***************************************************************************)
EXTENDS DeploymentResource

MCFaultSets == {AllFaults, AllFaults \ {"cancel"}, {"cancel", "deploy", "expire"}}
=============================================================================
