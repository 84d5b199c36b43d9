---------------------------- MODULE MCLocalState ----------------------------
(***************************************************************************)
(* Two processes and two networks; each fault alone, and none.             *)
(***************************************************************************)
EXTENDS LocalState

MCFaultSets == {{}, {"parallel"}, {"debug"}, {"kill"}}
=============================================================================
