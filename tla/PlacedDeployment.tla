-------------------------- MODULE PlacedDeployment --------------------------
(***************************************************************************)
(* A scheduler block and a deployment block that refers to it, as in the   *)
(* examples: node = grid_scheduler.sched.nodes["<name>"].                  *)
(*                                                                         *)
(* The deployment is an instance of DeploymentResource whose configuration *)
(* is what the scheduler resource has saved.  Terraform orders the two by  *)
(* that reference: in an apply the handler of the scheduler ends before    *)
(* that of the deployment begins, and a destroy ends the deployment first. *)
(* The grid under both is one: a node that is down neither is listed nor   *)
(* deploys.                                                                *)
(***************************************************************************)
EXTENDS SchedulerResource

CONSTANTS
  Placed,       \* the request whose node the deployment block refers to
  Body, Malformed, Empty, FaultSets, MaxContract  \* as in DeploymentResource

VARIABLES
  wanted,   \* the two blocks are in the configuration
  content,  \* the body of the deployment block
  faults, chain, next, held, step, doing, data, made, report
            \* of DeploymentResource: held is its saved, step its pc, doing its
            \* op and data its d

deploymentVars == <<faults, chain, next, held, step, doing, data, made, report>>
blockVars == <<wanted, content>>
placedVars == <<allVars, blockVars, deploymentVars>>

\* The deployment block with its reference replaced by the node it names.  Without
\* that node the reference is an error and nothing is planned for the block.
Block ==
  {b \in [node : Node, body : {content}] :
     wanted /\ Placed \in DOMAIN saved.nodes /\ b.node = saved.nodes[Placed]}

D == INSTANCE DeploymentResource WITH
  config <- Block, saved <- held, up <- grid.up, pc <- step, op <- doing, d <- data

ASSUME DeploymentAssumption ==
  /\ Node # {} /\ Empty \notin Body /\ Malformed \subseteq Body /\ MaxContract \in Nat
  /\ FaultSets \subseteq (SUBSET D!AllFaults)

----------------------------------------------------------------------------
(* The user *)

EditRequests == step = "idle" /\ wanted /\ Edit /\ UNCHANGED <<blockVars, deploymentVars>>

EditBlocks ==
  /\ op = "idle" /\ step = "idle"
  /\ \/ content' \in Body \ {content} /\ UNCHANGED wanted
     \/ wanted' = ~wanted /\ UNCHANGED content
  /\ report' = "none"
  /\ UNCHANGED <<allVars, faults, chain, next, held, step, doing, data, made>>

----------------------------------------------------------------------------
(* Terraform applies the two resources *)

Schedule ==
  /\ step = "idle"
  /\ \/ wanted /\ (Create \/ Update)
     \/ ~wanted /\ held = {} /\ Delete
  /\ report' = "none"
  /\ UNCHANGED <<blockVars, faults, chain, next, held, step, doing, data, made>>

Scheduling ==
  /\ Process \/ CreateEnds \/ UpdateEnds \/ Killed
  /\ UNCHANGED <<blockVars, deploymentVars>>

Deploying ==
  /\ op = "idle"
  /\ UNCHANGED <<allVars, blockVars, faults>>
  /\ \/ D!Refresh \/ D!PlanCreate \/ D!PlanUpdate \/ D!PlanNothing
     \/ ~wanted /\ D!PlanDelete
     \/ D!Call \/ D!Killed

----------------------------------------------------------------------------
(* The rest of the world *)

Expire == UNCHANGED <<allVars, blockVars, faults>> /\ D!Expire

AnyGridChange == GridMoves /\ UNCHANGED <<resourceVars, blockVars, deploymentVars>>

PlacedNext ==
  EditRequests \/ EditBlocks \/ Schedule \/ Scheduling \/ Deploying \/ Expire \/ AnyGridChange

PlacedInit ==
  /\ ResourceInit
  /\ wanted = TRUE /\ content \in Body
  /\ faults \in FaultSets
  /\ chain = [c \in {} |-> 0] /\ next = 1
  /\ held = {} /\ step = "idle" /\ doing = "none" /\ data = D!Blank /\ made = D!NoId
  /\ report = "none"

PlacedSpec == PlacedInit /\ [][PlacedNext]_placedVars

----------------------------------------------------------------------------
(* Properties *)

\* As long as the blocks are there, no handler cancels a deployment or moves it:
\* neither edits to the requests, the one it was placed by included, nor failed or
\* killed applies of either resource, nor a grid that changes, make Terraform
\* plan another node for it.
StaysDeployed ==
  [][wanted /\ step' # step =>
       \A c \in DOMAIN chain : c \in DOMAIN chain' /\ chain'[c].node = chain[c].node]_placedVars

\* The contract a deployment holds is on the node its request has, whatever
\* failed: the stale identifiers that a failed move leaves in the state of a
\* deployment block cannot come from a scheduler.
HeldOnItsNode ==
  step = "idle" =>
    \A s \in held : s.id \in DOMAIN chain =>
      Placed \in DOMAIN saved.nodes /\ chain[s.id].node = saved.nodes[Placed]
=============================================================================
