------------------------- MODULE DeploymentResource -------------------------
(***************************************************************************)
(* The grid_deployment resource, resource_deployment.go and deployment.go: *)
(* one resource block, the contract on the chain that stands for it, and   *)
(* Terraform, which refreshes (Read), plans and calls one handler.         *)
(*                                                                         *)
(* A handler loads the block (newDeploymentFromSchema), which fails when   *)
(* the block is malformed, and makes its calls to the grid client, one     *)
(* action each: CancelContract, DeploymentDeployer.Deploy, .Sync and       *)
(* .Cancel. faults names the calls that may fail without a cause of their  *)
(* own ("cancel", "deploy", "sync"), a failed deployment that is not       *)
(* reverted ("revert"), Terraform being killed inside a handler ("kill"),  *)
(* contracts that the chain ends by itself ("expire"), and nodes that go   *)
(* down and come back ("down"); some nodes may be down for good.           *)
(***************************************************************************)
EXTENDS Integers, FiniteSets

CONSTANTS
  Node,         \* nodes a deployment may be placed on
  Body,         \* what a deployment holds: its vms, disks, zdbs and qsfs
  Malformed,    \* those with a vm whose mycelium seed is not hexadecimal
  Empty,        \* a deployment that holds nothing
  FaultSets,    \* the sets of failures a behaviour may meet
  MaxContract   \* bound on the contracts created

AllFaults == {"cancel", "deploy", "sync", "revert", "kill", "expire", "down"}

ASSUME NodeAssumption == Node # {}
ASSUME BodyAssumption == Empty \notin Body /\ Malformed \subseteq Body
ASSUME FaultAssumption == FaultSets \subseteq SUBSET AllFaults
ASSUME BoundAssumption == MaxContract \in Nat

\* The ids a resource may have besides those of contracts: none (""), and "0",
\* which fmt.Sprint gives for the contract id of a deployment that is gone.
NoId == -1
Zero == 0

VARIABLES
  faults,  \* the failures that may happen, chosen at the start
  chain,   \* live contracts: id -> node and body
  next,    \* id of the next contract
  up,      \* nodes that answer
  config,  \* the block in the configuration; a set of at most one node and body
  saved,   \* what Terraform saved: a set of at most one id, node and body
  pc,      \* "idle", "plan", or the call the handler is about to make
  op,      \* the handler: "read", "create", "update" or "delete"
  d,       \* its schema.ResourceData
  made,    \* dl.ContractID
  report   \* how the apply went: "none" yet, "ok", "warned" or "failed"

vars == <<faults, chain, next, up, config, saved, pc, op, d, made, report>>

Attributes == [id : {NoId} \cup Nat, node : Node, body : Body \cup {Empty}]
AtMostOne(S) == {{}} \cup {{x} : x \in S}

Blank == [id |-> NoId, node |-> CHOOSE n \in Node : TRUE, body |-> Empty]

----------------------------------------------------------------------------
(* The chain and the nodes, as the handlers use them. *)

With(id, n, b) == [c \in DOMAIN chain \cup {id} |->
                     IF c = id THEN [node |-> n, body |-> b] ELSE chain[c]]
Without(id) == [c \in DOMAIN chain \ {id} |-> chain[c]]

\* The node answers for the contract of the deployment.
Reachable(id, n) == id \in DOMAIN chain /\ chain[id].node = n /\ n \in up

----------------------------------------------------------------------------
(* A handler returns to Terraform. *)

Return(kept, how) ==
  /\ saved' = kept /\ report' = how
  /\ pc' = "idle" /\ op' = "none" /\ d' = Blank /\ made' = NoId

\* What Terraform keeps of the ResourceData: nothing when it has no id.
Keep(data) == IF data.id = NoId THEN {} ELSE {data}

\* An error.  A create or an update keeps the ResourceData as it stands, with
\* its planned attributes; a read and a delete keep what was saved.
Fail == Return(IF op \in {"read", "delete"} THEN saved ELSE Keep(d), "failed")

(* syncContractsDeployments: the ResourceData takes the attributes of the    *)
(* deployment and its contract id for an id, "0" included.                   *)
StoredWithoutId(id) ==
  [d EXCEPT !.body = IF id \in DOMAIN chain THEN chain[id].body ELSE Empty]
Stored(id) ==
  IF id \in DOMAIN chain
  THEN [d EXCEPT !.id = id, !.body = chain[id].body]
  ELSE [d EXCEPT !.id = Zero, !.body = Empty]

----------------------------------------------------------------------------
(* Terraform *)

Edit ==
  /\ pc = "idle"
  /\ config' \in AtMostOne([node : Node, body : Body]) \ {config}
  /\ report' = "none"
  /\ UNCHANGED <<chain, next, up, saved, pc, op, d, made>>

\* apply begins with a refresh of what is saved: resourceDeploymentRead.
Refresh ==
  /\ pc = "idle"
  /\ \E s \in saved : d' = s
  /\ made' = NoId /\ pc' = "load" /\ op' = "read"
  /\ report' = "none"
  /\ UNCHANGED <<chain, next, up, config, saved>>

\* With nothing saved there is nothing to read.
PlanCreate ==
  /\ pc = "idle" /\ saved = {}
  /\ \E c \in config : d' = [id |-> NoId, node |-> c.node, body |-> c.body]
  /\ made' = NoId /\ pc' = "load" /\ op' = "create" /\ report' = "none"
  /\ UNCHANGED <<chain, next, up, config, saved>>

PlanUpdateAlwaysCancelling ==
  /\ pc = "plan"
  /\ \E s \in saved, c \in config :
       /\ c.node # s.node \/ c.body # s.body
       /\ d' = [id |-> s.id, node |-> c.node, body |-> c.body]
  /\ made' = NoId /\ pc' = "cancelOld" /\ op' = "update"
  /\ UNCHANGED <<chain, next, up, config, saved, report>>

\* resourceDeploymentUpdate sees the planned attributes and the saved id.
PlanUpdate ==
  /\ pc = "plan"
  /\ \E s \in saved, c \in config :
       /\ c.node # s.node \/ c.body # s.body
       /\ d' = [id |-> s.id, node |-> c.node, body |-> c.body]
       /\ pc' = IF c.node # s.node THEN "cancelOld" ELSE "load"
  /\ made' = NoId /\ op' = "update"
  /\ UNCHANGED <<chain, next, up, config, saved, report>>

PlanDelete ==
  /\ pc = "plan" /\ config = {}
  /\ \E s \in saved : d' = s
  /\ made' = NoId /\ pc' = "load" /\ op' = "delete"
  /\ UNCHANGED <<chain, next, up, config, saved, report>>

PlanNothing ==
  /\ pc = "plan"
  /\ \E s \in saved, c \in config : c.node = s.node /\ c.body = s.body
  /\ Return(saved, IF report = "none" THEN "ok" ELSE report)
  /\ UNCHANGED <<chain, next, up, config>>

----------------------------------------------------------------------------
(* The calls *)

\* HasChange("node"): the contract on the old node is cancelled by its id, and
\* the resource is to be created again.  (No contract has the id 0.)
CancelOldAfterLoading ==
  /\ pc = "cancelOld"
  /\ chain' = Without(d.id)
  /\ d' = [d EXCEPT !.id = NoId] /\ made' = d.id
  /\ pc' = "deploy"
  /\ UNCHANGED <<next, up, config, saved, op, report>>

CancelOld ==
  /\ pc = "cancelOld"
  /\ chain' = Without(d.id)
  /\ d' = [d EXCEPT !.id = NoId]
  /\ pc' = "load"
  /\ UNCHANGED <<next, up, config, saved, op, made, report>>

CancelOldFails ==
  /\ pc = "cancelOld" /\ "cancel" \in faults
  /\ Fail
  /\ UNCHANGED <<chain, next, up, config>>

\* newDeploymentFromSchema takes the id for the contract on the node of the block.
Load ==
  /\ pc = "load" /\ d.body \notin Malformed
  /\ made' = d.id
  /\ pc' = CASE op = "read" -> "sync" [] op = "delete" -> "cancel" [] OTHER -> "deploy"
  /\ UNCHANGED <<chain, next, up, config, saved, op, d, report>>

\* It fails on a malformed block, and so does the handler, a read or a delete too.
LoadFails ==
  /\ pc = "load" /\ d.body \in Malformed
  /\ Fail
  /\ UNCHANGED <<chain, next, up, config>>

\* Deploy without a contract: one is created on the node.
DeployNew ==
  /\ pc = "deploy" /\ made = NoId
  /\ d.node \in up /\ next <= MaxContract
  /\ chain' = With(next, d.node, d.body)
  /\ made' = next /\ next' = next + 1
  /\ pc' = "sync"
  /\ UNCHANGED <<up, config, saved, op, d, report>>

\* Deploy with a contract: the node updates its deployment.
DeployChange ==
  /\ pc = "deploy" /\ Reachable(made, d.node)
  /\ chain' = With(made, d.node, d.body)
  /\ pc' = "sync"
  /\ UNCHANGED <<next, up, config, saved, op, d, made, report>>

\* Deploy fails and leaves the chain as it was: the node is down or does not
\* know the contract, or the deployment failed and was reverted.
DeployFails ==
  /\ pc = "deploy"
  /\ \/ "deploy" \in faults
     \/ made = NoId /\ (d.node \notin up \/ next > MaxContract)
     \/ made # NoId /\ ~Reachable(made, d.node)
  /\ Fail
  /\ UNCHANGED <<chain, next, up, config>>

\* Deploy fails, and so does its revert: the contract stays.
DeployFailsUnreverted ==
  /\ pc = "deploy" /\ "revert" \in faults
  /\ IF made = NoId
     THEN /\ next <= MaxContract
          /\ chain' = With(next, d.node, d.body) /\ next' = next + 1
     ELSE /\ Reachable(made, d.node)
          /\ chain' = With(made, d.node, d.body) /\ UNCHANGED next
  /\ Fail
  /\ UNCHANGED <<up, config>>

\* Sync asks the chain for the contract, and its node when it is live.
CanSync == made \notin DOMAIN chain \/ Reachable(made, d.node)

SyncRead ==
  /\ pc = "sync" /\ op = "read" /\ CanSync
  /\ saved' = {Stored(made)}
  /\ pc' = "plan"
  /\ UNCHANGED <<chain, next, up, config, op, d, made, report>>

SyncReadFailsSilently ==
  /\ pc = "sync" /\ op = "read"
  /\ ~CanSync \/ "sync" \in faults
  /\ pc' = "plan"
  /\ UNCHANGED <<chain, next, up, config, saved, op, d, made, report>>

\* A failing read is a warning: Terraform goes on with what it had.
SyncReadFails ==
  /\ pc = "sync" /\ op = "read"
  /\ ~CanSync \/ "sync" \in faults
  /\ pc' = "plan" /\ report' = "warned"
  /\ UNCHANGED <<chain, next, up, config, saved, op, d, made>>

SyncApplied ==
  /\ pc = "sync" /\ op \in {"create", "update"} /\ CanSync
  /\ Return(Keep(Stored(made)), IF report = "none" THEN "ok" ELSE report)
  /\ UNCHANGED <<chain, next, up, config>>

SyncAppliedFails ==
  /\ pc = "sync" /\ op \in {"create", "update"}
  /\ ~CanSync \/ "sync" \in faults
  /\ Fail
  /\ UNCHANGED <<chain, next, up, config>>

\* resourceDeploymentDelete: the contract is cancelled on the chain alone.
CancelOnlyIfUp ==
  /\ pc = "cancel"
  /\ d.node \in up
  /\ chain' = Without(made)
  /\ pc' = "sync"
  /\ UNCHANGED <<next, up, config, saved, op, d, made, report>>

Cancel ==
  /\ pc = "cancel"
  /\ chain' = Without(made)
  /\ pc' = "sync"
  /\ UNCHANGED <<next, up, config, saved, op, d, made, report>>

CancelFails ==
  /\ pc = "cancel" /\ "cancel" \in faults
  /\ Fail
  /\ UNCHANGED <<chain, next, up, config>>

\* A delete that returns without an error ends the resource.
SyncDeleted ==
  /\ pc = "sync" /\ op = "delete" /\ CanSync
  /\ Return({}, IF report = "none" THEN "ok" ELSE report)
  /\ UNCHANGED <<chain, next, up, config>>

SyncDeletedFails ==
  /\ pc = "sync" /\ op = "delete"
  /\ ~CanSync \/ "sync" \in faults
  /\ Fail
  /\ UNCHANGED <<chain, next, up, config>>

----------------------------------------------------------------------------
(* The rest of the world *)

NodeFlips ==
  /\ "down" \in faults
  /\ \E n \in Node : up' = IF n \in up THEN up \ {n} ELSE up \cup {n}
  /\ UNCHANGED <<chain, next, config, saved, pc, op, d, made, report>>

\* The chain ends a contract, for lack of funds or by hand.
Expire ==
  /\ "expire" \in faults
  /\ \E c \in DOMAIN chain : chain' = Without(c)
  /\ report' = IF pc = "idle" THEN "none" ELSE "warned"
  /\ UNCHANGED <<next, up, config, saved, pc, op, d, made>>

\* Terraform dies inside a handler; what it had saved stays.
Killed ==
  /\ pc # "idle" /\ "kill" \in faults
  /\ Return(saved, "failed")
  /\ UNCHANGED <<chain, next, up, config>>

Plan == PlanCreate \/ PlanUpdate \/ PlanDelete \/ PlanNothing

Call ==
  \/ CancelOld \/ CancelOldFails \/ Load \/ LoadFails
  \/ DeployNew \/ DeployChange \/ DeployFails \/ DeployFailsUnreverted
  \/ SyncRead \/ SyncReadFails \/ SyncApplied \/ SyncAppliedFails
  \/ Cancel \/ CancelFails \/ SyncDeleted \/ SyncDeletedFails

Next ==
  /\ Edit \/ Refresh \/ Plan \/ Call \/ NodeFlips \/ Expire \/ Killed
  /\ UNCHANGED faults

Init ==
  /\ faults \in FaultSets
  /\ chain = [c \in {} |-> 0] /\ next = 1
  /\ up \in SUBSET Node
  /\ config \in AtMostOne([node : Node, body : Body])
  /\ saved = {}
  /\ pc = "idle" /\ op = "none" /\ d = Blank /\ made = NoId /\ report = "none"

Spec == Init /\ [][Next]_vars

\* The user applies again and again, not every apply is killed, Terraform and
\* the provider run to the end of the others, and no call to the chain fails for
\* ever.
Answered == SyncRead \/ SyncReadFails
FairSpec ==
  /\ Spec
  /\ WF_vars(Refresh /\ UNCHANGED faults)
  /\ SF_vars(Plan /\ UNCHANGED faults) /\ SF_vars(Answered /\ UNCHANGED faults)
  /\ \A handler \in {"read", "delete"} : SF_vars(Load /\ op = handler /\ UNCHANGED faults)
  /\ SF_vars(Cancel /\ UNCHANGED faults) /\ SF_vars(SyncDeleted /\ UNCHANGED faults)

----------------------------------------------------------------------------
(* Properties *)

\* Types of every variable; ids in use are those the chain has given out, and a
\* handler deploys under the id its ResourceData has at that moment.
TypeOK ==
  /\ faults \in FaultSets
  /\ DOMAIN chain \subseteq 1..(next - 1)
  /\ \A c \in DOMAIN chain : chain[c] \in [node : Node, body : Body \cup {Empty}]
  /\ next \in 1..(MaxContract + 1)
  /\ up \subseteq Node
  /\ config \in AtMostOne([node : Node, body : Body])
  /\ saved \subseteq Attributes /\ \A s, t \in saved : s = t
  /\ pc \in {"idle", "plan", "cancelOld", "load", "deploy", "sync", "cancel"}
  /\ op \in {"none", "read", "create", "update", "delete"}
  /\ d \in Attributes
  /\ made \in {NoId} \cup Nat
  /\ pc = "deploy" => made = d.id
  /\ report \in {"none", "ok", "warned", "failed"}

\* Between applies, every live contract is the one Terraform has saved: none
\* runs, and costs, without the resource it was made for.
NoOrphans ==
  pc = "idle" => \A c \in DOMAIN chain : \E s \in saved : s.id = c

\* The faults after which the code does lose a contract are left out: a create
\* whose Deploy fails and is not reverted sets no id (resource_deployment.go:487-489,
\* where internals.md:63 wants it set), nor does one whose Sync fails (490-492), and
\* a killed Terraform stores nothing.
TidyFaults == faults \cap {"revert", "sync", "kill", "down"} = {}

\* Cancellations and deployments that fail, nodes that are down and contracts
\* that expire leave no contract behind.
ContractsTracked == TidyFaults => NoOrphans

\* After an apply that reported neither an error nor a warning, what the block
\* asks for runs where it asks for it, under the saved id; and a block that is
\* gone has no resource left.
AppliedIsDeployed ==
  pc = "idle" /\ report = "ok" =>
    /\ \A c \in config : \E s \in saved :
         s.id \in DOMAIN chain /\ chain[s.id] = [node |-> c.node, body |-> c.body]
    /\ config = {} => saved = {}

\* As long as no cancellation fails, an apply never cancels a contract on the
\* node where the block wants it.
Unwanted(c) == \A k \in config : k.node # chain[c].node

CancelsOnlyUnwanted ==
  [][("cancel" \notin faults /\ pc' # pc) =>
       \A c \in DOMAIN chain \ DOMAIN chain' : Unwanted(c)]_vars

\* No vm that is saved has a malformed seed.  A failed update saves one
\* (internals.md:26), and then every handler fails to load the block.
WellFormed == \A s \in saved : s.body \notin Malformed

\* A block that is removed for good ends up without a resource, even when the
\* node it was deployed on never answers again (internals.md:46), if what is saved
\* is well-formed: else no read and no delete gets past newDeploymentFromSchema.
RemovalCompletes == <>[](config = {} /\ WellFormed) => []<>(saved = {})
=============================================================================
