-------------------------- MODULE NetworkResource --------------------------
(***************************************************************************)
(* The grid_network resource, resource_network.go: one block that stands   *)
(* for a contract on every node of the network, and on one node more when  *)
(* it needs an access node that is none of them; Terraform around it, and  *)
(* the record of the network's subnets that the deployments read           *)
(* (TFPluginClient.State.Networks).                                        *)
(*                                                                         *)
(* A handler loads the block (newNetwork), which fails when its            *)
(* mycelium_keys are malformed, and then calls the grid client.  The calls *)
(* are one action each; a call that works on several nodes may stop        *)
(* between two of them.  faults names what may go wrong: "chain" (TFChain  *)
(* does not answer a read), "deploy" and "cancel" (a call fails without a  *)
(* cause of its own), "revert" (a deployment that fails is not reverted),  *)
(* "kill" (Terraform dies inside a call), "expire" (the chain ends a       *)
(* contract) and "down" (nodes go down and come back; some may be down for *)
(* good).                                                                  *)
(***************************************************************************)
EXTENDS Integers, FiniteSets

CONSTANTS
  Node,        \* node ids
  PublicNode,  \* those that can be the access node of a network
  NoNode,      \* public_node_id = 0
  Keys,        \* mycelium_keys: a key for some nodes
  NoKeys,      \* none
  Malformed,   \* those with a key that is not hexadecimal, or for no node id
  Blocks,      \* what the configuration may say: nodes, add_wg_access and keys
  FaultSets,   \* the sets of failures a behaviour may meet
  MaxContract  \* bound on the contracts created

AllFaults == {"chain", "deploy", "cancel", "revert", "kill", "expire", "down"}

ASSUME NodeAssumption ==
  Node \subseteq Nat \ {0} /\ IsFiniteSet(Node) /\ NoNode \notin Node
ASSUME PublicAssumption == PublicNode \subseteq Node /\ PublicNode # {}
ASSUME KeyAssumption == NoKeys \in Keys /\ Malformed \subseteq Keys \ {NoKeys}
ASSUME BlockAssumption ==
  Blocks \subseteq [nodes : (SUBSET Node) \ {{}}, wg : BOOLEAN, keys : Keys]
ASSUME FaultAssumption == FaultSets \subseteq SUBSET AllFaults
ASSUME BoundAssumption == MaxContract \in Nat

VARIABLES
  faults,  \* the failures that may happen, chosen at the start
  chain,   \* live contracts of the network: id -> node
  next,    \* id of the next contract
  up,      \* nodes that answer
  config,  \* the block in the configuration: a set of at most one
  saved,   \* what Terraform saved: at most one ZNet, tainted or not
  record,  \* nodes whose subnet of this network State.Networks holds
  pc,      \* "idle", "plan", or the call the handler is about to make
  op,      \* the handler: "read", "create", "update" or "delete"
  net,     \* the workloads.ZNet the handler works on
  report   \* how the apply went: "none" yet, "ok", "warned" or "failed"

vars == <<faults, chain, next, up, config, saved, record, pc, op, net, report>>

AtMostOne(S) == {{}} \cup {{x} : x \in S}
PartialFn(D, R) == UNION {[S -> R] : S \in SUBSET D}

\* workloads.ZNet, as far as the handlers look at it: Nodes, AddWGAccess,
\* MyceliumKeys, NodeDeploymentID, PublicNodeID and the nodes of NodesIPRange.
ZNet == [nodes : SUBSET Node, wg : BOOLEAN, keys : Keys, ids : PartialFn(Node, 1..MaxContract),
         public : Node \cup {NoNode}, ranges : SUBSET Node]

NoIds == [n \in {} |-> 0]
NoNet == [nodes |-> {}, wg |-> FALSE, keys |-> NoKeys, ids |-> NoIds, public |-> NoNode,
          ranges |-> {}]

\* A network with what the block says, and the rest as it is
Planned(z, c) == [z EXCEPT !.nodes = c.nodes, !.wg = c.wg, !.keys = c.keys]

----------------------------------------------------------------------------
(* storeState: what is written of a network when a handler returns.  A      *)
(* node that lost its contract is no node of the network any more; one that *)
(* still has a contract is, except for the access node.  mycelium_keys are  *)
(* not written: they stay as they were planned.                             *)
StoredKeepingNodes(z) == z
StoredWithPublic(z) == [z EXCEPT !.nodes = DOMAIN z.ids \cup {z.public}]

Stored(z) ==
  [z EXCEPT !.nodes = (@ \cap DOMAIN z.ids) \cup (DOMAIN z.ids \ {z.public})]

(* updateNetworkLocalState *)
NotRecorded(z) == record
Recorded(z) == z.ranges

Return(kept, how) ==
  /\ saved' = kept /\ report' = how
  /\ pc' = "idle" /\ op' = "none" /\ net' = NoNet

----------------------------------------------------------------------------
(* Terraform *)

Edit ==
  /\ pc = "idle"
  /\ config' \in AtMostOne(Blocks) \ {config}
  /\ report' = "none"
  /\ UNCHANGED <<chain, next, up, saved, record, pc, op, net>>

\* resourceNetworkRead of what is saved.
Refresh ==
  /\ pc = "idle"
  /\ \E s \in saved : net' = s.attr
  /\ pc' = "load" /\ op' = "read" /\ report' = "none"
  /\ UNCHANGED <<chain, next, up, config, saved, record>>

PlanCreate ==
  /\ pc = "idle" /\ saved = {}
  /\ \E c \in config : net' = Planned(NoNet, c)
  /\ pc' = "load" /\ op' = "create" /\ report' = "none"
  /\ UNCHANGED <<chain, next, up, config, saved, record>>

\* The ResourceData of an update has what is planned, and the rest from what is
\* saved.
PlanUpdate ==
  /\ pc = "plan"
  /\ \E s \in saved, c \in config :
       /\ ~s.tainted
       /\ Planned(s.attr, c) # s.attr
       /\ net' = Planned(s.attr, c)
  /\ pc' = "load" /\ op' = "update"
  /\ UNCHANGED <<chain, next, up, config, saved, record, report>>

\* A tainted resource is deleted, and created anew from nothing.
PlanDelete ==
  /\ pc = "plan"
  /\ \E s \in saved : (config = {} \/ s.tainted) /\ net' = s.attr
  /\ pc' = "load" /\ op' = "delete"
  /\ UNCHANGED <<chain, next, up, config, saved, record, report>>

PlanNothing ==
  /\ pc = "plan"
  /\ \E s \in saved, c \in config : ~s.tainted /\ Planned(s.attr, c) = s.attr
  /\ Return(saved, IF report = "none" THEN "ok" ELSE report)
  /\ UNCHANGED <<chain, next, up, config, record>>

----------------------------------------------------------------------------
(* newNetwork, in every handler *)

Load ==
  /\ pc = "load" /\ net.keys \notin Malformed
  /\ pc' = CASE op = "read" -> "invalidate" [] op = "delete" -> "cancel" [] OTHER -> "deploy"
  /\ UNCHANGED <<chain, next, up, config, saved, record, op, net, report>>

\* Its error is the error of the handler.  An update leaves what was planned beside
\* the ids of before; a create leaves nothing, as there was, the others no change.
LoadFails ==
  /\ pc = "load" /\ net.keys \in Malformed
  /\ Return(IF op = "update" THEN {[attr |-> net, tainted |-> FALSE]} ELSE saved, "failed")
  /\ UNCHANGED <<chain, next, up, config, record>>

----------------------------------------------------------------------------
(* resourceNetworkRead *)

Live(ids) == [n \in {m \in DOMAIN ids : ids[m] \in DOMAIN chain} |-> ids[n]]

\* InvalidateBrokenAttributes forgets the contracts the chain does not have.
Invalidate ==
  /\ pc = "invalidate"
  /\ net' = [net EXCEPT !.ids = Live(@),
                        !.ranges = @ \ (DOMAIN net.ids \ DOMAIN Live(net.ids))]
  /\ pc' = "read"
  /\ UNCHANGED <<chain, next, up, config, saved, record, op, report>>

\* Its error is returned: the refresh fails, and the apply with it.
InvalidateFails ==
  /\ pc = "invalidate" /\ "chain" \in faults
  /\ Return(saved, "failed")
  /\ UNCHANGED <<chain, next, up, config, record>>

CanRead == \A n \in DOMAIN net.ids : n \in up /\ net.ids[n] \in DOMAIN chain

\* ReadNodesConfig asks every node of the network for its subnet and keys.
ReadNodesConfig ==
  /\ pc = "read" /\ CanRead
  /\ LET z == [net EXCEPT !.ranges = DOMAIN net.ids]
     IN /\ saved' = {[attr |-> Stored(z), tainted |-> s.tainted] : s \in saved}
        /\ record' = Recorded(z)
  /\ pc' = "plan"
  /\ UNCHANGED <<chain, next, up, config, op, net, report>>

ReadFailing ==
  /\ pc = "read" /\ ~CanRead
  /\ Return(saved, "failed")
  /\ UNCHANGED <<chain, next, up, config, record>>

\* Its error is a warning, and what was invalidated is not stored either.
ReadWarns ==
  /\ pc = "read" /\ ~CanRead
  /\ pc' = "plan" /\ report' = "warned"
  /\ UNCHANGED <<chain, next, up, config, saved, record, op, net>>

----------------------------------------------------------------------------
(* resourceNetworkCreate and resourceNetworkUpdate *)

\* NetworkDeployer.Deploy keeps the access node it has, or takes a node of the
\* network, or another one.
AccessNodes(z) ==
  IF ~z.wg \/ z.public # NoNode THEN {z.public}
  ELSE IF z.nodes \cap PublicNode # {} THEN z.nodes \cap PublicNode ELSE PublicNode

Targets(z, p) == z.nodes \cup (IF z.wg THEN {p} ELSE {})

\* It leaves out the ids of contracts that are gone, cancels the contracts on
\* the nodes in "gone" and creates one on each node in "added".
Deployed(z, p, gone, added) ==
  LET old == Live(z.ids)
      NewId(n) == next - 1 + Cardinality({m \in added : m <= n})
  IN [z EXCEPT !.public = p, !.ranges = Targets(z, p),
               !.ids = [n \in (DOMAIN old \ gone) \cup added |->
                          IF n \in added THEN NewId(n) ELSE old[n]]]

ChainAfter(z, gone) ==
  LET cancelled == {Live(net.ids)[n] : n \in gone}
      created == {z.ids[n] : n \in DOMAIN z.ids} \ DOMAIN chain
  IN [c \in (DOMAIN chain \ cancelled) \cup created |->
        IF c \in DOMAIN chain THEN chain[c]
        ELSE CHOOSE n \in DOMAIN z.ids : z.ids[n] = c]

Removed(p) == DOMAIN Live(net.ids) \ Targets(net, p)
Added(p) == Targets(net, p) \ DOMAIN Live(net.ids)

\* Some of it done, z the network as it is then.
DeployTo(z, p, gone, added) ==
  /\ gone \subseteq Removed(p) /\ added \subseteq Added(p)
  /\ next + Cardinality(added) <= MaxContract + 1
  /\ z = Deployed(net, p, gone, added)
  /\ chain' = ChainAfter(z, gone)
  /\ next' = next + Cardinality(added)

\* Deploy succeeds, the network is stored and, when created, gets its UUID.
DeployDone ==
  /\ pc = "deploy"
  /\ \E p \in AccessNodes(net) :
       /\ Targets(net, p) \subseteq up
       /\ LET z == Deployed(net, p, Removed(p), Added(p))
          IN /\ DeployTo(z, p, Removed(p), Added(p))
             /\ record' = Recorded(z)
             /\ Return({[attr |-> Stored(z), tainted |-> FALSE]},
                       IF report = "none" THEN "ok" ELSE report)
  /\ UNCHANGED <<up, config>>

FailLeavingNothing(z) ==
  IF op = "create"
  THEN Return({}, "failed") /\ UNCHANGED record
  ELSE /\ Return({[attr |-> Stored(z), tainted |-> FALSE]}, "failed")
       /\ record' = Recorded(z)

\* Deploy fails with z left behind.  A create that leaves nothing is not stored;
\* one that leaves some contracts has its id and an error, which taints it.  An
\* update stores what there is.
FailLeaving(z) ==
  IF op = "create" /\ z.ids = NoIds
  THEN Return({}, "failed") /\ UNCHANGED record
  ELSE /\ Return({[attr |-> Stored(z), tainted |-> op = "create"]}, "failed")
       /\ record' = Recorded(z)

\* Nothing was done, or all of it reverted.
DeployFails ==
  /\ pc = "deploy"
  /\ \E p \in AccessNodes(net) :
       /\ \/ "deploy" \in faults
          \/ ~(Targets(net, p) \subseteq up)
          \/ next + Cardinality(Added(p)) > MaxContract + 1
       /\ FailLeaving(Deployed(net, p, {}, {}))
  /\ UNCHANGED <<chain, next, up, config>>

DeployFailsUnreverted ==
  /\ pc = "deploy" /\ "revert" \in faults
  /\ \E p \in AccessNodes(net) :
       \E gone \in SUBSET Removed(p), added \in SUBSET Added(p) :
         LET z == Deployed(net, p, gone, added)
         IN DeployTo(z, p, gone, added) /\ FailLeaving(z)
  /\ UNCHANGED <<up, config>>

----------------------------------------------------------------------------
(* resourceNetworkDelete *)

\* NetworkDeployer.Cancel cancels every contract and drops the record.
CancelDone ==
  /\ pc = "cancel"
  /\ chain' = [c \in DOMAIN chain \ {net.ids[n] : n \in DOMAIN net.ids} |-> chain[c]]
  /\ record' = {}
  /\ Return({}, CASE config # {} -> "none"
                  [] config = {} /\ report = "none" -> "ok"
                  [] OTHER -> report)
  /\ UNCHANGED <<next, up, config>>

\* It stops at a contract it cannot cancel.  storeState runs, but Terraform
\* keeps what was saved of a resource whose delete fails.
CancelFails ==
  /\ pc = "cancel" /\ "cancel" \in faults
  /\ \E gone \in (SUBSET DOMAIN net.ids) \ {DOMAIN net.ids} :
       chain' = [c \in DOMAIN chain \ {net.ids[n] : n \in gone} |-> chain[c]]
  /\ record' = Recorded(net)
  /\ Return(saved, "failed")
  /\ UNCHANGED <<next, up, config>>

----------------------------------------------------------------------------
(* The rest of the world *)

NodeFlips ==
  /\ "down" \in faults
  /\ \E n \in Node : up' = IF n \in up THEN up \ {n} ELSE up \cup {n}
  /\ UNCHANGED <<chain, next, config, saved, record, pc, op, net, report>>

Expire ==
  /\ "expire" \in faults
  /\ \E c \in DOMAIN chain : chain' = [k \in DOMAIN chain \ {c} |-> chain[k]]
  /\ report' = IF pc = "idle" THEN "none" ELSE "warned"
  /\ UNCHANGED <<next, up, config, saved, record, pc, op, net>>

\* Terraform dies inside a call, whatever that call has done by then.  (To die while
\* it loads the block is to die before.)
Killed ==
  /\ pc \notin {"idle", "load"} /\ "kill" \in faults
  /\ \/ UNCHANGED <<chain, next>>
     \/ /\ pc = "deploy"
        /\ \E p \in AccessNodes(net) :
             \E gone \in SUBSET Removed(p), added \in SUBSET Added(p) :
               DeployTo(Deployed(net, p, gone, added), p, gone, added)
     \/ /\ pc = "cancel" /\ UNCHANGED next
        /\ \E gone \in SUBSET DOMAIN net.ids :
             chain' = [c \in DOMAIN chain \ {net.ids[n] : n \in gone} |-> chain[c]]
  /\ Return(saved, "failed")
  /\ UNCHANGED <<up, config, record>>

Plan == PlanCreate \/ PlanUpdate \/ PlanDelete \/ PlanNothing
Read == ReadNodesConfig \/ ReadWarns

Call ==
  \/ Load \/ LoadFails \/ Invalidate \/ InvalidateFails \/ Read
  \/ DeployDone \/ DeployFails \/ DeployFailsUnreverted
  \/ CancelDone \/ CancelFails

Next ==
  /\ Edit \/ Refresh \/ Plan \/ Call \/ NodeFlips \/ Expire \/ Killed
  /\ UNCHANGED faults

Init ==
  /\ faults \in FaultSets
  /\ chain = [c \in {} |-> 0] /\ next = 1
  /\ up \in SUBSET Node
  /\ config \in AtMostOne(Blocks)
  /\ saved = {} /\ record = {}
  /\ pc = "idle" /\ op = "none" /\ net = NoNet /\ report = "none"

Spec == Init /\ [][Next]_vars

Keep(A) == A /\ UNCHANGED faults

\* The user applies again and again, not every apply is killed, and no call to
\* the chain or to nodes that answer fails for ever.
FairSpec ==
  /\ Spec
  /\ WF_vars(Keep(Refresh)) /\ SF_vars(Keep(Plan)) /\ WF_vars(Keep(Load))
  /\ SF_vars(Keep(Invalidate)) /\ SF_vars(Keep(Read))
  /\ SF_vars(Keep(DeployDone)) /\ SF_vars(Keep(CancelDone))

----------------------------------------------------------------------------
(* Properties *)

\* Types of every variable.
TypeOK ==
  /\ faults \in FaultSets
  /\ next \in 1..(MaxContract + 1)
  /\ DOMAIN chain \subseteq 1..(next - 1) /\ \A c \in DOMAIN chain : chain[c] \in Node
  /\ up \subseteq Node
  /\ config \in AtMostOne(Blocks)
  /\ \A s, t \in saved : s = t
  /\ \A s \in saved : s.attr \in ZNet /\ s.tainted \in BOOLEAN
  /\ record \subseteq Node
  /\ pc \in {"idle", "plan", "load", "invalidate", "read", "deploy", "cancel"}
  /\ op \in {"none", "read", "create", "update", "delete"}
  /\ net \in ZNet
  /\ report \in {"none", "ok", "warned", "failed"}
  /\ op = "create" /\ pc \in {"load", "deploy"} => net.ids = NoIds

\* Unless Terraform was killed, every live contract is named in the state
\* between applies, whatever was deployed, cancelled and reverted in part: a
\* create that leaves contracts behind is stored, an update always.
NoneForgotten ==
  pc = "idle" /\ "kill" \notin faults =>
    \A c \in DOMAIN chain : \E s \in saved :
      chain[c] \in DOMAIN s.attr.ids /\ s.attr.ids[chain[c]] = c

\* After an apply that reported neither an error nor a warning, the network runs
\* on the nodes the block names, on no other but the access node, and the
\* deployments find the subnets of its nodes in the record.
AppliedIsDeployed ==
  pc = "idle" /\ report = "ok" =>
    /\ \A c \in config : \E s \in saved :
         /\ \A n \in c.nodes : n \in DOMAIN s.attr.ids /\ s.attr.ids[n] \in DOMAIN chain
         /\ DOMAIN s.attr.ids \subseteq c.nodes \cup {s.attr.public}
         /\ c.nodes \subseteq record
    /\ config = {} => saved = {} /\ record = {}

\* No keys that are saved are malformed.  A failed update saves such keys
\* (internals.md:26), and then every handler fails to load the block.
WellFormed == \A s \in saved : s.attr.keys \notin Malformed

\* The scenario of internals.md:46: a node that is shut down can be taken out of
\* the network.  When the block and the nodes it needs stay as they are, the block
\* and what is saved are well-formed, and the chain has contracts to give, the
\* network ends up on those nodes alone.
Wanted == PublicNode \cup UNION {c.nodes : c \in config}
Settled ==
  /\ "kill" \notin faults
  /\ WellFormed /\ \A c \in config : c.keys \notin Malformed
  /\ config # {} /\ Wanted \subseteq up
  /\ next + Cardinality(Wanted \ {chain[k] : k \in DOMAIN chain}) <= MaxContract + 1
Shrunk ==
  \A c \in config, k \in DOMAIN chain :
    chain[k] \in c.nodes \/ \E s \in saved : chain[k] = s.attr.public
ShrinkCompletes == <>[]Settled => []<>Shrunk

\* A block that is removed for good ends up without a resource, whichever nodes
\* never answer again, if what is saved is well-formed: else no read and no delete
\* gets past newNetwork.
RemovalCompletes == <>[](config = {} /\ WellFormed) => []<>(saved = {})
=============================================================================
