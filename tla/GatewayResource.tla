-------------------------- MODULE GatewayResource --------------------------
(***************************************************************************)
(* The grid_name_proxy and grid_fqdn_proxy resources, whose handlers are   *)
(* the same but for the name contract, and the data source that computes   *)
(* the domain of a gateway: resource_gateway_name.go, gateway_name.go,     *)
(* resource_gateway_fqdn.go, gateway_fqdn.go, data_source_gateway_domain.go. *)
(*                                                                         *)
(* One block that stands for a contract on its node and, by name, for a    *)
(* contract of the name; Terraform around it.  Unlike the other resources, *)
(* every handler checks the backends as it loads them, and the schema does *)
(* not: a malformed block gets as far as a handler.                        *)
(*                                                                         *)
(* faults names what may go wrong: "sync", "deploy" and "cancel" (the call *)
(* fails without a cause of its own), "revert" (a deployment that fails is *)
(* not reverted), "kill" (Terraform dies inside a handler), "expire" (the  *)
(* chain ends a contract) and "down" (nodes go down and come back; some    *)
(* may be down for good).                                                  *)
(***************************************************************************)
EXTENDS Integers, FiniteSets

CONSTANTS
  Node,         \* nodes that can be gateways
  Body,         \* backends and TLS passthrough that pass validateBackends
  Malformed,    \* and those that do not
  Empty,        \* no backends
  Kinds,        \* those of AllKinds a behaviour may be about
  FaultSets,    \* the sets of failures a behaviour may meet
  MaxContract   \* bound on the contracts created

\* A gateway by domain, by name, or by name in a configuration that computes its
\* domain from the node with the data source.
AllKinds == {"fqdn", "name", "domain"}
AllFaults == {"sync", "deploy", "cancel", "revert", "kill", "expire", "down"}

ASSUME NodeAssumption == Node # {}
ASSUME BodyAssumption == Empty \notin Body \cup Malformed /\ Body \cap Malformed = {}
ASSUME KindAssumption == Kinds \subseteq AllKinds
ASSUME FaultAssumption == FaultSets \subseteq SUBSET AllFaults
ASSUME BoundAssumption == MaxContract \in Nat

VARIABLES
  kind,    \* the kind of gateway, chosen at the start
  faults,  \* the failures that may happen, chosen at the start
  chain,   \* live contracts of deployments: id -> node and body
  names,   \* live name contracts
  next,    \* id of the next contract
  up,      \* nodes that answer
  config,  \* the block in the configuration: a set of at most one
  saved,   \* what Terraform saved: a set of at most one Gateway
  pc,      \* "idle", "plan", or the call the handler is about to make
  op,      \* the handler: "read", "create", "update" or "delete"
  gw,      \* the workloads.GatewayNameProxy or GatewayFQDNProxy
  report   \* how the apply went: "none" yet, "ok", "warned" or "failed"

vars == <<kind, faults, chain, names, next, up, config, saved, pc, op, gw, report>>
grid == <<chain, names, next, up>>

AtMostOne(S) == {{}} \cup {{x} : x \in S}
PartialFn(D, R) == UNION {[S -> R] : S \in SUBSET D}

\* name_contract_id without a contract
NoName == 0

Block == [node : Node, body : Body \cup Malformed]

\* The id of the resource is the contract of its node, or "0" when that is gone,
\* which does not end the resource: nothing depends on it.
Gateway == [node : Node, body : Body \cup Malformed \cup {Empty},
            ids : PartialFn(Node, 1..MaxContract), nameId : 0..MaxContract]

NoIds == [n \in {} |-> 0]
Blank == [node |-> CHOOSE n \in Node : TRUE, body |-> Empty, ids |-> NoIds, nameId |-> NoName]

Without(gone) == [c \in DOMAIN chain \ gone |-> chain[c]]
Live(ids) == [n \in {m \in DOMAIN ids : ids[m] \in DOMAIN chain} |-> ids[n]]
Ids(g) == {g.ids[n] : n \in DOMAIN g.ids}

----------------------------------------------------------------------------
(* A handler returns to Terraform. *)

Return(kept, how) ==
  /\ saved' = kept /\ report' = how
  /\ pc' = "idle" /\ op' = "none" /\ gw' = Blank

Done == IF report = "none" THEN "ok" ELSE report

\* An error.  A create has set no id and leaves nothing; an update leaves the
\* planned block beside the ids of before; a read and a delete change nothing.
Fail == Return({[s EXCEPT !.node = gw.node, !.body = gw.body] : s \in saved}, "failed")

(* GatewayNameDeployer.Sync and GatewayFQDNDeployer.Sync: contracts that are  *)
(* gone are forgotten, and the backends are those the node of the block runs. *)
(* syncContractsNameGateways and syncContractsFQDNGateways store the result.  *)
StoredWithoutName(g) ==
  [g EXCEPT !.ids = Live(g.ids), !.nameId = NoName,
            !.body = IF g.node \in DOMAIN Live(g.ids) THEN chain[g.ids[g.node]].body ELSE Empty]

StoredUnderNode(g) ==
  [g EXCEPT !.ids = IF Live(g.ids) = NoIds THEN NoIds
                    ELSE [n \in {g.node} |-> CHOOSE c \in Ids(g) : c \in DOMAIN chain]]

Stored(g) ==
  [g EXCEPT !.ids = Live(g.ids),
            !.nameId = IF @ \in names THEN @ ELSE NoName,
            !.body = IF g.node \in DOMAIN Live(g.ids) THEN chain[g.ids[g.node]].body ELSE Empty]

----------------------------------------------------------------------------
(* Terraform *)

Edit ==
  /\ pc = "idle"
  /\ config' \in AtMostOne(Block) \ {config}
  /\ report' = "none"
  /\ UNCHANGED <<grid, saved, pc, op, gw>>

Refresh ==
  /\ pc = "idle"
  /\ \E s \in saved : gw' = s
  /\ pc' = "load" /\ op' = "read" /\ report' = "none"
  /\ UNCHANGED <<grid, config, saved>>

\* dataSourceGatewayRead asks the node of the block for its domain.
DomainKnown == kind = "domain" => \A c \in config : c.node \in up
Planning == pc = "plan" \/ (pc = "idle" /\ saved = {} /\ config # {})

\* Its error ends the plan.
DomainFails ==
  /\ Planning /\ ~DomainKnown
  /\ Return(saved, "failed")
  /\ UNCHANGED <<grid, config>>

PlanCreate ==
  /\ Planning /\ saved = {} /\ DomainKnown
  /\ \E c \in config : gw' = [Blank EXCEPT !.node = c.node, !.body = c.body]
  /\ pc' = "load" /\ op' = "create" /\ report' = "none"
  /\ UNCHANGED <<grid, config, saved>>

PlanUpdate ==
  /\ Planning /\ DomainKnown
  /\ \E s \in saved, c \in config :
       /\ c.node # s.node \/ c.body # s.body
       /\ gw' = [s EXCEPT !.node = c.node, !.body = c.body]
  /\ pc' = "load" /\ op' = "update"
  /\ UNCHANGED <<grid, config, saved, report>>

PlanDelete ==
  /\ Planning /\ config = {}
  /\ \E s \in saved : gw' = s
  /\ pc' = "load" /\ op' = "delete"
  /\ UNCHANGED <<grid, config, saved, report>>

PlanNothing ==
  /\ Planning /\ DomainKnown
  /\ \E s \in saved, c \in config : c.node = s.node /\ c.body = s.body
  /\ Return(saved, Done)
  /\ UNCHANGED <<grid, config>>

----------------------------------------------------------------------------
(* newNameGatewayFromSchema and newFQDNGatewayFromSchema, in every handler *)

Load ==
  /\ pc = "load" /\ gw.body \notin Malformed
  /\ pc' = CASE op = "read" -> "sync" [] op = "delete" -> "cancel" [] OTHER -> "deploy"
  /\ UNCHANGED <<grid, config, saved, op, gw, report>>

\* The error of validateBackends is the error of the handler, a read included.
LoadFails ==
  /\ pc = "load" /\ gw.body \in Malformed
  /\ Fail
  /\ UNCHANGED <<grid, config>>

----------------------------------------------------------------------------
(* The calls *)

\* Sync asks the chain for the contracts, and the nodes of those that live.
CanSync == DOMAIN Live(gw.ids) \subseteq up

SyncRead ==
  /\ pc = "sync" /\ op = "read" /\ CanSync
  /\ saved' = {Stored(gw)}
  /\ pc' = "plan"
  /\ UNCHANGED <<grid, config, op, gw, report>>

SyncReadFailing ==
  /\ pc = "sync" /\ op = "read"
  /\ ~CanSync \/ "sync" \in faults
  /\ Return(saved, "failed")
  /\ UNCHANGED <<grid, config>>

SyncReadFailsSilently ==
  /\ pc = "sync" /\ op = "read"
  /\ ~CanSync \/ "sync" \in faults
  /\ pc' = "plan"
  /\ UNCHANGED <<grid, config, saved, op, gw, report>>

\* The error of Sync is a warning.
SyncReadFails ==
  /\ pc = "sync" /\ op = "read"
  /\ ~CanSync \/ "sync" \in faults
  /\ pc' = "plan" /\ report' = "warned"
  /\ UNCHANGED <<grid, config, saved, op, gw>>

SyncApplied ==
  /\ pc = "sync" /\ op \in {"create", "update"} /\ CanSync
  /\ Return({Stored(gw)}, Done)
  /\ UNCHANGED <<grid, config>>

\* A delete that returns without an error ends the resource.
SyncDeleted ==
  /\ pc = "sync" /\ op = "delete" /\ CanSync
  /\ Return({}, Done)
  /\ UNCHANGED <<grid, config>>

SyncFails ==
  /\ pc = "sync" /\ op # "read"
  /\ ~CanSync \/ "sync" \in faults
  /\ Fail
  /\ UNCHANGED <<grid, config>>

(* GatewayNameDeployer.Deploy makes a name contract when there is none; then  *)
(* both cancel the contracts on nodes the gateway left, and create or change  *)
(* the one on its node.  done: the parts of this that are done, a name first. *)
Parts == {"name", "left", "node"}
SomeParts == {done \in SUBSET Parts : done # {} => "name" \in done}

NeedsName == kind # "fqdn" /\ gw.nameId \notin names
NeedsContract == gw.node \notin DOMAIN gw.ids
One(needed) == IF needed THEN 1 ELSE 0

\* gw with the contracts it has when all is done
Deployed ==
  [gw EXCEPT !.nameId = IF NeedsName THEN next ELSE @,
             !.ids = [n \in {gw.node} |->
                        IF NeedsContract THEN next + One(NeedsName) ELSE @[n]]]

\* The chain gives a name once.
CanDeploy ==
  /\ gw.node \in up
  /\ NeedsName => names = {}
  /\ ~NeedsContract => gw.ids[gw.node] \in DOMAIN chain
  /\ next + One(NeedsName) + One(NeedsContract) <= MaxContract + 1

DeployParts(done) ==
  LET id == Deployed.ids[gw.node]
      left == IF "left" \in done THEN Ids(gw) \ {id} ELSE {}
      on == IF "node" \in done THEN {id} ELSE {}
      named == "name" \in done /\ NeedsName
  IN /\ CanDeploy
     /\ names' = IF named THEN names \cup {Deployed.nameId} ELSE names
     /\ chain' = [c \in (DOMAIN chain \ left) \cup on |->
                    IF c \in on THEN [node |-> gw.node, body |-> gw.body] ELSE chain[c]]
     /\ next' = next + One(named) + One("node" \in done /\ NeedsContract)

Deploy ==
  /\ pc = "deploy" /\ DeployParts(Parts)
  /\ gw' = Deployed /\ pc' = "sync"
  /\ UNCHANGED <<up, config, saved, op, report>>

\* Deploy fails and nothing was done, or all of it reverted.
DeployFails ==
  /\ pc = "deploy"
  /\ "deploy" \in faults \/ ~CanDeploy
  /\ Fail
  /\ UNCHANGED <<grid, config>>

\* It fails part way, and is not reverted.
DeployFailsUnreverted ==
  /\ pc = "deploy" /\ "revert" \in faults
  /\ \E done \in SomeParts : DeployParts(done)
  /\ Fail
  /\ UNCHANGED <<up, config>>

CancelParts(ids, named) ==
  /\ chain' = Without(ids)
  /\ names' = IF named THEN names \ {gw.nameId} ELSE names

\* Cancel ends all contracts, on the chain alone.
Cancel ==
  /\ pc = "cancel"
  /\ CancelParts(Ids(gw), TRUE)
  /\ gw' = [gw EXCEPT !.ids = NoIds, !.nameId = NoName]
  /\ pc' = "sync"
  /\ UNCHANGED <<next, up, config, saved, op, report>>

\* It stops at one it cannot cancel.
CancelFails ==
  /\ pc = "cancel" /\ "cancel" \in faults
  /\ \E ids \in SUBSET Ids(gw) : CancelParts(ids, FALSE)
  /\ Fail
  /\ UNCHANGED <<next, up, config>>
----------------------------------------------------------------------------
(* The rest of the world *)

NodeFlips ==
  /\ "down" \in faults
  /\ \E n \in Node : up' = IF n \in up THEN up \ {n} ELSE up \cup {n}
  /\ UNCHANGED <<chain, names, next, config, saved, pc, op, gw, report>>

Expire ==
  /\ "expire" \in faults
  /\ \/ UNCHANGED names /\ \E c \in DOMAIN chain : chain' = Without({c})
     \/ UNCHANGED chain /\ \E c \in names : names' = names \ {c}
  /\ report' = IF pc = "idle" THEN "none" ELSE "warned"
  /\ UNCHANGED <<next, up, config, saved, pc, op, gw>>

\* Terraform dies inside a call, whatever that has done by then.
Killed ==
  /\ pc \notin {"idle", "load"} /\ "kill" \in faults
  /\ \/ UNCHANGED <<chain, names, next>>
     \/ (pc = "deploy" /\ \E done \in SomeParts : DeployParts(done))
     \/ pc = "cancel" /\ UNCHANGED next /\ \E ids \in SUBSET Ids(gw) : CancelParts(ids, FALSE)
  /\ Return(saved, "failed")
  /\ UNCHANGED <<up, config>>

Plan == PlanCreate \/ PlanUpdate \/ PlanDelete \/ PlanNothing \/ DomainFails

Call ==
  \/ Load \/ LoadFails
  \/ SyncRead \/ SyncReadFails \/ SyncApplied \/ SyncDeleted \/ SyncFails
  \/ Deploy \/ DeployFails \/ DeployFailsUnreverted
  \/ Cancel \/ CancelFails

Next ==
  /\ Edit \/ Refresh \/ Plan \/ Call \/ NodeFlips \/ Expire \/ Killed
  /\ UNCHANGED <<kind, faults>>

Init ==
  /\ kind \in Kinds /\ faults \in FaultSets
  /\ chain = [c \in {} |-> 0] /\ names = {} /\ next = 1
  /\ up \in SUBSET Node
  /\ config \in AtMostOne(Block)
  /\ saved = {}
  /\ pc = "idle" /\ op = "none" /\ gw = Blank /\ report = "none"

Spec == Init /\ [][Next]_vars

Keep(A) == A /\ UNCHANGED <<kind, faults>>

\* The user applies again and again, a handler goes on until it returns, not every
\* apply is killed, and no call to the chain or to nodes that answer fails for ever.
FairSpec ==
  /\ Spec
  /\ WF_vars(Keep(Refresh)) /\ WF_vars(Keep(Call)) /\ SF_vars(Keep(Plan))
  /\ SF_vars(Keep(SyncRead)) /\ SF_vars(Keep(SyncApplied)) /\ SF_vars(Keep(SyncDeleted))
  /\ SF_vars(Keep(Deploy)) /\ SF_vars(Keep(Cancel))

----------------------------------------------------------------------------
(* Properties *)

\* Types of every variable; the saved deployment ids are those of contracts on
\* the nodes they are saved for (internals.md:37), as long as these live, and no
\* contract of a deployment is taken for one of a name.
TypeOK ==
  /\ kind \in Kinds /\ faults \in FaultSets
  /\ next \in 1..(MaxContract + 1)
  /\ names \subseteq 1..(next - 1)
  /\ DOMAIN chain \subseteq 1..(next - 1) \ names
  /\ \A c \in DOMAIN chain : chain[c] \in Block
  /\ up \subseteq Node
  /\ config \in AtMostOne(Block)
  /\ saved \in AtMostOne(Gateway)
  /\ pc \in {"idle", "plan", "load", "sync", "deploy", "cancel"}
  /\ op \in {"none", "read", "create", "update", "delete"}
  /\ gw \in Gateway
  /\ report \in {"none", "ok", "warned", "failed"}
  /\ \A g \in saved \cup {gw} :
       /\ g.nameId \notin DOMAIN chain
       /\ \A n \in DOMAIN Live(g.ids) : chain[g.ids[n]].node = n

\* After an apply that reported neither an error nor a warning, the gateway of
\* the block runs on the node of the block alone, with the backends of the block,
\* under a live name contract unless the chain has ended one (nothing is planned
\* for a name contract that is gone).  A block that is gone has no resource left.
AppliedIsDeployed ==
  pc = "idle" /\ report = "ok" =>
    /\ \A k \in config : \E s \in saved :
         /\ DOMAIN s.ids = {k.node}
         /\ s.ids[k.node] \in DOMAIN chain /\ chain[s.ids[k.node]] = k
         /\ kind = "fqdn" \/ "expire" \in faults \/ s.nameId \in names
    /\ config = {} => saved = {}

\* Between applies every live contract, of a node or of a name, is in what
\* Terraform saved, as long as no failure comes between the making of a contract
\* and its storing: malformed blocks, deployments that are reverted, moves and
\* cancellations that fail half way lose none.  A revert that fails is such a
\* failure: a create sets no id then (resource_gateway_name.go:99-101,
\* resource_gateway_fqdn.go:97-99, where internals.md:63 wants it set).
TidyFaults == faults \cap {"revert", "kill", "expire", "down", "sync"} = {}

ContractsTracked ==
  TidyFaults /\ pc = "idle" =>
    /\ \A c \in DOMAIN chain : \E s \in saved : c \in Ids(s)
    /\ \A c \in names : \E s \in saved : s.nameId = c

WellFormed == \A s \in saved : s.body \notin Malformed

\* The scenario of internals.md:46: a gateway on a node that is shut down can be
\* moved.  When a well-formed block stays as it is, its node answers, its name is
\* not taken by a contract a failed create has lost, the chain has contracts to give,
\* and no update that failed has had the move saved without being made, the gateway
\* ends up there, whatever became of the node it was on.
Room(k) ==
  LET onNode == \E s \in saved : \E c \in Ids(s) \cap DOMAIN chain : chain[c].node = k.node
      named == kind = "fqdn" \/ \E s \in saved : s.nameId \in names
  IN next + One(~onNode) + One(~named) <= MaxContract + 1

MovedOnPaper(k) ==
  \E s \in saved : k = [node |-> s.node, body |-> s.body] /\ k.node \notin DOMAIN s.ids

Settled ==
  /\ "kill" \notin faults /\ WellFormed
  /\ \A c \in names : \E s \in saved : s.nameId = c
  /\ \E k \in config :
       k.body \notin Malformed /\ k.node \in up /\ Room(k) /\ ~MovedOnPaper(k)

OnBlock == \A k \in config : \E s \in saved : \E c \in Ids(s) \cap DOMAIN chain : chain[c] = k

MoveCompletes == <>[]Settled => []<>OnBlock

\* A block that is removed for good ends up without a resource, even when the
\* node it was deployed on never answers again, if what is saved is well-formed.
RemovalCompletes == <>[](config = {} /\ WellFormed) => []<>(saved = {})

\* Reading does not raise an error in any case (internals.md:50), unless Terraform
\* is killed.
ReadNeverFails ==
  [][op = "read" /\ pc' = "idle" /\ "kill" \notin faults => report' # "failed"]_vars
=============================================================================
