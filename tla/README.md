# terraform-provider-grid in TLA+

Models of the Terraform provider for the ThreeFold grid, checked with TLC on
small instances and, as far as safety goes, proved with TLAPS for every value of their
constants. The code is `src/`; paths below are relative to it.

## 1. The system

The provider is a plugin process that Terraform starts for each walk (refresh
and plan, apply, destroy) and for each alias of the provider. It keeps almost
nothing itself: Terraform saves the attributes of every resource, TFChain holds
the contracts, the nodes hold the deployments, and one file, `state.json`,
carries the subnets of networks from one process to the next.

| component | state | operations | talks to |
|---|---|---|---|
| scheduler package, `internal/provider/scheduler` | caches of nodes and farms, the assignment being made | `ProcessRequests` → `Schedule` → farmer bot, or `gridProxySchedule` | grid proxy (listings, farms), farmer bots over RMB |
| scheduler resource, `resource_scheduler.go` | saved `requests` and `nodes` | create, update, delete; read does nothing | scheduler package, Terraform |
| deployment resource, `resource_deployment.go`, `deployment.go` | saved id (a contract), node, contents | create, read, update, delete | grid client: Deploy, Sync, Cancel, CancelContract |
| network resource, `resource_network.go` | saved nodes, contract of each node, access node; the record of subnets | create, read, update, delete | grid client: Deploy, InvalidateBrokenAttributes, ReadNodesConfig, Cancel; `State.Networks` |
| local state file, `internal/state/file_state.go`, `main.go` | `state.json` and the copy each process holds | Load, GetState, Save | other processes of the provider, through the file |
| provider configuration, `provider.go` | the grid client of a process | `providerConfigure` | local state file, the network |
| kubernetes resource, `resource_k8s.go`, `k8s.go` | saved master and workers, contract of each node | create, read, update, delete | grid client: Deploy, Validate, InvalidateBrokenAttributes, UpdateFromRemote, Cancel |
| gateway resources, `resource_gateway_*.go`, `gateway_*.go` | saved node and backends, node contract, name contract | create, read, update, delete | grid client: Deploy, Sync, Cancel |
| gateway domain data source, `data_source_gateway_domain.go` | none | read, inside every plan | the node, over RMB |

What is hard in it:

* The grid is shared. Between two calls of one scheduler run other users take
  capacity and nodes go up and down; the scheduler decides on cached figures.
* A handler is a sequence of remote calls, any of which may fail; what Terraform
  saves then depends on the handler (create without an id: nothing; create with
  an id: tainted; update: everything planned; read and delete: what was there).
* A network is many contracts; a call that works on all of them can stop between
  two and fail to revert.
* A node may be down for good (`wiki/internals.md:46`), and everything must stay
  removable.
* `state.json` is written by processes that do not know of each other.

What makes each component correct:

* *Scheduler package*: a run never promises more of a node than it had; every
  answer suits its request; distinct requests are kept apart; "no nodes found" is
  the truth; the run ends.
* *Scheduler resource*: what has a node keeps it; an apply stores all or nothing.
* *Deployment resource*: an apply that reports success has deployed what the
  block says; contracts in use are not cancelled and contracts are not lost.
* *Network resource*: the same over many nodes, a dead node can be taken out, and
  the record of subnets agrees with what is deployed.
* *Local state*: each process starts with what the last one left.
* *Kubernetes*: an apply that reports success runs each vm where its block says, once;
  contracts are not lost; a cluster can be removed.
* *Gateways*: as the deployment, with two contracts of different lives; a gateway on a
  dead node can be moved or removed, and a bad block does no lasting harm.

## 2. The plan

Modules in the order of their importance; "done" is what this directory has.

1. `Scheduler` with the abstract `Placement`: done, with every safety property and the
   refinement proved in `SchedulerProofs`.
2. `SchedulerResource` on top of `Scheduler`: done; its action properties are proved where
   it is composed, in `PlacedProofs`.
3. `DeploymentResource`: done, proved in `DeploymentProofs`.
4. `NetworkResource`: done, proved in `NetworkProofs`. Left: an abstract specification of
   what the resources promise (a block, what is live, one report) that they implement.
5. `LocalState`: done, proved in `LocalStateProofs`.
6. `KubernetesResource`: done, proved in `KubernetesProofs`.
7. `GatewayResource`, with the data source in its plan: done, proved in `GatewayProofs`.
8. `PlacedDeployment`, a scheduler and a deployment in one configuration, where the node of
   one is an input of the other: done, proved in `PlacedProofs` from the proofs of the two.
   Left: a network in the composition.

What composes what: `SchedulerResource` EXTENDS `Scheduler` and runs its `Step`
inside its own handlers; `PlacedDeployment` EXTENDS `SchedulerResource` and instantiates
`DeploymentResource`, whose configuration is what the scheduler has saved and whose live
nodes are those of the scheduler's grid; `Scheduler` instantiates `Placement` with a
refinement mapping; `LocalState` and `NetworkResource` meet in the record
(`Recording` and `Recorded` stand for one function of the code, seen from the
process and from the resource).

## 3. The modules and the code

### Scheduler, Placement

`Scheduler` is one call of `ProcessRequests`. Its variables are those of the code:
`nodes` and `farms` are the caches of the Go struct, `assignment` and `assigned` the map
and the list `ProcessRequests` fills, `req` the copy of the request with its widened
exclusions, `limit` the page and size of the next listing, `todo` the rest of the
shuffle `getNode` goes through. An action lies between two calls that leave the
process: `PingAnswered`/`PingUnanswered` (`hasFarmerBot`), `BotAnswers`/`BotFails`
(`farmerBotSchedule`), `SkipNode`/`TakeNode` (`getNode`, which looks farms up on the
way), `ListNodes`/`NoNodesFound`/`ListFails` (the listing). `GridMoves` changes the
grid between any two. `granted` is a history variable: what the run placed where.

Capacities are machine words: `FreeCapacity` and `Consume` subtract modulo `Word`
(2^64 in the code), as Go does. Capacities sent to a bot are divided by `UnitsPerGB`
(2^30) and rounded down.

`Placement` says what a run promises: a ledger of capacity left, on integers that do
not wrap, from which each placed request is taken; no caches, pages or lookups.
The mapping (`Promise` in `Scheduler`) takes the ledger to be the cached free
capacities, so it fails when a word wraps or a listing brings consumed capacity back.

### SchedulerResource

The block's `config`, what Terraform `saved`, and the handler that runs. `Create` and
`Update` start a fresh run of `Scheduler` on the requests `parseRequests` leaves over;
`CreateEnds` and `UpdateEnds` store its result as the handler and Terraform do.
`ParseRequests` picks the k-th request without a node by its rank, `Scheduler`'s order of
listings: the loop of `parseRequests` in a form that can be reasoned about (a filter of the
community modules is recursive).

### DeploymentResource

`chain` (live contracts), `up` (nodes that answer), `config`, `saved`, and the handler:
`pc` is the call it is about to make, `d` its ResourceData, `made` the `ContractID` of its
deployment. One action per call and outcome. Every handler begins with `Load`, which is
`newDeploymentFromSchema`, or with `LoadFails`, when a vm of the block is `Malformed` (a mycelium
seed that is not hexadecimal, which the schema lets pass); an update to another node cancels the
old contract before it loads. `Refresh` and the `Plan` actions are Terraform: an apply is a
refresh, then one handler or nothing. `Expire`, `NodeFlips` and `Killed` are the world.

### NetworkResource

The same around a contract for each node: `net` is the `workloads.ZNet` the handler
works on, `Planned` what a block makes of it, `Load` and `LoadFails` the two outcomes of
`newNetwork` (`keys` stands for `mycelium_keys`, none or perhaps `Malformed`), `Stored` is `storeState` (nodes rebuilt from contracts, the access node left
out), `Recorded` is `updateNetworkLocalState`. `Deploy` and `Cancel` of the grid client
go node by node: `DeployFailsUnreverted`, `CancelFails` and `Killed` leave any part of
the work done. `FailLeaving` is the branch of `resourceNetworkCreate` on the number of
contract ids, and what an update stores.

### KubernetesResource

`kc` is the `workloads.K8sCluster` of a handler: the node and the seed of each vm, and
`NodeDeploymentID`. `Load` and `LoadFails` are `newK8sFromSchema`, with which every handler
begins and which refuses a `Malformed` seed. A cluster without the name `Master` is one with a nil or a blank master.
`Validate`, `Invalidate` and `ReadRemote`/`ReadWarns` are the three calls of
`resourceK8sRead`; `ReadFails` returns the error of the first two. `Remote` is the cluster
`UpdateFromRemote` rebuilds from its contracts: with a vm on two of them, either. `Stored`
is `storeK8sState`, which gives each worker the seed of the master, and `StorePanics` the
nil master it meets when there are workers. `Deploy` and `Cancel` go node by node, as in
the network. The name `Fail` stands for what Terraform saves after an error: nothing of a
create, the planned vms beside the old ids of an update.

### GatewayResource

`kind` chooses the resource: by domain (`fqdn`), by name (`name`), or by name with the
data source in the configuration (`domain`: `DomainKnown`, `DomainFails`). The handlers of the
two resources are the same but for the name contract (`names`, `nameId`), so they are one
set of actions. Every handler begins with `Load`, which validates the backends, or
`LoadFails`; a body is well-formed or `Malformed`. The deployer makes the name contract
first, then cancels what is on other nodes, then creates or changes the contract of the
node: `DeployParts`, of which `DeployFailsUnreverted` and `Killed` may leave any beginning.

### PlacedDeployment

A scheduler block and `node = grid_scheduler.sched.nodes["<name>"]`. `Block` is the
deployment block with that reference replaced; without the name in the map nothing is
planned. Terraform applies in the order of the reference: `Schedule` and `Scheduling` are the
scheduler's handlers, `Deploying` those of the deployment, never both at once, and
the scheduler is deleted only after the deployment. The user edits the requests (the one of the
deployment too), adds and removes the blocks; the grid moves at any time.

### LocalState

Each process loads (`FindNothing`, `CreateFile`, `ReadFile`, `LoadFails`), is configured
(`GetState` gives a zero state its map), records networks in the map it shares with the
grid client, and saves (`Truncate`, `Write`: `os.WriteFile` truncates first). In debug mode
there is no save. A state with a nil map (`Zero`) is told apart from an empty one:
`json.Unmarshal` of `{"State":null}` gives the first, and a write to it panics.

## 4. The runs

All bounds are in the cfg files and MC modules.

| run | instance | shows |
|---|---|---|
| `scheduler` | 7 nodes, 2 farms, a bot, 3 moving grids and a quiet one, pages of 1, 1, 2, 4; 8 lists; all calls may fail unless the grid is quiet | `TypeOK`, `NoOvercommit`, `Honoured`, `NoNodesFoundIsRight`, the refinement of `Placement`, and `Terminates` |
| `placed_deployment` | 3 nodes, 3 versions of a scheduler block, 2 grids; a deployment of a good or a malformed body with all faults, 2 contracts | `AssignedStays`, `AllOrNothing`, `DistinctFromEarlier`, `StaysDeployed`, `HeldOnItsNode` |
| `deployment` | 2 nodes, 2 good contents and a malformed one, 2 contracts, 3 sets of faults | `TypeOK`, `AppliedIsDeployed`, `ContractsTracked`, `CancelsOnlyUnwanted`, `RemovalCompletes` |
| `network` | 3 nodes, one of them public, 4 blocks, one with malformed keys, 3 contracts, 3 sets of faults | `TypeOK`, `NoneForgotten`, `AppliedIsDeployed`, `ShrinkCompletes`, `RemovalCompletes` |
| `kubernetes` | a master and a worker on 2 nodes, 4 blocks, one with a malformed seed, 3 contracts, 3 sets of faults | `TypeOK`, `AppliedIsDeployed`, `ContractsTracked`, `RemovalCompletes` |
| `gateway` | 2 kinds, 2 nodes, a good and a bad body, 3 contracts, 4 sets of faults | `TypeOK`, `AppliedIsDeployed`, `ContractsTracked`, `MoveCompletes`, `RemovalCompletes` |
| `local_state` | 2 processes, 2 networks, 2 values; no fault, and each alone | `TypeOK`, `HandedOn` |
| `public_ips`, `scheduler_update`, `kubernetes_master_lost`, `kubernetes_seed`, `gateway_stuck` | smallest that show it | the disagreements of section 7 |

Why the bounds are enough. *Scheduler*: with pages of one node, three nodes need three
pages, so nodes are cached, consumed and listed again within one run; two requests
contend for one node's memory, a third needs what they left; the word 16 is large
enough for every total and small enough that a wrong subtraction is seen at once;
`UnitsPerGB` 2 makes odd demands round. On the quiet grid the sizes double after the second
page, so seven nodes reach the second doubling, where an error in page or size leaves a
gap. *Placed deployment*: versions that add, remove, enlarge and reorder requests, the one
of the deployment among them, on a grid where all fit and one where not; the second
contract is the one after a create that was lost. *Deployment*: two nodes make a move,
two contracts a move or a create after a lost one, and a malformed content is the one a failed
update leaves behind. *Network*: two plain nodes and a public one give
an access node inside the network, outside it and none; three contracts allow one that
was lost or replaced. *Kubernetes*: two vms on two nodes
are together, apart and swapped, so a vm can be on both nodes of a half-done update.
*Gateway*: two nodes make a move, and three contracts a gateway by name and its move, or two
by domain after one that was lost. *Local state*: two processes at once are the least that
interfere, and each stands for any number in turn. `MaxContract` is the only bound on a
counter; a deployment beyond it fails, as it does when the user has no funds left.

Deadlock is checked everywhere. A scheduler run that is over steps to itself (`Stopped`);
the other models always have an edit, a refresh or a process to start.

Fairness. `Scheduler`: weak fairness of `Step`; the run is one goroutine, and every call
it waits for returns an answer or an error. Nothing is assumed of the grid.
`DeploymentResource` and `NetworkResource`: the user goes on applying (weak fairness of
`Refresh`), and applies that are not killed get on; strong fairness of planning, of loading
in the deployment's read and delete (weak in the network) and of
the calls to the chain says that killing, failing calls and edits do not go on for ever
in just the wrong places. Nothing is assumed of nodes: in `RemovalCompletes` they may be
down for ever. What is assumed of data is that it loads: `RemovalCompletes` and `ShrinkCompletes`
speak of blocks whose saved data is well-formed from some time on (`WellFormed`, `Loads`; section
7 says what happens to the others). `KubernetesResource` is alike, with strong fairness of the calls of a read
and of a cancellation that succeeds; `RemovalCompletes` there asks that nodes answer in the
end, because the code needs them. `GatewayResource` adds weak fairness of `Call` (a handler
goes on until it returns) and strong fairness of a deployment that can succeed, which
`MoveCompletes` needs; nodes may be down for ever. No run assumes a create or update succeeds against a node that is down;
`ShrinkCompletes` asks that the nodes the block needs be up from some time on, that
contracts be left to give, and that nothing be killed from then on.

Each property has, in `PROJECT.json`, a mutation of the code it depends on (`...Again`,
`...Skipping`, `...Silently`: the definitions beside the ones they replace) under which TLC
finds it violated.

## 5. What is proved

Every invariant and every action property of the runs that pass, and the refinement, is a
theorem for every value of the constants that satisfies the assumptions of the module. These
are what a run needs to make sense: nodes are numbered from 1 and finite in number
(listings are counted, and contracts too where a deployment is cut short), the word and the
page size are positive, the values that stand for "nothing" are no bodies, nodes or names, and
`MaxContract` is a number, any number. The faults are arbitrary sets unless a property says
otherwise itself. Two theorems have a hypothesis, in their statement: `LoadsFit` and
`NamesDiffer`, explained below; the configurations of the runs satisfy both.

Each proof has the same shape: a typing invariant, a strengthening written in the terms of the
handler (what is true at each `pc`), a lemma for the initial states, one with a step per action,
and a temporal step at the end. Each strengthening was checked by TLC first.

### The scheduler

* `SchedulerProofs!TypeCorrect`: `[]TypeOK`.
* `NeverOvercommitted`: `[]NoOvercommit` under `LoadsFit`: no node
  reports more capacity in use than it has. Without it the code's unsigned subtraction
  makes such a node look almost infinitely free. `NoOvercommit` is not inductive: the
  strengthening says that free, granted and used add up to the total in every cached
  entry, and that what was granted lies on cached nodes; then the guard of `TakeNode`
  rules out the wrap.
* `NoNodesFoundIsTrue`: `[]NoNodesFoundIsRight`, whatever the page size and the number of nodes.
  `Searching` is the invariant: on a quiet grid every node whose rank in the listing is below the
  pages read so far is cached, and every cached node that is not still to do has been
  refused. An empty page is then the last one (`EmptyPageIsLast`), because ranks have no
  gaps (`RankReached`). That sizes double while the page stays 2 leaves no gap is
  `limit.page = 2`: the next listing starts where the ones before it ended.
* `DemandsHonoured`: `[]Honoured`, on both paths, with no hypothesis. What a request got is
  compared with the request of the list, not with the copy whose exclusions the code
  widens; `CopyInv` and `AssignedInv` relate the two. It promises what does not change (farm,
  domain, dedication, certificate, exclusions); capacity is the matter of `NoOvercommit`.
* `KeepsPromise`: a run implements `Placement`, under `LoadsFit`. Each
  step is mapped: `TakeNode` to `Place`, `BotAnswers` to `Delegate`, `ListNodes` to `Learn`,
  `Finish` and the failures to `Complete` and `GiveUp`, the rest to stuttering.

`RankProofs` holds what these and `PlacedProofs` need of `Rank`: its range, that it follows the
order, that it is one-to-one, and that it leaves no gap. `Rank` is defined by a cardinality and
`RankReached` is proved with the pigeonhole principle, so no
induction is needed.

### The scheduler resource and a deployment placed by it

`PlacedProofs` is a proof by composition. It instantiates `SchedulerProofs` with any sequence as
list of requests, and `DeploymentProofs` with the mapping of `PlacedDeployment`; a step of the
whole is shown to be a step of one of them beside which the other stands still
(`OthersStandBy`, `DeployIsDeployStep`), and their lemmas carry their invariants. What is new
is the coupling: `Kept` and `Running` (a handler's run works on the requests without a node,
and its assignment agrees with what is saved; `ParseSelects` is what it needs of `ParseRequests`),
and `Joined` (the deployment's node, in its state and inside a handler, is the node the map has
for its request, so no handler is ever about to cancel an old contract).

* `NodesAreKept`: `AssignedStays`. `AllOrNoneStored`: `AllOrNothing`.
* `LaterAreDistinct`: `DistinctFromEarlier`, under `NamesDiffer`: the requests of a block have names
  of their own. The provider does not require it; of two requests of one name the node of the
  later is kept, and the property, which looks requests up by name, would compare
  the wrong ones. It rests on `DemandsHonoured`.
* `HeldInPlace`: `[]HeldOnItsNode`, from `Joined` and the `Housed` of the deployment.
* `PlacedStaysDeployed`: `StaysDeployed`: no step but the chain's own ends the contract or changes its
  node, under all faults. This is where `AssignedStays` and `CancelsOnlyUnwanted` meet.

### The resources

* `TypeCorrect` of each of the four, under any set of faults. For the network, the cluster and the
  gateway `TypeOK` is not inductive alone: that a create starts without ids needs that saved
  ids are those of contracts on the nodes they are saved for, while these live (`Aligned`, `Held`).
* `DeploymentProofs!ContractsAreTracked`: the inductive invariant
  follows the one live contract through the handlers: it is the saved one, or, inside an
  update that has cancelled it, none, or, after `DeployNew`, the one in `made`.
  `KubernetesProofs!TracksContracts` and `GatewayProofs!TracksContracts`: the handler's own copy
  knows every live contract, and between applies the state does. The faults left out
  are those of section 7 that do lose a contract. `NetworkProofs!ForgetsNone`: the same
  without that restriction, save for a killed Terraform: a network is stored whatever failed.
* `AppliedCorrect` of each of the four: `[]AppliedIsDeployed`. `Settling` follows success backwards: at the
  plan, what a refresh without complaint has found is what the state says; a deployment that
  was made and read without complaint is of the block. The gateway adds `Naming` (which
  names its contracts need), the cluster `Once` (no vm runs twice unless a deployment
  was left half done).
* `DeploymentProofs!CancelsNoWanted`: `CancelsOnlyUnwanted`, an action property. `Housed`: the saved id is of
  a contract on the saved node, or of none. A cancellation that fails in an update breaks it
  (`CancelOldFails`, the second behaviour of section 7), and nothing else does.

### The local state

* `LocalStateProofs!TypeCorrect`, and `RecordIsHandedOn`: `[]HandedOn`. The inductive invariant says that
  processes take turns, that what is deployed is in the map of the one that serves and
  in the file before and after. `TypeOK` itself says that whoever serves has a map, not nil.

### Only model-checked

All liveness (`Terminates`, `RemovalCompletes`, `ShrinkCompletes`, `MoveCompletes`), which rests on
fairness and `ENABLED`, beyond the prover; and the violations of section 7. No theorem needs a
recursive operator or an induction over data.

## 6. What is assumed of code outside the repository

The grid client, TFChain, the grid proxy, the farmer bots and Terraform are not in
`src/`; they are modelled from how it uses them and from `wiki/internals.md`.

* Terraform saves as `internals.md` lines 11-31 say, refreshes before it plans an update
  or a delete, and replaces what is tainted.
* The grid proxy lists by node id, reports the grid of that moment, and filters as asked.
* `Deploy` creates or changes a contract on each node, and on failure reverts unless the
  revert fails; it leaves out ids of contracts that are gone, and keeps or chooses the
  access node. `Sync` finds a contract that is gone and gives it the id 0. `Cancel`
  needs the chain and no node. `InvalidateBrokenAttributes` forgets contracts that are
  gone and leaves `public_node_id` alone (were it cleared,
  nothing more would be planned for an access node that is gone). `ReadNodesConfig` needs every node.
* `K8sDeployer.Validate` needs the chain and every node of the cluster, the node 0 of a blank
  master included, which never answers. `UpdateFromRemote` needs every node that has a
  contract, and finds the vms that run there.
* `GatewayNameDeployer.Deploy` makes a name contract when the resource has no live one, and the chain
  gives a name once. `Cancel` ends all contracts of the resource. The name of a gateway does
  not change.
* In an apply Terraform calls the handler of a resource after those of the resources it refers
  to, and in a destroy before them. A reference to a key that a map does not have is an error.
* A farmer bot answers with a node that suits the message it was sent.

Data is abstract: a deployment's contents, a network's subnets and a request's name are
opaque values. Formatting, parsing, validation of the schema and logging are left out.

## 7. Where the code and its documents disagree

Each is a run that ends in a violation, with the quoted line in `PROJECT.json`.

* `public_ips`: `consumePublicIPs` (`scheduler.go:42`) lowers a copy, so two requests get one
  free IP.
* `scheduler_update`: an update that fails saves the new requests beside the old nodes, and
  nothing is left to apply (`resource_scheduler.go:168`).
* `kubernetes_master_lost`: the contract of the master ends and that of a worker does not; the next
  refresh dereferences the nil master (`k8s.go:103`) and the provider panics.
* `kubernetes_seed`: a worker is stored with the seed of the master (`k8s.go:103`); a block that
  then asks for that seed is taken to have it.
* `gateway_stuck`: malformed backends of a failed update are saved, and every refresh, and so
  every apply and destroy, fails on them until the state is edited (`gateway_name.go:44`).

Met while modelling and without a run of its own; the first six are behaviours of the models, which the
properties name where they need them as exceptions:

* A create whose `Deploy` fails and is not reverted returns without an id, and loses what was
  deployed (`resource_deployment.go:487`, `resource_k8s.go:316`, `resource_gateway_name.go:99`,
  `resource_gateway_fqdn.go:97`), although `wiki/internals.md:63` says that the id is set "in case
  of a revert failure". Only the network does as it says (`resource_network.go:320`). A create of
  a deployment or a gateway whose `Sync` fails (`resource_deployment.go:490`), and one of a cluster
  whose contracts cannot be read back (`resource_k8s.go:320`), lose theirs too. `TidyFaults` of each
  `ContractsTracked` leaves these faults out.
* Data that the schema lets pass and the load refuses is saved by the update that fails on it
  (`wiki/internals.md:26`), and every later refresh, update and delete fails on it too, as with the
  backends of `gateway_stuck`: the mycelium seed of a vm (`deployment.go:47`), those of a cluster
  (`k8s.go:24` and `k8s.go:41`), and the `mycelium_keys` of a network (`resource_network.go:149`).
  This is `LoadFails`. `wiki/internals.md:50` says that reading raises no error in any case, so that
  updating and deleting stay possible; `RemovalCompletes` and `ShrinkCompletes` hold only of
  well-formed saved data.
* An update of a deployment that cannot cancel the old contract saves the new node beside the old
  id, and no later plan sees a change of node (`resource_deployment.go:542`; `HeldOnItsNode` shows that
  a deployment placed by a scheduler is not exposed). A gateway whose move fails, and whose old node
  is down at the next refresh, is likewise moved on paper only (`MovedOnPaper`).
* Nothing is planned for a contract of an access node (`resource_network.go:239`) or of a name
  (`gateway_name.go:105`) that is gone. A name contract that a failed create has lost blocks the
  name for the next one.
* A cluster with a node that is down can be neither refreshed nor destroyed (`resource_k8s.go:375`),
  nor can one that was stored with a blank master. A vm that a half-done update leaves
  on its old node runs twice, and is read once.
* A first process in debug mode leaves a `state.json` that no later one can load
  (`file_state.go:41`): `LoadFails`.
* An assignment of the scheduler reserves nothing: a later apply may place another request in the
  same capacity before the first is deployed (`resource_scheduler.go:167`).
* After an update of the scheduler that failed, a deployment that refers to the missing name
  cannot be planned, and the scheduler is not planned either.
* A request that is not distinct may get the node of an earlier distinct one
  (`docs/resources/scheduler.md:39` can be read either way).
* A demand below a gigabyte reaches a farmer bot as none (`farmer_bot.go:74`), and the timeout
  given to the bot's RMB call is 40 nanoseconds (`farmer_bot.go:18`).
* Two aliases of the provider overwrite each other's networks in `state.json` (`main.go:58`).

## 8. What is not modelled

The options of the provider (parsed once, into the grid client), the Terraform modules under
`modules/`, the examples and the integration tests have no behaviour of their own that a
model could add to. `LocalFileState.Delete` has no caller.
