------------------------- MODULE KubernetesResource -------------------------
(***************************************************************************)
(* The grid_kubernetes resource, resource_k8s.go and k8s.go: one block, a  *)
(* master and any number of workers, that stands for a contract on every   *)
(* node the cluster has a vm on, and Terraform around it.                  *)
(*                                                                         *)
(* A handler loads the block (newK8sFromSchema), which fails when a vm has *)
(* a malformed seed, and then calls the grid client.  The calls are one    *)
(* action each; Deploy and Cancel work on several nodes and may stop       *)
(* between two of them.  faults names what may go wrong: "chain" (TFChain  *)
(* does not answer a read), "deploy" and "cancel" (a call fails without a  *)
(* cause of its own), "revert" (a deployment that fails is not reverted),  *)
(* "kill" (Terraform dies inside a call), "expire" (the chain ends a       *)
(* contract) and "down" (nodes go down and come back; some may be down for *)
(* good).                                                                  *)
(***************************************************************************)
EXTENDS Integers, FiniteSets

CONSTANTS
  Node,        \* node ids
  Master,      \* name of the master
  Worker,      \* names of workers
  Seed,        \* seeds of mycelium addresses
  Malformed,   \* those that are not hexadecimal
  Clusters,    \* what the configuration may say
  FaultSets,   \* the sets of failures a behaviour may meet
  MaxContract  \* bound on the contracts created

AllFaults == {"chain", "deploy", "cancel", "revert", "kill", "expire", "down"}

PartialFn(D, R) == UNION {[S -> R] : S \in SUBSET D}
AtMostOne(S) == {{}} \cup {{x} : x \in S}

Vm == Worker \cup {Master}
Place == [node : Node, seed : Seed]

\* workloads.K8sCluster: where its vms are, and NodeDeploymentID.  Without the
\* name Master it has a blank master (&K8sNode{}), or none (nil).
K8sCluster == [vms : PartialFn(Vm, Place), ids : PartialFn(Node, 1..MaxContract)]

ASSUME NodeAssumption == Node \subseteq Nat \ {0} /\ Node # {} /\ IsFiniteSet(Node)
ASSUME NameAssumption == Master \notin Worker
ASSUME SeedAssumption == Malformed \subseteq Seed
ASSUME ClusterAssumption ==
  \A k \in Clusters : k \in PartialFn(Vm, Place) /\ Master \in DOMAIN k
ASSUME FaultAssumption == FaultSets \subseteq SUBSET AllFaults
ASSUME BoundAssumption == MaxContract \in Nat

VARIABLES
  faults,  \* the failures that may happen, chosen at the start
  chain,   \* live contracts: id -> node, and the seed of each vm it runs
  next,    \* id of the next contract
  up,      \* nodes that answer
  config,  \* the block in the configuration: a set of at most one
  saved,   \* what Terraform saved: a set of at most one K8sCluster
  pc,      \* "idle", "plan", or the call the handler is about to make
  op,      \* the handler: "read", "create", "update" or "delete"
  kc,      \* the workloads.K8sCluster the handler works on
  report   \* how the apply went: "none" yet, "ok", "warned", "failed", "crashed"

vars == <<faults, chain, next, up, config, saved, pc, op, kc, report>>

Nothing == [x \in {} |-> 0]
NoCluster == [vms |-> Nothing, ids |-> Nothing]

Nodes(vms) == {vms[v].node : v \in DOMAIN vms}
Live(ids) == [n \in {m \in DOMAIN ids : ids[m] \in DOMAIN chain} |-> ids[n]]
Without(gone) == [c \in DOMAIN chain \ gone |-> chain[c]]

----------------------------------------------------------------------------
(* storeK8sState.  A nil master is stored as a blank one, but not before its *)
(* seed has been read for the first worker.                                  *)
StorePanicsWithoutMaster(k) == Master \notin DOMAIN k.vms
StorePanics(k) == Master \notin DOMAIN k.vms /\ k.vms # Nothing

StoredUnderMaster(k) ==
  IF Master \notin DOMAIN k.vms THEN k
  ELSE [vms |-> k.vms,
        ids |-> [n \in {k.vms[Master].node} |-> k.ids[CHOOSE m \in DOMAIN k.ids : TRUE]]]

\* Every worker is stored with the seed of the master.
Stored(k) ==
  [k EXCEPT !.vms = [v \in DOMAIN k.vms |-> [k.vms[v] EXCEPT !.seed = k.vms[Master].seed]]]

Return(kept, how) ==
  /\ saved' = kept /\ report' = how
  /\ pc' = "idle" /\ op' = "none" /\ kc' = NoCluster

Done == IF report = "none" THEN "ok" ELSE report

\* An error of a create or an update.  The handler has set nothing: a create
\* leaves no resource, an update the planned vms beside the ids of before.
Fail == Return({[vms |-> kc.vms, ids |-> s.ids] : s \in saved}, "failed")

----------------------------------------------------------------------------
(* Terraform *)

Edit ==
  /\ pc = "idle"
  /\ config' \in AtMostOne(Clusters) \ {config}
  /\ report' = "none"
  /\ UNCHANGED <<chain, next, up, saved, pc, op, kc>>

\* resourceK8sRead of what is saved.
Refresh ==
  /\ pc = "idle"
  /\ \E s \in saved : kc' = s
  /\ pc' = "load" /\ op' = "read" /\ report' = "none"
  /\ UNCHANGED <<chain, next, up, config, saved>>

PlanCreate ==
  /\ pc = "idle" /\ saved = {}
  /\ \E c \in config : kc' = [vms |-> c, ids |-> Nothing]
  /\ pc' = "load" /\ op' = "create" /\ report' = "none"
  /\ UNCHANGED <<chain, next, up, config, saved>>

PlanUpdate ==
  /\ pc = "plan"
  /\ \E s \in saved, c \in config : c # s.vms /\ kc' = [vms |-> c, ids |-> s.ids]
  /\ pc' = "load" /\ op' = "update"
  /\ UNCHANGED <<chain, next, up, config, saved, report>>

PlanDelete ==
  /\ pc = "plan" /\ config = {}
  /\ \E s \in saved : kc' = s
  /\ pc' = "load" /\ op' = "delete"
  /\ UNCHANGED <<chain, next, up, config, saved, report>>

PlanNothing ==
  /\ pc = "plan"
  /\ \E s \in saved : s.vms \in config
  /\ Return(saved, Done)
  /\ UNCHANGED <<chain, next, up, config>>

----------------------------------------------------------------------------
(* newK8sFromSchema, in every handler *)

Loads(vms) == \A v \in DOMAIN vms : vms[v].seed \notin Malformed

Load ==
  /\ pc = "load" /\ Loads(kc.vms)
  /\ pc' = CASE op = "read" -> "validate" [] op = "delete" -> "cancel" [] OTHER -> "deploy"
  /\ UNCHANGED <<chain, next, up, config, saved, op, kc, report>>

\* Its error is the error of the handler.
LoadFails ==
  /\ pc = "load" /\ ~Loads(kc.vms)
  /\ IF op \in {"create", "update"} THEN Fail ELSE Return(saved, "failed")
  /\ UNCHANGED <<chain, next, up, config>>

----------------------------------------------------------------------------
(* resourceK8sRead *)

\* K8sDeployer.Validate asks whether the nodes of the cluster are up.  The node
\* of a blank master, 0, is not.
Validates == Master \in DOMAIN kc.vms /\ Nodes(kc.vms) \subseteq up

Validate ==
  /\ pc = "validate" /\ Validates
  /\ pc' = "invalidate"
  /\ UNCHANGED <<chain, next, up, config, saved, op, kc, report>>

\* Its error is returned, and so is that of InvalidateBrokenAttributes: the
\* refresh fails, and the apply with it.
ReadFails ==
  /\ \/ pc = "validate" /\ (~Validates \/ "chain" \in faults)
     \/ pc = "invalidate" /\ "chain" \in faults
  /\ Return(saved, "failed")
  /\ UNCHANGED <<chain, next, up, config>>

\* InvalidateBrokenAttributes forgets the contracts the chain does not have.
Invalidate ==
  /\ pc = "invalidate"
  /\ kc' = [kc EXCEPT !.ids = Live(@)]
  /\ pc' = "remote"
  /\ UNCHANGED <<chain, next, up, config, saved, op, report>>

\* K8sDeployer.UpdateFromRemote rebuilds the cluster from its contracts.  Where
\* two of them run a vm of one name, either may be taken.
Answers == \A n \in DOMAIN kc.ids : kc.ids[n] \in DOMAIN chain /\ n \in up

Remote ==
  LET Runs(n, v) == v \in DOMAIN chain[kc.ids[n]].vms
      names == {v \in Vm : \E n \in DOMAIN kc.ids : Runs(n, v)}
  IN {[kc EXCEPT !.vms = f] : f \in
        {f \in [names -> Place] : \A v \in names :
           \E n \in DOMAIN kc.ids :
             Runs(n, v) /\ f[v] = [node |-> n, seed |-> chain[kc.ids[n]].vms[v]]}}

ReadRemote ==
  /\ pc = "remote" /\ op = "read" /\ Answers
  /\ \E k \in Remote : ~StorePanics(k) /\ saved' = {Stored(k)}
  /\ pc' = "plan"
  /\ UNCHANGED <<chain, next, up, config, op, kc, report>>

\* A refresh that panics ends the provider; Terraform keeps what it had.
ReadPanics ==
  /\ pc = "remote" /\ op = "read" /\ Answers
  /\ \E k \in Remote : StorePanics(k)
  /\ Return(saved, "crashed")
  /\ UNCHANGED <<chain, next, up, config>>

ReadWarnsNobody ==
  /\ pc = "remote" /\ op = "read" /\ ~Answers
  /\ pc' = "plan"
  /\ UNCHANGED <<chain, next, up, config, saved, op, kc, report>>

\* The error of UpdateFromRemote is a warning.
ReadWarns ==
  /\ pc = "remote" /\ op = "read" /\ ~Answers
  /\ pc' = "plan" /\ report' = "warned"
  /\ UNCHANGED <<chain, next, up, config, saved, op, kc>>

----------------------------------------------------------------------------
(* resourceK8sCreate and resourceK8sUpdate *)

(* K8sDeployer.Deploy: the contracts on nodes the cluster left are cancelled, *)
(* those on its nodes changed or created.  done: the nodes where it is done.  *)
Targets == Nodes(kc.vms)
Created(done) == (done \cap Targets) \ DOMAIN kc.ids
Cancelled(done) == {kc.ids[n] : n \in (done \cap DOMAIN kc.ids) \ Targets}

IdsAfter(done) ==
  [n \in (DOMAIN kc.ids \ (done \ Targets)) \cup Created(done) |->
     IF n \in Created(done)
     THEN next - 1 + Cardinality({m \in Created(done) : m <= n}) ELSE kc.ids[n]]

Wanted(n) ==
  [node |-> n, vms |-> [v \in {w \in DOMAIN kc.vms : kc.vms[w].node = n} |-> kc.vms[v].seed]]

DeployTo(done) ==
  LET ids == IdsAfter(done)
      changed == {ids[n] : n \in done \cap Targets}
  IN /\ done \cap Targets \subseteq up
     /\ \A n \in done \cap Targets \cap DOMAIN kc.ids : kc.ids[n] \in DOMAIN chain
     /\ next + Cardinality(Created(done)) <= MaxContract + 1
     /\ next' = next + Cardinality(Created(done))
     /\ chain' = [c \in (DOMAIN chain \ Cancelled(done)) \cup changed |->
                    IF c \in changed THEN Wanted(CHOOSE n \in done \cap Targets : ids[n] = c)
                    ELSE chain[c]]

Deploy ==
  LET all == Targets \cup DOMAIN kc.ids
  IN /\ pc = "deploy"
     /\ DeployTo(all)
     /\ kc' = [kc EXCEPT !.ids = IdsAfter(all)]
     /\ pc' = "remote"
     /\ UNCHANGED <<up, config, saved, op, report>>

\* Deploy fails and nothing was done, or all of it reverted.
DeployFails ==
  /\ pc = "deploy"
  /\ \/ "deploy" \in faults
     \/ ~(Targets \subseteq up)
     \/ \E n \in Targets \cap DOMAIN kc.ids : kc.ids[n] \notin DOMAIN chain
     \/ next + Cardinality(Created(Targets)) > MaxContract + 1
  /\ Fail
  /\ UNCHANGED <<chain, next, up, config>>

DeployFailsUnreverted ==
  /\ pc = "deploy" /\ "revert" \in faults
  /\ \E done \in SUBSET (Targets \cup DOMAIN kc.ids) : DeployTo(done)
  /\ Fail
  /\ UNCHANGED <<up, config>>

\* UpdateFromRemote and storeK8sState; a create gets its UUID.
StoreApplied ==
  /\ pc = "remote" /\ op \in {"create", "update"} /\ Answers
  /\ \E k \in Remote : ~StorePanics(k) /\ Return({Stored(k)}, Done)
  /\ UNCHANGED <<chain, next, up, config>>

\* The contracts Deploy has just made are in no state.
RemoteFails ==
  /\ pc = "remote" /\ op \in {"create", "update"} /\ ~Answers
  /\ Fail
  /\ UNCHANGED <<chain, next, up, config>>

----------------------------------------------------------------------------
(* resourceK8sDelete *)

CancelIgnoringErrors ==
  /\ pc = "cancel"
  /\ \/ chain' = Without({kc.ids[n] : n \in DOMAIN kc.ids})
     \/ "cancel" \in faults /\ UNCHANGED chain
  /\ Return({}, Done)
  /\ UNCHANGED <<next, up, config>>

CancelDone ==
  /\ pc = "cancel"
  /\ chain' = Without({kc.ids[n] : n \in DOMAIN kc.ids})
  /\ Return({}, Done)
  /\ UNCHANGED <<next, up, config>>

\* Cancel stops at a contract it cannot cancel; Terraform keeps what it had.
CancelFails ==
  /\ pc = "cancel" /\ "cancel" \in faults
  /\ \E gone \in (SUBSET DOMAIN kc.ids) \ {DOMAIN kc.ids} :
       chain' = Without({kc.ids[n] : n \in gone})
  /\ Return(saved, "failed")
  /\ UNCHANGED <<next, up, config>>

----------------------------------------------------------------------------
(* The rest of the world *)

NodeFlips ==
  /\ "down" \in faults
  /\ \E n \in Node : up' = IF n \in up THEN up \ {n} ELSE up \cup {n}
  /\ UNCHANGED <<chain, next, config, saved, pc, op, kc, report>>

Expire ==
  /\ "expire" \in faults
  /\ \E c \in DOMAIN chain : chain' = Without({c})
  /\ report' = IF pc = "idle" THEN "none" ELSE "warned"
  /\ UNCHANGED <<next, up, config, saved, pc, op, kc>>

\* Terraform dies inside a call, whatever that call has done by then.  (To die while
\* it loads the block is to die before.)
Killed ==
  /\ pc \notin {"idle", "load"} /\ "kill" \in faults
  /\ \/ UNCHANGED <<chain, next>>
     \/ pc = "deploy" /\ \E done \in SUBSET (Targets \cup DOMAIN kc.ids) : DeployTo(done)
     \/ /\ pc = "cancel" /\ UNCHANGED next
        /\ \E gone \in SUBSET DOMAIN kc.ids : chain' = Without({kc.ids[n] : n \in gone})
  /\ Return(saved, "failed")
  /\ UNCHANGED <<up, config>>

Plan == PlanCreate \/ PlanUpdate \/ PlanDelete \/ PlanNothing
Read == ReadRemote \/ ReadWarns

Call ==
  \/ Load \/ LoadFails \/ Validate \/ ReadFails \/ Invalidate \/ Read \/ ReadPanics
  \/ Deploy \/ DeployFails \/ DeployFailsUnreverted \/ StoreApplied \/ RemoteFails
  \/ CancelDone \/ CancelFails

Next ==
  /\ Edit \/ Refresh \/ Plan \/ Call \/ NodeFlips \/ Expire \/ Killed
  /\ UNCHANGED faults

Init ==
  /\ faults \in FaultSets
  /\ chain = Nothing /\ next = 1
  /\ up \in SUBSET Node
  /\ config \in AtMostOne(Clusters)
  /\ saved = {}
  /\ pc = "idle" /\ op = "none" /\ kc = NoCluster /\ report = "none"

Spec == Init /\ [][Next]_vars

Keep(A) == A /\ UNCHANGED faults

\* The user applies again and again, not every apply is killed, and no call to
\* the chain or to nodes that answer fails for ever.
FairSpec ==
  /\ Spec
  /\ WF_vars(Keep(Refresh)) /\ SF_vars(Keep(Plan)) /\ WF_vars(Keep(Load))
  /\ SF_vars(Keep(Validate)) /\ SF_vars(Keep(Invalidate)) /\ SF_vars(Keep(Read))
  /\ SF_vars(Keep(CancelDone))

----------------------------------------------------------------------------
(* Properties *)

\* Types of every variable; contracts have the ids the chain has given out, and
\* each saved id is the one of a contract on the node it is saved for, for as
\* long as that contract lives (internals.md:37: "a map from a node id to a
\* deployment id").
TypeOK ==
  /\ faults \in FaultSets
  /\ DOMAIN chain \subseteq 1..(next - 1)
  /\ \A c \in DOMAIN chain : chain[c] \in [node : Node, vms : PartialFn(Vm, Seed)]
  /\ next \in 1..(MaxContract + 1)
  /\ up \subseteq Node
  /\ config \in AtMostOne(Clusters)
  /\ saved \in AtMostOne(K8sCluster)
  /\ pc \in {"idle", "plan", "load", "validate", "invalidate", "remote", "deploy", "cancel"}
  /\ op \in {"none", "read", "create", "update", "delete"}
  /\ kc \in K8sCluster
  /\ report \in {"none", "ok", "warned", "failed", "crashed"}
  /\ \A k \in saved \cup {kc} : \A n \in DOMAIN Live(k.ids) : chain[k.ids[n]].node = n

Saved(c) == \E s \in saved : \E n \in DOMAIN s.ids : s.ids[n] = c
Running(v, n) == \E c \in DOMAIN chain : Saved(c) /\ chain[c].node = n /\ v \in DOMAIN chain[c].vms

\* After an apply that reported neither an error nor a warning, each vm of the
\* block runs on the node the block gives it, under a saved contract, and no saved
\* contract runs another vm, unless a deployment was left half done: then a vm may
\* run twice, and a read finds it once.  A block that is gone has no resource left.
HalfDone == faults \cap {"revert", "kill"} # {}

AppliedIsDeployed ==
  pc = "idle" /\ report = "ok" =>
    /\ \A k \in config : \A v \in DOMAIN k : Running(v, k[v].node)
    /\ ~HalfDone =>
         \A v \in Vm, n \in Node :
           Running(v, n) => \E k \in config : v \in DOMAIN k /\ k[v].node = n
    /\ config = {} => saved = {}

\* Between applies no contract runs that is not saved, as long as no failure
\* comes between the making of a contract and its storing: failed validations,
\* deployments that are reverted and cancellations that stop half way lose none.
\* A revert that fails is such a failure: a create sets no id then
\* (resource_k8s.go:316-318, where internals.md:63 wants it set).
TidyFaults == faults \cap {"revert", "kill", "expire", "down"} = {}

ContractsTracked ==
  TidyFaults /\ pc = "idle" => \A c \in DOMAIN chain : Saved(c)

\* A block that is removed for good ends up without a resource, once its nodes
\* answer for good, unless a refresh meets a worker whose master is gone, or has
\* stored a blank master, or a failed update has saved a malformed seed
\* (internals.md:26), with which no read and no delete gets past newK8sFromSchema.
\* A cluster whose contracts have all gone is removed too.
HasMaster(k) ==
  /\ Master \in DOMAIN k.vms
  /\ DOMAIN Live(k.ids) # {} =>
       \E n \in DOMAIN Live(k.ids) : Master \in DOMAIN chain[k.ids[n]].vms

RemovalCompletes ==
  <>[](config = {} /\ up = Node /\ \A s \in saved : HasMaster(s) /\ Loads(s.vms))
    => []<>(saved = {})

\* Reading does not raise an error in any case (internals.md:50); at the least
\* it does not end the provider.
ReadSurvives == report # "crashed"

\* After an apply that reported neither an error nor a warning, each vm runs with
\* the seed the block gives it: "Mycelium seed used to get the same mycelium ip for
\* k8s worker" (resource_k8s.go:270).
SeedsApplied ==
  pc = "idle" /\ report = "ok" =>
    \A k \in config : \A v \in DOMAIN k :
      \E c \in DOMAIN chain :
        Saved(c) /\ chain[c].node = k[v].node
                 /\ v \in DOMAIN chain[c].vms /\ chain[c].vms[v] = k[v].seed
=============================================================================
