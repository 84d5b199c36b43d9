-------------------------- MODULE KubernetesProofs --------------------------
(***************************************************************************)
(* Theorems about the kubernetes resource, for every finite set of nodes,  *)
(* every set of clusters, every number of contracts, every set of faults   *)
(* and every sequence of applies.                                          *)
(***************************************************************************)
EXTENDS KubernetesResource, RankProofs, TLAPS

ClusterIds == PartialFn(Node, 1..MaxContract)
ClusterVms == PartialFn(Vm, Place)
Contract == [node : Node, vms : PartialFn(Vm, Seed)]

----------------------------------------------------------------------------
(* Operators *)

\* A partial function is a function on its domain.
LEMMA PartialFnDef ==
  ASSUME NEW D, NEW R, NEW f
  PROVE  f \in PartialFn(D, R) <=> DOMAIN f \subseteq D /\ f \in [DOMAIN f -> R]
BY DEF PartialFn

LEMMA IdsDef ==
  ASSUME NEW f
  PROVE  f \in ClusterIds <=> DOMAIN f \subseteq Node /\ f \in [DOMAIN f -> 1..MaxContract]
BY PartialFnDef DEF ClusterIds

LEMMA VmsDef ==
  ASSUME NEW f
  PROVE  f \in ClusterVms <=> DOMAIN f \subseteq Vm /\ f \in [DOMAIN f -> Place]
BY PartialFnDef DEF ClusterVms

LEMMA ClusterDef ==
  /\ \A k \in K8sCluster : k.vms \in ClusterVms /\ k.ids \in ClusterIds
  /\ \A f \in ClusterVms, g \in ClusterIds : [vms |-> f, ids |-> g] \in K8sCluster
BY DEF K8sCluster, ClusterVms, ClusterIds

LEMMA NothingType == Nothing \in ClusterIds /\ Nothing \in ClusterVms /\ NoCluster \in K8sCluster
<1>1. DOMAIN Nothing = {} /\ \A R : Nothing \in [{} -> R]
  BY DEF Nothing
<1>2. Nothing \in ClusterIds /\ Nothing \in ClusterVms
  BY <1>1, IdsDef, VmsDef
<1> QED
  BY <1>2, ClusterDef DEF NoCluster

LEMMA LiveType ==
  ASSUME NEW ids \in ClusterIds
  PROVE  /\ Live(ids) \in ClusterIds
         /\ DOMAIN Live(ids) = {n \in DOMAIN ids : ids[n] \in DOMAIN chain}
         /\ \A n \in DOMAIN Live(ids) : Live(ids)[n] = ids[n]
<1>1. /\ DOMAIN Live(ids) = {n \in DOMAIN ids : ids[n] \in DOMAIN chain}
      /\ \A n \in DOMAIN Live(ids) : Live(ids)[n] = ids[n]
  BY DEF Live
<1>2. ids \in [DOMAIN ids -> 1..MaxContract] /\ DOMAIN ids \subseteq Node
  BY IdsDef
<1>3. Live(ids) \in [DOMAIN Live(ids) -> 1..MaxContract] /\ DOMAIN Live(ids) \subseteq Node
  BY <1>1, <1>2 DEF Live
<1> QED
  BY <1>1, <1>3, IdsDef

\* A cluster is on nodes.
LEMMA TargetsType ==
  ASSUME kc \in K8sCluster
  PROVE  Targets \subseteq Node
BY ClusterDef, VmsDef DEF Targets, Nodes, Place

\* What a node is asked to run.
LEMMA WantedType ==
  ASSUME kc \in K8sCluster, NEW n \in Node
  PROVE  /\ Wanted(n) \in Contract /\ Wanted(n).node = n
         /\ DOMAIN Wanted(n).vms = {v \in DOMAIN kc.vms : kc.vms[v].node = n}
<1> DEFINE here == {v \in DOMAIN kc.vms : kc.vms[v].node = n}
           vms == [v \in here |-> kc.vms[v].seed]
<1>1. DOMAIN kc.vms \subseteq Vm /\ \A v \in DOMAIN kc.vms : kc.vms[v] \in Place
  BY ClusterDef, VmsDef
<1>2. \A v \in here : kc.vms[v].seed \in Seed
  BY <1>1 DEF Place
<1>3. vms \in [here -> Seed] /\ DOMAIN vms = here /\ here \subseteq Vm
  BY <1>1, <1>2
<1>4. Wanted(n) = [node |-> n, vms |-> vms]
  BY DEF Wanted
<1> HIDE DEF vms
<1>5. vms \in PartialFn(Vm, Seed)
  BY <1>3, PartialFnDef
<1> QED
  BY <1>3, <1>4, <1>5 DEF Contract

\* What is stored of a cluster is where it was and has the contracts it had.
LEMMA StoredType ==
  ASSUME NEW k \in K8sCluster, ~StorePanics(k)
  PROVE  /\ Stored(k) \in K8sCluster /\ Stored(k).ids = k.ids
         /\ DOMAIN Stored(k).vms = DOMAIN k.vms
         /\ \A v \in DOMAIN k.vms : Stored(k).vms[v].node = k.vms[v].node
<1> DEFINE f == [v \in DOMAIN k.vms |-> [k.vms[v] EXCEPT !.seed = k.vms[Master].seed]]
<1>1. /\ k.vms \in ClusterVms /\ DOMAIN k.vms \subseteq Vm /\ k.ids \in ClusterIds
      /\ \A v \in DOMAIN k.vms : k.vms[v] \in Place
  BY ClusterDef, VmsDef
<1>2. Master \in DOMAIN k.vms \/ DOMAIN k.vms = {}
  BY DEF StorePanics, Nothing
<1>3. \A v \in DOMAIN k.vms : f[v] \in Place /\ f[v].node = k.vms[v].node
  BY <1>1, <1>2 DEF Place
<1>4. f \in ClusterVms /\ DOMAIN f = DOMAIN k.vms
  BY <1>1, <1>3, VmsDef
<1>5. Stored(k) = [k EXCEPT !.vms = f]
  BY DEF Stored
<1> HIDE DEF f
<1>6. Stored(k) \in K8sCluster /\ Stored(k).ids = k.ids /\ Stored(k).vms = f
  BY <1>1, <1>4, <1>5 DEF K8sCluster, ClusterVms
<1> QED
  BY <1>3, <1>4, <1>6

\* What is read of a cluster: the vms its contracts run, where they run them.
LEMMA RemoteType ==
  ASSUME TypeOK, Answers, NEW k \in Remote
  PROVE  /\ k \in K8sCluster /\ k.ids = kc.ids
         /\ \A n \in DOMAIN k.ids : DOMAIN chain[k.ids[n]].vms \subseteq DOMAIN k.vms
         /\ \A v \in DOMAIN k.vms :
              k.vms[v].node \in DOMAIN k.ids /\ v \in DOMAIN chain[k.ids[k.vms[v].node]].vms
<1> DEFINE names == {v \in Vm : \E n \in DOMAIN kc.ids : v \in DOMAIN chain[kc.ids[n]].vms}
<1>1. PICK f \in [names -> Place] :
        /\ k = [kc EXCEPT !.vms = f]
        /\ \A v \in names : \E n \in DOMAIN kc.ids :
             v \in DOMAIN chain[kc.ids[n]].vms /\ f[v] = [node |-> n, seed |-> chain[kc.ids[n]].vms[v]]
  BY DEF Remote
<1>2. ASSUME NEW v \in names
      PROVE  f[v].node \in DOMAIN kc.ids /\ v \in DOMAIN chain[kc.ids[f[v].node]].vms
  <2> HIDE DEF names
  <2>1. PICK n \in DOMAIN kc.ids :
          v \in DOMAIN chain[kc.ids[n]].vms /\ f[v] = [node |-> n, seed |-> chain[kc.ids[n]].vms[v]]
    BY <1>1
  <2>2. f[v].node = n
    BY <2>1
  <2> QED
    BY <2>1, <2>2
<1>3. f \in ClusterVms /\ DOMAIN f = names
  BY <1>1, VmsDef
<1>4. \A n \in DOMAIN kc.ids : DOMAIN chain[kc.ids[n]].vms \subseteq names
  <2>1. \A c \in DOMAIN chain : DOMAIN chain[c].vms \subseteq Vm
    BY PartialFnDef DEF TypeOK
  <2> QED
    BY <2>1 DEF Answers
<1>5. kc \in K8sCluster
  BY DEF TypeOK
<1>6. k \in K8sCluster /\ k.ids = kc.ids /\ k.vms = f
  BY <1>1, <1>3, <1>5 DEF K8sCluster, ClusterVms
<1> HIDE DEF names
<1> QED
  BY <1>2, <1>3, <1>4, <1>6

----------------------------------------------------------------------------
(* Type correctness *)

\* The contracts a cluster knows are on the nodes it knows them for, for as long as
\* they live, and none is yet to come.
Aligned(k, live, new) ==
  \A n \in DOMAIN k.ids :
    k.ids[n] < new /\ (k.ids[n] \in DOMAIN live => live[k.ids[n]].node = n)

TypeInv ==
  /\ TypeOK
  /\ Aligned(kc, chain, next)
  /\ \A s \in saved : Aligned(s, chain, next)

\* What any step does to the chain: contracts end, and those that begin are new.
Onward ==
  /\ next' \in 1..(MaxContract + 1) /\ next <= next' /\ DOMAIN chain' \subseteq 1..(next' - 1)
  /\ \A c \in DOMAIN chain' : chain'[c] \in Contract
  /\ \A c \in DOMAIN chain' : c < next => c \in DOMAIN chain /\ chain'[c].node = chain[c].node

\* A deployment keeps the ids of the contracts it leaves, gives those it makes ids
\* of their own that no contract has had, and has each node run what it should.
LEMMA DeployOnward ==
  ASSUME TypeInv, NEW done, DeployTo(done)
  PROVE  LET ids == IdsAfter(done)
         IN /\ Onward
            /\ [kc EXCEPT !.ids = ids] \in K8sCluster
            /\ DOMAIN ids = (DOMAIN kc.ids \ (done \ Targets)) \cup Created(done)
            /\ \A n \in DOMAIN ids \ Created(done) : ids[n] = kc.ids[n]
            /\ \A n \in DOMAIN ids :
                 ids[n] < next' /\ (ids[n] \in DOMAIN chain' => chain'[ids[n]].node = n)
            /\ \A n \in done \cap Targets :
                 n \in DOMAIN ids /\ ids[n] \in DOMAIN chain' /\ chain'[ids[n]] = Wanted(n)
            /\ \A c \in DOMAIN chain' :
                 \/ \E n \in done \cap Targets : ids[n] = c
                 \/ c \in DOMAIN chain /\ \A n \in DOMAIN kc.ids \cap (done \ Targets) : kc.ids[n] # c
<1> DEFINE ids == IdsAfter(done)
           new == Created(done)
           rank(n) == Cardinality({m \in new : m <= n})
           mine == done \cap Targets
           changed == {ids[n] : n \in mine}
           cancelled == Cancelled(done)
           of(c) == CHOOSE n \in mine : ids[n] = c
<1>1. TypeOK /\ Aligned(kc, chain, next) /\ kc \in K8sCluster /\ kc.ids \in ClusterIds
  BY ClusterDef DEF TypeInv, TypeOK
<1>2. Targets \subseteq Node /\ mine \subseteq Node
  BY <1>1, TargetsType
<1>3. next \in Nat /\ next >= 1 /\ MaxContract \in Nat
  BY <1>1, BoundAssumption DEF TypeOK
<1>4. new \subseteq mine /\ new \in SUBSET Int /\ IsFiniteSet(new) /\ Cardinality(new) \in Nat
  <2>1. new \subseteq mine
    BY DEF Created
  <2>2. new \in SUBSET Node
    BY <1>2, <2>1
  <2>3. IsFiniteSet(new)
    BY <2>2, NodeAssumption, FS_Subset
  <2> HIDE DEF new
  <2>4. new \in SUBSET Int
    BY <2>2, NodeAssumption
  <2>5. Cardinality(new) \in Nat
    BY <2>3, FS_CardinalityType
  <2> QED
    BY <2>1, <2>3, <2>4, <2>5
<1>5. /\ \A n \in new : rank(n) \in 1..Cardinality(new)
      /\ \A m, n \in new : rank(m) = rank(n) => m = n
  BY <1>4, RankRange, RankInjective
<1>6. /\ next' = next + Cardinality(new) /\ next' <= MaxContract + 1
      /\ \A n \in mine \cap DOMAIN kc.ids : kc.ids[n] \in DOMAIN chain
      /\ DOMAIN chain' = (DOMAIN chain \ cancelled) \cup changed
      /\ \A c \in DOMAIN chain' : chain'[c] = IF c \in changed THEN Wanted(of(c)) ELSE chain[c]
  BY DEF DeployTo
<1>7. /\ DOMAIN ids = (DOMAIN kc.ids \ (done \ Targets)) \cup new
      /\ \A n \in DOMAIN ids : ids[n] = IF n \in new THEN next - 1 + rank(n) ELSE kc.ids[n]
  BY DEF IdsAfter
<1>8. mine \subseteq DOMAIN ids /\ \A n \in mine \ new : n \in DOMAIN kc.ids
  BY <1>7 DEF Created
<1>9. /\ \A c \in changed : of(c) \in mine /\ ids[of(c)] = c
      /\ \A n \in mine : ids[n] \in changed
      /\ \A c \in changed : \E n \in mine : ids[n] = c
  OBVIOUS
<1> HIDE DEF ids, rank, of, changed
<1>10. \A c \in DOMAIN chain : c \in Nat /\ c >= 1 /\ c < next
  BY <1>1, <1>3 DEF TypeOK
<1>11. \A n \in new : ids[n] \in Nat /\ ids[n] >= next /\ ids[n] < next'
  BY <1>3, <1>4, <1>5, <1>6, <1>7, <1>8
<1>12. \A n \in mine \ new : /\ ids[n] = kc.ids[n] /\ ids[n] \in DOMAIN chain
                             /\ chain[ids[n]].node = n
  BY <1>1, <1>6, <1>7, <1>8 DEF Aligned
<1>13. \A m, n \in mine : ids[m] = ids[n] => m = n
  <2>1. ASSUME NEW m \in new, NEW n \in new, ids[m] = ids[n] PROVE m = n
    <3>1. rank(m) = rank(n)
      BY <1>3, <1>4, <1>5, <1>7, <1>8, <2>1
    <3> QED
      BY <1>5, <3>1
  <2>2. ASSUME NEW m \in new, NEW n \in mine \ new PROVE ids[m] # ids[n]
    BY <1>3, <1>10, <1>11, <1>12
  <2>3. ASSUME NEW m \in mine \ new, NEW n \in mine \ new, ids[m] = ids[n] PROVE m = n
    BY <1>12, <2>3
  <2> QED
    BY <2>1, <2>2, <2>3
<1>14. \A n \in mine : ids[n] \in DOMAIN chain' /\ chain'[ids[n]] = Wanted(n)
  BY <1>6, <1>9, <1>13
<1>15. \A c \in changed : c \in 1..(next' - 1)
  BY <1>3, <1>4, <1>6, <1>9, <1>10, <1>11, <1>12
<1>16. DOMAIN chain' \subseteq 1..(next' - 1)
  <2>1. \A c \in DOMAIN chain : c \in 1..(next' - 1)
    BY <1>3, <1>4, <1>6, <1>10
  <2> QED
    BY <1>6, <1>15, <2>1
<1>17. \A n \in mine : Wanted(n) \in Contract /\ Wanted(n).node = n
  BY <1>1, <1>2, WantedType
<1>18. \A c \in DOMAIN chain' : chain'[c] \in Contract
  BY <1>1, <1>6, <1>9, <1>17 DEF TypeOK, Contract
<1>19. \A c \in DOMAIN chain' : c < next => c \in DOMAIN chain /\ chain'[c].node = chain[c].node
  <2>1. ASSUME NEW c \in changed, c < next
        PROVE  c \in DOMAIN chain /\ Wanted(of(c)).node = chain[c].node
    <3>1. of(c) \in mine /\ ids[of(c)] = c /\ of(c) \notin new
      BY <1>3, <1>9, <1>11, <2>1
    <3> QED
      BY <1>12, <1>17, <3>1
  <2> QED
    BY <1>6, <2>1
<1>20. Onward
  <2>1. next' \in 1..(MaxContract + 1) /\ next <= next'
    BY <1>3, <1>4, <1>6
  <2> QED
    BY <1>16, <1>18, <1>19, <2>1 DEF Onward
<1>21. \A n \in DOMAIN ids \ mine : ids[n] = kc.ids[n] /\ n \in DOMAIN kc.ids
  BY <1>4, <1>7
<1>22. \A n \in DOMAIN kc.ids : kc.ids[n] \in Nat /\ kc.ids[n] < next /\ kc.ids[n] \in 1..MaxContract
  BY <1>1, <1>3, IdsDef DEF Aligned
<1>23. ASSUME NEW n \in DOMAIN ids
       PROVE  ids[n] < next' /\ (ids[n] \in DOMAIN chain' => chain'[ids[n]].node = n)
  <2>1. CASE n \in mine
    BY <1>3, <1>9, <1>14, <1>15, <1>17, <1>4, <1>6, <2>1
  <2>2. CASE n \notin mine
    <3>1. ids[n] = kc.ids[n] /\ n \in DOMAIN kc.ids /\ kc.ids[n] < next
      BY <1>21, <1>22, <2>2
    <3>2. ids[n] \in DOMAIN chain' => ids[n] \in DOMAIN chain /\ chain'[ids[n]].node = chain[ids[n]].node
      BY <1>19, <3>1
    <3>3. ids[n] \in DOMAIN chain => chain[ids[n]].node = n
      BY <1>1, <3>1 DEF Aligned
    <3>4. ids[n] < next'
      BY <1>3, <1>4, <1>6, <1>22, <3>1
    <3> QED
      BY <3>2, <3>3, <3>4
  <2> QED
    BY <2>1, <2>2
<1>24. ids \in ClusterIds
  <2>1. DOMAIN ids \subseteq Node
    BY <1>1, <1>2, <1>4, <1>7, IdsDef
  <2>2. \A n \in DOMAIN ids : ids[n] \in 1..MaxContract
    BY <1>3, <1>4, <1>6, <1>7, <1>11, <1>22
  <2>3. ids \in [DOMAIN ids -> 1..MaxContract]
    <3>1. ids = [n \in DOMAIN ids |-> ids[n]]
      BY DEF ids, IdsAfter
    <3> QED
      BY <2>2, <3>1
  <2> QED
    BY <2>1, <2>3, IdsDef
<1>25. [kc EXCEPT !.ids = ids] \in K8sCluster
  BY <1>1, <1>24 DEF K8sCluster, ClusterIds
<1>26. ASSUME NEW c \in DOMAIN chain'
       PROVE  \/ \E n \in mine : ids[n] = c
              \/ c \in DOMAIN chain /\ \A n \in DOMAIN kc.ids \cap (done \ Targets) : kc.ids[n] # c
  BY <1>6, <1>9 DEF Cancelled
<1> QED
  BY <1>7, <1>8, <1>14, <1>20, <1>23, <1>25, <1>26 DEF ids

LEMMA FewerOnward ==
  ASSUME TypeOK, UNCHANGED next, DOMAIN chain' \subseteq DOMAIN chain,
         \A c \in DOMAIN chain' : chain'[c] = chain[c]
  PROVE  Onward
BY BoundAssumption DEF TypeOK, Onward, Contract

LEMMA WithoutOnward ==
  ASSUME TypeOK, UNCHANGED next, NEW gone, chain' = Without(gone)
  PROVE  Onward
BY FewerOnward DEF Without

LEMMA StepOnward ==
  ASSUME TypeInv, [Next]_vars
  PROVE  Onward
<1>t. TypeOK
  BY DEF TypeInv
<1>1. CASE UNCHANGED <<chain, next>>
  BY <1>1, <1>t, FewerOnward
<1>2. CASE Deploy \/ DeployFailsUnreverted
  BY <1>2, DeployOnward DEF Deploy, DeployFailsUnreverted
<1>3. CASE CancelDone \/ CancelFails
  BY <1>3, <1>t, WithoutOnward DEF CancelDone, CancelFails
<1>4. CASE Expire
  BY <1>4, <1>t, WithoutOnward DEF Expire
<1>5. CASE Killed
  <2>1. CASE \E done : DeployTo(done)
    BY <2>1, DeployOnward
  <2>2. CASE UNCHANGED next /\ \E gone : chain' = Without(gone)
    BY <1>t, <2>2, WithoutOnward
  <2> QED
    BY <1>1, <1>5, <2>1, <2>2 DEF Killed
<1>6. CASE Edit \/ Refresh \/ Plan \/ Load \/ LoadFails \/ Validate \/ ReadFails \/ Invalidate
           \/ Read \/ ReadPanics \/ DeployFails \/ StoreApplied \/ RemoteFails \/ NodeFlips \/ UNCHANGED vars
  <2>1. UNCHANGED <<chain, next>>
    BY <1>6 DEF Edit, Refresh, Plan, PlanCreate, PlanUpdate, PlanDelete, PlanNothing, Load,
                LoadFails, Validate, ReadFails, Invalidate, Read, ReadRemote, ReadWarns, ReadPanics, DeployFails,
                StoreApplied, RemoteFails, NodeFlips, vars
  <2> QED
    BY <1>1, <2>1
<1> QED
  BY <1>2, <1>3, <1>4, <1>5, <1>6 DEF Next, Call

\* What was known of the contracts stays true.
LEMMA AlignedKept ==
  ASSUME TypeOK, Onward, NEW k \in K8sCluster, Aligned(k, chain, next)
  PROVE  Aligned(k, chain', next')
<1>1. \A n \in DOMAIN k.ids : k.ids[n] \in Nat
  BY ClusterDef, IdsDef, BoundAssumption
<1>2. next \in Nat /\ next' \in Nat /\ next <= next'
  BY BoundAssumption DEF TypeOK, Onward
<1> QED
  BY <1>1, <1>2 DEF Aligned, Onward

\* A step that leaves the handler something well typed to work on, and Terraform
\* something well typed, is well typed.
LEMMA TypeStep ==
  ASSUME TypeInv, Onward, UNCHANGED faults, up' \subseteq Node, config' \in AtMostOne(Clusters),
         saved' \in AtMostOne(K8sCluster), kc' \in K8sCluster,
         \A k \in saved' \cup {kc'} : Aligned(k, chain', next'),
         pc' \in {"idle", "plan", "load", "validate", "invalidate", "remote", "deploy", "cancel"},
         op' \in {"none", "read", "create", "update", "delete"},
         report' \in {"none", "ok", "warned", "failed", "crashed"}
  PROVE  TypeInv'
<1>1. Aligned(kc', chain', next') /\ \A s \in saved' : Aligned(s, chain', next')
  OBVIOUS
<1>2. \A k \in saved' \cup {kc'} :
        \A n \in {m \in DOMAIN k.ids : k.ids[m] \in DOMAIN chain'} : chain'[k.ids[n]].node = n
  BY DEF Aligned
<1>3. \A k \in saved' \cup {kc'} : \A n \in DOMAIN Live(k.ids)' : chain'[k.ids[n]].node = n
  BY <1>2 DEF Live
<1>4. TypeOK'
  BY <1>3 DEF TypeInv, TypeOK, Onward, Contract
<1> QED
  BY <1>1, <1>4 DEF TypeInv

\* The same for a handler that returns.
LEMMA ReturnType ==
  ASSUME TypeInv, Onward, NEW kept, NEW how, Return(kept, how),
         kept \in AtMostOne(K8sCluster), \A s \in kept : Aligned(s, chain', next'),
         how \in {"none", "ok", "warned", "failed", "crashed"},
         UNCHANGED <<faults, up, config>>
  PROVE  TypeInv'
<1>1. kc' = NoCluster /\ NoCluster \in K8sCluster /\ Aligned(NoCluster, chain', next')
  BY NothingType DEF Return, Aligned, NoCluster, Nothing
<1>2. up' \subseteq Node /\ config' \in AtMostOne(Clusters) /\ saved' \in AtMostOne(K8sCluster)
      /\ \A k \in saved' \cup {kc'} : Aligned(k, chain', next')
  BY <1>1 DEF TypeInv, TypeOK, Return
<1>3. pc' = "idle" /\ op' = "none" /\ report' \in {"none", "ok", "warned", "failed", "crashed"}
  BY DEF Return
<1> QED
  BY <1>1, <1>2, <1>3, TypeStep

\* What Terraform has, and what the handler works on, stays well typed.
LEMMA ClustersKept ==
  ASSUME TypeInv, Onward
  PROVE  /\ kc \in K8sCluster /\ Aligned(kc, chain', next')
         /\ saved \in AtMostOne(K8sCluster)
         /\ \A s \in saved : s \in K8sCluster /\ Aligned(s, chain', next')
<1>1. TypeOK /\ kc \in K8sCluster /\ \A s \in saved : s \in K8sCluster
  BY DEF TypeInv, TypeOK, AtMostOne
<1> QED
  BY <1>1, AlignedKept DEF TypeInv, TypeOK

\* And an update that fails leaves the planned vms beside the ids of before.
LEMMA FailType ==
  ASSUME TypeInv, Onward, Fail, UNCHANGED <<faults, up, config>>
  PROVE  TypeInv'
<1> DEFINE paper(s) == [vms |-> kc.vms, ids |-> s.ids]
           kept == {paper(s) : s \in saved}
<1>1. /\ kc \in K8sCluster /\ saved \in AtMostOne(K8sCluster)
      /\ \A s \in saved : s \in K8sCluster /\ Aligned(s, chain', next')
  BY ClustersKept
<1>2. \A s \in saved : paper(s) \in K8sCluster /\ paper(s).ids = s.ids
  BY <1>1, ClusterDef
<1>3. Return(kept, "failed")
  BY DEF Fail
<1> HIDE DEF paper
<1>4. kept \in AtMostOne(K8sCluster)
  BY <1>1, <1>2 DEF AtMostOne
<1>5. \A s \in kept : Aligned(s, chain', next')
  BY <1>1, <1>2 DEF Aligned
<1> HIDE DEF kept
<1> QED
  BY <1>3, <1>4, <1>5, ReturnType

LEMMA InitType == Init => TypeInv
<1> SUFFICES ASSUME Init PROVE TypeInv
  OBVIOUS
<1>1. next \in 1..(MaxContract + 1) /\ DOMAIN chain = {}
  BY BoundAssumption DEF Init, Nothing
<1>2. kc \in K8sCluster /\ DOMAIN kc.ids = {}
  BY NothingType DEF Init, NoCluster, Nothing
<1>3. \A n \in DOMAIN Live(kc.ids) : chain[kc.ids[n]].node = n
  BY <1>2 DEF Live
<1>4. TypeOK
  BY <1>1, <1>2, <1>3 DEF Init, TypeOK, AtMostOne
<1> QED
  BY <1>2, <1>4 DEF Init, TypeInv, Aligned

LEMMA NextType == TypeInv /\ [Next]_vars => TypeInv'
<1> SUFFICES ASSUME TypeInv, [Next]_vars PROVE TypeInv'
  OBVIOUS
<1>o. Onward
  BY StepOnward
<1>f. UNCHANGED faults
  BY DEF Next, vars
<1>k. /\ kc \in K8sCluster /\ Aligned(kc, chain', next')
      /\ saved \in AtMostOne(K8sCluster)
      /\ \A s \in saved : s \in K8sCluster /\ Aligned(s, chain', next')
  BY <1>o, ClustersKept
<1>t. /\ up \subseteq Node /\ config \in AtMostOne(Clusters) /\ TypeOK
      /\ pc \in {"idle", "plan", "load", "validate", "invalidate", "remote", "deploy", "cancel"}
      /\ op \in {"none", "read", "create", "update", "delete"}
      /\ report \in {"none", "ok", "warned", "failed", "crashed"}
      /\ Done \in {"none", "ok", "warned", "failed", "crashed"}
  BY DEF TypeInv, TypeOK, Done
<1>c. \A c \in config : c \in ClusterVms
  BY <1>t, ClusterAssumption DEF AtMostOne, ClusterVms
<1>1. CASE Edit
  BY <1>o, <1>f, <1>k, <1>t, <1>1, TypeStep DEF Edit
<1>2. CASE Refresh
  BY <1>o, <1>f, <1>k, <1>t, <1>2, TypeStep DEF Refresh
<1>3. CASE PlanCreate
  <2>1. PICK c \in config : kc' = [vms |-> c, ids |-> Nothing]
    BY <1>3 DEF PlanCreate
  <2>2. kc' \in K8sCluster /\ kc'.ids = Nothing
    BY <1>c, <2>1, NothingType, ClusterDef
  <2>3. Aligned(kc', chain', next')
    BY <2>2 DEF Aligned, Nothing
  <2> QED
    BY <1>o, <1>f, <1>k, <1>t, <1>3, <2>2, <2>3, TypeStep DEF PlanCreate
<1>4. CASE PlanUpdate
  <2>1. PICK s \in saved, c \in config : kc' = [vms |-> c, ids |-> s.ids]
    BY <1>4 DEF PlanUpdate
  <2>2. kc' \in K8sCluster /\ kc'.ids = s.ids
    BY <1>c, <1>k, <2>1, ClusterDef
  <2>3. Aligned(kc', chain', next')
    BY <1>k, <2>2 DEF Aligned
  <2> QED
    BY <1>o, <1>f, <1>k, <1>t, <1>4, <2>2, <2>3, TypeStep DEF PlanUpdate
<1>5. CASE PlanDelete
  BY <1>o, <1>f, <1>k, <1>t, <1>5, TypeStep DEF PlanDelete
<1>6. CASE PlanNothing
  BY <1>o, <1>f, <1>k, <1>t, <1>6, ReturnType DEF PlanNothing
<1>7. CASE Validate
  BY <1>o, <1>f, <1>k, <1>t, <1>7, TypeStep DEF Validate
<1>8. CASE ReadFails \/ ReadPanics
  BY <1>o, <1>f, <1>k, <1>t, <1>8, ReturnType DEF ReadFails, ReadPanics
<1>9. CASE Invalidate
  <2>1. kc' = [kc EXCEPT !.ids = Live(@)] /\ kc.ids \in ClusterIds
    BY <1>9, <1>k, ClusterDef DEF Invalidate
  <2>2. kc' \in K8sCluster /\ kc'.ids = Live(kc.ids)
    BY <1>k, <2>1, LiveType DEF K8sCluster, ClusterIds
  <2>3. \A n \in DOMAIN kc'.ids : n \in DOMAIN kc.ids /\ kc'.ids[n] = kc.ids[n]
    BY <2>1, <2>2, LiveType
  <2>4. Aligned(kc', chain', next')
    BY <1>k, <2>3 DEF Aligned
  <2> QED
    BY <1>o, <1>f, <1>k, <1>t, <1>9, <2>2, <2>4, TypeStep DEF Invalidate
<1>10. CASE ReadRemote
  <2>1. PICK k \in Remote : ~StorePanics(k) /\ saved' = {Stored(k)}
    BY <1>10 DEF ReadRemote
  <2>2. Stored(k) \in K8sCluster /\ Stored(k).ids = kc.ids
    BY <1>10, <1>t, <2>1, RemoteType, StoredType DEF ReadRemote
  <2>3. saved' \in AtMostOne(K8sCluster) /\ \A s \in saved' : Aligned(s, chain', next')
    BY <1>k, <2>1, <2>2 DEF Aligned, AtMostOne
  <2> QED
    BY <1>o, <1>f, <1>k, <1>t, <1>10, <2>3, TypeStep DEF ReadRemote
<1>11. CASE ReadWarns
  BY <1>o, <1>f, <1>k, <1>t, <1>11, TypeStep DEF ReadWarns
<1>12. CASE Deploy
  <2> DEFINE all == Targets \cup DOMAIN kc.ids
  <2>1. DeployTo(all) /\ kc' = [kc EXCEPT !.ids = IdsAfter(all)]
    BY <1>12 DEF Deploy
  <2> HIDE DEF all
  <2>2. /\ kc' \in K8sCluster
        /\ \A n \in DOMAIN IdsAfter(all) :
             IdsAfter(all)[n] < next' /\
             (IdsAfter(all)[n] \in DOMAIN chain' => chain'[IdsAfter(all)[n]].node = n)
    BY <2>1, DeployOnward
  <2>3. kc'.ids = IdsAfter(all)
    BY <1>k, <2>1 DEF K8sCluster
  <2>4. Aligned(kc', chain', next')
    BY <2>2, <2>3 DEF Aligned
  <2> QED
    BY <1>o, <1>f, <1>k, <1>t, <1>12, <2>2, <2>4, TypeStep DEF Deploy
<1>13. CASE DeployFails \/ DeployFailsUnreverted \/ RemoteFails
  BY <1>o, <1>f, <1>13, FailType DEF DeployFails, DeployFailsUnreverted, RemoteFails
<1>14. CASE StoreApplied
  <2>1. PICK k \in Remote : ~StorePanics(k) /\ Return({Stored(k)}, Done)
    BY <1>14 DEF StoreApplied
  <2>2. Stored(k) \in K8sCluster /\ Stored(k).ids = kc.ids
    BY <1>14, <1>t, <2>1, RemoteType, StoredType DEF StoreApplied
  <2> DEFINE kept == {Stored(k)}
  <2>3. kept \in AtMostOne(K8sCluster) /\ \A s \in kept : Aligned(s, chain', next')
    BY <1>k, <2>2 DEF Aligned, AtMostOne
  <2>4. Return(kept, Done)
    BY <2>1
  <2> HIDE DEF kept
  <2> QED
    BY <1>o, <1>f, <1>t, <1>14, <2>3, <2>4, ReturnType DEF StoreApplied
<1>15. CASE CancelDone
  <2>1. {} \in AtMostOne(K8sCluster)
    BY DEF AtMostOne
  <2> QED
    BY <1>o, <1>f, <1>t, <1>15, <2>1, ReturnType DEF CancelDone
<1>16. CASE CancelFails
  BY <1>o, <1>f, <1>k, <1>16, ReturnType DEF CancelFails
<1>17. CASE NodeFlips
  <2>1. up' \subseteq Node
    BY <1>17, <1>t DEF NodeFlips
  <2> QED
    BY <1>o, <1>f, <1>k, <1>t, <1>17, <2>1, TypeStep DEF NodeFlips
<1>18. CASE Expire
  BY <1>o, <1>f, <1>k, <1>t, <1>18, TypeStep DEF Expire
<1>19. CASE Killed
  BY <1>o, <1>f, <1>k, <1>19, ReturnType DEF Killed
<1>20. CASE UNCHANGED vars
  BY <1>o, <1>f, <1>k, <1>t, <1>20, TypeStep DEF vars
<1>21. CASE Load
  BY <1>o, <1>f, <1>k, <1>t, <1>21, TypeStep DEF Load
<1>22. CASE LoadFails
  <2>1. CASE op \in {"create", "update"}
    BY <1>o, <1>f, <1>22, <2>1, FailType DEF LoadFails
  <2>2. CASE op \notin {"create", "update"}
    BY <1>o, <1>f, <1>k, <1>22, <2>2, ReturnType DEF LoadFails
  <2> QED
    BY <2>1, <2>2
<1> QED
  BY <1>1, <1>2, <1>3, <1>4, <1>5, <1>6, <1>7, <1>8, <1>9, <1>10, <1>11, <1>12, <1>13,
     <1>14, <1>15, <1>16, <1>17, <1>18, <1>19, <1>20, <1>21, <1>22 DEF Next, Plan, Call, Read

\* Every variable keeps its type under all faults: each saved id is the one of a
\* contract on the node it is saved for, for as long as that contract lives, through
\* updates that are made on some nodes and not on others.
THEOREM TypeCorrect == Spec => []TypeOK
<1>1. TypeInv => TypeOK
  BY DEF TypeInv
<1> QED
  BY <1>1, InitType, NextType, PTL DEF Spec

----------------------------------------------------------------------------
(* No contract is lost *)

KnowsAll(k, live) == \A c \in DOMAIN live : \E n \in DOMAIN k.ids : k.ids[n] = c

\* Who knows the live contracts, at each call of each handler, while nothing comes
\* between their making and their storing.
Tracked ==
  /\ ~(pc = "remote" /\ op \in {"create", "update"}) => \A c \in DOMAIN chain : Saved(c)
  /\ pc \notin {"idle", "plan"} => KnowsAll(kc, chain)
  /\ pc = "remote" /\ op \in {"create", "update"} => Answers
  /\ pc \in {"validate", "invalidate"} => op = "read"
  /\ pc = "load" => op \in {"read", "create", "update", "delete"}
  /\ pc = "deploy" => op \in {"create", "update"}

TrackInv == TypeInv /\ (TidyFaults => Tracked)

\* A cluster with the contracts of one that knows them all knows them all.
LEMMA SavedKnows ==
  ASSUME NEW kept, NEW k, NEW s \in kept, s.ids = k.ids, KnowsAll(k, chain'), saved' = kept
  PROVE  \A c \in DOMAIN chain' : Saved(c)'
BY DEF KnowsAll, Saved

LEMMA InitTracked == Init => Tracked
BY DEF Init, Tracked, Nothing

\* A handler that fails keeps the ids that were saved.
LEMMA FailTracked ==
  ASSUME TypeInv, Fail, DOMAIN chain' \subseteq DOMAIN chain, \A c \in DOMAIN chain : Saved(c)
  PROVE  Tracked'
<1>1. ASSUME NEW s \in saved PROVE \E r \in saved' : r.ids = s.ids
  <2>1. [vms |-> kc.vms, ids |-> s.ids] \in saved'
    BY DEF Fail, Return
  <2> QED
    BY <2>1
<1>2. ASSUME NEW c \in DOMAIN chain' PROVE Saved(c)'
  <2>1. PICK s \in saved : \E n \in DOMAIN s.ids : s.ids[n] = c
    BY DEF Saved
  <2>2. PICK r \in saved' : r.ids = s.ids
    BY <1>1
  <2> QED
    BY <2>1, <2>2 DEF Saved
<1> QED
  BY <1>2 DEF Fail, Return, Tracked

\* Between applies, what is saved has every contract.
LEMMA ReturnTracked ==
  ASSUME Return(saved, report'), DOMAIN chain' \subseteq DOMAIN chain, \A c \in DOMAIN chain : Saved(c)
  PROVE  Tracked'
BY DEF Return, Saved, Tracked

\* A deployment that succeeds knows the contracts it leaves and those it makes.
LEMMA DeployKnows ==
  ASSUME TypeInv, Deploy, KnowsAll(kc, chain)
  PROVE  KnowsAll(kc', chain') /\ Answers'
<1> DEFINE all == Targets \cup DOMAIN kc.ids
           ids == IdsAfter(all)
<1>1. DeployTo(all) /\ kc' = [kc EXCEPT !.ids = ids] /\ UNCHANGED up /\ Targets \subseteq up
  BY DEF Deploy, DeployTo
<1>2. all \cap Targets = Targets /\ DOMAIN kc.ids \ (all \ Targets) = DOMAIN kc.ids \cap Targets
      /\ DOMAIN kc.ids \cap (all \ Targets) = DOMAIN kc.ids \ Targets
  OBVIOUS
<1> HIDE DEF all
<1>3. /\ DOMAIN ids = (DOMAIN kc.ids \ (all \ Targets)) \cup Created(all)
      /\ \A n \in DOMAIN ids \ Created(all) : ids[n] = kc.ids[n]
      /\ \A n \in all \cap Targets : n \in DOMAIN ids /\ ids[n] \in DOMAIN chain'
      /\ \A c \in DOMAIN chain' :
           \/ \E n \in all \cap Targets : ids[n] = c
           \/ c \in DOMAIN chain /\ \A n \in DOMAIN kc.ids \cap (all \ Targets) : kc.ids[n] # c
  BY <1>1, DeployOnward
<1>4. kc'.ids = ids
  BY <1>1 DEF TypeInv, TypeOK, K8sCluster
<1> HIDE DEF ids
<1>5. DOMAIN ids = Targets
  BY <1>2, <1>3 DEF Created
<1>6. ASSUME NEW c \in DOMAIN chain' PROVE \E n \in DOMAIN ids : ids[n] = c
  <2>1. CASE \E n \in Targets : ids[n] = c
    BY <1>5, <2>1
  <2>2. CASE c \in DOMAIN chain /\ \A n \in DOMAIN kc.ids \ Targets : kc.ids[n] # c
    <3>1. PICK n \in DOMAIN kc.ids : kc.ids[n] = c
      BY <2>2 DEF KnowsAll
    <3>2. n \in Targets /\ n \notin Created(all)
      BY <2>2, <3>1 DEF Created
    <3> QED
      BY <1>3, <1>5, <3>1, <3>2
  <2> QED
    BY <1>2, <1>3, <2>1, <2>2
<1>7. \A n \in DOMAIN ids : ids[n] \in DOMAIN chain' /\ n \in up'
  BY <1>1, <1>2, <1>3, <1>5
<1> QED
  BY <1>4, <1>6, <1>7 DEF KnowsAll, Answers

LEMMA NextTracked == TidyFaults /\ Tracked /\ TypeInv /\ [Next]_vars => Tracked'
<1> SUFFICES ASSUME TidyFaults, Tracked, TypeInv, [Next]_vars PROVE Tracked'
  OBVIOUS
<1>f. {"revert", "kill", "expire", "down"} \cap faults = {}
  BY DEF TidyFaults
<1>t. TypeOK /\ kc \in K8sCluster /\ kc.ids \in ClusterIds /\ \A s, t \in saved : s = t
  BY ClusterDef DEF TypeInv, TypeOK, AtMostOne
<1>1. CASE Edit
  BY <1>1 DEF Edit, Tracked, Saved
<1>2. CASE Refresh
  BY <1>2, <1>t DEF Refresh, Tracked, Saved, KnowsAll
<1>3. CASE PlanCreate
  BY <1>3 DEF PlanCreate, Tracked, Saved, KnowsAll
<1>4. CASE PlanUpdate
  <2>1. PICK s \in saved : kc'.ids = s.ids
    BY <1>4 DEF PlanUpdate
  <2> QED
    BY <1>4, <1>t, <2>1 DEF PlanUpdate, Tracked, Saved, KnowsAll
<1>5. CASE PlanDelete
  BY <1>5, <1>t DEF PlanDelete, Tracked, Saved, KnowsAll
<1>6. CASE PlanNothing
  BY <1>6, ReturnTracked DEF PlanNothing, Return, Tracked
<1>7. CASE Validate
  BY <1>7 DEF Validate, Tracked, Saved
<1>8. CASE ReadFails \/ ReadPanics
  BY <1>8, ReturnTracked DEF ReadFails, ReadPanics, Return, Tracked
<1>9. CASE Invalidate
  <2>1. kc'.ids = Live(kc.ids)
    BY <1>9, <1>t DEF Invalidate, K8sCluster
  <2>2. KnowsAll(kc, chain)
    BY <1>9 DEF Invalidate, Tracked
  <2>3. KnowsAll(kc', chain)
    BY <1>t, <2>1, <2>2, LiveType DEF KnowsAll
  <2> QED
    BY <1>9, <2>3 DEF Invalidate, Tracked, Saved, KnowsAll
<1>10. CASE ReadRemote
  <2>1. PICK k \in Remote : ~StorePanics(k) /\ saved' = {Stored(k)}
    BY <1>10 DEF ReadRemote
  <2>2. Stored(k).ids = kc.ids
    BY <1>10, <1>t, <2>1, RemoteType, StoredType DEF ReadRemote
  <2>3. KnowsAll(kc, chain')
    BY <1>10 DEF ReadRemote, Tracked
  <2>4. \A c \in DOMAIN chain' : Saved(c)'
    BY <2>1, <2>2, <2>3, SavedKnows
  <2> QED
    BY <1>10, <2>4 DEF ReadRemote, Tracked
<1>11. CASE ReadWarns
  BY <1>11 DEF ReadWarns, Tracked, Saved
<1>12. CASE Deploy
  <2>1. KnowsAll(kc', chain') /\ Answers'
    BY <1>12, DeployKnows DEF Deploy, Tracked
  <2> QED
    BY <1>12, <2>1 DEF Deploy, Tracked
<1>13. CASE DeployFails \/ RemoteFails
  <2>1. ~(pc = "remote" /\ op \in {"create", "update"})
    BY <1>13 DEF DeployFails, RemoteFails, Tracked
  <2> QED
    BY <1>13, <2>1, FailTracked DEF DeployFails, RemoteFails, Tracked
<1>14. CASE StoreApplied
  <2>1. PICK k \in Remote : ~StorePanics(k) /\ Return({Stored(k)}, Done)
    BY <1>14 DEF StoreApplied
  <2>2. Stored(k).ids = kc.ids
    BY <1>14, <1>t, <2>1, RemoteType, StoredType DEF StoreApplied
  <2>3. KnowsAll(kc, chain')
    BY <1>14 DEF StoreApplied, Tracked
  <2>4. \A c \in DOMAIN chain' : Saved(c)'
    BY <2>1, <2>2, <2>3, SavedKnows DEF Return
  <2> QED
    BY <2>1, <2>4 DEF Return, Tracked
<1>15. CASE CancelDone
  <2>1. /\ chain' = [c \in DOMAIN chain \ {kc.ids[n] : n \in DOMAIN kc.ids} |-> chain[c]]
        /\ KnowsAll(kc, chain)
    BY <1>15 DEF CancelDone, Without, Tracked
  <2>2. DOMAIN chain' = {}
    BY <2>1 DEF KnowsAll
  <2> QED
    BY <1>15, <2>2 DEF CancelDone, Return, Tracked
<1>16. CASE CancelFails
  BY <1>16, ReturnTracked DEF CancelFails, Without, Return, Tracked
<1>17. CASE DeployFailsUnreverted \/ NodeFlips \/ Expire \/ Killed
  BY <1>17, <1>f DEF DeployFailsUnreverted, NodeFlips, Expire, Killed
<1>18. CASE UNCHANGED vars
  BY <1>18 DEF vars, Tracked, Saved, Answers
<1>19. CASE Load
  BY <1>19 DEF Load, Tracked, Saved
<1>20. CASE LoadFails
  <2>1. UNCHANGED chain /\ \A c \in DOMAIN chain : Saved(c)
    BY <1>20 DEF LoadFails, Tracked
  <2>2. CASE Fail
    BY <2>1, <2>2, FailTracked
  <2>3. CASE Return(saved, "failed")
    BY <2>1, <2>3, ReturnTracked DEF Return
  <2> QED
    BY <1>20, <2>2, <2>3 DEF LoadFails
<1> QED
  BY <1>1, <1>2, <1>3, <1>4, <1>5, <1>6, <1>7, <1>8, <1>9, <1>10, <1>11, <1>12, <1>13,
     <1>14, <1>15, <1>16, <1>17, <1>18, <1>19, <1>20 DEF Next, Plan, Call, Read

\* No contract of the cluster is lost between applies while no failure comes between
\* the making of a contract and its storing: failed validations, deployments that are
\* reverted and cancellations that stop half way lose none.
THEOREM TracksContracts == Spec => []ContractsTracked
<1>1. Init => TrackInv
  BY InitType, InitTracked DEF TrackInv
<1>2. TrackInv /\ [Next]_vars => TrackInv'
  <2>1. [Next]_vars => (TidyFaults' <=> TidyFaults)
    BY DEF Next, vars, TidyFaults
  <2> QED
    BY <2>1, NextType, NextTracked DEF TrackInv
<1>3. TrackInv => ContractsTracked
  BY DEF TrackInv, Tracked, ContractsTracked
<1> QED
  BY <1>1, <1>2, <1>3, PTL DEF Spec

----------------------------------------------------------------------------
(* What is applied is deployed *)

\* No vm runs under two contracts of the cluster.
Once(k, live) ==
  \A m, n \in DOMAIN k.ids :
    (/\ k.ids[m] \in DOMAIN live /\ k.ids[n] \in DOMAIN live
     /\ \E v \in Vm : v \in DOMAIN live[k.ids[m]].vms /\ v \in DOMAIN live[k.ids[n]].vms)
    => m = n

\* Its contracts all live, and run the vms that it has, where it has them.
Seen(k, live) ==
  /\ \A n \in DOMAIN k.ids :
       k.ids[n] \in DOMAIN live /\ DOMAIN live[k.ids[n]].vms \subseteq DOMAIN k.vms
  /\ \A v \in DOMAIN k.vms :
       k.vms[v].node \in DOMAIN k.ids /\ v \in DOMAIN live[k.ids[k.vms[v].node]].vms

\* What is so on the way to a report.
Settling ==
  /\ pc # "idle" => report \in {"none", "warned"}
  /\ pc = "load" => op \in {"read", "create", "update", "delete"}
  /\ pc = "deploy" => op \in {"create", "update"}
  /\ pc = "deploy" \/ (pc = "load" /\ op \in {"create", "update"})
       => \A s \in saved : s.ids = kc.ids
  /\ pc \in {"validate", "invalidate"} => op = "read"
  /\ pc \in {"load", "deploy", "remote"} /\ op \in {"create", "update"} => kc.vms \in config
  /\ pc = "cancel" \/ (pc = "load" /\ op = "delete") => config = {}
  /\ pc = "remote" /\ op \in {"create", "update"} /\ report = "none" => Seen(kc, chain)
  /\ pc = "plan" /\ report = "none" => \A s \in saved : Seen(s, chain)
  /\ ~HalfDone => Once(kc, chain) /\ \A s \in saved : Once(s, chain)

SettleInv == TypeInv /\ Settling /\ AppliedIsDeployed

LEMMA InitSettled == Init => Settling /\ AppliedIsDeployed
BY DEF Init, Settling, Once, NoCluster, Nothing, AppliedIsDeployed

LEMMA NoClusterOnce == ASSUME NEW live PROVE Once(NoCluster, live)
BY DEF Once, NoCluster, Nothing

\* Contracts that end, or are known by another, run nothing twice that did not.
LEMMA OnceKept ==
  ASSUME NEW k, NEW j, k.ids = j.ids, Once(k, chain), DOMAIN chain' \subseteq DOMAIN chain,
         \A c \in DOMAIN chain' : chain'[c] = chain[c]
  PROVE  Once(j, chain')
BY DEF Once

\* A handler that returns without success settles nothing but that.
LEMMA UnsuccessfulReturn ==
  ASSUME NEW kept, NEW how, Return(kept, how), how # "ok",
         ~HalfDone' => \A s \in kept : Once(s, chain')
  PROVE  Settling' /\ AppliedIsDeployed'
BY NoClusterOnce DEF Return, Settling, AppliedIsDeployed

\* Nor does one that fails.
LEMMA FailSettles ==
  ASSUME Fail, ~HalfDone' => \A s \in saved : Once(s, chain')
  PROVE  Settling' /\ AppliedIsDeployed'
<1> DEFINE paper(s) == [vms |-> kc.vms, ids |-> s.ids]
           kept == {paper(s) : s \in saved}
<1>1. \A s \in saved : paper(s).ids = s.ids
  OBVIOUS
<1>2. Return(kept, "failed")
  BY DEF Fail
<1> HIDE DEF paper
<1>3. ~HalfDone' => \A s \in kept : Once(s, chain')
  BY <1>1 DEF Once
<1> HIDE DEF kept
<1> QED
  BY <1>2, <1>3, UnsuccessfulReturn

\* A deployment that succeeds runs each vm where the cluster has it, and no vm twice:
\* neither by the ids it has made nor by those of before.
LEMMA DeployedSeen ==
  ASSUME TypeInv, Deploy
  PROVE  /\ Seen(kc', chain') /\ Once(kc', chain')
         /\ \A s : s.ids = kc.ids => Once(s, chain')
<1> DEFINE all == Targets \cup DOMAIN kc.ids
           ids == IdsAfter(all)
<1>1. DeployTo(all) /\ kc' = [kc EXCEPT !.ids = ids]
  BY DEF Deploy
<1>2. all \cap Targets = Targets /\ DOMAIN kc.ids \cap (all \ Targets) = DOMAIN kc.ids \ Targets
      /\ DOMAIN kc.ids \ (all \ Targets) = DOMAIN kc.ids \cap Targets
  OBVIOUS
<1> HIDE DEF all
<1>3. /\ DOMAIN ids = (DOMAIN kc.ids \ (all \ Targets)) \cup Created(all)
      /\ \A n \in DOMAIN ids \ Created(all) : ids[n] = kc.ids[n]
      /\ \A n \in all \cap Targets :
           n \in DOMAIN ids /\ ids[n] \in DOMAIN chain' /\ chain'[ids[n]] = Wanted(n)
      /\ \A c \in DOMAIN chain' :
           \/ \E n \in all \cap Targets : ids[n] = c
           \/ c \in DOMAIN chain /\ \A n \in DOMAIN kc.ids \cap (all \ Targets) : kc.ids[n] # c
      /\ \A c \in DOMAIN chain' : c < next => c \in DOMAIN chain /\ chain'[c].node = chain[c].node
  BY <1>1, DeployOnward DEF Onward
<1>4. kc \in K8sCluster /\ Targets \subseteq Node
  BY TargetsType DEF TypeInv, TypeOK
<1>5. kc'.ids = ids /\ kc'.vms = kc.vms
  BY <1>1, <1>4 DEF K8sCluster
<1>6. \A n \in Targets : /\ Wanted(n).node = n
                         /\ DOMAIN Wanted(n).vms = {v \in DOMAIN kc.vms : kc.vms[v].node = n}
  BY <1>4, WantedType
<1> HIDE DEF ids
<1>7. DOMAIN ids = Targets
  BY <1>2, <1>3 DEF Created
<1>8. \A v \in DOMAIN kc.vms : kc.vms[v].node \in Targets
  BY DEF Targets, Nodes
<1>9. Seen(kc', chain')
  BY <1>2, <1>3, <1>5, <1>6, <1>7, <1>8 DEF Seen
<1>10. Once(kc', chain')
  BY <1>2, <1>3, <1>5, <1>6, <1>7 DEF Once
<1>11. ASSUME NEW n \in DOMAIN kc.ids, kc.ids[n] \in DOMAIN chain'
       PROVE  n \in Targets /\ chain'[kc.ids[n]] = Wanted(n)
  <2>1. kc.ids[n] < next /\ (kc.ids[n] \in DOMAIN chain => chain[kc.ids[n]].node = n)
    BY DEF TypeInv, Aligned
  <2>2. chain'[kc.ids[n]].node = n
    BY <1>3, <1>11, <2>1
  <2>3. n \in Targets
    <3>1. CASE \E t \in Targets : ids[t] = kc.ids[n]
      BY <1>2, <1>3, <1>6, <2>2, <3>1
    <3>2. CASE \A t \in DOMAIN kc.ids \ Targets : kc.ids[t] # kc.ids[n]
      BY <3>2
    <3> QED
      BY <1>2, <1>3, <1>11, <3>1, <3>2
  <2>4. ids[n] = kc.ids[n]
    BY <1>3, <1>7, <2>3 DEF Created
  <2> QED
    BY <1>2, <1>3, <2>3, <2>4
<1>12. ASSUME NEW s, s.ids = kc.ids PROVE Once(s, chain')
  BY <1>6, <1>11, <1>12 DEF Once
<1> QED
  BY <1>9, <1>10, <1>12

\* A block whose vms run where it has them, each once, is applied.
LEMMA SeenApplied ==
  ASSUME TypeInv, NEW k \in K8sCluster, Aligned(k, chain, next), Seen(k, chain),
         ~HalfDone => Once(k, chain), config = {k.vms},
         NEW s, s.ids = k.ids, saved' = {s}, UNCHANGED <<chain, config, faults>>
  PROVE  AppliedIsDeployed'
<1>1. \A n \in DOMAIN k.ids : Saved(k.ids[n])'
  BY DEF Saved
<1>2. \A n \in DOMAIN k.ids : k.ids[n] \in DOMAIN chain' /\ chain'[k.ids[n]].node = n
  BY DEF Seen, Aligned
<1>3. ASSUME NEW v \in DOMAIN k.vms PROVE Running(v, k.vms[v].node)'
  <2>1. k.vms[v].node \in DOMAIN k.ids /\ v \in DOMAIN chain'[k.ids[k.vms[v].node]].vms
    BY DEF Seen
  <2> QED
    BY <1>1, <1>2, <2>1 DEF Running
<1>4. ASSUME ~HalfDone, NEW v \in Vm, NEW n \in Node, Running(v, n)'
      PROVE  v \in DOMAIN k.vms /\ k.vms[v].node = n
  <2>1. PICK m \in DOMAIN k.ids : chain'[k.ids[m]].node = n /\ v \in DOMAIN chain'[k.ids[m]].vms
    BY <1>4 DEF Running, Saved
  <2>2. m = n
    BY <1>2, <2>1
  <2>3. v \in DOMAIN k.vms
    BY <2>1 DEF Seen
  <2>4. k.vms[v].node \in DOMAIN k.ids /\ v \in DOMAIN chain[k.ids[k.vms[v].node]].vms
    BY <2>3 DEF Seen
  <2>5. k.vms[v].node = m
    BY <1>2, <1>4, <2>1, <2>4 DEF Once
  <2> QED
    BY <2>2, <2>3, <2>5
<1>5. HalfDone' = HalfDone
  BY DEF HalfDone
<1> QED
  BY <1>3, <1>4, <1>5 DEF AppliedIsDeployed

LEMMA NextSettled == SettleInv /\ [Next]_vars => Settling' /\ AppliedIsDeployed'
<1> SUFFICES ASSUME SettleInv, [Next]_vars PROVE Settling' /\ AppliedIsDeployed'
  OBVIOUS
<1>t. TypeInv /\ TypeOK /\ Settling /\ AppliedIsDeployed
  BY DEF SettleInv, TypeInv
<1>f. faults' = faults /\ HalfDone' = HalfDone
  BY DEF Next, vars, HalfDone
<1>s. /\ \A s, t \in saved : s = t
      /\ \A c, k \in config : c = k
      /\ \A s \in saved : s \in K8sCluster /\ Aligned(s, chain, next)
      /\ kc \in K8sCluster /\ Aligned(kc, chain, next) /\ kc.ids \in ClusterIds
  BY <1>t, ClusterDef DEF TypeInv, TypeOK, AtMostOne
<1>h. ~HalfDone => Once(kc, chain) /\ \A s \in saved : Once(s, chain)
  BY <1>t DEF Settling
<1>m. ~HalfDone /\ DOMAIN chain' \subseteq DOMAIN chain /\ (\A c \in DOMAIN chain' : chain'[c] = chain[c])
        => Once(kc, chain') /\ \A s \in saved : Once(s, chain')
  BY <1>h, OnceKept
<1>1. CASE Edit
  BY <1>1, <1>f, <1>t DEF Edit, Settling, AppliedIsDeployed
<1>2. CASE Refresh
  BY <1>2, <1>f, <1>t DEF Refresh, Settling, AppliedIsDeployed
<1>3. CASE PlanCreate
  <2>1. PICK c \in config : kc' = [vms |-> c, ids |-> Nothing]
    BY <1>3 DEF PlanCreate
  <2>2. Once(kc', chain')
    BY <2>1 DEF Once, Nothing
  <2> QED
    BY <1>3, <1>f, <1>m, <2>1, <2>2 DEF PlanCreate, Settling, AppliedIsDeployed
<1>4. CASE PlanUpdate
  <2>1. PICK s \in saved, c \in config : kc' = [vms |-> c, ids |-> s.ids]
    BY <1>4 DEF PlanUpdate
  <2>2. kc'.ids = s.ids /\ kc'.vms = c /\ (~HalfDone => Once(kc', chain'))
    BY <1>4, <1>h, <2>1 DEF PlanUpdate, Once
  <2> QED
    BY <1>4, <1>f, <1>s, <1>t, <1>m, <2>2 DEF PlanUpdate, Settling, AppliedIsDeployed
<1>5. CASE PlanDelete
  BY <1>5, <1>f, <1>t, <1>m DEF PlanDelete, Settling, AppliedIsDeployed
<1>6. CASE PlanNothing
  <2>1. PICK s \in saved : s.vms \in config
    BY <1>6 DEF PlanNothing
  <2>2. pc = "plan" /\ Return(saved, Done) /\ UNCHANGED <<chain, config>>
    BY <1>6 DEF PlanNothing
  <2>3. saved = {s} /\ config = {s.vms} /\ saved' = saved
    BY <1>s, <2>1, <2>2 DEF Return
  <2>4. CASE report = "none"
    <3>1. Seen(s, chain)
      BY <1>t, <2>2, <2>4 DEF Settling
    <3>2. AppliedIsDeployed'
      BY <1>f, <1>h, <1>s, <1>t, <2>2, <2>3, <3>1, SeenApplied
    <3> QED
      BY <1>f, <1>m, <2>2, <3>2, NoClusterOnce DEF Return, Settling
  <2>5. CASE report = "warned"
    BY <1>f, <1>m, <2>2, <2>5, UnsuccessfulReturn DEF Done
  <2> QED
    BY <1>t, <2>2, <2>4, <2>5 DEF Settling
<1>7. CASE Validate
  BY <1>7, <1>f, <1>t, <1>m DEF Validate, Settling, AppliedIsDeployed
<1>8. CASE ReadFails \/ ReadPanics
  BY <1>8, <1>f, <1>m, UnsuccessfulReturn DEF ReadFails, ReadPanics
<1>9. CASE Invalidate
  <2>1. kc'.ids = Live(kc.ids) /\ kc'.vms = kc.vms /\ UNCHANGED chain
    BY <1>9, <1>s DEF Invalidate, K8sCluster
  <2>2. ~HalfDone => Once(kc', chain')
    <3>1. \A n \in DOMAIN kc'.ids : n \in DOMAIN kc.ids /\ kc'.ids[n] = kc.ids[n]
      BY <1>s, <2>1, LiveType
    <3> QED
      BY <1>m, <2>1, <3>1 DEF Once
  <2>3. op' \notin {"create", "update"}
    BY <1>9, <1>t DEF Invalidate, Settling
  <2> QED
    BY <1>9, <1>f, <1>t, <1>m, <2>1, <2>2, <2>3 DEF Invalidate, Settling, AppliedIsDeployed
<1>10. CASE ReadRemote
  <2>1. PICK k \in Remote : ~StorePanics(k) /\ saved' = {Stored(k)}
    BY <1>10 DEF ReadRemote
  <2>2. Answers /\ UNCHANGED <<chain, config, op, kc, report>> /\ pc' = "plan"
    BY <1>10 DEF ReadRemote
  <2>3. /\ k \in K8sCluster /\ k.ids = kc.ids
        /\ \A n \in DOMAIN k.ids : DOMAIN chain[k.ids[n]].vms \subseteq DOMAIN k.vms
        /\ \A v \in DOMAIN k.vms :
             k.vms[v].node \in DOMAIN k.ids /\ v \in DOMAIN chain[k.ids[k.vms[v].node]].vms
    BY <1>t, <2>2, RemoteType
  <2>4. /\ Stored(k).ids = k.ids /\ DOMAIN Stored(k).vms = DOMAIN k.vms
        /\ \A v \in DOMAIN k.vms : Stored(k).vms[v].node = k.vms[v].node
    BY <2>1, <2>3, StoredType
  <2>5. Seen(Stored(k), chain')
    BY <2>2, <2>3, <2>4 DEF Seen, Answers
  <2>6. ~HalfDone => Once(Stored(k), chain')
    BY <1>m, <2>2, <2>3, <2>4 DEF Once
  <2> QED
    BY <1>10, <1>f, <1>t, <1>m, <2>1, <2>2, <2>5, <2>6 DEF ReadRemote, Settling, AppliedIsDeployed
<1>11. CASE ReadWarns
  BY <1>11, <1>f, <1>t, <1>m DEF ReadWarns, Settling, AppliedIsDeployed
<1>12. CASE Deploy
  <2>1. /\ Seen(kc', chain') /\ Once(kc', chain')
        /\ \A s : s.ids = kc.ids => Once(s, chain')
    BY <1>12, <1>t, DeployedSeen
  <2>2. pc = "deploy" /\ pc' = "remote" /\ kc'.vms = kc.vms /\ UNCHANGED <<config, saved, op, report>>
    BY <1>12, <1>s DEF Deploy, K8sCluster
  <2>3. \A s \in saved : Once(s, chain')
    BY <1>t, <2>1, <2>2 DEF Settling
  <2> QED
    BY <1>t, <2>1, <2>2, <2>3 DEF Settling, AppliedIsDeployed
<1>13. CASE DeployFails \/ RemoteFails
  BY <1>13, <1>f, <1>m, FailSettles DEF DeployFails, RemoteFails
<1>14. CASE DeployFailsUnreverted
  BY <1>14, <1>f, FailSettles DEF DeployFailsUnreverted, HalfDone
<1>15. CASE StoreApplied
  <2>1. PICK k \in Remote : ~StorePanics(k) /\ Return({Stored(k)}, Done)
    BY <1>15 DEF StoreApplied
  <2>2. /\ Answers /\ UNCHANGED <<chain, config>> /\ pc = "remote" /\ op \in {"create", "update"}
    BY <1>15 DEF StoreApplied
  <2>3. Stored(k).ids = kc.ids
    BY <1>t, <2>1, <2>2, RemoteType, StoredType
  <2>4. ~HalfDone => Once(Stored(k), chain')
    BY <1>m, <2>2, <2>3 DEF Once
  <2>5. CASE report = "none"
    <3>1. Seen(kc, chain) /\ config = {kc.vms}
      BY <1>s, <1>t, <2>2, <2>5 DEF Settling
    <3>2. saved' = {Stored(k)}
      BY <2>1 DEF Return
    <3>3. AppliedIsDeployed'
      BY <1>f, <1>h, <1>s, <1>t, <2>2, <2>3, <3>1, <3>2, SeenApplied
    <3> QED
      BY <1>f, <2>1, <2>4, <3>3, NoClusterOnce DEF Return, Settling
  <2>6. CASE report = "warned"
    BY <1>f, <2>1, <2>4, <2>6, UnsuccessfulReturn DEF Done
  <2> QED
    BY <1>t, <2>2, <2>5, <2>6 DEF Settling
<1>16. CASE CancelDone
  <2>1. Return({}, Done) /\ config' = {}
    BY <1>16, <1>t DEF CancelDone, Settling
  <2>2. \A v \in Vm, n \in Node : ~Running(v, n)'
    BY <2>1 DEF Return, Running, Saved
  <2> QED
    BY <2>1, <2>2, NoClusterOnce DEF Return, Settling, AppliedIsDeployed
<1>17. CASE CancelFails
  BY <1>17, <1>f, <1>m, UnsuccessfulReturn DEF CancelFails, Without
<1>18. CASE NodeFlips
  BY <1>18, <1>f, <1>t DEF NodeFlips, Settling, AppliedIsDeployed, Running, Saved
<1>19. CASE Expire
  <2>1. /\ DOMAIN chain' \subseteq DOMAIN chain /\ \A c \in DOMAIN chain' : chain'[c] = chain[c]
        /\ report' = IF pc = "idle" THEN "none" ELSE "warned"
        /\ UNCHANGED <<config, saved, pc, op, kc>>
    BY <1>19 DEF Expire, Without
  <2> QED
    BY <1>f, <1>t, <1>m, <2>1 DEF Settling, AppliedIsDeployed
<1>20. CASE Killed
  BY <1>20, <1>f, UnsuccessfulReturn DEF Killed, HalfDone
<1>21. CASE UNCHANGED vars
  BY <1>21, <1>f, <1>t DEF vars, Settling, AppliedIsDeployed, Running, Saved
<1>22. CASE Load
  BY <1>22, <1>f, <1>t, <1>m DEF Load, Settling, AppliedIsDeployed
<1>23. CASE LoadFails
  <2>1. UNCHANGED chain
    BY <1>23 DEF LoadFails
  <2>2. CASE Fail
    BY <1>f, <1>m, <2>1, <2>2, FailSettles
  <2>3. CASE Return(saved, "failed")
    BY <1>f, <1>m, <2>1, <2>3, UnsuccessfulReturn
  <2> QED
    BY <1>23, <2>2, <2>3 DEF LoadFails
<1> QED
  BY <1>1, <1>2, <1>3, <1>4, <1>5, <1>6, <1>7, <1>8, <1>9, <1>10, <1>11, <1>12, <1>13,
     <1>14, <1>15, <1>16, <1>17, <1>18, <1>19, <1>20, <1>21, <1>22, <1>23 DEF Next, Plan, Call, Read

\* An apply that reports neither an error nor a warning leaves each vm of the block
\* running on its node, and nothing else unless a deployment was left half done.
THEOREM AppliedCorrect == Spec => []AppliedIsDeployed
<1>1. Init => SettleInv
  BY InitType, InitSettled DEF SettleInv
<1>2. SettleInv /\ [Next]_vars => SettleInv'
  BY NextType, NextSettled DEF SettleInv
<1>3. SettleInv => AppliedIsDeployed
  BY DEF SettleInv
<1> QED
  BY <1>1, <1>2, <1>3, PTL DEF Spec
============================================================================
