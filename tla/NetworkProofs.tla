--------------------------- MODULE NetworkProofs ---------------------------
(***************************************************************************)
(* Theorems about the network resource, for every finite set of nodes,     *)
(* every set of blocks, every number of contracts, every set of faults and *)
(* every sequence of applies.                                              *)
(***************************************************************************)
EXTENDS NetworkResource, RankProofs, TLAPS

Ids == PartialFn(Node, 1..MaxContract)

----------------------------------------------------------------------------
(* Operators *)

\* A partial function is a function on its domain.
LEMMA PartialFnDef ==
  ASSUME NEW D, NEW R, NEW f
  PROVE  f \in PartialFn(D, R) <=> DOMAIN f \subseteq D /\ f \in [DOMAIN f -> R]
BY DEF PartialFn

LEMMA IdsDef ==
  ASSUME NEW f
  PROVE  f \in Ids <=> DOMAIN f \subseteq Node /\ f \in [DOMAIN f -> 1..MaxContract]
BY PartialFnDef DEF Ids

LEMMA NoNetType == NoNet \in ZNet /\ NoNet.ids = NoIds
<1>1. NoIds \in Ids
  <2>1. DOMAIN NoIds = {} /\ NoIds \in [{} -> 1..MaxContract]
    BY DEF NoIds
  <2> QED
    BY <2>1, IdsDef
<1> QED
  BY <1>1, KeyAssumption DEF NoNet, ZNet, Ids

\* What is planned changes what the block says and nothing else.
LEMMA PlannedType ==
  ASSUME NEW z \in ZNet, NEW c \in Blocks
  PROVE  /\ Planned(z, c) \in ZNet
         /\ Planned(z, c).nodes = c.nodes /\ Planned(z, c).wg = c.wg
         /\ Planned(z, c).ids = z.ids
<1>1. c.nodes \in SUBSET Node /\ c.wg \in BOOLEAN /\ c.keys \in Keys
  BY BlockAssumption
<1> QED
  BY <1>1 DEF Planned, ZNet

\* Forgetting the contracts that are gone leaves the others as they are.
LEMMA LiveType ==
  ASSUME NEW ids \in Ids
  PROVE  /\ Live(ids) \in Ids
         /\ DOMAIN Live(ids) = {n \in DOMAIN ids : ids[n] \in DOMAIN chain}
         /\ \A n \in DOMAIN Live(ids) : Live(ids)[n] = ids[n]
<1>1. /\ DOMAIN Live(ids) = {n \in DOMAIN ids : ids[n] \in DOMAIN chain}
      /\ \A n \in DOMAIN Live(ids) : Live(ids)[n] = ids[n]
  BY DEF Live
<1>2. ids \in [DOMAIN ids -> 1..MaxContract] /\ DOMAIN ids \subseteq Node
  BY IdsDef
<1>3. Live(ids) \in [DOMAIN Live(ids) -> 1..MaxContract] /\ DOMAIN Live(ids) \subseteq Node
  BY <1>1, <1>2 DEF Live
<1> QED
  BY <1>1, <1>3, IdsDef

\* What is stored of a network has its contracts and its access node.
LEMMA StoredType ==
  ASSUME NEW z \in ZNet
  PROVE  /\ Stored(z) \in ZNet
         /\ Stored(z).ids = z.ids /\ Stored(z).public = z.public /\ Stored(z).wg = z.wg
         /\ Stored(z).nodes = (z.nodes \cap DOMAIN z.ids) \cup (DOMAIN z.ids \ {z.public})
<1>1. z.ids \in Ids /\ z.nodes \subseteq Node
  BY DEF ZNet, Ids
<1>2. DOMAIN z.ids \subseteq Node
  BY <1>1, IdsDef
<1> QED
  BY <1>1, <1>2 DEF Stored, ZNet, Ids

\* The network runs on nodes, with or without an access node.
LEMMA TargetsType ==
  ASSUME net \in ZNet, NEW p \in AccessNodes(net)
  PROVE  p \in Node \cup {NoNode} /\ Targets(net, p) \subseteq Node
BY PublicAssumption DEF ZNet, AccessNodes, Targets

----------------------------------------------------------------------------
(* Type correctness *)

\* The contracts a network knows are on the nodes it knows them for, for as long as
\* they live, and none is yet to come.
Aligned(z, live, new) ==
  \A n \in DOMAIN z.ids :
    z.ids[n] < new /\ (z.ids[n] \in DOMAIN live => live[z.ids[n]] = n)

TypeInv ==
  /\ TypeOK
  /\ Aligned(net, chain, next)
  /\ \A s \in saved : Aligned(s.attr, chain, next)

\* What a deployment may have done by the time it succeeds, fails or dies.
PartDone(p, gone, added) ==
  /\ p \in AccessNodes(net) /\ gone \subseteq Removed(p) /\ added \subseteq Added(p)
  /\ next + Cardinality(added) <= MaxContract + 1

\* A deployment keeps the ids of the contracts it leaves, and gives those it makes
\* ids of their own that no contract has had.
LEMMA DeployedIds ==
  ASSUME TypeOK, NEW p, NEW gone, NEW added, PartDone(p, gone, added)
  PROVE  LET z == Deployed(net, p, gone, added)
         IN /\ z \in ZNet /\ z.public = p /\ z.nodes = net.nodes /\ z.wg = net.wg
            /\ z.ranges = Targets(net, p)
            /\ DOMAIN z.ids = (DOMAIN Live(net.ids) \ gone) \cup added
            /\ \A n \in added : z.ids[n] \in next..(next + Cardinality(added) - 1)
            /\ \A m, n \in added : z.ids[m] = z.ids[n] => m = n
            /\ \A n \in DOMAIN z.ids \ added : z.ids[n] = net.ids[n] /\ z.ids[n] \in DOMAIN chain
            /\ Cardinality(added) \in Nat
<1> DEFINE z == Deployed(net, p, gone, added)
           rank(n) == Cardinality({m \in added : m <= n})
           id(n) == IF n \in added THEN next - 1 + rank(n) ELSE Live(net.ids)[n]
           D == (DOMAIN Live(net.ids) \ gone) \cup added
<1>1. net \in ZNet /\ net.ids \in Ids /\ next \in Nat /\ next >= 1 /\ MaxContract \in Nat
  BY BoundAssumption DEF TypeOK, ZNet, Ids
<1>2. /\ DOMAIN Live(net.ids) \subseteq Node
      /\ \A n \in DOMAIN Live(net.ids) :
           /\ Live(net.ids)[n] = net.ids[n] /\ net.ids[n] \in DOMAIN chain
           /\ net.ids[n] \in 1..MaxContract
  BY <1>1, LiveType, IdsDef
<1>3. p \in Node \cup {NoNode} /\ Targets(net, p) \subseteq Node
  BY <1>1, TargetsType DEF PartDone
<1>4. added \subseteq Node /\ added \in SUBSET Int /\ IsFiniteSet(added) /\ Cardinality(added) \in Nat
  <2>1. added \in SUBSET Node
    BY <1>3 DEF PartDone, Added
  <2>2. IsFiniteSet(added)
    BY <2>1, NodeAssumption, FS_Subset
  <2> QED
    BY <2>1, <2>2, NodeAssumption, FS_CardinalityType
<1>5. /\ \A n \in added : rank(n) \in 1..Cardinality(added)
      /\ \A m, n \in added : rank(m) = rank(n) => m = n
  BY <1>4, RankRange, RankInjective
<1>6. /\ \A n \in added : id(n) \in next..(next + Cardinality(added) - 1) /\ id(n) \in 1..MaxContract
      /\ \A m, n \in added : id(m) = id(n) => m = n
  <2> HIDE DEF rank
  <2>1. \A n \in added : rank(n) \in 1..Cardinality(added) /\ id(n) = next - 1 + rank(n)
    BY <1>5
  <2>2. ASSUME NEW m \in added, NEW n \in added, id(m) = id(n)
        PROVE  m = n
    BY <2>1, <2>2, <1>1, <1>4, <1>5
  <2>3. ASSUME NEW n \in added
        PROVE  id(n) \in next..(next + Cardinality(added) - 1) /\ id(n) \in 1..MaxContract
    BY <2>1, <1>1, <1>4 DEF PartDone
  <2> HIDE DEF id
  <2> QED
    BY <2>2, <2>3
<1>7. \A n \in D \ added : id(n) = net.ids[n] /\ id(n) \in DOMAIN chain /\ id(n) \in 1..MaxContract
  BY <1>2
<1>8. z = [net EXCEPT !.public = p, !.ranges = Targets(net, p), !.ids = [n \in D |-> id(n)]]
  BY DEF Deployed
<1>9. [n \in D |-> id(n)] \in Ids
  <2> HIDE DEF id
  <2>1. \A n \in D : id(n) \in 1..MaxContract
    BY <1>6, <1>7
  <2>2. D \subseteq Node
    BY <1>2, <1>4
  <2> HIDE DEF D
  <2> QED
    BY <2>1, <2>2, IdsDef
<1> HIDE DEF id, D
<1>10. /\ z \in ZNet /\ z.public = p /\ z.nodes = net.nodes /\ z.wg = net.wg
       /\ z.ranges = Targets(net, p) /\ z.ids = [n \in D |-> id(n)]
  BY <1>1, <1>3, <1>8, <1>9 DEF ZNet, Ids
<1> HIDE DEF z
<1>11. DOMAIN z.ids = D /\ \A n \in D : z.ids[n] = id(n)
  BY <1>10
<1>12. /\ \A n \in added : z.ids[n] \in next..(next + Cardinality(added) - 1)
       /\ \A m, n \in added : z.ids[m] = z.ids[n] => m = n
       /\ \A n \in DOMAIN z.ids \ added : z.ids[n] = net.ids[n] /\ z.ids[n] \in DOMAIN chain
  BY <1>6, <1>7, <1>11 DEF D
<1> QED
  BY <1>4, <1>10, <1>11, <1>12 DEF z, D

\* The chain has the contracts it had, without the cancelled ones, and those that
\* were made, each on its node.
LEMMA DeployToChain ==
  ASSUME TypeOK, Aligned(net, chain, next), NEW p, NEW gone, NEW added, NEW z,
         p \in AccessNodes(net), DeployTo(z, p, gone, added)
  PROVE  /\ PartDone(p, gone, added)
         /\ next' \in 1..(MaxContract + 1) /\ next <= next' /\ DOMAIN chain' \subseteq 1..(next' - 1)
         /\ \A c \in DOMAIN chain' : chain'[c] \in Node
         /\ Aligned(z, chain', next') /\ \A n \in DOMAIN z.ids : z.ids[n] \in DOMAIN chain'
         /\ \A c \in DOMAIN chain' :
              c < next => /\ c \in DOMAIN chain /\ chain'[c] = chain[c]
                          /\ \A n \in gone : net.ids[n] # c
         /\ \A c \in DOMAIN chain' :
              c >= next => chain'[c] \in DOMAIN z.ids /\ z.ids[chain'[c]] = c
<1> DEFINE cancelled == {Live(net.ids)[n] : n \in gone}
           created == {z.ids[n] : n \in DOMAIN z.ids} \ DOMAIN chain
           maker(c) == CHOOSE n \in DOMAIN z.ids : z.ids[n] = c
<1>1. PartDone(p, gone, added) /\ z = Deployed(net, p, gone, added)
  BY DEF DeployTo, PartDone
<1>2. /\ z \in ZNet
      /\ DOMAIN z.ids = (DOMAIN Live(net.ids) \ gone) \cup added
      /\ \A n \in added : z.ids[n] \in next..(next + Cardinality(added) - 1)
      /\ \A m, n \in added : z.ids[m] = z.ids[n] => m = n
      /\ \A n \in DOMAIN z.ids \ added : z.ids[n] = net.ids[n] /\ z.ids[n] \in DOMAIN chain
      /\ Cardinality(added) \in Nat
  BY <1>1, DeployedIds
<1>3. net.ids \in Ids
  BY DEF TypeOK, ZNet, Ids
<1>4. /\ gone \subseteq DOMAIN Live(net.ids)
      /\ \A n \in DOMAIN Live(net.ids) :
           /\ n \in DOMAIN net.ids /\ Live(net.ids)[n] = net.ids[n]
           /\ net.ids[n] \in DOMAIN chain /\ chain[net.ids[n]] = n
  BY <1>1, <1>3, LiveType DEF PartDone, Removed, Aligned
<1>5. DOMAIN z.ids \subseteq Node
  BY <1>2, IdsDef DEF ZNet, Ids
<1>6. /\ DOMAIN chain' = (DOMAIN chain \ cancelled) \cup created
      /\ \A c \in DOMAIN chain' : chain'[c] = IF c \in DOMAIN chain THEN chain[c] ELSE maker(c)
  BY DEF DeployTo, ChainAfter
<1>7. /\ \A c \in created : maker(c) \in DOMAIN z.ids /\ z.ids[maker(c)] = c
      /\ \A c : c \in created <=> c \notin DOMAIN chain /\ \E n \in DOMAIN z.ids : z.ids[n] = c
      /\ \A c : c \in cancelled <=> \E n \in gone : Live(net.ids)[n] = c
  OBVIOUS
<1> HIDE DEF cancelled, created, maker
<1>8. /\ next \in Nat /\ next >= 1 /\ MaxContract \in Nat
      /\ next' = next + Cardinality(added) /\ next' <= MaxContract + 1
      /\ \A c \in DOMAIN chain : c \in Nat /\ c >= 1 /\ c < next
  <2>1. next \in Nat /\ next >= 1 /\ MaxContract \in Nat
    BY BoundAssumption DEF TypeOK
  <2>2. \A c \in DOMAIN chain : c \in 1..(next - 1)
    BY DEF TypeOK
  <2>3. next' = next + Cardinality(added) /\ next + Cardinality(added) <= MaxContract + 1
    BY DEF DeployTo
  <2> QED
    BY <1>2, <2>1, <2>2, <2>3
<1>9. \A c \in created : c \in next..(next' - 1)
  BY <1>2, <1>7, <1>8
<1>10. next' \in 1..(MaxContract + 1) /\ next <= next' /\ DOMAIN chain' \subseteq 1..(next' - 1)
  <2>1. \A c \in DOMAIN chain' : c \in 1..(next' - 1)
    BY <1>2, <1>6, <1>8, <1>9
  <2> QED
    BY <2>1, <1>2, <1>8
<1>11. \A c \in DOMAIN chain' : chain'[c] \in Node
  BY <1>5, <1>6, <1>7 DEF TypeOK
<1>12. ASSUME NEW n \in DOMAIN z.ids
       PROVE  z.ids[n] < next' /\ z.ids[n] \in DOMAIN chain' /\ chain'[z.ids[n]] = n
  <2>1. CASE n \in added
    <3>1. z.ids[n] \notin DOMAIN chain /\ z.ids[n] \in created
      BY <1>2, <1>7, <1>8, <2>1
    <3>2. maker(z.ids[n]) \in DOMAIN z.ids /\ z.ids[maker(z.ids[n])] = z.ids[n]
      BY <1>7, <3>1
    <3>3. maker(z.ids[n]) \in added
      BY <1>2, <3>1, <3>2
    <3>4. maker(z.ids[n]) = n
      BY <1>2, <2>1, <3>2, <3>3
    <3>5. z.ids[n] \in DOMAIN chain' /\ chain'[z.ids[n]] = n
      BY <1>6, <3>1, <3>4
    <3> QED
      BY <1>2, <1>8, <1>9, <3>1, <3>5
  <2>2. CASE n \notin added
    <3>1. z.ids[n] = net.ids[n] /\ z.ids[n] \in DOMAIN chain /\ n \notin gone
          /\ n \in DOMAIN Live(net.ids)
      BY <1>2, <2>2
    <3>2. \A m \in gone : Live(net.ids)[m] # z.ids[n]
      BY <1>4, <3>1
    <3>3. z.ids[n] \in DOMAIN chain' /\ chain'[z.ids[n]] = n
      BY <1>4, <1>6, <1>7, <3>1, <3>2
    <3>4. z.ids[n] < next'
      BY <1>2, <1>8, <3>1
    <3> QED
      BY <3>3, <3>4
  <2> QED
    BY <2>1, <2>2
<1>13. ASSUME NEW c \in DOMAIN chain', c < next
       PROVE  c \in DOMAIN chain /\ chain'[c] = chain[c] /\ \A n \in gone : net.ids[n] # c
  <2>1. c \in DOMAIN chain \ cancelled
    BY <1>6, <1>8, <1>9, <1>13
  <2> QED
    BY <1>4, <1>6, <1>7, <2>1
<1>14. ASSUME NEW c \in DOMAIN chain', c >= next
       PROVE  chain'[c] \in DOMAIN z.ids /\ z.ids[chain'[c]] = c
  BY <1>6, <1>7, <1>8, <1>14
<1> QED
  BY <1>1, <1>10, <1>11, <1>12, <1>13, <1>14 DEF Aligned

\* What any step does to the chain: contracts end, and those that begin are new.
Onward ==
  /\ next' \in 1..(MaxContract + 1) /\ next <= next' /\ DOMAIN chain' \subseteq 1..(next' - 1)
  /\ \A c \in DOMAIN chain' : chain'[c] \in Node
  /\ \A c \in DOMAIN chain' : c < next => c \in DOMAIN chain /\ chain'[c] = chain[c]

LEMMA FewerOnward ==
  ASSUME TypeOK, UNCHANGED next, DOMAIN chain' \subseteq DOMAIN chain,
         \A c \in DOMAIN chain' : chain'[c] = chain[c]
  PROVE  Onward
BY BoundAssumption DEF TypeOK, Onward

LEMMA DeployOnward ==
  ASSUME TypeOK, Aligned(net, chain, next), NEW p, NEW gone, NEW added, NEW z,
         p \in AccessNodes(net), DeployTo(z, p, gone, added)
  PROVE  Onward
BY DeployToChain DEF Onward

LEMMA CancelOnward ==
  ASSUME TypeOK, UNCHANGED next, NEW gone,
         chain' = [c \in DOMAIN chain \ gone |-> chain[c]]
  PROVE  Onward
BY FewerOnward

\* What was known of the contracts stays true.
LEMMA AlignedKept ==
  ASSUME TypeOK, Onward, NEW z \in ZNet, Aligned(z, chain, next)
  PROVE  Aligned(z, chain', next')
<1>1. z.ids \in Ids
  BY DEF ZNet, Ids
<1>2. \A n \in DOMAIN z.ids : z.ids[n] \in Nat
  BY <1>1, IdsDef, BoundAssumption
<1>3. next \in Nat /\ next' \in Nat /\ next <= next'
  BY BoundAssumption DEF TypeOK, Onward
<1> QED
  BY <1>2, <1>3 DEF Aligned, Onward

LEMMA StepOnward ==
  ASSUME TypeInv, [Next]_vars
  PROVE  Onward
<1> TypeOK /\ Aligned(net, chain, next)
  BY DEF TypeInv
<1>1. CASE UNCHANGED <<chain, next>>
  BY <1>1, FewerOnward
<1>2. CASE DeployDone \/ DeployFailsUnreverted
  BY <1>2, DeployOnward DEF DeployDone, DeployFailsUnreverted
<1>3. CASE CancelDone \/ CancelFails
  BY <1>3, CancelOnward DEF CancelDone, CancelFails
<1>4. CASE Expire
  BY <1>4, CancelOnward DEF Expire
<1>5. CASE Killed
  <2>1. CASE \E p \in AccessNodes(net) :
               \E gone \in SUBSET Removed(p), added \in SUBSET Added(p) :
                 DeployTo(Deployed(net, p, gone, added), p, gone, added)
    BY <2>1, DeployOnward
  <2>2. CASE UNCHANGED next /\ \E gone \in SUBSET DOMAIN net.ids :
               chain' = [c \in DOMAIN chain \ {net.ids[n] : n \in gone} |-> chain[c]]
    BY <2>2, CancelOnward
  <2> QED
    BY <1>1, <1>5, <2>1, <2>2 DEF Killed
<1>6. CASE Edit \/ Refresh \/ Plan \/ Load \/ LoadFails \/ Invalidate \/ InvalidateFails \/ Read
           \/ DeployFails \/ NodeFlips \/ UNCHANGED vars
  <2>1. UNCHANGED <<chain, next>>
    BY <1>6 DEF Edit, Refresh, Plan, PlanCreate, PlanUpdate, PlanDelete, PlanNothing, Load,
                LoadFails, Invalidate, InvalidateFails, Read, ReadNodesConfig, ReadWarns, DeployFails, NodeFlips, vars
  <2> QED
    BY <1>1, <2>1
<1> QED
  BY <1>2, <1>3, <1>4, <1>5, <1>6 DEF Next, Call

\* A step that leaves the handler something well typed to work on, and Terraform
\* something well typed, is well typed.
LEMMA TypeStep ==
  ASSUME TypeInv, Onward, UNCHANGED faults, up' \subseteq Node, config' \in AtMostOne(Blocks),
         \A s, t \in saved' : s = t,
         \A s \in saved' : /\ s.attr \in ZNet /\ s.tainted \in BOOLEAN
                           /\ Aligned(s.attr, chain', next'),
         net' \in ZNet, Aligned(net', chain', next'),
         record' \subseteq Node,
         pc' \in {"idle", "plan", "load", "invalidate", "read", "deploy", "cancel"},
         op' \in {"none", "read", "create", "update", "delete"},
         report' \in {"none", "ok", "warned", "failed"},
         op' = "create" /\ pc' \in {"load", "deploy"} => net'.ids = NoIds
  PROVE  TypeInv'
BY DEF TypeInv, TypeOK, Onward

LEMMA NoNetAligned == ASSUME NEW live, NEW new PROVE Aligned(NoNet, live, new)
BY DEF Aligned, NoNet, NoIds

\* The same for a handler that returns.
LEMMA ReturnType ==
  ASSUME TypeInv, Onward, NEW kept, NEW how, Return(kept, how),
         \A s, t \in kept : s = t,
         \A s \in kept : /\ s.attr \in ZNet /\ s.tainted \in BOOLEAN
                         /\ Aligned(s.attr, chain', next'),
         how \in {"none", "ok", "warned", "failed"},
         record' \subseteq Node, UNCHANGED <<faults, up, config>>
  PROVE  TypeInv'
<1>1. net' \in ZNet /\ Aligned(net', chain', next') /\ saved' = kept
  BY NoNetType, NoNetAligned DEF Return
<1>2. up' \subseteq Node /\ config' \in AtMostOne(Blocks)
  BY DEF TypeInv, TypeOK
<1>3. pc' = "idle" /\ op' = "none" /\ report' \in {"none", "ok", "warned", "failed"}
  BY DEF Return
<1> QED
  BY <1>1, <1>2, <1>3, TypeStep

\* What Terraform has stays well typed.
LEMMA SavedKept ==
  ASSUME TypeInv, Onward
  PROVE  \A s \in saved : /\ s.attr \in ZNet /\ s.tainted \in BOOLEAN
                          /\ Aligned(s.attr, chain', next')
<1>1. TypeOK /\ \A s \in saved : s.attr \in ZNet /\ s.tainted \in BOOLEAN
  BY DEF TypeInv, TypeOK
<1> QED
  BY <1>1, AlignedKept DEF TypeInv

\* What is stored of a network that is well typed.
LEMMA StoredKept ==
  ASSUME NEW z \in ZNet, NEW live, NEW new, Aligned(z, live, new)
  PROVE  Stored(z) \in ZNet /\ Aligned(Stored(z), live, new)
BY StoredType DEF Aligned

\* Nothing deployed, the contracts that are gone forgotten.
LEMMA NothingDeployed ==
  ASSUME TypeInv, NEW p \in AccessNodes(net)
  PROVE  LET z == Deployed(net, p, {}, {})
         IN z \in ZNet /\ Aligned(z, chain, next) /\ z.ids = Live(net.ids)
<1> DEFINE z == Deployed(net, p, {}, {})
<1>1. TypeOK /\ net.ids \in Ids
  BY DEF TypeInv, TypeOK, ZNet, Ids
<1>2. PartDone(p, {}, {})
  BY <1>1, FS_EmptySet, BoundAssumption DEF PartDone, TypeOK
<1>3. /\ z \in ZNet /\ DOMAIN z.ids = DOMAIN Live(net.ids)
      /\ \A n \in DOMAIN z.ids : z.ids[n] = net.ids[n]
  <2>1. /\ z \in ZNet /\ DOMAIN z.ids = (DOMAIN Live(net.ids) \ {}) \cup {}
        /\ \A n \in DOMAIN z.ids \ {} : z.ids[n] = net.ids[n]
    BY <1>1, <1>2, DeployedIds
  <2> QED
    BY <2>1
<1>4. /\ Live(net.ids) \in Ids /\ DOMAIN Live(net.ids) \subseteq DOMAIN net.ids
      /\ \A n \in DOMAIN Live(net.ids) : Live(net.ids)[n] = net.ids[n]
  BY <1>1, LiveType
<1>5. z.ids \in Ids
  BY <1>3 DEF ZNet, Ids
<1>6. z.ids = Live(net.ids)
  BY <1>3, <1>4, <1>5, IdsDef
<1>7. Aligned(z, chain, next)
  BY <1>3, <1>4 DEF Aligned, TypeInv
<1> HIDE DEF z
<1> QED
  BY <1>3, <1>6, <1>7 DEF z

LEMMA InitType == Init => TypeInv
<1> SUFFICES ASSUME Init PROVE TypeInv
  OBVIOUS
<1>1. next \in 1..(MaxContract + 1)
  BY BoundAssumption DEF Init
<1>2. Aligned(net, chain, next)
  BY NoNetAligned DEF Init
<1> QED
  BY <1>1, <1>2, NoNetType DEF Init, TypeInv, TypeOK

\* A deployment that fails stores what it leaves, or nothing.
LEMMA FailLeavingType ==
  ASSUME TypeInv, Onward, NEW z \in ZNet, Aligned(z, chain', next'), FailLeaving(z),
         UNCHANGED <<faults, up, config>>
  PROVE  TypeInv'
<1>1. CASE Return({}, "failed") /\ UNCHANGED record
  BY <1>1, ReturnType DEF TypeInv, TypeOK
<1>2. CASE /\ Return({[attr |-> Stored(z), tainted |-> op = "create"]}, "failed")
           /\ record' = Recorded(z)
  <2>1. Stored(z) \in ZNet /\ Aligned(Stored(z), chain', next') /\ record' \subseteq Node
    BY <1>2, StoredKept DEF Recorded, ZNet
  <2> DEFINE bad == op = "create"
             kept == {[attr |-> Stored(z), tainted |-> bad]}
  <2>2. \A s, t \in kept : s = t
    OBVIOUS
  <2>3. \A s \in kept : s.attr = Stored(z) /\ s.tainted \in BOOLEAN
    <3>1. bad \in BOOLEAN
      OBVIOUS
    <3> HIDE DEF bad
    <3> QED
      BY <3>1
  <2>4. Return(kept, "failed")
    BY <1>2
  <2> HIDE DEF kept
  <2> QED
    BY <2>1, <2>2, <2>3, <2>4, ReturnType
<1> QED
  BY <1>1, <1>2 DEF FailLeaving

LEMMA NextType == TypeInv /\ [Next]_vars => TypeInv'
<1> SUFFICES ASSUME TypeInv, [Next]_vars PROVE TypeInv'
  OBVIOUS
<1> USE StepOnward
<1>f. faults' = faults
  BY DEF Next, vars
<1>t. TypeOK /\ Aligned(net, chain, next) /\ \A s \in saved : Aligned(s.attr, chain, next)
  BY DEF TypeInv
<1>s. \A s \in saved : /\ s.attr \in ZNet /\ s.tainted \in BOOLEAN
                       /\ Aligned(s.attr, chain', next')
  BY SavedKept
<1>n. net \in ZNet /\ Aligned(net, chain', next')
  <2>1. net \in ZNet
    BY <1>t DEF TypeOK
  <2> QED
    BY <2>1, <1>t, AlignedKept
<1>1. CASE Edit
  BY <1>f, <1>s, <1>n, <1>1, TypeStep DEF TypeInv, TypeOK, Edit
<1>2. CASE Refresh
  BY <1>f, <1>s, <1>n, <1>2, TypeStep DEF TypeInv, TypeOK, Refresh
<1>3. CASE PlanCreate
  <2>1. PICK c \in config : net' = Planned(NoNet, c)
    BY <1>3 DEF PlanCreate
  <2>2. c \in Blocks
    BY DEF TypeInv, TypeOK, AtMostOne
  <2>4. net' \in ZNet /\ net'.ids = NoIds
    BY <2>1, <2>2, NoNetType, PlannedType
  <2>5. Aligned(net', chain', next')
    BY <2>4 DEF Aligned, NoIds
  <2> QED
    BY <1>f, <1>s, <1>3, <2>4, <2>5, TypeStep DEF TypeInv, TypeOK, PlanCreate
<1>4. CASE PlanUpdate
  <2>1. PICK s \in saved, c \in config : net' = Planned(s.attr, c)
    BY <1>4 DEF PlanUpdate
  <2>2. c \in Blocks
    BY DEF TypeInv, TypeOK, AtMostOne
  <2>4. net' \in ZNet /\ net'.ids = s.attr.ids
    BY <1>s, <2>1, <2>2, PlannedType
  <2>5. Aligned(net', chain', next')
    BY <1>s, <2>4 DEF Aligned
  <2> QED
    BY <1>f, <1>s, <1>4, <2>4, <2>5, TypeStep DEF TypeInv, TypeOK, PlanUpdate
<1>5. CASE PlanDelete
  BY <1>f, <1>s, <1>n, <1>5, TypeStep DEF TypeInv, TypeOK, PlanDelete
<1>6. CASE PlanNothing
  <2>1. Return(saved, IF report = "none" THEN "ok" ELSE report)
    BY <1>6 DEF PlanNothing
  <2> QED
    BY <1>f, <1>s, <1>6, <2>1, ReturnType DEF TypeInv, TypeOK, PlanNothing
<1>load. CASE Load
  <2>1. pc' \in {"invalidate", "cancel", "deploy"} /\ (op = "create" => net.ids = NoIds)
    BY <1>load, <1>t DEF Load, TypeOK
  <2> QED
    BY <1>f, <1>s, <1>n, <1>load, <2>1, TypeStep DEF TypeInv, TypeOK, Load
<1>loadFails. CASE LoadFails
  <2>1. CASE op = "update"
    <3>1. Return({[attr |-> net, tainted |-> FALSE]}, "failed") /\ UNCHANGED <<up, config, record>>
      BY <1>loadFails, <2>1 DEF LoadFails
    <3> DEFINE kept == {[attr |-> net, tainted |-> FALSE]}
    <3>2. /\ \A s, t \in kept : s = t
          /\ \A s \in kept : s.attr = net /\ s.tainted \in BOOLEAN
      OBVIOUS
    <3>3. record' \subseteq Node /\ Return(kept, "failed")
      BY <1>t, <3>1 DEF TypeOK
    <3> HIDE DEF kept
    <3> QED
      BY <1>f, <1>n, <3>1, <3>2, <3>3, ReturnType
  <2>2. CASE op # "update"
    <3>1. Return(saved, "failed") /\ UNCHANGED <<up, config, record>>
      BY <1>loadFails, <2>2 DEF LoadFails
    <3> QED
      BY <1>f, <1>s, <1>t, <3>1, ReturnType DEF TypeOK
  <2> QED
    BY <2>1, <2>2
<1>7. CASE Invalidate
  <2>1. /\ net' = [net EXCEPT !.ids = Live(@),
                              !.ranges = @ \ (DOMAIN net.ids \ DOMAIN Live(net.ids))]
        /\ net.ids \in Ids
    BY <1>7, <1>n DEF Invalidate, ZNet, Ids
  <2>2. net' \in ZNet /\ net'.ids = Live(net.ids)
    BY <1>n, <2>1, LiveType DEF ZNet, Ids
  <2>3. \A n \in DOMAIN net'.ids : n \in DOMAIN net.ids /\ net'.ids[n] = net.ids[n]
    BY <2>1, <2>2, LiveType
  <2>4. Aligned(net', chain', next')
    BY <1>n, <2>3 DEF Aligned
  <2> QED
    BY <1>f, <1>s, <1>7, <2>2, <2>4, TypeStep DEF TypeInv, TypeOK, Invalidate
<1>8. CASE InvalidateFails
  BY <1>f, <1>s, <1>8, ReturnType DEF TypeInv, TypeOK, InvalidateFails
<1>9. CASE ReadNodesConfig
  <2> DEFINE z == [net EXCEPT !.ranges = DOMAIN net.ids]
  <2>1. DOMAIN net.ids \subseteq Node
    BY <1>n, IdsDef DEF ZNet, Ids
  <2>2. z \in ZNet /\ z.ids = net.ids /\ z.ranges \subseteq Node
    BY <1>n, <2>1 DEF ZNet
  <2>3. Stored(z) \in ZNet /\ Aligned(Stored(z), chain', next')
    <3>1. Aligned(z, chain', next')
      BY <1>n, <2>2 DEF Aligned
    <3> HIDE DEF z
    <3> QED
      BY <2>2, <3>1, StoredKept
  <2>4. /\ saved' = {[attr |-> Stored(z), tainted |-> s.tainted] : s \in saved}
        /\ record' = z.ranges
    BY <1>9 DEF ReadNodesConfig, Recorded
  <2> HIDE DEF z
  <2>5. /\ \A s, t \in saved' : s = t
        /\ \A s \in saved' : s.attr = Stored(z) /\ s.tainted \in BOOLEAN
    BY <1>s, <1>t, <2>4 DEF TypeOK
  <2> QED
    BY <1>f, <1>n, <1>9, <2>2, <2>3, <2>4, <2>5, TypeStep DEF TypeInv, TypeOK, ReadNodesConfig
<1>10. CASE ReadWarns
  BY <1>f, <1>s, <1>n, <1>10, TypeStep DEF TypeInv, TypeOK, ReadWarns
<1>11. CASE DeployDone
  <2>1. PICK p \in AccessNodes(net) :
          LET z == Deployed(net, p, Removed(p), Added(p))
          IN /\ DeployTo(z, p, Removed(p), Added(p))
             /\ record' = Recorded(z)
             /\ Return({[attr |-> Stored(z), tainted |-> FALSE]},
                       IF report = "none" THEN "ok" ELSE report)
    BY <1>11 DEF DeployDone
  <2> DEFINE z == Deployed(net, p, Removed(p), Added(p))
  <2>2. PartDone(p, Removed(p), Added(p)) /\ Aligned(z, chain', next')
    BY <1>t, <2>1, DeployToChain
  <2>3. z \in ZNet
    BY <1>t, <2>2, DeployedIds
  <2> HIDE DEF z
  <2>4. Stored(z) \in ZNet /\ Aligned(Stored(z), chain', next') /\ z.ranges \subseteq Node
    BY <2>2, <2>3, StoredKept DEF ZNet
  <2> DEFINE kept == {[attr |-> Stored(z), tainted |-> FALSE]}
             how == IF report = "none" THEN "ok" ELSE report
  <2>5. record' = z.ranges /\ Return(kept, how)
    BY <2>1 DEF Recorded, z
  <2>6. report \in {"none", "ok", "warned", "failed"} /\ UNCHANGED <<up, config>>
    BY <1>t, <1>11 DEF TypeOK, DeployDone
  <2>7. /\ \A s, t \in kept : s = t
        /\ \A s \in kept : s.attr = Stored(z) /\ s.tainted \in BOOLEAN
        /\ how \in {"none", "ok", "warned", "failed"}
    BY <2>6
  <2> HIDE DEF kept, how
  <2> QED
    BY <1>f, <2>4, <2>5, <2>6, <2>7, ReturnType
<1>12. CASE DeployFails
  <2>1. PICK p \in AccessNodes(net) : FailLeaving(Deployed(net, p, {}, {}))
    BY <1>12 DEF DeployFails
  <2> DEFINE z == Deployed(net, p, {}, {})
  <2>2. z \in ZNet /\ Aligned(z, chain, next)
    BY NothingDeployed
  <2> HIDE DEF z
  <2>3. Aligned(z, chain', next')
    BY <1>t, <2>2, AlignedKept
  <2> QED
    BY <1>f, <1>12, <2>1, <2>2, <2>3, FailLeavingType DEF DeployFails, z
<1>13. CASE DeployFailsUnreverted
  <2>1. PICK p, gone, added, z :
          p \in AccessNodes(net) /\ DeployTo(z, p, gone, added) /\ FailLeaving(z)
    BY <1>13 DEF DeployFailsUnreverted
  <2>2. PartDone(p, gone, added) /\ Aligned(z, chain', next')
    BY <1>t, <2>1, DeployToChain
  <2>3. z = Deployed(net, p, gone, added)
    BY <2>1 DEF DeployTo
  <2>4. z \in ZNet
    BY <1>t, <2>2, <2>3, DeployedIds
  <2> QED
    BY <1>f, <1>13, <2>1, <2>2, <2>4, FailLeavingType DEF DeployFailsUnreverted
<1>14. CASE CancelDone
  <2>1. PICK how \in {"none", "ok", report} : Return({}, how)
    BY <1>14 DEF CancelDone
  <2>2. how \in {"none", "ok", "warned", "failed"} /\ record' \subseteq Node
        /\ UNCHANGED <<up, config>>
    BY <1>14, <1>t DEF CancelDone, TypeOK
  <2> QED
    BY <1>f, <2>1, <2>2, ReturnType
<1>15. CASE CancelFails
  <2>1. Return(saved, "failed") /\ record' = net.ranges /\ UNCHANGED <<up, config>>
    BY <1>15 DEF CancelFails, Recorded
  <2>2. record' \subseteq Node /\ \A s, t \in saved : s = t
    BY <1>n, <1>t, <2>1 DEF ZNet, TypeOK
  <2> QED
    BY <1>f, <1>s, <2>1, <2>2, ReturnType
<1>16. CASE NodeFlips
  <2>1. up' \subseteq Node
    BY <1>16, <1>t DEF NodeFlips, TypeOK
  <2> QED
    BY <1>f, <1>s, <1>n, <1>16, <2>1, TypeStep DEF TypeInv, TypeOK, NodeFlips
<1>17. CASE Expire
  BY <1>f, <1>s, <1>n, <1>17, TypeStep DEF TypeInv, TypeOK, Expire
<1>18. CASE Killed
  <2>1. Return(saved, "failed") /\ UNCHANGED <<up, config, record>>
    BY <1>18 DEF Killed
  <2>2. record' \subseteq Node /\ \A s, t \in saved : s = t
    BY <1>t, <2>1 DEF TypeOK
  <2> QED
    BY <1>f, <1>s, <2>1, <2>2, ReturnType
<1>19. CASE UNCHANGED vars
  BY <1>f, <1>s, <1>n, <1>19, TypeStep DEF TypeInv, TypeOK, vars
<1> QED
  BY <1>1, <1>2, <1>3, <1>4, <1>5, <1>6, <1>7, <1>8, <1>9, <1>10, <1>11, <1>12, <1>13,
     <1>14, <1>15, <1>16, <1>17, <1>18, <1>19, <1>load, <1>loadFails
  DEF Next, Plan, Call, Read

LEMMA TypeInvCorrect == Spec => []TypeInv
BY InitType, NextType, PTL DEF Spec

\* Every variable keeps its type under all faults, and a create starts without a
\* contract: ids that were cancelled, reverted in part or lost are never mixed up
\* with those of another node.
THEOREM TypeCorrect == Spec => []TypeOK
<1>1. TypeInv => TypeOK
  BY DEF TypeInv
<1> QED
  BY <1>1, TypeInvCorrect, PTL

----------------------------------------------------------------------------
(* No contract is forgotten *)

\* The network knows the contract c on node n.
Knows(z, n, c) == n \in DOMAIN z.ids /\ z.ids[n] = c
KnowsAll(z, live) == \A c \in DOMAIN live : Knows(z, live[c], c)

\* Who knows the live contracts, at each call of each handler.
Traced ==
  "kill" \notin faults =>
    /\ \A c \in DOMAIN chain : \E s \in saved : Knows(s.attr, chain[c], c)
    /\ pc \notin {"idle", "plan"} => KnowsAll(net, chain)

TraceInv == TypeInv /\ Traced

\* Forgetting the contracts that are gone forgets no other.
LEMMA LiveKnown ==
  ASSUME net.ids \in Ids, KnowsAll(net, chain), NEW z, z.ids = Live(net.ids)
  PROVE  KnowsAll(z, chain)
<1>1. /\ DOMAIN z.ids = {n \in DOMAIN net.ids : net.ids[n] \in DOMAIN chain}
      /\ \A n \in DOMAIN z.ids : z.ids[n] = net.ids[n]
  BY LiveType
<1>2. ASSUME NEW c \in DOMAIN chain PROVE Knows(z, chain[c], c)
  <2>1. chain[c] \in DOMAIN net.ids /\ net.ids[chain[c]] = c
    BY DEF KnowsAll, Knows
  <2> QED
    BY <1>1, <2>1 DEF Knows
<1> QED
  BY <1>2 DEF KnowsAll

\* What Deploy has done and not reverted is in the ids it sets.
LEMMA DeployedKnown ==
  ASSUME TypeInv, KnowsAll(net, chain), NEW p \in AccessNodes(net), NEW gone, NEW added, NEW z,
         DeployTo(z, p, gone, added)
  PROVE  KnowsAll(z, chain')
<1>1. TypeOK /\ Aligned(net, chain, next) /\ net.ids \in Ids /\ next \in Nat
  BY BoundAssumption DEF TypeInv, TypeOK, ZNet, Ids
<1>2. /\ PartDone(p, gone, added)
      /\ DOMAIN chain' \subseteq 1..(next' - 1) /\ next' \in Nat
      /\ \A c \in DOMAIN chain' :
           c < next => /\ c \in DOMAIN chain /\ chain'[c] = chain[c]
                       /\ \A n \in gone : net.ids[n] # c
      /\ \A c \in DOMAIN chain' : c >= next => Knows(z, chain'[c], c)
  BY <1>1, DeployToChain, BoundAssumption DEF Knows
<1>3. /\ DOMAIN z.ids = (DOMAIN Live(net.ids) \ gone) \cup added
      /\ \A n \in DOMAIN z.ids \ added : z.ids[n] = net.ids[n]
  BY <1>1, <1>2, DeployedIds DEF DeployTo
<1>4. /\ added \cap DOMAIN Live(net.ids) = {}
      /\ DOMAIN Live(net.ids) = {n \in DOMAIN net.ids : net.ids[n] \in DOMAIN chain}
  BY <1>1, <1>2, LiveType DEF PartDone, Added
<1>5. SUFFICES ASSUME NEW c \in DOMAIN chain', c < next PROVE Knows(z, chain'[c], c)
  BY <1>1, <1>2 DEF KnowsAll
<1>6. c \in DOMAIN chain /\ chain'[c] = chain[c] /\ Knows(net, chain[c], c) /\ chain[c] \notin gone
  BY <1>2, <1>5 DEF KnowsAll, Knows
<1> QED
  BY <1>3, <1>4, <1>6 DEF Knows

\* And in what is stored of a deployment that fails.
LEMMA FailLeavingKnown ==
  ASSUME NEW z \in ZNet, KnowsAll(z, chain'), FailLeaving(z)
  PROVE  pc' = "idle" /\ \A c \in DOMAIN chain' : \E s \in saved' : Knows(s.attr, chain'[c], c)
<1>1. CASE z.ids = NoIds /\ Return({}, "failed")
  <2>1. DOMAIN chain' = {}
    BY <1>1 DEF KnowsAll, Knows, NoIds
  <2> QED
    BY <1>1, <2>1 DEF Return
<1>2. CASE Return({[attr |-> Stored(z), tainted |-> op = "create"]}, "failed")
  <2>1. Stored(z).ids = z.ids
    BY StoredType
  <2> QED
    BY <1>2, <2>1 DEF Return, KnowsAll, Knows
<1> QED
  BY <1>1, <1>2 DEF FailLeaving

LEMMA InitTraced == Init => Traced
BY DEF Init, Traced

LEMMA NextTraced == TraceInv /\ [Next]_vars => Traced'
<1> SUFFICES ASSUME TraceInv, [Next]_vars PROVE Traced'
  OBVIOUS
<1>f. faults' = faults
  BY DEF Next, vars
<1> SUFFICES ASSUME "kill" \notin faults PROVE Traced'
  BY <1>f DEF Traced
<1>t. /\ TypeInv /\ TypeOK
      /\ \A c \in DOMAIN chain : \E s \in saved : Knows(s.attr, chain[c], c)
      /\ pc \notin {"idle", "plan"} => KnowsAll(net, chain)
  BY DEF TraceInv, TypeInv, Traced
<1>z. \A s \in saved : KnowsAll(s.attr, chain) /\ s.attr \in ZNet
  BY <1>t DEF TypeOK, KnowsAll
<1>n. net \in ZNet /\ net.ids \in Ids
  BY <1>t DEF TypeOK, ZNet, Ids
<1>1. CASE Edit
  BY <1>1, <1>t DEF Edit, Traced
<1>2. CASE Refresh
  BY <1>2, <1>t, <1>z DEF Refresh, Traced, KnowsAll
<1>3. CASE PlanCreate
  BY <1>3, <1>t DEF PlanCreate, Traced, KnowsAll
<1>4. CASE PlanUpdate
  <2>1. PICK s \in saved, c \in config : net' = Planned(s.attr, c)
    BY <1>4 DEF PlanUpdate
  <2>2. net'.ids = s.attr.ids
    BY <1>t, <1>z, <2>1, PlannedType DEF TypeOK, AtMostOne
  <2>3. KnowsAll(net', chain)
    BY <1>z, <2>2 DEF KnowsAll, Knows
  <2> QED
    BY <1>4, <1>t, <2>3 DEF PlanUpdate, Traced, KnowsAll
<1>5. CASE PlanDelete
  BY <1>5, <1>t, <1>z DEF PlanDelete, Traced, KnowsAll
<1>6. CASE PlanNothing \/ InvalidateFails
  BY <1>6, <1>t DEF PlanNothing, InvalidateFails, Return, Traced
<1>load. CASE Load
  BY <1>load, <1>t DEF Load, Traced, KnowsAll
<1>loadFails. CASE LoadFails
  <2>1. saved' = saved \/ \E s \in saved' : s.attr = net
    BY <1>loadFails DEF LoadFails, Return
  <2>2. pc' = "idle" /\ UNCHANGED chain /\ KnowsAll(net, chain)
    BY <1>loadFails, <1>t DEF LoadFails, Return
  <2>3. \A c \in DOMAIN chain' : \E s \in saved' : Knows(s.attr, chain'[c], c)
    BY <1>t, <2>1, <2>2 DEF KnowsAll
  <2> QED
    BY <2>2, <2>3 DEF Traced
<1>7. CASE Invalidate
  <2>1. net'.ids = Live(net.ids)
    BY <1>7, <1>n DEF Invalidate, ZNet
  <2>2. KnowsAll(net', chain)
    BY <1>7, <1>t, <1>n, <2>1, LiveKnown DEF Invalidate
  <2> QED
    BY <1>7, <1>t, <2>2 DEF Invalidate, Traced, KnowsAll
<1>8. CASE ReadNodesConfig
  <2> DEFINE z == [net EXCEPT !.ranges = DOMAIN net.ids]
  <2>1. DOMAIN net.ids \subseteq Node
    BY <1>n, IdsDef
  <2>2. z \in ZNet /\ z.ids = net.ids
    BY <1>n, <2>1 DEF ZNet
  <2>3. saved' = {[attr |-> Stored(z), tainted |-> s.tainted] : s \in saved}
    BY <1>8 DEF ReadNodesConfig
  <2> HIDE DEF z
  <2>4. Stored(z).ids = net.ids
    BY <2>2, StoredType
  <2>5. KnowsAll(Stored(z), chain)
    BY <1>8, <1>t, <2>4 DEF ReadNodesConfig, KnowsAll, Knows
  <2>6. \A s \in saved : \E r \in saved' : r.attr = Stored(z)
    <3>1. ASSUME NEW s \in saved PROVE \E r \in saved' : r.attr = Stored(z)
      <4>1. [attr |-> Stored(z), tainted |-> s.tainted] \in saved'
        BY <2>3
      <4> QED
        BY <4>1
    <3> QED
      BY <3>1
  <2>7. \A c \in DOMAIN chain : \E s \in saved' : Knows(s.attr, chain[c], c)
    BY <1>t, <2>5, <2>6 DEF KnowsAll
  <2> QED
    BY <1>8, <2>7 DEF ReadNodesConfig, Traced
<1>9. CASE ReadWarns
  BY <1>9, <1>t DEF ReadWarns, Traced
<1>10. CASE DeployDone
  <2>1. PICK p \in AccessNodes(net) :
          LET z == Deployed(net, p, Removed(p), Added(p))
          IN /\ DeployTo(z, p, Removed(p), Added(p))
             /\ \E how : Return({[attr |-> Stored(z), tainted |-> FALSE]}, how)
    BY <1>10 DEF DeployDone
  <2> DEFINE z == Deployed(net, p, Removed(p), Added(p))
  <2>2. KnowsAll(z, chain')
    BY <1>10, <1>t, <2>1, DeployedKnown DEF DeployDone
  <2>3. PartDone(p, Removed(p), Added(p))
    BY <2>1 DEF DeployTo, PartDone
  <2>4. z \in ZNet
    BY <1>t, <2>3, DeployedIds
  <2>5. saved' = {[attr |-> Stored(z), tainted |-> FALSE]} /\ pc' = "idle"
    BY <2>1 DEF Return
  <2> HIDE DEF z
  <2>6. Stored(z).ids = z.ids
    BY <2>4, StoredType
  <2> QED
    BY <2>2, <2>5, <2>6 DEF Traced, KnowsAll, Knows
<1>11. CASE DeployFails
  <2>1. PICK p \in AccessNodes(net) : FailLeaving(Deployed(net, p, {}, {}))
    BY <1>11 DEF DeployFails
  <2> DEFINE z == Deployed(net, p, {}, {})
  <2>2. z \in ZNet /\ z.ids = Live(net.ids)
    BY <1>t, NothingDeployed
  <2> HIDE DEF z
  <2>3. KnowsAll(z, chain) /\ UNCHANGED chain
    BY <1>11, <1>t, <1>n, <2>2, LiveKnown DEF DeployFails
  <2>4. KnowsAll(z, chain')
    BY <2>3 DEF KnowsAll
  <2> QED
    BY <2>1, <2>2, <2>4, FailLeavingKnown DEF z, Traced
<1>12. CASE DeployFailsUnreverted
  <2>1. PICK p, gone, added, z :
          p \in AccessNodes(net) /\ DeployTo(z, p, gone, added) /\ FailLeaving(z)
    BY <1>12 DEF DeployFailsUnreverted
  <2>2. KnowsAll(z, chain')
    BY <1>12, <1>t, <2>1, DeployedKnown DEF DeployFailsUnreverted
  <2>3. PartDone(p, gone, added) /\ z = Deployed(net, p, gone, added)
    BY <2>1 DEF DeployTo, PartDone
  <2>4. z \in ZNet
    BY <1>t, <2>3, DeployedIds
  <2> QED
    BY <2>1, <2>2, <2>4, FailLeavingKnown DEF Traced
<1>13. CASE CancelDone
  <2>1. chain' = [c \in DOMAIN chain \ {net.ids[n] : n \in DOMAIN net.ids} |-> chain[c]]
        /\ KnowsAll(net, chain)
    BY <1>13, <1>t DEF CancelDone
  <2>2. DOMAIN chain' = {}
    BY <2>1 DEF KnowsAll, Knows
  <2> QED
    BY <1>13, <2>2 DEF CancelDone, Return, Traced
<1>14. CASE CancelFails
  BY <1>14, <1>t DEF CancelFails, Return, Traced
<1>15. CASE NodeFlips
  BY <1>15, <1>t DEF NodeFlips, Traced
<1>16. CASE Expire
  <2>1. /\ DOMAIN chain' \subseteq DOMAIN chain /\ \A c \in DOMAIN chain' : chain'[c] = chain[c]
        /\ UNCHANGED <<saved, pc, net>>
    BY <1>16 DEF Expire
  <2> QED
    BY <1>t, <2>1 DEF Traced, KnowsAll
<1>17. CASE Killed
  BY <1>17 DEF Killed
<1>18. CASE UNCHANGED vars
  BY <1>18, <1>t DEF vars, Traced
<1> QED
  BY <1>1, <1>2, <1>3, <1>4, <1>5, <1>6, <1>7, <1>8, <1>9, <1>10, <1>11, <1>12, <1>13,
     <1>14, <1>15, <1>16, <1>17, <1>18, <1>load, <1>loadFails
  DEF Next, Plan, Call, Read

\* Unless Terraform was killed, the saved state names every live contract of the
\* network between applies, whatever the calls did, failed to do or reverted in part.
THEOREM ForgetsNone == Spec => []NoneForgotten
<1>1. TypeInv /\ [Next]_vars => TypeInv'
  BY NextType
<1>2. Init => TraceInv
  BY InitType, InitTraced DEF TraceInv
<1>3. TraceInv /\ [Next]_vars => TraceInv'
  BY <1>1, NextTraced DEF TraceInv
<1>4. TraceInv => NoneForgotten
  BY DEF TraceInv, Traced, Knows, NoneForgotten
<1> QED
  BY <1>2, <1>3, <1>4, PTL DEF Spec

----------------------------------------------------------------------------
(* What is applied is deployed *)

\* The network runs on the nodes of a block, on no other but the access node, and
\* the record has the nodes of the block.
RunsOn(z, nodes) ==
  /\ \A n \in nodes : n \in DOMAIN z.ids
  /\ \A n \in DOMAIN z.ids : z.ids[n] \in DOMAIN chain
  /\ DOMAIN z.ids \subseteq nodes \cup {z.public}
  /\ nodes \subseteq record

\* What is so on the way to a report: a plan is made of what a read without a
\* warning has seen, and a handler deploys what the block says.
Settling ==
  /\ pc # "idle" => report \in {"none", "warned"}
  /\ pc = "load" => op \in {"read", "delete"} \/ \E c \in config : net.nodes = c.nodes /\ net.wg = c.wg
  /\ pc = "deploy" => \E c \in config : net.nodes = c.nodes /\ net.wg = c.wg
  /\ pc = "plan" /\ report = "none" => \A s \in saved : RunsOn(s.attr, s.attr.nodes)

SettleInv == TypeInv /\ Settling /\ AppliedIsDeployed

LEMMA InitSettled == Init => Settling /\ AppliedIsDeployed
BY DEF Init, Settling, AppliedIsDeployed

\* A handler that returns without success settles nothing.
LEMMA UnsuccessfulReturn ==
  ASSUME NEW kept, NEW how, Return(kept, how), how # "ok"
  PROVE  Settling' /\ AppliedIsDeployed'
BY DEF Return, Settling, AppliedIsDeployed

\* Between two reports there is nothing applied.
LEMMA NothingApplied ==
  ASSUME Settling', pc' # "idle" \/ report' # "ok"
  PROVE  Settling' /\ AppliedIsDeployed'
BY DEF AppliedIsDeployed

LEMMA NextSettled == SettleInv /\ [Next]_vars => Settling' /\ AppliedIsDeployed'
<1> SUFFICES ASSUME SettleInv, [Next]_vars PROVE Settling' /\ AppliedIsDeployed'
  OBVIOUS
<1>t. /\ TypeInv /\ TypeOK /\ Settling /\ AppliedIsDeployed
      /\ \A c, d \in config : c = d
      /\ \A s, t \in saved : s = t
  BY DEF SettleInv, TypeInv, TypeOK, AtMostOne
<1>n. net \in ZNet /\ net.ids \in Ids
  BY <1>t DEF TypeOK, ZNet, Ids
<1>1. CASE Edit
  BY <1>1 DEF Edit, Settling, AppliedIsDeployed
<1>2. CASE Refresh
  BY <1>2 DEF Refresh, Settling, AppliedIsDeployed
<1>3. CASE PlanCreate
  <2>1. PICK c \in config : net' = Planned(NoNet, c)
    BY <1>3 DEF PlanCreate
  <2>2. net'.nodes = c.nodes /\ net'.wg = c.wg
    BY <1>t, <2>1, NoNetType, PlannedType DEF TypeOK, AtMostOne
  <2> QED
    BY <1>3, <2>2, NothingApplied DEF PlanCreate, Settling
<1>4. CASE PlanUpdate
  <2>1. PICK s \in saved, c \in config : net' = Planned(s.attr, c)
    BY <1>4 DEF PlanUpdate
  <2>2. net'.nodes = c.nodes /\ net'.wg = c.wg
    BY <1>t, <2>1, PlannedType DEF TypeOK, AtMostOne
  <2> QED
    BY <1>4, <1>t, <2>2, NothingApplied DEF PlanUpdate, Settling
<1>5. CASE PlanDelete
  BY <1>5, <1>t, NothingApplied DEF PlanDelete, Settling
<1>6. CASE PlanNothing
  <2>1. PICK s \in saved, c \in config : Planned(s.attr, c) = s.attr
    BY <1>6 DEF PlanNothing
  <2>planned. c.nodes = s.attr.nodes
    BY <1>t, <2>1, PlannedType DEF TypeOK, AtMostOne
  <2>2. report = "none" => RunsOn(s.attr, c.nodes)
    BY <1>6, <1>t, <2>planned DEF PlanNothing, Settling
  <2>3. config = {c} /\ UNCHANGED <<chain, config, record>>
    BY <1>6, <1>t DEF PlanNothing
  <2>4. Return(saved, IF report = "none" THEN "ok" ELSE report)
    BY <1>6 DEF PlanNothing
  <2>5. CASE report = "none"
    BY <2>2, <2>3, <2>4, <2>5 DEF Return, RunsOn, Settling, AppliedIsDeployed
  <2>6. CASE report = "warned"
    BY <2>4, <2>6, UnsuccessfulReturn
  <2> QED
    BY <1>6, <1>t, <2>5, <2>6 DEF PlanNothing, Settling
<1>load. CASE Load
  <2>1. pc' = CASE op = "read" -> "invalidate" [] op = "delete" -> "cancel" [] OTHER -> "deploy"
    BY <1>load DEF Load
  <2>2. pc' = "deploy" => \E c \in config : net.nodes = c.nodes /\ net.wg = c.wg
    BY <1>load, <1>t, <2>1 DEF Load, Settling
  <2>3. pc' \in {"invalidate", "cancel", "deploy"}
    BY <2>1
  <2> QED
    BY <1>load, <1>t, <2>2, <2>3, NothingApplied DEF Load, Settling
<1>loadFails. CASE LoadFails
  BY <1>loadFails, UnsuccessfulReturn DEF LoadFails
<1>7. CASE Invalidate
  BY <1>7, <1>t, NothingApplied DEF Invalidate, Settling
<1>8. CASE InvalidateFails
  BY <1>8, UnsuccessfulReturn DEF InvalidateFails
<1>9. CASE ReadNodesConfig
  <2> DEFINE z == [net EXCEPT !.ranges = DOMAIN net.ids]
  <2>1. DOMAIN net.ids \subseteq Node
    BY <1>n, IdsDef
  <2>2. z \in ZNet /\ z.ids = net.ids /\ z.ranges = DOMAIN net.ids
    BY <1>n, <2>1 DEF ZNet
  <2>3. /\ saved' = {[attr |-> Stored(z), tainted |-> s.tainted] : s \in saved}
        /\ record' = z.ranges /\ UNCHANGED <<chain, report>> /\ pc' = "plan"
    BY <1>9 DEF ReadNodesConfig, Recorded
  <2> HIDE DEF z
  <2>4. /\ Stored(z).ids = net.ids
        /\ Stored(z).nodes \subseteq DOMAIN net.ids
        /\ DOMAIN net.ids \subseteq Stored(z).nodes \cup {Stored(z).public}
    BY <2>2, StoredType
  <2>5. \A n \in DOMAIN net.ids : net.ids[n] \in DOMAIN chain
    BY <1>9 DEF ReadNodesConfig, CanRead
  <2>6. \A s \in saved' : s.attr = Stored(z)
    BY <2>3
  <2>7. \A s \in saved' : /\ \A n \in s.attr.nodes : n \in DOMAIN s.attr.ids
                          /\ \A n \in DOMAIN s.attr.ids : s.attr.ids[n] \in DOMAIN chain'
                          /\ DOMAIN s.attr.ids \subseteq s.attr.nodes \cup {s.attr.public}
                          /\ s.attr.nodes \subseteq record'
    BY <2>2, <2>3, <2>4, <2>5, <2>6
  <2> QED
    BY <1>9, <1>t, <2>3, <2>7, NothingApplied DEF ReadNodesConfig, Settling, RunsOn
<1>10. CASE ReadWarns
  BY <1>10, <1>t, NothingApplied DEF ReadWarns, Settling
<1>11. CASE DeployDone
  <2>1. PICK p \in AccessNodes(net) :
          LET z == Deployed(net, p, Removed(p), Added(p))
          IN /\ DeployTo(z, p, Removed(p), Added(p))
             /\ record' = Recorded(z)
             /\ Return({[attr |-> Stored(z), tainted |-> FALSE]},
                       IF report = "none" THEN "ok" ELSE report)
    BY <1>11 DEF DeployDone
  <2> DEFINE z == Deployed(net, p, Removed(p), Added(p))
  <2>2. PartDone(p, Removed(p), Added(p)) /\ \A n \in DOMAIN z.ids : z.ids[n] \in DOMAIN chain'
    BY <1>t, <2>1, DeployToChain DEF TypeInv
  <2>3. /\ z \in ZNet /\ z.public = p /\ z.ranges = Targets(net, p)
        /\ DOMAIN z.ids = (DOMAIN Live(net.ids) \ Removed(p)) \cup Added(p)
    BY <1>t, <2>2, DeployedIds
  <2>4. PICK c \in config : net.nodes = c.nodes /\ net.wg = c.wg
    BY <1>11, <1>t DEF DeployDone, Settling
  <2>5. config' = {c}
    BY <1>11, <1>t DEF DeployDone
  <2> HIDE DEF z
  <2>6. DOMAIN z.ids = Targets(net, p)
    BY <2>3 DEF Removed, Added
  <2>7. c.nodes \subseteq Targets(net, p) /\ Targets(net, p) \subseteq c.nodes \cup {p}
    BY <2>4 DEF Targets
  <2>8. Stored(z).ids = z.ids /\ Stored(z).public = z.public
    BY <2>3, StoredType
  <2>9. record' = Targets(net, p)
    BY <2>1, <2>3 DEF Recorded, z
  <2>10. Return({[attr |-> Stored(z), tainted |-> FALSE]}, IF report = "none" THEN "ok" ELSE report)
    BY <2>1 DEF z
  <2>11. AppliedIsDeployed'
    BY <2>2, <2>3, <2>5, <2>6, <2>7, <2>8, <2>9, <2>10 DEF Return, AppliedIsDeployed
  <2> QED
    BY <2>10, <2>11 DEF Return, Settling
<1>12. CASE DeployFails
  BY <1>12, UnsuccessfulReturn DEF DeployFails, FailLeaving
<1>13. CASE DeployFailsUnreverted
  BY <1>13, UnsuccessfulReturn DEF DeployFailsUnreverted, FailLeaving
<1>14. CASE CancelDone
  <2>1. PICK how : Return({}, how) /\ (how = "ok" => config = {}) /\ record' = {}
                   /\ UNCHANGED config
    BY <1>14, <1>t DEF CancelDone, Settling
  <2> QED
    BY <2>1 DEF Return, Settling, AppliedIsDeployed
<1>15. CASE CancelFails
  BY <1>15, UnsuccessfulReturn DEF CancelFails
<1>16. CASE NodeFlips
  BY <1>16, <1>t DEF NodeFlips, Settling, RunsOn, AppliedIsDeployed
<1>17. CASE Expire
  BY <1>17, <1>t, NothingApplied DEF Expire, Settling
<1>18. CASE Killed
  BY <1>18, UnsuccessfulReturn DEF Killed
<1>19. CASE UNCHANGED vars
  BY <1>19, <1>t DEF vars, Settling, RunsOn, AppliedIsDeployed
<1> QED
  BY <1>1, <1>2, <1>3, <1>4, <1>5, <1>6, <1>7, <1>8, <1>9, <1>10, <1>11, <1>12, <1>13,
     <1>14, <1>15, <1>16, <1>17, <1>18, <1>19, <1>load, <1>loadFails
  DEF Next, Plan, Call, Read

\* An apply that reports neither an error nor a warning leaves the network on the
\* nodes of the block, and their subnets in the record, whatever was left behind
\* by the applies before it.
THEOREM AppliedCorrect == Spec => []AppliedIsDeployed
<1>1. TypeInv /\ [Next]_vars => TypeInv'
  BY NextType
<1>2. Init => SettleInv
  BY InitType, InitSettled DEF SettleInv
<1>3. SettleInv /\ [Next]_vars => SettleInv'
  BY <1>1, NextSettled DEF SettleInv
<1>4. SettleInv => AppliedIsDeployed
  BY DEF SettleInv
<1> QED
  BY <1>2, <1>3, <1>4, PTL DEF Spec
============================================================================
