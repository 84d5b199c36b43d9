--------------------------- MODULE GatewayProofs ---------------------------
(***************************************************************************)
(* Theorems about the gateway resources, for every set of nodes and of     *)
(* backends, every kind of gateway, every number of contracts, every set   *)
(* of faults and every sequence of applies.                                *)
(***************************************************************************)
EXTENDS GatewayResource, TLAPS

GatewayIds == PartialFn(Node, 1..MaxContract)

----------------------------------------------------------------------------
(* Operators *)

LEMMA IdsDef ==
  ASSUME NEW f
  PROVE  f \in GatewayIds <=> DOMAIN f \subseteq Node /\ f \in [DOMAIN f -> 1..MaxContract]
BY DEF GatewayIds, PartialFn

LEMMA NoIdsType == NoIds \in GatewayIds
<1>1. DOMAIN NoIds = {} /\ NoIds \in [{} -> 1..MaxContract]
  BY DEF NoIds
<1> QED
  BY <1>1, IdsDef

LEMMA BlankType == Blank \in Gateway /\ Blank.ids = NoIds /\ Blank.nameId = NoName
<1>1. (CHOOSE n \in Node : TRUE) \in Node
  BY NodeAssumption
<1>2. NoName \in 0..MaxContract
  BY BoundAssumption DEF NoName
<1> QED
  BY <1>1, <1>2, NoIdsType DEF Blank, Gateway, GatewayIds

LEMMA LiveType ==
  ASSUME NEW ids \in GatewayIds
  PROVE  /\ Live(ids) \in GatewayIds
         /\ DOMAIN Live(ids) = {n \in DOMAIN ids : ids[n] \in DOMAIN chain}
         /\ \A n \in DOMAIN Live(ids) : Live(ids)[n] = ids[n]
<1>1. /\ DOMAIN Live(ids) = {n \in DOMAIN ids : ids[n] \in DOMAIN chain}
      /\ \A n \in DOMAIN Live(ids) : Live(ids)[n] = ids[n]
  BY DEF Live
<1>2. ids \in [DOMAIN ids -> 1..MaxContract] /\ DOMAIN ids \subseteq Node
  BY IdsDef
<1>3. Live(ids) \in [DOMAIN Live(ids) -> 1..MaxContract] /\ DOMAIN Live(ids) \subseteq Node
  BY <1>1, <1>2 DEF Live
<1> QED
  BY <1>1, <1>3, IdsDef

----------------------------------------------------------------------------
(* Type correctness *)

\* A gateway has at most one contract of a deployment, on the node it is known for,
\* and one of a name, which is no deployment.  None is yet to come.
Held(g, live, new) ==
  /\ g.nameId < new /\ g.nameId \notin DOMAIN live
  /\ \A n \in DOMAIN g.ids :
       g.ids[n] < new /\ (g.ids[n] \in DOMAIN live => live[g.ids[n]].node = n)
  /\ \A m, n \in DOMAIN g.ids : m = n

\* Only a block is deployed.
Blocked ==
  /\ pc = "load" => op \in {"read", "create", "update", "delete"}
  /\ pc = "deploy" => op \in {"create", "update"}
  /\ pc \in {"load", "deploy"} /\ op \in {"create", "update"} => gw.body # Empty

TypeInv ==
  /\ TypeOK /\ Blocked
  /\ Held(gw, chain, next)
  /\ \A s \in saved : Held(s, chain, next)

LEMMA StoredType ==
  ASSUME TypeOK, NEW g \in Gateway, NEW new, Held(g, chain, new), new > 0
  PROVE  Stored(g) \in Gateway /\ Held(Stored(g), chain, new)
<1>1. g.ids \in GatewayIds /\ g.nameId \in 0..MaxContract
  BY DEF Gateway, GatewayIds
<1>2. /\ Live(g.ids) \in GatewayIds
      /\ DOMAIN Live(g.ids) = {n \in DOMAIN g.ids : g.ids[n] \in DOMAIN chain}
      /\ \A n \in DOMAIN Live(g.ids) : Live(g.ids)[n] = g.ids[n]
  BY <1>1, LiveType
<1> DEFINE ids == Live(g.ids)
           name == IF g.nameId \in names THEN g.nameId ELSE NoName
           body == IF g.node \in DOMAIN Live(g.ids) THEN chain[g.ids[g.node]].body ELSE Empty
<1>3. body \in Body \cup Malformed \cup {Empty}
  <2>1. g.node \in DOMAIN Live(g.ids) => chain[g.ids[g.node]] \in Block
    BY <1>2 DEF TypeOK
  <2> QED
    BY <2>1 DEF Block
<1>4. NoName \in 0..MaxContract /\ NoName < new /\ NoName \notin DOMAIN chain
  BY BoundAssumption DEF NoName, TypeOK
<1>5. name \in {g.nameId, NoName}
  OBVIOUS
<1>6. Stored(g) = [g EXCEPT !.ids = ids, !.nameId = name, !.body = body]
  BY DEF Stored
<1>7. ids \in GatewayIds
  BY <1>2
<1> HIDE DEF ids, name, body
<1>8. Stored(g) \in Gateway /\ Stored(g).ids = ids /\ Stored(g).nameId = name
  BY <1>1, <1>3, <1>4, <1>5, <1>6, <1>7 DEF Gateway, GatewayIds
<1> QED
  BY <1>2, <1>4, <1>5, <1>8 DEF Held, ids

\* What any step does to the chain: contracts end, and those that begin are new.
Onward ==
  /\ next' \in 1..(MaxContract + 1) /\ next <= next'
  /\ names' \subseteq 1..(next' - 1)
  /\ DOMAIN chain' \subseteq 1..(next' - 1)
  /\ DOMAIN chain' \cap names' = {}
  /\ \A c \in DOMAIN chain' : chain'[c] \in Block
  /\ \A c \in DOMAIN chain' : c < next => c \in DOMAIN chain /\ chain'[c].node = chain[c].node

LEMMA FewerOnward ==
  ASSUME TypeOK, UNCHANGED next, DOMAIN chain' \subseteq DOMAIN chain,
         \A c \in DOMAIN chain' : chain'[c] = chain[c], names' \subseteq names
  PROVE  Onward
BY BoundAssumption DEF TypeOK, Onward

LEMMA CancelOnward ==
  ASSUME TypeOK, UNCHANGED next, NEW ids, NEW named, CancelParts(ids, named)
  PROVE  Onward
<1>1. DOMAIN chain' \subseteq DOMAIN chain /\ \A c \in DOMAIN chain' : chain'[c] = chain[c]
  BY DEF CancelParts, Without
<1>2. names' \subseteq names
  BY DEF CancelParts
<1> QED
  BY <1>1, <1>2, FewerOnward

\* What a deployment of done parts makes of the contracts: its own it changes in
\* place, or makes new.
LEMMA DeployOnward ==
  ASSUME TypeInv, gw.body # Empty, NEW done, "node" \in done => "name" \in done,
         DeployParts(done)
  PROVE  /\ Onward
         /\ Deployed \in Gateway
         /\ "node" \in done => Held(Deployed, chain', next')
         /\ DOMAIN Deployed.ids = {gw.node} /\ Deployed.node = gw.node /\ Deployed.body = gw.body
<1> DEFINE id == Deployed.ids[gw.node]
           left == IF "left" \in done THEN Ids(gw) \ {id} ELSE {}
           on == IF "node" \in done THEN {id} ELSE {}
           named == "name" \in done /\ NeedsName
<1>1. TypeOK /\ Held(gw, chain, next) /\ gw \in Gateway /\ gw.node \in Node
  BY DEF TypeInv, TypeOK, Gateway
<1>2. [node |-> gw.node, body |-> gw.body] \in Block
  BY <1>1 DEF Gateway, Block
<1>3. next \in Nat /\ next >= 1 /\ MaxContract \in Nat
  BY <1>1, BoundAssumption DEF TypeOK
<1>4. One(NeedsName) \in 0..1 /\ One(NeedsContract) \in 0..1
  BY DEF One
<1>5. next + One(NeedsName) + One(NeedsContract) <= MaxContract + 1
  BY DEF DeployParts, CanDeploy
<1>6. /\ names' = IF named THEN names \cup {Deployed.nameId} ELSE names
      /\ chain' = [c \in (DOMAIN chain \ left) \cup on |->
                     IF c \in on THEN [node |-> gw.node, body |-> gw.body] ELSE chain[c]]
      /\ next' = next + One(named) + One("node" \in done /\ NeedsContract)
  BY DEF DeployParts
<1> DEFINE newName == IF NeedsName THEN next ELSE gw.nameId
           newIds == [n \in {gw.node} |->
                        IF NeedsContract THEN next + One(NeedsName) ELSE gw.ids[n]]
<1>0. Deployed = [gw EXCEPT !.nameId = newName, !.ids = newIds]
  BY DEF Deployed
<1> HIDE DEF newName, newIds
<1>7. /\ Deployed.nameId = newName /\ Deployed.ids = newIds
      /\ Deployed.node = gw.node /\ Deployed.body = gw.body
      /\ newName \in 0..MaxContract /\ newIds \in GatewayIds => Deployed \in Gateway
  BY <1>0, <1>1 DEF Gateway, GatewayIds
<1> USE DEF newName, newIds
<1>8. id = IF NeedsContract THEN next + One(NeedsName) ELSE gw.ids[gw.node]
  BY <1>7
<1>9. ~NeedsContract => /\ gw.node \in DOMAIN gw.ids
                        /\ id \in DOMAIN chain /\ chain[id].node = gw.node
  BY <1>1, <1>8 DEF DeployParts, CanDeploy, NeedsContract, Held
<1> HIDE DEF id, left, on, named
<1>10. \A c \in DOMAIN chain : c \in Nat /\ c >= 1 /\ c < next /\ c \notin names
  BY <1>1, <1>3 DEF TypeOK
<1>11. \A c \in names : c \in Nat /\ c >= 1 /\ c < next
  BY <1>1, <1>3 DEF TypeOK
<1>12. id \in 1..MaxContract /\ gw.nameId \in 0..MaxContract /\ gw.nameId < next
  <2>1. CASE NeedsContract
    BY <1>1, <1>3, <1>4, <1>5, <1>8, <2>1 DEF One, Held, Gateway
  <2>2. CASE ~NeedsContract
    <3>1. next <= MaxContract + 1
      BY <1>1, <1>3 DEF TypeOK
    <3> QED
      BY <1>1, <1>3, <1>9, <1>10, <2>2, <3>1 DEF Held, Gateway
  <2> QED
    BY <2>1, <2>2
<1>13. Deployed \in Gateway /\ DOMAIN Deployed.ids = {gw.node}
  <2>1. Deployed.ids \in GatewayIds /\ DOMAIN Deployed.ids = {gw.node}
    <3>1. Deployed.ids[gw.node] \in 1..MaxContract
      BY <1>12 DEF id
    <3>2. Deployed.ids \in [{gw.node} -> 1..MaxContract]
      BY <1>7, <3>1
    <3> QED
      BY <1>1, <3>2, IdsDef
  <2>2. Deployed.nameId \in 0..MaxContract
    BY <1>3, <1>4, <1>5, <1>7, <1>12 DEF One
  <2> QED
    BY <1>7, <2>1, <2>2
<1>14. /\ named => NeedsName /\ next < next'
       /\ "node" \in done /\ NeedsContract => id < next' /\ id >= next /\ (NeedsName => id = next + 1)
       /\ next <= next' /\ next' <= MaxContract + 1 /\ next' \in Nat
  BY <1>3, <1>4, <1>5, <1>6, <1>8 DEF One, named
<1>15. on = {} \/ (on = {id} /\ "node" \in done)
  BY DEF on
<1>16. Deployed.nameId # id \/ "node" \notin done
  <2>1. CASE NeedsContract
    BY <1>3, <1>7, <1>12, <1>14, <2>1
  <2>2. CASE ~NeedsContract
    BY <1>1, <1>3, <1>7, <1>9, <1>10, <2>2 DEF Held
  <2> QED
    BY <2>1, <2>2
<1>17. names' \subseteq 1..(next' - 1)
  BY <1>3, <1>6, <1>7, <1>11, <1>14
<1>18. \A c \in DOMAIN chain' : c \in on \/ c \in DOMAIN chain
  BY <1>6
<1>19. DOMAIN chain' \subseteq 1..(next' - 1)
  <2>1. \A c \in on : c \in 1..(next' - 1)
    BY <1>3, <1>9, <1>10, <1>12, <1>14, <1>15
  <2>2. \A c \in DOMAIN chain : c \in 1..(next' - 1)
    BY <1>3, <1>10, <1>14
  <2> QED
    BY <1>18, <2>1, <2>2
<1>20. DOMAIN chain' \cap names' = {}
  <2>1. \A c \in on : c \notin names
    BY <1>3, <1>9, <1>10, <1>11, <1>14, <1>15
  <2>2. named => Deployed.nameId = next
    BY <1>7, <1>14
  <2>3. \A c \in on : named => c # Deployed.nameId
    BY <1>15, <1>16
  <2> QED
    BY <1>3, <1>6, <1>10, <1>18, <2>1, <2>2, <2>3
<1>21. \A c \in DOMAIN chain' : chain'[c] \in Block
  BY <1>1, <1>2, <1>6, <1>18 DEF TypeOK
<1>22. \A c \in DOMAIN chain' : c < next => c \in DOMAIN chain /\ chain'[c].node = chain[c].node
  <2>1. \A c \in on : c < next => c \in DOMAIN chain /\ chain[c].node = gw.node
    BY <1>3, <1>9, <1>12, <1>14, <1>15
  <2> QED
    BY <1>6, <1>18, <2>1
<1>23. ASSUME "node" \in done PROVE Held(Deployed, chain', next')
  <2>1. on = {id} /\ chain'[id].node = gw.node
    BY <1>6, <1>23 DEF on
  <2>2. id < next'
    BY <1>3, <1>9, <1>10, <1>14, <1>23
  <2>3. NeedsName => named
    BY <1>23 DEF named
  <2>4. Deployed.nameId < next'
    BY <1>3, <1>7, <1>12, <1>14, <2>3
  <2>5. Deployed.nameId \notin DOMAIN chain'
    BY <1>1, <1>3, <1>7, <1>10, <1>15, <1>16, <1>18, <1>23 DEF Held
  <2> QED
    BY <1>13, <2>1, <2>2, <2>4, <2>5 DEF Held, id
<1> HIDE DEF newName, newIds
<1>24. next' \in 1..(MaxContract + 1)
  BY <1>3, <1>14
<1>25. Onward
  BY <1>14, <1>17, <1>19, <1>20, <1>21, <1>22, <1>24 DEF Onward
<1> QED
  BY <1>7, <1>13, <1>23, <1>25

LEMMA StepOnward ==
  ASSUME TypeInv, [Next]_vars
  PROVE  Onward
<1>t. TypeOK /\ Blocked
  BY DEF TypeInv
<1>1. CASE UNCHANGED <<chain, names, next>>
  BY <1>1, <1>t, FewerOnward
<1>2. CASE Deploy
  BY <1>2, <1>t, DeployOnward DEF Deploy, Parts, Blocked
<1>3. CASE DeployFailsUnreverted
  BY <1>3, <1>t, DeployOnward DEF DeployFailsUnreverted, SomeParts, Blocked
<1>4. CASE Cancel \/ CancelFails
  BY <1>4, <1>t, CancelOnward DEF Cancel, CancelFails
<1>5. CASE Expire
  BY <1>5, <1>t, FewerOnward DEF Expire, Without
<1>6. CASE Killed
  <2>1. CASE pc = "deploy" /\ \E done \in SomeParts : DeployParts(done)
    BY <1>t, <2>1, DeployOnward DEF SomeParts, Blocked
  <2>2. CASE UNCHANGED next /\ \E ids \in SUBSET Ids(gw) : CancelParts(ids, FALSE)
    BY <1>t, <2>2, CancelOnward
  <2> QED
    BY <1>1, <1>6, <2>1, <2>2 DEF Killed
<1>7. CASE Edit \/ Refresh \/ Plan \/ Load \/ LoadFails \/ SyncRead \/ SyncReadFails \/ SyncApplied
           \/ SyncDeleted \/ SyncFails \/ DeployFails \/ NodeFlips \/ UNCHANGED vars
  <2>1. UNCHANGED <<chain, names, next>>
    BY <1>7 DEF Edit, Refresh, Plan, PlanCreate, PlanUpdate, PlanDelete, PlanNothing, DomainFails,
                Load, LoadFails, SyncRead, SyncReadFails, SyncApplied, SyncDeleted, SyncFails,
                DeployFails, NodeFlips, grid, vars
  <2> QED
    BY <1>1, <2>1
<1> QED
  BY <1>2, <1>3, <1>4, <1>5, <1>6, <1>7 DEF Next, Call

\* What was known of the contracts stays true.
LEMMA HeldKept ==
  ASSUME TypeOK, Onward, NEW g \in Gateway, Held(g, chain, next)
  PROVE  Held(g, chain', next')
<1>1. g.ids \in GatewayIds /\ g.nameId \in Nat
  BY BoundAssumption DEF Gateway, GatewayIds
<1>2. \A n \in DOMAIN g.ids : g.ids[n] \in Nat
  BY <1>1, IdsDef, BoundAssumption
<1>3. next \in Nat /\ next' \in Nat /\ next <= next'
  BY BoundAssumption DEF TypeOK, Onward
<1> QED
  BY <1>1, <1>2, <1>3 DEF Held, Onward

LEMMA BlankHeld == ASSUME NEW live, NEW new, new > 0, NoName \notin DOMAIN live
                   PROVE  Held(Blank, live, new)
BY BlankType DEF Held, NoIds, NoName

\* A step that leaves the handler something well typed to work on, and Terraform
\* something well typed, is well typed.
LEMMA TypeStep ==
  ASSUME TypeInv, Onward, UNCHANGED <<kind, faults>>, up' \subseteq Node, config' \in AtMostOne(Block),
         saved' \in AtMostOne(Gateway), gw' \in Gateway,
         \A g \in saved' \cup {gw'} : Held(g, chain', next'),
         pc' \in {"idle", "plan", "load", "sync", "deploy", "cancel"},
         op' \in {"none", "read", "create", "update", "delete"},
         report' \in {"none", "ok", "warned", "failed"},
         Blocked'
  PROVE  TypeInv'
<1>1. Held(gw', chain', next') /\ \A s \in saved' : Held(s, chain', next')
  OBVIOUS
<1>2. \A g \in saved' \cup {gw'} :
        /\ g.nameId \notin DOMAIN chain'
        /\ \A n \in {m \in DOMAIN g.ids : g.ids[m] \in DOMAIN chain'} : chain'[g.ids[n]].node = n
  BY DEF Held
<1>3. \A g \in saved' \cup {gw'} : \A n \in DOMAIN Live(g.ids)' : chain'[g.ids[n]].node = n
  BY <1>2 DEF Live
<1>4. DOMAIN chain' \subseteq 1..(next' - 1) \ names'
  BY DEF Onward
<1>5. TypeOK'
  BY <1>2, <1>3, <1>4 DEF TypeInv, TypeOK, Onward
<1> QED
  BY <1>1, <1>5 DEF TypeInv

\* The same for a handler that returns.
LEMMA ReturnType ==
  ASSUME TypeInv, Onward, NEW kept, NEW how, Return(kept, how),
         kept \in AtMostOne(Gateway), \A s \in kept : Held(s, chain', next'),
         how \in {"none", "ok", "warned", "failed"},
         UNCHANGED <<kind, faults, up, config>>
  PROVE  TypeInv'
<1>1. gw' = Blank /\ Blank \in Gateway /\ Held(Blank, chain', next')
  <2>1. next' > 0 /\ NoName \notin DOMAIN chain'
    BY BoundAssumption DEF Onward, NoName
  <2> QED
    BY <2>1, BlankType, BlankHeld DEF Return
<1>2. up' \subseteq Node /\ config' \in AtMostOne(Block) /\ saved' \in AtMostOne(Gateway)
      /\ \A g \in saved' \cup {gw'} : Held(g, chain', next')
  BY <1>1 DEF TypeInv, TypeOK, Return
<1>3. pc' = "idle" /\ op' = "none" /\ report' \in {"none", "ok", "warned", "failed"} /\ Blocked'
  BY DEF Return, Blocked
<1> QED
  BY <1>1, <1>2, <1>3, TypeStep

\* What Terraform has, and what the handler works on, stays well typed.
LEMMA GatewaysKept ==
  ASSUME TypeInv, Onward
  PROVE  /\ gw \in Gateway /\ Held(gw, chain', next')
         /\ saved \in AtMostOne(Gateway)
         /\ \A s \in saved : s \in Gateway /\ Held(s, chain', next')
<1>1. TypeOK /\ gw \in Gateway /\ \A s \in saved : s \in Gateway
  BY DEF TypeInv, TypeOK, AtMostOne
<1> QED
  BY <1>1, HeldKept DEF TypeInv, TypeOK

\* And an update that fails leaves a planned block beside the ids of before.
LEMMA FailType ==
  ASSUME TypeInv, Onward, Fail, UNCHANGED <<kind, faults, up, config>>
  PROVE  TypeInv'
<1> DEFINE paper(s) == [s EXCEPT !.node = gw.node, !.body = gw.body]
           kept == {paper(s) : s \in saved}
<1>1. /\ gw \in Gateway /\ saved \in AtMostOne(Gateway)
      /\ \A s \in saved : s \in Gateway /\ Held(s, chain', next')
  BY GatewaysKept
<1>2. \A s \in saved : /\ paper(s) \in Gateway
                       /\ paper(s).ids = s.ids /\ paper(s).nameId = s.nameId
  BY <1>1 DEF Gateway
<1>3. Return(kept, "failed")
  BY DEF Fail
<1> HIDE DEF paper
<1>4. kept \in AtMostOne(Gateway)
  BY <1>1, <1>2 DEF AtMostOne
<1>5. \A s \in kept : Held(s, chain', next')
  BY <1>1, <1>2 DEF Held
<1> HIDE DEF kept
<1> QED
  BY <1>3, <1>4, <1>5, ReturnType

LEMMA InitType == Init => TypeInv
<1> SUFFICES ASSUME Init PROVE TypeInv
  OBVIOUS
<1>1. next \in 1..(MaxContract + 1) /\ next > 0 /\ NoName \notin DOMAIN chain
  BY BoundAssumption DEF Init
<1>2. gw \in Gateway /\ Held(gw, chain, next) /\ gw.nameId = NoName /\ gw.ids = NoIds
  BY <1>1, BlankHeld, BlankType DEF Init
<1>3. \A n \in DOMAIN Live(gw.ids) : chain[gw.ids[n]].node = n
  BY <1>2 DEF Live, NoIds
<1>4. TypeOK
  BY <1>1, <1>2, <1>3 DEF Init, TypeOK, AtMostOne
<1> QED
  BY <1>2, <1>4 DEF Init, TypeInv, Blocked

LEMMA NextType == TypeInv /\ [Next]_vars => TypeInv'
<1> SUFFICES ASSUME TypeInv, [Next]_vars PROVE TypeInv'
  OBVIOUS
<1>o. Onward
  BY StepOnward
<1>f. UNCHANGED <<kind, faults>>
  BY DEF Next, vars
<1>g. /\ gw \in Gateway /\ Held(gw, chain', next')
      /\ saved \in AtMostOne(Gateway)
      /\ \A s \in saved : s \in Gateway /\ Held(s, chain', next')
  BY <1>o, GatewaysKept
<1>t. /\ up \subseteq Node /\ config \in AtMostOne(Block)
      /\ pc \in {"idle", "plan", "load", "sync", "deploy", "cancel"}
      /\ op \in {"none", "read", "create", "update", "delete"}
      /\ report \in {"none", "ok", "warned", "failed"}
      /\ Blocked /\ Done \in {"none", "ok", "warned", "failed"}
  BY DEF TypeInv, TypeOK, Done
<1>c. \A c \in config : c \in Block /\ c.node \in Node /\ c.body \in Body \cup Malformed /\ c.body # Empty
  BY <1>t, BodyAssumption DEF AtMostOne, Block
<1>1. CASE Edit
  BY <1>o, <1>f, <1>g, <1>t, <1>1, TypeStep DEF Edit, grid, Blocked
<1>2. CASE Refresh
  BY <1>o, <1>f, <1>g, <1>t, <1>2, TypeStep DEF Refresh, grid, Blocked
<1>3. CASE PlanCreate
  <2>1. PICK c \in config : gw' = [Blank EXCEPT !.node = c.node, !.body = c.body]
    BY <1>3 DEF PlanCreate
  <2>2. /\ gw' \in Gateway /\ gw'.ids = Blank.ids /\ gw'.nameId = Blank.nameId
        /\ gw'.body # Empty
    BY <1>c, <2>1, BlankType DEF Gateway
  <2>3. Held(gw', chain', next')
    <3>1. next' > 0 /\ NoName \notin DOMAIN chain'
      BY <1>o, BoundAssumption DEF Onward, NoName
    <3> QED
      BY <2>2, <3>1, BlankHeld DEF Held
  <2> QED
    BY <1>o, <1>f, <1>g, <1>t, <1>3, <2>2, <2>3, TypeStep DEF PlanCreate, grid, Blocked
<1>4. CASE PlanUpdate
  <2>1. PICK s \in saved, c \in config : gw' = [s EXCEPT !.node = c.node, !.body = c.body]
    BY <1>4 DEF PlanUpdate
  <2>2. /\ gw' \in Gateway /\ gw'.ids = s.ids /\ gw'.nameId = s.nameId
        /\ gw'.body # Empty
    BY <1>c, <1>g, <2>1 DEF Gateway
  <2>3. Held(gw', chain', next')
    BY <1>g, <2>2 DEF Held
  <2> QED
    BY <1>o, <1>f, <1>g, <1>t, <1>4, <2>2, <2>3, TypeStep DEF PlanUpdate, grid, Blocked
<1>5. CASE PlanDelete
  BY <1>o, <1>f, <1>g, <1>t, <1>5, TypeStep DEF PlanDelete, grid, Blocked
<1>6. CASE PlanNothing
  BY <1>o, <1>f, <1>g, <1>t, <1>6, ReturnType DEF PlanNothing, grid
<1>7. CASE DomainFails
  BY <1>o, <1>f, <1>g, <1>t, <1>7, ReturnType DEF DomainFails, grid
<1>8. CASE Load
  <2>1. /\ pc' \in {"sync", "cancel", "deploy"} /\ (pc' = "deploy" => op' \in {"create", "update"})
        /\ UNCHANGED <<up, config, saved, op, gw, report>>
    BY <1>8, <1>t DEF Load, grid, Blocked
  <2>2. Blocked'
    BY <1>8, <1>t, <2>1 DEF Load, Blocked
  <2> QED
    BY <1>o, <1>f, <1>g, <1>t, <2>1, <2>2, TypeStep
<1>9. CASE LoadFails \/ SyncFails \/ DeployFails
  BY <1>o, <1>f, <1>9, FailType DEF LoadFails, SyncFails, DeployFails, grid
<1>10. CASE SyncRead
  <2>1. /\ saved' = {Stored(gw)} /\ pc' = "plan"
        /\ UNCHANGED <<chain, next, up, config, op, gw, report>>
    BY <1>10 DEF SyncRead, grid
  <2>2. next > 0
    BY BoundAssumption DEF TypeInv, TypeOK
  <2>3. Stored(gw) \in Gateway /\ Held(Stored(gw), chain, next)
    BY <1>g, <2>2, StoredType DEF TypeInv
  <2>4. saved' \in AtMostOne(Gateway) /\ \A g \in saved' \cup {gw'} : Held(g, chain', next')
    BY <1>g, <2>1, <2>3 DEF AtMostOne
  <2> QED
    BY <1>o, <1>f, <1>g, <1>t, <2>1, <2>4, TypeStep DEF Blocked
<1>11. CASE SyncReadFails
  BY <1>o, <1>f, <1>g, <1>t, <1>11, TypeStep DEF SyncReadFails, grid, Blocked
<1>12. CASE SyncApplied
  <2>1. /\ Return({Stored(gw)}, Done)
        /\ UNCHANGED <<chain, next, up, config>>
    BY <1>12 DEF SyncApplied, grid
  <2>2. next > 0
    BY BoundAssumption DEF TypeInv, TypeOK
  <2>3. Stored(gw) \in Gateway /\ Held(Stored(gw), chain, next)
    BY <1>g, <2>2, StoredType DEF TypeInv
  <2>4. {Stored(gw)} \in AtMostOne(Gateway)
    BY <2>3 DEF AtMostOne
  <2> QED
    BY <1>o, <1>f, <1>t, <2>1, <2>3, <2>4, ReturnType
<1>13. CASE SyncDeleted
  <2>1. {} \in AtMostOne(Gateway)
    BY DEF AtMostOne
  <2> QED
    BY <1>o, <1>f, <1>t, <1>13, <2>1, ReturnType DEF SyncDeleted, grid
<1>14. CASE Deploy
  <2>1. Deployed \in Gateway /\ Held(Deployed, chain', next')
    BY <1>14, <1>t, DeployOnward DEF Deploy, Parts, Blocked
  <2> QED
    BY <1>o, <1>f, <1>g, <1>t, <1>14, <2>1, TypeStep DEF Deploy, Blocked
<1>15. CASE DeployFailsUnreverted
  BY <1>o, <1>f, <1>15, FailType DEF DeployFailsUnreverted
<1>16. CASE Cancel
  <2>1. gw' = [gw EXCEPT !.ids = NoIds, !.nameId = NoName]
    BY <1>16 DEF Cancel
  <2>2. gw' \in Gateway /\ gw'.ids = NoIds /\ gw'.nameId = NoName
    <3>1. NoIds \in GatewayIds /\ NoName \in 0..MaxContract
      BY NoIdsType, BlankType DEF Gateway
    <3> HIDE DEF NoIds, NoName
    <3> QED
      BY <1>g, <2>1, <3>1 DEF Gateway, GatewayIds
  <2>3. Held(gw', chain', next')
    BY <1>o, <2>2, BoundAssumption DEF Held, NoIds, NoName, Onward
  <2> QED
    BY <1>o, <1>f, <1>g, <1>t, <1>16, <2>2, <2>3, TypeStep DEF Cancel, Blocked
<1>17. CASE CancelFails
  BY <1>o, <1>f, <1>17, FailType DEF CancelFails
<1>18. CASE NodeFlips
  <2>1. up' \subseteq Node
    BY <1>18, <1>t DEF NodeFlips
  <2> QED
    BY <1>o, <1>f, <1>g, <1>t, <1>18, <2>1, TypeStep DEF NodeFlips, Blocked
<1>19. CASE Expire
  BY <1>o, <1>f, <1>g, <1>t, <1>19, TypeStep DEF Expire, Blocked
<1>20. CASE Killed
  BY <1>o, <1>f, <1>g, <1>20, ReturnType DEF Killed
<1>21. CASE UNCHANGED vars
  BY <1>o, <1>f, <1>g, <1>t, <1>21, TypeStep DEF vars, Blocked
<1> QED
  BY <1>1, <1>2, <1>3, <1>4, <1>5, <1>6, <1>7, <1>8, <1>9, <1>10, <1>11, <1>12, <1>13,
     <1>14, <1>15, <1>16, <1>17, <1>18, <1>19, <1>20, <1>21 DEF Next, Plan, Call

\* Every variable keeps its type under all faults: the saved ids are those of
\* contracts on the nodes they are saved for, as long as these live, and no contract
\* of a deployment is taken for one of a name.
THEOREM TypeCorrect == Spec => []TypeOK
<1>1. TypeInv => TypeOK
  BY DEF TypeInv
<1> QED
  BY <1>1, InitType, NextType, PTL DEF Spec

----------------------------------------------------------------------------
(* No contract is lost *)

\* The gateway has every contract.
Tracks(g, live, named) == (\A c \in DOMAIN live : c \in Ids(g)) /\ \A c \in named : g.nameId = c

\* Who has the contracts, at each call of each handler, while nothing comes between
\* their making and their storing.
Tracked ==
  /\ ~(pc = "sync" /\ op \in {"create", "update"}) =>
       /\ \A c \in DOMAIN chain : \E s \in saved : c \in Ids(s)
       /\ \A c \in names : \E s \in saved : s.nameId = c
  /\ pc \notin {"idle", "plan"} => Tracks(gw, chain, names)
  /\ pc = "sync" /\ op \in {"create", "update"} => CanSync
  /\ pc = "sync" /\ op = "delete" => DOMAIN chain = {} /\ names = {}

TrackInv == TypeInv /\ (TidyFaults => Tracked)

LEMMA InitTracked == Init => Tracked
BY DEF Init, Tracked

\* A handler that returns and keeps a resource with the contracts loses none.
LEMMA ReturnTracked ==
  ASSUME NEW kept, NEW how, Return(kept, how),
         \A c \in DOMAIN chain' : \E s \in kept : c \in Ids(s),
         \A c \in names' : \E s \in kept : s.nameId = c
  PROVE  Tracked'
BY DEF Return, Tracked

LEMMA FailTracked ==
  ASSUME TypeInv, Fail, DOMAIN chain' \subseteq DOMAIN chain, names' \subseteq names,
         \A c \in DOMAIN chain : \E s \in saved : c \in Ids(s),
         \A c \in names : \E s \in saved : s.nameId = c
  PROVE  Tracked'
<1> DEFINE paper(s) == [s EXCEPT !.node = gw.node, !.body = gw.body]
           kept == {paper(s) : s \in saved}
<1>1. \A s \in saved : Ids(paper(s)) = Ids(s) /\ paper(s).nameId = s.nameId
  BY DEF TypeInv, TypeOK, AtMostOne, Gateway, Ids
<1>2. Return(kept, "failed")
  BY DEF Fail
<1>3. \A s \in saved : paper(s) \in kept
  OBVIOUS
<1> HIDE DEF paper, kept
<1>4. ASSUME NEW c \in DOMAIN chain' PROVE \E s \in kept : c \in Ids(s)
  <2>1. PICK s \in saved : c \in Ids(s)
    OBVIOUS
  <2> QED
    BY <1>1, <1>3, <2>1
<1>5. ASSUME NEW c \in names' PROVE \E s \in kept : s.nameId = c
  <2>1. PICK s \in saved : s.nameId = c
    OBVIOUS
  <2> QED
    BY <1>1, <1>3, <2>1
<1> QED
  BY <1>2, <1>4, <1>5, ReturnTracked

LEMMA StoredTracks ==
  ASSUME TypeInv, Tracks(gw, chain, names)
  PROVE  Tracks(Stored(gw), chain, names)
<1>1. gw \in Gateway /\ gw.ids \in GatewayIds /\ NoName \notin DOMAIN chain
  BY DEF TypeInv, TypeOK, Gateway, GatewayIds, NoName
<1>2. Stored(gw).ids = Live(gw.ids) /\ Stored(gw).nameId = IF gw.nameId \in names THEN gw.nameId ELSE NoName
  BY <1>1 DEF Stored, Gateway
<1>3. ASSUME NEW c \in DOMAIN chain PROVE c \in Ids(Stored(gw))
  <2>1. PICK n \in DOMAIN gw.ids : gw.ids[n] = c
    BY DEF Tracks, Ids
  <2>2. n \in DOMAIN Live(gw.ids) /\ Live(gw.ids)[n] = c
    BY <1>1, <2>1, LiveType
  <2> QED
    BY <1>2, <2>2 DEF Ids
<1> QED
  BY <1>2, <1>3 DEF Tracks

\* A deployment that succeeds leaves its own contracts and no other.
LEMMA DeployedTracks ==
  ASSUME TypeInv, Tracks(gw, chain, names), DeployParts(Parts)
  PROVE  Tracks(Deployed, chain', names')
<1> DEFINE id == Deployed.ids[gw.node]
<1>1. /\ chain' = [c \in (DOMAIN chain \ (Ids(gw) \ {id})) \cup {id} |->
                     IF c \in {id} THEN [node |-> gw.node, body |-> gw.body] ELSE chain[c]]
      /\ names' = IF NeedsName THEN names \cup {Deployed.nameId} ELSE names
      /\ NeedsName => names = {}
  BY DEF DeployParts, Parts, CanDeploy
<1>2. gw \in Gateway
  BY DEF TypeInv, TypeOK
<1>3. gw.node \in DOMAIN Deployed.ids
  BY <1>2 DEF Deployed, Gateway
<1>4. ~NeedsName => Deployed.nameId = gw.nameId
  BY <1>2 DEF Deployed, Gateway
<1>5. id \in Ids(Deployed)
  BY <1>3 DEF Ids
<1> HIDE DEF id
<1>6. \A c \in DOMAIN chain' : c = id
  BY <1>1 DEF Tracks
<1>7. \A c \in names' : Deployed.nameId = c
  BY <1>1, <1>4 DEF Tracks
<1> QED
  BY <1>5, <1>6, <1>7 DEF Tracks

LEMMA NextTracked == TidyFaults /\ Tracked /\ TypeInv /\ [Next]_vars => Tracked'
<1> SUFFICES ASSUME TidyFaults, Tracked, TypeInv, [Next]_vars PROVE Tracked'
  OBVIOUS
<1>f. {"revert", "kill", "expire", "down", "sync"} \cap faults = {}
  BY DEF TidyFaults
<1>s. \A s, t \in saved : s = t
  BY DEF TypeInv, TypeOK, AtMostOne
<1>1. CASE Edit
  BY <1>1 DEF Edit, grid, Tracked
<1>2. CASE Refresh
  BY <1>2, <1>s DEF Refresh, grid, Tracked, Tracks
<1>3. CASE PlanCreate
  BY <1>3 DEF PlanCreate, Planning, grid, Tracked, Tracks
<1>4. CASE PlanUpdate
  <2>1. PICK s \in saved, c \in config : gw' = [s EXCEPT !.node = c.node, !.body = c.body]
    BY <1>4 DEF PlanUpdate
  <2>2. gw'.ids = s.ids /\ gw'.nameId = s.nameId /\ Ids(gw') = Ids(s)
    BY <2>1 DEF TypeInv, TypeOK, AtMostOne, Gateway, Ids
  <2> QED
    BY <1>4, <1>s, <2>2 DEF PlanUpdate, Planning, grid, Tracked, Tracks
<1>5. CASE PlanDelete
  BY <1>5, <1>s DEF PlanDelete, Planning, grid, Tracked, Tracks
<1>6. CASE PlanNothing \/ DomainFails
  BY <1>6, ReturnTracked DEF PlanNothing, DomainFails, Planning, grid, Tracked
<1>7. CASE Load
  <2>1. pc' = "sync" => op' = "read"
    BY <1>7 DEF Load
  <2> QED
    BY <1>7, <2>1 DEF Load, grid, Tracked
<1>8. CASE LoadFails \/ DeployFails \/ SyncFails
  <2>1. ~(pc = "sync" /\ op \in {"create", "update"})
    BY <1>8, <1>f DEF LoadFails, DeployFails, SyncFails, Tracked
  <2> QED
    BY <1>8, <2>1, FailTracked DEF LoadFails, DeployFails, SyncFails, grid, Tracked
<1>9. CASE SyncRead
  <2>1. Tracks(Stored(gw), chain, names)
    BY <1>9, StoredTracks DEF SyncRead, Tracked
  <2> QED
    BY <1>9, <2>1 DEF SyncRead, grid, Tracked, Tracks
<1>10. CASE SyncReadFails
  BY <1>10 DEF SyncReadFails, grid, Tracked
<1>11. CASE SyncApplied
  <2>1. Tracks(Stored(gw), chain, names)
    BY <1>11, StoredTracks DEF SyncApplied, Tracked
  <2>2. Return({Stored(gw)}, Done) /\ UNCHANGED <<chain, names>>
    BY <1>11 DEF SyncApplied, grid
  <2> QED
    BY <2>1, <2>2, ReturnTracked DEF Tracks
<1>12. CASE SyncDeleted
  BY <1>12 DEF SyncDeleted, Return, grid, Tracked
<1>13. CASE Deploy
  <2>1. Tracks(Deployed, chain', names')
    BY <1>13, DeployedTracks DEF Deploy, Tracked
  <2>2. /\ gw' = Deployed /\ pc' = "sync" /\ op' \in {"create", "update"} /\ UNCHANGED up
        /\ gw.node \in up /\ gw \in Gateway
    BY <1>13 DEF Deploy, DeployParts, CanDeploy, TypeInv, TypeOK, Blocked
  <2>3. DOMAIN Deployed.ids = {gw.node}
    BY <2>2 DEF Deployed, Gateway
  <2>4. CanSync'
    BY <2>2, <2>3 DEF CanSync, Live
  <2> QED
    BY <2>1, <2>2, <2>4 DEF Tracked
<1>14. CASE Cancel
  <2>1. /\ chain' = [c \in DOMAIN chain \ Ids(gw) |-> chain[c]] /\ names' = names \ {gw.nameId}
        /\ Tracks(gw, chain, names)
    BY <1>14 DEF Cancel, CancelParts, Without, Tracked
  <2>2. DOMAIN chain' = {} /\ names' = {}
    BY <2>1 DEF Tracks
  <2>3. pc' = "sync" /\ op' = op /\ (op' \in {"create", "update"} => CanSync')
    BY <1>14, <2>2 DEF Cancel, CanSync, Live
  <2> QED
    BY <2>2, <2>3 DEF Tracked, Tracks
<1>15. CASE CancelFails
  <2>1. DOMAIN chain' \subseteq DOMAIN chain /\ names' \subseteq names /\ Fail /\ pc = "cancel"
    BY <1>15 DEF CancelFails, CancelParts, Without
  <2> QED
    BY <2>1, FailTracked DEF Tracked
<1>16. CASE DeployFailsUnreverted \/ NodeFlips \/ Expire \/ Killed
  BY <1>16, <1>f DEF DeployFailsUnreverted, NodeFlips, Expire, Killed
<1>17. CASE UNCHANGED vars
  BY <1>17 DEF vars, Tracked, CanSync, Live
<1> QED
  BY <1>1, <1>2, <1>3, <1>4, <1>5, <1>6, <1>7, <1>8, <1>9, <1>10, <1>11, <1>12, <1>13,
     <1>14, <1>15, <1>16, <1>17 DEF Next, Plan, Call

\* No contract of a node or of a name is lost between applies while no failure
\* comes between the making of a contract and its storing: malformed blocks, moves,
\* deployments that are reverted and cancellations that fail half way lose none.
THEOREM TracksContracts == Spec => []ContractsTracked
<1>1. Init => TrackInv
  BY InitType, InitTracked DEF TrackInv
<1>2. TrackInv /\ [Next]_vars => TrackInv'
  <2>1. [Next]_vars => (TidyFaults' <=> TidyFaults)
    BY DEF Next, vars, TidyFaults
  <2> QED
    BY <2>1, NextType, NextTracked DEF TrackInv
<1>3. TrackInv => ContractsTracked
  BY DEF TrackInv, Tracked, ContractsTracked
<1> QED
  BY <1>1, <1>2, <1>3, PTL DEF Spec

----------------------------------------------------------------------------
(* What is applied is deployed *)

\* A gateway that has a contract of a deployment has its name.
Named(g, live, named) == \A n \in DOMAIN g.ids : g.ids[n] \in DOMAIN live => g.nameId \in named
Naming == kind # "fqdn" /\ "expire" \notin faults

\* All its contracts live, and its backends are those the node of the block runs.
Seen(g, live) ==
  /\ \A n \in DOMAIN g.ids : g.ids[n] \in DOMAIN live
  /\ g.body = IF g.node \in DOMAIN g.ids THEN live[g.ids[g.node]].body ELSE Empty

\* The block runs on its node and nowhere else.
Runs(g, live) ==
  /\ DOMAIN g.ids = {g.node} /\ g.ids[g.node] \in DOMAIN live
  /\ live[g.ids[g.node]] = [node |-> g.node, body |-> g.body]

\* What is so on the way to a report.
Settling ==
  /\ pc # "idle" => report \in {"none", "warned"}
  /\ pc # "idle" /\ op = "delete" => config = {}
  /\ pc \in {"load", "deploy", "sync"} /\ op \in {"create", "update"} =>
       [node |-> gw.node, body |-> gw.body] \in config
  /\ pc = "cancel" => op = "delete" /\ gw \in saved
  /\ pc = "load" /\ op = "delete" => gw \in saved
  /\ pc = "plan" /\ report = "none" => \A s \in saved : Seen(s, chain)
  /\ pc = "sync" /\ op \in {"create", "update"} /\ report = "none" => Runs(gw, chain)
  /\ Naming => Named(gw, chain, names) /\ \A s \in saved : Named(s, chain, names)

SettleInv == TypeInv /\ Settling /\ AppliedIsDeployed

LEMMA InitSettled == Init => Settling /\ AppliedIsDeployed
BY BlankType DEF Init, Settling, Naming, Named, NoIds, AppliedIsDeployed

\* Names are kept for the contracts that need one, whatever a step does but end names.
LEMMA NamedKept ==
  ASSUME TypeOK, Onward, NEW g \in Gateway, Held(g, chain, next), Named(g, chain, names),
         g.nameId \in names => g.nameId \in names'
  PROVE  Named(g, chain', names')
BY DEF Onward, Held, Named

\* A handler that returns without success settles nothing but the names.
LEMMA UnsuccessfulReturn ==
  ASSUME NEW kept, NEW how, Return(kept, how), how # "ok",
         Naming' => \A s \in kept : Named(s, chain', names')
  PROVE  Settling' /\ AppliedIsDeployed'
<1>1. Named(Blank, chain', names')
  BY BlankType DEF Named, NoIds
<1> QED
  BY <1>1 DEF Return, Settling, AppliedIsDeployed

\* Nor does one that fails.
LEMMA FailSettles ==
  ASSUME TypeInv, Onward, Fail, Naming' => \A s \in saved : Named(s, chain', names')
  PROVE  Settling' /\ AppliedIsDeployed'
<1> DEFINE paper(s) == [s EXCEPT !.node = gw.node, !.body = gw.body]
           kept == {paper(s) : s \in saved}
<1>1. \A s \in saved : paper(s).ids = s.ids /\ paper(s).nameId = s.nameId
  BY DEF TypeInv, TypeOK, AtMostOne, Gateway
<1>2. Return(kept, "failed")
  BY DEF Fail
<1> HIDE DEF paper
<1>3. Naming' => \A s \in kept : Named(s, chain', names')
  BY <1>1 DEF Named
<1> HIDE DEF kept
<1> QED
  BY <1>2, <1>3, UnsuccessfulReturn

\* What is stored of a gateway is what is seen of it.
LEMMA StoredSeen ==
  ASSUME TypeInv
  PROVE  /\ Seen(Stored(gw), chain)
         /\ Named(gw, chain, names) => Named(Stored(gw), chain, names)
<1>1. gw \in Gateway /\ gw.ids \in GatewayIds
  BY DEF TypeInv, TypeOK, Gateway, GatewayIds
<1>2. /\ DOMAIN Live(gw.ids) = {n \in DOMAIN gw.ids : gw.ids[n] \in DOMAIN chain}
      /\ \A n \in DOMAIN Live(gw.ids) : Live(gw.ids)[n] = gw.ids[n]
  BY <1>1, LiveType
<1>3. /\ Stored(gw).ids = Live(gw.ids) /\ Stored(gw).node = gw.node
      /\ Stored(gw).nameId = IF gw.nameId \in names THEN gw.nameId ELSE NoName
      /\ Stored(gw).body = IF gw.node \in DOMAIN Live(gw.ids) THEN chain[gw.ids[gw.node]].body
                           ELSE Empty
  BY <1>1 DEF Stored, Gateway
<1> QED
  BY <1>2, <1>3 DEF Seen, Named

\* A gateway whose contracts were all seen to live, with the backends of a block,
\* runs that block.
LEMMA SeenRuns ==
  ASSUME TypeInv, NEW s \in Gateway, Held(s, chain, next), Seen(s, chain), s.body # Empty
  PROVE  Runs(s, chain)
<1>1. s.node \in DOMAIN s.ids /\ s.body = chain[s.ids[s.node]].body
  BY DEF Seen
<1>2. DOMAIN s.ids = {s.node}
  BY <1>1 DEF Held
<1>3. s.ids[s.node] \in DOMAIN chain /\ chain[s.ids[s.node]].node = s.node
  BY <1>1 DEF Held, Seen
<1>4. chain[s.ids[s.node]] \in Block
  BY <1>3 DEF TypeInv, TypeOK
<1>5. chain[s.ids[s.node]] = [node |-> s.node, body |-> s.body]
  BY <1>1, <1>3, <1>4 DEF Block
<1> QED
  BY <1>2, <1>3, <1>5 DEF Runs

\* A deployment that succeeds runs the block.
LEMMA DeployedRuns ==
  ASSUME TypeInv, gw.body # Empty, DeployParts(Parts)
  PROVE  Runs(Deployed, chain') /\ (Naming /\ Named(gw, chain, names) => Named(Deployed, chain', names'))
<1> DEFINE id == Deployed.ids[gw.node]
<1>1. /\ chain' = [c \in (DOMAIN chain \ (Ids(gw) \ {id})) \cup {id} |->
                     IF c \in {id} THEN [node |-> gw.node, body |-> gw.body] ELSE chain[c]]
      /\ names' = IF NeedsName THEN names \cup {Deployed.nameId} ELSE names
  BY DEF DeployParts, Parts
<1>2. DOMAIN Deployed.ids = {gw.node} /\ Deployed.node = gw.node /\ Deployed.body = gw.body
  BY DeployOnward DEF Parts
<1>3. gw \in Gateway
  BY DEF TypeInv, TypeOK
<1>4. ~NeedsName => Deployed.nameId = gw.nameId
  BY <1>3 DEF Deployed, Gateway
<1>5. Naming => Deployed.nameId \in names'
  BY <1>1, <1>4 DEF NeedsName, Naming
<1> HIDE DEF id
<1>6. id \in DOMAIN chain' /\ chain'[id] = [node |-> gw.node, body |-> gw.body]
  BY <1>1
<1> QED
  BY <1>2, <1>5, <1>6 DEF Runs, Named, id

LEMMA NextSettled == SettleInv /\ [Next]_vars => Settling' /\ AppliedIsDeployed'
<1> SUFFICES ASSUME SettleInv, [Next]_vars PROVE Settling' /\ AppliedIsDeployed'
  OBVIOUS
<1>t. TypeInv /\ TypeOK /\ Blocked /\ Settling /\ AppliedIsDeployed
  BY DEF SettleInv, TypeInv
<1>o. Onward
  BY <1>t, StepOnward
<1>f. kind' = kind /\ faults' = faults /\ Naming' = Naming
  BY DEF Next, vars, Naming
<1>s. /\ \A s, t \in saved : s = t
      /\ \A c, k \in config : c = k
      /\ \A s \in saved : s \in Gateway /\ Held(s, chain, next)
      /\ gw \in Gateway /\ Held(gw, chain, next)
  BY <1>t DEF TypeInv, TypeOK, AtMostOne
<1>c. \A c \in config : c \in Block /\ c.body # Empty /\ c = [node |-> c.node, body |-> c.body]
  BY <1>t, BodyAssumption DEF TypeOK, AtMostOne, Block
<1>m. Naming /\ names \subseteq names' =>
        Named(gw, chain', names') /\ \A s \in saved : Named(s, chain', names')
  BY <1>t, <1>o, <1>s, NamedKept DEF Settling
<1>b. Naming => Named(Blank, chain', names')
  BY BlankType DEF Named, NoIds
<1>1. CASE Edit
  BY <1>1, <1>f, <1>t DEF Edit, grid, Settling, AppliedIsDeployed
<1>2. CASE Refresh
  <2>1. \E s \in saved : gw' = s
    BY <1>2 DEF Refresh
  <2> QED
    BY <1>2, <1>f, <1>m, <2>1 DEF Refresh, grid, Settling, AppliedIsDeployed
<1>3. CASE PlanCreate
  <2>1. PICK c \in config : gw' = [Blank EXCEPT !.node = c.node, !.body = c.body]
    BY <1>3 DEF PlanCreate
  <2>2. gw'.node = c.node /\ gw'.body = c.body /\ gw'.ids = NoIds
    BY <2>1, BlankType DEF Gateway
  <2>3. [node |-> gw'.node, body |-> gw'.body] \in config /\ Named(gw', chain', names')
    BY <1>c, <2>2 DEF Named, NoIds
  <2> QED
    BY <1>3, <1>f, <1>m, <2>3 DEF PlanCreate, grid, Settling, AppliedIsDeployed
<1>4. CASE PlanUpdate
  <2>1. PICK s \in saved, c \in config : gw' = [s EXCEPT !.node = c.node, !.body = c.body]
    BY <1>4 DEF PlanUpdate
  <2>2. gw'.node = c.node /\ gw'.body = c.body /\ gw'.ids = s.ids /\ gw'.nameId = s.nameId
    BY <1>s, <2>1 DEF Gateway
  <2>3. [node |-> gw'.node, body |-> gw'.body] \in config
    BY <1>c, <2>2
  <2>4. Naming => Named(gw', chain', names')
    BY <1>4, <1>m, <2>2 DEF PlanUpdate, grid, Named
  <2>5. pc = "plan"
    BY <1>4 DEF PlanUpdate, Planning
  <2> QED
    BY <1>4, <1>f, <1>m, <1>t, <2>3, <2>4, <2>5 DEF PlanUpdate, grid, Settling, AppliedIsDeployed
<1>5. CASE PlanDelete
  <2>1. (\E s \in saved : gw' = s) /\ pc = "plan"
    BY <1>5 DEF PlanDelete, Planning
  <2> QED
    BY <1>5, <1>f, <1>m, <1>t, <2>1 DEF PlanDelete, grid, Settling, AppliedIsDeployed
<1>6. CASE PlanNothing
  <2>1. PICK s \in saved, c \in config : c.node = s.node /\ c.body = s.body
    BY <1>6 DEF PlanNothing
  <2>2. pc = "plan" /\ Return(saved, Done) /\ UNCHANGED <<chain, names, config>>
    BY <1>6, <2>1 DEF PlanNothing, Planning, grid
  <2>3. CASE report = "none"
    <3>1. Runs(s, chain)
      BY <1>c, <1>s, <1>t, <2>1, <2>2, <2>3, SeenRuns DEF Settling
    <3>2. config' = {c} /\ c = [node |-> s.node, body |-> s.body] /\ saved' = saved
      BY <1>c, <1>s, <2>1, <2>2 DEF Return
    <3>3. Naming => s.nameId \in names
      BY <1>t, <3>1 DEF Runs, Settling, Named
    <3>4. AppliedIsDeployed'
      BY <1>f, <2>2, <3>1, <3>2, <3>3 DEF Runs, AppliedIsDeployed, Naming
    <3> QED
      BY <1>b, <1>f, <1>m, <2>2, <3>4 DEF Return, Settling
  <2>4. CASE report = "warned"
    BY <1>f, <1>m, <2>2, <2>4, UnsuccessfulReturn DEF Done
  <2> QED
    BY <1>t, <2>2, <2>3, <2>4 DEF Settling
<1>7. CASE DomainFails
  BY <1>7, <1>f, <1>m, UnsuccessfulReturn DEF DomainFails, grid
<1>8. CASE Load
  <2>1. /\ pc = "load"
        /\ pc' = CASE op = "read" -> "sync" [] op = "delete" -> "cancel" [] OTHER -> "deploy"
        /\ UNCHANGED <<chain, names, config, saved, op, gw, report>>
    BY <1>8 DEF Load, grid
  <2>2. pc' \in {"sync", "cancel", "deploy"} /\ (pc' = "sync" => op = "read")
        /\ (pc' = "cancel" => op = "delete")
    BY <2>1
  <2> QED
    BY <1>f, <1>m, <1>t, <2>1, <2>2 DEF Settling, AppliedIsDeployed
<1>9. CASE LoadFails \/ SyncFails \/ DeployFails
  BY <1>9, <1>f, <1>m, <1>o, <1>t, FailSettles DEF LoadFails, SyncFails, DeployFails, grid
<1>10. CASE SyncRead
  <2>1. /\ saved' = {Stored(gw)} /\ pc' = "plan" /\ op = "read"
        /\ UNCHANGED <<chain, names, config, op, gw, report>> /\ pc = "sync"
    BY <1>10 DEF SyncRead, grid
  <2> QED
    BY <1>f, <1>m, <1>t, <2>1, StoredSeen DEF Settling, AppliedIsDeployed
<1>11. CASE SyncReadFails
  BY <1>11, <1>f, <1>m, <1>t DEF SyncReadFails, grid, Settling, AppliedIsDeployed
<1>12. CASE SyncApplied
  <2>1. /\ Return({Stored(gw)}, Done) /\ UNCHANGED <<chain, names, config>>
        /\ pc = "sync" /\ op \in {"create", "update"}
    BY <1>12 DEF SyncApplied, grid
  <2>2. Seen(Stored(gw), chain) /\ (Naming => Named(Stored(gw), chain, names))
    BY <1>t, StoredSeen DEF Settling
  <2>3. CASE report = "none"
    <3> DEFINE k == [node |-> gw.node, body |-> gw.body]
    <3>1. config = {k} /\ Runs(gw, chain)
      BY <1>s, <1>t, <2>1, <2>3 DEF Settling
    <3>2. gw.ids \in GatewayIds
      BY <1>s DEF Gateway, GatewayIds
    <3>3. /\ DOMAIN Stored(gw).ids = {gw.node}
          /\ Stored(gw).ids[gw.node] = gw.ids[gw.node]
      <4>1. Stored(gw).ids = Live(gw.ids)
        BY <1>s DEF Stored, Gateway
      <4> QED
        BY <3>1, <3>2, <4>1, LiveType DEF Runs
    <3>4. Naming => Stored(gw).nameId \in names
      BY <2>2, <3>1, <3>3 DEF Runs, Named
    <3>5. AppliedIsDeployed'
      <4>1. saved' = {Stored(gw)} /\ config' = {k} /\ chain' = chain /\ names' = names
        BY <2>1, <3>1 DEF Return
      <4> QED
        BY <1>f, <3>1, <3>3, <3>4, <4>1 DEF Runs, AppliedIsDeployed, Naming
    <3> QED
      BY <1>b, <1>f, <2>1, <2>2, <3>5 DEF Return, Settling
  <2>4. CASE report = "warned"
    BY <1>f, <2>1, <2>2, <2>4, UnsuccessfulReturn DEF Done
  <2> QED
    BY <1>t, <2>1, <2>3, <2>4 DEF Settling
<1>13. CASE SyncDeleted
  <2>1. /\ Return({}, Done) /\ UNCHANGED config /\ config = {}
    BY <1>13, <1>t DEF SyncDeleted, Settling
  <2> QED
    BY <1>b, <1>f, <2>1 DEF Return, Settling, AppliedIsDeployed
<1>14. CASE Deploy
  <2>1. /\ DeployParts(Parts) /\ gw' = Deployed /\ pc' = "sync" /\ pc = "deploy"
        /\ UNCHANGED <<config, saved, op, report>>
    BY <1>14 DEF Deploy
  <2>2. /\ gw.body # Empty /\ op \in {"create", "update"}
        /\ [node |-> gw.node, body |-> gw.body] \in config
    BY <1>t, <2>1 DEF Blocked, Settling
  <2>3. gw'.node = gw.node /\ gw'.body = gw.body
    BY <1>t, <2>1, <2>2, DeployOnward DEF Parts
  <2>4. Runs(gw', chain') /\ (Naming => Named(gw', chain', names'))
    BY <1>t, <2>1, <2>2, DeployedRuns DEF Settling
  <2>5. names \subseteq names'
    BY <2>1 DEF DeployParts
  <2> QED
    BY <1>f, <1>m, <1>t, <2>1, <2>2, <2>3, <2>4, <2>5 DEF Settling, AppliedIsDeployed
<1>15. CASE DeployFailsUnreverted
  <2>1. names \subseteq names' /\ Fail
    BY <1>15 DEF DeployFailsUnreverted, DeployParts
  <2> QED
    BY <1>f, <1>m, <1>o, <1>t, <2>1, FailSettles
<1>16. CASE Cancel
  <2>1. /\ chain' = [c \in DOMAIN chain \ Ids(gw) |-> chain[c]]
        /\ gw' = [gw EXCEPT !.ids = NoIds, !.nameId = NoName]
        /\ pc' = "sync" /\ pc = "cancel" /\ UNCHANGED <<config, saved, op, report>>
    BY <1>16 DEF Cancel, CancelParts, Without
  <2>2. op = "delete" /\ gw \in saved
    BY <1>t, <2>1 DEF Settling
  <2>3. Named(gw, chain', names')
    BY <2>1 DEF Named, Ids
  <2>4. Named(gw', chain', names')
    BY <1>s, <2>1 DEF Named, NoIds, Gateway
  <2> QED
    BY <1>f, <1>s, <1>t, <2>1, <2>2, <2>3, <2>4 DEF Settling, AppliedIsDeployed
<1>17. CASE CancelFails
  <2>1. names \subseteq names' /\ Fail
    BY <1>17 DEF CancelFails, CancelParts
  <2> QED
    BY <1>f, <1>m, <1>o, <1>t, <2>1, FailSettles
<1>18. CASE NodeFlips
  BY <1>18, <1>f, <1>t DEF NodeFlips, Settling, AppliedIsDeployed
<1>19. CASE Expire
  BY <1>19, <1>f, <1>t DEF Expire, Naming, Settling, AppliedIsDeployed
<1>20. CASE Killed
  <2>1. names \subseteq names' /\ Return(saved, "failed")
    BY <1>20 DEF Killed, DeployParts, CancelParts
  <2> QED
    BY <1>f, <1>m, <2>1, UnsuccessfulReturn
<1>21. CASE UNCHANGED vars
  BY <1>21, <1>f, <1>t DEF vars, Settling, AppliedIsDeployed
<1> QED
  BY <1>1, <1>2, <1>3, <1>4, <1>5, <1>6, <1>7, <1>8, <1>9, <1>10, <1>11, <1>12, <1>13,
     <1>14, <1>15, <1>16, <1>17, <1>18, <1>19, <1>20, <1>21 DEF Next, Plan, Call

\* An apply that reports neither an error nor a warning leaves the gateway on the
\* node of its block alone, with its backends and, unless the chain ends contracts,
\* under a live name, whatever was left behind by the applies before it.
THEOREM AppliedCorrect == Spec => []AppliedIsDeployed
<1>1. Init => SettleInv
  BY InitType, InitSettled DEF SettleInv
<1>2. SettleInv /\ [Next]_vars => SettleInv'
  BY NextType, NextSettled DEF SettleInv
<1>3. SettleInv => AppliedIsDeployed
  BY DEF SettleInv
<1> QED
  BY <1>1, <1>2, <1>3, PTL DEF Spec
============================================================================
