-------------------------- MODULE DeploymentProofs --------------------------
(***************************************************************************)
(* Theorems about the deployment resource, for every set of nodes and of   *)
(* contents, every number of contracts and every sequence of applies.      *)
(***************************************************************************)
EXTENDS DeploymentResource, TLAPS

LEMMA BlankType == Blank \in Attributes
BY NodeAssumption DEF Blank, Attributes, NoId

LEMMA InitType == Init => TypeOK
<1> SUFFICES ASSUME Init PROVE TypeOK
  OBVIOUS
<1>1. next \in 1..(MaxContract + 1)
  BY BoundAssumption DEF Init
<1> QED
  BY <1>1, BlankType DEF Init, TypeOK, NoId

\* What a handler may leave behind is well typed.
LEMMA ReturnType ==
  ASSUME TypeOK, NEW kept, NEW how, Return(kept, how),
         how \in {"none", "ok", "warned", "failed"},
         kept \subseteq Attributes, \A s, t \in kept : s = t,
         UNCHANGED <<faults, chain, up, config>>, UNCHANGED next
  PROVE  TypeOK'
BY BlankType DEF TypeOK, Return

LEMMA StoredType ==
  ASSUME TypeOK, NEW id \in {NoId} \cup Nat
  PROVE  Stored(id) \in Attributes
BY DEF TypeOK, Stored, Attributes, Zero, NoId

\* Fail leaves the resource as it was saved, or the ResourceData of the handler.
LEMMA FailType ==
  ASSUME TypeOK, Fail, UNCHANGED <<faults, chain, next, up, config>>
  PROVE  TypeOK'
<1>1. Keep(d) \subseteq Attributes /\ \A s, t \in Keep(d) : s = t
  BY DEF TypeOK, Keep
<1> QED
  BY <1>1, ReturnType DEF Fail, TypeOK

\* A contract that is created or changed is well typed.
LEMMA WithType ==
  ASSUME TypeOK, NEW id, NEW n \in Node, NEW b \in Body \cup {Empty}
  PROVE  /\ DOMAIN With(id, n, b) = DOMAIN chain \cup {id}
         /\ \A c \in DOMAIN With(id, n, b) :
              With(id, n, b)[c] \in [node : Node, body : Body \cup {Empty}]
BY DEF TypeOK, With

LEMMA WithoutType ==
  ASSUME TypeOK, NEW id
  PROVE  /\ DOMAIN Without(id) = DOMAIN chain \ {id}
         /\ \A c \in DOMAIN Without(id) : Without(id)[c] = chain[c]
BY DEF Without

\* The configuration holds one block or none.
LEMMA ConfigType ==
  ASSUME TypeOK, NEW c \in config
  PROVE  c \in [node : Node, body : Body]
BY DEF TypeOK, AtMostOne

LEMMA NextType == TypeOK /\ [Next]_vars => TypeOK'
<1> SUFFICES ASSUME TypeOK, [Next]_vars PROVE TypeOK'
  OBVIOUS
<1> faults' = faults
  BY DEF Next, vars
<1>ids. DOMAIN chain \subseteq Nat \ {0} /\ next \in Nat \ {0}
  BY BoundAssumption DEF TypeOK
<1>1. CASE Edit
  BY <1>1 DEF Edit, TypeOK
<1>2. CASE Refresh
  BY <1>2 DEF Refresh, TypeOK
<1>3. CASE PlanCreate
  <2>1. PICK c \in config : d' = [id |-> NoId, node |-> c.node, body |-> c.body]
    BY <1>3 DEF PlanCreate
  <2>2. d' \in Attributes /\ d'.id = NoId
    BY <2>1, ConfigType DEF Attributes
  <2> QED
    BY <1>3, <2>2 DEF PlanCreate, TypeOK
<1>4. CASE PlanUpdate
  <2>1. PICK s \in saved, c \in config :
          /\ d' = [id |-> s.id, node |-> c.node, body |-> c.body]
          /\ pc' = IF c.node # s.node THEN "cancelOld" ELSE "load"
    BY <1>4 DEF PlanUpdate
  <2>2. s \in Attributes /\ c \in [node : Node, body : Body]
    BY ConfigType DEF TypeOK
  <2>3. d' \in Attributes
    BY <2>1, <2>2 DEF Attributes
  <2> QED
    BY <1>4, <2>1, <2>3 DEF PlanUpdate, TypeOK
<1>5. CASE PlanDelete
  BY <1>5 DEF PlanDelete, TypeOK
<1>6. CASE PlanNothing
  <2>1. Return(saved, IF report = "none" THEN "ok" ELSE report)
    BY <1>6 DEF PlanNothing
  <2> QED
    BY <1>6, <2>1, ReturnType DEF PlanNothing, TypeOK
<1>7. CASE CancelOld
  <2>1. DOMAIN chain' = DOMAIN chain \ {d.id} /\ \A c \in DOMAIN chain' : chain'[c] = chain[c]
    BY <1>7, WithoutType DEF CancelOld
  <2>2. d' \in Attributes
    BY <1>7 DEF CancelOld, TypeOK, Attributes
  <2> QED
    BY <1>7, <2>1, <2>2 DEF CancelOld, TypeOK
<1>load. CASE Load
  <2>1. d.id \in {NoId} \cup Nat
    BY DEF TypeOK, Attributes
  <2>2. pc' \in {"sync", "cancel", "deploy"}
    BY <1>load DEF Load
  <2> QED
    BY <1>load, <2>1, <2>2 DEF Load, TypeOK
<1>8. CASE DeployNew
  <2>1. d.node \in Node /\ d.body \in Body \cup {Empty}
    BY DEF TypeOK, Attributes
  <2>2. chain' = With(next, d.node, d.body)
    BY <1>8 DEF DeployNew
  <2>3. DOMAIN chain' = DOMAIN chain \cup {next}
        /\ \A c \in DOMAIN chain' : chain'[c] \in [node : Node, body : Body \cup {Empty}]
    BY <2>1, <2>2, WithType
  <2>4. next' \in 1..(MaxContract + 1) /\ DOMAIN chain' \subseteq 1..(next' - 1)
    BY <1>8, <2>3, BoundAssumption DEF DeployNew, TypeOK
  <2> QED
    BY <1>8, <1>ids, <2>3, <2>4 DEF DeployNew, TypeOK
<1>9. CASE DeployChange
  <2>1. d.node \in Node /\ d.body \in Body \cup {Empty} /\ made \in DOMAIN chain
    BY <1>9 DEF DeployChange, Reachable, TypeOK, Attributes
  <2>2. chain' = With(made, d.node, d.body)
    BY <1>9 DEF DeployChange
  <2>3. DOMAIN chain' = DOMAIN chain \cup {made}
        /\ \A c \in DOMAIN chain' : chain'[c] \in [node : Node, body : Body \cup {Empty}]
    BY <2>1, <2>2, WithType
  <2>4. DOMAIN chain' = DOMAIN chain
    BY <2>1, <2>3
  <2> QED
    BY <1>9, <2>3, <2>4 DEF DeployChange, TypeOK
<1>10. CASE DeployFailsUnreverted
  <2>1. d.node \in Node /\ d.body \in Body \cup {Empty}
    BY DEF TypeOK, Attributes
  <2>2. Keep(d) \subseteq Attributes /\ \A s, t \in Keep(d) : s = t
    BY DEF TypeOK, Keep
  <2>3. PICK id \in {next, made} :
          /\ chain' = With(id, d.node, d.body)
          /\ id = next => next <= MaxContract /\ next' = next + 1
          /\ id # next => id \in DOMAIN chain /\ next' = next
    BY <1>10, <1>ids DEF DeployFailsUnreverted, Reachable, TypeOK
  <2>4. DOMAIN chain' = DOMAIN chain \cup {id}
        /\ \A c \in DOMAIN chain' : chain'[c] \in [node : Node, body : Body \cup {Empty}]
    BY <2>1, <2>3, WithType
  <2>5. next' \in 1..(MaxContract + 1) /\ DOMAIN chain' \subseteq 1..(next' - 1)
    BY <2>3, <2>4, BoundAssumption DEF TypeOK
  <2> QED
    BY <1>10, <2>2, <2>4, <2>5, BlankType DEF DeployFailsUnreverted, Fail, Return, TypeOK
<1>11. CASE SyncRead
  <2>1. Stored(made) \in Attributes
    BY StoredType DEF TypeOK
  <2> QED
    BY <1>11, <2>1 DEF SyncRead, TypeOK
<1>12. CASE SyncReadFails
  BY <1>12 DEF SyncReadFails, TypeOK
<1>13. CASE SyncApplied
  <2>1. Stored(made) \in Attributes
    BY StoredType DEF TypeOK
  <2>2. Keep(Stored(made)) \subseteq Attributes /\ \A s, t \in Keep(Stored(made)) : s = t
    BY <2>1 DEF Keep
  <2>3. Return(Keep(Stored(made)), IF report = "none" THEN "ok" ELSE report)
    BY <1>13 DEF SyncApplied
  <2> QED
    BY <1>13, <2>2, <2>3, ReturnType DEF SyncApplied, TypeOK
<1>14. CASE Cancel
  <2>1. DOMAIN chain' = DOMAIN chain \ {made} /\ \A c \in DOMAIN chain' : chain'[c] = chain[c]
    BY <1>14, WithoutType DEF Cancel
  <2> QED
    BY <1>14, <2>1 DEF Cancel, TypeOK
<1>15. CASE SyncDeleted
  <2>1. Return({}, IF report = "none" THEN "ok" ELSE report)
    BY <1>15 DEF SyncDeleted
  <2> QED
    BY <1>15, <2>1, ReturnType DEF SyncDeleted, TypeOK
<1>16. CASE CancelOldFails \/ LoadFails \/ DeployFails \/ SyncAppliedFails \/ CancelFails
            \/ SyncDeletedFails
  BY <1>16, FailType DEF CancelOldFails, LoadFails, DeployFails, SyncAppliedFails, CancelFails,
                         SyncDeletedFails
<1>17. CASE NodeFlips
  BY <1>17 DEF NodeFlips, TypeOK
<1>18. CASE Expire
  <2>1. PICK c \in DOMAIN chain : chain' = Without(c)
    BY <1>18 DEF Expire
  <2>2. DOMAIN chain' \subseteq DOMAIN chain /\ \A k \in DOMAIN chain' : chain'[k] = chain[k]
    BY <2>1, WithoutType
  <2> QED
    BY <1>18, <2>2 DEF Expire, TypeOK
<1>19. CASE Killed
  <2>1. Return(saved, "failed")
    BY <1>19 DEF Killed
  <2> QED
    BY <1>19, <2>1, ReturnType DEF Killed, TypeOK
<1>20. CASE UNCHANGED vars
  BY <1>20 DEF vars, TypeOK
<1> QED
  BY <1>1, <1>2, <1>3, <1>4, <1>5, <1>6, <1>7, <1>8, <1>9, <1>10, <1>11, <1>12, <1>13,
     <1>14, <1>15, <1>16, <1>17, <1>18, <1>19, <1>20, <1>load DEF Next, Plan, Call

\* Every variable keeps its type, under all faults: in particular a handler
\* always deploys under the id that its ResourceData has.
THEOREM TypeCorrect == Spec => []TypeOK
BY InitType, NextType, PTL DEF Spec

----------------------------------------------------------------------------
(* No contract without its resource *)

SavedIds == {s.id : s \in saved}

\* Where the live contract is known to be, at each call of each handler.
Tracked ==
  /\ pc \in {"idle", "plan"} \/ op = "read" => DOMAIN chain \subseteq SavedIds
  /\ op = "read" /\ pc = "sync" => made \in SavedIds
  /\ pc = "load" => op \in {"read", "create", "update", "delete"}
  /\ pc = "load" /\ op \in {"read", "delete"} => d.id \in SavedIds
  /\ pc \in {"cancelOld", "load"} => DOMAIN chain \subseteq {d.id}
  /\ pc = "cancel" => op = "delete" /\ DOMAIN chain \subseteq {made} /\ made \in SavedIds
  /\ pc = "deploy" => DOMAIN chain \subseteq {made}
  /\ pc = "sync" => op \in {"read", "create", "update", "delete"}
  /\ pc = "sync" /\ op \in {"create", "update"} => DOMAIN chain \subseteq {made} /\ CanSync
  /\ pc = "sync" /\ op = "delete" => DOMAIN chain = {}
  /\ pc \in {"cancelOld", "deploy"} => op \in {"create", "update"}

TrackInv == TypeOK /\ Tracked

LEMMA InitTracked == Init => Tracked
BY DEF Init, Tracked, NoId

LEMMA NextTracked == TidyFaults /\ TrackInv /\ [Next]_vars => Tracked'
<1> SUFFICES ASSUME TidyFaults, TrackInv, [Next]_vars PROVE Tracked'
  OBVIOUS
<1> faults' = faults
  BY DEF Next, vars
<1> TypeOK /\ Tracked
  BY DEF TrackInv
<1>ids. DOMAIN chain \subseteq Nat \ {0} /\ next \in Nat \ {0}
  BY BoundAssumption DEF TypeOK
<1>none. NoId \notin DOMAIN chain
  BY <1>ids DEF NoId
<1>one. \A s \in saved : SavedIds = {s.id}
  BY DEF TypeOK, SavedIds
<1>1. CASE Edit
  BY <1>1 DEF Edit, Tracked, SavedIds
<1>2. CASE Refresh
  <2>1. DOMAIN chain \subseteq {d'.id} /\ d'.id \in SavedIds
    BY <1>2, <1>one DEF Refresh, Tracked, SavedIds
  <2> QED
    BY <1>2, <2>1 DEF Refresh, Tracked, SavedIds
<1>3. CASE PlanCreate
  BY <1>3 DEF PlanCreate, Tracked, SavedIds
<1>4. CASE PlanUpdate
  <2>1. PICK s \in saved, c \in config :
          /\ d' = [id |-> s.id, node |-> c.node, body |-> c.body]
          /\ pc' = IF c.node # s.node THEN "cancelOld" ELSE "load"
    BY <1>4 DEF PlanUpdate
  <2>2. DOMAIN chain \subseteq {s.id} /\ d'.id = s.id
    BY <1>4, <1>one, <2>1 DEF PlanUpdate, Tracked
  <2> QED
    BY <1>4, <2>1, <2>2 DEF PlanUpdate, Tracked
<1>5. CASE PlanDelete
  <2>1. PICK s \in saved : d' = s
    BY <1>5 DEF PlanDelete
  <2>2. DOMAIN chain \subseteq {s.id} /\ s.id \in SavedIds
    BY <1>5, <1>one DEF PlanDelete, Tracked
  <2> QED
    BY <1>5, <2>1, <2>2 DEF PlanDelete, Tracked, SavedIds
<1>6. CASE PlanNothing
  BY <1>6 DEF PlanNothing, Return, Tracked, SavedIds
<1>7. CASE CancelOld
  <2>1. DOMAIN chain' = {}
    BY <1>7, WithoutType DEF CancelOld, Tracked
  <2> QED
    BY <1>7, <2>1 DEF CancelOld, Tracked
<1>load. CASE Load
  <2>1. /\ DOMAIN chain \subseteq {made'} /\ op \in {"read", "create", "update", "delete"}
        /\ op \in {"read", "delete"} => made' \in SavedIds
    BY <1>load DEF Load, Tracked
  <2>2. op = "read" => pc' = "sync"
    BY <1>load DEF Load
  <2>3. op = "delete" => pc' = "cancel"
    BY <1>load DEF Load
  <2>4. op \in {"create", "update"} => pc' = "deploy"
    BY <1>load DEF Load
  <2> QED
    BY <1>load, <2>1, <2>2, <2>3, <2>4 DEF Load, Tracked, SavedIds
<1>8. CASE DeployNew
  <2>1. DOMAIN chain = {}
    BY <1>8, <1>none DEF DeployNew, Tracked
  <2>2. chain' = With(next, d.node, d.body) /\ made' = next /\ UNCHANGED <<up, d>>
    BY <1>8 DEF DeployNew
  <2>3. DOMAIN chain' = {made'} /\ chain'[made'].node = d'.node
    BY <2>1, <2>2 DEF With
  <2>4. CanSync'
    BY <1>8, <2>2, <2>3 DEF DeployNew, CanSync, Reachable
  <2> QED
    BY <1>8, <2>3, <2>4 DEF DeployNew, Tracked
<1>9. CASE DeployChange
  <2>1. made \in DOMAIN chain /\ d.node \in up /\ UNCHANGED <<up, d, made>>
    BY <1>9 DEF DeployChange, Reachable
  <2>2. chain' = With(made, d.node, d.body)
    BY <1>9 DEF DeployChange
  <2>3. DOMAIN chain \subseteq {made} /\ op \in {"create", "update"}
    BY <1>9 DEF DeployChange, Tracked
  <2>4. DOMAIN chain' = DOMAIN chain \cup {made} /\ chain'[made].node = d.node
    BY <2>2 DEF With
  <2>5. CanSync'
    BY <2>1, <2>4 DEF CanSync, Reachable
  <2>6. DOMAIN chain' \subseteq {made'} /\ pc' = "sync" /\ op' = op
    BY <1>9, <2>1, <2>3, <2>4 DEF DeployChange
  <2> QED
    BY <2>3, <2>5, <2>6 DEF Tracked
<1>10. CASE DeployFailsUnreverted
  BY <1>10 DEF DeployFailsUnreverted, TidyFaults
<1>11. CASE SyncRead
  <2>1. DOMAIN chain \subseteq {made}
    BY <1>11, <1>one DEF SyncRead, Tracked, SavedIds
  <2>2. made \in DOMAIN chain => Stored(made).id = made
    BY DEF Stored, TypeOK, Attributes
  <2>3. DOMAIN chain \subseteq {Stored(made).id}
    BY <2>1, <2>2
  <2>4. SavedIds' = {Stored(made).id}
    BY <1>11 DEF SyncRead, SavedIds
  <2> QED
    BY <1>11, <2>3, <2>4 DEF SyncRead, Tracked
<1>12. CASE SyncReadFails
  BY <1>12 DEF SyncReadFails, Tracked, SavedIds
<1>13. CASE SyncApplied
  <2>1. DOMAIN chain \subseteq {made} /\ UNCHANGED chain
    BY <1>13 DEF SyncApplied, Tracked
  <2>2. made \in DOMAIN chain => Stored(made).id = made /\ Keep(Stored(made)) = {Stored(made)}
    BY <1>ids DEF Stored, TypeOK, Attributes, Keep, NoId
  <2>3. made \in DOMAIN chain => SavedIds' = {made}
    BY <1>13, <2>2 DEF SyncApplied, Return, SavedIds
  <2> QED
    BY <1>13, <2>1, <2>3 DEF SyncApplied, Return, Tracked
<1>14. CASE Cancel
  <2>1. DOMAIN chain' = {}
    BY <1>14, WithoutType DEF Cancel, Tracked
  <2> QED
    BY <1>14, <2>1 DEF Cancel, Tracked
<1>15. CASE SyncDeleted
  BY <1>15 DEF SyncDeleted, Return, Tracked
<1>reads. CASE LoadFails /\ op \in {"read", "delete"}
  <2>1. DOMAIN chain \subseteq {d.id} /\ d.id \in SavedIds /\ Fail /\ UNCHANGED chain
    BY <1>reads DEF LoadFails, Tracked
  <2>2. saved' = saved /\ pc' = "idle" /\ op' = "none"
    BY <1>reads, <2>1 DEF Fail, Return
  <2> QED
    BY <2>1, <2>2 DEF Tracked, SavedIds
<1>16. CASE CancelOldFails \/ DeployFails \/ (LoadFails /\ op \in {"create", "update"})
  <2>1. /\ DOMAIN chain \subseteq {d.id} /\ Fail /\ UNCHANGED chain
        /\ op \in {"create", "update"}
    BY <1>16 DEF CancelOldFails, LoadFails, DeployFails, Tracked, TypeOK
  <2>2. saved' = Keep(d) /\ pc' = "idle" /\ op' = "none"
    BY <2>1 DEF Fail, Return
  <2>3. CASE d.id = NoId
    BY <1>ids, <2>1, <2>2, <2>3 DEF Tracked, NoId
  <2>4. CASE d.id # NoId
    BY <2>1, <2>2, <2>4 DEF Tracked, Keep, SavedIds
  <2> QED
    BY <2>3, <2>4
<1>17. CASE SyncAppliedFails
  BY <1>17 DEF SyncAppliedFails, Tracked, TidyFaults
<1>18. CASE CancelFails
  <2>1. DOMAIN chain \subseteq SavedIds /\ op = "delete"
    BY <1>18 DEF CancelFails, Tracked
  <2> QED
    BY <1>18, <2>1 DEF CancelFails, Fail, Return, Tracked, SavedIds
<1>19. CASE SyncDeletedFails
  BY <1>19 DEF SyncDeletedFails, Fail, Return, Tracked
<1>20. CASE NodeFlips
  BY <1>20 DEF NodeFlips, TidyFaults
<1>21. CASE Expire
  <2>1. PICK c \in DOMAIN chain : chain' = Without(c)
    BY <1>21 DEF Expire
  <2>2. DOMAIN chain' \subseteq DOMAIN chain /\ \A k \in DOMAIN chain' : chain'[k] = chain[k]
    BY <2>1, WithoutType
  <2>3. CanSync => CanSync'
    BY <1>21, <2>2 DEF Expire, CanSync, Reachable
  <2> QED
    BY <1>21, <2>2, <2>3 DEF Expire, Tracked, SavedIds
<1>22. CASE Killed
  BY <1>22 DEF Killed, TidyFaults
<1>23. CASE UNCHANGED vars
  BY <1>23 DEF vars, Tracked, SavedIds, CanSync, Reachable
<1>fails. LoadFails => op \in {"read", "delete"} \/ op \in {"create", "update"}
  BY DEF LoadFails, Tracked
<1> QED
  BY <1>1, <1>2, <1>3, <1>4, <1>5, <1>6, <1>7, <1>8, <1>9, <1>10, <1>11, <1>12, <1>13,
     <1>14, <1>15, <1>16, <1>17, <1>18, <1>19, <1>20, <1>21, <1>22, <1>23, <1>load, <1>reads, <1>fails
  DEF Next, Plan, Call

\* However often the block is edited, moved between nodes, removed and applied,
\* with cancellations and deployments that fail, nodes that are down and
\* contracts that expire: between applies the only live contract is the one the
\* resource is saved with.  The faults left out are those after which the code
\* does lose one.
THEOREM ContractsAreTracked == Spec => []ContractsTracked
<1> DEFINE Inv == TypeOK /\ (TidyFaults => Tracked)
<1>1. Init => Inv
  BY InitType, InitTracked
<1>2. Inv /\ [Next]_vars => Inv'
  <2> SUFFICES ASSUME Inv, [Next]_vars PROVE Inv'
    OBVIOUS
  <2>1. TypeOK'
    BY NextType
  <2>2. ASSUME TidyFaults' PROVE Tracked'
    <3>1. TidyFaults
      BY <2>2 DEF TidyFaults, Next, vars
    <3> QED
      BY <3>1, NextTracked DEF TrackInv
  <2> QED
    BY <2>1, <2>2
<1>3. Inv => ContractsTracked
  BY DEF ContractsTracked, Tracked, NoOrphans, SavedIds
<1> QED
  BY <1>1, <1>2, <1>3, PTL DEF Spec

----------------------------------------------------------------------------
(* What is applied is deployed *)

\* The contract runs what the resource says, where it says.
Runs(id, x, live) == id \in DOMAIN live /\ live[id] = [node |-> x.node, body |-> x.body]

\* What is so on the way to a report.
Settling ==
  /\ pc # "idle" => report \in {"none", "warned"}
  /\ pc \in {"cancelOld", "deploy"} => op \in {"create", "update"}
  /\ pc = "load" => op # "none"
  /\ pc \in {"cancelOld", "load", "deploy", "sync"} /\ op \in {"create", "update"} =>
       [node |-> d.node, body |-> d.body] \in config
  /\ pc = "cancel" => op = "delete"
  /\ pc # "idle" /\ op = "delete" => config = {}
  /\ pc = "sync" /\ op \in {"create", "update"} /\ report = "none" => Runs(made, d, chain)
  /\ pc = "plan" /\ report = "none" => \A s \in saved : s.body = Empty \/ Runs(s.id, s, chain)

SettleInv == TypeOK /\ Settling /\ AppliedIsDeployed

LEMMA InitSettled == Init => Settling /\ AppliedIsDeployed
BY DEF Init, Settling, AppliedIsDeployed

\* A handler that returns without success settles nothing.
LEMMA UnsuccessfulReturn ==
  ASSUME NEW kept, NEW how, Return(kept, how), how # "ok"
  PROVE  Settling' /\ AppliedIsDeployed'
BY DEF Return, Settling, AppliedIsDeployed

LEMMA NextSettled == SettleInv /\ [Next]_vars => Settling' /\ AppliedIsDeployed'
<1> SUFFICES ASSUME SettleInv, [Next]_vars PROVE Settling' /\ AppliedIsDeployed'
  OBVIOUS
<1>t. TypeOK /\ Settling /\ AppliedIsDeployed
  BY DEF SettleInv
<1>s. /\ \A s, t \in saved : s = t
      /\ \A c, k \in config : c = k
      /\ d \in Attributes /\ \A s \in saved : s \in Attributes
  BY <1>t DEF TypeOK, AtMostOne
<1>c. \A c \in config : c = [node |-> c.node, body |-> c.body] /\ c.body # Empty
  BY <1>t, ConfigType, BodyAssumption
<1>1. CASE Edit
  BY <1>1 DEF Edit, Settling, AppliedIsDeployed
<1>2. CASE Refresh
  BY <1>2 DEF Refresh, Settling, AppliedIsDeployed
<1>3. CASE PlanCreate
  <2>1. PICK c \in config : d' = [id |-> NoId, node |-> c.node, body |-> c.body]
    BY <1>3 DEF PlanCreate
  <2>2. [node |-> d'.node, body |-> d'.body] \in config
    BY <1>c, <2>1
  <2> QED
    BY <1>3, <2>2 DEF PlanCreate, Settling, AppliedIsDeployed
<1>4. CASE PlanUpdate
  <2>1. PICK s \in saved, c \in config : d' = [id |-> s.id, node |-> c.node, body |-> c.body]
    BY <1>4 DEF PlanUpdate
  <2>2. [node |-> d'.node, body |-> d'.body] \in config
    BY <1>c, <2>1
  <2>3. pc' \in {"cancelOld", "load"}
    BY <1>4 DEF PlanUpdate
  <2> QED
    BY <1>4, <1>t, <2>2, <2>3 DEF PlanUpdate, Settling, AppliedIsDeployed
<1>5. CASE PlanDelete
  BY <1>5, <1>t DEF PlanDelete, Settling, AppliedIsDeployed
<1>6. CASE PlanNothing
  <2>1. PICK s \in saved, c \in config : c.node = s.node /\ c.body = s.body
    BY <1>6 DEF PlanNothing
  <2>2. /\ pc = "plan" /\ Return(saved, IF report = "none" THEN "ok" ELSE report)
        /\ UNCHANGED <<chain, config>>
    BY <1>6 DEF PlanNothing
  <2>3. config = {c} /\ c = [node |-> s.node, body |-> s.body] /\ s.body # Empty
    BY <1>c, <1>s, <2>1
  <2>4. CASE report = "none"
    BY <1>t, <2>2, <2>3, <2>4 DEF Return, Runs, Settling, AppliedIsDeployed
  <2>5. CASE report = "warned"
    BY <2>2, <2>5, UnsuccessfulReturn
  <2> QED
    BY <1>t, <2>2, <2>4, <2>5 DEF Settling
<1>7. CASE CancelOld
  <2>1. d'.node = d.node /\ d'.body = d.body
    BY <1>7, <1>s DEF CancelOld, Attributes
  <2> QED
    BY <1>7, <1>t, <2>1 DEF CancelOld, Settling, AppliedIsDeployed
<1>load. CASE Load
  <2>1. pc' = CASE op = "read" -> "sync" [] op = "delete" -> "cancel" [] OTHER -> "deploy"
    BY <1>load DEF Load
  <2>2. op \in {"read", "create", "update", "delete"}
    BY <1>load, <1>t DEF Load, Settling, TypeOK
  <2> QED
    BY <1>load, <1>t, <2>1, <2>2 DEF Load, Settling, AppliedIsDeployed
<1>8. CASE DeployNew
  <2>1. Runs(made', d', chain')
    BY <1>8 DEF DeployNew, With, Runs
  <2> QED
    BY <1>8, <1>t, <2>1 DEF DeployNew, Settling, AppliedIsDeployed
<1>9. CASE DeployChange
  <2>1. Runs(made', d', chain')
    BY <1>9 DEF DeployChange, With, Runs
  <2> QED
    BY <1>9, <1>t, <2>1 DEF DeployChange, Settling, AppliedIsDeployed
<1>10. CASE CancelOldFails \/ LoadFails \/ DeployFails \/ DeployFailsUnreverted \/ SyncAppliedFails \/ CancelFails
            \/ SyncDeletedFails
  BY <1>10, UnsuccessfulReturn DEF CancelOldFails, LoadFails, DeployFails, DeployFailsUnreverted,
     SyncAppliedFails, CancelFails, SyncDeletedFails, Fail
<1>11. CASE SyncRead
  <2>1. saved' = {Stored(made)} /\ UNCHANGED <<chain, config, report>> /\ pc' = "plan" /\ op' = "read"
        /\ CanSync /\ pc = "sync"
    BY <1>11 DEF SyncRead
  <2>2. Stored(made).body = Empty \/ Runs(Stored(made).id, Stored(made), chain)
    <3>1. CASE made \notin DOMAIN chain
      BY <1>s, <3>1 DEF Stored, Attributes
    <3>2. CASE made \in DOMAIN chain
      <4>1. chain[made].node = d.node
        BY <2>1, <3>2 DEF CanSync, Reachable
      <4>2. chain[made] = [node |-> d.node, body |-> chain[made].body]
        BY <1>t, <3>2, <4>1 DEF TypeOK
      <4>3. /\ Stored(made).id = made /\ Stored(made).node = d.node
            /\ Stored(made).body = chain[made].body
        BY <1>s, <3>2 DEF Stored, Attributes
      <4> QED
        BY <3>2, <4>2, <4>3 DEF Runs
    <3> QED
      BY <3>1, <3>2
  <2> QED
    BY <1>t, <2>1, <2>2 DEF Settling, AppliedIsDeployed
<1>12. CASE SyncReadFails
  BY <1>12, <1>t DEF SyncReadFails, Settling, AppliedIsDeployed
<1>13. CASE SyncApplied
  <2>1. /\ Return(Keep(Stored(made)), IF report = "none" THEN "ok" ELSE report)
        /\ pc = "sync" /\ op \in {"create", "update"} /\ UNCHANGED <<chain, config>>
    BY <1>13 DEF SyncApplied
  <2>2. CASE report = "none"
    <3>1. Runs(made, d, chain) /\ config = {[node |-> d.node, body |-> d.body]}
      BY <1>s, <1>t, <2>1, <2>2 DEF Settling
    <3>2. Stored(made).id = made /\ made # NoId
      BY <1>s, <1>t, <3>1 DEF Stored, Attributes, Runs, TypeOK, NoId
    <3>3. saved' = {Stored(made)} /\ UNCHANGED <<chain, config>>
      BY <2>1, <3>2 DEF Return, Keep
    <3>4. AppliedIsDeployed'
      BY <3>1, <3>2, <3>3 DEF Runs, AppliedIsDeployed
    <3> QED
      BY <2>1, <3>4 DEF Return, Settling
  <2>3. CASE report = "warned"
    BY <2>1, <2>3, UnsuccessfulReturn
  <2> QED
    BY <1>t, <2>1, <2>2, <2>3 DEF Settling
<1>14. CASE Cancel
  BY <1>14, <1>t DEF Cancel, Settling, AppliedIsDeployed
<1>15. CASE SyncDeleted
  BY <1>15, <1>t DEF SyncDeleted, Return, Settling, AppliedIsDeployed
<1>16. CASE NodeFlips
  BY <1>16, <1>t DEF NodeFlips, Settling, AppliedIsDeployed
<1>17. CASE Expire
  BY <1>17, <1>t DEF Expire, Settling, AppliedIsDeployed
<1>18. CASE Killed
  BY <1>18, UnsuccessfulReturn DEF Killed
<1>19. CASE UNCHANGED vars
  BY <1>19, <1>t DEF vars, Settling, AppliedIsDeployed
<1> QED
  BY <1>1, <1>2, <1>3, <1>4, <1>5, <1>6, <1>7, <1>8, <1>9, <1>10, <1>11, <1>12, <1>13,
     <1>14, <1>15, <1>16, <1>17, <1>18, <1>19, <1>load DEF Next, Plan, Call

\* An apply that reports neither an error nor a warning leaves what the block asks
\* for running where it asks for it, whatever was left behind by the applies before it.
THEOREM AppliedCorrect == Spec => []AppliedIsDeployed
<1>1. Init => SettleInv
  BY InitType, InitSettled DEF SettleInv
<1>2. SettleInv /\ [Next]_vars => SettleInv'
  BY NextType, NextSettled DEF SettleInv
<1>3. SettleInv => AppliedIsDeployed
  BY DEF SettleInv
<1> QED
  BY <1>1, <1>2, <1>3, PTL DEF Spec

----------------------------------------------------------------------------
(* What is cancelled is unwanted *)

\* The resource says where its contract is, if that lives.
At(x, live, new) == x.id < new /\ (x.id \in DOMAIN live => live[x.id].node = x.node)

\* What is saved says where its contract is, and what a handler works on says so too,
\* except on the way from one node to another.
Housed ==
  /\ \A s \in saved : At(s, chain, next)
  /\ pc \in {"load", "deploy", "sync", "cancel"} => At(d, chain, next)
  /\ pc = "cancelOld" => d.id < next /\ (d.id \in DOMAIN chain => chain[d.id].node # d.node)

\* So it is as long as no cancellation fails.
Homed == "cancel" \notin faults => Housed

HomeInv == SettleInv /\ Homed

LEMMA InitHomed == Init => Homed
BY DEF Init, Homed, Housed

\* Where contracts are does not change.
LEMMA AtKept ==
  ASSUME TypeOK, NEW x \in Attributes, At(x, chain, next), next' \in Nat, next <= next',
         \A c \in DOMAIN chain' : c < next => c \in DOMAIN chain /\ chain'[c].node = chain[c].node
  PROVE  At(x, chain', next')
<1>1. x.id \in Int /\ next \in Nat
  BY BoundAssumption DEF Attributes, NoId, TypeOK
<1> QED
  BY <1>1 DEF At

LEMMA NextHoused == TypeOK /\ Housed /\ [Next]_vars /\ ~CancelOldFails => Housed'
<1> SUFFICES ASSUME TypeOK, Housed, [Next]_vars, ~CancelOldFails PROVE Housed'
  OBVIOUS
<1>t. TypeOK
  OBVIOUS
<1>h. /\ \A s \in saved : At(s, chain, next)
      /\ pc \in {"load", "deploy", "sync", "cancel"} => At(d, chain, next)
      /\ pc = "cancelOld" => d.id < next /\ (d.id \in DOMAIN chain => chain[d.id].node # d.node)
  BY DEF Housed
<1>n. next \in Nat /\ next >= 1 /\ \A c \in DOMAIN chain : c \in Nat /\ c >= 1 /\ c < next
  BY <1>t, BoundAssumption DEF TypeOK
<1>s. d \in Attributes /\ \A s \in saved : s \in Attributes
  BY <1>t DEF TypeOK
<1> DEFINE Steady ==
      /\ next' \in Nat /\ next <= next'
      /\ \A c \in DOMAIN chain' : c < next => c \in DOMAIN chain /\ chain'[c].node = chain[c].node
<1>k. Steady => /\ \A s \in saved : At(s, chain', next')
                /\ At(d, chain, next) => At(d, chain', next')
  BY <1>t, <1>h, <1>s, AtKept
<1>u. UNCHANGED <<chain, next>> => Steady
  BY <1>n
<1>w. \A id : UNCHANGED next /\ chain' = Without(id) => Steady
  BY <1>n DEF Without
<1> HIDE DEF Steady
<1>1. CASE Edit
  BY <1>1, <1>h DEF Edit, Housed
<1>2. CASE Refresh
  BY <1>2, <1>h DEF Refresh, Housed
<1>3. CASE PlanCreate
  BY <1>3, <1>h, <1>n DEF PlanCreate, Housed, At, NoId
<1>4. CASE PlanUpdate
  <2>1. PICK s \in saved, c \in config :
          /\ d' = [id |-> s.id, node |-> c.node, body |-> c.body]
          /\ pc' = IF c.node # s.node THEN "cancelOld" ELSE "load"
    BY <1>4 DEF PlanUpdate
  <2>2. At(s, chain, next) /\ UNCHANGED <<chain, next, saved>>
    BY <1>4, <1>h DEF PlanUpdate
  <2> QED
    BY <1>h, <2>1, <2>2 DEF Housed, At
<1>5. CASE PlanDelete
  BY <1>5, <1>h DEF PlanDelete, Housed
<1>6. CASE PlanNothing \/ Killed
  BY <1>6, <1>h DEF PlanNothing, Killed, Return, Housed
<1>7. CASE CancelOld
  <2>1. chain' = Without(d.id) /\ UNCHANGED <<next, saved>> /\ pc' = "load" /\ d'.id = NoId
    BY <1>7, <1>s DEF CancelOld, Attributes
  <2>2. At(d', chain', next')
    BY <1>n, <2>1 DEF At, NoId, Without
  <2> QED
    BY <1>k, <1>w, <2>1, <2>2 DEF Housed
<1>load. CASE Load
  <2>1. pc' \in {"sync", "cancel", "deploy"} /\ UNCHANGED <<chain, next, saved, d>>
    BY <1>load DEF Load
  <2> QED
    BY <1>load, <1>h, <2>1 DEF Load, Housed
<1>8. CASE DeployNew
  <2>1. /\ chain' = With(next, d.node, d.body) /\ next' = next + 1
        /\ UNCHANGED <<saved, d>> /\ pc' = "sync" /\ pc = "deploy"
    BY <1>8 DEF DeployNew
  <2>2. Steady
    BY <1>n, <2>1 DEF Steady, With
  <2> QED
    BY <1>h, <1>k, <2>1, <2>2 DEF Housed
<1>9. CASE DeployChange
  <2>1. /\ chain' = With(made, d.node, d.body) /\ UNCHANGED <<next, saved, d>>
        /\ pc' = "sync" /\ pc = "deploy" /\ made \in DOMAIN chain /\ chain[made].node = d.node
    BY <1>9 DEF DeployChange, Reachable
  <2>2. Steady
    BY <1>n, <2>1 DEF Steady, With
  <2> QED
    BY <1>h, <1>k, <2>1, <2>2 DEF Housed
<1>10. CASE DeployFailsUnreverted
  <2>1. Steady
    BY <1>10, <1>n DEF DeployFailsUnreverted, Reachable, With, Steady
  <2>2. Fail /\ At(d, chain, next)
    BY <1>10, <1>h DEF DeployFailsUnreverted
  <2> QED
    BY <1>k, <2>1, <2>2 DEF Fail, Return, Keep, Housed
<1>11. CASE LoadFails \/ DeployFails \/ SyncAppliedFails \/ CancelFails \/ SyncDeletedFails
  <2>1. Fail /\ At(d, chain, next) /\ UNCHANGED <<chain, next>>
    BY <1>11, <1>h DEF LoadFails, DeployFails, SyncAppliedFails, CancelFails, SyncDeletedFails
  <2> QED
    BY <1>h, <2>1 DEF Fail, Return, Keep, Housed
<1>12. CASE CancelOldFails
  BY <1>12
<1>13. CASE SyncRead \/ SyncApplied
  <2>1. saved' \subseteq {Stored(made)} /\ CanSync /\ UNCHANGED <<chain, next>>
        /\ pc' \in {"plan", "idle"}
    BY <1>13 DEF SyncRead, SyncApplied, Return, Keep
  <2>2. At(Stored(made), chain, next)
    <3>1. CASE made \in DOMAIN chain
      <4>1. Stored(made).id = made /\ Stored(made).node = d.node /\ chain[made].node = d.node
        BY <1>s, <2>1, <3>1 DEF Stored, Attributes, CanSync, Reachable
      <4> QED
        BY <1>n, <3>1, <4>1 DEF At
    <3>2. CASE made \notin DOMAIN chain
      <4>1. Stored(made).id = Zero /\ Zero \notin DOMAIN chain /\ Zero < next
        BY <1>s, <1>n, <3>2 DEF Stored, Attributes, Zero
      <4> QED
        BY <4>1 DEF At
    <3> QED
      BY <3>1, <3>2
  <2> QED
    BY <2>1, <2>2 DEF Housed
<1>14. CASE SyncReadFails
  BY <1>14, <1>h DEF SyncReadFails, Housed
<1>15. CASE Cancel
  <2>1. chain' = Without(made) /\ UNCHANGED <<next, saved, d>> /\ pc' = "sync" /\ pc = "cancel"
    BY <1>15 DEF Cancel
  <2> QED
    BY <1>h, <1>k, <1>w, <2>1 DEF Housed
<1>16. CASE SyncDeleted
  BY <1>16 DEF SyncDeleted, Return, Housed
<1>17. CASE NodeFlips \/ UNCHANGED vars
  BY <1>17, <1>h DEF NodeFlips, vars, Housed
<1>18. CASE Expire
  <2>1. PICK c \in DOMAIN chain : chain' = Without(c)
    BY <1>18 DEF Expire
  <2>2. UNCHANGED <<next, saved, pc, d>>
    BY <1>18 DEF Expire
  <2>3. d.id \in DOMAIN chain' => d.id \in DOMAIN chain /\ chain'[d.id] = chain[d.id]
    BY <2>1 DEF Without
  <2> QED
    BY <1>h, <1>k, <1>w, <2>1, <2>2, <2>3 DEF Housed
<1> QED
  BY <1>1, <1>2, <1>3, <1>4, <1>5, <1>6, <1>7, <1>8, <1>9, <1>10, <1>11, <1>12, <1>13,
     <1>14, <1>15, <1>16, <1>17, <1>18, <1>load DEF Next, Plan, Call

LEMMA NextHomed == HomeInv /\ [Next]_vars => Homed'
<1> SUFFICES ASSUME HomeInv, [Next]_vars, "cancel" \notin faults' PROVE Housed'
  BY DEF Homed
<1>1. "cancel" \notin faults
  BY DEF Next, vars
<1>2. ~CancelOldFails
  BY <1>1 DEF CancelOldFails
<1> QED
  BY <1>1, <1>2, NextHoused DEF HomeInv, SettleInv, Homed

\* A call that ends contracts is one that leaves a node, or one that deletes.
LEMMA CancelledUnwanted ==
  ASSUME HomeInv, [Next]_vars, "cancel" \notin faults, pc' # pc,
         NEW c \in DOMAIN chain, c \notin DOMAIN chain'
  PROVE  Unwanted(c)
<1>t. TypeOK /\ Settling /\ Homed
  BY DEF HomeInv, SettleInv
<1>1. CASE CancelOld
  <2>1. c = d.id /\ pc = "cancelOld"
    BY <1>1 DEF CancelOld, Without
  <2>2. chain[c].node # d.node /\ [node |-> d.node, body |-> d.body] \in config
    BY <1>t, <2>1 DEF Homed, Housed, Settling
  <2>3. \A k \in config : k.node = d.node
    BY <1>t, <2>2 DEF TypeOK, AtMostOne
  <2> QED
    BY <2>2, <2>3 DEF Unwanted
<1>2. CASE Cancel
  BY <1>2, <1>t DEF Cancel, Settling, Unwanted
<1>3. CASE DeployNew \/ DeployChange \/ DeployFailsUnreverted
  BY <1>3 DEF DeployNew, DeployChange, DeployFailsUnreverted, With
<1>4. CASE Expire \/ NodeFlips
  BY <1>4 DEF Expire, NodeFlips
<1>5. CASE UNCHANGED chain
  BY <1>5
<1>6. CASE Edit \/ Refresh \/ Plan \/ CancelOldFails \/ Load \/ LoadFails \/ DeployFails
           \/ SyncRead \/ SyncReadFails \/ SyncApplied \/ SyncAppliedFails \/ CancelFails
           \/ SyncDeleted \/ SyncDeletedFails \/ Killed \/ UNCHANGED vars
  <2>1. UNCHANGED chain
    BY <1>6 DEF Edit, Refresh, Plan, PlanCreate, PlanUpdate, PlanDelete, PlanNothing, CancelOldFails,
       Load, LoadFails, DeployFails, SyncRead, SyncReadFails, SyncApplied, SyncAppliedFails, CancelFails, SyncDeleted,
       SyncDeletedFails, Killed, vars
  <2> QED
    BY <1>5, <2>1
<1> QED
  BY <1>1, <1>2, <1>3, <1>4, <1>6 DEF Next, Call

\* As long as no cancellation fails, no apply cancels a contract on the node where the
\* block wants it: an id never comes to be saved beside a node it is not on.
THEOREM CancelsNoWanted == Spec => CancelsOnlyUnwanted
<1> DEFINE Harmless ==
      "cancel" \notin faults /\ pc' # pc => \A c \in DOMAIN chain \ DOMAIN chain' : Unwanted(c)
<1>1. Init => HomeInv
  BY InitType, InitSettled, InitHomed DEF HomeInv, SettleInv
<1>2. HomeInv /\ [Next]_vars => HomeInv'
  BY NextType, NextSettled, NextHomed DEF HomeInv, SettleInv
<1>3. HomeInv /\ [Next]_vars => [Harmless]_vars
  <2> SUFFICES ASSUME HomeInv, [Next]_vars PROVE Harmless
    OBVIOUS
  <2> QED
    BY CancelledUnwanted
<1>4. Spec => [][Harmless]_vars
  <2> HIDE DEF Harmless
  <2> QED
    BY <1>1, <1>2, <1>3, PTL DEF Spec
<1> QED
  BY <1>4 DEF CancelsOnlyUnwanted
============================================================================
