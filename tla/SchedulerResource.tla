------------------------- MODULE SchedulerResource -------------------------
(***************************************************************************)
(* The grid_scheduler resource, internal/provider/resource_scheduler.go,   *)
(* over the life of one resource block: the user edits its requests,       *)
(* Terraform applies the block when it differs from the state it saved,    *)
(* and each Create or Update is a run of the package scheduler.  Terraform *)
(* may be killed in the middle of a run, which then leaves no trace.       *)
(***************************************************************************)
EXTENDS Scheduler

VARIABLES
  config, \* the "requests" in the configuration, one of RequestLists
  saved,  \* what Terraform saved of the resource: None, or requests and nodes
  op      \* "idle", or the handler that is running: "create" or "update"

resourceVars == <<config, saved, op>>
allVars == <<vars, resourceVars>>

None == [requests |-> <<>>, nodes |-> [nm \in {} |-> 0], exists |-> FALSE]
Resource(requests, chosen) == [requests |-> requests, nodes |-> chosen, exists |-> TRUE]

NamesOf(requests) == {requests[j].name : j \in DOMAIN requests}

----------------------------------------------------------------------------
(* parseAssignment: d.Get("nodes"), the map the last apply stored. *)
ForgetAssignment(s) == None.nodes
ParseAssignment(s) == s.nodes

(* parseRequests: names that have a node are skipped, whatever became of    *)
(* their request since; nodes of requests that are gone stay in the map.    *)
ParseRequests(requests, chosen) ==
  LET unassigned == {j \in DOMAIN requests : requests[j].name \notin DOMAIN chosen}
      Nth(k) == CHOOSE j \in unassigned : Rank(j, unassigned) = k
  IN [k \in 1..Cardinality(unassigned) |-> requests[Nth(k)]]

(* NewScheduler, with empty caches, given to ProcessRequests; or, with p    *)
(* "done", the scheduler of a call that has returned, which is garbage.     *)
Run(p, rs, chosen) ==
  /\ reqs' = rs /\ assignment' = chosen /\ assigned' = Range(chosen)
  /\ pc' = p /\ i' = 1 /\ err' = "none" /\ req' = AnyRequest
  /\ todo' = {} /\ limit' = FirstLimit
  /\ nodes' = [n \in {} |-> Nothing] /\ farms' = [f \in {} |-> 0]
  /\ granted' = [n \in Node |-> Nothing]

Return == op' = "idle" /\ Run("done", <<>>, None.nodes)

----------------------------------------------------------------------------
(* The user changes the requests of the block between two applies. *)
Edit ==
  /\ op = "idle"
  /\ config' \in RequestLists \ {config}
  /\ UNCHANGED <<vars, saved, op>>

(* terraform apply plans against what is saved (Read changes nothing of it) *)
(* and calls a handler only when the requests differ.                       *)
Create ==
  /\ op = "idle" /\ ~saved.exists
  /\ op' = "create"
  /\ Run("next", ParseRequests(config, None.nodes), None.nodes)
  /\ UNCHANGED <<grid, config, saved>>

Update ==
  /\ op = "idle" /\ saved.exists /\ saved.requests # config
  /\ op' = "update"
  /\ Run("next", ParseRequests(config, ParseAssignment(saved)), ParseAssignment(saved))
  /\ UNCHANGED <<grid, config, saved>>

Process == op # "idle" /\ Step /\ UNCHANGED resourceVars

(* schedule sets "nodes" and ResourceSchedCreate the id when every request  *)
(* has a node; a failed create has no id and is not saved.                  *)
CreateEnds ==
  /\ op = "create" /\ Ended
  /\ saved' = IF pc = "done" THEN Resource(config, assignment) ELSE None
  /\ Return
  /\ UNCHANGED <<grid, config>>

(* A failed update leaves "nodes" alone, and Terraform saves the planned    *)
(* requests beside it: the resource keeps its id and the state is not       *)
(* declared partial.                                                        *)
UpdateEndsStoringAnyway ==
  /\ op = "update" /\ Ended
  /\ saved' = Resource(config, assignment)
  /\ Return
  /\ UNCHANGED <<grid, config>>

UpdateEnds ==
  /\ op = "update" /\ Ended
  /\ saved' = Resource(config, IF pc = "done" THEN assignment ELSE saved.nodes)
  /\ Return
  /\ UNCHANGED <<grid, config>>

(* ResourceSchedDelete *)
Delete ==
  /\ op = "idle" /\ saved.exists
  /\ saved' = None
  /\ UNCHANGED <<vars, config, op>>

(* Terraform or the provider dies during an apply; nothing was saved yet. *)
Killed ==
  /\ op # "idle"
  /\ Return
  /\ UNCHANGED <<grid, config, saved>>

GridChanges == op # "idle" /\ GridMoves /\ UNCHANGED resourceVars

ResourceNext ==
  \/ Edit \/ Create \/ Update \/ Process \/ CreateEnds \/ UpdateEnds
  \/ Delete \/ Killed \/ GridChanges

ResourceInit ==
  /\ grid \in Grids
  /\ config \in RequestLists
  /\ saved = None /\ op = "idle"
  /\ reqs = <<>> /\ assignment = None.nodes /\ assigned = {}
  /\ pc = "done" /\ i = 1 /\ err = "none" /\ req = AnyRequest
  /\ todo = {} /\ limit = FirstLimit
  /\ nodes = [n \in {} |-> Nothing] /\ farms = [f \in {} |-> 0]
  /\ granted = [n \in Node |-> Nothing]

ResourceSpec == ResourceInit /\ [][ResourceNext]_allVars

----------------------------------------------------------------------------
(* Properties *)

\* A request that has a node keeps it as long as the resource lives, however
\* the requests around it are edited, the grid changes and updates fail: what
\* is deployed there with nodes["name"] is not moved.
AssignedStays ==
  [][saved.exists /\ saved'.exists =>
       \A nm \in DOMAIN saved.nodes :
         nm \in DOMAIN saved'.nodes /\ saved'.nodes[nm] = saved.nodes[nm]]_allVars

\* An apply stores nodes for all its requests or for none that is new: the
\* nodes found before the request that failed are dropped with it.
AllOrNothing ==
  [][saved' # saved /\ saved'.exists =>
       \/ NamesOf(saved'.requests) \subseteq DOMAIN saved'.nodes
       \/ saved.exists /\ saved'.nodes = saved.nodes]_allVars

\* A distinct request that gets its node in a later apply than the others is
\* kept off the nodes of all the earlier ones, those of removed requests too.
DistinctFromEarlier ==
  [][saved.exists /\ saved'.exists =>
       \A j \in DOMAIN saved'.requests :
         LET r == saved'.requests[j]
         IN r.distinct /\ r.name \in DOMAIN saved'.nodes \ DOMAIN saved.nodes =>
              saved'.nodes[r.name] \notin Range(saved.nodes)]_allVars

\* What docs/resources/scheduler.md says of nodes, a mapping from the request
\* name to the node id: once Terraform has nothing more to apply, every request
\* of the resource is in it.
NothingToApplyMeansAssigned ==
  op = "idle" /\ saved.exists /\ saved.requests = config =>
    NamesOf(config) \subseteq DOMAIN saved.nodes
============================================================================
