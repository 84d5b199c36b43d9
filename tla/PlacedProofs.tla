---------------------------- MODULE PlacedProofs ----------------------------
(***************************************************************************)
(* Theorems about a scheduler block and a deployment that refers to it,    *)
(* for every grid, every list of requests and every sequence of edits,     *)
(* applies and failures.  What a run of the scheduler and a handler of the *)
(* deployment keep is taken from the theorems about each of them.          *)
(***************************************************************************)
EXTENDS PlacedDeployment, RankProofs, TLAPS

\* A run of the scheduler within the resource: its list is what parseRequests
\* leaves of a list of the configuration.
R == INSTANCE SchedulerProofs WITH RequestLists <- Seq(Request)

\* The deployment, with what is proved of it.
P == INSTANCE DeploymentProofs WITH
  config <- Block, saved <- held, up <- grid.up, pc <- step, op <- doing, d <- data

----------------------------------------------------------------------------
(* What the two resources keep, each within its own steps *)

\* The invariant of a run: types, the copy of the request, an answer for each
\* request before the current one that honours it.
RunInv == R!HonourInv

\* The invariant of the deployment: types, and where its contracts are.
DeployInv == P!TypeOK /\ P!Housed

\* The assumptions of the two modules, with these constants.
LEMMA RunAssumptions ==
  /\ R!IsFiniteSet(Node) /\ R!NodeInfo = NodeInfo /\ R!GridState = GridState
  /\ R!Request = Request
<1>1. IsFiniteSet(Node) => R!IsFiniteSet(Node)
  BY DEF IsFiniteSet, R!IsFiniteSet
<1>2. R!NodeInfo = NodeInfo
  BY DEF NodeInfo, R!NodeInfo
<1>3. R!GridState = GridState
  BY DEF GridState, R!GridState
<1>4. R!Request = Request
  BY DEF Request, R!Request
<1> QED
  BY <1>1, <1>2, <1>3, <1>4, NodeAssumption

LEMMA RunTypes == R!TypeInv /\ [R!Next]_(R!vars) => R!TypeInv'
BY RunAssumptions, NodeAssumption, NameAssumption, WordAssumption, PageAssumption,
   FarmAssumption, InfoAssumption, TotalAssumption, GridAssumption, AssignmentAssumption, R!NextType

LEMMA RunCopies == R!LoopInv /\ [R!Next]_(R!vars) => R!CopyInv' /\ R!AssignedInv'
BY RunAssumptions, NodeAssumption, NameAssumption, WordAssumption, PageAssumption,
   FarmAssumption, InfoAssumption, TotalAssumption, GridAssumption, AssignmentAssumption, R!NextCopy

LEMMA RunHonours == R!HonourInv /\ [R!Next]_(R!vars) => R!Answered' /\ R!Honoured'
BY RunAssumptions, NodeAssumption, NameAssumption, WordAssumption, PageAssumption,
   FarmAssumption, InfoAssumption, TotalAssumption, GridAssumption, AssignmentAssumption, R!NextHonour

LEMMA DeployTypes == P!TypeOK /\ [P!Next]_(P!vars) => P!TypeOK'
BY DeploymentAssumption, P!NextType DEF D!AllFaults, P!AllFaults

LEMMA DeployHouses == P!TypeOK /\ P!Housed /\ [P!Next]_(P!vars) /\ ~P!CancelOldFails => P!Housed'
BY DeploymentAssumption, P!NextHoused DEF D!AllFaults, P!AllFaults

----------------------------------------------------------------------------
(* A run of the scheduler, as the resource starts, steps and leaves it *)

\* Each step of the run is one that the theorems about the scheduler speak of.
LEMMA StepIsRunStep == Step => R!Step
<1>1. NextRequest => R!NextRequest
  BY DEF NextRequest, R!NextRequest, WidenExclusions, R!WidenExclusions, StartGridProxy,
         R!StartGridProxy, FirstLimit, R!FirstLimit
<1>2. Finish => R!Finish
  BY DEF Finish, R!Finish
<1>3. PingAnswered \/ PingUnanswered => R!PingAnswered \/ R!PingUnanswered
  BY DEF PingAnswered, R!PingAnswered, PingUnanswered, R!PingUnanswered, FarmFound, R!FarmFound,
         WithFarm, R!WithFarm, FarmLookupFails, R!FarmLookupFails, Unreliable, R!Unreliable,
         StartGridProxy, R!StartGridProxy, FirstLimit, R!FirstLimit
<1>4. BotAnswers \/ BotFails => R!BotAnswers \/ R!BotFails
  BY DEF BotAnswers, R!BotAnswers, BotFails, R!BotFails, BotChoices, R!BotChoices, BotCap, R!BotCap,
         Assign, R!Assign, Unreliable, R!Unreliable, Fail, R!Fail
<1>5. SkipNode => R!SkipNode
  BY DEF SkipNode, R!SkipNode, FarmLookupFails, R!FarmLookupFails, FarmFound, R!FarmFound,
         WithFarm, R!WithFarm, Unreliable, R!Unreliable, Fulfils, R!Fulfils,
         FulfilsIgnoringExclusions, R!FulfilsIgnoringExclusions
<1>6. TakeNode => R!TakeNode
  BY DEF TakeNode, R!TakeNode, Fulfils, R!Fulfils, FulfilsIgnoringExclusions,
         R!FulfilsIgnoringExclusions, WithFarm, R!WithFarm, Consume, R!Consume,
         ConsumePublicIPs, R!ConsumePublicIPs, Assign, R!Assign
<1>7. ListNodes \/ NoNodesFound \/ ListFails => R!ListNodes \/ R!NoNodesFound \/ R!ListFails
  BY DEF ListNodes, R!ListNodes, NoNodesFound, R!NoNodesFound, ListFails, R!ListFails, Page, R!Page,
         Rank, R!Rank, Cardinality, R!Cardinality, Listed, R!Listed, FilterWithoutZero,
         R!FilterWithoutZero, AddNodes, R!AddNodes, FreeCapacity, R!FreeCapacity,
         NextLimit, R!NextLimit, Unreliable, R!Unreliable, Fail, R!Fail
<1> QED
  BY <1>1, <1>2, <1>3, <1>4, <1>5, <1>6, <1>7 DEF Step, R!Step

LEMMA RunSteps == RunInv /\ Step => RunInv'
BY StepIsRunStep, RunTypes, RunCopies, RunHonours DEF RunInv, R!HonourInv, R!LoopInv, R!Next

\* Between two steps of a run, and when there is none, the grid may move.
LEMMA RunSeesGrid ==
  RunInv /\ GridMoves => RunInv'
<1> SUFFICES ASSUME RunInv, GridMoves PROVE RunInv'
  OBVIOUS
<1>1. /\ grid' \in Grids
      /\ UNCHANGED <<reqs, i, req, pc, err, todo, limit, nodes, farms, assignment, assigned, granted>>
  BY DEF GridMoves
<1>2. R!TypeInv'
  BY <1>1 DEF RunInv, R!HonourInv, R!LoopInv, R!TypeInv, R!TypeOK, R!InLoop
<1>3. R!CopyInv' /\ R!AssignedInv'
  BY <1>1 DEF RunInv, R!HonourInv, R!LoopInv, R!CopyInv, R!AssignedInv
<1>4. R!Answered' /\ R!Honoured'
  <2>1. \A j : R!NamesFrom(j)' = R!NamesFrom(j)
    BY <1>1 DEF R!NamesFrom
  <2> QED
    BY <1>1, <2>1 DEF RunInv, R!HonourInv, R!Answered, R!Honoured, R!Suits
<1> QED
  BY <1>2, <1>3, <1>4 DEF RunInv, R!HonourInv, R!LoopInv

\* A run begins, with any list of requests and any assignment.
LEMMA RunBegins ==
  ASSUME NEW p \in {"next", "done"}, NEW rs \in Seq(Request), NEW chosen, Run(p, rs, chosen),
         grid \in Grids, UNCHANGED grid,
         DOMAIN chosen \subseteq Name, \A nm \in DOMAIN chosen : chosen[nm] \in Node
  PROVE  RunInv'
<1>1. R!TypeInv'
  <2>1. AnyRequest \in Request
    BY NameAssumption, FarmAssumption, WordAssumption DEF AnyRequest, Request, Nothing
  <2>2. FirstLimit \in [page : Nat \ {0}, size : Nat \ {0}]
    BY PageAssumption DEF FirstLimit
  <2>3. 1 \in 1..(Len(rs) + 1)
    OBVIOUS
  <2>4. Range(chosen) \subseteq Node
    BY DEF Range
  <2>5. [n \in Node |-> Nothing] \in [Node -> [Unit -> Nat]]
    BY DEF Nothing
  <2> QED
    BY <2>1, <2>2, <2>3, <2>4, <2>5, RunAssumptions DEF Run, R!TypeInv, R!TypeOK, R!InLoop
<1>2. R!CopyInv' /\ R!AssignedInv' /\ R!Answered' /\ R!Honoured'
  BY DEF Run, Range, R!CopyInv, R!AssignedInv, R!Answered, R!Honoured
<1> QED
  BY <1>1, <1>2 DEF RunInv, R!HonourInv, R!LoopInv

----------------------------------------------------------------------------
(* parseRequests *)

\* It leaves requests without a node, and all of them; each once.
LEMMA ParseSelects ==
  ASSUME NEW requests \in Seq(Request), NEW chosen
  PROVE  LET rs == ParseRequests(requests, chosen)
         IN /\ rs \in Seq(Request)
            /\ \A k \in 1..Len(rs) : rs[k].name \notin DOMAIN chosen
            /\ \A j \in DOMAIN requests : requests[j].name \notin DOMAIN chosen =>
                 \E k \in 1..Len(rs) : rs[k] = requests[j]
            /\ (\A j, k \in DOMAIN requests : requests[j].name = requests[k].name => j = k) =>
                 \A j, k \in 1..Len(rs) : rs[j].name = rs[k].name => j = k
<1> DEFINE unassigned == {j \in DOMAIN requests : requests[j].name \notin DOMAIN chosen}
           nth(k) == CHOOSE j \in unassigned : Rank(j, unassigned) = k
           count == Cardinality(unassigned)
           rs == ParseRequests(requests, chosen)
<1>1. unassigned \in SUBSET Int /\ IsFiniteSet(unassigned) /\ count \in Nat
  <2>1. unassigned \in SUBSET (1..Len(requests)) /\ Len(requests) \in Nat
    OBVIOUS
  <2>2. IsFiniteSet(1..Len(requests))
    BY <2>1, FS_Interval
  <2>3. IsFiniteSet(unassigned)
    BY <2>1, <2>2, FS_Subset
  <2> QED
    BY <2>1, <2>3, FS_CardinalityType
<1>2. rs = [k \in 1..count |-> requests[nth(k)]]
  BY DEF ParseRequests
<1>3. ASSUME NEW k \in 1..count
      PROVE  nth(k) \in unassigned /\ Rank(nth(k), unassigned) = k
  <2>1. \E j \in unassigned : Rank(j, unassigned) = k
    <3> HIDE DEF unassigned
    <3> QED
      BY <1>1, RankReached DEF Rank
  <2> HIDE DEF unassigned
  <2> QED
    BY <2>1
<1>4. ASSUME NEW j \in unassigned
      PROVE  Rank(j, unassigned) \in 1..count /\ nth(Rank(j, unassigned)) = j
  <2> HIDE DEF unassigned, nth
  <2>1. Rank(j, unassigned) \in 1..count
    BY <1>1, RankRange DEF Rank
  <2>2. nth(Rank(j, unassigned)) \in unassigned
        /\ Rank(nth(Rank(j, unassigned)), unassigned) = Rank(j, unassigned)
    BY <1>3, <2>1
  <2>3. \A a, b \in unassigned : Rank(a, unassigned) = Rank(b, unassigned) => a = b
    BY <1>1, RankInjective DEF Rank
  <2> QED
    BY <2>1, <2>2, <2>3
<1> HIDE DEF nth, rs
<1>5. \A k \in 1..count : nth(k) \in DOMAIN requests /\ requests[nth(k)] \in Request
                          /\ requests[nth(k)].name \notin DOMAIN chosen
  BY <1>3
<1> HIDE DEF count
<1>6. rs \in Seq(Request) /\ Len(rs) = count
  <2>1. rs \in [1..count -> Request]
    BY <1>2, <1>5
  <2> QED
    BY <1>1, <2>1
<1>7. ASSUME NEW j \in DOMAIN requests, requests[j].name \notin DOMAIN chosen
      PROVE  \E k \in 1..Len(rs) : rs[k] = requests[j]
  <2>1. Rank(j, unassigned) \in 1..count /\ nth(Rank(j, unassigned)) = j
    BY <1>4, <1>7
  <2> QED
    BY <1>2, <1>6, <2>1
<1>8. ASSUME \A j, k \in DOMAIN requests : requests[j].name = requests[k].name => j = k,
             NEW j \in 1..Len(rs), NEW k \in 1..Len(rs), rs[j].name = rs[k].name
      PROVE  j = k
  <2>1. requests[nth(j)].name = requests[nth(k)].name
    BY <1>2, <1>6, <1>8
  <2>2. nth(j) = nth(k)
    BY <1>5, <1>6, <1>8, <2>1
  <2> QED
    BY <1>3, <1>6, <1>8, <2>2
<1>9. \A k \in 1..Len(rs) : rs[k].name \notin DOMAIN chosen
  BY <1>2, <1>5, <1>6
<1> QED
  BY <1>6, <1>7, <1>8, <1>9 DEF rs

----------------------------------------------------------------------------
(* The scheduler resource *)

\* What Terraform has saved is an assignment, empty without a resource.
Kept ==
  /\ config \in RequestLists
  /\ DOMAIN saved.nodes \subseteq Name
  /\ \A nm \in DOMAIN saved.nodes : saved.nodes[nm] \in Node
  /\ ~saved.exists => saved.nodes = None.nodes

\* While a handler runs, its run works on the requests that have no node yet, and
\* what has one is as it was saved.
Running ==
  op # "idle" =>
    /\ op = "create" <=> ~saved.exists
    /\ reqs = ParseRequests(config, saved.nodes)
    /\ pc = "done" => Len(reqs) < i
    /\ \A nm \in DOMAIN saved.nodes : nm \in DOMAIN assignment /\ assignment[nm] = saved.nodes[nm]

SchedulerInv == RunInv /\ Kept /\ Running

\* The resource steps, or the grid under it moves.
SchedulerStep == ResourceNext \/ (GridMoves /\ UNCHANGED resourceVars)

LEMMA RunStutters == RunInv /\ UNCHANGED vars => RunInv'
<1>1. UNCHANGED vars => UNCHANGED R!vars
  BY DEF vars, R!vars
<1> QED
  BY <1>1, RunTypes, RunCopies, RunHonours DEF RunInv, R!HonourInv, R!LoopInv

\* A step of a run gives no node but to a request of its list, and the run is done
\* when it is at the end of it.
LEMMA StepAssigns ==
  ASSUME RunInv, Step
  PROVE  /\ UNCHANGED reqs /\ (pc' = "done" => Len(reqs) < i')
         /\ \A nm \in DOMAIN assignment :
              /\ nm \in DOMAIN assignment'
              /\ assignment'[nm] = assignment[nm] \/ \E k \in 1..Len(reqs) : nm = reqs[k].name
<1>1. R!TypeOK /\ R!InLoop /\ R!CopyInv
  BY DEF RunInv, R!HonourInv, R!LoopInv, R!TypeInv
<1>2. reqs \in Seq(Request) /\ Len(reqs) \in Nat /\ i \in 1..(Len(reqs) + 1)
  BY <1>1 DEF R!TypeOK
<1>3. CASE TakeNode \/ BotAnswers
  <2>1. PICK n : Assign(n)
    BY <1>3 DEF TakeNode, BotAnswers
  <2>2. pc \in {"bot", "pick"} /\ UNCHANGED reqs
    BY <1>3 DEF TakeNode, BotAnswers
  <2>3. i \in 1..Len(reqs)
    BY <1>1, <1>2, <2>2 DEF R!InLoop
  <2>4. req.name = reqs[i].name
    <3>1. PICK S \in SUBSET Node : req = [reqs[i] EXCEPT !.exclude = S]
      BY <1>1, <2>2 DEF R!CopyInv
    <3>2. reqs[i] \in Request
      BY <1>2, <2>3
    <3> QED
      BY <3>1, <3>2 DEF Request
  <2> QED
    BY <2>1, <2>2, <2>3, <2>4 DEF Assign
<1>4. CASE Finish
  BY <1>2, <1>4 DEF Finish
<1>5. CASE NextRequest \/ PingAnswered \/ PingUnanswered \/ BotFails \/ SkipNode \/ ListNodes
           \/ NoNodesFound \/ ListFails
  BY <1>5 DEF NextRequest, PingAnswered, PingUnanswered, StartGridProxy, BotFails, SkipNode,
              ListNodes, NoNodesFound, ListFails, Fail
<1> QED
  BY <1>3, <1>4, <1>5 DEF Step

\* A handler returns, and its scheduler is gone.
LEMMA Returns ==
  ASSUME RunInv, Return, UNCHANGED grid
  PROVE  RunInv' /\ Running'
<1>1. grid \in Grids
  BY DEF RunInv, R!HonourInv, R!LoopInv, R!TypeInv, R!TypeOK
<1>2. Run("done", <<>>, None.nodes) /\ op' = "idle"
  BY DEF Return
<1>3. <<>> \in Seq(Request) /\ DOMAIN None.nodes = {}
  BY DEF None
<1> QED
  BY <1>1, <1>2, <1>3, RunBegins DEF Running

\* A handler starts, with what it parses of the block and of what is saved.
LEMMA Starts ==
  ASSUME SchedulerInv, NEW chosen, chosen = saved.nodes,
         Run("next", ParseRequests(config, chosen), chosen),
         op' = IF saved.exists THEN "update" ELSE "create", UNCHANGED <<grid, config, saved>>
  PROVE  RunInv' /\ Running'
<1>1. grid \in Grids
  BY DEF SchedulerInv, RunInv, R!HonourInv, R!LoopInv, R!TypeInv, R!TypeOK
<1>2. config \in Seq(Request)
  BY RequestAssumption DEF SchedulerInv, Kept
<1>3. ParseRequests(config, chosen) \in Seq(Request)
  BY <1>2, ParseSelects
<1>4. RunInv'
  BY <1>1, <1>3, RunBegins DEF SchedulerInv, Kept
<1> QED
  BY <1>4 DEF Run, Running

LEMMA NextScheduler == SchedulerInv /\ [SchedulerStep]_allVars => SchedulerInv'
<1> SUFFICES ASSUME SchedulerInv, [SchedulerStep]_allVars PROVE SchedulerInv'
  OBVIOUS
<1>i. RunInv /\ Kept /\ Running
  BY DEF SchedulerInv
<1>a. DOMAIN assignment \subseteq Name /\ \A nm \in DOMAIN assignment : assignment[nm] \in Node
  BY <1>i DEF RunInv, R!HonourInv, R!LoopInv, R!TypeInv, R!TypeOK
<1>1. CASE Edit
  BY <1>1, <1>i, RunStutters DEF Edit, SchedulerInv, Kept, Running
<1>2. CASE Create
  <2>1. RunInv' /\ Running'
    BY <1>2, <1>i, Starts DEF Create, Kept
  <2> QED
    BY <1>2, <1>i, <2>1 DEF Create, SchedulerInv, Kept
<1>3. CASE Update
  <2>1. RunInv' /\ Running'
    BY <1>3, <1>i, Starts DEF Update, ParseAssignment, Kept
  <2> QED
    BY <1>3, <1>i, <2>1 DEF Update, SchedulerInv, Kept
<1>4. CASE Process
  <2>1. Step /\ UNCHANGED <<config, saved, op>> /\ op # "idle"
    BY <1>4 DEF Process, resourceVars
  <2>2. RunInv'
    BY <1>i, <2>1, RunSteps
  <2>3. ASSUME NEW k \in 1..Len(reqs) PROVE reqs[k].name \notin DOMAIN saved.nodes
    BY <1>i, <2>1, RequestAssumption, ParseSelects DEF Running, Kept
  <2>4. Running'
    BY <1>i, <2>1, <2>3, StepAssigns DEF Running
  <2> QED
    BY <1>i, <2>1, <2>2, <2>4 DEF SchedulerInv, Kept
<1>5. CASE CreateEnds
  <2>1. saved' \in {Resource(config, assignment), None} /\ UNCHANGED config
    BY <1>5 DEF CreateEnds
  <2> QED
    BY <1>5, <1>i, <1>a, <2>1, Returns DEF CreateEnds, SchedulerInv, Kept, Resource, None
<1>6. CASE UpdateEnds
  <2>1. saved' \in {Resource(config, assignment), Resource(config, saved.nodes)} /\ UNCHANGED config
    BY <1>6 DEF UpdateEnds
  <2> QED
    BY <1>6, <1>i, <1>a, <2>1, Returns DEF UpdateEnds, SchedulerInv, Kept, Resource
<1>7. CASE Delete
  BY <1>7, <1>i, RunStutters DEF Delete, SchedulerInv, Kept, Running, None
<1>8. CASE Killed
  BY <1>8, <1>i, Returns DEF Killed, SchedulerInv, Kept
<1>9. CASE GridMoves /\ UNCHANGED resourceVars
  <2>1. /\ UNCHANGED <<reqs, i, pc, assignment>>
        /\ UNCHANGED <<config, saved, op>>
    BY <1>9 DEF GridMoves, resourceVars
  <2> QED
    BY <1>9, <1>i, <2>1, RunSeesGrid DEF SchedulerInv, Kept, Running
<1>10. CASE UNCHANGED allVars
  <2>1. UNCHANGED vars /\ UNCHANGED <<reqs, i, pc, assignment>> /\ UNCHANGED <<config, saved, op>>
    BY <1>10 DEF allVars, vars, resourceVars
  <2> QED
    BY <1>i, <2>1, RunStutters DEF SchedulerInv, Kept, Running
<1> QED
  BY <1>1, <1>2, <1>3, <1>4, <1>5, <1>6, <1>7, <1>8, <1>9, <1>10
     DEF SchedulerStep, ResourceNext, GridChanges

----------------------------------------------------------------------------
(* What is saved of the scheduler resource *)

\* What a step does to it.
LEMMA SavedSteps ==
  ASSUME SchedulerInv, [SchedulerStep]_allVars
  PROVE  \/ saved' = saved
         \/ ~saved'.exists /\ (Delete \/ ~saved.exists)
         \/ /\ ~saved.exists /\ op = "create" /\ pc = "done"
            /\ saved' = Resource(config, assignment)
         \/ /\ saved.exists /\ op = "update" /\ Ended
            /\ saved' = Resource(config, IF pc = "done" THEN assignment ELSE saved.nodes)
<1>i. Running
  BY DEF SchedulerInv
<1>1. CASE Edit \/ Create \/ Update \/ Killed
  BY <1>1 DEF Edit, Create, Update, Killed
<1>2. CASE Process \/ (GridMoves /\ UNCHANGED resourceVars) \/ UNCHANGED allVars
  BY <1>2 DEF Process, resourceVars, allVars
<1>3. CASE CreateEnds
  BY <1>3, <1>i DEF CreateEnds, Running, None
<1>4. CASE UpdateEnds
  BY <1>4, <1>i DEF UpdateEnds, Running
<1>5. CASE Delete
  BY <1>5 DEF Delete, None
<1> QED
  BY <1>1, <1>2, <1>3, <1>4, <1>5 DEF SchedulerStep, ResourceNext, GridChanges

\* The step of AssignedStays.
NodesStay ==
  saved.exists /\ saved'.exists =>
    \A nm \in DOMAIN saved.nodes :
      nm \in DOMAIN saved'.nodes /\ saved'.nodes[nm] = saved.nodes[nm]

LEMMA StepKeepsNodes == SchedulerInv /\ [SchedulerStep]_allVars => NodesStay
<1> SUFFICES ASSUME SchedulerInv, [SchedulerStep]_allVars PROVE NodesStay
  OBVIOUS
<1>i. Running
  BY DEF SchedulerInv
<1>1. CASE saved.exists /\ op = "update" /\ saved' \in {Resource(config, assignment),
                                                        Resource(config, saved.nodes)}
  BY <1>1, <1>i DEF Running, Resource, NodesStay
<1> QED
  BY <1>1, SavedSteps DEF NodesStay

\* A run that is done has a node for every request of the block.
LEMMA DoneHasAll ==
  ASSUME SchedulerInv, op # "idle", pc = "done"
  PROVE  NamesOf(config) \subseteq DOMAIN assignment
<1>i. Running /\ Kept /\ R!Answered
  BY DEF SchedulerInv, RunInv, R!HonourInv
<1>1. config \in Seq(Request) /\ reqs = ParseRequests(config, saved.nodes)
  BY <1>i, RequestAssumption DEF Running, Kept
<1>2. reqs \in Seq(Request) /\ Len(reqs) \in Nat /\ Len(reqs) < i /\ i \in Int
  BY <1>i DEF SchedulerInv, RunInv, R!HonourInv, R!LoopInv, R!TypeInv, R!TypeOK, Running
<1>3. \A k \in 1..Len(reqs) : reqs[k].name \in DOMAIN assignment
  BY <1>i, <1>2 DEF R!Answered
<1>4. SUFFICES ASSUME NEW j \in DOMAIN config PROVE config[j].name \in DOMAIN assignment
  BY DEF NamesOf
<1>5. CASE config[j].name \in DOMAIN saved.nodes
  BY <1>i, <1>5 DEF Running
<1>6. CASE config[j].name \notin DOMAIN saved.nodes
  <2>1. \E k \in 1..Len(reqs) : reqs[k] = config[j]
    BY <1>1, <1>6, ParseSelects
  <2> QED
    BY <1>3, <2>1
<1> QED
  BY <1>5, <1>6

\* The step of AllOrNothing.
AllOrNone ==
  saved' # saved /\ saved'.exists =>
    \/ NamesOf(saved'.requests) \subseteq DOMAIN saved'.nodes
    \/ saved.exists /\ saved'.nodes = saved.nodes

LEMMA StepStoresAllOrNone == SchedulerInv /\ [SchedulerStep]_allVars => AllOrNone
<1> SUFFICES ASSUME SchedulerInv, [SchedulerStep]_allVars PROVE AllOrNone
  OBVIOUS
<1>1. CASE op # "idle" /\ pc = "done" /\ saved' = Resource(config, assignment)
  BY <1>1, DoneHasAll DEF Resource, AllOrNone
<1>2. CASE saved.exists /\ saved' = Resource(config, saved.nodes)
  BY <1>2 DEF Resource, AllOrNone
<1> QED
  BY <1>1, <1>2, SavedSteps DEF AllOrNone

\* The requests of a block have names of their own.  The provider does not ask for
\* it: of two with one name, the later gets the node that is kept.
NamesDiffer ==
  \A rs \in RequestLists : \A j, k \in DOMAIN rs : rs[j].name = rs[k].name => j = k

\* The step of DistinctFromEarlier.
NewAreDistinct ==
  saved.exists /\ saved'.exists =>
    \A j \in DOMAIN saved'.requests :
      LET r == saved'.requests[j]
      IN r.distinct /\ r.name \in DOMAIN saved'.nodes \ DOMAIN saved.nodes =>
           saved'.nodes[r.name] \notin Range(saved.nodes)

LEMMA StepKeepsDistinct ==
  NamesDiffer /\ SchedulerInv /\ [SchedulerStep]_allVars => NewAreDistinct
<1> SUFFICES ASSUME NamesDiffer, SchedulerInv, [SchedulerStep]_allVars PROVE NewAreDistinct
  OBVIOUS
<1>i. Running /\ Kept /\ R!Honoured
  BY DEF SchedulerInv, RunInv, R!HonourInv
<1>1. CASE saved' = saved \/ saved' = Resource(config, saved.nodes) \/ ~saved.exists \/ ~saved'.exists
  BY <1>1 DEF Resource, NewAreDistinct
<1>2. CASE op = "update" /\ pc = "done" /\ saved' = Resource(config, assignment)
  <2>1. config \in Seq(Request) /\ reqs = ParseRequests(config, saved.nodes)
    BY <1>i, <1>2, RequestAssumption DEF Running, Kept
  <2>2. reqs \in Seq(Request) /\ Len(reqs) \in Nat /\ Len(reqs) < i /\ i \in Int
    BY <1>i, <1>2 DEF SchedulerInv, RunInv, R!HonourInv, R!LoopInv, R!TypeInv, R!TypeOK, Running
  <2>3. SUFFICES ASSUME NEW j \in DOMAIN config, config[j].distinct,
                        config[j].name \in DOMAIN assignment \ DOMAIN saved.nodes,
                        NEW nm \in DOMAIN saved.nodes
        PROVE  assignment[config[j].name] # saved.nodes[nm]
    BY <1>2 DEF Resource, NewAreDistinct, Range
  <2>4. PICK k \in 1..Len(reqs) : reqs[k] = config[j]
    BY <2>1, <2>3, ParseSelects
  <2>5. \A l, m \in 1..Len(reqs) : reqs[l].name = reqs[m].name => l = m
    BY <1>i, <2>1, ParseSelects DEF NamesDiffer, Kept
  <2>6. reqs[k].name \notin R!NamesFrom(k + 1)
    BY <2>2, <2>5 DEF R!NamesFrom
  <2>7. nm \notin R!NamesFrom(k)
    <3>1. \A l \in 1..Len(reqs) : reqs[l].name \notin DOMAIN saved.nodes
      BY <2>1, ParseSelects
    <3> QED
      BY <2>2, <3>1 DEF R!NamesFrom
  <2>8. nm \in DOMAIN assignment /\ assignment[nm] = saved.nodes[nm]
    BY <1>i, <1>2 DEF Running
  <2>9. k \in 1..(i - 1)
    BY <2>2
  <2> QED
    BY <1>i, <2>3, <2>4, <2>6, <2>7, <2>8, <2>9 DEF R!Honoured
<1> QED
  BY <1>1, <1>2, SavedSteps

----------------------------------------------------------------------------
(* The deployment that refers to a request *)

\* A block, or what became of it, is where its request is.
OnPlace(n) == Placed \in DOMAIN saved.nodes /\ n = saved.nodes[Placed]

\* The two resources take turns; what is saved of the deployment, and what its
\* handlers work on, is on the node of its request.  So no handler moves it, and
\* none deletes it while the blocks are there.
Joined ==
  /\ content \in Body
  /\ op # "idle" => step = "idle"
  /\ step # "cancelOld"
  /\ step = "cancel" \/ (step = "load" /\ doing = "delete") => ~wanted
  /\ \A s \in held : OnPlace(s.node)
  /\ step # "idle" => OnPlace(data.node)

PlacedInv == SchedulerInv /\ DeployInv /\ Joined

\* The handlers of the deployment, and its contracts that expire.
DeploySteps == (Deploying \/ Expire) /\ UNCHANGED <<allVars, blockVars, faults>>

\* They are steps that the theorems about the deployment speak of.
LEMMA DeployIsDeployStep == Deploying \/ Expire => DeploySteps /\ P!Next
<1> SUFFICES ASSUME Deploying \/ Expire PROVE P!Next
  BY DEF DeploySteps, Deploying, Expire
<1>f. faults' = faults
  BY DEF Deploying, Expire
<1>1. CASE D!Refresh
  BY <1>1, <1>f DEF D!Refresh, P!Refresh, D!NoId, P!NoId, P!Next
<1>2. CASE D!PlanCreate \/ D!PlanUpdate \/ D!PlanDelete
  BY <1>2, <1>f DEF D!PlanCreate, P!PlanCreate, D!PlanUpdate, P!PlanUpdate, D!PlanDelete,
     P!PlanDelete, D!NoId, P!NoId, P!Plan, P!Next
<1>3. CASE D!PlanNothing
  BY <1>3, <1>f DEF D!PlanNothing, P!PlanNothing, D!Return, P!Return, D!Blank, P!Blank, D!NoId,
     P!NoId, P!Plan, P!Next
<1>4. CASE D!CancelOld \/ D!DeployNew \/ D!DeployChange
  BY <1>4, <1>f DEF D!CancelOld, P!CancelOld, D!DeployNew, P!DeployNew, D!DeployChange,
     P!DeployChange, D!Without, P!Without, D!With, P!With, D!Reachable, P!Reachable, D!NoId, P!NoId,
     P!Call, P!Next
<1>5. CASE D!CancelOldFails \/ D!LoadFails \/ D!DeployFails \/ D!DeployFailsUnreverted
  BY <1>5, <1>f DEF D!CancelOldFails, P!CancelOldFails, D!LoadFails, P!LoadFails, D!DeployFails,
     P!DeployFails,
     D!DeployFailsUnreverted, P!DeployFailsUnreverted, D!Fail, P!Fail, D!Return, P!Return, D!Blank,
     P!Blank, D!Keep, P!Keep, D!With, P!With, D!Reachable, P!Reachable, D!NoId, P!NoId, P!Call, P!Next
<1>6. CASE D!SyncRead \/ D!SyncReadFails
  BY <1>6, <1>f DEF D!SyncRead, P!SyncRead, D!SyncReadFails, P!SyncReadFails, D!CanSync, P!CanSync,
     D!Stored, P!Stored, D!Zero, P!Zero, D!Reachable, P!Reachable, P!Call, P!Next
<1>7. CASE D!SyncApplied \/ D!SyncAppliedFails
  BY <1>7, <1>f DEF D!SyncApplied, P!SyncApplied, D!SyncAppliedFails, P!SyncAppliedFails, D!CanSync,
     P!CanSync, D!Stored, P!Stored, D!Zero, P!Zero, D!Reachable, P!Reachable, D!Fail, P!Fail,
     D!Return, P!Return, D!Blank, P!Blank, D!Keep, P!Keep, D!NoId, P!NoId, P!Call, P!Next
<1>8. CASE D!Cancel \/ D!CancelFails \/ D!SyncDeleted \/ D!SyncDeletedFails
  BY <1>8, <1>f DEF D!Cancel, P!Cancel, D!CancelFails, P!CancelFails, D!SyncDeleted, P!SyncDeleted,
     D!SyncDeletedFails, P!SyncDeletedFails, D!CanSync, P!CanSync, D!Without, P!Without,
     D!Reachable, P!Reachable, D!Fail, P!Fail, D!Return, P!Return, D!Blank, P!Blank, D!Keep, P!Keep,
     D!NoId, P!NoId, P!Call, P!Next
<1>9. CASE D!Killed \/ D!Expire
  BY <1>9, <1>f DEF D!Killed, P!Killed, D!Expire, P!Expire, D!Return, P!Return, D!Blank, P!Blank,
     D!Without, P!Without, D!NoId, P!NoId, P!Next
<1>10. CASE D!Load
  BY <1>10, <1>f DEF D!Load, P!Load, P!Call, P!Next
<1> QED
  BY <1>1, <1>2, <1>3, <1>4, <1>5, <1>6, <1>7, <1>8, <1>9, <1>10 DEF Deploying, Expire, D!Call

\* The block of the deployment is one node and one body, or nothing.
BlockOf(w, assigns, c) ==
  {b \in [node : Node, body : {c}] : w /\ Placed \in DOMAIN assigns /\ b.node = assigns[Placed]}

LEMMA BlockType ==
  ASSUME NEW w, NEW assigns, NEW c \in Body
  PROVE  BlockOf(w, assigns, c) \in P!AtMostOne([node : Node, body : Body])
<1>1. \A b, k \in BlockOf(w, assigns, c) : b = k /\ b \in [node : Node, body : Body]
  BY DEF BlockOf
<1>2. \/ BlockOf(w, assigns, c) = {}
      \/ \E b \in [node : Node, body : Body] : BlockOf(w, assigns, c) = {b}
  BY <1>1
<1> QED
  BY <1>2 DEF P!AtMostOne

\* Nothing of the deployment but its block, its report and the nodes under it.
Beside == UNCHANGED <<faults, chain, next, held, step, doing, data, made>>

LEMMA DeployStandsBy ==
  ASSUME DeployInv, Beside, content' \in Body, report' \in {"none", report}, grid' \in Grids
  PROVE  DeployInv'
<1>1. Block' \in P!AtMostOne([node : Node, body : Body])
  <2>1. Block' = BlockOf(wanted', saved'.nodes, content')
    BY DEF Block, BlockOf
  <2> QED
    BY <2>1, BlockType
<1>2. grid'.up \subseteq Node
  BY GridAssumption DEF GridState
<1>3. P!TypeOK'
  <2> HIDE DEF Block
  <2> QED
    BY <1>1, <1>2 DEF DeployInv, P!TypeOK, Beside, P!Attributes, P!NoId
<1>4. P!Housed'
  BY DEF DeployInv, P!Housed, P!At, Beside
<1> QED
  BY <1>3, <1>4 DEF DeployInv

\* As long as the saved nodes stay, so does the place of the deployment.
LEMMA PlaceStays ==
  ASSUME \A nm \in DOMAIN saved.nodes : nm \in DOMAIN saved'.nodes /\ saved'.nodes[nm] = saved.nodes[nm],
         NEW n, OnPlace(n)
  PROVE  Placed \in DOMAIN saved'.nodes /\ n = saved'.nodes[Placed]
BY DEF OnPlace

\* The other steps leave the deployment where it is, and its resource is only
\* deleted under it when nothing is saved of it.
OtherStep ==
  EditRequests \/ EditBlocks \/ Schedule \/ Scheduling \/ AnyGridChange \/ UNCHANGED placedVars

LEMMA OthersStandBy ==
  ASSUME PlacedInv, OtherStep
  PROVE  /\ [SchedulerStep]_allVars /\ Beside
         /\ content' \in Body /\ report' \in {"none", report} /\ grid' \in Grids
         /\ Delete => held = {} /\ step = "idle"
         /\ op' # "idle" => step = "idle"
         /\ wanted' = wanted \/ step = "idle"
<1>1. grid \in Grids /\ content \in Body /\ (op # "idle" => step = "idle")
  BY DEF PlacedInv, SchedulerInv, RunInv, R!HonourInv, R!LoopInv, R!TypeInv, R!TypeOK, Joined
<1>2. Delete => op = "idle" /\ saved' # saved /\ ~(UNCHANGED <<saved, op>>)
  BY DEF Delete, None
<1>3. CASE EditRequests
  BY <1>1, <1>2, <1>3 DEF EditRequests, Edit, SchedulerStep, ResourceNext, Beside, deploymentVars,
     blockVars, vars
<1>4. CASE EditBlocks
  BY <1>1, <1>2, <1>4 DEF EditBlocks, Beside, allVars, vars, resourceVars
<1>5. CASE Schedule
  <2>1. Create \/ Update \/ Delete
    BY <1>5 DEF Schedule
  <2>2. grid' = grid
    BY <2>1 DEF Create, Update, Delete, vars
  <2>3. Create \/ Update => ~Delete
    BY <1>2 DEF Create, Update
  <2> QED
    BY <1>1, <1>5, <2>1, <2>2, <2>3 DEF Schedule, SchedulerStep, ResourceNext, Beside, blockVars
<1>6. CASE Scheduling
  <2>1. op # "idle" /\ (Process \/ CreateEnds \/ UpdateEnds \/ Killed)
    BY <1>6 DEF Scheduling, Process, CreateEnds, UpdateEnds, Killed
  <2>2. grid' = grid
    BY <2>1 DEF Process, CreateEnds, UpdateEnds, Killed, Step, NextRequest, Finish, PingAnswered,
       PingUnanswered, BotAnswers, BotFails, SkipNode, TakeNode, ListNodes, NoNodesFound, ListFails
  <2> QED
    BY <1>1, <1>2, <1>6, <2>1, <2>2 DEF Scheduling, SchedulerStep, ResourceNext, Beside, blockVars,
       deploymentVars
<1>7. CASE AnyGridChange
  BY <1>1, <1>2, <1>7 DEF AnyGridChange, GridMoves, SchedulerStep, resourceVars, Beside, blockVars,
     deploymentVars
<1>8. CASE UNCHANGED placedVars
  BY <1>1, <1>2, <1>8 DEF placedVars, allVars, vars, resourceVars, Beside, blockVars, deploymentVars
<1> QED
  BY <1>3, <1>4, <1>5, <1>6, <1>7, <1>8 DEF OtherStep

LEMMA OthersKeepJoined == PlacedInv /\ OtherStep => Joined'
<1> SUFFICES ASSUME PlacedInv, OtherStep PROVE Joined'
  OBVIOUS
<1>1. /\ [SchedulerStep]_allVars /\ Beside /\ content' \in Body
      /\ Delete => held = {} /\ step = "idle"
      /\ op' # "idle" => step = "idle"
      /\ wanted' = wanted \/ step = "idle"
  BY OthersStandBy
<1>2. SchedulerInv /\ Joined /\ Kept
  BY DEF PlacedInv, SchedulerInv
<1>3. \A n : OnPlace(n) => (Delete \/ (Placed \in DOMAIN saved'.nodes /\ n = saved'.nodes[Placed]))
  <2>1. SUFFICES ASSUME NEW n, OnPlace(n), ~Delete
        PROVE  Placed \in DOMAIN saved'.nodes /\ n = saved'.nodes[Placed]
    OBVIOUS
  <2>2. saved.exists
    BY <1>2, <2>1 DEF OnPlace, Kept, None
  <2>3. saved' = saved \/ saved'.exists
    BY <1>1, <1>2, <2>1, <2>2, SavedSteps DEF Resource
  <2>4. saved'.exists => NodesStay
    BY <1>1, <1>2, StepKeepsNodes
  <2> QED
    BY <2>1, <2>2, <2>3, <2>4, PlaceStays DEF NodesStay, OnPlace
<1> QED
  BY <1>1, <1>2, <1>3 DEF Joined, OnPlace, Beside

\* What a handler reads of the chain, or leaves when it returns, is on the node it
\* works with.
LEMMA ReturnedOnPlace ==
  ASSUME PlacedInv, step # "idle", NEW s,
         s \in D!Keep(data) \/ s \in D!Keep(D!Stored(made)) \/ s = D!Stored(made) \/ s \in held
  PROVE  OnPlace(s.node)
<1>1. Joined /\ data \in P!Attributes
  BY DEF PlacedInv, DeployInv, P!TypeOK
<1>2. D!Stored(made).node = data.node
  BY <1>1 DEF D!Stored, P!Attributes
<1> QED
  BY <1>1, <1>2 DEF Joined, D!Keep

LEMMA DeploysKeepJoined == PlacedInv /\ (Deploying \/ Expire) => Joined'
<1> SUFFICES ASSUME PlacedInv, Deploying \/ Expire PROVE Joined'
  OBVIOUS
<1>j. Joined
  BY DEF PlacedInv
<1>u. UNCHANGED <<saved, op, wanted, content>>
  BY DeployIsDeployStep DEF DeploySteps, allVars, resourceVars, blockVars
<1>b. \A c \in Block : OnPlace(c.node) /\ wanted
  BY DEF Block, OnPlace
<1>e. CASE Expire
  BY <1>e, <1>j, <1>u DEF Expire, D!Expire, Joined, OnPlace
<1> SUFFICES ASSUME Deploying PROVE Joined'
  BY <1>e
<1>o. op' = "idle"
  BY <1>u DEF Deploying
<1> HIDE DEF Block
<1>1. CASE D!Refresh
  BY <1>1, <1>j, <1>u, <1>o DEF D!Refresh, Joined, OnPlace
<1>2. CASE D!PlanCreate
  BY <1>2, <1>j, <1>u, <1>o, <1>b DEF D!PlanCreate, Joined, OnPlace
<1>3. CASE D!PlanUpdate
  <2>1. PICK s \in held, c \in Block :
          /\ data' = [id |-> s.id, node |-> c.node, body |-> c.body]
          /\ step' = IF c.node # s.node THEN "cancelOld" ELSE "load"
    BY <1>3 DEF D!PlanUpdate
  <2>2. c.node = s.node /\ OnPlace(c.node) /\ data'.node = c.node
    BY <1>j, <1>b, <2>1 DEF Joined, OnPlace
  <2> QED
    BY <1>3, <1>j, <1>u, <1>o, <2>1, <2>2 DEF D!PlanUpdate, Joined, OnPlace
<1>4. CASE D!PlanDelete /\ ~wanted
  BY <1>4, <1>j, <1>u, <1>o DEF D!PlanDelete, Joined, OnPlace
<1>5. CASE D!PlanNothing \/ D!Killed
  BY <1>5, <1>j, <1>u, <1>o DEF D!PlanNothing, D!Killed, D!Return, Joined, OnPlace
<1>6. CASE D!CancelOld \/ D!CancelOldFails
  BY <1>6, <1>j DEF D!CancelOld, D!CancelOldFails, Joined
<1>7. CASE D!DeployNew \/ D!DeployChange \/ D!Cancel
  BY <1>7, <1>j, <1>u, <1>o DEF D!DeployNew, D!DeployChange, D!Cancel, Joined, OnPlace
<1>8. CASE D!LoadFails \/ D!DeployFails \/ D!DeployFailsUnreverted \/ D!SyncAppliedFails
           \/ D!CancelFails \/ D!SyncDeletedFails
  <2>1. D!Fail /\ step # "idle"
    BY <1>8 DEF D!LoadFails, D!DeployFails, D!DeployFailsUnreverted, D!SyncAppliedFails, D!CancelFails,
       D!SyncDeletedFails
  <2>2. step' = "idle" /\ (held' = held \/ held' = D!Keep(data))
    BY <2>1 DEF D!Fail, D!Return
  <2>3. \A s \in held' : OnPlace(s.node)
    BY <2>1, <2>2, ReturnedOnPlace
  <2> QED
    BY <1>j, <1>u, <1>o, <2>2, <2>3 DEF Joined, OnPlace
<1>9. CASE D!SyncRead
  <2>1. step # "idle" /\ held' = {D!Stored(made)} /\ step' = "plan" /\ data' = data
    BY <1>9 DEF D!SyncRead
  <2>2. \A s \in held' : OnPlace(s.node)
    BY <2>1, ReturnedOnPlace
  <2> QED
    BY <1>j, <1>u, <1>o, <2>1, <2>2 DEF Joined, OnPlace
<1>10. CASE D!SyncReadFails
  BY <1>10, <1>j, <1>u, <1>o DEF D!SyncReadFails, Joined, OnPlace
<1>11. CASE D!SyncApplied
  <2>1. step # "idle" /\ held' = D!Keep(D!Stored(made)) /\ step' = "idle"
    BY <1>11 DEF D!SyncApplied, D!Return
  <2>2. \A s \in held' : OnPlace(s.node)
    BY <2>1, ReturnedOnPlace
  <2> QED
    BY <1>j, <1>u, <1>o, <2>1, <2>2 DEF Joined, OnPlace
<1>12. CASE D!SyncDeleted
  BY <1>12, <1>j, <1>u, <1>o DEF D!SyncDeleted, D!Return, Joined, OnPlace
<1>13. CASE D!Load
  BY <1>13, <1>j, <1>u, <1>o DEF D!Load, Joined, OnPlace
<1> QED
  BY <1>1, <1>2, <1>3, <1>4, <1>5, <1>6, <1>7, <1>8, <1>9, <1>10, <1>11, <1>12, <1>13
     DEF Deploying, D!Call

LEMMA PlacedSteps ==
  [PlacedNext]_placedVars => OtherStep \/ Deploying \/ Expire
BY DEF PlacedNext, OtherStep

LEMMA InitPlaced == PlacedInit => PlacedInv
<1> SUFFICES ASSUME PlacedInit PROVE PlacedInv
  OBVIOUS
<1>1. SchedulerInv
  <2>1. AnyRequest \in Request
    BY NameAssumption, FarmAssumption, WordAssumption DEF AnyRequest, Request, Nothing
  <2>2. FirstLimit \in [page : Nat \ {0}, size : Nat \ {0}]
    BY PageAssumption DEF FirstLimit
  <2>3. [n \in Node |-> Nothing] \in [Node -> [Unit -> Nat]]
    BY DEF Nothing
  <2>4. R!TypeInv
    BY <2>1, <2>2, <2>3, RunAssumptions
       DEF PlacedInit, ResourceInit, None, R!TypeInv, R!TypeOK, R!InLoop
  <2>5. R!CopyInv /\ R!AssignedInv /\ R!Answered /\ R!Honoured
    BY DEF PlacedInit, ResourceInit, None, R!CopyInv, R!AssignedInv, R!Answered, R!Honoured
  <2>6. Kept /\ Running
    BY DEF PlacedInit, ResourceInit, None, Kept, Running
  <2> QED
    BY <2>4, <2>5, <2>6 DEF SchedulerInv, RunInv, R!HonourInv, R!LoopInv
<1>2. P!TypeOK
  <2>1. Block \in P!AtMostOne([node : Node, body : Body])
    <3>1. Block = BlockOf(wanted, saved.nodes, content) /\ content \in Body
      BY DEF Block, BlockOf, PlacedInit
    <3> QED
      BY <3>1, BlockType
  <2>2. grid.up \subseteq Node
    BY GridAssumption DEF GridState, PlacedInit, ResourceInit
  <2>3. data \in P!Attributes
    BY DeploymentAssumption DEF PlacedInit, D!Blank, D!NoId, P!Attributes, P!NoId
  <2>4. next \in 1..(MaxContract + 1)
    BY DeploymentAssumption DEF PlacedInit
  <2> HIDE DEF Block
  <2> QED
    BY <2>1, <2>2, <2>3, <2>4 DEF PlacedInit, P!TypeOK, D!NoId, P!NoId
<1>3. P!Housed /\ Joined
  BY DEF PlacedInit, P!Housed, ResourceInit, Joined
<1> QED
  BY <1>1, <1>2, <1>3 DEF PlacedInv, DeployInv

LEMMA NextPlaced == PlacedInv /\ [PlacedNext]_placedVars => PlacedInv'
<1> SUFFICES ASSUME PlacedInv, [PlacedNext]_placedVars PROVE PlacedInv'
  OBVIOUS
<1>i. SchedulerInv /\ DeployInv /\ Joined
  BY DEF PlacedInv
<1>1. CASE OtherStep
  <2>1. SchedulerInv'
    BY <1>1, <1>i, OthersStandBy, NextScheduler
  <2>2. DeployInv'
    BY <1>1, <1>i, OthersStandBy, DeployStandsBy
  <2>3. Joined'
    BY <1>1, OthersKeepJoined
  <2> QED
    BY <2>1, <2>2, <2>3 DEF PlacedInv
<1>2. CASE Deploying \/ Expire
  <2>1. UNCHANGED allVars /\ P!Next
    BY <1>2, DeployIsDeployStep DEF DeploySteps
  <2>2. SchedulerInv'
    BY <1>i, <2>1, NextScheduler
  <2>3. ~P!CancelOldFails
    BY <1>i DEF Joined, P!CancelOldFails
  <2>4. DeployInv'
    BY <1>i, <2>1, <2>3, DeployTypes, DeployHouses DEF DeployInv
  <2>5. Joined'
    BY <1>2, DeploysKeepJoined
  <2> QED
    BY <2>2, <2>4, <2>5 DEF PlacedInv
<1> QED
  BY <1>1, <1>2, PlacedSteps

LEMMA PlacedInvariant == PlacedSpec => []PlacedInv
BY InitPlaced, NextPlaced, PTL DEF PlacedSpec

----------------------------------------------------------------------------
(* Theorems *)

LEMMA PlacedSchedulerSteps ==
  PlacedInv /\ [PlacedNext]_placedVars => SchedulerInv /\ [SchedulerStep]_allVars
<1> SUFFICES ASSUME PlacedInv, [PlacedNext]_placedVars
             PROVE  SchedulerInv /\ [SchedulerStep]_allVars
  OBVIOUS
<1>1. CASE OtherStep
  BY <1>1, OthersStandBy DEF PlacedInv
<1>2. CASE Deploying \/ Expire
  BY <1>2, DeployIsDeployStep DEF DeploySteps, PlacedInv
<1> QED
  BY <1>1, <1>2, PlacedSteps

\* A request that has a node keeps it as long as its resource lives, whatever is
\* edited around it, and however the grid moves and applies fail or are killed.
THEOREM NodesAreKept == PlacedSpec => AssignedStays
<1>1. PlacedInv /\ [PlacedNext]_placedVars => [NodesStay]_allVars
  BY PlacedSchedulerSteps, StepKeepsNodes
<1>2. PlacedSpec => [][NodesStay]_allVars
  BY <1>1, PlacedInvariant, PTL DEF PlacedSpec
<1> QED
  BY <1>2 DEF AssignedStays, NodesStay

\* An apply stores nodes for all its requests, or none that is new.
THEOREM AllOrNoneStored == PlacedSpec => AllOrNothing
<1>1. PlacedInv /\ [PlacedNext]_placedVars => [AllOrNone]_allVars
  BY PlacedSchedulerSteps, StepStoresAllOrNone
<1>2. PlacedSpec => [][AllOrNone]_allVars
  BY <1>1, PlacedInvariant, PTL DEF PlacedSpec
<1> QED
  BY <1>2 DEF AllOrNothing, AllOrNone

\* When the requests of each block have names of their own, a distinct one that
\* gets its node in a later apply is kept off the nodes of all earlier ones.
THEOREM LaterAreDistinct == NamesDiffer /\ PlacedSpec => DistinctFromEarlier
<1>1. NamesDiffer /\ PlacedInv /\ [PlacedNext]_placedVars => [NewAreDistinct]_allVars
  BY PlacedSchedulerSteps, StepKeepsDistinct
<1>2. NamesDiffer => []NamesDiffer
  <2>1. NamesDiffer => NamesDiffer'
    BY DEF NamesDiffer
  <2> QED
    BY <2>1, PTL
<1>3. NamesDiffer /\ PlacedSpec => [][NewAreDistinct]_allVars
  BY <1>1, <1>2, PlacedInvariant, PTL DEF PlacedSpec
<1> QED
  BY <1>3 DEF DistinctFromEarlier, NewAreDistinct

\* Between applies, the contract a deployment holds is on the node its request has:
\* a scheduler never leaves it the id of a contract that is somewhere else.
THEOREM HeldInPlace == PlacedSpec => []HeldOnItsNode
<1>1. PlacedInv => HeldOnItsNode
  <2> SUFFICES ASSUME PlacedInv, NEW s \in held, s.id \in DOMAIN chain
               PROVE  Placed \in DOMAIN saved.nodes /\ chain[s.id].node = saved.nodes[Placed]
    BY DEF HeldOnItsNode
  <2> QED
    BY DEF PlacedInv, Joined, OnPlace, DeployInv, P!Housed, P!At
<1> QED
  BY <1>1, PlacedInvariant, PTL

\* The step of StaysDeployed.
ContractsStay ==
  wanted /\ step' # step =>
    \A c \in DOMAIN chain : c \in DOMAIN chain' /\ chain'[c].node = chain[c].node

LEMMA StepKeepsContracts == PlacedInv /\ [PlacedNext]_placedVars => ContractsStay
<1> SUFFICES ASSUME PlacedInv, [PlacedNext]_placedVars, wanted, step' # step,
                    NEW c \in DOMAIN chain
             PROVE  c \in DOMAIN chain' /\ chain'[c].node = chain[c].node
  BY DEF ContractsStay
<1>i. Joined /\ P!TypeOK
  BY DEF PlacedInv, DeployInv
<1>1. CASE OtherStep
  BY <1>1, OthersStandBy DEF Beside
<1>2. CASE Expire
  BY <1>2 DEF Expire, D!Expire
<1>3. CASE Deploying
  <2>1. CASE D!DeployNew \/ D!DeployChange \/ D!DeployFailsUnreverted
    <3>1. c # next
      BY <1>i, DeploymentAssumption DEF P!TypeOK
    <3> QED
      BY <2>1, <3>1 DEF D!DeployNew, D!DeployChange, D!DeployFailsUnreverted, D!Reachable, D!With
  <2>2. CASE D!CancelOld \/ D!Cancel
    BY <1>i, <2>2 DEF D!CancelOld, D!Cancel, Joined
  <2>3. CASE UNCHANGED chain
    BY <2>3
  <2> QED
    BY <1>3, <2>1, <2>2, <2>3 DEF Deploying, D!Refresh, D!PlanCreate, D!PlanUpdate, D!PlanNothing,
       D!PlanDelete, D!Call, D!CancelOldFails, D!Load, D!LoadFails, D!DeployFails, D!SyncRead, D!SyncReadFails,
       D!SyncApplied, D!SyncAppliedFails, D!CancelFails, D!SyncDeleted, D!SyncDeletedFails, D!Killed
<1> QED
  BY <1>1, <1>2, <1>3, PlacedSteps

\* As long as the blocks are there, no handler cancels or moves a deployment that a
\* scheduler has placed: neither edits to the requests, nor applies of either
\* resource that fail or are killed, nor a grid that changes, make it move.
THEOREM PlacedStaysDeployed == PlacedSpec => StaysDeployed
<1>1. PlacedInv /\ [PlacedNext]_placedVars => [ContractsStay]_placedVars
  BY StepKeepsContracts
<1>2. PlacedSpec => [][ContractsStay]_placedVars
  BY <1>1, PlacedInvariant, PTL DEF PlacedSpec
<1> QED
  BY <1>2 DEF StaysDeployed, ContractsStay
=============================================================================
