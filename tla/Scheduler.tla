----------------------------- MODULE Scheduler -----------------------------
(***************************************************************************)
(* One run of the package internal/provider/scheduler: a Scheduler is made *)
(* by NewScheduler and ProcessRequests gives every request of a list a     *)
(* node of the grid, or stops at the first request it cannot place.        *)
(*                                                                         *)
(* A step of the model lies between two calls that leave the process: a    *)
(* farm lookup or a node listing at the grid proxy, an RMB call to a       *)
(* farmer bot.  The grid is not locked meanwhile: GridMoves may change it  *)
(* between any two of those calls, and the scheduler decides with what it  *)
(* cached.                                                                 *)
(***************************************************************************)
EXTENDS Integers, Sequences, FiniteSets, Functions

CONSTANTS
  Node,        \* node ids of the grid (positive: getNode returns 0 for "none")
  Farm,        \* ids of the farms the grid proxy knows
  NoFarm,      \* FarmID = 0 of a request: any farm will do
  Unit,        \* the kinds of capacity, HRU, SRU and MRU in the code
  Name,        \* request names
  Word,        \* 2^64: capacities are unsigned machine words
  UnitsPerGB,  \* 2^30: what the farmer bot counts in
  PageSize,    \* size of the first page asked of the grid proxy, 10 in the code
  Info,        \* what never changes of a node: farm, domain, certified, ...
  Total,       \* total capacity of each node, by unit
  Grids,       \* the changing states the grid may be in
  Bots,        \* farms that run a farmer bot
  RequestLists,\* the lists ProcessRequests may be called with
  Assignments  \* the assignments it may be called with

(***************************************************************************)
(* A request, capacity.go and request.go.  A set stands for NodeExclude:   *)
(* the code only asks whether a node is contained in it.                   *)
(***************************************************************************)
Request == [name: Name, farm: Nat, cap: [Unit -> 0..(Word - 1)],
            domain: BOOLEAN, ips: Nat, certified: BOOLEAN, dedicated: BOOLEAN,
            exclude: SUBSET Node, distinct: BOOLEAN]

(***************************************************************************)
(* What the grid proxy reports and other users change: the nodes that are  *)
(* up, healthy and available for this twin, the capacity in use on every   *)
(* node, and the free public IPs of every farm.  A quiet grid stands still *)
(* and answers every call; on another, calls to the proxy and to the bots  *)
(* may fail.                                                               *)
(***************************************************************************)
GridState == [up: SUBSET Node, used: [Node -> [Unit -> Nat]], ips: [Farm -> Nat],
              quiet: BOOLEAN]

NodeInfo == [farm: Farm, domain: BOOLEAN, certified: BOOLEAN,
             dedicated: BOOLEAN, rentable: BOOLEAN]

\* Partial functions, as Go maps.
PartialFn(D, R) == UNION {[S -> R] : S \in SUBSET D}

ASSUME NodeAssumption == Node \subseteq Nat \ {0} /\ IsFiniteSet(Node)
ASSUME NameAssumption == Name # {}
ASSUME WordAssumption == Word \in Nat \ {0} /\ UnitsPerGB \in Nat \ {0}
ASSUME PageAssumption == PageSize \in Nat \ {0}
ASSUME FarmAssumption ==
  Farm \subseteq Nat /\ NoFarm \in Nat \ Farm /\ Bots \subseteq Farm
ASSUME InfoAssumption == Info \in [Node -> NodeInfo]
ASSUME TotalAssumption == Total \in [Node -> [Unit -> 0..(Word - 1)]]
ASSUME GridAssumption == \A g \in Grids : g \in GridState
ASSUME RequestAssumption == \A rs \in RequestLists : rs \in Seq(Request)
ASSUME AssignmentAssumption ==
  \A a \in Assignments : DOMAIN a \subseteq Name /\ \A nm \in DOMAIN a : a[nm] \in Node

VARIABLES
  grid,       \* the grid, as the proxy and the bots would report it now
  reqs,       \* the list being processed
  i,          \* index of the request being processed, ProcessRequests' loop
  req,        \* the loop's copy of that request, with its exclusions widened
  pc,         \* "next", "ping", "bot", "pick", then "done" or "failed"
  err,        \* why the run failed
  todo,       \* nodes getNode has shuffled and not looked at yet
  limit,      \* page and size of the next listing
  nodes,      \* Scheduler.nodes: node id -> what was cached when first listed
  farms,      \* Scheduler.farms: farm id -> its free public IPs when looked up
  assignment, \* the map given to and filled by ProcessRequests
  assigned,   \* its local list assignedNodes
  granted     \* history: capacity placed on each node through the proxy path

vars == <<grid, reqs, i, req, pc, err, todo, limit, nodes, farms,
          assignment, assigned, granted>>

Unreliable == ~grid.quiet

----------------------------------------------------------------------------
(* capacity.go *)

\* freeCapacity: an unsigned subtraction, so a node that reports more used
\* than it has in total appears to have almost everything free.
FreeCapacity(total, used) == [u \in Unit |-> (total[u] - used[u]) % Word]

\* Capacity.consume
ConsumeNothing(free, cap) == free
Consume(free, cap) == [u \in Unit |-> (free[u] - cap[u]) % Word]

(* scheduler.go *)

\* consumePublicIPs: farmInfo is a struct held by value in the map.  The
\* decrement is applied to a copy that is then dropped.
ConsumePublicIPs(known, f, k) == known

\* nodeInfo.fulfils.  (The public IP comparison is at 32 bits in the code; a
\* farm has far fewer.)
FulfilsIgnoringExclusions(n, entry, r, freeIPs) ==
  /\ \A u \in Unit : r.cap[u] <= entry.free[u]
  /\ r.farm # NoFarm => Info[n].farm = r.farm
  /\ r.domain => Info[n].domain
  /\ r.ips <= freeIPs
  /\ r.dedicated => Info[n].dedicated
  /\ r.certified => Info[n].certified

Fulfils(n, entry, r, freeIPs) ==
  /\ FulfilsIgnoringExclusions(n, entry, r, freeIPs)
  /\ n \notin r.exclude

\* addNodes: a node that is already cached keeps the entry of its first
\* listing, with what this run has consumed of it.
AddNodesAgain(known, page, g) ==
  [n \in DOMAIN known \cup page |->
      IF n \in page
      THEN [free |-> FreeCapacity(Total[n], g.used[n]), used |-> g.used[n]]
      ELSE known[n]]

AddNodes(known, page, g) ==
  [n \in DOMAIN known \cup page |->
      IF n \in DOMAIN known
      THEN known[n]
      ELSE [free |-> FreeCapacity(Total[n], g.used[n]), used |-> g.used[n]]]

\* The page after the one just read: 1 x 10, 2 x 10, 2 x 20, 2 x 40, ...
NextLimitSkipping(l) ==
  [page |-> 2, size |-> l.size * 2]

NextLimitStuck(l) == l

NextLimit(l) ==
  IF l.page = 1 /\ l.size = PageSize
  THEN [page |-> 2, size |-> l.size]
  ELSE [page |-> l.page, size |-> l.size * 2]

FirstLimit == [page |-> 1, size |-> PageSize]

(* request.go *)

\* constructFilter, and what the proxy lists for it.  Zero capacities are left
\* out of the filter, and so is the certification.
FilterWithoutZero(r, n, g, u) == r.cap[u] # 0 => r.cap[u] <= Total[n][u] - g.used[n][u]

Listed(r, g) ==
  {n \in g.up :
     /\ r.farm # NoFarm => Info[n].farm = r.farm
     /\ \A u \in Unit : FilterWithoutZero(r, n, g, u)
     /\ r.domain => Info[n].domain
     /\ r.ips # 0 => r.ips <= g.ips[Info[n].farm]
     /\ r.dedicated => Info[n].rentable}

\* The proxy lists by node id; a limit cuts one page out of that list.
Rank(n, S) == Cardinality({m \in S : m <= n})
Page(S, l) == {n \in S : /\ (l.page - 1) * l.size < Rank(n, S)
                         /\ Rank(n, S) <= l.page * l.size}

(* farmer_bot.go *)

\* buildNodeOptions: whole gigabytes, rounded down; what becomes zero is left
\* out of the message.
BotCap(r) == [u \in Unit |-> r.cap[u] \div UnitsPerGB]

\* What a farmer bot may answer: a node of its farm that suits the message.
BotChoices(r, g) ==
  {n \in g.up :
     /\ Info[n].farm = r.farm
     /\ \A u \in Unit : BotCap(r)[u] # 0 =>
          BotCap(r)[u] * UnitsPerGB <= Total[n][u] - g.used[n][u]
     /\ r.domain => Info[n].domain
     /\ r.ips <= g.ips[r.farm]
     /\ r.dedicated => Info[n].dedicated
     /\ r.certified => Info[n].certified
     /\ n \notin r.exclude}

----------------------------------------------------------------------------
(* getFarmInfo: from the cache, or asked of the proxy and cached. *)

WithFarm(f) ==
  [h \in DOMAIN farms \cup {f} |-> IF h \in DOMAIN farms THEN farms[h] ELSE grid.ips[h]]

FarmFound(f) ==
  /\ f \in DOMAIN farms \cup Farm
  /\ farms' = WithFarm(f)

FarmLookupFailsCaching(f) ==
  /\ f \notin DOMAIN farms
  /\ Unreliable \/ f \notin Farm
  /\ farms' = [h \in DOMAIN farms \cup {f} |-> IF h = f THEN 0 ELSE farms[h]]

FarmLookupFails(f) ==
  /\ f \notin DOMAIN farms
  /\ Unreliable \/ f \notin Farm
  /\ UNCHANGED farms

(* gridProxySchedule starts: the first limit, and getNode's shuffle. *)
StartGridProxy ==
  /\ pc' = "pick"
  /\ limit' = FirstLimit
  /\ todo' = DOMAIN nodes

(* ProcessRequests stores the node of the current request and goes on. *)
Assign(n) ==
  /\ assignment' = [nm \in DOMAIN assignment \cup {req.name} |->
                      IF nm = req.name THEN n ELSE assignment[nm]]
  /\ assigned' = assigned \cup {n}
  /\ i' = i + 1
  /\ pc' = "next"

Fail(why) == pc' = "failed" /\ err' = why

----------------------------------------------------------------------------
(* ProcessRequests' loop: a distinct request excludes the nodes assigned so *)
(* far; Schedule then tries a farmer bot when the request names a farm.     *)
KeepExclusions(r) == r
WidenExclusions(r) == [r EXCEPT !.exclude = IF r.distinct THEN @ \cup assigned ELSE @]

NextRequest ==
  /\ pc = "next" /\ i <= Len(reqs)
  /\ req' = WidenExclusions(reqs[i])
  /\ IF reqs[i].farm # NoFarm
     THEN pc' = "ping" /\ UNCHANGED <<todo, limit>>
     ELSE StartGridProxy
  /\ UNCHANGED <<grid, reqs, i, err, nodes, farms, assignment, assigned, granted>>

Finish ==
  /\ pc = "next" /\ i > Len(reqs)
  /\ pc' = "done"
  /\ UNCHANGED <<grid, reqs, i, req, err, todo, limit, nodes, farms,
                 assignment, assigned, granted>>

(* hasFarmerBot: the farm is known and its bot answers a version call in   *)
(* time.  The timeout is 40 nanoseconds: any call may miss it.             *)
PingAnswered ==
  /\ pc = "ping"
  /\ req.farm \in Bots
  /\ FarmFound(req.farm)
  /\ pc' = "bot"
  /\ UNCHANGED <<grid, reqs, i, req, err, todo, limit, nodes, assignment,
                 assigned, granted>>

PingUnanswered ==
  /\ pc = "ping"
  /\ \/ FarmLookupFails(req.farm)
     \/ FarmFound(req.farm) /\ (Unreliable \/ req.farm \notin Bots)
  /\ StartGridProxy
  /\ UNCHANGED <<grid, reqs, i, req, err, nodes, assignment, assigned, granted>>

(* farmerBotSchedule: the node is taken from the bot's answer as it is, and *)
(* nothing is consumed of what the scheduler has cached.                    *)
BotAnswers ==
  /\ pc = "bot"
  /\ \E n \in BotChoices(req, grid) : Assign(n)
  /\ UNCHANGED <<grid, reqs, req, err, todo, limit, nodes, farms, granted>>

BotFails ==
  /\ pc = "bot"
  /\ Unreliable \/ BotChoices(req, grid) = {}
  /\ Fail("bot")
  /\ UNCHANGED <<grid, reqs, i, req, todo, limit, nodes, farms, assignment,
                 assigned, granted>>

(* getNode looks at the next node of its shuffle: any of those left. *)
SkipNode ==
  /\ pc = "pick"
  /\ \E n \in todo :
       /\ \/ FarmLookupFails(Info[n].farm)
          \/ /\ FarmFound(Info[n].farm)
             /\ ~Fulfils(n, nodes[n], req, farms'[Info[n].farm])
       /\ todo' = todo \ {n}
  /\ UNCHANGED <<grid, reqs, i, req, pc, err, limit, nodes, assignment,
                 assigned, granted>>

(* The first node that fulfils the request is taken: gridProxySchedule     *)
(* consumes its capacity and ProcessRequests assigns it.                   *)
TakeNode ==
  /\ pc = "pick"
  /\ \E n \in todo :
       LET f == Info[n].farm
       IN /\ Fulfils(n, nodes[n], req, WithFarm(f)[f])
          /\ nodes' = [nodes EXCEPT ![n].free = Consume(@, req.cap)]
          /\ farms' = ConsumePublicIPs(WithFarm(f), f, req.ips)
          /\ granted' = [granted EXCEPT ![n] = [u \in Unit |-> @[u] + req.cap[u]]]
          /\ Assign(n)
  /\ todo' = {}
  /\ UNCHANGED <<grid, reqs, req, err, limit>>

(* No cached node will do: gridProxySchedule asks the proxy for a page. *)
ListNodes ==
  /\ pc = "pick" /\ todo = {}
  /\ LET page == Page(Listed(req, grid), limit)
     IN /\ page # {}
        /\ nodes' = AddNodes(nodes, page, grid)
        /\ todo' = DOMAIN nodes \cup page
  /\ limit' = NextLimit(limit)
  /\ UNCHANGED <<grid, reqs, i, req, pc, err, farms, assignment, assigned, granted>>

NoNodesFound ==
  /\ pc = "pick" /\ todo = {}
  /\ Page(Listed(req, grid), limit) = {}
  /\ Fail("nonodes")
  /\ UNCHANGED <<grid, reqs, i, req, todo, limit, nodes, farms, assignment,
                 assigned, granted>>

ListFails ==
  /\ pc = "pick" /\ todo = {}
  /\ Unreliable
  /\ Fail("proxy")
  /\ UNCHANGED <<grid, reqs, i, req, todo, limit, nodes, farms, assignment,
                 assigned, granted>>

(* Everybody else on the grid: nodes go up and down, capacity and public   *)
(* IPs are taken and freed.                                                *)
GridMoves ==
  /\ ~grid.quiet /\ grid' \in {g \in Grids \ {grid} : ~g.quiet}
  /\ UNCHANGED <<reqs, i, req, pc, err, todo, limit, nodes, farms, assignment,
                 assigned, granted>>

Step ==
  \/ NextRequest \/ Finish
  \/ PingAnswered \/ PingUnanswered \/ BotAnswers \/ BotFails
  \/ SkipNode \/ TakeNode \/ ListNodes \/ NoNodesFound \/ ListFails

Ended == pc \in {"done", "failed"}

\* The run is over; nothing is left to do.
Stopped == Ended /\ UNCHANGED vars

Next == Step \/ (~Ended /\ GridMoves) \/ Stopped

----------------------------------------------------------------------------
(* NewScheduler and the entry of ProcessRequests. *)
Nothing == [u \in Unit |-> 0]

AnyRequest == [name |-> CHOOSE nm \in Name : TRUE, farm |-> NoFarm, cap |-> Nothing,
               domain |-> FALSE, ips |-> 0, certified |-> FALSE,
               dedicated |-> FALSE, exclude |-> {}, distinct |-> FALSE]

Init ==
  /\ grid \in Grids
  /\ reqs \in RequestLists
  /\ assignment \in Assignments
  /\ i = 1 /\ pc = "next" /\ err = "none"
  /\ req = AnyRequest
  /\ todo = {} /\ limit = FirstLimit
  /\ nodes = [n \in {} |-> Nothing]
  /\ farms = [f \in {} |-> 0]
  /\ assigned = Range(assignment)
  /\ granted = [n \in Node |-> Nothing]

Spec == Init /\ [][Next]_vars

\* The scheduler's own steps are those of one goroutine that does nothing else;
\* every call it waits for returns (an answer or an error).
FairSpec == Spec /\ WF_vars(Step)
----------------------------------------------------------------------------
(* Properties *)

PlacedNodes == Range(assignment)

\* Types of every variable: the partial maps of the Scheduler hold nodes and
\* farms of the grid, none that a lookup did not find, and the cached free
\* capacities are machine words.
TypeOK ==
  /\ grid \in Grids /\ reqs \in RequestLists
  /\ i \in 1..(Len(reqs) + 1)
  /\ req \in Request
  /\ pc \in {"next", "ping", "bot", "pick", "done", "failed"}
  /\ err \in {"none", "nonodes", "proxy", "bot"}
  /\ todo \subseteq DOMAIN nodes
  /\ limit \in [page : Nat \ {0}, size : Nat \ {0}]
  /\ DOMAIN nodes \subseteq Node
  /\ \A n \in DOMAIN nodes :
       nodes[n] \in [free : [Unit -> 0..(Word - 1)], used : [Unit -> Nat]]
  /\ DOMAIN farms \subseteq Farm /\ \A f \in DOMAIN farms : farms[f] \in Nat
  /\ DOMAIN assignment \subseteq Name
  /\ \A nm \in DOMAIN assignment : assignment[nm] \in Node
  /\ assigned \subseteq Node
  /\ granted \in [Node -> [Unit -> Nat]]

\* Everything one run places on a node through the grid proxy fits, together,
\* in the capacity the node had left when it was listed: gridProxySchedule
\* consumes from its cache what the grid does not know yet to be taken, and a
\* later listing of the same node does not bring it back.
NoOvercommit ==
  \A n \in Node, u \in Unit :
    granted[n][u] + (IF n \in DOMAIN nodes THEN nodes[n].used[u] ELSE 0) <= Total[n][u]

\* The demands of a request that the capacity ledger is not about.
Suits(n, r) ==
  /\ r.farm # NoFarm => Info[n].farm = r.farm
  /\ r.domain => Info[n].domain
  /\ r.dedicated => Info[n].dedicated
  /\ r.certified => Info[n].certified
  /\ n \notin r.exclude

NamesFrom(j) == {reqs[k].name : k \in j..Len(reqs)}

\* Each request answered so far has a node that suits it, and the node of a
\* distinct request is none of those assigned before it, in this run or an
\* earlier one; whichever of the two paths of Schedule chose it, whatever the
\* listings that were read for the other requests.
Honoured ==
  \A j \in 1..(i - 1) :
    reqs[j].name \notin NamesFrom(j + 1) =>
      /\ Suits(assignment[reqs[j].name], reqs[j])
      /\ reqs[j].distinct =>
           \A nm \in DOMAIN assignment \ NamesFrom(j) :
             assignment[nm] # assignment[reqs[j].name]

\* NoNodesFoundErr is the truth about a quiet grid:
\* every node the proxy would list for the request was read, on some page, and
\* none of them can take it on top of what this run has already placed there.
NoNodesFoundIsRight ==
  err = "nonodes" /\ grid.quiet =>
    \A n \in Listed(req, grid) :
      /\ n \in DOMAIN nodes
      /\ ~Fulfils(n, nodes[n], req, grid.ips[Info[n].farm])

\* ProcessRequests returns: the listing loop always reaches an empty page or a
\* node, however the grid changes under it.
Terminates == <>Ended

\* The run keeps the promise of Placement: its requests are answered in order,
\* and the ledger from which they take capacity is the cache of free capacities,
\* computed with machine words that never wrap.
Promise == INSTANCE Placement WITH
  asked <- reqs, answered <- i - 1, placed <- assignment,
  left <- [n \in DOMAIN nodes |-> nodes[n].free],
  verdict <- IF Ended THEN pc ELSE "open"
ImplementsPlacement == Promise!Spec

\* What scheduler.go:141 says of the whole request: the public IPs given to the
\* requests placed on a farm are IPs the farm has free.
PublicIPsSuffice ==
  \A f \in Farm :
    LET placed == {j \in 1..(i - 1) : Info[assignment[reqs[j].name]].farm = f}
    IN FoldFunctionOnSet(+, 0, [j \in DOMAIN reqs |-> reqs[j].ips], placed) <= grid.ips[f]
============================================================================
