-------------------------- MODULE SchedulerProofs --------------------------
(***************************************************************************)
(* Theorems about one run of the scheduler, for every grid, every list of  *)
(* requests, every page size and every word size.                          *)
(***************************************************************************)
EXTENDS Scheduler, RankProofs, TLAPS

\* The grid never reports more in use on a node than the node has.
LoadsFit == \A g \in Grids, n \in Node, u \in Unit : g.used[n][u] <= Total[n][u]

----------------------------------------------------------------------------
(* Operators *)

\* An unsigned subtraction is a word.
LEMMA WordRange ==
  ASSUME NEW x \in Int
  PROVE  x % Word \in 0..(Word - 1)
BY WordAssumption

\* An unsigned subtraction that needs no borrow is exact.
LEMMA NoBorrow ==
  ASSUME NEW x \in 0..(Word - 1)
  PROVE  x % Word = x
BY WordAssumption

\* Widening the exclusions of a request gives a request.
LEMMA WidenType ==
  ASSUME NEW r \in Request, assigned \subseteq Node
  PROVE  WidenExclusions(r) \in Request
BY DEF WidenExclusions, Request

\* A page is cut out of the nodes that are up.
LEMMA PageUp ==
  ASSUME NEW r, NEW g, NEW l
  PROVE  Page(Listed(r, g), l) \subseteq g.up
BY DEF Page, Listed

----------------------------------------------------------------------------
(* Type correctness *)

\* While a request is being scheduled, there is one: with TypeOK, inductive.
InLoop == pc \in {"ping", "bot", "pick"} => i <= Len(reqs)

TypeInv == TypeOK /\ InLoop

LEMMA InitType == Init => TypeInv
<1> SUFFICES ASSUME Init PROVE TypeInv
  OBVIOUS
<1>1. reqs \in Seq(Request) /\ Len(reqs) \in Nat
  BY RequestAssumption DEF Init
<1>2. req \in Request
  BY NameAssumption, FarmAssumption, WordAssumption DEF Init, AnyRequest, Request, Nothing
<1>3. FirstLimit \in [page : Nat \ {0}, size : Nat \ {0}]
  BY PageAssumption DEF FirstLimit
<1>4. DOMAIN assignment \subseteq Name /\ \A nm \in DOMAIN assignment : assignment[nm] \in Node
  BY AssignmentAssumption DEF Init
<1>5. assigned \subseteq Node
  BY <1>4 DEF Init, Range
<1>6. granted \in [Node -> [Unit -> Nat]]
  BY DEF Init, Nothing
<1> QED
  BY <1>1, <1>2, <1>3, <1>4, <1>5, <1>6 DEF Init, TypeOK, TypeInv, InLoop

\* The two branches of getFarmInfo keep the farm cache well typed.
LEMMA FarmCacheType ==
  ASSUME TypeOK, NEW f \in Farm
  PROVE  /\ DOMAIN WithFarm(f) \subseteq Farm
         /\ f \in DOMAIN WithFarm(f)
         /\ \A h \in DOMAIN WithFarm(f) : WithFarm(f)[h] \in Nat
BY GridAssumption DEF TypeOK, WithFarm, GridState

\* Assigning a node to the current request keeps the types of what it changes.
LEMMA AssignType ==
  ASSUME TypeOK, i <= Len(reqs), NEW n \in Node, Assign(n), UNCHANGED <<reqs, req>>
  PROVE  /\ i' \in 1..(Len(reqs') + 1) /\ pc' = "next"
         /\ DOMAIN assignment' \subseteq Name
         /\ \A nm \in DOMAIN assignment' : assignment'[nm] \in Node
         /\ assigned' \subseteq Node
<1>1. reqs \in Seq(Request) /\ Len(reqs) \in Nat
  BY RequestAssumption DEF TypeOK
<1>2. req.name \in Name
  BY DEF TypeOK, Request
<1>3. i' \in 1..(Len(reqs') + 1)
  BY <1>1 DEF TypeOK, Assign
<1> QED
  BY <1>2, <1>3 DEF TypeOK, Assign

LEMMA NextType == TypeInv /\ [Next]_vars => TypeInv'
<1> SUFFICES ASSUME TypeInv, [Next]_vars PROVE TypeInv'
  OBVIOUS
<1> USE DEF TypeInv
<1> TypeOK /\ InLoop
  OBVIOUS
<1>len. reqs \in Seq(Request) /\ Len(reqs) \in Nat
  BY RequestAssumption DEF TypeOK
<1>grid. grid \in GridState
  BY GridAssumption DEF TypeOK
<1>known. DOMAIN nodes \subseteq Node
  BY DEF TypeOK
<1>farm. \A n \in Node : Info[n].farm \in Farm
  BY InfoAssumption DEF NodeInfo
<1>first. FirstLimit \in [page : Nat \ {0}, size : Nat \ {0}]
  BY PageAssumption DEF FirstLimit
<1>1. CASE NextRequest
  <2>1. reqs[i] \in Request
    BY <1>1, <1>len DEF NextRequest, TypeOK
  <2>2. req' \in Request
    BY <1>1, <2>1, WidenType DEF NextRequest, TypeOK
  <2> QED
    BY <1>1, <2>2, <1>first DEF NextRequest, StartGridProxy, TypeOK, InLoop
<1>2. CASE Finish
  BY <1>2 DEF Finish, TypeOK, InLoop
<1>3. CASE PingAnswered
  <2>1. req.farm \in Farm
    BY <1>3, FarmAssumption DEF PingAnswered
  <2> QED
    BY <1>3, <2>1, FarmCacheType DEF PingAnswered, FarmFound, TypeOK, InLoop
<1>4. CASE PingUnanswered
  <2>1. CASE FarmLookupFails(req.farm)
    BY <1>4, <2>1, <1>first DEF PingUnanswered, FarmLookupFails, StartGridProxy, TypeOK, InLoop
  <2>2. CASE FarmFound(req.farm)
    <3>1. req.farm \in Farm
      BY <2>2 DEF FarmFound, TypeOK
    <3> QED
      BY <1>4, <2>2, <3>1, <1>first, FarmCacheType
         DEF PingUnanswered, FarmFound, StartGridProxy, TypeOK, InLoop
  <2> QED
    BY <1>4, <2>1, <2>2 DEF PingUnanswered
<1>5. CASE BotAnswers
  <2>1. PICK n \in BotChoices(req, grid) : Assign(n)
    BY <1>5 DEF BotAnswers
  <2>2. n \in Node
    BY <1>grid DEF BotChoices, GridState
  <2>3. i <= Len(reqs)
    BY <1>5 DEF BotAnswers, InLoop
  <2>4. UNCHANGED <<reqs, req>>
    BY <1>5 DEF BotAnswers
  <2> HIDE DEF TypeInv
  <2>5. /\ i' \in 1..(Len(reqs') + 1) /\ pc' = "next"
        /\ DOMAIN assignment' \subseteq Name
        /\ \A nm \in DOMAIN assignment' : assignment'[nm] \in Node
        /\ assigned' \subseteq Node
    BY <2>1, <2>2, <2>3, <2>4, AssignType
  <2> QED
    BY <1>5, <2>5 DEF BotAnswers, TypeOK, InLoop, TypeInv
<1>6. CASE BotFails
  BY <1>6 DEF BotFails, Fail, TypeOK, InLoop
<1>7. CASE SkipNode
  <2>1. PICK n \in todo : /\ \/ FarmLookupFails(Info[n].farm)
                             \/ FarmFound(Info[n].farm)
                          /\ todo' = todo \ {n}
    BY <1>7 DEF SkipNode
  <2>2. Info[n].farm \in Farm
    BY <1>known, <1>farm DEF TypeOK
  <2>3. DOMAIN farms' \subseteq Farm /\ \A f \in DOMAIN farms' : farms'[f] \in Nat
    BY <2>1, <2>2, FarmCacheType DEF FarmLookupFails, FarmFound, TypeOK
  <2> QED
    BY <1>7, <2>1, <2>3 DEF SkipNode, TypeOK, InLoop
<1>8. CASE TakeNode
  <2> DEFINE Taken(n) ==
        /\ Fulfils(n, nodes[n], req, WithFarm(Info[n].farm)[Info[n].farm])
        /\ nodes' = [nodes EXCEPT ![n].free = Consume(@, req.cap)]
        /\ farms' = ConsumePublicIPs(WithFarm(Info[n].farm), Info[n].farm, req.ips)
        /\ granted' = [granted EXCEPT ![n] = [u \in Unit |-> @[u] + req.cap[u]]]
        /\ Assign(n)
  <2>1. PICK n \in todo : Taken(n)
    BY <1>8 DEF TakeNode
  <2>2. n \in DOMAIN nodes /\ n \in Node /\ Info[n].farm \in Farm
    BY <1>known, <1>farm DEF TypeOK
  <2>3. i <= Len(reqs) /\ UNCHANGED <<reqs, req>>
    BY <1>8 DEF TakeNode, InLoop
  <2>4. /\ i' \in 1..(Len(reqs') + 1) /\ pc' = "next"
        /\ DOMAIN assignment' \subseteq Name
        /\ \A nm \in DOMAIN assignment' : assignment'[nm] \in Node
        /\ assigned' \subseteq Node
    <3>1. Assign(n)
      BY <2>1
    <3> HIDE DEF TypeInv
    <3> QED
      BY <3>1, <2>2, <2>3, AssignType
  <2>5. Consume(nodes[n].free, req.cap) \in [Unit -> 0..(Word - 1)]
    <3>1. \A u \in Unit : nodes[n].free[u] \in Int /\ req.cap[u] \in Int
      BY <2>2, WordAssumption DEF TypeOK, Request
    <3>2. \A u \in Unit : (nodes[n].free[u] - req.cap[u]) % Word \in 0..(Word - 1)
      BY <3>1, WordRange
    <3> QED
      BY <3>2 DEF Consume
  <2>6. /\ DOMAIN nodes' = DOMAIN nodes
        /\ \A m \in DOMAIN nodes' :
             nodes'[m] \in [free : [Unit -> 0..(Word - 1)], used : [Unit -> Nat]]
    BY <2>1, <2>2, <2>5 DEF TypeOK
  <2>7. granted' \in [Node -> [Unit -> Nat]]
    <3>1. [u \in Unit |-> granted[n][u] + req.cap[u]] \in [Unit -> Nat]
      BY <2>2, WordAssumption DEF TypeOK, Request
    <3> QED
      BY <2>1, <2>2, <3>1 DEF TypeOK
  <2>8. DOMAIN farms' \subseteq Farm /\ \A f \in DOMAIN farms' : farms'[f] \in Nat
    BY <2>1, <2>2, FarmCacheType DEF ConsumePublicIPs
  <2> QED
    BY <1>8, <2>3, <2>4, <2>6, <2>7, <2>8 DEF TakeNode, TypeOK, InLoop
<1>9. CASE ListNodes
  <2> DEFINE page == Page(Listed(req, grid), limit)
  <2>1. page \subseteq Node
    BY <1>grid, PageUp DEF GridState
  <2>2. nodes' = AddNodes(nodes, page, grid) /\ todo' = DOMAIN nodes \cup page
    BY <1>9 DEF ListNodes
  <2>3. \A n \in Node : FreeCapacity(Total[n], grid.used[n]) \in [Unit -> 0..(Word - 1)]
    <3>1. \A n \in Node, u \in Unit : Total[n][u] - grid.used[n][u] \in Int
      BY <1>grid, TotalAssumption, WordAssumption DEF GridState
    <3> QED
      BY <3>1, WordRange DEF FreeCapacity
  <2>4. DOMAIN nodes' = DOMAIN nodes \cup page
    BY <2>2 DEF AddNodes
  <2>5. \A n \in DOMAIN nodes' :
          nodes'[n] \in [free : [Unit -> 0..(Word - 1)], used : [Unit -> Nat]]
    <3>1. SUFFICES ASSUME NEW n \in DOMAIN nodes'
          PROVE nodes'[n] \in [free : [Unit -> 0..(Word - 1)], used : [Unit -> Nat]]
      OBVIOUS
    <3>2. CASE n \in DOMAIN nodes
      BY <2>2, <2>4, <3>2 DEF AddNodes, TypeOK
    <3>3. CASE n \notin DOMAIN nodes
      <4>1. n \in Node /\ grid.used[n] \in [Unit -> Nat]
        BY <2>1, <2>4, <3>1, <3>3, <1>grid DEF GridState
      <4> QED
        BY <2>2, <2>3, <2>4, <3>3, <4>1 DEF AddNodes
    <3> QED
      BY <3>2, <3>3
  <2>6. limit' \in [page : Nat \ {0}, size : Nat \ {0}]
    BY <1>9, PageAssumption DEF ListNodes, NextLimit, TypeOK
  <2> QED
    BY <1>9, <1>known, <2>1, <2>2, <2>4, <2>5, <2>6 DEF ListNodes, TypeOK, InLoop
<1>10. CASE NoNodesFound
  BY <1>10 DEF NoNodesFound, Fail, TypeOK, InLoop
<1>11. CASE ListFails
  BY <1>11 DEF ListFails, Fail, TypeOK, InLoop
<1>12. CASE GridMoves
  BY <1>12 DEF GridMoves, TypeOK, InLoop
<1>13. CASE UNCHANGED vars
  BY <1>13 DEF vars, TypeOK, InLoop
<1> QED
  BY <1>1, <1>2, <1>3, <1>4, <1>5, <1>6, <1>7, <1>8, <1>9, <1>10, <1>11, <1>12, <1>13
     DEF Next, Step, Stopped

\* Every variable of a run keeps its type: in particular the cached capacities
\* stay machine words and the caches only hold nodes and farms of the grid.
THEOREM TypeCorrect == Spec => []TypeOK
<1>1. TypeInv => TypeOK
  BY DEF TypeInv
<1> QED
  BY <1>1, InitType, NextType, PTL DEF Spec

----------------------------------------------------------------------------
(* The capacity ledger *)

\* The cached free capacity of a node is what its first listing left, less what
\* this run has placed there; nothing is placed on a node that is not cached.
Ledger ==
  \A n \in Node, u \in Unit :
    IF n \in DOMAIN nodes
    THEN nodes[n].free[u] = Total[n][u] - nodes[n].used[u] - granted[n][u]
    ELSE granted[n][u] = 0

LedgerInv == TypeInv /\ Ledger

\* A node that is listed has, in words, exactly the capacity it has left.
LEMMA FreeIsLeft ==
  ASSUME LoadsFit, grid \in Grids, NEW n \in Node, NEW u \in Unit
  PROVE  /\ FreeCapacity(Total[n], grid.used[n])[u] = Total[n][u] - grid.used[n][u]
         /\ grid.used[n][u] \in Nat /\ Total[n][u] \in Nat
<1>1. grid \in GridState /\ grid.used[n][u] <= Total[n][u]
  BY GridAssumption DEF LoadsFit
<1>2. Total[n][u] - grid.used[n][u] \in 0..(Word - 1)
  BY <1>1, TotalAssumption, WordAssumption DEF GridState
<1> QED
  BY <1>1, <1>2, NoBorrow, TotalAssumption, WordAssumption DEF FreeCapacity, GridState

\* A request that fits is consumed without a borrow.
LEMMA ConsumeIsExact ==
  ASSUME TypeOK, NEW n \in DOMAIN nodes, NEW k, Fulfils(n, nodes[n], req, k), NEW u \in Unit
  PROVE  /\ Consume(nodes[n].free, req.cap)[u] = nodes[n].free[u] - req.cap[u]
         /\ req.cap[u] \in Nat /\ nodes[n].free[u] \in Nat
<1>1. req.cap[u] \in 0..(Word - 1) /\ nodes[n].free[u] \in 0..(Word - 1)
  BY DEF TypeOK, Request
<1>2. req.cap[u] <= nodes[n].free[u]
  BY DEF Fulfils, FulfilsIgnoringExclusions
<1>3. nodes[n].free[u] - req.cap[u] \in 0..(Word - 1)
  BY <1>1, <1>2, WordAssumption
<1> QED
  BY <1>1, <1>3, NoBorrow, WordAssumption DEF Consume

LEMMA InitLedger == Init => Ledger
BY DEF Init, Ledger, Nothing

LEMMA NextLedger == LoadsFit /\ LedgerInv /\ [Next]_vars => Ledger'
<1> SUFFICES ASSUME LoadsFit, LedgerInv, [Next]_vars PROVE Ledger'
  OBVIOUS
<1> TypeOK /\ InLoop /\ Ledger
  BY DEF LedgerInv, TypeInv
<1>1. CASE TakeNode
  <2>1. PICK n \in todo :
          /\ Fulfils(n, nodes[n], req, WithFarm(Info[n].farm)[Info[n].farm])
          /\ nodes' = [nodes EXCEPT ![n].free = Consume(@, req.cap)]
          /\ granted' = [granted EXCEPT ![n] = [u \in Unit |-> @[u] + req.cap[u]]]
    BY <1>1 DEF TakeNode
  <2>2. n \in DOMAIN nodes /\ n \in Node
    BY DEF TypeOK
  <2>3. DOMAIN nodes' = DOMAIN nodes
    BY <2>1
  <2>4. SUFFICES ASSUME NEW m \in Node, NEW u \in Unit
        PROVE IF m \in DOMAIN nodes
              THEN nodes'[m].free[u] = Total[m][u] - nodes'[m].used[u] - granted'[m][u]
              ELSE granted'[m][u] = 0
    BY <2>3 DEF Ledger
  <2>5. CASE m = n
    <3>1. nodes'[n].free[u] = nodes[n].free[u] - req.cap[u]
          /\ req.cap[u] \in Nat /\ nodes[n].free[u] \in Nat
      BY <2>1, <2>2, ConsumeIsExact DEF TypeOK
    <3>2. nodes'[n].used[u] = nodes[n].used[u]
      BY <2>1, <2>2 DEF TypeOK
    <3>3. granted'[n][u] = granted[n][u] + req.cap[u]
      BY <2>1, <2>2 DEF TypeOK
    <3>4. nodes[n].free[u] = Total[n][u] - nodes[n].used[u] - granted[n][u]
      BY <2>2 DEF Ledger
    <3>5. granted[n][u] \in Nat /\ nodes[n].used[u] \in Nat /\ Total[n][u] \in Nat
      BY <2>2, TotalAssumption, WordAssumption DEF TypeOK
    <3> QED
      BY <2>2, <2>5, <3>1, <3>2, <3>3, <3>4, <3>5
  <2>6. CASE m # n
    BY <2>1, <2>2, <2>6 DEF Ledger, TypeOK
  <2> QED
    BY <2>5, <2>6
<1>2. CASE ListNodes
  <2> DEFINE page == Page(Listed(req, grid), limit)
  <2>1. nodes' = AddNodes(nodes, page, grid) /\ granted' = granted
    BY <1>2 DEF ListNodes
  <2>2. DOMAIN nodes' = DOMAIN nodes \cup page
    BY <2>1 DEF AddNodes
  <2>3. SUFFICES ASSUME NEW n \in Node, NEW u \in Unit
        PROVE IF n \in DOMAIN nodes'
              THEN nodes'[n].free[u] = Total[n][u] - nodes'[n].used[u] - granted[n][u]
              ELSE granted[n][u] = 0
    BY <2>1 DEF Ledger
  <2>4. CASE n \in DOMAIN nodes
    BY <2>1, <2>2, <2>4 DEF AddNodes, Ledger
  <2>5. CASE n \in page /\ n \notin DOMAIN nodes
    <3>1. granted[n][u] = 0
      BY <2>5 DEF Ledger
    <3>2. nodes'[n].free[u] = FreeCapacity(Total[n], grid.used[n])[u]
          /\ nodes'[n].used[u] = grid.used[n][u]
      BY <2>1, <2>2, <2>5 DEF AddNodes
    <3>3. /\ FreeCapacity(Total[n], grid.used[n])[u] = Total[n][u] - grid.used[n][u]
          /\ grid.used[n][u] \in Nat /\ Total[n][u] \in Nat
      BY FreeIsLeft DEF TypeOK
    <3> QED
      BY <2>2, <2>5, <3>1, <3>2, <3>3
  <2>6. CASE n \notin page /\ n \notin DOMAIN nodes
    BY <2>2, <2>6 DEF Ledger
  <2> QED
    BY <2>4, <2>5, <2>6
<1>3. CASE UNCHANGED <<nodes, granted>>
  BY <1>3 DEF Ledger
<1> QED
  BY <1>1, <1>2, <1>3
     DEF Next, Step, Stopped, vars, NextRequest, Finish, PingAnswered, PingUnanswered,
         BotAnswers, BotFails, SkipNode, NoNodesFound, ListFails, GridMoves

LEMMA LedgerInvariant == LoadsFit /\ Spec => []LedgerInv
<1>1. Init => LedgerInv
  BY InitType, InitLedger DEF LedgerInv
<1>2. LoadsFit /\ LedgerInv /\ [Next]_vars => LedgerInv'
  BY NextType, NextLedger DEF LedgerInv
<1>3. LoadsFit => []LoadsFit
  <2>1. LoadsFit => LoadsFit'
    BY DEF LoadsFit
  <2> QED
    BY <2>1, PTL
<1> QED
  BY <1>1, <1>2, <1>3, PTL DEF Spec

\* As long as the grid never reports more in use than there is, the requests a
\* run places on a node through the proxy fit together in the capacity the node
\* had left when it was first listed: for any number of requests, listings and
\* changes of the grid in between.
THEOREM NeverOvercommitted == LoadsFit /\ Spec => []NoOvercommit
<1>1. LedgerInv => NoOvercommit
  <2> SUFFICES ASSUME LedgerInv, NEW n \in Node, NEW u \in Unit
      PROVE granted[n][u] + (IF n \in DOMAIN nodes THEN nodes[n].used[u] ELSE 0)
              <= Total[n][u]
    BY DEF NoOvercommit
  <2>1. TypeOK /\ Ledger
    BY DEF LedgerInv, TypeInv
  <2>2. granted[n][u] \in Nat /\ Total[n][u] \in Nat
    BY <2>1, TotalAssumption, WordAssumption DEF TypeOK
  <2>3. CASE n \in DOMAIN nodes
    <3>1. nodes[n].free[u] \in Nat /\ nodes[n].used[u] \in Nat
      BY <2>1, <2>3, WordAssumption DEF TypeOK
    <3>2. nodes[n].free[u] = Total[n][u] - nodes[n].used[u] - granted[n][u]
      BY <2>1, <2>3 DEF Ledger
    <3> QED
      BY <2>2, <2>3, <3>1, <3>2
  <2>4. CASE n \notin DOMAIN nodes
    BY <2>1, <2>2, <2>4 DEF Ledger
  <2> QED
    BY <2>3, <2>4
<1> QED
  BY <1>1, LedgerInvariant, PTL

----------------------------------------------------------------------------
(* The search for a node *)

\* On a quiet grid, what the scheduler caches of a farm is true.
SureLookups == grid.quiet => \A f \in DOMAIN farms : farms[f] = grid.ips[f]

\* While a node is searched, getNode has passed over none that would do, and the
\* pages read so far leave no gap: of the nodes the proxy lists, all that come
\* before the next page are cached.  The size doubles on the second page only, so
\* that page is always the one to go on with.
Searching ==
  pc = "pick" =>
    /\ limit = FirstLimit \/ limit.page = 2
    /\ grid.quiet =>
         /\ \A n \in DOMAIN nodes \ todo : ~Fulfils(n, nodes[n], req, grid.ips[Info[n].farm])
         /\ \A n \in Listed(req, grid) :
              Rank(n, Listed(req, grid)) <= (limit.page - 1) * limit.size => n \in DOMAIN nodes

\* A run that goes on has met no error.
NoErrorYet == err # "none" => pc = "failed"

SearchInv == TypeInv /\ SureLookups /\ Searching /\ NoErrorYet /\ NoNodesFoundIsRight

\* On a quiet grid a lookup of a farm of the grid succeeds, with the truth.
LEMMA LookupIsTrue ==
  ASSUME TypeOK, SureLookups, grid.quiet, NEW f \in Farm
  PROVE  /\ ~FarmLookupFails(f)
         /\ f \in DOMAIN WithFarm(f)
         /\ \A h \in DOMAIN WithFarm(f) : WithFarm(f)[h] = grid.ips[h]
BY DEF SureLookups, FarmLookupFails, WithFarm, Unreliable

\* What the proxy lists is a finite set of numbers: its nodes have ranks.
LEMMA ListedFinite ==
  ASSUME NEW r, NEW g \in GridState
  PROVE  Listed(r, g) \in SUBSET Int /\ IsFiniteSet(Listed(r, g))
<1>1. Listed(r, g) \in SUBSET Node
  BY DEF Listed, GridState
<1>2. Node \in SUBSET Int /\ IsFiniteSet(Node)
  BY NodeAssumption
<1>3. IsFiniteSet(Listed(r, g))
  BY <1>1, <1>2, FS_Subset
<1> QED
  BY <1>1, <1>2, <1>3

\* The first page starts where nothing has been read.
LEMMA NothingBefore ==
  ASSUME NEW r, NEW g \in GridState, NEW n \in Listed(r, g),
         Rank(n, Listed(r, g)) <= (FirstLimit.page - 1) * FirstLimit.size
  PROVE  FALSE
<1>1. Rank(n, Listed(r, g)) \in 1..Cardinality(Listed(r, g))
  BY ListedFinite, RankRange DEF Rank
<1>2. Cardinality(Listed(r, g)) \in Nat
  BY ListedFinite, FS_CardinalityType
<1>3. (FirstLimit.page - 1) * FirstLimit.size = 0
  BY PageAssumption DEF FirstLimit
<1> QED
  BY <1>1, <1>2, <1>3

\* The next limit goes on where this page ends.
LEMMA NextLimitFollows ==
  ASSUME NEW l \in [page : Nat \ {0}, size : Nat \ {0}], l = FirstLimit \/ l.page = 2
  PROVE  /\ NextLimit(l).page = 2
         /\ (NextLimit(l).page - 1) * NextLimit(l).size = l.page * l.size
<1>1. CASE l.page = 1 /\ l.size = PageSize
  BY <1>1 DEF NextLimit
<1>2. CASE l.page = 2
  BY <1>2 DEF NextLimit
<1> QED
  BY <1>1, <1>2 DEF FirstLimit

\* Behind an empty page there is nothing.
LEMMA EmptyPageIsLast ==
  ASSUME NEW S \in SUBSET Int, IsFiniteSet(S), NEW l \in [page : Nat \ {0}, size : Nat \ {0}],
         Page(S, l) = {}, NEW n \in S
  PROVE  Rank(n, S) <= (l.page - 1) * l.size
<1> DEFINE before == (l.page - 1) * l.size
<1>1. /\ before \in Nat /\ l.page * l.size = before + l.size
      /\ l.size \in Nat \ {0}
  OBVIOUS
<1>2. Rank(n, S) \in 1..Cardinality(S) /\ Cardinality(S) \in Nat
  BY RankRange, FS_CardinalityType DEF Rank
<1>3. SUFFICES ASSUME before < Rank(n, S) PROVE FALSE
  BY <1>1, <1>2
<1>4. before + 1 \in 1..Cardinality(S)
  BY <1>1, <1>2, <1>3
<1>5. PICK m \in S : Rank(m, S) = before + 1
  <2>1. \A k \in 1..Cardinality(S) : \E m \in S : Rank(m, S) = k
    BY RankReached DEF Rank
  <2> QED
    BY <1>4, <2>1
<1>6. before < before + 1 /\ before + 1 <= before + l.size
  BY <1>1
<1>7. m \in Page(S, l)
  BY <1>1, <1>5, <1>6 DEF Page
<1> QED
  BY <1>7

LEMMA InitSearch == Init => SureLookups /\ Searching /\ NoErrorYet /\ NoNodesFoundIsRight
BY DEF Init, SureLookups, Searching, NoErrorYet, NoNodesFoundIsRight

LEMMA NextSearch ==
  SearchInv /\ [Next]_vars => SureLookups' /\ Searching' /\ NoErrorYet' /\ NoNodesFoundIsRight'
<1> SUFFICES ASSUME SearchInv, [Next]_vars
    PROVE  SureLookups' /\ Searching' /\ NoErrorYet' /\ NoNodesFoundIsRight'
  OBVIOUS
<1> TypeOK /\ InLoop /\ SureLookups /\ Searching /\ NoErrorYet /\ NoNodesFoundIsRight
  BY DEF SearchInv, TypeInv
<1>grid. grid \in GridState
  BY GridAssumption DEF TypeOK
<1>farm. \A n \in DOMAIN nodes : Info[n].farm \in Farm
  BY InfoAssumption DEF NodeInfo, TypeOK
<1>start. ASSUME pc # "failed", StartGridProxy, UNCHANGED <<grid, nodes, err>>, SureLookups'
          PROVE  SureLookups' /\ Searching' /\ NoErrorYet' /\ NoNodesFoundIsRight'
  <2>1. limit' = FirstLimit /\ todo' = DOMAIN nodes /\ pc' = "pick" /\ err' = "none"
    BY <1>start DEF StartGridProxy, NoErrorYet
  <2>2. \A n \in Listed(req', grid) :
          ~(Rank(n, Listed(req', grid)) <= (limit'.page - 1) * limit'.size)
    BY <2>1, <1>grid, NothingBefore
  <2>3. Searching'
    BY <1>start, <2>1, <2>2 DEF Searching
  <2> QED
    BY <1>start, <2>1, <2>3 DEF NoErrorYet, NoNodesFoundIsRight
<1>1. CASE NextRequest
  <2>1. CASE StartGridProxy
    BY <1>1, <2>1, <1>start DEF NextRequest, SureLookups
  <2>2. CASE pc' = "ping"
    BY <1>1, <2>2 DEF NextRequest, SureLookups, Searching, NoErrorYet, NoNodesFoundIsRight
  <2> QED
    BY <1>1, <2>1, <2>2 DEF NextRequest
<1>2. CASE Finish
  BY <1>2 DEF Finish, SureLookups, Searching, NoErrorYet, NoNodesFoundIsRight
<1>found. ASSUME NEW f, FarmFound(f), grid' = grid PROVE SureLookups'
  BY <1>found DEF FarmFound, WithFarm, SureLookups
<1>3. CASE PingAnswered
  <2>1. SureLookups'
    BY <1>3, <1>found DEF PingAnswered
  <2> QED
    BY <1>3, <2>1 DEF PingAnswered, Searching, NoErrorYet, NoNodesFoundIsRight
<1>4. CASE PingUnanswered
  <2>1. SureLookups'
    BY <1>4, <1>found DEF PingUnanswered, FarmLookupFails, SureLookups
  <2> QED
    BY <1>4, <2>1, <1>start DEF PingUnanswered
<1>5. CASE BotAnswers
  BY <1>5 DEF BotAnswers, Assign, SureLookups, Searching, NoErrorYet, NoNodesFoundIsRight
<1>6. CASE BotFails
  BY <1>6 DEF BotFails, Fail, SureLookups, Searching, NoErrorYet, NoNodesFoundIsRight
<1>7. CASE SkipNode
  <2>1. PICK n \in todo :
          /\ \/ FarmLookupFails(Info[n].farm)
             \/ /\ FarmFound(Info[n].farm)
                /\ ~Fulfils(n, nodes[n], req, farms'[Info[n].farm])
          /\ todo' = todo \ {n}
    BY <1>7 DEF SkipNode
  <2>2. UNCHANGED <<grid, req, pc, err, limit, nodes>>
    BY <1>7 DEF SkipNode
  <2>3. SureLookups'
    BY <2>1, <2>2, <1>found DEF FarmLookupFails, SureLookups
  <2>4. n \in DOMAIN nodes /\ Info[n].farm \in Farm
    BY <1>farm DEF TypeOK
  <2>5. grid.quiet => ~Fulfils(n, nodes[n], req, grid.ips[Info[n].farm])
    BY <2>1, <2>4, LookupIsTrue DEF FarmFound
  <2>6. Searching'
    BY <2>1, <2>2, <2>5 DEF Searching
  <2> QED
    BY <2>2, <2>3, <2>6, <1>7 DEF SkipNode, NoErrorYet, NoNodesFoundIsRight
<1>8. CASE TakeNode
  <2>1. PICK n \in todo : farms' = ConsumePublicIPs(WithFarm(Info[n].farm), Info[n].farm, req.ips)
    BY <1>8 DEF TakeNode
  <2>2. Info[n].farm \in Farm
    BY <1>farm DEF TypeOK
  <2>3. SureLookups'
    BY <1>8, <2>1, <2>2, LookupIsTrue DEF TakeNode, ConsumePublicIPs, SureLookups
  <2> QED
    BY <1>8, <2>3 DEF TakeNode, Assign, Searching, NoErrorYet, NoNodesFoundIsRight
<1>9. CASE ListNodes
  <2> DEFINE page == Page(Listed(req, grid), limit)
  <2>1. /\ pc = "pick" /\ todo = {} /\ nodes' = AddNodes(nodes, page, grid)
        /\ todo' = DOMAIN nodes \cup page /\ limit' = NextLimit(limit)
        /\ UNCHANGED <<grid, req, pc, err, farms>>
    BY <1>9 DEF ListNodes
  <2>2. DOMAIN nodes' = DOMAIN nodes \cup page
    BY <2>1 DEF AddNodes
  <2>3. /\ limit'.page = 2
        /\ (limit'.page - 1) * limit'.size = limit.page * limit.size
    BY <2>1, NextLimitFollows DEF Searching, TypeOK
  <2>4. ASSUME grid.quiet, NEW n \in Listed(req, grid),
               Rank(n, Listed(req, grid)) <= limit.page * limit.size
        PROVE  n \in DOMAIN nodes'
    <3>1. CASE Rank(n, Listed(req, grid)) <= (limit.page - 1) * limit.size
      BY <2>1, <2>2, <2>4, <3>1 DEF Searching
    <3>2. CASE ~(Rank(n, Listed(req, grid)) <= (limit.page - 1) * limit.size)
      <4>1. Rank(n, Listed(req, grid)) \in 1..Cardinality(Listed(req, grid))
            /\ Cardinality(Listed(req, grid)) \in Nat
        BY <1>grid, ListedFinite, RankRange, FS_CardinalityType DEF Rank
      <4>2. (limit.page - 1) * limit.size \in Int
        BY DEF TypeOK
      <4>3. (limit.page - 1) * limit.size < Rank(n, Listed(req, grid))
        BY <3>2, <4>1, <4>2
      <4>4. n \in page
        BY <2>4, <4>3 DEF Page
      <4> QED
        BY <2>2, <4>4
    <3> QED
      BY <3>1, <3>2
  <2>5. Searching'
    BY <2>1, <2>2, <2>3, <2>4 DEF Searching
  <2> QED
    BY <2>1, <2>5 DEF SureLookups, NoErrorYet, NoNodesFoundIsRight
<1>10. CASE NoNodesFound
  <2>1. /\ pc = "pick" /\ todo = {} /\ Page(Listed(req, grid), limit) = {}
        /\ UNCHANGED <<grid, req, nodes, farms>> /\ pc' = "failed"
    BY <1>10 DEF NoNodesFound, Fail
  <2>2. ASSUME NEW n \in Listed(req, grid)
        PROVE  Rank(n, Listed(req, grid)) <= (limit.page - 1) * limit.size
    BY <2>1, <1>grid, ListedFinite, EmptyPageIsLast DEF TypeOK
  <2>3. NoNodesFoundIsRight'
    BY <2>1, <2>2 DEF Searching, NoNodesFoundIsRight
  <2> QED
    BY <2>1, <2>3 DEF SureLookups, Searching, NoErrorYet
<1>11. CASE ListFails
  BY <1>11 DEF ListFails, Fail, SureLookups, Searching, NoErrorYet, NoNodesFoundIsRight
<1>12. CASE ~Ended /\ GridMoves
  BY <1>12 DEF GridMoves, Ended, SureLookups, Searching, NoErrorYet, NoNodesFoundIsRight
<1>13. CASE UNCHANGED vars
  BY <1>13 DEF vars, SureLookups, Searching, NoErrorYet, NoNodesFoundIsRight
<1> QED
  BY <1>1, <1>2, <1>3, <1>4, <1>5, <1>6, <1>7, <1>8, <1>9, <1>10, <1>11, <1>12, <1>13
     DEF Next, Step, Stopped

\* When a run ends with NoNodesFoundErr on a quiet grid, whatever the size of its
\* pages and the number of nodes, every node the proxy lists for the request has
\* been read and none can take it on top of what the run has placed there.
THEOREM NoNodesFoundIsTrue == Spec => []NoNodesFoundIsRight
<1>1. Init => SearchInv
  BY InitType, InitSearch DEF SearchInv
<1>2. SearchInv /\ [Next]_vars => SearchInv'
  BY NextType, NextSearch DEF SearchInv
<1>3. SearchInv => NoNodesFoundIsRight
  BY DEF SearchInv
<1> QED
  BY <1>1, <1>2, <1>3, PTL DEF Spec

----------------------------------------------------------------------------
(* The copy of the request, and the promise of Placement *)

\* The copy of the request being scheduled is the request of the list with
\* more exclusions: when it is distinct, every node assigned so far.  Only a
\* request that names a farm is on its way to a farmer bot.
CopyInv ==
  pc \in {"ping", "bot", "pick"} =>
    /\ \E S \in SUBSET Node : req = [reqs[i] EXCEPT !.exclude = S]
    /\ reqs[i].exclude \subseteq req.exclude
    /\ req.distinct => assigned \subseteq req.exclude
    /\ pc \in {"ping", "bot"} => req.farm # NoFarm

\* assignedNodes lists every node of the assignment.
AssignedInv == \A nm \in DOMAIN assignment : assignment[nm] \in assigned

LoopInv == TypeInv /\ CopyInv /\ AssignedInv

RefineInv == LoopInv /\ Ledger

LEMMA InitCopy == Init => CopyInv /\ AssignedInv
BY DEF Init, CopyInv, AssignedInv, Range

LEMMA NextCopy == LoopInv /\ [Next]_vars => CopyInv' /\ AssignedInv'
<1> SUFFICES ASSUME LoopInv, [Next]_vars PROVE CopyInv' /\ AssignedInv'
  OBVIOUS
<1> TypeOK /\ InLoop /\ CopyInv /\ AssignedInv
  BY DEF LoopInv, TypeInv
<1>1. CASE NextRequest
  <2>1. reqs[i] \in Request
    <3>1. reqs \in Seq(Request)
      BY RequestAssumption DEF TypeOK
    <3> QED
      BY <1>1, <3>1 DEF NextRequest, TypeOK
  <2>2. req' = WidenExclusions(reqs[i]) /\ UNCHANGED <<reqs, i, assigned, assignment>>
    BY <1>1 DEF NextRequest
  <2>3. req'.distinct = reqs[i].distinct /\ req'.farm = reqs[i].farm
    BY <2>1, <2>2 DEF WidenExclusions, Request
  <2>4. req'.exclude = IF reqs[i].distinct THEN reqs[i].exclude \cup assigned
                       ELSE reqs[i].exclude
    BY <2>1, <2>2 DEF WidenExclusions, Request
  <2>5. req' = [reqs[i] EXCEPT !.exclude = req'.exclude]
    BY <2>2, <2>4 DEF WidenExclusions
  <2>6. req'.exclude \in SUBSET Node
    BY <2>1, <2>4 DEF Request, TypeOK
  <2>7. pc' \in {"ping", "bot"} => reqs[i].farm # NoFarm
    BY <1>1 DEF NextRequest, StartGridProxy
  <2>8. CopyInv'
    BY <2>2, <2>3, <2>4, <2>5, <2>6, <2>7 DEF CopyInv
  <2> QED
    BY <2>2, <2>8 DEF AssignedInv
<1>2. CASE \E n \in Node : Assign(n)
  BY <1>2 DEF Assign, CopyInv, AssignedInv
<1>3. CASE pc' \in {"done", "failed"} /\ UNCHANGED <<assignment, assigned>>
  BY <1>3 DEF CopyInv, AssignedInv
<1>4. CASE PingAnswered
  BY <1>4 DEF PingAnswered, CopyInv, AssignedInv
<1>5. CASE PingUnanswered
  BY <1>5 DEF PingUnanswered, StartGridProxy, CopyInv, AssignedInv
<1>6. CASE UNCHANGED <<reqs, i, req, pc, assignment, assigned>>
  BY <1>6 DEF CopyInv, AssignedInv
<1>7. TakeNode => \E n \in Node : Assign(n)
  BY DEF TakeNode, TypeOK
<1>8. BotAnswers => \E n \in Node : Assign(n)
  BY GridAssumption DEF BotAnswers, BotChoices, TypeOK, GridState
<1> QED
  BY <1>1, <1>2, <1>3, <1>4, <1>5, <1>6, <1>7, <1>8
     DEF Next, Step, Stopped, vars, Finish, BotFails, SkipNode, ListNodes,
         NoNodesFound, ListFails, GridMoves, Fail

----------------------------------------------------------------------------
(* Steps map to steps *)

\* What Placement asks of the node of the current request: the request as it is
\* in the list, and no node in use when it is distinct.
LEMMA CopySuits ==
  ASSUME LoopInv, pc \in {"bot", "pick"}, NEW n \in Node, n \notin req.exclude,
         req.farm # NoFarm => Info[n].farm = req.farm,
         req.domain => Info[n].domain,
         req.dedicated => Info[n].dedicated,
         req.certified => Info[n].certified
  PROVE  Promise!SuitsCurrent(n)
<1>1. PICK S \in SUBSET Node : req = [reqs[i] EXCEPT !.exclude = S]
  BY DEF LoopInv, CopyInv
<1>2. reqs \in Seq(Request) /\ i \in 1..Len(reqs)
  BY RequestAssumption DEF LoopInv, TypeInv, TypeOK, InLoop
<1>3. reqs[i] \in Request
  BY <1>2
<1>4. /\ req.farm = reqs[i].farm /\ req.domain = reqs[i].domain
      /\ req.dedicated = reqs[i].dedicated /\ req.certified = reqs[i].certified
      /\ req.distinct = reqs[i].distinct
  BY <1>1, <1>3 DEF Request
<1>5. Promise!Current = reqs[i]
  BY <1>2 DEF Promise!Current
<1>6. reqs[i].exclude \subseteq req.exclude
      /\ (req.distinct => assigned \subseteq req.exclude)
  BY DEF LoopInv, CopyInv
<1>7. Promise!InUse \subseteq assigned
  BY DEF LoopInv, AssignedInv, Promise!InUse
<1> QED
  BY <1>4, <1>5, <1>6, <1>7 DEF Promise!SuitsCurrent

\* Assigning a node is answering the request of the list.
LEMMA AssignAnswers ==
  ASSUME LoopInv, pc \in {"bot", "pick"}, NEW n \in Node, Assign(n), UNCHANGED reqs,
         Promise!SuitsCurrent(n)
  PROVE  Promise!Answer(n)
<1>1. i \in 1..Len(reqs) /\ Len(reqs) \in Nat
  BY RequestAssumption DEF LoopInv, TypeInv, TypeOK, InLoop
<1>2. req.name = Promise!Current.name
  <2>1. PICK S \in SUBSET Node : req = [reqs[i] EXCEPT !.exclude = S]
    BY DEF LoopInv, CopyInv
  <2>2. reqs[i] \in Request
    BY <1>1, RequestAssumption DEF LoopInv, TypeInv, TypeOK
  <2>3. req.name = reqs[i].name
    BY <2>1, <2>2 DEF Request
  <2> QED
    BY <1>1, <2>3 DEF Promise!Current
<1>3. i' - 1 = (i - 1) + 1 /\ i - 1 < Len(reqs)
  BY <1>1 DEF Assign
<1>4. ~Ended /\ ~Ended'
  BY DEF Ended, Assign
<1> QED
  BY <1>2, <1>3, <1>4 DEF Assign, Promise!Answer

LEMMA TakePlaces ==
  ASSUME RefineInv, TakeNode
  PROVE  Promise!Place
<1> TypeOK /\ InLoop /\ LoopInv
  BY DEF RefineInv, LoopInv, TypeInv
<1> DEFINE left == [m \in DOMAIN nodes |-> nodes[m].free]
<1>1. PICK n \in todo :
        /\ Fulfils(n, nodes[n], req, WithFarm(Info[n].farm)[Info[n].farm])
        /\ nodes' = [nodes EXCEPT ![n].free = Consume(@, req.cap)]
        /\ Assign(n)
  BY DEF TakeNode
<1>2. n \in DOMAIN nodes /\ n \in Node /\ pc = "pick" /\ UNCHANGED <<reqs, req>>
  BY DEF TakeNode, TypeOK
<1>3. i \in 1..Len(reqs) /\ Len(reqs) \in Nat /\ reqs[i] \in Request
  BY <1>2, RequestAssumption DEF TypeOK, InLoop
<1>4. req.cap = reqs[i].cap /\ Promise!Current = reqs[i]
  BY <1>2, <1>3 DEF LoopInv, CopyInv, Request, Promise!Current
<1>5. Promise!SuitsCurrent(n)
  BY <1>1, <1>2, CopySuits DEF Fulfils, FulfilsIgnoringExclusions
<1>6. Promise!Answer(n)
  BY <1>1, <1>2, <1>5, AssignAnswers
<1>7. \A u \in Unit : Promise!Current.cap[u] <= left[n][u]
  BY <1>1, <1>2, <1>4 DEF Fulfils, FulfilsIgnoringExclusions
<1>8. left' = [left EXCEPT ![n] = [u \in Unit |-> @[u] - Promise!Current.cap[u]]]
  <2>1. \A u \in Unit : Consume(nodes[n].free, req.cap)[u] = nodes[n].free[u] - req.cap[u]
    BY <1>1, <1>2, ConsumeIsExact
  <2>2. Consume(nodes[n].free, req.cap)
          = [u \in Unit |-> nodes[n].free[u] - Promise!Current.cap[u]]
    BY <2>1, <1>4 DEF Consume
  <2>3. DOMAIN nodes' = DOMAIN nodes /\ nodes'[n].free = Consume(nodes[n].free, req.cap)
    BY <1>1, <1>2 DEF TypeOK
  <2>4. \A m \in DOMAIN nodes : m # n => nodes'[m] = nodes[m]
    BY <1>1, <1>2
  <2> QED
    BY <1>2, <2>2, <2>3, <2>4
<1>9. i - 1 < Len(reqs)
  BY <1>3
<1> QED
  BY <1>2, <1>6, <1>7, <1>8, <1>9 DEF Promise!Place

LEMMA BotDelegates ==
  ASSUME RefineInv, BotAnswers
  PROVE  Promise!Delegate
<1> TypeOK /\ InLoop /\ LoopInv
  BY DEF RefineInv, LoopInv, TypeInv
<1>1. PICK n \in BotChoices(req, grid) : Assign(n)
  BY DEF BotAnswers
<1>2. pc = "bot" /\ UNCHANGED <<reqs, req, nodes>>
  BY DEF BotAnswers
<1>3. n \in Node /\ req.farm # NoFarm
  BY <1>2, GridAssumption DEF BotChoices, TypeOK, GridState, LoopInv, CopyInv
<1>4. Promise!Answer(n)
  BY <1>1, <1>2, <1>3, CopySuits, AssignAnswers DEF BotChoices
<1>5. i \in 1..Len(reqs) /\ Len(reqs) \in Nat /\ reqs[i] \in Request
  BY <1>2, RequestAssumption DEF TypeOK, InLoop
<1>6. Promise!Current.farm # NoFarm
  BY <1>2, <1>3, <1>5 DEF LoopInv, CopyInv, Request, Promise!Current
<1>7. i - 1 < Len(reqs)
  BY <1>5
<1> QED
  BY <1>2, <1>3, <1>4, <1>6, <1>7 DEF Promise!Delegate

LEMMA ListLearns ==
  ASSUME LoadsFit, RefineInv, ListNodes
  PROVE  Promise!Learn
<1> TypeOK /\ InLoop /\ LoopInv
  BY DEF RefineInv, LoopInv, TypeInv
<1> DEFINE page == Page(Listed(req, grid), limit)
           left == [m \in DOMAIN nodes |-> nodes[m].free]
<1>1. nodes' = AddNodes(nodes, page, grid) /\ pc = "pick"
      /\ UNCHANGED <<pc, reqs, i, assignment>>
  BY DEF ListNodes
<1>2. DOMAIN nodes' = DOMAIN nodes \cup page
  BY <1>1 DEF AddNodes
<1>3. page \subseteq Node
  BY PageUp, GridAssumption DEF GridState, TypeOK
<1>4. \A n \in DOMAIN nodes : left'[n] = left[n]
  BY <1>1, <1>2 DEF AddNodes
<1>5. ASSUME NEW n \in DOMAIN nodes', n \notin DOMAIN nodes, NEW u \in Unit
      PROVE 0 <= left'[n][u] /\ left'[n][u] <= Total[n][u]
  <2>1. n \in Node
    BY <1>2, <1>3, <1>5
  <2>2. left'[n][u] = FreeCapacity(Total[n], grid.used[n])[u]
    BY <1>1, <1>2, <1>5 DEF AddNodes
  <2>3. /\ FreeCapacity(Total[n], grid.used[n])[u] = Total[n][u] - grid.used[n][u]
        /\ grid.used[n][u] \in Nat /\ Total[n][u] \in Nat /\ grid.used[n][u] <= Total[n][u]
    BY <2>1, FreeIsLeft DEF TypeOK, LoadsFit
  <2> QED
    BY <2>2, <2>3
<1>6. i - 1 < Len(reqs) /\ ~Ended /\ ~Ended'
  BY <1>1, RequestAssumption DEF TypeOK, InLoop, Ended
<1>7. DOMAIN left = DOMAIN nodes /\ DOMAIN left' = DOMAIN nodes'
  OBVIOUS
<1>8. DOMAIN left' \subseteq Node
  BY <1>2, <1>3, <1>7 DEF TypeOK
<1> QED
  BY <1>1, <1>2, <1>4, <1>5, <1>6, <1>7, <1>8 DEF Promise!Learn

\* The ways a run ends.
LEMMA EndsMap ==
  ASSUME RefineInv, Finish \/ BotFails \/ NoNodesFound \/ ListFails
  PROVE  Promise!Complete \/ Promise!GiveUp
<1> TypeOK /\ InLoop /\ LoopInv
  BY DEF RefineInv, LoopInv, TypeInv
<1>1. Len(reqs) \in Nat /\ i \in 1..(Len(reqs) + 1)
  BY RequestAssumption DEF TypeOK
<1>2. CASE Finish
  BY <1>1, <1>2 DEF Finish, Ended, Promise!Complete
<1>3. CASE BotFails
  BY <1>1, <1>3 DEF BotFails, Fail, InLoop, Ended, Promise!GiveUp
<1>4. CASE NoNodesFound
  BY <1>1, <1>4 DEF NoNodesFound, Fail, InLoop, Ended, Promise!GiveUp
<1>5. CASE ListFails
  BY <1>1, <1>5 DEF ListFails, Fail, InLoop, Ended, Promise!GiveUp
<1> QED
  BY <1>2, <1>3, <1>4, <1>5

LEMMA NextMaps == LoadsFit /\ RefineInv /\ [Next]_vars => [Promise!Next]_(Promise!promise)
<1> SUFFICES ASSUME LoadsFit, RefineInv, [Next]_vars
             PROVE  [Promise!Next]_(Promise!promise)
  OBVIOUS
<1>1. CASE TakeNode
  BY <1>1, TakePlaces DEF Promise!Next
<1>2. CASE BotAnswers
  BY <1>2, BotDelegates DEF Promise!Next
<1>3. CASE ListNodes
  BY <1>3, ListLearns DEF Promise!Next
<1>4. CASE Finish \/ BotFails \/ NoNodesFound \/ ListFails
  BY <1>4, EndsMap DEF Promise!Next
<1>5. CASE UNCHANGED <<reqs, i, assignment, nodes>> /\ pc \notin {"done", "failed"}
           /\ pc' \notin {"done", "failed"}
  BY <1>5 DEF Promise!promise, Ended
<1>6. CASE UNCHANGED vars
  BY <1>6 DEF Promise!promise, vars, Ended
<1> QED
  BY <1>1, <1>2, <1>3, <1>4, <1>5, <1>6
     DEF Next, Step, Stopped, NextRequest, StartGridProxy, PingAnswered, PingUnanswered,
         SkipNode, GridMoves, Ended

LEMMA RefineInvariant == LoadsFit /\ Spec => []RefineInv
<1>1. Init => RefineInv
  BY InitType, InitLedger, InitCopy DEF RefineInv, LoopInv
<1>2. LoadsFit /\ RefineInv /\ [Next]_vars => RefineInv'
  BY NextType, NextLedger, NextCopy DEF RefineInv, LoopInv, LedgerInv
<1>3. LoadsFit => []LoadsFit
  <2>1. LoadsFit => LoadsFit'
    BY DEF LoadsFit
  <2> QED
    BY <2>1, PTL
<1> QED
  BY <1>1, <1>2, <1>3, PTL DEF Spec

\* Every run does what Placement promises: it answers its requests in order and
\* takes the capacity of each from a ledger that is never overdrawn, keeps
\* distinct requests off the nodes in use and honours the demands of each, until
\* it is done or gives up; whatever it caches, lists and looks up on the way.
THEOREM KeepsPromise == LoadsFit /\ Spec => ImplementsPlacement
<1>1. Init => Promise!Init
  BY DEF Init, Promise!Init, Ended
<1>2. LoadsFit => []LoadsFit
  <2>1. LoadsFit => LoadsFit'
    BY DEF LoadsFit
  <2> QED
    BY <2>1, PTL
<1> QED
  BY <1>1, <1>2, RefineInvariant, NextMaps, PTL DEF Spec, ImplementsPlacement, Promise!Spec

----------------------------------------------------------------------------
(* The demands of every request *)

\* Each answered request has an entry in the assignment.
Answered == \A j \in 1..(i - 1) : reqs[j].name \in DOMAIN assignment

HonourInv == LoopInv /\ Answered /\ Honoured

\* The node that is assigned suits the request of the list, and is none of those
\* in use when that request is distinct.
AssignsSuiting ==
  \E n \in Node :
    /\ Assign(n) /\ UNCHANGED reqs
    /\ Suits(n, reqs[i])
    /\ reqs[i].distinct => \A nm \in DOMAIN assignment : assignment[nm] # n

LEMMA AssignedSuits ==
  ASSUME LoopInv, TakeNode \/ BotAnswers
  PROVE  AssignsSuiting
<1> TypeOK /\ InLoop
  BY DEF LoopInv, TypeInv
<1>1. i \in 1..Len(reqs) /\ Promise!Current = reqs[i]
  BY RequestAssumption DEF TakeNode, BotAnswers, TypeOK, InLoop, Promise!Current
<1>2. ASSUME NEW n \in Node, Promise!SuitsCurrent(n)
      PROVE  /\ Suits(n, reqs[i])
             /\ reqs[i].distinct => \A nm \in DOMAIN assignment : assignment[nm] # n
  BY <1>1, <1>2 DEF Suits, Promise!SuitsCurrent, Promise!InUse
<1>3. CASE TakeNode
  <2>1. PICK n \in todo :
          Fulfils(n, nodes[n], req, WithFarm(Info[n].farm)[Info[n].farm]) /\ Assign(n)
    BY <1>3 DEF TakeNode
  <2>2. n \in Node /\ pc = "pick" /\ UNCHANGED reqs
    BY <1>3 DEF TakeNode, TypeOK
  <2>3. Promise!SuitsCurrent(n)
    BY <2>1, <2>2, CopySuits DEF Fulfils, FulfilsIgnoringExclusions
  <2> QED
    BY <1>2, <2>1, <2>2, <2>3 DEF AssignsSuiting
<1>4. CASE BotAnswers
  <2>1. PICK n \in BotChoices(req, grid) : Assign(n)
    BY <1>4 DEF BotAnswers
  <2>2. n \in Node /\ pc = "bot" /\ UNCHANGED reqs
    BY <1>4, GridAssumption DEF BotAnswers, BotChoices, TypeOK, GridState
  <2>3. Promise!SuitsCurrent(n)
    BY <2>1, <2>2, CopySuits DEF BotChoices
  <2> QED
    BY <1>2, <2>1, <2>2, <2>3 DEF AssignsSuiting
<1> QED
  BY <1>3, <1>4

LEMMA InitHonour == Init => Answered /\ Honoured
BY DEF Init, Answered, Honoured

LEMMA NextHonour == HonourInv /\ [Next]_vars => Answered' /\ Honoured'
<1> SUFFICES ASSUME HonourInv, [Next]_vars PROVE Answered' /\ Honoured'
  OBVIOUS
<1> LoopInv /\ TypeOK /\ InLoop /\ CopyInv /\ AssignedInv /\ Answered /\ Honoured
  BY DEF HonourInv, LoopInv, TypeInv
<1>1. CASE TakeNode \/ BotAnswers
  <2>1. PICK n \in Node :
          /\ Assign(n) /\ UNCHANGED reqs
          /\ Suits(n, reqs[i])
          /\ reqs[i].distinct => \A nm \in DOMAIN assignment : assignment[nm] # n
    BY <1>1, AssignedSuits DEF AssignsSuiting
  <2>2. i \in 1..Len(reqs) /\ Len(reqs) \in Nat
    BY <1>1, RequestAssumption DEF TakeNode, BotAnswers, TypeOK, InLoop
  <2>3. req.name = reqs[i].name
    <3>1. PICK S \in SUBSET Node : req = [reqs[i] EXCEPT !.exclude = S]
      BY <1>1 DEF TakeNode, BotAnswers, CopyInv
    <3>2. reqs[i] \in Request
      BY <2>2, RequestAssumption DEF TypeOK
    <3> QED
      BY <3>1, <3>2 DEF Request
  <2>4. /\ DOMAIN assignment' = DOMAIN assignment \cup {reqs[i].name}
        /\ assignment'[reqs[i].name] = n
        /\ \A nm \in DOMAIN assignment :
             nm # reqs[i].name => assignment'[nm] = assignment[nm]
        /\ i' = i + 1 /\ reqs' = reqs
    BY <2>1, <2>3 DEF Assign
  <2>5. \A j \in 1..(i' - 1) : j \in 1..(i - 1) \/ j = i
    BY <2>2, <2>4
  <2>6. Answered'
    BY <2>4, <2>5 DEF Answered
  <2>7. ASSUME NEW j \in 1..(i - 1), reqs[j].name \notin NamesFrom(j + 1)
        PROVE  /\ Suits(assignment'[reqs[j].name], reqs[j])
               /\ reqs[j].distinct =>
                    \A nm \in DOMAIN assignment' \ NamesFrom(j) :
                      assignment'[nm] # assignment'[reqs[j].name]
    <3>1. reqs[i].name \in NamesFrom(j + 1) /\ reqs[i].name \in NamesFrom(j)
      <4>1. i \in (j + 1)..Len(reqs) /\ i \in j..Len(reqs)
        BY <2>2
      <4> QED
        BY <4>1 DEF NamesFrom
    <3>2. assignment'[reqs[j].name] = assignment[reqs[j].name]
      BY <2>4, <2>7, <3>1 DEF Answered
    <3>3. \A nm \in DOMAIN assignment' \ NamesFrom(j) :
            nm \in DOMAIN assignment /\ assignment'[nm] = assignment[nm]
      BY <2>4, <3>1
    <3> QED
      BY <2>7, <3>2, <3>3 DEF Honoured
  <2>8. /\ Suits(assignment'[reqs[i].name], reqs[i])
        /\ reqs[i].distinct =>
             \A nm \in DOMAIN assignment' \ NamesFrom(i) :
               assignment'[nm] # assignment'[reqs[i].name]
    <3>1. reqs[i].name \in NamesFrom(i)
      BY <2>2 DEF NamesFrom
    <3> QED
      BY <2>1, <2>4, <3>1
  <2>9. Honoured'
    <3>1. SUFFICES ASSUME NEW j \in 1..(i' - 1), reqs[j].name \notin NamesFrom(j + 1)
          PROVE  /\ Suits(assignment'[reqs[j].name], reqs[j])
                 /\ reqs[j].distinct =>
                      \A nm \in DOMAIN assignment' \ NamesFrom(j) :
                        assignment'[nm] # assignment'[reqs[j].name]
      BY <2>4 DEF Honoured, NamesFrom
    <3> QED
      BY <2>5, <2>7, <2>8, <3>1
  <2> QED
    BY <2>6, <2>9
<1>2. CASE UNCHANGED <<reqs, i, assignment>>
  BY <1>2 DEF Answered, Honoured, NamesFrom
<1> QED
  BY <1>1, <1>2
     DEF Next, Step, Stopped, vars, NextRequest, Finish, PingAnswered, PingUnanswered,
         BotFails, SkipNode, ListNodes, NoNodesFound, ListFails, GridMoves

\* Every request that a run has answered, and no later one of its name has
\* replaced, has a node on its farm with all it demands, outside its exclusions
\* and, when it is distinct, other than every node assigned before it: for any
\* list, through either path, however the grid moves and its calls fail.
THEOREM DemandsHonoured == Spec => []Honoured
<1>1. Init => HonourInv
  BY InitType, InitCopy, InitHonour DEF HonourInv, LoopInv
<1>2. HonourInv /\ [Next]_vars => HonourInv'
  BY NextType, NextCopy, NextHonour DEF HonourInv, LoopInv
<1>3. HonourInv => Honoured
  BY DEF HonourInv
<1> QED
  BY <1>1, <1>2, <1>3, PTL DEF Spec
============================================================================
