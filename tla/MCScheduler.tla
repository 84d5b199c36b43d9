---------------------------- MODULE MCScheduler ----------------------------
(***************************************************************************)
(* A grid of seven nodes on two farms, one of them with a farmer bot.      *)
(* While the first three nodes alone are up it moves between three states  *)
(* and its calls may fail; with all seven it is quiet, and is read in      *)
(* pages of one, one, two and four: 1, 2, 3-4, 5-8.                        *)
(***************************************************************************)
EXTENDS Scheduler, TLC

MCNode == 1..7
MCUnit == {"HRU", "MRU"}
MCFarm == {1, 2}
MCName == {"a", "b", "c", "old"}

\* Of the far nodes only the last is certified, which the proxy cannot filter on.
MCInfo ==
  1 :> [farm |-> 1, domain |-> TRUE, certified |-> TRUE, dedicated |-> FALSE, rentable |-> FALSE] @@
  2 :> [farm |-> 1, domain |-> FALSE, certified |-> FALSE, dedicated |-> TRUE, rentable |-> TRUE] @@
  [n \in 3..7 |-> [farm |-> 2, domain |-> n = 3, certified |-> n = 7,
                   dedicated |-> FALSE, rentable |-> FALSE]]

Units(h, m) == [u \in MCUnit |-> IF u = "HRU" THEN h ELSE m]
MCTotal == [n \in MCNode |-> IF n \in 4..6 THEN Units(3, 2) ELSE Units(3, 4)]

Load(up, a, b, c, ips1, ips2, quiet) ==
  [up |-> up, used |-> <<a, b, c>> \o [k \in 1..4 |-> Units(0, 0)], ips |-> <<ips1, ips2>>,
   quiet |-> quiet]

\* Idle; the first node busy; the first node down and the public IPs taken; and
\* all nodes up, the first two with little memory left.
MCGrids == {Load({1, 2, 3}, Units(0, 0), Units(0, 2), Units(1, 1), 2, 1, FALSE),
            Load({1, 2, 3}, Units(1, 4), Units(0, 0), Units(0, 2), 2, 1, FALSE),
            Load({2, 3}, Units(0, 1), Units(0, 2), Units(0, 0), 0, 1, FALSE),
            Load(MCNode, Units(0, 3), Units(0, 3), Units(0, 0), 1, 1, TRUE)}

Ask(nm, farm, h, m) ==
  [name |-> nm, farm |-> farm, cap |-> Units(h, m), domain |-> FALSE, ips |-> 0,
   certified |-> FALSE, dedicated |-> FALSE, exclude |-> {}, distinct |-> FALSE]
Certified(r) == [r EXCEPT !.certified = TRUE]
Distinct(r) == [r EXCEPT !.distinct = TRUE]

\* Two that share a node's memory, with one that needs a public IP; a distinct
\* one beside an older assignment; farms with a bot, without one, unknown; and two
\* of one name.
ShortLists ==
  {<<Ask("a", 0, 0, 2), Ask("b", 0, 1, 2), Ask("c", 0, 2, 0)>>,
   <<[Ask("a", 0, 2, 0) EXCEPT !.ips = 1], Distinct(Ask("b", 0, 0, 3)),
     Distinct(Ask("c", 1, 1, 1))>>,
   <<Certified(Ask("a", 0, 1, 1)), Distinct([Ask("b", 0, 0, 2) EXCEPT !.dedicated = TRUE])>>,
   <<[Ask("a", 1, 0, 1) EXCEPT !.exclude = {2}], [Ask("b", 2, 0, 2) EXCEPT !.domain = TRUE],
     Ask("c", 9, 0, 1)>>,
   <<Ask("a", 0, 1, 0), Distinct(Ask("a", 0, 0, 1)), Distinct(Ask("b", 0, 1, 1))>>}

\* For the quiet grid: found late; found, then used up by the requests before it;
\* never there.
LongLists ==
  {<<Certified(Ask("a", 0, 0, 2)), Certified(Ask("b", 0, 0, 2)), Certified(Ask("c", 0, 0, 2))>>,
   <<Ask("a", 0, 0, 4), Ask("b", 0, 0, 3), Ask("c", 0, 0, 3)>>,
   <<[Certified(Ask("a", 0, 0, 1)) EXCEPT !.exclude = {7}]>>}

MCRequestLists == ShortLists \cup LongLists
MCAssignments == {[nm \in {} |-> 1], [nm \in {"old"} |-> 1]}

\* One state of the grid, for the run that only follows the requests.
QuietGrid == {Load({1, 2, 3}, Units(0, 0), Units(0, 2), Units(1, 1), 1, 1, TRUE)}

\* Two requests for the single free public IP of each farm.
IPLists == {<<[Ask("a", 0, 0, 1) EXCEPT !.ips = 1], [Ask("b", 0, 0, 1) EXCEPT !.ips = 1]>>,
            <<[Ask("a", 2, 0, 1) EXCEPT !.ips = 1], [Ask("b", 2, 1, 0) EXCEPT !.ips = 1],
              Ask("c", 0, 1, 0)>>}

NoneAssigned == {[nm \in {} |-> 1]}
============================================================================
