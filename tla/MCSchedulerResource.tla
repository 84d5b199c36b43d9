------------------------ MODULE MCSchedulerResource ------------------------
(***************************************************************************)
(* Three versions of a resource block on three nodes of one farm, each     *)
(* with room for two requests: requests are added, removed and reordered,  *)
(* one is enlarged, and all of them fit only when the grid is idle.        *)
(***************************************************************************)
EXTENDS SchedulerResource, TLC

ResNode == 1..3
ResUnit == {"MRU"}
ResName == {"a", "b", "c"}
ResInfo == [n \in ResNode |-> [farm |-> 1, domain |-> FALSE, certified |-> n > 1,
                               dedicated |-> FALSE, rentable |-> FALSE]]
ResTotal == [n \in ResNode |-> [u \in ResUnit |-> 2]]

IdleGrid == [up |-> ResNode, used |-> [n \in ResNode |-> [u \in ResUnit |-> 0]],
             ips |-> [f \in {1} |-> 0], quiet |-> FALSE]
BusyGrid == [IdleGrid EXCEPT !.up = {1, 2}, !.used[2]["MRU"] = 2]
ResGrids == {IdleGrid, BusyGrid}

Ask(nm, m, distinct) ==
  [name |-> nm, farm |-> 0, cap |-> [u \in ResUnit |-> m], domain |-> FALSE,
   ips |-> 0, certified |-> FALSE, dedicated |-> FALSE, exclude |-> {},
   distinct |-> distinct]

ResLists ==
  {<<Ask("a", 1, FALSE), Ask("b", 1, FALSE), Ask("c", 1, TRUE)>>,
   <<Ask("c", 2, FALSE), Ask("b", 2, TRUE)>>,
   <<Ask("a", 2, TRUE)>>}

NoneAssigned == {[nm \in {} |-> 1]}
============================================================================
