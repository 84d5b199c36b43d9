---------------------------- MODULE MCKubernetes ----------------------------
(***************************************************************************)
(* A master and at most one worker on two nodes: alone, apart, the other   *)
(* way round, and with a malformed seed for the worker.                    *)
(***************************************************************************)
EXTENDS KubernetesResource

On(n, s) == [node |-> n, seed |-> s]
Alone(p) == [v \in {Master} |-> p]
Pair(p, q) == [v \in Vm |-> IF v = Master THEN p ELSE q]

MCClusters == {Alone(On(1, 1)), Pair(On(1, 1), On(2, 1)), Pair(On(2, 1), On(1, 1))}
              \cup {Pair(On(1, 1), On(2, s)) : s \in Malformed}
MCFaultSets ==
  {{"chain", "deploy", "cancel"}, {"deploy", "down", "expire"}, {"revert", "kill", "cancel"}}

\* The contract of the master expires, that of the worker does not.
Expiring == {{"expire"}}

\* The seed of the worker changes, and nothing fails.
SeedClusters == {Pair(On(1, 1), On(2, s)) : s \in {1, 2}}
NoFaults == {{}}
=============================================================================
