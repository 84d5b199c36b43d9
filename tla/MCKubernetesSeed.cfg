SPECIFICATION Spec
CONSTANTS
  Node = {1, 2}
  Master = m
  Worker = {w}
  Seed = {1, 2}
  Malformed = {}
  Clusters <- SeedClusters
  FaultSets <- NoFaults
  MaxContract = 3
INVARIANT SeedsApplied
