SPECIFICATION FairSpec
CONSTANTS
  Node = {1, 2}
  Master = m
  Worker = {w}
  Seed = {1, 2}
  Malformed = {2}
  Clusters <- MCClusters
  FaultSets <- MCFaultSets
  MaxContract = 3
INVARIANTS TypeOK AppliedIsDeployed ContractsTracked
PROPERTIES RemovalCompletes
