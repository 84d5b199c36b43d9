SPECIFICATION Spec
CONSTANTS
  Node = {1, 2}
  Master = m
  Worker = {w}
  Seed = {1}
  Malformed = {}
  Clusters <- MCClusters
  FaultSets <- Expiring
  MaxContract = 3
INVARIANT ReadSurvives
