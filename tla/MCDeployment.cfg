SPECIFICATION FairSpec
CONSTANTS
  Node = {n1, n2}
  Body = {b1, b2, bad}
  Malformed = {bad}
  Empty = Empty
  FaultSets <- MCFaultSets
  MaxContract = 2
INVARIANTS TypeOK AppliedIsDeployed ContractsTracked
PROPERTIES CancelsOnlyUnwanted RemovalCompletes
