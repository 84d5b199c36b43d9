SPECIFICATION FairSpec
CONSTANTS
  Node = {n1, n2}
  Body = {b}
  Malformed = {bad}
  Empty = Empty
  Kinds = {"fqdn", "domain"}
  FaultSets <- MCFaultSets
  MaxContract = 3
INVARIANTS TypeOK AppliedIsDeployed ContractsTracked
PROPERTIES MoveCompletes RemovalCompletes
