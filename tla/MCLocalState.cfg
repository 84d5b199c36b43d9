SPECIFICATION Spec
CONSTANTS
  Process = {p1, p2}
  Network = {n1, n2}
  Subnets = {s1, s2}
  FaultSets <- MCFaultSets
INVARIANTS TypeOK HandedOn
