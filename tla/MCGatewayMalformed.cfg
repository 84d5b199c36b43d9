SPECIFICATION Spec
CONSTANTS
  Node = {n1, n2}
  Body = {b}
  Malformed = {bad}
  Empty = Empty
  Kinds = {"fqdn", "name"}
  FaultSets <- NoFaults
  MaxContract = 4
PROPERTY ReadNeverFails
