SPECIFICATION FairSpec
CONSTANTS
  Node = {1, 2, 3}
  PublicNode = {3}
  NoNode = 0
  Keys = {NoKeys, bad}
  NoKeys = NoKeys
  Malformed = {bad}
  Blocks <- MCBlocks
  FaultSets <- MCFaultSets
  MaxContract = 3
INVARIANTS TypeOK NoneForgotten AppliedIsDeployed
PROPERTIES ShrinkCompletes RemovalCompletes
