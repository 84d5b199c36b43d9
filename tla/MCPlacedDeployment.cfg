SPECIFICATION PlacedSpec
CONSTANTS
  Node <- ResNode
  Farm = {1}
  NoFarm = 0
  Unit <- ResUnit
  Name <- ResName
  Word = 16
  UnitsPerGB = 1
  PageSize = 4
  Info <- ResInfo
  Total <- ResTotal
  Grids <- ResGrids
  Bots = {}
  RequestLists <- ResLists
  Assignments <- NoneAssigned
  Placed = "a"
  Body = {b1, bad}
  Malformed = {bad}
  Empty = Empty
  FaultSets <- MCFaultSets
  MaxContract = 2
INVARIANT HeldOnItsNode
PROPERTIES AssignedStays AllOrNothing DistinctFromEarlier StaysDeployed
