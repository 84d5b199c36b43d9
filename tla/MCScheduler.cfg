SPECIFICATION FairSpec
CONSTANTS
  Node <- MCNode
  Farm <- MCFarm
  NoFarm = 0
  Unit <- MCUnit
  Name <- MCName
  Word = 16
  UnitsPerGB = 2
  PageSize = 1
  Info <- MCInfo
  Total <- MCTotal
  Grids <- MCGrids
  Bots = {1}
  RequestLists <- MCRequestLists
  Assignments <- MCAssignments
INVARIANTS TypeOK NoOvercommit Honoured NoNodesFoundIsRight
PROPERTIES ImplementsPlacement Terminates
