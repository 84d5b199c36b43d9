SPECIFICATION ResourceSpec
CONSTANTS
  Node <- ResNode
  Farm = {1}
  NoFarm = 0
  Unit <- ResUnit
  Name <- ResName
  Word = 16
  UnitsPerGB = 1
  PageSize = 2
  Info <- ResInfo
  Total <- ResTotal
  Grids <- ResGrids
  Bots = {}
  RequestLists <- ResLists
  Assignments <- NoneAssigned
INVARIANT NothingToApplyMeansAssigned
