SPECIFICATION Spec
CONSTANTS
  Node <- MCNode
  Farm <- MCFarm
  NoFarm = 0
  Unit <- MCUnit
  Name <- MCName
  Word = 16
  UnitsPerGB = 2
  PageSize = 1
  Info <- MCInfo
  Total <- MCTotal
  Grids <- QuietGrid
  Bots = {1}
  RequestLists <- IPLists
  Assignments <- NoneAssigned
INVARIANT PublicIPsSuffice
