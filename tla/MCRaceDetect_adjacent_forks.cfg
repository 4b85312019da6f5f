SPECIFICATION Spec
CONSTANTS
  MaxBlocks = 1
  OriginK = 3
  NoSpawn <- None
  NoFork <- None
  NoInst = "null"
  Programs <- AdjacentForkPrograms
INVARIANT AdjacentForksOneTeam
