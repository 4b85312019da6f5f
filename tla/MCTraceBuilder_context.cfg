SPECIFICATION Spec
CONSTANTS
  MaxBlocks = 2
  OriginK = 3
  NoSpawn <- None
  NoFork <- None
  NoInst = "null"
  Programs <- PthreadPrograms
PROPERTY ContextOfActivation
