SPECIFICATION Spec
CONSTANTS
  MaxBlocks = 3
  OriginK = 3
  NoSpawn <- None
  NoFork <- None
  NoInst = "null"
  Programs <- BuilderPrograms
INVARIANTS
  TypeOK
  TraceWellFormed
  FlattenedInThreadOrder
  CallsBalanced
  TwinsAgree
  TasksJoinedOnce
  RuntimeStateReset
  OriginsNameThread
PROPERTY Termination
