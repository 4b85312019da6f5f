SPECIFICATION Spec
CONSTANTS
  MaxBlocks = 3
  OriginK = 3
  NoSpawn <- None
  NoFork <- None
  NoInst = "null"
  Programs <- RacePrograms
INVARIANTS
  GraphInputOK
  NoMissedRace
  ConcurrentNotOrdered
  HeldLocksExact
  WaitsSeen
  CallstacksExact
  SameRegionSameTeam
  NoOverlapMeansDisjoint
  BothOrdersOnlyOfWrites
  FilteredNeverConcurrent
PROPERTIES
  ReportExact
