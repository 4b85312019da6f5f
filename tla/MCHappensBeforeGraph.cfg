SPECIFICATION Spec
CONSTANTS
  MaxMain = 4
  NoSpawn <- None
  NoFork <- None
  LoadPointer <- MCLoadPointer
  StorePointers <- MCStorePointers
  PhiIncoming <- MCPhiIncoming
  Traces <- GraphTraces
INVARIANTS
  TypeOK
  SyncReachableExact
  CanReachExact
PROPERTY Termination
