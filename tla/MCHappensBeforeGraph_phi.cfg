SPECIFICATION Spec
CONSTANTS
  MaxMain = 2
  NoSpawn <- None
  NoFork <- None
  LoadPointer <- MCLoadPointer
  StorePointers <- MCStorePointers
  PhiIncoming <- MCPhiIncoming
  Traces <- GraphTraces
PROPERTY JoinsResolved
