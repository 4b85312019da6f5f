SPECIFICATION Spec
CONSTANTS
  TeamSize = 2
  Sources <- AdjacentRegions
INVARIANTS
  RegionsPaired
CHECK_DEADLOCK FALSE
