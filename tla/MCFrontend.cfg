SPECIFICATION Spec
CONSTANTS
  TeamSize = 2
  Sources <- MCSources
INVARIANTS
  ConstantsSound
  AccessesKept
  AddressesPreserved
  RegionsPaired
  GuardedByThread
  NoRaceExcluded
  CallsKnown
  PointsToSound
  MembersApart
  FieldsExact
PROPERTIES
  PropagationShrinks
CHECK_DEADLOCK FALSE
