SPECIFICATION Spec
CONSTANTS
  TeamSize = 2
  Sources <- NestedGuards
INVARIANTS
  GuardsAlternate
CHECK_DEADLOCK FALSE
