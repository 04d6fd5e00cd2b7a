\* two arrays of ints, so that a write of pop_front leaves the block and its slack
SPECIFICATION Spec
CONSTANTS
  Arrays = {a, b}
  Values = {x}
  None = none
  TypeSize = 4
  DefaultBytes = 16
  NextPower <- Powers
  MaxSize = 4
  Width = 4
CONSTRAINT OneIsSmall
SYMMETRY ArraysAreAlike
INVARIANTS TypeOK CapacityIsBacked
PROPERTIES AddsMatch RemovesMatch MovesMatch FaultsAreNarrow
CHECK_DEADLOCK FALSE
