SPECIFICATION Spec
CONSTANTS
  Lags = {0, 2, 4}
  MaxHeight = 6
INVARIANTS
  ReturnedIsCurrent
  RefusedOnlyWhenStale
PROPERTIES
  ReadEnds
CHECK_DEADLOCK FALSE
