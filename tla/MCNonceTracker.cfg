SPECIFICATION Spec
CONSTANTS
  Window = 2
  Lease = 1
  History = 1
  Rpc = TRUE
  MaxBase = 2
  MaxTime = 1
  MaxHandouts = 3
INVARIANTS
  IInv
  LeaseExclusive
PROPERTIES
  DropsOnlyOnFirstTrust
  UsedStaysUsed
  UsedNeverHandedOut
CHECK_DEADLOCK FALSE
