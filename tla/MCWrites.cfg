SPECIFICATION Spec
CONSTANTS
  w1 = w1
  w2 = w2
  Ops = {w1, w2}
  MaxRegistrations = 1
  Modes <- MCModes
  Window = 2
  NodeWindow = 2
  Lease = 1
  History = 4
  MaxTime = 1
INVARIANTS
  InterruptedKept
  ReportedIsUsed
PROPERTIES
  KeepsPromise
  NeverReportsLaterWrite
SYMMETRY Symmetry
CHECK_DEADLOCK FALSE
