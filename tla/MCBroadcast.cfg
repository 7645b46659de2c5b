SPECIFICATION Spec
CONSTANTS
  w1 = w1
  w2 = w2
  Ops = {w1, w2}
  Retries = 1
  MaxRegistrations = 2
  TimelyModes = {TRUE}
  Window = 1
  NodeWindow = 1
  Lease = 2
  History = 4
  MaxTime = 2
  MaxHandouts = 2
INVARIANT
  OneInFlight
PROPERTIES
  KeepsPromise
SYMMETRY Symmetry
CHECK_DEADLOCK FALSE
