SPECIFICATION Spec
CONSTANTS
  i1 = i1
  i2 = i2
  Indexers = {i1, i2}
  Listings <- MCListings
  Ttl = 1
  Sources = {"validator", "indexer"}
  Limits <- MCLimits
  Shared = TRUE
  DoubleRange = 3
  MaxTime = 1
  MaxQueue = 1
INVARIANTS
  SocketsClosed
  GivesUpAtLimit
PROPERTIES
  EndIsTold
  RetriesEnd
CHECK_DEADLOCK FALSE
