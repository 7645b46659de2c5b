SPECIFICATION Spec
CONSTANTS
  i1 = i1
  i2 = i2
  Indexers = {i1, i2}
  Listings <- MCListings
  Ttl = 1
  Sources = {"validator"}
  Limits <- MCLimits
  Shared = TRUE
  DoubleRange = 3
  MaxTime = 1
  MaxQueue = 1
INVARIANT UnsubscribeEnds
CHECK_DEADLOCK FALSE
