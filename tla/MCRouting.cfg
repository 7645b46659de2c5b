SPECIFICATION RouteSpec
CONSTANTS
  i1 = i1
  i2 = i2
  i3 = i3
  q1 = q1
  q2 = q2
  Indexers = {i1, i2, i3}
  Listings <- MCListings
  Ttl = 2
  Queries = {q1, q2}
  Overrides = {TRUE, FALSE}
  MaxTime = 2
INVARIANTS
  CachedListIsYoung
  GivesUpAfterAll
CHECK_DEADLOCK FALSE
