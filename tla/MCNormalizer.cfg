SPECIFICATION FairSpec
CONSTANTS
  p1 = p1
  p2 = p2
  bad = bad
  Container = {c1, c2}
  Project = {p1, p2}
  Garbled = {bad}
  Bundles <- MCBundles
  First = {}
  MaxPublishes = 3
  Delivery = {d1}
  ProjectOf <- MCProjectOf
  MaxAttempts = 2
  MaxSent = 2
  c1 = c1
  c2 = c2
  d1 = d1
INVARIANT TypeOK
INVARIANT ClaimsAreTrue
INVARIANT SentOnceByOneContainer
PROPERTY SnapshotNeverGoesBack
PROPERTY CatchesUp
CHECK_DEADLOCK FALSE
