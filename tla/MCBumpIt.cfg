SPECIFICATION FairSpec
CONSTANTS
  Project = {p1}
  Alert = {a1}
  REVISIT_CAP = 2
  Worker = {w1, w2}
  MaxFaults = 1
  MaxTicks = 2
  MaxToggles = 1
  MaxRevisits = 10
  p1 = p1
  a1 = a1
  w1 = w1
  w2 = w2
INVARIANT TypeOK
INVARIANT FollowUpsAreNotLost
INVARIANT RevisitBudget
PROPERTY LoopEnds
PROPERTY FollowsSelfPublish
CHECK_DEADLOCK FALSE
