SPECIFICATION Spec
CONSTANTS
  Project = {p1}
  Alert = {a1}
  REVISIT_CAP = 2
  Worker = {w1, w2}
  MaxFaults = 0
  MaxTicks = 1
  MaxToggles = 0
  MaxRevisits = 7
  p1 = p1
  a1 = a1
  w1 = w1
  w2 = w2
INVARIANT CapIsRevisitsPerPr
CHECK_DEADLOCK FALSE
