SPECIFICATION PromptSpec
CONSTANTS
  Msg = {m1, m2}
  Inv = {i1, i2}
  Signed = {}
  Malformed = {}
  LambdaTimeout = 2
  ClaimWindow = 3
  Visibility = 4
  Skew = 1
  MaxReceive = 2
  BatchSize = 2
  MaxTime = 20
  MaxStoreFaults = 2
  MaxCrashes = 0
  MaxDuplicates = 0
  MaxMishaps = 2
  i1 = i1
  i2 = i2
  m1 = m1
  m2 = m2
SYMMETRY Symmetry
PROPERTY UnmarkedIsNotRerun
CHECK_DEADLOCK FALSE
