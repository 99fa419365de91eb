SPECIFICATION PromptSpec
CONSTANTS
  Msg = {s1}
  Inv = {i1, i2}
  Signed = {s1}
  Malformed = {}
  LambdaTimeout = 2
  ClaimWindow = 3
  Visibility = 4
  Skew = 1
  MaxReceive = 2
  BatchSize = 2
  MaxTime = 20
  MaxStoreFaults = 0
  MaxCrashes = 0
  MaxDuplicates = 0
  MaxMishaps = 0
  i1 = i1
  i2 = i2
  s1 = s1
SYMMETRY Symmetry
PROPERTY ExpiredIsRetried
CHECK_DEADLOCK FALSE
