SPECIFICATION PromptFairSpec
CONSTANTS
  Msg = {s1, bad}
  Inv = {i1, i2}
  Signed = {s1}
  Malformed = {bad}
  LambdaTimeout = 2
  ClaimWindow = 3
  Visibility = 4
  Skew = 1
  MaxReceive = 2
  BatchSize = 2
  MaxTime = 20
  MaxStoreFaults = 1
  MaxCrashes = 1
  MaxDuplicates = 1
  MaxMishaps = 3
  bad = bad
  i1 = i1
  i2 = i2
  s1 = s1
PROPERTY ContractSpec
PROPERTY EventuallySettled
CHECK_DEADLOCK FALSE
