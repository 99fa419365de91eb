SPECIFICATION SparseSpec
CONSTANTS
  Msg = {m1, m2}
  Inv = {i1, i2}
  Signed = {}
  Malformed = {}
  LambdaTimeout = 2
  ClaimWindow = 3
  Visibility = 4
  Skew = 1
  MaxReceive = 2
  BatchSize = 2
  MaxTime = 5
  MaxStoreFaults = 1
  MaxCrashes = 1
  MaxDuplicates = 1
  MaxMishaps = 2
  i1 = i1
  i2 = i2
  m1 = m1
  m2 = m2
SYMMETRY Symmetry
INVARIANT TypeOK
INVARIANT AckedWasHandled
INVARIANT SucceedsOnceWithoutFaults
INVARIANT AtMostOneLiveHandler
INVARIANT RedeliveryIsNotBlocked
INVARIANT ClaimIdentity
INVARIANT WorkRecorded
PROPERTY CompletedIsFinal
PROPERTY RunningClaimIsOnlyReclaimed
CHECK_DEADLOCK FALSE
