SPECIFICATION AgentsSpec
CONSTANTS
  Request = {ask, quick, badAsk, triage, badTriage, torn}
  AskRequest = {ask, quick, badAsk}
  TriageRequest = {triage, badTriage, torn}
  Invalid = {badAsk, badTriage}
  ScopeOnly = {quick}
  NoSync = {}
  BadEvidence = {torn}
  MaxArrivals = 1
  MaxFaults = 4
  TicketRequest <- MCTicketRequest
  Slice <- MCSlice
  Release <- MCRelease
  MAX_REVISIT_COUNT = 2
  MaxEvents = 2
  MaxRevisits = 10
  Project = {p1, p2}
  MaxTicks = 1
  MaxToggles = 1
  Worker = {w1, w2}
  MaxMishaps = 1
  ask = ask
  quick = quick
  badAsk = badAsk
  triage = triage
  badTriage = badTriage
  torn = torn
  p1 = p1
  p2 = p2
  w1 = w1
  w2 = w2
INVARIANT TypeOK
INVARIANT OneVerdict
INVARIANT CompletedIsDelivered
INVARIANT StagesInOrder
INVARIANT FilesLiveAsTheWork
INVARIANT NothingOwedIsLost
INVARIANT ShipItRevisitBudget
PROPERTY EventuallySettled
PROPERTY LoopsEnd
CHECK_DEADLOCK FALSE
