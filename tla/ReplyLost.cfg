SPECIFICATION Spec
CONSTANTS
  Request = {ask, quick, badAsk, triage, badTriage, torn}
  AskRequest = {ask, quick, badAsk}
  TriageRequest = {triage, badTriage, torn}
  Invalid = {badAsk, badTriage}
  ScopeOnly = {quick}
  NoSync = {}
  BadEvidence = {torn}
  MaxArrivals = 1
  MaxFaults = 1
  ask = ask
  quick = quick
  badAsk = badAsk
  triage = triage
  badTriage = badTriage
  torn = torn
INVARIANT ReplyAtLeastOnce
CHECK_DEADLOCK FALSE
