CONSTANTS
  Services = {"s"}
  Events <- MCEvents
  WindowTime = 1
  KeptHistory = 3
  FewSamples = 2
  MaxTime = 4
  MaxEvents = 2
INIT FingerInit
NEXT FingerNext
CHECK_DEADLOCK FALSE
INVARIANT AnomaliesAreReported
