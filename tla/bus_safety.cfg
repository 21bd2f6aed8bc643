SPECIFICATION Spec
CONSTANTS
  w0 = w0
  w1 = w1
  Workers <- TwoWorkers
  StableNames <- OnlyOther
  BatchSize = 2
  ReclaimLimit = 2
  MaxLen = 2
  MaxEvents = 3
  MaxBoots = 2
  RedisFaults = TRUE
INVARIANTS TypeOK SettledWasProcessed OneWorkerPerEntry RedeliveryNeedsRestart
PROPERTY DeliveryContract
CHECK_DEADLOCK FALSE
