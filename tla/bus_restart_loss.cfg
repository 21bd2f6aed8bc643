SPECIFICATION FairSpec
CONSTANTS
  w0 = w0
  w1 = w1
  Workers <- TwoWorkers
  StableNames <- OnlyOther
  BatchSize = 2
  ReclaimLimit = 2
  MaxLen = 3
  MaxEvents = 2
  MaxBoots = 2
  RedisFaults = FALSE
PROPERTY RestartLosesNothing
CHECK_DEADLOCK FALSE
