SPECIFICATION FairSpec
CONSTANTS
  w0 = w0
  w1 = w1
  Workers <- TwoWorkers
  StableNames <- OnlyOther
  BatchSize = 2
  ReclaimLimit = 1
  MaxLen = 2
  MaxEvents = 3
  MaxBoots = 2
  RedisFaults = FALSE
PROPERTIES StableNamesRecover QueuedIsTaken
CHECK_DEADLOCK FALSE
