SPECIFICATION AlertSpec
CONSTANTS
  None0 = None0
  NoCampaign0 = NoCampaign0
  api = api
  None <- None0
  NoCampaign <- NoCampaign0
  NoAddress <- NoAddresses
  Incidents <- Mixed
  Attachers <- TwoThreads
  IdleTimeout = 0
  MaxTime = 1
  MaxArrivals = 2
  MaxMishaps = 1
  Faults <- CrashesAndCache
  Threshold = 2
  High = 2
  PatchInterval = 1
  MaxRetries = 2
  MaxTroubles = 1
  Sweeping = TRUE
INVARIANTS AlertTypeOK RowMessageIsOwn AlertsPassTheGate
CHECK_DEADLOCK FALSE
