SPECIFICATION AlertSpec
CONSTANTS
  None0 = None0
  NoCampaign0 = NoCampaign0
  api = api
  None <- None0
  NoCampaign <- NoCampaign0
  NoAddress <- NoAddresses
  Incidents <- Growing
  Attachers <- TwoThreads
  IdleTimeout = 1
  MaxTime = 0
  MaxArrivals = 2
  MaxMishaps = 0
  Faults <- Nothing
  Threshold = 2
  High = 2
  PatchInterval = 1
  MaxRetries = 2
  MaxTroubles = 0
  Sweeping = TRUE
INVARIANT OneMessagePerCampaign
CHECK_DEADLOCK FALSE
