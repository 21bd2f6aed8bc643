SPECIFICATION AlertSpec
CONSTANTS
  None0 = None0
  NoCampaign0 = NoCampaign0
  api = api
  None <- None0
  NoCampaign <- NoCampaign0
  NoAddress <- NoAddresses
  Incidents <- Growing
  Attachers <- ThreeThreads
  IdleTimeout = 1
  MaxTime = 0
  MaxArrivals = 3
  MaxMishaps = 0
  Faults <- Nothing
  Threshold = 2
  High = 2
  PatchInterval = 1
  MaxRetries = 2
  MaxTroubles = 0
  Sweeping = TRUE
PROPERTY SeverityIsMonotonic
CHECK_DEADLOCK FALSE
