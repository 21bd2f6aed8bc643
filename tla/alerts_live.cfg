SPECIFICATION AlertFairSpec
CONSTANTS
  None0 = None0
  NoCampaign0 = NoCampaign0
  api = api
  None <- None0
  NoCampaign <- NoCampaign0
  NoAddress <- NoAddresses
  Incidents <- Crossing
  Attachers <- ThreeThreads
  IdleTimeout = 0
  MaxTime = 1
  MaxArrivals = 3
  MaxMishaps = 0
  Faults <- Nothing
  Threshold = 2
  High = 2
  PatchInterval = 1
  MaxRetries = 2
  MaxTroubles = 1
  Sweeping = FALSE
PROPERTY HighCampaignIsAnnounced
CHECK_DEADLOCK FALSE
