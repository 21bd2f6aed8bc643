SPECIFICATION FairSpec
CONSTANTS
  None0 = None0
  NoCampaign0 = NoCampaign0
  api = api
  db = db
  addr = addr
  nobody = nobody
  e1 = e1
  e2 = e2
  e3 = e3
  recon = recon
  access = access
  None <- None0
  NoCampaign <- NoCampaign0
  NoAddress <- NoAddresses
  Incidents <- ApiTwice
  Attachers <- NoThreads
  IdleTimeout = 1
  MaxTime = 2
  MaxArrivals = 3
  MaxMishaps = 1
  Faults <- Everything
INVARIANTS TypeOK OneActiveRowPerActor RowIsMergeOfItsIncidents CacheNotBehind LinkedIsListed
PROPERTY RowsOnlyGrow IdleIsSwept
CHECK_DEADLOCK FALSE
