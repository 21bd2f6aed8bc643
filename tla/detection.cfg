CONSTANTS
  Absent = Absent
  Unknown = "unknown"
  Unavailable = Unavailable
  ManyFailures = 2
  ManyTargets = 2
  ManyAddresses = 2
  w1 = w1
  w2 = w2
  Workers = {w1, w2}
  Ticks <- MCTicks
  Arrivals <- MCArrivals
  Keys = {"k1", "k2", "k3", "k4", "unknown"}
  Graphs <- MCGraphs
  Scores = {0}
  YamlRules <- MCYamlRules
  Missing = Missing
  ChainIds = {1, 2}
  Chains <- MCChains
  Writings = {"x"}
  AlertTypes = {"t1", "t2"}
  RateLimit = 2
  PollTime = 1
  PostTries = 2
  MaxAlertClock = 2
  MaxRecent = 2
  MaxLate = 1
  Requests = {"clear", "reset"}
  MaxClock = 3
  MaxEvents = 3
  MaxRequests = 1
  NoAddresses = {Blank, "none"}
  Addresses = {"ip"}
  MaxNow = 4
  MaxHeard = 5
  Usernames = {"u1", "u2", "u3"}
  ManyGuesses = 2
  GuessSpan = 1
  GuessRest = 1
  ManyUsers = 2
  StuffingRest = 1
  RiskyFailures = 1
  ManyLockouts = 2
  LockoutSpan = 2
  ApiRequests <- MCRequests
  Sensitive = {"/admin"}
  ManyRequests = 1
  ManyEndpoints = 1
  RateSpan = 1
  Ports = {1, 2, 3}
  ManyPorts = 2
  ScanSpan = 1
  ScanRest = 2
  TrafficSpan = 1
  LearnSpan = 1
  KeptWindows = 3
  FewWindows = 3
  FewPackets = 0
  ManyQueries = 2
  QuerySpan = 3
  Batches <- MCBatches
  Messages = {"event", "word", "list", "garbage"}
  MaxPublished = 4
  Take = 2
  MaxEntries = 3
  Unsaid = Unsaid
  Tolerance = 30
  Blank = Blank
INIT MCInit
NEXT MCNext
CHECK_DEADLOCK FALSE
INVARIANTS
  BurstsAreReported EventsComeIn FiringsBounded AttacksAreReported SeverityHolds
  InputsAreJudgedRightly
PROPERTY WritingsStay
