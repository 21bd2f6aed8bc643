CONSTANTS
  NoBaseline = NoBaseline
  Raters = {"r1", "r2"}
  Rated = {"s1", "s2"}
  Points = {3}
  DecayRate = 2
  QuietRounds = 1
  MaxRated = 2
  Nodes = {"a", "b", "c"}
  Deployed = {"b"}
  StaticEdges <- MCStaticEdges
  Traffic <- MCTraffic
  EdgeTtl = 1
  MaxTopoClock = 3
  MaxOutages = 1
  MaxDrifts = 1
  Users = {"root", "ann"}
  Workers = {"w1", "w2"}
  AccRoles = {"readonly"}
  FirstUser = "root"
  MaxFailures = 2
  LockFor = 1
  AccessTtl = 1
  RefreshTtl = 2
  MaxBlocked = 1
  MaxSessions = 2
  RequestTime = 1
  MaxRows = 3
  MaxAccClock = 3
  Names = {"n"}
  Threads = {"t1", "t2", "t3"}
  LockAfter = 2
  MaxTries = 4
  Callers = {"c1", "c2"}
  Requested = {"b", "all"}
  Guesses = 1
  Probes = 1
  Payloads = 1
  Hops = 1
  QuietTime = 2
  MaxRuns = 3
  MaxConsoleClock = 2
  Incidents = {1, 2, 3, 4, 5, 6}
  MaxMisfortunes = 1
  Old = {1, 2}
  Simulated = {6}
  ActorOf <- MCActorOf
  EngineActorOf <- MCActorOf
  FirstAt <- MCFirstAt
  Null = Null
  IdleTime = 1
  MaxScripts = 2
  Captures <- MCCaptures
  Broken = Broken
  ScanPorts = 2
  TunnelSpan = 2
  TunnelSum = 8
  MaxJobs = 2
  Analysts = {"a1", "a2"}
  Decisions <- MCDecisions
  NoNote = ""
  NoDecision = NoDecision
  Savers = {"r1", "r2"}
  Settings = {"s1", "s2"}
  Bodies <- MCBodies
  DefaultValue = 0
  Torn = Torn
  NoFile = NoFile
  Feeds <- MCFeeds
  StaticFile = {"i0"}
  NotPulling = NotPulling
  EngineFinds = {1}
  ConsoleFires = {2}
  Page = 1
  ScreenSize = 2
  Fetchers = {"f1", "f2"}
SPECIFICATION Services
CHECK_DEADLOCK FALSE
INVARIANTS
  NoPointsFromNothing GraphIsClean BaselineDoesNotCreep AccessCatchesUp LocksAreHonest
  EachIsCountedOnce CapturesAreRead DecisionsAreShown SettingsAreKept IndicatorsStay
PROPERTIES ScoresFade RotationIsFinal OneSimulation ConsoleReopens MissedPushesAreCaught
