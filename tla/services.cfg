SPECIFICATION ServicesSpec
CONSTANTS
  Keys = {k1, k2, k3}
  Callers = {c1}
  Flights = {f1, f2}
  None = None
  FreshTTL = 1
  StaleTTL = 1
  MaxEntries = 2
  MaxBytes = 3
  MaxEntryBytes = 2
  MaxInflight = 2
  Sizes = {1, 2}
  MaxTime = 2
CONSTANTS
  Nodes = {"m", "n"}
  Fetches <- ThreeFetches
  ArtifactSlots = 1
  SourceLimit = 1
  MaxSource = 1
  Unlocked = Unlocked
CONSTANTS
  InstanceCount = 2
  Askers = {s}
  Cooldown = 1
  MaxBackoff = 2
  MaxRetryAfter = 2
  MaxPages = 2
  LastSecond = 3
CONSTANTS
  main = main
  other = other
  Requests <- FourRequests
  PrimaryProvider = main
  PrimaryFirst = TRUE
  LaneConcurrency = 2
  Answers <- FourAnswers
  CanonicalOf <- OneRepeated
  RelevantUrls = {1, 2}
  HostOf <- HostOfUrl
  IncludeDomains = {}
  ExcludeDomains <- ComHosts
  Documenting = {other}
  TextOf <- TextOfUrl
  NearDuplicates <- XLikeY
  ScoreOf <- ScoreOfUrl
  TextSize <- UnitText
  NoText = "nothing"
  CandidateCap = 4
  RequiredResults = 2
  MaxResults = 2
  MaxOutput = 3
SYMMETRY Interchangeable
INVARIANTS
  ServicesTypeOK CacheAccounted FetchAccounts PoolHonest AnswersTrue
CHECK_DEADLOCK FALSE
