SPECIFICATION PackEvidenceSpec
CONSTANTS
  Hosts <- TwoHosts
  Workers = {p, q}
  Attempts = {a1, a2, a3}
  NoAttempt = NoAttempt
  MinHostInterval = 1
  RequestTimeout = 1
  MaxRetryAfter = 1
  ControlGrace = 1
  GlobalConcurrency = 1
  ExpiresAt = 4
  PruneBatch = 1
  RetryAfters = {0, 1}
  Slack = 1
  MaxNet = 2
  LastGateTime = 3
  MaxGeneration = 2
CONSTANTS
  Selections <- ThreeSelections
  Allowed <- FirstPageOnly
  ShardSize = 2
  CacheEntries = 1
  Concurrency = 2
  Publishers = {p, q}
CONSTANTS
  Feeds <- TwoFeeds
  PackParent <- OnTheFirst
  LastValidDay <- FirstDayOnly
  Operators = {p, q}
  Outputs = {"x"}
  LastOpenDay = 1
CONSTANTS
  Streams <- ThreeStreams
  ExclusionLists <- TwoLists
  PerHost = 1
  MaxSelected = 2
  Skew = 1
  MinValidity = 0
  MaxAge = 3
  Lifetime = 3
  LastQuarter = 2
  Bundles = {1, 2}
SYMMETRY Interchangeable
INVARIANTS
  GateTypeOK CountExact RequestsBounded EvidenceExact
  ChannelTypeOK ChannelSound BundlesSound
PROPERTIES PacedGrants
CHECK_DEADLOCK FALSE
