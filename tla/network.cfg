SPECIFICATION NetworkSpec
CONSTANTS
  Clients = {"arxiv", "crossref", "github", "mwmbl", "pubmed", "scrapling",
             "stackexchange", "wiby", "wikipedia", "yacy_local", "yacy_global"}
  Configured <- TwoAtOnce
  Searches = {p, q}
  Queries = {1, 2, 3}
  RepeatDelay = 2
  RecentCap = 2
  Patience = 1
  LastTick = 2
CONSTANTS
  Documents <- ThreeRegistries
  Signers <- AskersAB
  Handlers = {p, q}
  PeerSlots = 2
  SearchSlots = 2
  ReplayCap = 2
  ReplayTTL = 5
  SignedSkew = 1
  MaxDrift = 1
  MaxStall = 0
  MaxDisturbed = 1
  MaxAsks = 1
  LastSignedAt = 5
CONSTANTS
  Fetchers = {p, q}
  HostOf <- ThreeHosts
  Wanted <- Scopes
  Policies <- RobotsFiles
  GlobalLimit = 2
  PerHost = 1
  MaxGates = 2
  MaxHops = 1
  Retries = 1
  BodyLimit = 1
  MaxTotal = 2
  BodySizes = {1, 2}
CONSTANTS
  Servers = {p, q}
  Burst = 2
  Token = 2
  Refill = 1
  LeastTTL = 1
  LastSecond = 5
  MaxLosses = 1
CONSTANTS
  Modes <- StoresOfMode
  OpenPacks <- TwoPacks
  Callers = {p, q}
SYMMETRY Interchangeable
INVARIANTS
  NetworkTypeOK ClientsHonest PeersTrustworthy FetchesBehave
  LimitKept RunSound
CHECK_DEADLOCK FALSE
