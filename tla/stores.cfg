SPECIFICATION StoresSpec
CONSTANTS
  Urls = {"u1", "u2"}
  Contents = {"x", "y"}
  Offers <- TwoUrls
  BodySize = 2
  MaxBytes = 7
  MaxEntries = 1
  MaxVersions = 2
  MaxVersionsPerURL = 2
  LastDay = 1
CONSTANTS
  Sources = {"a"}
  Revisions = {1, 2}
  Parent <- SecondOnFirst
  Operators = {"p", "q"}
  Files = {"f", "g"}
CONSTANTS
  Packs = {1, 2}
  DeltaOf <- SecondOnFirst
  OnlineKeys = {"k", "l"}
  Copies = {1}
  MaxVersion = 2
  MaxRoots = 2
  MaxStaged = 3
  Consumers = {"c"}
CONSTANTS
  PackURLs = {"u", "v", "w"}
  Texts = {"x", "y"}
  Manifests = {"s1", "d2", "e2", "f2"}
  Rows <- RowsOf
  DeltaParent <- OnS1
  Valid <- DaysOf
  TombstoneRow = TombstoneRow
  NoPack = NoPack
  Installers = {"i", "j"}
  LastPackDay = 2
  MaxRecords = 2
CONSTANTS
  Requests = {r1, r2}
  Editions = {x, y}
  MaxAge = 1
  LastTick = 1
CONSTANTS
  LegacyKeys = {"k1", "k2"}
  SignerKeys = {"k3", "k4", "k5", "k6"}
  SignerOf <- Custodians
  Expiries = {2}
  Horizon = 1
  MaxRootRotations = 2
  IdentityPaths = {"x", "y"}
  Hands = {"p", "q"}
  MaxCandidates = 2
  LastDate = 2
SYMMETRY Interchangeable
INVARIANTS
  StoresTypeOK CeremonySound HeadServesEveryone ObjectsAreExact HiddenStaysHidden
PROPERTIES StoreSound RegistrySound
CHECK_DEADLOCK FALSE
