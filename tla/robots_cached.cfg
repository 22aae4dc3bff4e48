SPECIFICATION EvidenceSpec
CONSTANTS
  Selections <- TwoPagesOfAHost
  Allowed <- FirstPageOnly
  ShardSize = 2
  CacheEntries = 1
  Concurrency = 1
  Publishers = {p}
INVARIANTS OnlyAllowedAdmitted
CHECK_DEADLOCK FALSE
