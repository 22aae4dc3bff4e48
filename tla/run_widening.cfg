SPECIFICATION RunSpec
CONSTANTS
  Pages <- One
  Sources <- Two
  Jobs = {"a"}
  Authorities = {"h"}
  Crawler = w1
  Workers = {w1}
  PageJob <- PagesOneJob
  PageAuth <- PagesOneHost
  SourceJob <- SourcesOneJob
  SourceAuth <- SourcesOneHost
  SourceRoot <- UnderFirst
  MaxEntries = 1
  MaxSources = 2
  MaxMemberships = 1
  MaxSourceEdges = 1
  MaxLinkEdges = 0
  MaxPagesPerSource = 1
  MaxChildrenPerSource = 1
  MaxLinksPerPage = 0
  MaxSourceDepth = 1
  LeaseTTL = 2
  Delays = {0, 1}
  Intervals = {1}
  PruneLimits = {}
  MaxTime = 8
  MaxSeq = 3
  JobOrder <- OneJob
  Configs <- ScopeConfigs
  HostInterval <- OneInterval
  MaxSourcePollsPerRun = 2
  MaxURLsPerRun = 1
  MaxPagesPerRun = 1
  Horizon = 2
INVARIANTS OwnedPagesAreActive
