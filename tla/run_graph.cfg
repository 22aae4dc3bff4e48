SPECIFICATION RunSpec
CONSTANTS
  Pages = {1, 2, 3}
  Sources = {1, 2}
  Jobs <- JobNames
  Authorities <- HostNames
  Crawler = w1
  Workers = {w1}
  PageJob <- PagesJob
  PageAuth <- PagesHost
  SourceJob <- SourcesJob
  SourceAuth <- SourcesHost
  SourceRoot <- UnderFirst
  MaxEntries = 2
  MaxSources = 2
  MaxMemberships = 1
  MaxSourceEdges = 1
  MaxLinkEdges = 1
  MaxPagesPerSource = 1
  MaxChildrenPerSource = 1
  MaxLinksPerPage = 1
  MaxSourceDepth = 1
  LeaseTTL = 1
  Delays <- Waits
  Intervals = {1}
  PruneLimits = {}
  MaxTime = 8
  MaxSeq = 3
  JobOrder <- OneJob
  Configs <- AllConfigs
  HostInterval <- OneInterval
  MaxSourcePollsPerRun = 2
  MaxURLsPerRun = 2
  MaxPagesPerRun = 1
  Horizon = 1
INVARIANT LeasesGivenBack
ACTION_CONSTRAINT StaysOfItsKind
