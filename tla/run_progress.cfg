SPECIFICATION FairRuns
CONSTANTS
  Pages <- Two
  Sources <- One
  Jobs = {"a", "b"}
  Authorities = {"h"}
  Crawler = w1
  Workers = {w1}
  PageJob <- PagesTwoJobs
  PageAuth <- PagesOneHost
  SourceJob <- SourcesOneJob
  SourceAuth <- SourcesOneHost
  SourceRoot <- UnderFirst
  MaxEntries = 2
  MaxSources = 1
  MaxMemberships = 1
  MaxSourceEdges = 1
  MaxLinkEdges = 0
  MaxPagesPerSource = 1
  MaxChildrenPerSource = 1
  MaxLinksPerPage = 0
  MaxSourceDepth = 1
  LeaseTTL = 2
  Delays = {0, 1}
  Intervals = {1, 2}
  PruneLimits = {}
  MaxTime = 6
  MaxSeq = 3
  JobOrder <- TwoJobs
  Configs <- ProgressConfigs
  HostInterval <- LongerForB
  MaxSourcePollsPerRun = 2
  MaxURLsPerRun = 1
  MaxPagesPerRun = 1
  Horizon = 1
INVARIANTS RunTypeOK WorksOnItsLease
PROPERTIES RunsEnd PoliteDispatch
