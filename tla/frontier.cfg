SPECIFICATION GraphSpec
CONSTANTS
  Pages <- Three
  Sources <- Three
  Jobs = {"a"}
  Authorities = {"h"}
  Workers = {w1, w2}
  Loner = w1
  PageJob <- JobOfThree
  PageAuth <- HostOfThree
  SourceJob <- JobOfThree
  SourceAuth <- HostOfThree
  SourceRoot <- UnderFirst
  MaxEntries = 3
  MaxSources = 3
  MaxMemberships = 2
  MaxSourceEdges = 3
  MaxLinkEdges = 2
  MaxPagesPerSource = 1
  MaxChildrenPerSource = 2
  MaxLinksPerPage = 2
  MaxSourceDepth = 2
  LeaseTTL = 1
  Delays = {0, 1}
  Intervals = {1}
  PruneLimits = {1}
  MaxTime = 2
  MaxSeq = 3
INVARIANTS TypeOK HoldersDistinct AllReopen ScheduleFollowsOwnership
PROPERTIES LedgerRefined OwnedStaysActive
