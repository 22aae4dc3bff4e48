SPECIFICATION TufSpec
CONSTANTS
  Packs = {1, 2}
  DeltaOf <- SecondOnFirst
  OnlineKeys = {"k"}
  Copies = {1}
  MaxVersion = 2
  MaxRoots = 2
  MaxStaged = 3
  Consumers = {}
INVARIANT ExactRetryPossible
CHECK_DEADLOCK FALSE
