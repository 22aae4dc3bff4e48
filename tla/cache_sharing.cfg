SPECIFICATION SharingSpec
CONSTANTS
  Keys = {k1, k2}
  shared = k1
  curious = c1
  Callers = {c1, c2}
  Flights = {f1, f2}
  None = None
  FreshTTL = 1
  StaleTTL = 1
  MaxEntries = 1
  MaxBytes = 2
  MaxEntryBytes = 2
  MaxInflight = 1
  Sizes = {2}
  MaxTime = 2
INVARIANTS OthersUndisturbed RegisteredWhileWanted
PROPERTIES EveryoneServed
