CONSTANTS
  Clients = {w1, w2, c}
  Workers = {w1, w2}
  Writers = {c}
  MaxUsers = 2
  Jobs = {j1, j2}
  Objects = {o1}
  j1 = j1
  j2 = j2
  o1 = o1
  w1 = w1
  w2 = w2
  None = None
  Old <- OneEach
  Loads <- SmallLoads
  MaxRetries = 1
  MaxWrites = 1
SPECIFICATION FairSpec
INVARIANTS
  FenceExcludes UnpinnedIsJournaled RetainedStays
PROPERTIES
  BatchRechecked ProgressKept CleanupEnds
