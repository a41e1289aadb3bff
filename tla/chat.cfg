SPECIFICATION FairSpec
CONSTANTS
  Senders = {s1, s2}
  Workers = {w}
  Users = {u}
  NoOne = NoOne
  ClaimLimit = 1
  MaximumAttempts = 2
  PageSize = 1
  MaxPages = 1
  MaxMessages = 2
  MaxTroubles = 1
PROPERTIES
  Repaired
  KeepsLog
CHECK_DEADLOCK FALSE
