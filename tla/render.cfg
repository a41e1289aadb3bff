SPECIFICATION FairSpec
CONSTANTS
  Nodes = {n1, n2}
  NoNode = NoNode
  Kinds = {"list"}
  Old = {1}
  RecoveryLimit = 2
  MaxQueues = 2
  MaxOps = 6
  MaxTroubles = 2
INVARIANTS
  OutputsAgree
  AcceptedStaysQueued
PROPERTIES
  StoredIsFrozen
  KeepsRenders
  RecoveriesEnd
CHECK_DEADLOCK FALSE
