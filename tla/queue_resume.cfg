\* content-resave: resumable, under the worker lock, two processes.
CONSTANTS
    Nodes = {n1, n2}
    Clients = {c1, c2}
    Inputs = {i1, i2}
    NoNode = none
    NoInput = none
    Resume = TRUE
    SourceLocked = TRUE
    MaxQueues = 2
    MaxOps = 3
    MaxCrashes = 1
    MaxFaults = 0
SPECIFICATION FairSpec
INVARIANTS OneDrainPerJob NoDuplicateWaiting CrashNeverDropsJob
PROPERTIES KeepsLedger CancelSurvivesRestart EveryJobLeaves
