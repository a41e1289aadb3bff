\* The same rows with fairness and a crash.
CONSTANTS
    Nodes = {n1, n2}
    Actions = {a, r}
    Recurring = {r}
    Unique = {}
    Gone = Gone
    Total = 1
    MaxLapses = 0
    MaxCrashes = 1
    MaxFaults = 1
SPECIFICATION FairSpec
PROPERTIES DueExecutes
CHECK_DEADLOCK FALSE
