\* Two requests at a time, four in all, one of which meets a trouble.
SPECIFICATION Spec
CONSTANTS
    e = e
    f = f
    Calls = {a, b}
    Asks <- MCAsks
    Nobody = nobody
    MaxCalls = 4
    MaxTroubles = 1
SYMMETRY Symmetry
CHECK_DEADLOCK FALSE
PROPERTIES RevisionsChain RefusedIsOthers KeepsLine
