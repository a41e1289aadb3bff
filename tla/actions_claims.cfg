\* A producer's identity with two successive one-shot actions, two processes, an expiring claim.
CONSTANTS
    Nodes = {n1, n2}
    Actions = {a, b}
    Recurring = {}
    Unique = {a, b}
    Gone = Gone
    Total = 2
    MaxLapses = 1
    MaxCrashes = 1
    MaxFaults = 1
SPECIFICATION Spec
INVARIANTS OneProcessPerClaim RetryBudget OneActivePerIdentity
SYMMETRY Symmetry
CHECK_DEADLOCK FALSE
