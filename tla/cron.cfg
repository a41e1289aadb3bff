\* A chain of three modules, and a chain in a module that also runs scheduled actions.
CONSTANTS
    r = r
    n = n
    k = k
    d = d
    A = A
    B = B
    C = C
    ActionIds = {r, n, k, d}
    Modules = {A, B, C}
    None = None
    Setups <- BothSetups
    MaxLinks = 2
    MaxCallFaults = 1
SPECIFICATION QueuesFairSpec
INVARIANTS HeldExact ApartKeepsRoot
PROPERTIES QueuedExecutes
