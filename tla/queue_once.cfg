\* Every other producer: interrupted jobs are closed, one process.
CONSTANTS
    Nodes = {n1}
    Clients = {c1, c2}
    Inputs = {i1, i2}
    NoNode = none
    NoInput = none
    Resume = FALSE
    SourceLocked = FALSE
    MaxQueues = 2
    MaxOps = 4
    MaxCrashes = 1
    MaxFaults = 1
SPECIFICATION Spec
SYMMETRY Symmetry
INVARIANTS AtMostOnce
