\* A token invoice, then a native one of the same address; one failure.
CONSTANTS
    Nodes = {n1, n2}
    None = None
    Jobs = {1, 2}
    Tokens = {1}
    Amount <- MixedAmounts
    Low = 6
    Refill <- MixedRefill
    Float = {0, 5}
    Fees = {1, 2, 15}
    MaxReprices = 1
    MaxFaults = 1
SPECIFICATION FairSpec
INVARIANTS OwnReceipts ReceiptsKept OneUnconfirmed DoneIsPaid
PROPERTIES EveryJobCloses
