\* Two invoices of one token, both planned while the service is low; one fault.
CONSTANTS
    Nodes = {n1}
    None = None
    Jobs = {1, 2}
    Tokens = {1, 2}
    Amount <- TokenAmounts
    Low = 20
    Refill <- TokenRefill
    Float = {19}
    Fees = {1}
    MaxReprices = 0
    MaxFaults = 1
SPECIFICATION FairSpec
PROPERTIES StuckKeepsError
