\* Two processes scan one account through two quotes while the treasury moves money
\* and scans stay fair; one crash, lost answer, outlived lease or lagging provider.
CONSTANTS
    Scanners = {s1, s2}
    None = none
    Prices = {1}
    Legacy = 0
    MaxInvoices = 2
    MaxDeposits = 1
    MaxJournal = 1
    MaxFailures = 1
SPECIFICATION FairSpec
INVARIANTS CreditCovered LiveQuoteIsActive
PROPERTIES KeepsLedger PaidOnTimeInFull FundsSettle
