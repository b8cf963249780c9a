SPECIFICATION FairSpec
CONSTANTS
    Invoices = {i1}
    Refs = {r1, r2}
    Workers = {w1, w2}
    LastDay = 2
    Deposits = {2}
    PerTransactionCap = 2
    DailyCap = 3
    CumulativeCap = 3
    UssdEnabled = FALSE
    MaxFaults = 2
    Total <- MCTotal
    Commission <- MCCommission
INVARIANTS
    CapExceededNeedsOverlap
PROPERTIES
    ChargeIsCredited
CHECK_DEADLOCK FALSE
