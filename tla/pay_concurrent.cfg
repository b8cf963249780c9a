SPECIFICATION Spec
CONSTANTS
    Invoices = {i1}
    Refs = {r1, r2}
    Workers = {w1, w2}
    LastDay = 1
    Deposits = {2}
    PerTransactionCap = 0
    DailyCap = 0
    CumulativeCap = 0
    UssdEnabled = TRUE
    MaxFaults = 2
    Total <- MCTotal
    Commission <- MCCommission
SYMMETRY MCSymmetry
INVARIANTS
    CreditsAreRealMoney
    PaidIsCovered
    AckedChargeIsCredited
    UnpaidNeedsInterference
    OvercollectionNeedsOverlap
CHECK_DEADLOCK FALSE
