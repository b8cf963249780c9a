SPECIFICATION FairSpec
CONSTANTS
    Invoices = {i1}
    Refs = {r1}
    Workers = {w1}
    LastDay = 1
    Deposits = {0, 2}
    PerTransactionCap = 0
    DailyCap = 0
    CumulativeCap = 0
    UssdEnabled = FALSE
    MaxFaults = 1
    Total <- MCTotal
    Commission <- MCCommission
PROPERTIES
    CoveredInvoiceGetsPaid
CHECK_DEADLOCK FALSE
