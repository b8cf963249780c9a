SPECIFICATION DisputeSpec
CONSTANTS
    Invoices = {i1}
    Refs = {r1, r2}
    Cases = {d1, d2}
    Resolvers = {}
    Admins = {a1, a2}
    Staff = {}
    LastDay = 1
    MaxSettlements = 2
    Charges = {2, 6}
    Refunds = {2, 4}
    SplitEnabled = TRUE
    Threshold = 1
    TransferFee = 2
    FeeWaiver = 3
    Overlap = FALSE
    MaxFaults = 0
    Total <- MCTotal
    Commission <- MCCommission
INVARIANTS
    PaidOnce
CHECK_DEADLOCK FALSE
