SPECIFICATION DisputeSpec
CONSTANTS
    Invoices = {i1}
    Refs = {r1}
    Cases = {d1}
    Resolvers = {v1}
    Admins = {}
    Staff = {}
    LastDay = 1
    MaxSettlements = 2
    Charges = {2, 6}
    Refunds = {2, 4}
    SplitEnabled = FALSE
    Threshold = 1
    TransferFee = 2
    FeeWaiver = 3
    Overlap = FALSE
    MaxFaults = 0
    Total <- MCTotal
    Commission <- MCCommission
INVARIANTS
    RefundedMeansGivenBack
CHECK_DEADLOCK FALSE
