SPECIFICATION DisputeSpec
CONSTANTS
    Invoices = {i1}
    Refs = {r1, r2}
    Cases = {d1}
    Resolvers = {v1, v2}
    Admins = {a1, a2}
    Staff = {}
    LastDay = 1
    MaxSettlements = 2
    Charges = {6}
    Refunds = {4}
    SplitEnabled = FALSE
    Threshold = 1
    TransferFee = 1
    FeeWaiver = 2
    Overlap = TRUE
    MaxFaults = 1
    Total <- MCTotal
    Commission <- MCCommission
SYMMETRY Symmetry
INVARIANTS
    BooksNeverAhead
    DebtWithinRefunds
    RepeatsNeedOverlap
    ShareIsPaidFor
    DisputesNeverAhead
PROPERTIES
    ClaimsArePermanent
CHECK_DEADLOCK FALSE
