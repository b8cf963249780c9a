SPECIFICATION DisputeSpec
CONSTANTS
    Invoices = {i1}
    Refs = {r1, r2}
    Cases = {d1, d2}
    Resolvers = {v1}
    Admins = {a1}
    Staff = {p1}
    LastDay = 2
    MaxSettlements = 2
    Charges = {2, 6}
    Refunds = {2, 4}
    SplitEnabled = TRUE
    Threshold = 0
    TransferFee = 2
    FeeWaiver = 3
    Overlap = FALSE
    MaxFaults = 0
    Total <- MCTotal
    Commission <- MCCommission
SYMMETRY Symmetry
INVARIANTS
    RowsUpdateTogether
    ResolutionIsTrue
    ClawbackQueueHolds
PROPERTIES
    PaysOutAsPromised
CHECK_DEADLOCK FALSE
