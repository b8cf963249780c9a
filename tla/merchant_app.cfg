SPECIFICATION AppSpec
CONSTANTS
    Items = {i1}
    Requests = {o1}
    Numbers = {n1, n2}
    Workers = {w1, w2}
    MaxVersion = 2
    MaxFaults = 1
    LostAnswers = TRUE
    Counter = Counter
    Desks = {w1, w2}
    Passwords = {n1, n2}
    Emails = {e1}
    MaxCodes = 1
    MaxLinks = 1
    LastTick = 2
    RequestWindow = 1
    MaxRequests = 1
    OtpExpiry = 0
    MaxAttempts = 1
    VerifiedWindow = 1
    LinkExpiry = 0
    Users = {"u1", "u2"}
    Roles = {"admin"}
    RolePermissions <- MCRolePermissions
    SeedUser = "u1"
    SeedRole = "admin"
    Logins = {l1}
    UserLife = 1
    MerchantLife = 1
    MaxTokens = 2
    LastHour = 2
    Destinations = {"momo", "bank"}
    Savers = {w1, w2}
    Subaccounts = {1, 2, 3}
    Places = {"shop", "branch"}
    Foreign = {"elsewhere"}
    Editors = {w1, w2}
    Findings = {"card", "velocity"}
    MaxFlags = 2
    Scanners = {w1, w2}
    Reviewers = {w1, w2}
SYMMETRY Symmetry
INVARIANTS
    ConfirmedHasInvoice
    NothingStaleIsBilled
    
    VerifiedByLink
    AccessRunsOut
    SplitPaysCurrentAccount
    
PROPERTIES
    VerdictsStand
CHECK_DEADLOCK FALSE
