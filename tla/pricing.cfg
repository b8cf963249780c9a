SPECIFICATION Spec
CONSTANTS
    Registered = TRUE
    OwnRates = {194, 195, 500, 501}
    CustomerShares = {0, 3333, 10000}
    Parts = {0, 7}
    MaxParts = 3
    MaxInt32 = 2147483647
    DefaultRule <- Standard
    RuleRequests <- MCRequests
    Bases <- MCBases
    PartBases <- SmallBases
INVARIANTS
    PricingTypeOK
    PlatformNeverLosesMoney
    MarginIsClamped
    MerchantLeftWhole
    DearerOrderCostsMore
    PartsAddUp
