SPECIFICATION FairSpec
CONSTANTS
    Submissions = {k1, k2}
    Workers = {w1, w2}
    HandTiers = {1}
    PoolSize = 2
INVARIANTS
    ApprovedIsGranted
    DecisionsAreAudited

    
