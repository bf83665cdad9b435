SPECIFICATION FairSpec
CONSTANTS
    s1 = s1
    s2 = s2
    s3 = s3
    m1 = m1
    NoOne = NoOne
    Seeders <- ThreeSeeders
    Manual <- MCManual
    MaxTime = 1
    MaxSkew = 1
CHECK_DEADLOCK FALSE
INVARIANTS
    TypeOK
    NeverNoneActive
PROPERTIES
    SeedLeavesOne
    ServedUnlessLapsed
    PromiseSpec
    SeedersEnd
