SPECIFICATION Spec
CONSTANTS
    s1 = s1
    s2 = s2
    s3 = s3
    m1 = m1
    NoOne = NoOne
    Seeders <- TwoSeeders
    Manual <- MCManual
    MaxTime = 1
    MaxSkew = 0
CHECK_DEADLOCK FALSE
PROPERTY SeededIsServed
