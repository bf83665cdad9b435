SPECIFICATION Spec
CONSTANTS
    a1 = a1
    a2 = a2
    t1 = t1
    t2 = t2
    Ghost = Ghost
    Malformed = Malformed
    NoId = NoId
    Apps <- MCApps
    Tenants <- MCTenants
    Bodies <- MCBodies
    Times = {1, 2, 3}
    MaxScores = 3
SYMMETRY Symmetry
INVARIANTS
    TypeOK
    RatiosThere
    TenantIsolation
    DetailFresh
