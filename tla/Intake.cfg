SPECIFICATION FairSpec
CONSTANTS
    p1 = p1
    p2 = p2
    t1 = t1
    e1 = e1
    ghost = ghost
    NoId = NoId
    Posts <- MCPosts
    Payloads <- MCPayloads
    Tenants <- MCTenants
    Deployments <- MCDeployments
    PoolSize = 1
    MaxCopies = 2
    MaxCrashes = 1
CHECK_DEADLOCK FALSE
INVARIANTS
    TypeOK
    AuditTrailExact
    NoGhostTask
    AnswerTruthful
    PoolExact
PROPERTIES
    PromiseSpec
    UnreturnedNeverScored
    Answered
    Delivered
