SPECIFICATION Spec
CONSTANTS
    p1 = p1
    p2 = p2
    t1 = t1
    e1 = e1
    ghost = ghost
    NoId = NoId
    Posts <- MCPosts
    Payloads <- MCPayloads
    Tenants <- MCTenants
    Deployments <- OnlyWired
    PoolSize = 1
    MaxCopies = 1
    MaxCrashes = 0
CHECK_DEADLOCK FALSE
INVARIANT InvalidIs422
