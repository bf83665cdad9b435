SPECIFICATION Spec
CONSTANTS
    x1 = x1
    x2 = x2
    x3 = x3
    NoTxn = NoTxn
    Txns <- TwoTxns
    MaxActive = 2
    MaxTime = 1
CHECK_DEADLOCK FALSE
INVARIANT SyncedStatus
