SPECIFICATION Spec
CONSTANTS
    x1 = x1
    x2 = x2
    x3 = x3
    NoTxn = NoTxn
    Txns <- ThreeTxns
    MaxActive = 3
    MaxTime = 1
SYMMETRY TxnSymmetry
CHECK_DEADLOCK FALSE
INVARIANTS
    TypeOK
    Backed
PROPERTY FreshSync
