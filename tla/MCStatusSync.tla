---------------------------- MODULE MCStatusSync ----------------------------
EXTENDS StatusSync, TLC

CONSTANTS x1, x2, x3

TwoTxns == {x1, x2}
ThreeTxns == {x1, x2, x3}

TxnSymmetry == Permutations(ThreeTxns)
=============================================================================
