---------------------------- MODULE MCThresholds ----------------------------
EXTENDS Thresholds, TLC

CONSTANTS s1, s2, s3, m1

TwoSeeders == {s1, s2}
ThreeSeeders == {s1, s2, s3}
MCManual == {m1}

SeederSymmetry == Permutations(ThreeSeeders)
=============================================================================
