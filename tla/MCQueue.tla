------------------------------- MODULE MCQueue ------------------------------
(* Two entries with arguments on both sides of the limits.                 *)
EXTENDS Queue, TLC

CONSTANTS q1, q2, t1, t2

MCEntries == {q1, q2}
MCTenants == {t1, t2}

Case(loan, vip, hours) == [loan |-> loan, vip |-> vip, hours |-> hours]

MCCases ==
    {Case(Null, TRUE, 8), Case(Null, FALSE, 1), Case(1000001, FALSE, 3),
     Case(2000000, FALSE, 1), Case(2000001, FALSE, 1), Case(5000001, FALSE, 2),
     Case(5000001, FALSE, 1)}

Symmetry == Permutations(MCEntries) \cup Permutations(MCTenants)
=============================================================================
