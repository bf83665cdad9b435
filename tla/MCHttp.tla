------------------------------- MODULE MCHttp -------------------------------
(* Two applications of two tenants; a body for each way of being wrong.    *)
EXTENDS Http, TLC

CONSTANTS a1, a2, t1, t2

MCApps == {a1, a2}
MCTenants == {t1, t2}

ValidBody == [f \in Fields |-> "positive"]

With(f, k) == [ValidBody EXCEPT ![f] = k]

\* One field of every kind, and pairs in which the order of the checks decides.
MCBodies ==
    {With(f, k) : f \in Amounts, k \in Kinds}
      \cup
    {[With("net_monthly_income", k) EXCEPT ![f] = m] :
        k \in {"huge", "inf"}, f \in {"monthly_obligations", "loan_amount"},
        m \in {"missing", "zero", "inf", "true"}}

Symmetry == Permutations(MCApps) \cup Permutations(MCTenants)
=============================================================================
