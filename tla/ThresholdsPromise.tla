------------------------- MODULE ThresholdsPromise -------------------------
(***************************************************************************)
(* What "safe to run multiple times" means for the thresholds of a tenant, *)
(* without statements, locks and failures.  A seed is one step: the first  *)
(* makes the Default threshold, every other one finds it again, and what   *)
(* was active goes off, save rows that administrators added meanwhile.     *)
(* Nothing else makes, replaces or switches off a threshold.               *)
(***************************************************************************)
CONSTANTS
    Seeders,  \* runs of the seed; also the id of the row each may make
    Manual    \* rows that administrators add

VARIABLES
    defaults,  \* ids of the rows named Default
    others,    \* ids of the administrators' rows
    active     \* ids of the rows that are active

vars == <<defaults, others, active>>

Init ==
    /\ defaults = {}
    /\ others = {}
    /\ active = {}

Seed(s) ==
    /\ defaults' = IF defaults = {} THEN {s} ELSE defaults
    /\ defaults' \subseteq active'
    /\ active' \ defaults' \subseteq active \cap others
    /\ UNCHANGED others

Add(m) ==
    /\ defaults # {}
    /\ m \notin others
    /\ others' = others \cup {m}
    /\ active' = active \cup {m}
    /\ UNCHANGED defaults

Next == (\E s \in Seeders : Seed(s)) \/ (\E m \in Manual : Add(m))

Spec == Init /\ [][Next]_vars
=============================================================================
