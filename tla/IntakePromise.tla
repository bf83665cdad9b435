---------------------------- MODULE IntakePromise ----------------------------
(***************************************************************************)
(* What the intake promises, without connections, brokers and awaits: a    *)
(* POST is recorded together with its audit entry or not at all, its       *)
(* scoring is requested only once it is recorded and before it is          *)
(* answered.  Whoever is told 201 is recorded, whoever is told 422 never   *)
(* is, and 500 says nothing: the POST may be recorded by then, or later.   *)
(* A request for scoring may be repeated and may be lost.                  *)
(***************************************************************************)
CONSTANT Posts

VARIABLES
    recorded,   \* POSTs whose application is in the database
    audited,    \* POSTs whose creation is in the audit log
    requested,  \* POSTs whose scoring is asked for and not finished
    scored,     \* POSTs whose scoring has been run
    answer      \* what the client was told, "none" when nothing

vars == <<recorded, audited, requested, scored, answer>>

Init ==
    /\ recorded = {}
    /\ audited = {}
    /\ requested = {}
    /\ scored = {}
    /\ answer = [p \in Posts |-> "none"]

Open(p) == answer[p] = "none"

Tell(p, s) == answer' = [answer EXCEPT ![p] = s]

Refuse(p) ==
    /\ Open(p)
    /\ p \notin recorded
    /\ Tell(p, "422")
    /\ UNCHANGED <<recorded, audited, requested, scored>>

Fail(p) ==
    /\ Open(p)
    /\ Tell(p, "500")
    /\ UNCHANGED <<recorded, audited, requested, scored>>

Record(p) ==
    /\ answer[p] \in {"none", "500"}
    /\ p \notin recorded
    /\ recorded' = recorded \cup {p}
    /\ audited' = audited \cup {p}
    /\ UNCHANGED <<requested, scored, answer>>

Request(p) ==
    /\ Open(p)
    /\ p \in recorded
    /\ requested' = requested \cup {p}
    /\ UNCHANGED <<recorded, audited, scored, answer>>

Accept(p) ==
    /\ Open(p)
    /\ p \in recorded
    /\ Tell(p, "201")
    /\ UNCHANGED <<recorded, audited, requested, scored>>

\* More than one run may have been asked for.
Score(p) ==
    /\ p \in requested
    /\ scored' = scored \cup {p}
    /\ requested' \in {requested, requested \ {p}}
    /\ UNCHANGED <<recorded, audited, answer>>

\* A crash loses any number of requests at once.
Lose ==
    /\ requested' \in SUBSET requested
    /\ UNCHANGED <<recorded, audited, scored, answer>>

Next ==
    \/ \E p \in Posts :
          \/ Refuse(p) \/ Record(p) \/ Request(p)
          \/ Accept(p) \/ Fail(p) \/ Score(p)
    \/ Lose

Spec == Init /\ [][Next]_vars
=============================================================================
