------------------------------ MODULE MCIntake ------------------------------
(* Two POSTs over every kind of payload and deployment.                    *)
EXTENDS Intake, Validation, TLC

CONSTANTS p1, p2, t1, e1, ghost

MCPosts == {p1, p2}
MCTenants == {t1}

Payload(t, e, f) == [tenant |-> t, external |-> e, form |-> f]

Good == [f \in Fields |-> "positive"]

Body(f, k) == Form([Good EXCEPT ![f] = k])

\* Two valid bodies (one without external_id), an unknown tenant, and one body
\* for each way of being wrong, as Validation sees it.
MCPayloads ==
    {Payload(t1, e1, Form(Good)), Payload(t1, NoId, Form(Good)),
     Payload(ghost, e1, Form(Good)),
     Payload(t1, e1, Body("loan_amount", "zero")),
     Payload(t1, e1, Body("monthly_obligations", "text")),
     Payload(t1, e1, Body("estimated_payment", "nan"))}

ValidPayloads == {Payload(t1, e1, Form(Good))}

Deploy(on, url, name, worker) ==
    [enabled |-> on, brokerUrl |-> url, taskName |-> name,
     workerOnBroker |-> worker]

WiredDeployment == Deploy(TRUE, TRUE, "score_application", TRUE)
ComposeDeployment == Deploy(FALSE, TRUE, "score_application", TRUE)
RenamedDeployment == Deploy(TRUE, TRUE, "other", TRUE)

MCDeployments ==
    {WiredDeployment, ComposeDeployment, RenamedDeployment,
     Deploy(TRUE, FALSE, "score_application", TRUE),
     Deploy(TRUE, TRUE, "score_application", FALSE)}

OnlyWired == {WiredDeployment}
=============================================================================
