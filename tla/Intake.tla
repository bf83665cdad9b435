------------------------------- MODULE Intake -------------------------------
(***************************************************************************)
(* Application intake: POST /api/v1/applications from the first await of   *)
(* its handler to the HTTP answer, the SQLAlchemy connection pool it       *)
(* shares with the other requests, the two rows it commits (applications   *)
(* and audit_logs), the Celery task it emits afterwards, and the worker    *)
(* that consumes the task.  The server may complete a COMMIT it was sent   *)
(* after the handler, or the process, that sent it is gone.                *)
(*                                                                         *)
(* A handler is a coroutine of one uvicorn process: code between two       *)
(* awaits is one action, and a crash of the process kills every handler in *)
(* flight.  A POST creates at most one application, whose uuid4 key is     *)
(* therefore named by the POST itself; a client's retry is another POST    *)
(* with an equal payload.                                                  *)
(***************************************************************************)
EXTENDS Integers, FiniteSets

CONSTANTS
    Posts,        \* the POST requests
    Payloads,     \* request bodies: [tenant, external, form]
    Tenants,      \* ids of the rows of the tenants table
    NoId,         \* external_id: null
    Deployments,  \* environments of the API process and of the worker
    PoolSize,     \* connections the engine may have checked out at once
    MaxCopies,    \* bound: broker messages of one POST at a time
    MaxCrashes    \* bound: crashes of the API and of the worker together

\* What the intake tells apart in a body; Validation!Form computes it.  "invalid":
\* ApplicationCreate refuses it.  "unparsable": monthly_obligations or
\* existing_loans_payment is present but no number, which only _compute_derived
\* notices, or float() overflows, which nothing catches.  "nonFinite": float()
\* gives NaN or an infinity, so a ratio is no JSON number and PostgreSQL refuses
\* the row.
Forms == {"valid", "invalid", "unparsable", "nonFinite"}

\* The name the worker registers, and any other one the API may be told to send.
TaskNames == {"score_application", "other"}

\* Members of Deployments: CELERY_ENABLED = "1", CELERY_BROKER_URL is set, the
\* task name sent, and whether REDIS_URL gives the worker the same broker.
IsDeployment(d) ==
    /\ d.enabled \in BOOLEAN
    /\ d.brokerUrl \in BOOLEAN
    /\ d.taskName \in TaskNames
    /\ d.workerOnBroker \in BOOLEAN

ASSUME PayloadAssumption ==
    \A b \in Payloads : b.form \in Forms

ASSUME DeploymentAssumption ==
    \A d \in Deployments : IsDeployment(d)

ASSUME BoundAssumption ==
    /\ PoolSize \in Nat \ {0}
    /\ MaxCopies \in Nat
    /\ MaxCrashes \in Nat

VARIABLES
    env,      \* the deployment, fixed at start
    pc,       \* where the handler of each POST is
    body,     \* the payload of each POST
    conns,    \* POSTs whose session holds a pooled connection
    apps,     \* committed rows of applications
    audits,   \* committed rows of audit_logs
    inDoubt,  \* POSTs nobody waits for whose COMMIT the server may still take
    answer,   \* the HTTP status sent, "none" before or without one
    tasks,    \* copies of the POST's scoring task, by stage
    received, \* applications the worker has logged as received
    crashes   \* crashes so far

vars == <<env, pc, body, conns, apps, audits, inDoubt, answer, tasks, received,
          crashes>>
db == <<apps, audits, inDoubt>>
broker == <<tasks, received>>

PCs == {"idle", "flush", "commit", "refresh", "emit", "respond", "done"}

\* "queued" in the Redis list, "reserved" by the live worker and in the hash of
\* unacknowledged messages, "stale" held by the live worker alone, "orphaned" in
\* the hash alone, "running" acknowledged and executing.
Stages == {"queued", "reserved", "stale", "orphaned", "running"}

Answers == {"none", "201", "422", "500"}

NoTasks == [s \in Stages |-> 0]

Init ==
    /\ env \in Deployments
    /\ pc = [p \in Posts |-> "idle"]
    /\ body \in [Posts -> Payloads]
    /\ conns = {}
    /\ apps = {}
    /\ audits = {}
    /\ inDoubt = {}
    /\ answer = [p \in Posts |-> "none"]
    /\ tasks = [p \in Posts |-> NoTasks]
    /\ received = {}
    /\ crashes = 0

-----------------------------------------------------------------------------
(* The rows one POST writes.                                               *)

\* external_id, or "APP-" and ten hex digits of a fresh uuid4.
ExternalId(p) ==
    IF body[p].external = NoId THEN <<"APP", p>> ELSE body[p].external

AppRow(p) ==
    [id |-> p, tenant |-> body[p].tenant, external |-> ExternalId(p),
     status |-> "pending"]

\* Mutant: the audit row records the external_id of the request.
AuditRow_RequestExternal(p) ==
    [entity |-> p, tenant |-> body[p].tenant, action |-> "create",
     newExternal |-> body[p].external, newStatus |-> "pending"]

AuditRow(p) ==
    [entity |-> p, tenant |-> body[p].tenant, action |-> "create",
     newExternal |-> ExternalId(p), newStatus |-> "pending"]

-----------------------------------------------------------------------------
(* The handler: create_application_endpoint.                               *)

\* The handler ends with status s and its session is closed, which rolls back
\* what it has not committed.
Finish(p, s) ==
    /\ pc' = [pc EXCEPT ![p] = "done"]
    /\ answer' = [answer EXCEPT ![p] = s]
    /\ conns' = conns \ {p}

Step(p, from, to) ==
    /\ pc[p] = from
    /\ pc' = [pc EXCEPT ![p] = to]

PoolHasRoom == Cardinality(conns) < PoolSize

\* FastAPI builds ApplicationCreate from the body; its validator raises.
Reject(p) ==
    /\ pc[p] = "idle"
    /\ body[p].form = "invalid"
    /\ Finish(p, "422")
    /\ UNCHANGED <<env, body, db, broker, crashes>>

\* _compute_derived calls float() on a value the validator never parsed.
DeriveFails(p) ==
    /\ pc[p] = "idle"
    /\ body[p].form = "unparsable"
    /\ Finish(p, "500")
    /\ UNCHANGED <<env, body, db, broker, crashes>>

\* Everything up to the first await, session.flush().
Admit(p) ==
    /\ body[p].form \in {"valid", "nonFinite"}
    /\ Step(p, "idle", "flush")
    /\ UNCHANGED <<env, body, conns, db, answer, broker, crashes>>

\* Mutant: the task is emitted as soon as the key exists.
Flush_Emits(p) ==
    /\ PoolHasRoom
    /\ body[p].form = "valid"
    /\ body[p].tenant \in Tenants
    /\ Step(p, "flush", "commit")
    /\ conns' = conns \cup {p}
    /\ tasks' = [tasks EXCEPT ![p]["queued"] = @ + 1]
    /\ UNCHANGED <<env, body, db, answer, received, crashes>>

\* INSERT INTO applications is accepted: the key exists, no one else sees it.
Flush(p) ==
    /\ PoolHasRoom
    /\ body[p].form = "valid"
    /\ body[p].tenant \in Tenants
    /\ Step(p, "flush", "commit")
    /\ conns' = conns \cup {p}
    /\ UNCHANGED <<env, body, db, answer, broker, crashes>>

\* The INSERT is refused (foreign key on tenants, or a ratio that is no JSON
\* number), or the connection fails under it.
FlushFails(p) ==
    /\ pc[p] = "flush"
    /\ PoolHasRoom
    /\ Finish(p, "500")
    /\ UNCHANGED <<env, body, db, broker, crashes>>

\* No connection came free within the pool's timeout.  The wait before the
\* refresh is as exposed as the one before the flush: commit() has given the
\* connection back.
PoolTimeout(p) ==
    /\ pc[p] \in {"flush", "refresh"}
    /\ ~PoolHasRoom
    /\ Finish(p, "500")
    /\ UNCHANGED <<env, body, db, broker, crashes>>

\* What COMMIT makes visible: the flushed row and the audit row that
\* session.commit() flushes first.
Store(p) ==
    /\ apps' = apps \cup {AppRow(p)}
    /\ audits' = audits \cup {AuditRow(p)}

\* session.commit() also returns the connection to the pool.
Commit(p) ==
    /\ Step(p, "commit", "refresh")
    /\ Store(p)
    /\ conns' = conns \ {p}
    /\ UNCHANGED <<env, body, inDoubt, answer, broker, crashes>>

\* Mutant: the exception of commit() is swallowed.
CommitFails_Swallowed(p) ==
    /\ pc[p] = "commit"
    /\ inDoubt' = inDoubt \cup {p}
    /\ Finish(p, "201")
    /\ UNCHANGED <<env, body, apps, audits, broker, crashes>>

\* Mutant: nobody closes the session of a handler whose commit() raised.
CommitFails_Leaks(p) ==
    /\ pc[p] = "commit"
    /\ inDoubt' = inDoubt \cup {p}
    /\ pc' = [pc EXCEPT ![p] = "done"]
    /\ answer' = [answer EXCEPT ![p] = "500"]
    /\ UNCHANGED <<env, body, conns, apps, audits, broker, crashes>>

\* The connection fails during session.commit(): the handler raises and cannot
\* know what the server has made, or will make, of the COMMIT.
CommitFails(p) ==
    /\ pc[p] = "commit"
    /\ inDoubt' = inDoubt \cup {p}
    /\ Finish(p, "500")
    /\ UNCHANGED <<env, body, apps, audits, broker, crashes>>

\* session.refresh() checks a connection out again and keeps it.
Refresh(p) ==
    /\ PoolHasRoom
    /\ Step(p, "refresh", "emit")
    /\ conns' = conns \cup {p}
    /\ UNCHANGED <<env, body, db, answer, broker, crashes>>

\* Mutant: the emission sits in a finally block around the refresh.
RefreshFails_Emits(p) ==
    /\ pc[p] = "refresh"
    /\ PoolHasRoom
    /\ Finish(p, "500")
    /\ tasks' = [tasks EXCEPT ![p]["queued"] = @ + 1]
    /\ UNCHANGED <<env, body, db, received, crashes>>

\* The SELECT fails; the application stays committed.
RefreshFails(p) ==
    /\ pc[p] = "refresh"
    /\ PoolHasRoom
    /\ Finish(p, "500")
    /\ UNCHANGED <<env, body, db, broker, crashes>>

\* Mutant: the emission is a background task, run after the answer.
Emit_InBackground(p) ==
    /\ pc[p] \in {"emit", "done"}
    /\ AppRow(p) \in apps
    /\ tasks[p] = NoTasks
    /\ \/ /\ pc[p] = "emit"
          /\ pc' = [pc EXCEPT ![p] = "respond"]
          /\ UNCHANGED tasks
       \/ /\ answer[p] = "201"
          /\ tasks' = [tasks EXCEPT ![p]["queued"] = 1]
          /\ UNCHANGED pc
    /\ UNCHANGED <<env, body, conns, db, answer, received, crashes>>

\* Mutant: the task is sent and its result awaited.
Emit_Waits(p) ==
    /\ pc[p] = "emit"
    /\ IF p \in received
       THEN /\ pc' = [pc EXCEPT ![p] = "respond"]
            /\ UNCHANGED tasks
       ELSE /\ tasks[p] = NoTasks
            /\ tasks' = [tasks EXCEPT ![p]["queued"] = 1]
            /\ UNCHANGED pc
    /\ UNCHANGED <<env, body, conns, db, answer, received, crashes>>

\* emit_score_application_task: a no-op unless enabled and configured.  Every
\* exception of send_task is swallowed, so that the handler goes on whether the
\* broker kept no message, one, or one for each of kombu's attempts.
Emit(p) ==
    /\ Step(p, "emit", "respond")
    /\ IF env.enabled /\ env.brokerUrl
       THEN \E n \in 0..MaxCopies :
                tasks' = [tasks EXCEPT ![p]["queued"] = @ + n]
       ELSE UNCHANGED tasks
    /\ UNCHANGED <<env, body, conns, db, answer, received, crashes>>

\* Mutant: the decorator's status_code is forgotten.
Respond_DefaultStatus(p) ==
    /\ pc[p] = "respond"
    /\ Finish(p, "200")
    /\ UNCHANGED <<env, body, db, broker, crashes>>

\* The endpoint returns; get_db closes the session before the answer is sent.
Respond(p) ==
    /\ pc[p] = "respond"
    /\ Finish(p, "201")
    /\ UNCHANGED <<env, body, db, broker, crashes>>

\* Closing the session rolls back the transaction that refresh() began, which
\* raises when the connection has broken since: a 500 after the emission.
CloseFails(p) ==
    /\ pc[p] = "respond"
    /\ Finish(p, "500")
    /\ UNCHANGED <<env, body, db, broker, crashes>>

\* The API process dies with every handler in flight and no client gets an
\* answer.  The server rolls back what was open, save for the COMMITs it had
\* been sent.
ApiCrash ==
    /\ crashes < MaxCrashes
    /\ crashes' = crashes + 1
    /\ pc' = [p \in Posts |-> IF pc[p] = "idle" THEN "idle" ELSE "done"]
    /\ conns' = {}
    /\ \E sent \in SUBSET {p \in Posts : pc[p] = "commit"} :
           inDoubt' = inDoubt \cup sent
    /\ UNCHANGED <<env, body, apps, audits, answer, broker>>

-----------------------------------------------------------------------------
(* PostgreSQL, with a COMMIT whose sender does not wait for the outcome.   *)

ServerCommits(p) ==
    /\ p \in inDoubt
    /\ inDoubt' = inDoubt \ {p}
    /\ Store(p)
    /\ UNCHANGED <<env, pc, body, conns, answer, broker, crashes>>

ServerRollsBack(p) ==
    /\ p \in inDoubt
    /\ inDoubt' = inDoubt \ {p}
    /\ UNCHANGED <<env, pc, body, conns, apps, audits, answer, broker, crashes>>

-----------------------------------------------------------------------------
(* Redis and the Celery worker.  The task body of src/worker.py only logs; *)
(* delivery is Celery's default, acknowledged before the task runs.        *)

Move(p, from, to) ==
    /\ tasks[p][from] > 0
    /\ tasks' = [tasks EXCEPT ![p][from] = @ - 1, ![p][to] = @ + 1]

Reserve(p) ==
    /\ env.workerOnBroker
    /\ Move(p, "queued", "reserved")
    /\ UNCHANGED <<env, body, pc, conns, db, answer, received, crashes>>

\* Mutant: the task is registered under the name Celery would derive for it.
Start_Renamed(p) ==
    /\ env.taskName = "src.worker.score_application"
    /\ Move(p, "reserved", "running")
    /\ UNCHANGED <<env, body, pc, conns, db, answer, received, crashes>>

\* The worker acknowledges a message and starts the task registered under its
\* name; src/worker.py registers one task.
Start(p) ==
    /\ env.taskName = "score_application"
    /\ Move(p, "reserved", "running") \/ Move(p, "stale", "running")
    /\ UNCHANGED <<env, body, pc, conns, db, answer, received, crashes>>

\* A message that names no registered task is logged and thrown away.
Discard(p) ==
    /\ env.taskName # "score_application"
    /\ \E s \in {"reserved", "stale"} :
          /\ tasks[p][s] > 0
          /\ tasks' = [tasks EXCEPT ![p][s] = @ - 1]
    /\ UNCHANGED <<env, body, pc, conns, db, answer, received, crashes>>

\* score_application(application_id).
ScoreApplication(p) ==
    /\ tasks[p]["running"] > 0
    /\ tasks' = [tasks EXCEPT ![p]["running"] = @ - 1]
    /\ received' = received \cup {p}
    /\ UNCHANGED <<env, body, pc, conns, db, answer, crashes>>

\* What ran is lost with the worker, and so is what only the worker still held;
\* what it had reserved is in the unacknowledged hash.
WorkerCrash ==
    /\ crashes < MaxCrashes
    /\ crashes' = crashes + 1
    /\ tasks' = [p \in Posts |->
                    [tasks[p] EXCEPT !["orphaned"] = @ + tasks[p]["reserved"],
                                     !["reserved"] = 0, !["stale"] = 0,
                                     !["running"] = 0]]
    /\ UNCHANGED <<env, body, pc, conns, db, answer, received>>

\* The visibility timeout puts an orphaned message back into the list.
Restore(p) ==
    /\ Move(p, "orphaned", "queued")
    /\ UNCHANGED <<env, body, pc, conns, db, answer, received, crashes>>

Copies(p) ==
    tasks[p]["queued"] + tasks[p]["reserved"] + tasks[p]["stale"]
        + tasks[p]["orphaned"] + tasks[p]["running"]

\* The visibility timeout does not know that the worker which has reserved a
\* message is alive: it puts a second copy into the list.
Redeliver(p) ==
    /\ Copies(p) < MaxCopies
    /\ tasks[p]["reserved"] > 0
    /\ tasks' = [tasks EXCEPT ![p]["reserved"] = @ - 1, ![p]["stale"] = @ + 1,
                              ![p]["queued"] = @ + 1]
    /\ UNCHANGED <<env, body, pc, conns, db, answer, received, crashes>>

-----------------------------------------------------------------------------
Handle(p) ==
    \/ Flush(p) \/ FlushFails(p) \/ PoolTimeout(p)
    \/ Commit(p) \/ CommitFails(p)
    \/ Refresh(p) \/ RefreshFails(p)
    \/ Emit(p) \/ Respond(p) \/ CloseFails(p)

Arrive(p) == Reject(p) \/ DeriveFails(p) \/ Admit(p)

Consume(p) ==
    Reserve(p) \/ Start(p) \/ Discard(p) \/ ScoreApplication(p) \/ Restore(p)

Next ==
    \/ \E p \in Posts :
          \/ Arrive(p) \/ Handle(p) \/ Consume(p) \/ Redeliver(p)
          \/ ServerCommits(p) \/ ServerRollsBack(p)
    \/ ApiCrash
    \/ WorkerCrash

\* The event loop runs every coroutine that can run, the pool's wait times out,
\* and the worker and Redis keep serving.  No request has to arrive and nothing
\* has to fail.
Fairness ==
    \A p \in Posts : WF_vars(Handle(p)) /\ WF_vars(Consume(p))

Spec == Init /\ [][Next]_vars
FairSpec == Spec /\ Fairness

-----------------------------------------------------------------------------
(* Properties.                                                             *)

\* The handlers stay within their program points, only rows that create_application
\* can build are stored, and no message is consumed more often than it was kept.
TypeOK ==
    /\ env \in Deployments
    /\ pc \in [Posts -> PCs]
    /\ body \in [Posts -> Payloads]
    /\ conns \subseteq Posts
    /\ apps \subseteq {AppRow(p) : p \in Posts}
    /\ audits \subseteq {AuditRow(p) : p \in Posts}
    /\ inDoubt \subseteq Posts
    /\ answer \in [Posts -> Answers]
    /\ tasks \in [Posts -> [Stages -> Nat]]
    /\ received \subseteq Posts
    /\ crashes \in 0..MaxCrashes

\* The POST's application is committed.
Recorded(p) == \E r \in apps : r.id = p

\* A copy of the POST's scoring task is somewhere between API and worker.
Requested(p) == \E s \in Stages : tasks[p][s] > 0

\* What the audit entry of a committed application has to say.
AuditOf(r) ==
    [entity |-> r.id, tenant |-> r.tenant, action |-> "create",
     newExternal |-> r.external, newStatus |-> r.status]

\* create_application writes the application and its audit entry in one
\* transaction: whatever fails and whenever the process dies, the audit trail
\* has exactly one "create" entry per application, with the tenant, the status
\* and the generated external_id that the application really has, and none for
\* an application that was rolled back.
AuditTrailExact == audits = {AuditOf(r) : r \in apps}

\* The endpoint emits after create_application has committed: a task in the
\* broker or in the worker, and a task the worker has run, always name an
\* application the worker can find.
NoGhostTask ==
    \A p \in Posts : Requested(p) \/ p \in received => Recorded(p)

\* 201 means that the application is committed and 422 that it is not; a body
\* PostgreSQL or _compute_derived cannot take and an unknown tenant never leave
\* a row behind.  (500 and no answer tell the client nothing.)
AnswerTruthful ==
    \A p \in Posts :
        /\ answer[p] = "201" => Recorded(p)
        /\ answer[p] = "422" => ~Recorded(p)
        /\ Recorded(p) => body[p].form = "valid" /\ body[p].tenant \in Tenants

\* A copy of the POST's task is under way, or has been run.
Sent(p) == Requested(p) \/ p \in received

\* The endpoint emits when create_application has returned, and at no other
\* time.  A POST that ends before that, in an error, in a timeout or with its
\* process, leaves no task; and nothing that happens after the end of a POST
\* (the server takes its COMMIT after all, a message is delivered again, a
\* worker dies) makes one appear.  A client that retries it has at most the
\* retry scored.  A failing close is the one way to a 500 with a task.
UnreturnedNeverScored ==
    [][\A p \in Posts :
          /\ pc[p] \in {"idle", "flush", "commit", "refresh"} /\ pc'[p] = "done"
                => ~Sent(p)'
          /\ pc[p] = "done" /\ Sent(p)' => Sent(p)]_vars

\* get_db closes the session on every way out and commit() gives the connection
\* back: the pool is never overdrawn and only a handler between two awaits of a
\* transaction holds a connection, so that none is leaked.
PoolExact ==
    /\ Cardinality(conns) <= PoolSize
    /\ conns = {p \in Posts : pc[p] \in {"commit", "emit", "respond"}}

\* Every request that has arrived ends: the wait for a connection is bounded by
\* the pool's timeout and nothing in the handler waits for the worker.
Answered ==
    \A p \in Posts : pc[p] \notin {"idle", "done"} ~> pc[p] = "done"

\* The API's settings send to the broker and under the name of the worker.
Wired ==
    /\ env.enabled /\ env.brokerUrl /\ env.workerOnBroker
    /\ env.taskName = "score_application"

\* In a deployment wired to its worker a message the broker has kept is
\* received by score_application once crashes have ceased, even one a dead
\* worker had reserved.
Delivered ==
    \A p \in Posts :
        (/\ Wired
         /\ crashes = MaxCrashes
         /\ \E s \in Stages : tasks[p][s] > 0)
            ~> p \in received

\* hitl/todo.md: "Scoring triggered automatically".  Every application that is
\* committed reaches score_application.  The code does not keep this: between
\* commit() and the broker nothing remembers that scoring is still owed.
ScoringTriggered == \A p \in Posts : Recorded(p) ~> p \in received

\* hitl/todo.md: "Test: Validation errors return 422".  A body with a field
\* that is no number is answered with 422.  The code answers 500 when that
\* field is monthly_obligations or existing_loans_payment.
InvalidIs422 ==
    \A p \in Posts :
        /\ pc[p] = "done"
        /\ body[p].form \in {"invalid", "unparsable"}
        /\ answer[p] # "none"
        => answer[p] = "422"

\* The intake implements what it promises its callers.
Promise == INSTANCE IntakePromise WITH
    recorded <- {r.id : r \in apps},
    audited <- {a.entity : a \in audits},
    requested <- {p \in Posts : Requested(p)},
    scored <- received

\* Every step of the handlers, the broker and the worker is a step of the
\* promise or invisible to the callers.
PromiseSpec == Promise!Spec
=============================================================================
