# A formal model of the HITL credit approval backend

The repository is the backend of a human-in-the-loop credit approval system: a
FastAPI service over PostgreSQL (async SQLAlchemy), a Celery worker behind
Redis, stored functions for routing and status, and a seed script. This
directory holds TLA+ modules of its core, TLC configurations that check them on
small instances, and TLAPS proofs of theorems that hold for every instance.

Contents: 1 inventory, 2 modules and their correspondence to the code,
3 runs, bounds and results, 4 fairness, 5 proofs, 6 disagreements found,
7 what is not modelled, 8 plan.

To repeat: `tlc -config Intake.cfg MCIntake`, and so on for the table of
section 3; and `tlapm` on each of `IntakeProofs.tla`, `StatusSyncProofs.tla`,
`ThresholdsProofs.tla`, `ListingProofs.tla`, `HttpProofs.tla`, `QueueProofs.tla` and
`MigrationsProofs.tla`.

## 1. Inventory

Paths are relative to the repository.

| component | state it keeps | operations | hard behaviour | what makes it correct |
|---|---|---|---|---|
| intake, `src/api/v1/endpoints/applications.py`, `src/crud/application.py` | applications, audit_logs | POST /applications | four awaits, each may fail, and so may the close of the session; crash between commit and emission; a COMMIT whose outcome, or end, the handler does not see | application and audit entry together or not at all; no task without application; the answer tells the truth |
| sessions and pool, `src/database.py` | checked out connections | get_db | exhausted pool; connection given back by commit() and taken again by refresh() | never overdrawn, none leaked, every request ends |
| emission, `src/tasks/score_application.py` | none | emit_score_application_task | disabled, misconfigured or unreachable broker; swallowed exceptions | a failure never reaches the client |
| worker, `src/worker.py` | none (a stub that logs) | task score_application | early acknowledgement, redelivery, foreign task names | what the broker keeps is received when wired |
| status, `alembic/versions/006_…` | applications.status | sync_application_status | three snapshots in one call, at READ COMMITTED | a final status has a committed decision |
| thresholds, `src/scripts/seed_dev_data.py`, `alembic/versions/005_…` | decision_thresholds, tenants | seed_dev_data, get_active_threshold | several seeders at once, check-then-insert without a unique constraint, aborts | one Default row; never a seeded tenant without active row |
| listings, `src/crud/application.py`, `src/crud/queue.py` | none; the client keeps the page | GET /applications, GET /queue | OFFSET pages over a table that changes; ties; two snapshots per answer | nothing skipped, nothing repeated, total and items agree |
| detail view, `src/api/v1/endpoints/applications.py` | none | GET /applications/{id} | two queries, two snapshots; optional tenant | the tenant's rows only; no superseded score |
| queue summary, `src/crud/queue.py`, `src/api/v1/endpoints/queue.py` | none | GET /queue/summary | clock read before the statement; limits of three groups of counts; priorities as old as the entries | the groups count the same entries, no deadline falls between them |
| validation, `src/schemas/application.py`, `src/crud/application.py` | none | ApplicationCreate, `_compute_derived` | two conversions of the same values, numbers the validator does not look at | what passes the validator can be divided by |
| priority, `alembic/versions/005_…` | none | calculate_queue_priority | clamps, boundaries, NULL | urgent entries never come after less urgent ones |
| schema and migrations, `alembic/` | the catalog, alembic_version | seven upgrades and downgrades | order of some seventy DDL statements; kills; two commands at once | the catalog is that of the version |
| HTTP application, `src/main.py` | none | request-id middleware, health | an exception on the way out | an id on every answer, which it does not keep |

How they interact: the intake endpoint calls `create_application` with a session
from `get_db`, which takes connections from the engine's pool; after the commit
it calls `emit_score_application_task`, which puts a message into Redis; the
worker takes it out. `sync_application_status` reads decisions and analyst_queues
and writes applications.status, which the listings filter by. The seed script
and `get_active_threshold` share decision_thresholds. Nothing else is shared: the
repository has no code yet that writes decisions, queue entries or scoring
results, so those writes are left to an environment in the models.

The hazards, each at its line and with the properties that are about it, are in
`PROJECT.json`.

## 2. Modules

### Intake, with IntakePromise (abstract), MCIntake and IntakeProofs

One behaviour is any number of POST requests to one API process, one pool and
one broker with a worker. A handler is a coroutine, so code between two awaits
is one action, and `pc[p]` names the await a handler is at.

| code | action |
|---|---|
| ApplicationCreate raises | `Reject` |
| `_compute_derived` raises in `float()` | `DeriveFails` |
| up to `session.flush()` | `Admit` |
| `flush()` returns / raises / finds no connection | `Flush`, `FlushFails`, `PoolTimeout` |
| `commit()` returns / its connection fails | `Commit`, `CommitFails` (`inDoubt`) |
| `refresh()` returns / raises / finds no connection | `Refresh`, `RefreshFails`, `PoolTimeout` |
| `emit_score_application_task` | `Emit` (no, one or several copies) |
| return, close of the session, answer / the close raises | `Respond`, `CloseFails` |
| the API process dies | `ApiCrash` |
| the server completes, or rolls back, a COMMIT nobody waits for | `ServerCommits`, `ServerRollsBack` |
| prefetch, acknowledge and run, unknown name, task body | `Reserve`, `Start`, `Discard`, `ScoreApplication` |
| the worker dies; visibility timeout, of a dead worker's message and of a live one's | `WorkerCrash`, `Restore`, `Redeliver` |

`conns` is the set of POSTs whose session holds a connection. The pinned FastAPI
(0.109) closes the session before it sends the answer, so `Respond` does both; the
close rolls back the transaction that `refresh()` began, and on a connection that has
broken since it raises (`CloseFails`): a 500 after the task was sent.
`inDoubt` are the POSTs whose COMMIT the server may still make or drop, because
the connection or the process is gone; that can be long after the handler's end. A
message that was delivered again while its worker lives is `stale` in the worker.
`apps` and `audits` hold committed rows only; the POST itself stands for the uuid4
of its application. `env` is the deployment: CELERY_ENABLED, the broker URL, the
task name, and whether the worker reads the same Redis. The body of a request
is abstracted to a tenant, an external id and a form (`valid`, `invalid`,
`unparsable`, `nonFinite`), one for each way the code treats bodies differently;
MCIntake computes the forms of its bodies with `Form` of Validation.

`IntakePromise` says what callers may rely on, without connections, broker and
awaits: recorded together with the audit entry or not at all, scoring requested
only once recorded and before the answer. 201 says recorded, 422 says never recorded,
and 500 says nothing: scoring may have been requested (`CloseFails`), and the record
may still come (`ServerCommits`). `Promise` in Intake is the refinement mapping.

### StatusSync, with MCStatusSync and StatusSyncProofs

Transactions on one application. Each begins (`since` is its NOW()), writes a
decision, queue entries or nothing, runs `sync_application_status` as three
statements (`ReadDecision`, `ReadQueue`, `Update`) and commits or rolls back.
A statement sees committed rows and those of its own transaction. `Update` waits
for the row lock and keeps it until the end. `Latest` leaves equal created_at
open, as ORDER BY … LIMIT 1 does. `fresh` is a history variable: the
transactions since whose first SELECT nothing was committed.

### Thresholds, with ThresholdsPromise (abstract), MCThresholds and ThresholdsProofs

Seeders of one tenant, each one psycopg transaction: `ReadClock`,
`UpsertTenant` (which takes the lock that serialises them), `Deactivate`,
`SelectDefault`, `Commit` or `Abort`. Administrators add (`AddManual`) and expire
(`Expire`) rows between any two of these steps; they stand for the threshold
management that `hitl/todo.md` plans. `ActiveThreshold(t)` is the query of
`get_active_threshold`. `undisturbed` is a history variable: the seeders since
whose UPDATE no administrator has written.

`ThresholdsPromise` is what the script's "safe to run multiple times" amounts to: a
seed is one step, the first makes the Default row and all others find it again, and
what was active goes off, save rows that administrators added meanwhile. Clocks,
locks, failures and expiry are not in it: the rows do not tell of them. That there is
one Default row at most (`OneDefault`) is part of it, and is a theorem of its own.

### Listing, with ListingProofs

A client asks for page 1, 2, … until a page is not full; each page is a `Count`
and a `Fetch` in snapshots of their own, while other transactions `Insert`,
`Remove` and `Rekey` rows. `PageResults(p)` is the set of pages that some order
compatible with ORDER BY gives: for the queue one, because of its id, for the
applications several when keys are equal or null. `endpoint` chooses between the
two listings, which differ in the tie break and in whether keys may be null; it,
`page_size` and `sort_order` are the client's request and stay as they are during
a walk. The queue takes offset and limit from the client, who is taken to step
by `limit`.

### Validation

ApplicationCreate and `_compute_derived` as operators on bodies that give each of
the six required fields one of ten kinds of values. `Float` is Python's float() on
a kind: a sort of number, or the exception it raises. `MustBePositive` catches two
of the three exceptions, as the validator does; `Derived` reads the same values
once more through `x or 0`. `Form` is what becomes of a body, `Castable` whether
PostgreSQL can cast the stored amount. Intake and Http both build on it.

### Http, with MCHttp and HttpProofs

One client's requests, one at a time, to the three routes of applications, with
every combination of good and bad parameters: the order of the checks decides
between 422, 404 and an exception (`BadQuery`, `NotFound`, `RefuseTenant`,
`CreateRaises`, `ListRaises`, `DetailRaises`). `Limits` are the parameters that pass the
checks and fail in PostgreSQL: a page whose OFFSET is no bigint, text with a NUL; and
every request that gets as far as a statement may find no connection, or lose it.
`Respond` and `Raise` are the two ways out through the
middleware of `main.py`; only the first sets X-Request-ID. The detail view is
`Find` and `Score`, two statements between which others create applications
(`OtherCreates`), add results (`Rescore`, not in the order of created_at) and delete
(`Delete`, with the cascade of `scoring_results`). Requests do not affect each other
except through the tables, so that one in flight, beside others' writes, shows
every answer there is. While an answer is on its way (`pc` is `done`) the model
lets nothing else move, so that an invariant can compare the answer with the
tables it was computed from.

### Queue, with MCQueue and QueueProofs

`Priority` is calculate_queue_priority; entries are queued with it (`Enqueue`), which
`hitl/todo.md:524` plans and no code does yet, and change their status, also
to one that `hitl/prd.md:309` has and the response schema has not. `Prepare` reads
the clock of a summary; `List` and `Summary` are the statements, and `StatementFails` is either of
them without a connection, or a list whose OFFSET is no bigint. A list validates the
rows of its page, which is some part of what the filters select. `Counts` are the
sums of `queue_summary`. `arrived` is a history variable, the time of the request.

### Migrations, with SchemaVersion (abstract) and MigrationsProofs

`Upgrades` and `Downgrades` are the statements of the seven revisions as data: what
each creates or drops and what that refers to. `Accepted` is PostgreSQL's answer
to a statement: no object twice, nothing dropped that others depend on, lenient with
IF EXISTS and OR REPLACE; indexes and triggers go with their table. A command reads
the version (`Begin`), executes statement after statement, at the end of each
revision the change of alembic_version (`Restamp`), and commits once, as
`run_migrations_online` does, or is refused or killed. A statement waits while
another open transaction has touched the same names. `read` and `overtaken` are
history variables: the version this command has read, and whether another one has
committed changes since.

`SchemaVersion` says what whoever runs `alembic upgrade` may rely on, without
statements and locks: the version is compared and set. A command that does anything
takes the database in one step from the version it has read to its target, and only
if that is still the version; all others leave it alone. `Promise` in Migrations is
the refinement mapping; every statement is a stutter.

## 3. Runs

| run | module | checks | distinct states |
|---|---|---|---|
| Intake | MCIntake | TypeOK, AuditTrailExact, NoGhostTask, AnswerTruthful, PoolExact, PromiseSpec, UnreturnedNeverScored, Answered, Delivered | 109 876 |
| IntakeScoring | MCIntake | ScoringTriggered, violated | |
| IntakeStatus | MCIntake | InvalidIs422, violated | |
| StatusSync | MCStatusSync | TypeOK, Backed, FreshSync | 101 655 |
| StatusSyncStale | MCStatusSync | SyncedStatus, violated | |
| Thresholds | MCThresholds | TypeOK, NeverNoneActive, SeedLeavesOne, ServedUnlessLapsed, PromiseSpec, SeedersEnd | 148 496 |
| ThresholdsServed | MCThresholds | SeededIsServed, violated | |
| Listing | Listing | TypeOK, CompleteWhenStill, NoSkipUnderInserts, NoRepeatUnderRemovals, TotalHonest | 2 488 252 |
| ListingTies | Listing | PagesCorrect, violated | |
| Http | MCHttp | TypeOK, RatiosThere, TenantIsolation, DetailFresh | 804 307 |
| Queue | MCQueue | TypeOK, UrgentFirst, HighMeansUrgent, SummaryAddsUp, SlaExact, UnknownStatusContained | 2 383 768 |
| Migrations | Migrations | TypeOK, CatalogMatchesVersion, RefusedOnlyIfOvertaken, PromiseSpec | 60 285 |

What the passing runs show, property by property, is in the comment that precedes
each property in its module.

Bounds, and why they are enough for what is asked:

* Intake: two POSTs and a pool of one connection, so that each can starve the
  other at both of its check-outs; every form of body, an unknown tenant, equal and
  missing external ids; `MaxCopies` 2 (a lost, a kept and a duplicated
  message, by the sender's retry or by a redelivery);
  `MaxCrashes` 1, of either process, at any moment. POSTs share nothing but the
  pool and the broker, so a third one adds no new conflict; the theorems drop
  all these bounds. PoolSize is SQLAlchemy's pool_size plus max_overflow (5 + 10 by
  default), of which other requests may hold any number.
* StatusSync: three transactions, all open at once (`MaxActive`), so that two can
  overtake one; two values of NOW() (`MaxTime` 1), so that commit order and
  created_at can disagree and can tie.
* Thresholds: three seeders (one that holds the lock, one that waits, one that is
  done), one administrator's row, two clock values, and clocks of the seeders that are
  right or one tick ahead (`MaxSkew` 1).
* Listing: three rows and two keys, so that there are ties and rows on either side
  of them; page sizes 1 (up to four pages) and 2 (a last page that is not full).

* Http: two keys and two tenants, so that an id can be another tenant's or not
  there any more; one field of every kind and pairs of fields where the order of the
  checks decides; three results with three creation times (`MaxScores`), so that one
  can be there at the start, one be added between the two reads, and either be the
  newer. A POST is not sent once all `Apps` keys are given, and others leave
  the last one to a POST in flight.
* Queue: two entries, arguments on both sides of each limit (and NULL), two tenants,
  and three hours (`MaxTime` 2), so that a deadline passes between the clock and
  the statement and between two requests.
* Migrations: two commands and five revisions (`Targets`, base and head among them)
  that they go to in any order; a third command could only be one that waits or
  is refused like the second.

Symmetry is used in StatusSync, Http and Queue, over ids which no property or
constant tells apart; the runs with liveness do without. `CHECK_DEADLOCK FALSE` stands
in a cfg where requests, transactions, seeders or walks are finitely many and
really end; Http, Queue and Migrations go on for ever and are checked for
deadlock.

Each property is also shown to be able to fail: next to the definition it mutates,
a module defines a variant with a plausible bug (`Flush_Emits`: the task is sent
before the commit; `UpsertTenant_OwnTransaction`: the tenant is upserted in a
transaction of its own; `Before_NoTieBreak`; …) under which TLC finds the property
violated. `PROJECT.json` lists which variant belongs to which property.

## 4. Fairness

`Intake`: weak fairness of each handler (the event loop runs every coroutine that
is ready, SQLAlchemy's wait for a connection ends with a timeout, and the driver
returns or raises) and of the broker and worker for each message (Celery's
consumer loop, the visibility timeout of Redis). Fairness is on the whole handler,
not on its successful steps: `FlushFails`, `RefreshFails`, `CommitFails` or `CloseFails`
is always a fair choice, and nothing says that a request arrives or that anything
fails. What the server makes of a COMMIT in doubt (`ServerCommits`, `ServerRollsBack`)
and a second delivery (`Redeliver`) are not fair either: no property waits for them.
`Answered` needs no crash bound; `Delivered` speaks of the time after the last
crash (`crashes = MaxCrashes`), since a worker that dies for ever delivers nothing.

`Thresholds`: weak fairness of each seeder's statements. `Abort` is not fair: a
seeder need not fail, and one that has the lock goes on by itself.

The other modules state no liveness: nothing in the repository makes a
caller commit, a client ask for the next page or an operator migrate.

## 5. Proofs

All theorems are of the form `Spec => []P` or `Spec => [][A]_vars` and hold for
every value of the constants under the ASSUMEs of the modules, which only say
what the constants are (members of `Payloads` have a form, `PoolSize` is a positive
number, ids of seeders and of administrators' rows are different …).

* `IntakeProofs`. `IInv` strengthens AuditTrailExact: `Progress` relates the program
  point of a handler to what is committed (past `commit`: recorded; before: not), `Doubt`
  says that a COMMIT in doubt is that of a POST which has ended, without 201 or 422, and
  whose row the database would take,
  `AnswerMeaning` relates the answer to the same, `TaskOrigin` says that a task exists
  only for a recorded POST that is past the emission. AuditTrailExact alone is
  inductive, but NoGhostTask is not: that an emission names a committed row needs
  that the handler is past its commit. From IInv follow `AuditTrailIsExact`,
  `TasksAreReal`, `AnswersAreTrue`; `PoolIsExact` has an invariant of
  its own (finitely many connections, at most PoolSize). `KeepsPromise` is the step
  simulation of IntakePromise, one step per action.
  `FailedPostsStaySilent` (UnreturnedNeverScored) uses `TaskOrigin` for the POST that ends
  before create_application returns; that nothing makes a task appear later is a matter
  of each action of broker, worker and server.
* `StatusSyncProofs`. `Backed` needs that what a transaction is about to write is
  backed by a decision that is committed or its own (`WantBacked`), that decisions are
  never withdrawn once committed, and who holds the row (`LockHeld`). `FreshRead`
  carries what a fresh transaction has read to its commit and gives
  `FreshSyncsAreRight`.
* `ThresholdsProofs`. `Exclusive` (a seeder past its upsert holds the tenant's row),
  `UniqueIds`, `OwnIdUnused` (the uuid a seeder would insert is not in the table),
  `Found` (the row it has selected is the Default row, or there is none) and `AllOff`
  (an undisturbed seeder has deactivated every row) are inductive together with
  OneDefault and NeverNoneActive. `SeedingLeavesOne` follows from `AllOff` and `Found`, and
  `SeedingIsServed` from it and the row that `CommittedDefault` names. For `KeepsPromise`
  the names must tell who made a row, and a seeded tenant must have its Default row
  (`Origins`); only `Commit` and `AddManual` are steps of the promise (`CommitNames`,
  `CommitActive`).
* `HttpProofs`. `ValidBodiesHaveRatios` is the fact about Validation; it makes
  RatiosThere inductive. DetailFresh needs `Awaited`: while the detail view waits, the
  newest result of its application is at least as new as when the request arrived,
  because results are only added, or go with the application, whose key does not come
  back (a key that is not issued yet has no result). That there is a newest result
  is itself an invariant (`HasNewest`), so that no finiteness is needed.
  TenantIsolation follows from what the tables contain when the answer is given: the row
  found by the first read is of the tenant, and the result read by the second is of the
  same id.
* `QueueProofs`. `PriorityOrder` and `HighPriority` are arithmetic about
  calculate_queue_priority for all arguments; `Given` (every entry has the priority of its
  arguments, and is due at most as many hours from now as they say) carries them to the
  queue, and with it HighMeansUrgent to the time of the summary. `CountsAddUp` and
  `DueCount` count: the statuses and the buckets each partition the open entries, and the
  two groups of the SLA those due until the cutoff. SlaExact compares with two other
  times: what the handler has read lies between them (`Clocked`), and time only adds to
  what is due (`DueGrows`). UnknownStatusContained needs only that a list that is run has
  passed its checks (`Checked`).
* `ListingProofs`. All that is known of a page is that its rows, with those before it,
  are some prefix of the order (`APage`). Where the order is determined, the place of a row
  is the number of rows before it (`Ahead`), and the walk has reached place
  `Offset(page + 1)`. NoSkipUnderInserts speaks of the end of a walk and is not
  inductive; `StillToCome` is: a row the client has not been given has a place at or
  past the one the walk has reached, because inserts only move it back. `Past` is its
  mirror image for removals. CompleteWhenStill needs both, and `Still` (without a write
  the table is the one the walk began with). Counting needs `FiniteAssumption`: the
  rows there ever are, which uuids name, are finitely many.
* `MigrationsProofs` is about the revisions of this repository, but any number of commands
  and any targets. Its first part is the only one that looks at the statements:
  `Statements` says of each upgrade and downgrade, statement by statement, what it
  creates or drops and that what it needs is there and nothing depends on what goes
  (`UpgradeStatement`, `DowngradeStatement`). From that alone follow what a command sees
  after k statements if nobody is in its way (`Expected`) and that its next
  statement is accepted then (`StatementWorks`).
  The second part is about commands side by side. A command that was overtaken
  sees anything, so neither CatalogMatchesVersion nor RefusedOnlyIfOvertaken is
  inductive. What makes it harmless is the row of alembic_version: at the end of its
  first revision a command changes the row it has read, and if that is gone it is
  refused. From then on it *leads*: it sees what is `Expected`, and holds the lock
  (`Guard`) without which nobody else can lead. Until then it *follows*
  (`Following`): what it has done is known although what it sees is not, and its
  locks keep that so when the leader commits (`FollowersKeep`). Hence only a leader
  commits anything, and what it commits is the database at its target (`CommitDoes`).
  `ReadInv` adds what each has read; with it each step maps to a step of
  SchemaVersion (`StepRefines`, `KeepsPromise`).

Every invariant, action property and refinement that a passing run checks is also
proved. Only model-checked are the liveness properties `Answered`, `Delivered` and
`SeedersEnd`: temporal proofs under fairness are out of reach of the prover.

## 6. Disagreements between code and documentation

Each is a run that TLC ends with a counterexample.

* IntakeScoring: "Scoring triggered automatically" (`hitl/todo.md:444`). Committed,
  refresh failed (or the send did), never scored.
* IntakeStatus: "Validation errors return 422" (`hitl/todo.md:439`). Text in
  monthly_obligations is a 500.
* StatusSyncStale: the comment of sync_application_status (`006…:19`). Two
  overlapping transactions leave a stale status.
* ThresholdsServed: "default threshold: Default (active)"
  (`seed_dev_data.py:41`). An expired Default row is re-activated with its old
  effective_to and get_active_threshold returns nothing.
* ListingTies: "Pagination returns correct pages" (`hitl/todo.md:470`). Equal sort
  keys under OFFSET.

Observed while modelling, in the models as the code has it, and without a run of its
own:

* `main.py:17` says that the middleware attaches a request id to every response.
  An exception leaves it before the header is set, and Starlette makes the 500 outside
  of it: the responses that fail are those without an id (`Http.Raise`).
* `hitl/prd.md:309` has "pending, assigned, in_progress, completed, escalated, expired"
  for a queue entry, the response schema the first four: a page of GET /queue that
  would show an entry in another status is a 500. `UnknownStatusContained` says how far
  that goes.
* An integer beyond the range of a float makes the validator raise OverflowError,
  which is neither of the two exceptions it catches: a 500 (`MustBePositive`).
* `true` is a loan amount for float() but its text is no numeric: one such row makes
  sort_by=amount fail for its tenant (`CastRaises`).
* One naive and one aware date make GET /applications raise (`CompareRaises`).
* page and offset have no upper bound: an OFFSET beyond bigint is a 500
  (`Http.ListRaises`, `Queue.StatementFails`).
* calculate_queue_priority never gives a number above 50 (`PriorityRange` in
  QueueProofs), so that nothing it has numbered is in the summary's "low" bucket; the
  example of a summary in `hitl/todo.md:534` has five entries there. The number is stored
  once: a large loan whose last two hours begin later stays out of "high".
* Closing the session after a task was sent can fail: a client may be told 500 for a
  POST that is scored (`CloseFails`).
* The list of applications sorts by the maximum score while the detail view shows the
  latest; a comment (`crud/application.py:97`) calls the maximum the choice for now.

## 7. Not modelled, and why

* Logging, the rendering of responses and the text of search filters: no property is
  about them. /health and /ping answer constants.
* Bodies with the bare tokens NaN and Infinity, and quotients of finite numbers that
  overflow to infinity.
* Rows of the tables that no code reads or writes (model registry, notifications,
  similar cases, loan outcomes); the tables are objects of Migrations. What ON DELETE
  does to rows other than the results of a deleted application: no code deletes. What
  the three views compute and the updated_at triggers set: no code reads it.
* alembic's offline mode, which prints SQL and changes nothing, and the creation of the
  table alembic_version itself, which is taken to be there.
* Deployment files, except for the values that are the `Deployments` of Intake.
* The time send_task blocks the event loop for: the models have no clock for it.
* The list and detail handlers' use of the pool: each holds one connection from its
  first query to its end, which is a smaller PoolSize for the intake.

## 8. Plan

Every module planned is written and every safety property of the passing runs is proved.
In this order, what is left:

1. An abstract specification of the status: a sync that nothing overtakes is one step
   that sets the status the committed rows call for; and the proof that StatusSync
   implements it.
2. The same for the listings: a walk as a cursor through an order, which a page advances.
