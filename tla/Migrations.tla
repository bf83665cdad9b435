----------------------------- MODULE Migrations -----------------------------
(***************************************************************************)
(* alembic upgrade and downgrade over the seven revisions, by several      *)
(* processes at once (a deployment beside a developer, or two replicas     *)
(* that start).  alembic/env.py runs all the revisions of one command in   *)
(* one transaction: DDL statements, and after the statements of each       *)
(* revision the change of the row in alembic_version.                      *)
(*                                                                         *)
(* The revisions are data below; PostgreSQL decides which statement it     *)
(* refuses: an object that is there already or not there, and a DROP of    *)
(* what others depend on.  A statement waits while another open            *)
(* transaction has touched what it touches, and whoever waits, or runs,    *)
(* may be killed (deadlocks end that way too).                             *)
(***************************************************************************)
EXTENDS Integers, Sequences

CONSTANTS
    Migrators, \* processes that run alembic
    Targets    \* revisions they are told to go to

LastRevision == 7

ASSUME TargetAssumption == Targets \subseteq 0..LastRevision

VARIABLES
    catalog,  \* committed objects, the row of alembic_version among them
    pc,       \* "idle", "running", "refused" (an error ended the command)
    target,   \* where each command goes
    at,       \* the revision it has got to
    step,     \* statements of the current revision it has run
    made,     \* objects its transaction has created
    dropped,  \* names of those it has dropped
    touched,  \* names it holds locks for
    read,     \* history: the version it has read
    overtaken \* history: another command committed since it read the version

vars ==
    <<catalog, pc, target, at, step, made, dropped, touched, read, overtaken>>

-----------------------------------------------------------------------------
(* DDL.  An object has the names of what it refers to.                     *)

Object(kind, name, refs) == [kind |-> kind, name |-> name, refs |-> refs]

\* lenient: IF EXISTS, OR REPLACE.
Create(o) == [op |-> "create", object |-> o, lenient |-> FALSE]
Replace(o) == [op |-> "create", object |-> o, lenient |-> TRUE]
Drop(kind, name) ==
    [op |-> "drop", object |-> Object(kind, name, {}), lenient |-> FALSE]
DropIfExists(kind, name) ==
    [op |-> "drop", object |-> Object(kind, name, {}), lenient |-> TRUE]

Table(name, refs) == Create(Object("table", name, refs))
Index(name, table) == Create(Object("index", name, {table}))
Function(name) == Replace(Object("function", name, {}))
View(name, table) == Replace(Object("view", name, {table}))

\* trg_<table>_updated_at, in both directions.
TriggerName == [
    tenants |-> "trg_tenants_updated_at",
    users |-> "trg_users_updated_at",
    applications |-> "trg_applications_updated_at",
    analyst_queues |-> "trg_analyst_queues_updated_at",
    decision_thresholds |-> "trg_decision_thresholds_updated_at"]

DropTrigger(t) == DropIfExists("trigger", TriggerName[t])

CreateTrigger(t) ==
    Create(Object("trigger", TriggerName[t], {t, "update_updated_at_column"}))

-----------------------------------------------------------------------------
(* The revisions.                                                          *)

Upgrade001 == <<Table("tenants", {}), Table("users", {"tenants"})>>

Downgrade001 == <<Drop("table", "users"), Drop("table", "tenants")>>

Upgrade002 ==
    <<Table("applications", {"tenants"}),
      Index("idx_applications_tenant_status", "applications"),
      Index("idx_applications_submitted", "applications"),
      Table("scoring_results", {"applications"}),
      Index("idx_scoring_application", "scoring_results"),
      Index("idx_scoring_routing", "scoring_results"),
      Table("analyst_queues", {"applications", "users"}),
      Table("decisions", {"applications", "scoring_results", "users"}),
      Index("idx_decisions_application", "decisions"),
      Index("idx_decisions_override", "decisions")>>

Downgrade002 ==
    <<Drop("index", "idx_decisions_override"),
      Drop("index", "idx_decisions_application"),
      Drop("table", "decisions"),
      Drop("table", "analyst_queues"),
      Drop("index", "idx_scoring_routing"),
      Drop("index", "idx_scoring_application"),
      Drop("table", "scoring_results"),
      Drop("index", "idx_applications_submitted"),
      Drop("index", "idx_applications_tenant_status"),
      Drop("table", "applications")>>

Upgrade003 ==
    <<Table("decision_thresholds", {"tenants", "users"}),
      Table("audit_logs", {"tenants", "users"}),
      Index("idx_audit_entity", "audit_logs"),
      Index("idx_audit_created", "audit_logs"),
      Function("update_updated_at_column"),
      DropTrigger("tenants"), CreateTrigger("tenants"),
      DropTrigger("users"), CreateTrigger("users"),
      DropTrigger("applications"), CreateTrigger("applications"),
      DropTrigger("analyst_queues"), CreateTrigger("analyst_queues"),
      DropTrigger("decision_thresholds"), CreateTrigger("decision_thresholds")>>

\* Mutant: the function is dropped before the triggers.
Downgrade003_FunctionFirst ==
    <<DropIfExists("function", "update_updated_at_column"),
      DropTrigger("decision_thresholds"), DropTrigger("analyst_queues"),
      DropTrigger("applications"), DropTrigger("users"), DropTrigger("tenants"),
      Drop("index", "idx_audit_created"),
      Drop("index", "idx_audit_entity"),
      Drop("table", "audit_logs"),
      Drop("table", "decision_thresholds")>>

Downgrade003 ==
    <<DropTrigger("decision_thresholds"), DropTrigger("analyst_queues"),
      DropTrigger("applications"), DropTrigger("users"), DropTrigger("tenants"),
      DropIfExists("function", "update_updated_at_column"),
      Drop("index", "idx_audit_created"),
      Drop("index", "idx_audit_entity"),
      Drop("table", "audit_logs"),
      Drop("table", "decision_thresholds")>>

Upgrade004 ==
    <<Table("model_registry", {}),
      Table("similar_cases", {"applications"}),
      Index("idx_similar_cases_application", "similar_cases"),
      Table("notifications", {"tenants", "users"}),
      Index("idx_notifications_tenant_created", "notifications"),
      Table("loan_outcomes", {"applications"}),
      Index("idx_loan_outcomes_application", "loan_outcomes")>>

Downgrade004 ==
    <<Drop("index", "idx_loan_outcomes_application"),
      Drop("table", "loan_outcomes"),
      Drop("index", "idx_notifications_tenant_created"),
      Drop("table", "notifications"),
      Drop("index", "idx_similar_cases_application"),
      Drop("table", "similar_cases"),
      Drop("table", "model_registry")>>

Upgrade005 ==
    <<Function("calculate_queue_priority"), Function("get_active_threshold")>>

Downgrade005 ==
    <<DropIfExists("function", "get_active_threshold"),
      DropIfExists("function", "calculate_queue_priority")>>

\* A PL/pgSQL body refers to nothing until it runs.
Upgrade006 ==
    <<Function("sync_application_status"),
      View("v_daily_decision_summary", "decisions"),
      View("v_analyst_performance", "decisions"),
      View("v_queue_metrics", "analyst_queues")>>

Downgrade006 ==
    <<DropIfExists("view", "v_queue_metrics"),
      DropIfExists("view", "v_analyst_performance"),
      DropIfExists("view", "v_daily_decision_summary"),
      DropIfExists("function", "sync_application_status")>>

Upgrade007 ==
    <<Index("idx_queue_priority", "analyst_queues"),
      Index("idx_queue_sla", "analyst_queues")>>

Downgrade007 ==
    <<Drop("index", "idx_queue_sla"), Drop("index", "idx_queue_priority")>>

Upgrades == <<Upgrade001, Upgrade002, Upgrade003, Upgrade004, Upgrade005,
              Upgrade006, Upgrade007>>

Downgrades == <<Downgrade001, Downgrade002, Downgrade003, Downgrade004,
                Downgrade005, Downgrade006, Downgrade007>>

\* The row of alembic_version after revision v.
Ids == <<"001_create_tenants_users", "002_create_core_tables",
         "003_thresh_audit_trig", "004_remaining_tables", "005_db_functions",
         "006_views_and_sync_status", "007_queue_indexes">>

Stamp(v) == Object("revision", Ids[v], {})

\* INSERT for the first revision, DELETE back to none, else an UPDATE of the row
\* of the revision before, which alembic wants to have matched.
Restamp(from, to) ==
    (IF from = 0 THEN <<>> ELSE <<Drop("revision", Ids[from])>>)
    \o (IF to = 0 THEN <<>> ELSE <<Create(Stamp(to))>>)

\* What a command does from revision v to the next one on its way to t.
Script(v, t) ==
    IF v < t THEN Upgrades[v + 1] \o Restamp(v, v + 1)
    ELSE Downgrades[v] \o Restamp(v, v - 1)

Toward(v, t) == IF v < t THEN v + 1 ELSE v - 1

-----------------------------------------------------------------------------
Init ==
    /\ catalog = {}
    /\ pc = [m \in Migrators |-> "idle"]
    /\ target = [m \in Migrators |-> 0]
    /\ at = [m \in Migrators |-> 0]
    /\ step = [m \in Migrators |-> 0]
    /\ made = [m \in Migrators |-> {}]
    /\ dropped = [m \in Migrators |-> {}]
    /\ touched = [m \in Migrators |-> {}]
    /\ read = [m \in Migrators |-> 0]
    /\ overtaken = [m \in Migrators |-> FALSE]

\* The transaction is over, one way or the other.
End(m, how) ==
    /\ pc' = [pc EXCEPT ![m] = how]
    /\ target' = [target EXCEPT ![m] = 0]
    /\ at' = [at EXCEPT ![m] = 0]
    /\ step' = [step EXCEPT ![m] = 0]
    /\ made' = [made EXCEPT ![m] = {}]
    /\ dropped' = [dropped EXCEPT ![m] = {}]
    /\ touched' = [touched EXCEPT ![m] = {}]
    /\ read' = [read EXCEPT ![m] = 0]

Running(m) == pc[m] = "running"

Versions(C) == {v \in 1..LastRevision : Stamp(v) \in C}

\* A command starts and reads the version.  (Several rows would be several heads,
\* and the command an error.)
Begin(m) ==
    /\ ~Running(m)
    /\ pc' = [pc EXCEPT ![m] = "running"]
    /\ \E t \in Targets : target' = [target EXCEPT ![m] = t]
    /\ \E v \in 0..LastRevision :
          /\ Versions(catalog) = {v} \ {0}
          /\ at' = [at EXCEPT ![m] = v]
          /\ read' = [read EXCEPT ![m] = v]
    /\ overtaken' = [overtaken EXCEPT ![m] = FALSE]
    /\ UNCHANGED <<catalog, step, made, dropped, touched>>

-----------------------------------------------------------------------------
(* One statement, in PostgreSQL.                                           *)

\* What the transaction sees: all that is committed, and its own changes.
Visible(m) == {o \in catalog : o.name \notin dropped[m]} \cup made[m]

Named(C, name) == {o \in C : o.name = name}

\* Indexes and triggers go with their table.
GoesWith(o, name) == o.kind \in {"index", "trigger"} /\ name \in o.refs

\* What would be left without what it refers to.
Dependents(C, o) ==
    {d \in C : o.name \in d.refs /\ ~(o.kind = "table" /\ GoesWith(d, o.name))}

Accepted(C, s) ==
    IF s.op = "create"
    THEN /\ s.lenient \/ Named(C, s.object.name) = {}
         /\ \A n \in s.object.refs : Named(C, n) # {}
    ELSE IF Named(C, s.object.name) = {} THEN s.lenient
    ELSE \A o \in Named(C, s.object.name) : Dependents(C, o) = {}

Statement(m) == Script(at[m], target[m])[step[m] + 1]

InRevision(m) == Running(m) /\ at[m] # target[m]

Touches(m) ==
    LET s == Statement(m)
    IN  {s.object.name} \cup s.object.refs
          \cup UNION {o.refs : o \in Named(Visible(m), s.object.name)}

\* Nobody else's open transaction stands in the way.
Granted(m) ==
    \A n \in Migrators \ {m} : Touches(m) \cap touched[n] = {}

\* Mutant: one statement too many.
Proceed_OneMore(m) ==
    IF step[m] < Len(Script(at[m], target[m]))
    THEN step' = [step EXCEPT ![m] = @ + 1] /\ UNCHANGED at
    ELSE /\ step' = [step EXCEPT ![m] = 0]
         /\ at' = [at EXCEPT ![m] = Toward(@, target[m])]

\* The last statement of a revision is followed by the first of the next.
Proceed(m) ==
    IF step[m] + 1 < Len(Script(at[m], target[m]))
    THEN step' = [step EXCEPT ![m] = @ + 1] /\ UNCHANGED at
    ELSE /\ step' = [step EXCEPT ![m] = 0]
         /\ at' = [at EXCEPT ![m] = Toward(@, target[m])]

Removed(C, s) ==
    {o \in C : o.name = s.object.name \/ GoesWith(o, s.object.name)}

Execute(m) ==
    /\ InRevision(m)
    /\ Granted(m)
    /\ LET s == Statement(m)
           V == Visible(m)
       IN  /\ Accepted(V, s)
           /\ IF s.op = "create"
              THEN /\ made' = [made EXCEPT ![m] = @ \cup {s.object}]
                   /\ UNCHANGED dropped
              ELSE /\ made' = [made EXCEPT ![m] = @ \ Removed(V, s)]
                   /\ dropped' = [dropped EXCEPT
                         ![m] = @ \cup {o.name : o \in Removed(V, s)}]
    /\ touched' = [touched EXCEPT ![m] = @ \cup Touches(m)]
    /\ Proceed(m)
    /\ UNCHANGED <<catalog, pc, target, read, overtaken>>

\* An error of PostgreSQL, or alembic's when its UPDATE or DELETE has not matched
\* one row: everything the command has done is rolled back.
Refuse(m) ==
    /\ InRevision(m)
    /\ Granted(m)
    /\ ~Accepted(Visible(m), Statement(m))
    /\ End(m, "refused")
    /\ UNCHANGED <<catalog, overtaken>>

\* Mutant: statements are committed as they run; what a killed command has done
\* stays.
Abort_KeepsWork(m) ==
    /\ Running(m)
    /\ catalog' = Visible(m)
    /\ End(m, "idle")
    /\ UNCHANGED overtaken

\* The process dies, is interrupted, or is chosen to end a deadlock.
Abort(m) ==
    /\ Running(m)
    /\ End(m, "idle")
    /\ UNCHANGED <<catalog, overtaken>>

\* Mutant: a transaction for each revision.
Commit_PerRevision(m) ==
    /\ Running(m)
    /\ step[m] = 0
    /\ catalog' = Visible(m)
    /\ overtaken' = [n \in Migrators |->
           overtaken[n] \/ (n # m /\ Running(n) /\ touched[m] # {})]
    /\ End(m, "idle")

\* env.py leaves context.begin_transaction().
Commit(m) ==
    /\ Running(m)
    /\ at[m] = target[m]
    /\ catalog' = Visible(m)
    /\ overtaken' = [n \in Migrators |->
           overtaken[n] \/ (n # m /\ Running(n) /\ touched[m] # {})]
    /\ End(m, "idle")

Next == \E m \in Migrators :
    Begin(m) \/ Execute(m) \/ Refuse(m) \/ Abort(m) \/ Commit(m)

Spec == Init /\ [][Next]_vars

-----------------------------------------------------------------------------
(* Properties.                                                             *)

\* What the revisions 1 to v create.
Schema(v) ==
    UNION {{s.object : s \in {s \in {Upgrades[u][i] : i \in DOMAIN Upgrades[u]} :
                                s.op = "create"}} : u \in 1..v}

Objects == Schema(LastRevision) \cup {Stamp(v) : v \in 1..LastRevision}

\* A command is at a statement of its script, and has created only what some
\* revision creates.
TypeOK ==
    /\ catalog \subseteq Objects
    /\ pc \in [Migrators -> {"idle", "running", "refused"}]
    /\ target \in [Migrators -> Targets \cup {0}]
    /\ at \in [Migrators -> 0..LastRevision]
    /\ \A m \in Migrators :
          /\ step[m] \in Nat
          /\ InRevision(m) => step[m] < Len(Script(at[m], target[m]))
          /\ made[m] \subseteq Objects
          /\ dropped[m] \subseteq {o.name : o \in Objects}
    /\ read \in [Migrators -> 0..LastRevision]
    /\ overtaken \in [Migrators -> BOOLEAN]

\* hitl/todo.md: "All migrations reversible".  Whatever commands have run, in
\* whichever order, interleaved, refused or killed half way, the database holds
\* exactly what the revisions up to its version create, under one version: every
\* downgrade takes away all that its upgrade has made and nothing else, and two
\* commands that started from the same version do not both count.
CatalogMatchesVersion ==
    \E v \in 0..LastRevision :
        catalog = Schema(v) \cup (IF v = 0 THEN {} ELSE {Stamp(v)})

\* No statement of a command that nobody has overtaken is refused, up or down,
\* from any revision to any other: nothing is dropped before what depends on it,
\* or created twice.
RefusedOnlyIfOvertaken ==
    \A m \in Migrators : pc[m] = "refused" => overtaken[m]

\* The version that stands in alembic_version.
VersionOf(C) == CHOOSE v \in 0..LastRevision : Versions(C) = {v} \ {0}

Promise == INSTANCE SchemaVersion WITH
    version <- VersionOf(catalog),
    running <- {m \in Migrators : Running(m)},
    goal <- target

\* One transaction around all the revisions of a command (env.py), and the row of
\* alembic_version changed from what was read: commands that start side by side
\* do nothing but what SchemaVersion lets them.  A database changes from the
\* version a command has read to the version it was told, never to one between,
\* and never on top of what another command has done since.
PromiseSpec == Promise!Spec
=============================================================================
