----------------------------- MODULE Thresholds -----------------------------
(***************************************************************************)
(* The decision thresholds of one tenant: seed_dev_data, run by several    *)
(* processes at once ("safe to run multiple times"), administrators who    *)
(* add and expire rows meanwhile, and get_active_threshold, which reads    *)
(* the one row that counts.                                                *)
(*                                                                         *)
(* A seeder is one READ COMMITTED transaction.  Its first statement, the   *)
(* upsert of the tenant's slug, locks the tenant's row until the end and   *)
(* so puts the seeders in a queue.  Administrators only reference that row *)
(* (KEY SHARE) and do not wait for it; each of theirs is one statement.    *)
(***************************************************************************)
EXTENDS Integers, FiniteSets

CONSTANTS
    Seeders,   \* runs of seed_dev_data; also the uuid4 of the row each inserts
    Manual,    \* rows that administrators insert
    NoOne,     \* no seeder, no row
    MaxTime,   \* bound: values of the clock
    MaxSkew    \* how far a seeder's clock may be ahead of the database's

ASSUME IdAssumption == NoOne \notin Seeders \cup Manual /\ Seeders \cap Manual = {}

ASSUME TimeAssumption == MaxTime \in Nat /\ MaxSkew \in Nat

VARIABLES
    pc,          \* where each seeder is
    now,         \* the seeder's clock, read before it connects
    off,         \* rows its UPDATE has deactivated, and locked
    target,      \* the row named Default it has found
    tenant,      \* the tenant's row is committed
    lock,        \* the seeder that holds the tenant's row
    rows,        \* committed rows of decision_thresholds
    clock,
    undisturbed  \* history: seeders since whose UPDATE no administrator wrote

vars == <<pc, now, off, target, tenant, lock, rows, clock, undisturbed>>

PCs == {"idle", "upsert", "deactivate", "select", "commit", "committed",
        "aborted"}

Never == -1  \* effective_to IS NULL

Ids == Seeders \cup Manual

Row == [id : Ids, name : {"Default", "Manual"}, is_active : BOOLEAN,
        effective_from : 0..(MaxTime + MaxSkew),
        effective_to : 0..MaxTime \cup {Never}]

Init ==
    /\ pc = [s \in Seeders |-> "idle"]
    /\ now = [s \in Seeders |-> 0]
    /\ off = [s \in Seeders |-> {}]
    /\ target = [s \in Seeders |-> NoOne]
    /\ tenant = FALSE
    /\ lock = NoOne
    /\ rows = {}
    /\ clock = 0
    /\ undisturbed = {}

-----------------------------------------------------------------------------
(* seed_dev_data.                                                          *)

Go(s, from, to) ==
    /\ pc[s] = from
    /\ pc' = [pc EXCEPT ![s] = to]

\* Mutant: datetime.now() without a zone, east of Greenwich.
ReadClock_LocalTime(s) ==
    /\ Go(s, "idle", "upsert")
    /\ now' = [now EXCEPT ![s] = clock + MaxSkew + 1]
    /\ UNCHANGED <<off, target, tenant, lock, rows, clock, undisturbed>>

\* now = datetime.now(timezone.utc), on the seeder's own clock.
ReadClock(s) ==
    /\ Go(s, "idle", "upsert")
    /\ \E k \in 0..MaxSkew : now' = [now EXCEPT ![s] = clock + k]
    /\ UNCHANGED <<off, target, tenant, lock, rows, clock, undisturbed>>

\* Mutant: the tenant is upserted in a transaction of its own.
UpsertTenant_OwnTransaction(s) ==
    /\ Go(s, "upsert", "deactivate")
    /\ lock = NoOne
    /\ tenant' = TRUE
    /\ UNCHANGED <<now, off, target, lock, rows, clock, undisturbed>>

\* INSERT INTO tenants ON CONFLICT DO UPDATE waits for the seeder that holds
\* the row, also when that one has not committed the insertion.  The upserts of
\* the two users follow under the same lock.
UpsertTenant(s) ==
    /\ Go(s, "upsert", "deactivate")
    /\ lock = NoOne
    /\ lock' = s
    /\ UNCHANGED <<now, off, target, tenant, rows, clock, undisturbed>>

\* Mutant: the connection is in autocommit mode.
Deactivate_Autocommit(s) ==
    /\ Go(s, "deactivate", "select")
    /\ rows' = {[r EXCEPT !.is_active = FALSE] : r \in rows}
    /\ off' = [off EXCEPT ![s] = {r.id : r \in rows}]
    /\ undisturbed' = undisturbed \cup {s}
    /\ UNCHANGED <<now, target, tenant, lock, clock>>

\* Mutant: only the thresholds that this script names are switched off.
Deactivate_OnlyDefault(s) ==
    /\ Go(s, "deactivate", "select")
    /\ off' = [off EXCEPT ![s] = {r.id : r \in {q \in rows : q.name = "Default"}}]
    /\ undisturbed' = undisturbed \cup {s}
    /\ UNCHANGED <<now, target, tenant, lock, rows, clock>>

\* UPDATE decision_thresholds SET is_active = false: what is committed now.
Deactivate(s) ==
    /\ Go(s, "deactivate", "select")
    /\ off' = [off EXCEPT ![s] = {r.id : r \in rows}]
    /\ undisturbed' = undisturbed \cup {s}
    /\ UNCHANGED <<now, target, tenant, lock, rows, clock>>

\* SELECT id WHERE name = 'Default' LIMIT 1.  The statement that follows it
\* writes a row of the seeder's own or one that it has locked, and is therefore
\* left to the commit.
SelectDefault(s) ==
    /\ Go(s, "select", "commit")
    /\ \/ \E r \in rows :
             r.name = "Default" /\ target' = [target EXCEPT ![s] = r.id]
       \/ /\ \A r \in rows : r.name # "Default"
          /\ UNCHANGED target
    /\ UNCHANGED <<now, off, tenant, lock, rows, clock, undisturbed>>

NewDefault(s) ==
    [id |-> s, name |-> "Default", is_active |-> TRUE,
     effective_from |-> now[s], effective_to |-> Never]

\* Every row of the tenant after the seeder's statements; effective_to of an
\* existing row is not among the columns they set.
Seeded(s) ==
    LET After(r) ==
            IF r.id = target[s]
            THEN [r EXCEPT !.is_active = TRUE, !.effective_from = now[s]]
            ELSE [r EXCEPT !.is_active = @ /\ r.id \notin off[s]]
    IN  {After(r) : r \in rows}
           \cup (IF target[s] = NoOne THEN {NewDefault(s)} ELSE {})

Commit(s) ==
    /\ Go(s, "commit", "committed")
    /\ rows' = Seeded(s)
    /\ tenant' = TRUE
    /\ lock' = IF lock = s THEN NoOne ELSE lock
    /\ off' = [off EXCEPT ![s] = {}]
    /\ UNCHANGED <<now, target, clock, undisturbed>>

\* Mutant: a seeder that fails leaves its connection open.
Abort_LeaksConnection(s) ==
    /\ pc[s] \notin {"idle", "committed", "aborted"}
    /\ pc' = [pc EXCEPT ![s] = "aborted"]
    /\ UNCHANGED <<now, off, target, tenant, lock, rows, clock, undisturbed>>

\* An error, or the seeder's process dies.
Abort(s) ==
    /\ pc[s] \notin {"idle", "committed", "aborted"}
    /\ pc' = [pc EXCEPT ![s] = "aborted"]
    /\ lock' = IF lock = s THEN NoOne ELSE lock
    /\ off' = [off EXCEPT ![s] = {}]
    /\ UNCHANGED <<now, target, tenant, rows, clock, undisturbed>>

-----------------------------------------------------------------------------
(* Administrators, and time.                                               *)

AddManual(m) ==
    /\ tenant
    /\ \A r \in rows : r.id # m
    /\ rows' = rows \cup {[id |-> m, name |-> "Manual", is_active |-> TRUE,
                           effective_from |-> clock, effective_to |-> Never]}
    /\ undisturbed' = {}
    /\ UNCHANGED <<pc, now, off, target, tenant, lock, clock>>

\* Sets effective_to of a row that no seeder has locked.
Expire(r) ==
    /\ r.effective_to = Never
    /\ \A s \in Seeders : r.id \notin off[s]
    /\ rows' = (rows \ {r}) \cup {[r EXCEPT !.effective_to = clock]}
    /\ undisturbed' = {}
    /\ UNCHANGED <<pc, now, off, target, tenant, lock, clock>>

Tick ==
    /\ clock < MaxTime
    /\ clock' = clock + 1
    /\ UNCHANGED <<pc, now, off, target, tenant, lock, rows, undisturbed>>

Next ==
    \/ \E s \in Seeders :
          \/ ReadClock(s) \/ UpsertTenant(s) \/ Deactivate(s)
          \/ SelectDefault(s) \/ Commit(s) \/ Abort(s)
    \/ \E m \in Manual : AddManual(m)
    \/ \E r \in rows : Expire(r)
    \/ Tick

Spec == Init /\ [][Next]_vars

\* A seeder that can go on does; time, administrators and failures need not
\* come.
Seeding(s) ==
    UpsertTenant(s) \/ Deactivate(s) \/ SelectDefault(s) \/ Commit(s)

FairSpec == Spec /\ \A s \in Seeders : WF_vars(Seeding(s))

-----------------------------------------------------------------------------
(* get_active_threshold, called in a transaction that began at t.          *)

\* Mutant: a row is not yet effective at the instant it starts.
Effective_Strict(r, t) ==
    /\ r.is_active
    /\ r.effective_from < t
    /\ r.effective_to = Never \/ r.effective_to > t

Effective(r, t) ==
    /\ r.is_active
    /\ r.effective_from <= t
    /\ r.effective_to = Never \/ r.effective_to > t

\* The rows that ORDER BY effective_from DESC LIMIT 1 may return.
ActiveThreshold(t) ==
    LET eligible == {r \in rows : Effective(r, t)}
    IN  {r \in eligible :
            \A q \in eligible : q.effective_from <= r.effective_from}

-----------------------------------------------------------------------------
(* Properties.                                                             *)

\* Rows are built by the seeders and the administrators only, with an
\* effective_from no further ahead than a seeder's clock may be.
TypeOK ==
    /\ pc \in [Seeders -> PCs]
    /\ now \in [Seeders -> 0..(MaxTime + MaxSkew)]
    /\ off \in [Seeders -> SUBSET Ids]
    /\ target \in [Seeders -> Ids \cup {NoOne}]
    /\ tenant \in BOOLEAN
    /\ lock \in Seeders \cup {NoOne}
    /\ rows \subseteq Row
    /\ clock \in 0..MaxTime
    /\ undisturbed \subseteq Seeders

\* The script is "safe to run multiple times", also at the same time and also
\* for the first time: SELECT and INSERT of the Default threshold are two
\* statements and no constraint makes the name unique, but the tenant's lock
\* keeps a second seeder from looking before the first has committed.  PromiseSpec
\* says more and is what a run checks.
OneDefault ==
    \A q, r \in rows : q.name = "Default" /\ r.name = "Default" => q = r

\* Once the tenant is seeded no reader finds it without an active row, however
\* seeders overlap and fail: the rows go off and one comes on in one commit.
NeverNoneActive == tenant => \E r \in rows : r.is_active

\* "ensure exactly one active default threshold": when a seeder commits, the
\* Default threshold is the only active one, unless an administrator wrote
\* between its UPDATE and its COMMIT.
SeedLeavesOne ==
    [][\A s \in Seeders :
          (s \in undisturbed /\ pc[s] = "commit" /\ pc'[s] = "committed")
             => \A r \in rows' : r.is_active <=> r.name = "Default"]_vars

\* Every seeder that has started ends: none waits for ever on the tenant.
SeedersEnd ==
    \A s \in Seeders :
        pc[s] \notin {"idle", "committed", "aborted"}
            ~> pc[s] \in {"committed", "aborted"}

Lapsed(r, t) == r.effective_to # Never /\ r.effective_to <= t

\* A seeder whose clock is not ahead of the database's and that finds no expired
\* Default row leaves one that get_active_threshold returns, from the instant of
\* the commit on and alone, although effective_from was fixed before the seeder
\* waited for the tenant; unless an administrator wrote meanwhile.
ServedUnlessLapsed ==
    [][\A s \in Seeders :
          (/\ s \in undisturbed /\ pc[s] = "commit" /\ pc'[s] = "committed"
           /\ now[s] <= clock
           /\ \A r \in rows : r.name = "Default" => ~Lapsed(r, clock))
             => /\ ActiveThreshold(clock)' # {}
                /\ \A r \in ActiveThreshold(clock)' : r.name = "Default"]_vars

IdsOf(R) == {r.id : r \in R}

Promise == INSTANCE ThresholdsPromise WITH
    defaults <- IdsOf({r \in rows : r.name = "Default"}),
    others <- IdsOf({r \in rows : r.name = "Manual"}),
    active <- IdsOf({r \in rows : r.is_active})

\* The script is "safe to run multiple times": seeders that overlap, wait, fail
\* and are disturbed do to the committed rows what whole seeds one after the
\* other do.  The Default row is the same for ever, and no row goes off but
\* with a seed that leaves the Default one on.
PromiseSpec == Promise!Spec

\* seed_dev_data.py: "default threshold: Default (active)".  When a seeder that
\* nobody disturbed commits, get_active_threshold returns the Default row.  It
\* does not when that row had been expired: the script sets is_active and
\* effective_from and leaves effective_to in the past.
SeededIsServed ==
    [][\A s \in Seeders :
          (s \in undisturbed /\ pc[s] = "commit" /\ pc'[s] = "committed")
             => \E r \in ActiveThreshold(clock)' : r.name = "Default"]_vars
=============================================================================
