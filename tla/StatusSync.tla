----------------------------- MODULE StatusSync -----------------------------
(***************************************************************************)
(* sync_application_status, called by concurrent transactions about one    *)
(* application.  The function is VOLATILE and PostgreSQL runs at READ      *)
(* COMMITTED, so that each of its statements takes a snapshot of its own:  *)
(* the decision, the queue and the status are read and written at three    *)
(* different moments, each an action here.                                 *)
(*                                                                         *)
(* What the transactions write before they call the function (a decision, *)
(* a queue entry, the completion of the queue entries, nothing) is left to *)
(* them: the repository has the tables and the function, and no code yet   *)
(* that calls it outside the tests.                                        *)
(***************************************************************************)
EXTENDS Integers, FiniteSets

CONSTANTS
    Txns,      \* transactions that call sync_application_status
    NoTxn,     \* not a transaction
    MaxActive, \* bound: transactions open at once
    MaxTime    \* bound: distinct values of NOW()

ASSUME TxnAssumption == NoTxn \notin Txns

ASSUME TimeAssumption == MaxTime \in Nat /\ MaxActive \in Nat

\* decision_outcome is free text; the function only knows two values of it.
Final == {"approved", "declined"}
Outcomes == Final \cup {"other"}
Statuses == Final \cup {"pending", "review"}

VARIABLES
    pc,        \* where each transaction is
    since,     \* NOW() of a transaction: the time of its BEGIN
    write,     \* what it has written: a decision, queue entries
    want,      \* the status it is going to set
    decisions, \* committed rows of decisions: [by, outcome, at]
    queue,     \* committed rows of analyst_queues still waiting, by writer
    status,    \* committed applications.status
    lock,      \* the transaction that has updated the applications row
    clock,
    fresh      \* history: transactions since whose first read none committed

vars == <<pc, since, write, want, decisions, queue, status, lock, clock, fresh>>
tables == <<decisions, queue, status>>

PCs == {"idle", "open", "sync", "queue", "update", "synced", "committed",
        "aborted"}

Decision == [by : Txns, outcome : Outcomes, at : 0..MaxTime]

Active == {t \in Txns : pc[t] \notin {"idle", "committed", "aborted"}}

NothingWritten == [decided |-> {}, opened |-> {}, closed |-> {}]

Init ==
    /\ pc = [t \in Txns |-> "idle"]
    /\ since = [t \in Txns |-> 0]
    /\ write = [t \in Txns |-> NothingWritten]
    /\ want = [t \in Txns |-> "pending"]
    /\ decisions = {}
    /\ queue = {}
    /\ status = "pending"
    /\ lock = NoTxn
    /\ clock = 0
    /\ fresh = {}

Go(t, from, to) ==
    /\ pc[t] = from
    /\ pc' = [pc EXCEPT ![t] = to]

\* A statement sees what is committed and what its own transaction has done.
SeenDecisions(t) == decisions \cup write[t].decided
SeenQueue(t) == (queue \cup write[t].opened) \ write[t].closed

-----------------------------------------------------------------------------
(* The caller's statements.                                                *)

Begin(t) ==
    /\ Cardinality(Active) < MaxActive
    /\ Go(t, "idle", "open")
    /\ since' = [since EXCEPT ![t] = clock]
    /\ UNCHANGED <<write, want, tables, lock, clock, fresh>>

\* created_at of a decision is NOW(), the time its transaction began.
Decide(t) ==
    \E o \in Outcomes :
        write' = [write EXCEPT ![t].decided =
                      {[by |-> t, outcome |-> o, at |-> since[t]]}]

Enqueue(t) == write' = [write EXCEPT ![t].opened = {t}]

Complete(t) == write' = [write EXCEPT ![t].closed = queue]

Write(t) ==
    /\ Go(t, "open", "sync")
    /\ Decide(t) \/ Enqueue(t) \/ Complete(t) \/ UNCHANGED write
    /\ UNCHANGED <<since, want, tables, lock, clock, fresh>>

-----------------------------------------------------------------------------
(* sync_application_status.                                                *)

\* ORDER BY created_at DESC LIMIT 1 returns one of these.
Latest(D) == {d \in D : \A e \in D : e.at <= d.at}

Chosen(t, o) ==
    IF SeenDecisions(t) = {} THEN o = "other"
    ELSE \E d \in Latest(SeenDecisions(t)) : d.outcome = o

\* Mutant: every outcome but 'approved' counts as a refusal.
ReadDecision_ElseDeclined(t) ==
    \E o \in Outcomes :
        /\ Chosen(t, o)
        /\ Go(t, "sync", IF SeenDecisions(t) = {} THEN "queue" ELSE "update")
        /\ want' = [want EXCEPT ![t] =
                        IF o = "approved" THEN "approved" ELSE "declined"]
        /\ fresh' = fresh \cup {t}
        /\ UNCHANGED <<since, write, tables, lock, clock>>

\* Mutant: a decision with any other outcome returns as well.
ReadDecision_Returns(t) ==
    \E o \in Outcomes :
        /\ Chosen(t, o)
        /\ \/ /\ o \in Final
              /\ Go(t, "sync", "update")
              /\ want' = [want EXCEPT ![t] = o]
           \/ /\ o \notin Final
              /\ Go(t, "sync", IF SeenDecisions(t) = {} THEN "queue" ELSE "synced")
              /\ UNCHANGED want
        /\ fresh' = fresh \cup {t}
        /\ UNCHANGED <<since, write, tables, lock, clock>>

\* The first SELECT.  An application without decision and one whose latest
\* decision is neither approved nor declined go on to the queue.
ReadDecision(t) ==
    \E o \in Outcomes :
        /\ Chosen(t, o)
        /\ \/ /\ o \in Final
              /\ Go(t, "sync", "update")
              /\ want' = [want EXCEPT ![t] = o]
           \/ /\ o \notin Final
              /\ Go(t, "sync", "queue")
              /\ UNCHANGED want
        /\ fresh' = fresh \cup {t}
        /\ UNCHANGED <<since, write, tables, lock, clock>>

\* Mutant: the queue entry's own status is copied, not 'review'.
ReadQueue_EntryStatus(t) ==
    /\ \/ /\ SeenQueue(t) # {}
          /\ Go(t, "queue", "update")
          /\ want' = [want EXCEPT ![t] = "in_progress"]
       \/ /\ SeenQueue(t) = {}
          /\ Go(t, "queue", "synced")
          /\ UNCHANGED want
    /\ UNCHANGED <<since, write, tables, lock, clock, fresh>>

\* SELECT EXISTS.  Without a waiting entry the status is left alone.
ReadQueue(t) ==
    /\ \/ /\ SeenQueue(t) # {}
          /\ Go(t, "queue", "update")
          /\ want' = [want EXCEPT ![t] = "review"]
       \/ /\ SeenQueue(t) = {}
          /\ Go(t, "queue", "synced")
          /\ UNCHANGED want
    /\ UNCHANGED <<since, write, tables, lock, clock, fresh>>

\* UPDATE waits for the row, then sets the status it has decided on whatever
\* was committed meanwhile.  (The foreign keys of decisions and analyst_queues
\* take KEY SHARE on the row, which this does not conflict with.)
Update(t) ==
    /\ lock = NoTxn
    /\ lock' = t
    /\ Go(t, "update", "synced")
    /\ UNCHANGED <<since, write, want, tables, clock, fresh>>

-----------------------------------------------------------------------------
Commit(t) ==
    /\ Go(t, "synced", "committed")
    /\ decisions' = SeenDecisions(t)
    /\ queue' = SeenQueue(t)
    /\ IF lock = t
       THEN status' = want[t] /\ lock' = NoTxn
       ELSE UNCHANGED <<status, lock>>
    /\ fresh' = {}
    /\ UNCHANGED <<since, write, want, clock>>

\* An error, or the client's connection is lost.
Rollback(t) ==
    /\ t \in Active
    /\ pc' = [pc EXCEPT ![t] = "aborted"]
    /\ lock' = IF lock = t THEN NoTxn ELSE lock
    /\ UNCHANGED <<since, write, want, tables, clock, fresh>>

Tick ==
    /\ clock < MaxTime
    /\ clock' = clock + 1
    /\ UNCHANGED <<pc, since, write, want, tables, lock, fresh>>

Next ==
    \/ \E t \in Txns :
          \/ Begin(t) \/ Write(t)
          \/ ReadDecision(t) \/ ReadQueue(t) \/ Update(t)
          \/ Commit(t) \/ Rollback(t)
    \/ Tick

Spec == Init /\ [][Next]_vars

-----------------------------------------------------------------------------
(* Properties.                                                             *)

Writes == [decided : SUBSET Decision, opened : SUBSET Txns,
           closed : SUBSET Txns]

\* applications.status only ever gets a value that its readers know, and what is
\* committed was written by one of the transactions.
TypeOK ==
    /\ pc \in [Txns -> PCs]
    /\ since \in [Txns -> 0..MaxTime]
    /\ write \in [Txns -> Writes]
    /\ want \in [Txns -> Statuses]
    /\ decisions \subseteq Decision
    /\ queue \subseteq Txns
    /\ status \in Statuses
    /\ lock \in Txns \cup {NoTxn}
    /\ clock \in 0..MaxTime
    /\ fresh \subseteq Txns

\* However the statements of concurrent transactions interleave, and whichever
\* of them roll back, an application is approved or declined only if a decision
\* with that outcome is committed: sync_application_status never publishes a
\* decision that was rolled back and never invents one.
Backed ==
    status \in Final => \E d \in decisions : d.outcome = status

\* The status the function's comment asks for, given committed rows: that of a
\* decision no other was made after, else "review" while an entry waits, else
\* the one there is.  Decisions made in the same instant leave a choice.
LastWord(d, D) == ~\E e \in D : e.at > d.at

Wanted(D, Q, s) ==
    LET undecided == IF Q = {} THEN s ELSE "review"
    IN  IF D = {} THEN {undecided}
        ELSE {IF d.outcome \in Final THEN d.outcome ELSE undecided :
                 d \in {e \in D : LastWord(e, D)}}

\* A transaction that no other commit has overtaken since the first read of
\* its sync leaves the status that the committed decisions and queue call for,
\* whatever status it found, however many transactions are open beside it, and
\* however long it waited for the row.
FreshSync ==
    [][\A t \in Txns :
          (t \in fresh /\ pc[t] = "synced" /\ pc'[t] = "committed")
             => status' \in Wanted(decisions', queue', status)]_vars

\* 006_views_and_sync_status.py: "if latest decision exists ->
\* approved/declined; else if in queue -> review; else keep current".  Between
\* transactions the status is the one the committed rows call for.  Two
\* transactions that overlap break it: the later UPDATE writes what its older
\* snapshot called for.
SyncedStatus == Active = {} => status \in Wanted(decisions, queue, status)
=============================================================================
