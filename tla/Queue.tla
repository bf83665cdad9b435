-------------------------------- MODULE Queue --------------------------------
(***************************************************************************)
(* The analyst queue as its two endpoints show it: GET /queue and          *)
(* GET /queue/summary, over entries whose priority calculate_queue_priority*)
(* has given and whose status others change while a request is served.     *)
(*                                                                         *)
(* Each endpoint is one statement, but the summary compares deadlines with *)
(* a time the handler read before.  Pages are Listing's.  analyst_queues   *)
(* has no tenant: both endpoints join applications for it.                 *)
(***************************************************************************)
EXTENDS Integers, FiniteSets

CONSTANTS
    Entries,   \* ids of analyst_queues
    Tenants,   \* ids of tenants
    Malformed, \* a tenant_id that is no uuid
    Cases,     \* arguments of calculate_queue_priority: [loan, vip, hours]
    Null,      \* SQL NULL, a parameter that is not given
    MaxTime    \* bound: the hours of a behaviour

ASSUME CaseAssumption ==
    \A c \in Cases : /\ c.loan \in Nat \cup {Null}
                     /\ c.vip \in BOOLEAN
                     /\ c.hours \in Nat

ASSUME NullAssumption ==
    Null \notin Nat /\ Malformed \notin Tenants /\ MaxTime \in Nat

VARIABLES
    queue,  \* committed entries, with the tenant of their application
    now,    \* the hour
    pc,     \* "idle", "handler", "query", "done": the request
    req,    \* its endpoint and parameters
    arrived,\* history: the hour at which a request for the summary came in
    asOf,   \* the time its handler has read
    answer  \* status, the entries of a list, the counts of a summary

vars == <<queue, now, pc, req, arrived, asOf, answer>>

\* What is stored in status: the column is a VARCHAR without a constraint, and
\* hitl/prd.md:309 has two statuses more than the response schema.
Statuses == {"pending", "assigned", "in_progress", "completed", "escalated"}

\* QueueStatus
Known == {"pending", "assigned", "in_progress", "completed"}

\* The statuses one can filter by, and those the summary is about.
Open == {"pending", "assigned", "in_progress"}

-----------------------------------------------------------------------------
(* calculate_queue_priority.  A comparison with NULL is not true.          *)

Over(loan, limit) == loan # Null /\ loan > limit

\* Mutant: the limits are tried in ascending order.
LoanBonus_Ascending(loan) ==
    IF Over(loan, 1000000) THEN 5
    ELSE IF Over(loan, 2000000) THEN 10
    ELSE IF Over(loan, 5000000) THEN 15
    ELSE 0

LoanBonus(loan) ==
    IF Over(loan, 5000000) THEN 15
    ELSE IF Over(loan, 2000000) THEN 10
    ELSE IF Over(loan, 1000000) THEN 5
    ELSE 0

SlaBonus(hours) ==
    IF hours < 2 THEN 20 ELSE IF hours < 4 THEN 10 ELSE IF hours < 8 THEN 5 ELSE 0

Clamp(n) == IF n < 1 THEN 1 ELSE IF n > 100 THEN 100 ELSE n

\* Mutant: a VIP is one more bonus.
Priority_VipBonus(c) ==
    Clamp(50 - LoanBonus(c.loan) - SlaBonus(c.hours) - (IF c.vip THEN 10 ELSE 0))

Priority(c) ==
    IF c.vip THEN 10 ELSE Clamp(50 - LoanBonus(c.loan) - SlaBonus(c.hours))

-----------------------------------------------------------------------------
(* Requests and answers.                                                   *)

\* A status that is none of the three stands for every parameter that is refused,
\* priority_max for the filters that are compared as they are; sort, limit and
\* offset only decide which page of the entries List shows.
Lists == [endpoint : {"list"}, tenant : Tenants \cup {Malformed},
          status : Open \cup {Null, "other"}, priority_max : {Null, 20}]
Summaries == [endpoint : {"summary"}, tenant : Tenants \cup {Malformed}]

Idle == [endpoint |-> "none"]

NoCounts == [f \in {"pending", "assigned", "in_progress", "approaching",
                    "breached", "high", "medium", "low"} |-> 0]

Answer(status, items, counts) ==
    [status |-> status, items |-> items, counts |-> counts]

NoAnswer == Answer("none", {}, NoCounts)

Init ==
    /\ queue = {}
    /\ now = 0
    /\ pc = "idle"
    /\ req = Idle
    /\ arrived = 0
    /\ asOf = 0
    /\ answer = NoAnswer

Receive ==
    /\ pc = "idle"
    /\ pc' = "handler"
    /\ req' \in Lists \cup Summaries
    /\ arrived' = IF req'.endpoint = "summary" THEN now ELSE 0
    /\ UNCHANGED <<queue, now, asOf, answer>>

Respond(a) ==
    /\ pc' = "done"
    /\ answer' = a
    /\ UNCHANGED <<queue, now, req, arrived, asOf>>

\* The checks of both handlers; any that fails gives a 422.
BadRequest ==
    \/ req.tenant = Malformed
    \/ req.endpoint = "list" /\ req.status = "other"

Refuse ==
    /\ pc = "handler"
    /\ BadRequest
    /\ Respond(Answer("422", {}, NoCounts))

\* Mutant: the cutoff of what is approaching is taken for the time.
Prepare_Cutoff ==
    /\ pc = "handler"
    /\ ~BadRequest
    /\ pc' = "query"
    /\ asOf' = IF req.endpoint = "summary" THEN now + 2 ELSE 0
    /\ UNCHANGED <<queue, now, req, arrived, answer>>

\* Up to the await: queue_summary reads the clock.
Prepare ==
    /\ pc = "handler"
    /\ ~BadRequest
    /\ pc' = "query"
    /\ asOf' = IF req.endpoint = "summary" THEN now ELSE 0
    /\ UNCHANGED <<queue, now, req, arrived, answer>>

\* The statement of either endpoint is not answered: the pool has no connection
\* in time, or it breaks, or the OFFSET, which has no upper bound, is no bigint.
StatementFails ==
    /\ pc = "query"
    /\ Respond(Answer("500", {}, NoCounts))

-----------------------------------------------------------------------------
(* list_queue_entries.                                                     *)

\* Mutant: a status that is given is not compared.
Selected_AnyStatus ==
    {e \in queue : /\ e.tenant = req.tenant
                   /\ req.priority_max # Null => e.priority <= req.priority_max}

Selected ==
    {e \in queue : /\ e.tenant = req.tenant
                   /\ req.status # Null => e.status = req.status
                   /\ req.priority_max # Null => e.priority <= req.priority_max}

\* AnalystQueueRead.model_validate of every row of the page; an exception is a
\* 500.
List ==
    /\ pc = "query"
    /\ req.endpoint = "list"
    /\ \E page \in SUBSET Selected :
          Respond(IF \A e \in page : e.status \in Known
                  THEN Answer("200", page, NoCounts)
                  ELSE Answer("500", {}, NoCounts))

-----------------------------------------------------------------------------
(* queue_summary.                                                          *)

\* Mutant: completed entries are not left out of the subquery.
Base_All == {e \in queue : e.tenant = req.tenant}

Base == {e \in queue : e.tenant = req.tenant /\ e.status \in Open}

\* Mutant: a deadline that is now counts for neither.
Breached_Strict(e) == e.due < asOf

Breached(e) == e.due <= asOf

Approaching(e) == e.due > asOf /\ e.due <= asOf + 2

\* "high" is priority <= 20, "medium" up to 50.
Level(e) ==
    IF e.priority <= 20 THEN "high"
    ELSE IF e.priority <= 50 THEN "medium"
    ELSE "low"

\* The sums of the statement; without any row SUM gives NULL, which becomes 0.
Counts ==
    [f \in DOMAIN NoCounts |->
        Cardinality({e \in Base :
            CASE f \in Open -> e.status = f
              [] f = "approaching" -> Approaching(e)
              [] f = "breached" -> Breached(e)
              [] OTHER -> Level(e) = f})]

Summary ==
    /\ pc = "query"
    /\ req.endpoint = "summary"
    /\ Respond(Answer("200", {}, Counts))

\* Only now does the model let the queue change again, which cannot be seen in
\* the answer.
Close ==
    /\ pc = "done"
    /\ pc' = "idle"
    /\ req' = Idle
    /\ arrived' = 0
    /\ asOf' = 0
    /\ answer' = NoAnswer
    /\ UNCHANGED <<queue, now>>

-----------------------------------------------------------------------------
(* Everybody else.                                                         *)

Writing == pc # "done" /\ UNCHANGED <<now, pc, req, arrived, asOf, answer>>

\* An application is queued; the deadline is as many hours away as the function
\* is told.
Enqueue(e) ==
    /\ Writing
    /\ \A f \in queue : f.id # e
    /\ \E t \in Tenants, c \in Cases :
          queue' = queue \cup
             {[id |-> e, tenant |-> t, case |-> c, priority |-> Priority(c),
               due |-> now + c.hours, status |-> "pending"]}

\* The workflow, or a job that expires or escalates an entry.
SetStatus(e) ==
    /\ Writing
    /\ \E s \in Statuses \ {e.status} :
          queue' = (queue \ {e}) \cup {[e EXCEPT !.status = s]}

Tick ==
    /\ pc # "done"
    /\ now < MaxTime
    /\ now' = now + 1
    /\ UNCHANGED <<queue, pc, req, arrived, asOf, answer>>

Next ==
    \/ Receive \/ Refuse \/ Prepare \/ List \/ Summary \/ StatementFails \/ Close
    \/ \E e \in Entries : Enqueue(e)
    \/ \E e \in queue : SetStatus(e)
    \/ Tick

Spec == Init /\ [][Next]_vars

-----------------------------------------------------------------------------
(* Properties.                                                             *)

Rows == [id : Entries, tenant : Tenants, case : Cases, priority : 1..100,
         due : Nat, status : Statuses]

\* Entries are identified by their id, and a request is one the routes receive.
TypeOK ==
    /\ queue \subseteq Rows
    /\ \A e, f \in queue : e.id = f.id => e = f
    /\ now \in 0..MaxTime
    /\ pc \in {"idle", "handler", "query", "done"}
    /\ req \in {Idle} \cup Lists \cup Summaries
    /\ asOf \in 0..now
    /\ arrived \in 0..now
    /\ answer.status \in {"none", "200", "422", "500"}
    /\ answer.items \subseteq queue
    /\ answer.counts \in [DOMAIN NoCounts -> Nat]

\* At least as urgent by everything calculate_queue_priority is told about; a VIP
\* before everyone who is none.
AtLeastAsUrgent(c, d) ==
    \/ c.vip
    \/ /\ ~d.vip
       /\ c.hours <= d.hours
       /\ d.loan = Null \/ (c.loan # Null /\ c.loan >= d.loan)

\* The steps of calculate_queue_priority never turn two entries around: one that
\* is at least as urgent has no larger priority number, and no combination of loan
\* and deadline overtakes a VIP.
UrgentFirst ==
    \A e, f \in queue :
        AtLeastAsUrgent(e.case, f.case) => e.priority <= f.priority

Summarized == pc = "done" /\ req.endpoint = "summary" /\ answer.status = "200"

\* What a summary is about, at the time of its statement.
OpenEntries == {e \in queue : e.tenant = req.tenant /\ e.status \in Open}

Large(e) == Over(e.case.loan, 2000000)

\* The limit of the "high" bucket fits calculate_queue_priority: every VIP and
\* every loan of more than two million that was queued with less than two hours
\* left is counted, and whoever else is counted has such a loan and, however long
\* ago its priority was computed, less than two hours left now.
HighMeansUrgent ==
    Summarized =>
        /\ Cardinality({e \in OpenEntries :
                          e.case.vip \/ (Large(e) /\ e.case.hours < 2)})
              <= answer.counts["high"]
        /\ answer.counts["high"]
              <= Cardinality({e \in OpenEntries :
                               e.case.vip \/ (Large(e) /\ e.due < now + 2)})

\* The three groups of counts are about the same entries: every open one is in one
\* status and in one bucket, and the metrics of the SLA are about no others.
SummaryAddsUp ==
    LET c == answer.counts
    IN  /\ c["pending"] + c["assigned"] + c["in_progress"]
              = c["high"] + c["medium"] + c["low"]
        /\ c["approaching"] + c["breached"]
              <= c["high"] + c["medium"] + c["low"]

DueBy(t) == Cardinality({e \in OpenEntries : e.due <= t})

\* The handler reads the clock after the request has come in and before the
\* statement is run.  Still no deadline that was over when the request came in is
\* missing from breached and none is in it that is to come; and as breached and
\* approaching together are what is due two hours after some time in between, no
\* entry is in both or has fallen between them.
SlaExact ==
    LET breached == answer.counts["breached"]
        either == answer.counts["approaching"] + breached
    IN  Summarized => /\ DueBy(arrived) <= breached
                      /\ breached <= DueBy(now)
                      /\ DueBy(arrived + 2) <= either
                      /\ either <= DueBy(now + 2)

\* hitl/prd.md:309 has statuses the response schema has not.  When its statement
\* is answered, GET /queue fails only without a status filter, and only for an
\* entry of this tenant in such a status: other tenants' entries and a filtered
\* view are not affected.
UnknownStatusContained ==
    [][List /\ answer'.status # "200"
           => /\ req.status = Null
              /\ \E e \in queue : e.tenant = req.tenant /\ e.status \notin Known]_vars
=============================================================================
