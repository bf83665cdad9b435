-------------------------------- MODULE Http --------------------------------
(***************************************************************************)
(* The HTTP application as one client sees it: the request-id middleware   *)
(* around POST /applications, GET /applications and GET /applications/{id} *)
(* with everything that can be refused, and the exceptions that become a   *)
(* 500: the handlers' own, those of PostgreSQL about a parameter or a row, *)
(* and, whenever a handler has passed its checks and uses the database, a  *)
(* pool without a free connection or a connection that breaks.             *)
(* Other clients create applications, the scoring service adds results, an *)
(* operator deletes, all while a request is being served.                  *)
(*                                                                         *)
(* Intake has the steps of a POST, Listing the pages of a list and its     *)
(* count; here each is the one statement that decides the answer.  The     *)
(* detail view is two statements with a snapshot each.                     *)
(***************************************************************************)
EXTENDS Validation, FiniteSets

CONSTANTS
    Apps,      \* bound: the keys uuid4 will give to applications
    Tenants,   \* ids of the rows of the tenants table
    Ghost,     \* a uuid that is no tenant's
    Malformed, \* a parameter that is no uuid
    NoId,      \* a parameter or header that is not given
    Bodies,    \* request bodies, less tenant_id and external_id
    Times,     \* values of scoring_results.created_at, in their order
    MaxScores  \* bound: scoring results in the table

ASSUME BodyAssumption == \A b \in Bodies : IsBody(b)

ASSUME IdAssumption ==
    /\ Ghost \notin Tenants
    /\ {Malformed, NoId} \cap (Apps \cup Tenants \cup {Ghost}) = {}
    /\ Malformed # NoId
    /\ NoId \notin {"empty", "caller's"}

ASSUME NumberAssumption == Times \subseteq Nat \ {0} /\ MaxScores \in Nat

VARIABLES
    apps,    \* committed rows of applications
    issued,  \* keys given so far
    scores,  \* committed rows of scoring_results
    pc,      \* "idle", "handler", "scoring" (detail, second read), "done"
    req,     \* the request
    header,  \* its X-Request-ID
    found,   \* the row the detail view has read
    begun,   \* history: created_at of the newest result when req arrived
    answer   \* status, X-Request-ID, applications and scoring result in it

table == <<apps, issued, scores>>
vars == <<table, pc, req, header, found, begun, answer>>

Uuids == Tenants \cup {Ghost}

Request(e, t, k, b, d, s, l) ==
    [endpoint |-> e, tenant |-> t, id |-> k, body |-> b, dates |-> d,
     sort |-> s, limits |-> l]

\* from_date and to_date; "mixed": both are given, one with a time zone.
Dates == {"fine", "reversed", "mixed"}
Sorts == {"created_at", "amount", "score", "other"} \X {"asc", "desc", "other"}

\* page, page_size, status and search.  "refused": below one or too large for
\* Query.  "huge": page has no upper bound, and the OFFSET is no bigint.  "nul":
\* a text with a NUL character, which PostgreSQL has not.
Limits == {"fine", "refused", "huge", "nul"}

\* The uuid of a body is FastAPI's to parse, those of a path or query the
\* handlers'.
Creates == {Request("create", t, NoId, b, NoId, NoId, NoId) :
               t \in Uuids, b \in Bodies}
Lists == {Request("list", t, NoId, NoId, d, s, l) :
             t \in Uuids \cup {Malformed}, d \in Dates, s \in Sorts, l \in Limits}
Details == {Request("detail", t, k, NoId, NoId, NoId, NoId) :
               t \in Uuids \cup {Malformed, NoId}, k \in Apps \cup {Malformed}}

NoRequest == Request("none", NoId, NoId, NoId, NoId, NoId, NoId)

Requests == Creates \cup Lists \cup Details

\* What the columns filled from a body hold, as far as an answer depends on it.
Columns(b) == [castable |-> Castable(b), derived |-> Derived(b)]

Stored == {Columns(b) : b \in {b \in Bodies : Form(b) = "valid"}}

Row(k, t, c) ==
    [id |-> k, tenant |-> t, castable |-> c.castable, derived |-> c.derived]

\* created_at of no scoring result.
NoScore == 0

NoAnswer == [status |-> "none", header |-> NoId, items |-> {}, score |-> NoScore]

ScoreTimes(k) == {s.at : s \in {s \in scores : s.app = k}}

Newest(S) ==
    IF S = {} THEN NoScore ELSE CHOOSE t \in S : \A u \in S : u <= t

Init ==
    /\ apps = {}
    /\ issued = {}
    /\ scores = {}
    /\ pc = "idle"
    /\ req = NoRequest
    /\ header = NoId
    /\ found = {}
    /\ begun = NoScore
    /\ answer = NoAnswer

-----------------------------------------------------------------------------
(* The middleware.                                                         *)

\* X-Request-ID: the caller's unless there is none or it is empty.
RequestId == IF header \in {NoId, "empty"} THEN "generated" ELSE header

\* A response, an HTTPException's too, comes back from call_next.
Respond(status, items, score) ==
    /\ pc' = "done"
    /\ answer' = [status |-> status, header |-> RequestId, items |-> items,
                  score |-> score]
    /\ found' = {}
    /\ UNCHANGED <<req, header, begun>>

\* An exception leaves through the middleware; Starlette answers outside it.
Raise ==
    /\ pc' = "done"
    /\ answer' = [NoAnswer EXCEPT !.status = "500"]
    /\ found' = {}
    /\ UNCHANGED <<req, header, begun>>

Receive ==
    /\ pc = "idle"
    /\ pc' = "handler"
    /\ req' \in Requests
    /\ req'.endpoint = "create" => issued # Apps
    /\ header' \in {NoId, "empty", "caller's"}
    /\ begun' = IF req'.endpoint = "detail" THEN Newest(ScoreTimes(req'.id))
                ELSE NoScore
    /\ UNCHANGED <<table, found, answer>>

\* The answer is on its way; only now does the model let the tables change
\* again, which cannot be seen in it.
Close ==
    /\ pc = "done"
    /\ pc' = "idle"
    /\ req' = NoRequest
    /\ header' = NoId
    /\ begun' = NoScore
    /\ answer' = NoAnswer
    /\ UNCHANGED <<table, found>>

Handling(endpoint) == pc = "handler" /\ req.endpoint = endpoint

-----------------------------------------------------------------------------
(* create_application_endpoint.                                            *)

\* A row is committed, by this client or by another.
Insert(k, t, c) ==
    /\ k \notin issued
    /\ issued' = issued \cup {k}
    /\ apps' = apps \cup {Row(k, t, c)}
    /\ UNCHANGED scores

Create ==
    /\ Handling("create")
    /\ req.tenant \in Tenants
    /\ Form(req.body) = "valid"
    /\ \E k \in Apps :
          /\ Insert(k, req.tenant, Columns(req.body))
          /\ Respond("201", {Row(k, req.tenant, Columns(req.body))}, NoScore)

\* ApplicationCreate raises ValidationError.
RefuseBody ==
    /\ Handling("create")
    /\ Form(req.body) = "invalid"
    /\ Respond("422", {}, NoScore)
    /\ UNCHANGED table

\* OverflowError in the validator, an exception of _compute_derived, a row
\* PostgreSQL refuses, or no database: then the row may be there all the same.
CreateRaises ==
    /\ Handling("create")
    /\ Form(req.body) # "invalid"
    /\ Raise
    /\ \/ UNCHANGED table
       \/ /\ Form(req.body) = "valid"
          /\ req.tenant \in Tenants
          /\ \E k \in Apps : Insert(k, req.tenant, Columns(req.body))

-----------------------------------------------------------------------------
(* list_applications_endpoint.                                             *)

\* Two datetimes of which one is naive cannot be compared.
CompareRaises == req.dates = "mixed"

\* FastAPI's checks, then the handler's in their order: the first that fails
\* decides, and whether it is a 422 or an exception.
BadQuery ==
    \/ req.limits = "refused"
    \/ req.tenant = Malformed
    \/ /\ ~CompareRaises
       /\ \/ req.dates = "reversed"
          \/ req.sort[1] = "other"
          \/ req.sort[2] = "other"

RefuseQuery ==
    /\ Handling("list")
    /\ BadQuery
    /\ Respond("422", {}, NoScore)
    /\ UNCHANGED table

\* The rows the sort expression is computed for, whatever page of them is asked
\* for.
Sorted == {a \in apps : a.tenant = req.tenant}

CastRaises == req.sort[1] = "amount" /\ \E a \in Sorted : ~a.castable

List ==
    /\ Handling("list")
    /\ ~BadQuery /\ ~CompareRaises /\ ~CastRaises
    /\ req.limits = "fine"
    /\ Respond("200", Sorted, NoScore)
    /\ UNCHANGED table

\* For the dates, the cast, the limits, or for want of a database: that may
\* happen to every list that is not refused.
ListRaises ==
    /\ Handling("list")
    /\ ~BadQuery
    /\ Raise
    /\ UNCHANGED table

-----------------------------------------------------------------------------
(* get_application_endpoint.                                               *)

\* Mutant: the tenant is parsed and forgotten.
Matches_AnyTenant(a) == a.id = req.id

\* get_application; tenant_id is optional.
Matches(a) == a.id = req.id /\ req.tenant \in {NoId, a.tenant}

\* The id is parsed first: with both malformed the answer is 404.
NotFound ==
    /\ Handling("detail")
    /\ \/ req.id = Malformed
       \/ req.tenant # Malformed /\ \A a \in apps : ~Matches(a)
    /\ Respond("404", {}, NoScore)
    /\ UNCHANGED table

RefuseTenant ==
    /\ Handling("detail")
    /\ req.id # Malformed /\ req.tenant = Malformed
    /\ Respond("422", {}, NoScore)
    /\ UNCHANGED table

Find ==
    /\ Handling("detail")
    /\ req.id # Malformed /\ req.tenant # Malformed
    /\ \E a \in apps : Matches(a) /\ found' = {a}
    /\ pc' = "scoring"
    /\ UNCHANGED <<table, req, header, begun, answer>>

\* Mutant: LIMIT 1 without ORDER BY.
Latest_Any(k) == IF ScoreTimes(k) = {} THEN {NoScore} ELSE ScoreTimes(k)

\* get_latest_scoring_result.
Latest(k) == {Newest(ScoreTimes(k))}

Score ==
    /\ pc = "scoring"
    /\ \E t \in Latest(req.id) : Respond("200", found, t)
    /\ UNCHANGED table

\* Neither of the two queries may find a database.
DetailRaises ==
    /\ \/ Handling("detail") /\ req.id # Malformed /\ req.tenant # Malformed
       \/ pc = "scoring"
    /\ Raise
    /\ UNCHANGED table

-----------------------------------------------------------------------------
(* Everybody else.                                                         *)

Writing ==
    /\ pc # "done"
    /\ UNCHANGED <<pc, req, header, found, begun, answer>>

OtherCreates ==
    /\ Writing
    /\ \E k \in Apps, t \in Tenants, c \in Stored :
          /\ req.endpoint = "create" => issued \cup {k} # Apps
          /\ Insert(k, t, c)

\* A result is committed.  created_at is when its transaction began, so that it
\* may be older than one that is there.
Rescore ==
    /\ Writing
    /\ Cardinality(scores) < MaxScores
    /\ \E a \in apps, t \in Times :
          /\ t \notin ScoreTimes(a.id)
          /\ scores' = scores \cup {[app |-> a.id, at |-> t]}
    /\ UNCHANGED <<apps, issued>>

\* Mutant: the foreign key has no ON DELETE CASCADE and is not enforced.
Delete_NoCascade ==
    /\ Writing
    /\ \E a \in apps : apps' = apps \ {a}
    /\ UNCHANGED <<issued, scores>>

\* An application is deleted, and ON DELETE CASCADE takes its results along.
Delete ==
    /\ Writing
    /\ \E a \in apps :
          /\ apps' = apps \ {a}
          /\ scores' = {s \in scores : s.app # a.id}
    /\ UNCHANGED issued

Next ==
    \/ Receive \/ Close
    \/ Create \/ RefuseBody \/ CreateRaises
    \/ List \/ RefuseQuery \/ ListRaises
    \/ Find \/ Score \/ NotFound \/ RefuseTenant \/ DetailRaises
    \/ OtherCreates \/ Rescore \/ Delete

Spec == Init /\ [][Next]_vars

-----------------------------------------------------------------------------
(* Properties.                                                             *)

Derivations == {"raises", "none", "nonFinite", "ratios"}

Rows == [id : Apps, tenant : Tenants, castable : BOOLEAN,
         derived : Derivations]

\* A request is one the routes can receive, and an answer one they can give,
\* with rows that create_application can have stored.
TypeOK ==
    /\ apps \subseteq Rows
    /\ \A a, b \in apps : a.id = b.id => a = b
    /\ issued \subseteq Apps
    /\ {a.id : a \in apps} \subseteq issued
    /\ scores \subseteq [app : {a.id : a \in apps}, at : Times]
    /\ pc \in {"idle", "handler", "scoring", "done"}
    /\ req \in Requests \cup {NoRequest}
    /\ header \in {NoId, "empty", "caller's"}
    /\ found \subseteq Rows /\ (pc = "scoring" => found # {})
    /\ begun \in Times \cup {NoScore}
    /\ answer.status \in {"none", "200", "201", "404", "422", "500"}
    /\ answer.header \in {NoId, "empty", "caller's", "generated"}
    /\ answer.items \subseteq Rows
    /\ answer.score \in Times \cup {NoScore}

\* Whatever must_be_positive_number lets through, _compute_derived can divide by:
\* it reads the same value once more, as float(x or 0), and its branch for an
\* income that is not positive, which leaves the ratios null, is never taken for
\* a row that is stored.
RatiosThere == \A a \in apps : a.derived = "ratios"

\* Only rows of the tenant that was asked for are in an answer, and the result in
\* it is one of the application in it, although others are written, and the
\* application may go, between the two reads of a detail view, of which only the
\* first looks at the tenant.
TenantIsolation ==
    /\ \A a \in answer.items : req.tenant \in {NoId, a.tenant}
    /\ answer.score # NoScore =>
          \A a \in answer.items : answer.score \in ScoreTimes(a.id)

\* The detail view is two reads: the result it shows is none that was already
\* superseded when the request arrived, in whichever order results are committed,
\* unless the application has been deleted meanwhile.
DetailFresh ==
    /\ pc = "done" /\ req.endpoint = "detail" /\ answer.status = "200"
    /\ \E a \in apps : a.id = req.id
    => answer.score >= begun
=============================================================================
