------------------------------ MODULE Listing -------------------------------
(***************************************************************************)
(* A client walks through the pages of GET /applications or of GET /queue  *)
(* while other requests insert rows, change them so that they leave the    *)
(* filter, and change what the list is sorted by.                          *)
(*                                                                         *)
(* Every page is an OFFSET/LIMIT query of its own, and GET /applications   *)
(* counts the rows in a statement before it: at READ COMMITTED the count   *)
(* and the page are two snapshots.  ORDER BY fixes the order of rows with  *)
(* different keys; rows it does not tell apart come in any order, which    *)
(* may be another one in the next query.                                   *)
(***************************************************************************)
EXTENDS Integers, FiniteSets

CONSTANTS
    Rows,      \* ids of rows, as numbers in the order of their uuids
    Keys,      \* values of the sort column
    Null,      \* a row without one: no scoring result
    PageSizes  \* page_size, limit: after the clamp, at least 1

ASSUME NumberAssumption ==
    Rows \subseteq Nat /\ Keys \subseteq Nat /\ Null \notin Nat

ASSUME SizeAssumption == PageSizes \subseteq Nat \ {0}

\* Ids are uuids: however long the walk, there are only so many.
ASSUME FiniteAssumption == IsFiniteSet(Rows)

VARIABLES
    endpoint,   \* "applications" or "queue"
    page_size,  \* what the client asks for
    sort_order, \* "asc" or "desc"
    key,        \* the sort column of every row
    table,      \* rows that pass the tenant and the other filters
    unused,     \* rows that have not been inserted yet
    pc,         \* "count", "page": the next statement; "done"
    page,       \* pages fetched
    total,      \* what the last count returned
    items,      \* what the last page contained
    seen,       \* how often the client was given each row
    begun,      \* history: the table when the walk began
    changed,    \* history: the kinds of writes since then
    steady      \* history: nothing was written between last count and page

request == <<endpoint, page_size, sort_order>>
vars == <<request, key, table, unused, pc, page, total, items, seen, begun,
          changed, steady>>
walk == <<pc, page, total, items, seen, begun>>

\* analyst_queues.priority, created_at and sla_deadline are NOT NULL; the
\* applications' score is there once a scoring result is.
KeyValues == IF endpoint = "queue" THEN Keys ELSE Keys \cup {Null}

Init ==
    /\ endpoint \in {"applications", "queue"}
    /\ page_size \in PageSizes
    /\ sort_order \in {"asc", "desc"}
    /\ key \in [Rows -> KeyValues]
    /\ table \in SUBSET Rows
    /\ unused = Rows \ table
    /\ pc = "count"
    /\ page = 0
    /\ total = 0
    /\ items = {}
    /\ seen = [r \in Rows |-> 0]
    /\ begun = table
    /\ changed = {}
    /\ steady = TRUE

-----------------------------------------------------------------------------
(* The queries.                                                            *)

\* ORDER BY the key, nulls last either way.
KeyBefore(q, r) ==
    \/ key[q] # Null /\ key[r] = Null
    \/ /\ key[q] # Null /\ key[r] # Null
       /\ IF sort_order = "asc" THEN key[q] < key[r] ELSE key[q] > key[r]

\* Mutant: the queue is ordered by its sort column only.
Before_NoTieBreak(q, r) == KeyBefore(q, r)

\* list_queue_entries adds the id, in the same direction; list_applications
\* adds nothing.
Before(q, r) ==
    \/ KeyBefore(q, r)
    \/ /\ endpoint = "queue"
       /\ key[q] = key[r]
       /\ IF sort_order = "asc" THEN q < r ELSE q > r

\* P can be the first rows of the result.
IsPrefix(P) ==
    /\ P \subseteq table
    /\ \A p \in P, r \in table \ P : ~Before(r, p)

Smaller(m, n) == IF m < n THEN m ELSE n

\* Mutant: pages are counted from 0.
Offset_FromZero(p) == p * page_size

\* Mutant: the offset is forgotten.
Offset_Forgotten(p) == 0

\* Of the p-th page, counted from 1.
Offset(p) == (p - 1) * page_size

\* Mutant: one row more is fetched, to see whether there is another page, and
\* not taken off.
PageAfter_OneMore(B) ==
    {P \in SUBSET (table \ B) :
        /\ Cardinality(P) =
              Smaller(page_size + 1, Cardinality(table) - Cardinality(B))
        /\ IsPrefix(B \cup P)}

\* The pages that may follow the rows B.
PageAfter(B) ==
    {P \in SUBSET (table \ B) :
        /\ Cardinality(P) =
              Smaller(page_size, Cardinality(table) - Cardinality(B))
        /\ IsPrefix(B \cup P)}

\* OFFSET and LIMIT, over any order that ORDER BY allows.
PageResults(p) ==
    UNION {PageAfter(B) :
              B \in {B \in SUBSET table :
                        /\ Cardinality(B) =
                              Smaller(Offset(p), Cardinality(table))
                        /\ IsPrefix(B)}}

\* Mutant: the rows are counted before the filters are added.
Count_Unfiltered ==
    /\ pc = "count"
    /\ pc' = "page"
    /\ total' = Cardinality(Rows \ unused)
    /\ steady' = TRUE
    /\ UNCHANGED <<request, key, table, unused, page, items, seen, begun,
                   changed>>

\* SELECT count(*).  (The queue's endpoint returns no total; nothing else
\* depends on it.)
Count ==
    /\ pc = "count"
    /\ pc' = "page"
    /\ total' = Cardinality(table)
    /\ steady' = TRUE
    /\ UNCHANGED <<request, key, table, unused, page, items, seen, begun,
                   changed>>

\* The page.  The client asks for the next one until one is not full.
Fetch ==
    /\ pc = "page"
    /\ page' = page + 1
    /\ items' \in PageResults(page + 1)
    /\ seen' = [r \in Rows |-> IF r \in items' THEN seen[r] + 1 ELSE seen[r]]
    /\ pc' = IF Cardinality(items') < page_size THEN "done" ELSE "count"
    /\ UNCHANGED <<request, key, table, unused, total, begun, changed,
                   steady>>

-----------------------------------------------------------------------------
(* Other transactions commit.                                              *)

Changing(kind) ==
    /\ pc # "done"
    /\ changed' = changed \cup {kind}
    /\ steady' = (steady /\ pc # "page")

\* An application is created or queued; its key may sort anywhere, because
\* created_at is when the inserting transaction began.
Insert(r) ==
    /\ Changing("insert")
    /\ r \in unused
    /\ unused' = unused \ {r}
    /\ table' = table \cup {r}
    /\ UNCHANGED <<request, key, walk>>

\* A change of status takes a row out of the filter.
Remove(r) ==
    /\ Changing("remove")
    /\ r \in table
    /\ table' = table \ {r}
    /\ UNCHANGED <<request, key, unused, walk>>

\* Another priority or deadline; a new scoring result, which can only raise the
\* maximum score of an application.
Rekey(r) ==
    /\ Changing("rekey")
    /\ \E k \in Keys \ {key[r]} :
          /\ endpoint = "applications" /\ key[r] # Null => key[r] < k
          /\ key' = [key EXCEPT ![r] = k]
    /\ UNCHANGED <<request, table, unused, walk>>

Next ==
    \/ Count
    \/ Fetch
    \/ \E r \in Rows : Insert(r) \/ Remove(r) \/ Rekey(r)

Spec == Init /\ [][Next]_vars

-----------------------------------------------------------------------------
(* Properties.                                                             *)

\* Every walk ends: one page more than the table can fill is the last one that
\* is not full, however the table changes meanwhile.
TypeOK ==
    /\ endpoint \in {"applications", "queue"}
    /\ page_size \in PageSizes
    /\ sort_order \in {"asc", "desc"}
    /\ key \in [Rows -> KeyValues]
    /\ table \subseteq Rows
    /\ unused \subseteq Rows \ table
    /\ pc \in {"count", "page", "done"}
    /\ page \in 0..(Cardinality(Rows) + 1)
    /\ total \in 0..Cardinality(Rows)
    /\ items \subseteq Rows
    /\ seen \in [Rows -> 0..(Cardinality(Rows) + 1)]
    /\ begun \subseteq Rows
    /\ changed \subseteq {"insert", "remove", "rekey"}
    /\ steady \in BOOLEAN

\* No two rows are left in an order of the database's choosing: for the queue
\* that is so by its id, for the applications when their keys differ.
Determined ==
    endpoint = "queue" \/ \A q, r \in Rows : q # r => key[q] # key[r]

\* The offsets of one page end where those of the next begin: a walk through a
\* table nobody writes to gives every row once.
CompleteWhenStill ==
    pc = "done" /\ changed = {} /\ Determined
        => seen = [r \in Rows |-> IF r \in table THEN 1 ELSE 0]

\* Rows inserted during the walk, wherever they sort, push rows to later pages
\* only: nothing that was there from the beginning is skipped.
NoSkipUnderInserts ==
    pc = "done" /\ changed \subseteq {"insert"} /\ Determined
        => \A r \in begun : seen[r] >= 1

\* Rows that leave the list during the walk pull rows to earlier pages only:
\* nothing is given twice.
NoRepeatUnderRemovals ==
    changed \subseteq {"remove"} /\ Determined => \A r \in Rows : seen[r] <= 1

\* Unless a write came between the two statements of one request, total and
\* items of its answer agree, on every page and past the last one too.
TotalHonest ==
    pc # "page" /\ page > 0 /\ steady
        => LET left == total - Offset(page)
           IN  Cardinality(items) =
                  IF left < 0 THEN 0 ELSE Smaller(page_size, left)

\* hitl/todo.md: "Test: Pagination returns correct pages".  A walk through
\* applications nobody writes to gives every application once.  It does not
\* when two of them have the same sort key.
PagesCorrect ==
    pc = "done" /\ changed = {}
        => seen = [r \in Rows |-> IF r \in table THEN 1 ELSE 0]
=============================================================================
