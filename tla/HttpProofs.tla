----------------------------- MODULE HttpProofs -----------------------------
(***************************************************************************)
(* Proofs about Http, for any number of applications, tenants, bodies and  *)
(* scoring results.  RatiosThere is a fact about Validation: what the      *)
(* validator lets through, _compute_derived can divide by.  DetailFresh    *)
(* needs what happens between the two reads of a detail view: results are  *)
(* only added, or go with their application, whose key never comes back    *)
(* (Awaited).  That there is a newest result needs no finiteness: one that *)
(* is added is newer or not (HasNewest).                                   *)
(***************************************************************************)
EXTENDS Http, TLAPS

\* An answer is there only until it is on its way.
Unanswered == pc # "done" => answer = NoAnswer

HasNewest ==
    \A k \in Apps :
        \/ ScoreTimes(k) = {}
        \/ \E t \in ScoreTimes(k) : \A u \in ScoreTimes(k) : u <= t

TypeInv == TypeOK /\ Unanswered /\ HasNewest

\* What the detail view has read is what was asked for.
FoundMatches == pc = "scoring" => \A a \in found : Matches(a)

Awaited ==
    pc \in {"handler", "scoring"} /\ req.endpoint = "detail" =>
        /\ req.id \notin issued => begun = NoScore
        /\ (\E a \in apps : a.id = req.id) => begun <= Newest(ScoreTimes(req.id))

IInv ==
    /\ TypeInv
    /\ FoundMatches
    /\ Awaited
    /\ RatiosThere
    /\ TenantIsolation
    /\ DetailFresh

-----------------------------------------------------------------------------
(* Bodies.                                                                 *)

LEMMA IncomePositive ==
    ASSUME NEW b, IsBody(b), Validate(b) \notin {"422", "500"}
    PROVE  MustBePositive(b["net_monthly_income"]) = "ok"
<1> DEFINE failing == {i \in 1..3 : MustBePositive(b[Positives[i]]) # "ok"}
           first == CHOOSE i \in failing : \A j \in failing : i <= j
<1>1. ASSUME NEW i \in failing
      PROVE  MustBePositive(b[Positives[i]]) \in {"422", "500"}
  BY DEF MustBePositive
<1>2. failing = {}
  <2>1. SUFFICES ASSUME failing # {} PROVE FALSE
    OBVIOUS
  <2>2. \E i \in failing : \A j \in failing : i <= j
    <3>1. CASE 1 \in failing
      BY <3>1
    <3>2. CASE 1 \notin failing /\ 2 \in failing
      BY <3>2
    <3>3. CASE 1 \notin failing /\ 2 \notin failing
      BY <2>1, <3>3
    <3> QED
      BY <3>1, <3>2, <3>3
  <2>3. first \in failing
    BY <2>2
  <2>4. Validate(b) \in {"422", "500"}
    <3>1. MustBePositive(b[Positives[first]]) \in {"422", "500"}
      BY <1>1, <2>3
    <3> QED
      BY <2>1, <3>1 DEF Validate
  <2> QED
    BY <2>4
<1>3. 1 \notin failing
  BY <1>2
<1> QED
  BY <1>3 DEF Positives

\* What passes the validator is an income _compute_derived divides by.
LEMMA ValidBodiesHaveRatios ==
    ASSUME NEW b, IsBody(b), Form(b) = "valid"
    PROVE  Derived(b) = "ratios"
<1>1. Validate(b) \notin {"422", "500"} /\ Derived(b) \notin {"raises", "nonFinite"}
  BY DEF Form
<1>2. b["net_monthly_income"] \in {"positive", "true", "nan", "inf", "huge"}
  <2>1. b["net_monthly_income"] \in Kinds
    BY DEF IsBody, Fields
  <2> QED
    BY <1>1, <2>1, IncomePositive DEF MustBePositive, Float, Kinds
<1>3. Value(b, "net_monthly_income") \notin {"zero", "negative"}
  BY <1>2 DEF Value, OrZero, Float
<1> QED
  BY <1>1, <1>3 DEF Derived

LEMMA StoredType ==
    ASSUME NEW c \in Stored
    PROVE  c.castable \in BOOLEAN /\ c.derived = "ratios"
<1>1. PICK b \in Bodies : Form(b) = "valid" /\ c = Columns(b)
  BY DEF Stored
<1>2. c.derived = Derived(b) /\ c.castable = Castable(b)
  BY <1>1 DEF Columns
<1>3. Castable(b) \in BOOLEAN
  BY DEF Castable
<1> QED
  BY <1>1, <1>2, <1>3, ValidBodiesHaveRatios, BodyAssumption

\* A body that has been accepted fills a row.
LEMMA CreatedIsStored ==
    ASSUME TypeOK, Handling("create"), Form(req.body) = "valid"
    PROVE  Columns(req.body) \in Stored
<1>1. req \in Creates
  BY DEF Handling, TypeOK, NoRequest, Requests, Lists, Details, Request
<1>2. req.body \in Bodies
  BY <1>1 DEF Creates, Request
<1> QED
  BY <1>2 DEF Stored

LEMMA RowType ==
    ASSUME NEW k \in Apps, NEW t \in Tenants, NEW c \in Stored
    PROVE  /\ Row(k, t, c) \in Rows
           /\ Row(k, t, c).id = k /\ Row(k, t, c).tenant = t
           /\ Row(k, t, c).derived = "ratios"
BY StoredType DEF Row, Rows, Derivations

-----------------------------------------------------------------------------
(* The newest result.                                                      *)

LEMMA NewestIn ==
    ASSUME NEW S \in SUBSET Times, S = {} \/ \E t \in S : \A u \in S : u <= t
    PROVE  /\ Newest(S) \in Times \cup {NoScore}
           /\ Newest(S) \in Nat
           /\ S # {} => Newest(S) \in S
           /\ \A u \in S : u <= Newest(S)
<1>1. CASE S = {}
  BY <1>1 DEF Newest, NoScore
<1>2. CASE S # {}
  <2>1. Newest(S) = CHOOSE t \in S : \A u \in S : u <= t
    BY <1>2 DEF Newest
  <2>2. Newest(S) \in S /\ \A u \in S : u <= Newest(S)
    BY <1>2, <2>1
  <2> QED
    BY <2>2, NumberAssumption
<1> QED
  BY <1>1, <1>2

LEMMA NewestGrows ==
    ASSUME NEW S \in SUBSET Times, S = {} \/ \E t \in S : \A u \in S : u <= t,
           NEW T \in SUBSET Times, T = {} \/ \E t \in T : \A u \in T : u <= t,
           S \subseteq T
    PROVE  Newest(S) <= Newest(T)
<1>1. CASE S = {}
  <2>1. Newest(T) \in Nat
    BY NewestIn
  <2> QED
    BY <1>1, <2>1 DEF Newest, NoScore
<1>2. CASE S # {}
  <2>1. Newest(S) \in S
    BY <1>2, NewestIn
  <2>2. \A u \in T : u <= Newest(T)
    BY NewestIn
  <2> QED
    BY <2>1, <2>2
<1> QED
  BY <1>1, <1>2

LEMMA NewestIsThere ==
    ASSUME NEW k \in Apps, HasNewest, scores \subseteq [app : Apps, at : Times]
    PROVE  /\ ScoreTimes(k) \in SUBSET Times
           /\ Newest(ScoreTimes(k)) \in Times \cup {NoScore}
           /\ Newest(ScoreTimes(k)) \in Nat
<1>1. ScoreTimes(k) \in SUBSET Times
  BY DEF ScoreTimes
<1>2. ScoreTimes(k) = {} \/ \E t \in ScoreTimes(k) : \A u \in ScoreTimes(k) : u <= t
  BY DEF HasNewest
<1> QED
  BY <1>1, <1>2, NewestIn

LEMMA ScoresTyped == TypeOK => scores \subseteq [app : Apps, at : Times]
BY DEF TypeOK, Rows

-----------------------------------------------------------------------------
(* Types.                                                                  *)

LEMMA NoAnswerFields ==
    /\ NoAnswer.status = "none" /\ NoAnswer.header = NoId
    /\ NoAnswer.items = {} /\ NoAnswer.score = NoScore
BY DEF NoAnswer

LEMMA RespondType ==
    ASSUME TypeOK,
           NEW status \in {"200", "201", "404", "422"}, NEW items \in SUBSET Rows,
           NEW score \in Times \cup {NoScore},
           Respond(status, items, score)
    PROVE  /\ pc' = "done" /\ found' = {} /\ UNCHANGED <<req, header, begun>>
           /\ answer'.status = status /\ answer'.items = items
           /\ answer'.score = score /\ answer'.header = RequestId
           /\ RequestId \in {"caller's", "generated"}
<1>1. RequestId \in {"caller's", "generated"}
  BY DEF RequestId, TypeOK
<1> QED
  BY <1>1 DEF Respond

LEMMA RaiseType ==
    ASSUME Raise
    PROVE  /\ pc' = "done" /\ found' = {} /\ UNCHANGED <<req, header, begun>>
           /\ answer'.status = "500" /\ answer'.items = {}
           /\ answer'.score = NoScore /\ answer'.header = NoId
BY DEF Raise, NoAnswer

\* A row is added under a key that was never given.
LEMMA InsertType ==
    ASSUME TypeOK, HasNewest, NEW k \in Apps, NEW t \in Tenants, NEW c \in Stored,
           Insert(k, t, c)
    PROVE  /\ apps' \subseteq Rows
           /\ \A a, b \in apps' : a.id = b.id => a = b
           /\ issued' \subseteq Apps
           /\ {a.id : a \in apps'} \subseteq issued'
           /\ scores' \subseteq [app : {a.id : a \in apps'}, at : Times]
           /\ HasNewest'
<1>1. /\ k \notin issued /\ issued' = issued \cup {k}
      /\ apps' = apps \cup {Row(k, t, c)} /\ scores' = scores
  BY DEF Insert
<1>2. Row(k, t, c) \in Rows /\ Row(k, t, c).id = k
  BY RowType
<1>3. HasNewest'
  BY <1>1 DEF HasNewest, ScoreTimes
<1> QED
  BY <1>1, <1>2, <1>3 DEF TypeOK

LEMMA TablesKept ==
    ASSUME TypeOK, HasNewest, UNCHANGED table
    PROVE  /\ apps' \subseteq Rows
           /\ \A a, b \in apps' : a.id = b.id => a = b
           /\ issued' \subseteq Apps
           /\ {a.id : a \in apps'} \subseteq issued'
           /\ scores' \subseteq [app : {a.id : a \in apps'}, at : Times]
           /\ HasNewest'
BY DEF TypeOK, HasNewest, ScoreTimes, table

LEMMA RescoreType ==
    ASSUME TypeOK, HasNewest, Rescore
    PROVE  /\ apps' = apps /\ issued' = issued
           /\ scores' \subseteq [app : {a.id : a \in apps'}, at : Times]
           /\ HasNewest'
           /\ \A k \in Apps : ScoreTimes(k) \subseteq ScoreTimes(k)'
<1>1. PICK a \in apps, t \in Times : scores' = scores \cup {[app |-> a.id, at |-> t]}
  BY DEF Rescore
<1>2. apps' = apps /\ issued' = issued
  BY DEF Rescore
<1>3. a.id \in Apps
  BY DEF TypeOK, Rows
<1>4. ASSUME NEW k \in Apps
      PROVE  /\ ScoreTimes(k)' = IF k = a.id THEN ScoreTimes(k) \cup {t}
                                ELSE ScoreTimes(k)
             /\ ScoreTimes(k) \subseteq Nat
  <2>1. scores \subseteq [app : Apps, at : Times]
    BY ScoresTyped
  <2>2. ScoreTimes(k) \subseteq Nat
    BY <2>1, NumberAssumption DEF ScoreTimes
  <2> DEFINE new == [app |-> a.id, at |-> t]
  <2>3. new.app = a.id /\ new.at = t /\ scores' = scores \cup {new}
    BY <1>1
  <2> HIDE DEF new
  <2>4. CASE k = a.id
    <3>1. {s \in scores' : s.app = k} = {s \in scores : s.app = k} \cup {new}
      BY <2>3, <2>4
    <3> QED
      BY <2>2, <2>3, <2>4, <3>1 DEF ScoreTimes
  <2>5. CASE k # a.id
    <3>1. {s \in scores' : s.app = k} = {s \in scores : s.app = k}
      BY <2>3, <2>5
    <3> QED
      BY <2>2, <2>5, <3>1 DEF ScoreTimes
  <2> QED
    BY <2>4, <2>5
<1>5. ASSUME NEW k \in Apps
      PROVE  \/ ScoreTimes(k)' = {}
             \/ \E v \in ScoreTimes(k)' : \A u \in ScoreTimes(k)' : u <= v
  <2>1. CASE k # a.id
    BY <1>4, <2>1 DEF HasNewest
  <2>2. CASE k = a.id /\ ScoreTimes(k) = {}
    BY <1>4, <2>2, NumberAssumption
  <2>3. CASE k = a.id /\ ScoreTimes(k) # {}
    <3>1. PICK v \in ScoreTimes(k) : \A u \in ScoreTimes(k) : u <= v
      BY <2>3 DEF HasNewest
    <3>2. v \in Nat /\ t \in Nat
      BY <1>4, NumberAssumption
    <3>3. CASE t <= v
      BY <1>4, <2>3, <3>1, <3>3
    <3>4. CASE v <= t
      BY <1>4, <2>3, <3>1, <3>2, <3>4
    <3> QED
      BY <3>2, <3>3, <3>4
  <2> QED
    BY <2>1, <2>2, <2>3
<1>6. HasNewest'
  BY <1>5 DEF HasNewest
<1> QED
  BY <1>1, <1>2, <1>4, <1>6 DEF TypeOK

LEMMA DeleteType ==
    ASSUME TypeOK, HasNewest, Delete
    PROVE  /\ apps' \subseteq apps /\ issued' = issued
           /\ scores' \subseteq [app : {a.id : a \in apps'}, at : Times]
           /\ HasNewest'
           /\ \A a \in apps' : ScoreTimes(a.id)' = ScoreTimes(a.id)
<1>1. PICK a \in apps : /\ apps' = apps \ {a}
                        /\ scores' = {s \in scores : s.app # a.id}
  BY DEF Delete
<1>2. issued' = issued
  BY DEF Delete
<1>3. ASSUME NEW k \in Apps
      PROVE  ScoreTimes(k)' = IF k = a.id THEN {} ELSE ScoreTimes(k)
  BY <1>1 DEF ScoreTimes
<1>4. HasNewest'
  BY <1>3 DEF HasNewest
<1>5. ASSUME NEW b \in apps' PROVE b.id # a.id /\ b.id \in Apps
  BY <1>1 DEF TypeOK, Rows
<1>6. ASSUME NEW s \in scores' PROVE s \in [app : {b.id : b \in apps'}, at : Times]
  <2>1. s \in scores /\ s.app # a.id
    BY <1>1
  <2>2. PICK b \in apps : s.app = b.id /\ s.at \in Times /\ s = [app |-> s.app, at |-> s.at]
    BY <2>1 DEF TypeOK
  <2>3. b \in apps'
    BY <1>1, <2>1, <2>2
  <2> QED
    BY <2>2, <2>3
<1> QED
  BY <1>1, <1>2, <1>3, <1>4, <1>5, <1>6

LEMMA InitType == Init => TypeInv
BY NoAnswerFields
DEF Init, TypeInv, TypeOK, Unanswered, HasNewest, ScoreTimes

LEMMA NextType == TypeInv /\ [Next]_vars => TypeInv'
<1> SUFFICES ASSUME TypeInv, [Next]_vars PROVE TypeInv'
  OBVIOUS
<1>i. TypeOK /\ Unanswered /\ HasNewest /\ scores \subseteq [app : Apps, at : Times]
  BY ScoresTyped DEF TypeInv
<1>1. CASE Receive
  <2>1. /\ pc = "idle" /\ pc' = "handler" /\ UNCHANGED <<table, found, answer>>
        /\ req' \in Requests /\ header' \in {NoId, "empty", "caller's"}
        /\ begun' = IF req'.endpoint = "detail" THEN Newest(ScoreTimes(req'.id))
                    ELSE NoScore
    BY <1>1 DEF Receive
  <2>2. begun' \in Times \cup {NoScore}
    <3>1. CASE req'.endpoint # "detail"
      BY <2>1, <3>1
    <3>2. CASE req'.endpoint = "detail"
      <4>1. req'.id \in Apps \cup {Malformed}
        BY <2>1, <3>2 DEF Requests, Creates, Lists, Details, Request
      <4>2. CASE req'.id \in Apps
        BY <1>i, <2>1, <3>2, <4>2, NewestIsThere
      <4>3. CASE req'.id = Malformed
        <5>1. ScoreTimes(Malformed) = {}
          BY <1>i, IdAssumption DEF ScoreTimes
        <5> QED
          BY <2>1, <3>2, <4>3, <5>1 DEF Newest
      <4> QED
        BY <4>1, <4>2, <4>3
    <3> QED
      BY <3>1, <3>2
  <2> QED
    BY <1>i, <2>1, <2>2, TablesKept DEF TypeInv, TypeOK, Unanswered
<1>2. CASE Close
  <2>1. /\ pc' = "idle" /\ req' = NoRequest /\ header' = NoId
        /\ begun' = NoScore /\ answer' = NoAnswer /\ UNCHANGED <<table, found>>
    BY <1>2 DEF Close
  <2> QED
    BY <1>i, <2>1, TablesKept, NoAnswerFields DEF TypeInv, TypeOK, Unanswered
\* A response or an exception, with the tables as they are.
<1>r. ASSUME NEW status \in {"200", "201", "404", "422"},
             NEW items \in SUBSET Rows, NEW score \in Times \cup {NoScore},
             Respond(status, items, score), UNCHANGED table
      PROVE  TypeInv'
  <2>1. /\ pc' = "done" /\ found' = {} /\ UNCHANGED <<req, header, begun>>
        /\ answer'.status = status /\ answer'.items = items
        /\ answer'.score = score /\ answer'.header \in {"caller's", "generated"}
    BY <1>i, <1>r, RespondType
  <2>2. /\ apps' \subseteq Rows
        /\ \A a, b \in apps' : a.id = b.id => a = b
        /\ issued' \subseteq Apps
        /\ {a.id : a \in apps'} \subseteq issued'
        /\ scores' \subseteq [app : {a.id : a \in apps'}, at : Times]
        /\ HasNewest'
    BY <1>i, <1>r, TablesKept
  <2> QED
    BY <1>i, <2>1, <2>2 DEF TypeInv, TypeOK, Unanswered
<1>e. ASSUME Raise, UNCHANGED table PROVE TypeInv'
  BY <1>i, <1>e, RaiseType, TablesKept DEF TypeInv, TypeOK, Unanswered
<1>3. CASE Create
  <2>1. PICK k \in Apps :
           /\ Insert(k, req.tenant, Columns(req.body))
           /\ Respond("201", {Row(k, req.tenant, Columns(req.body))}, NoScore)
    BY <1>3 DEF Create
  <2>2. req.tenant \in Tenants /\ Columns(req.body) \in Stored
    BY <1>i, <1>3, CreatedIsStored DEF Create
  <2>3. Row(k, req.tenant, Columns(req.body)) \in Rows
    BY <2>2, RowType
  <2>4. /\ pc' = "done" /\ found' = {} /\ UNCHANGED <<req, header, begun>>
        /\ answer'.status = "201" /\ answer'.items \subseteq Rows
        /\ answer'.score = NoScore /\ answer'.header \in {"caller's", "generated"}
    <3> DEFINE items == {Row(k, req.tenant, Columns(req.body))}
    <3>1. items \in SUBSET Rows /\ Respond("201", items, NoScore)
      BY <2>1, <2>3
    <3> HIDE DEF items
    <3> QED
      BY <1>i, <3>1, RespondType
  <2>5. /\ apps' \subseteq Rows
        /\ \A a, b \in apps' : a.id = b.id => a = b
        /\ issued' \subseteq Apps
        /\ {a.id : a \in apps'} \subseteq issued'
        /\ scores' \subseteq [app : {a.id : a \in apps'}, at : Times]
        /\ HasNewest'
    BY <1>i, <2>1, <2>2, InsertType
  <2> QED
    BY <1>i, <2>4, <2>5 DEF TypeInv, TypeOK, Unanswered
<1>4. CASE RefuseBody \/ RefuseQuery \/ RefuseTenant
  BY <1>4, <1>r DEF RefuseBody, RefuseQuery, RefuseTenant
<1>5. CASE NotFound
  BY <1>5, <1>r DEF NotFound
<1>c. Handling("create") /\ req.tenant \in Tenants /\ Form(req.body) = "valid"
        => Columns(req.body) \in Stored
  BY <1>i, CreatedIsStored
<1>6. CASE CreateRaises \/ ListRaises \/ DetailRaises
  <2>1. CASE UNCHANGED table
    BY <1>6, <1>e, <2>1 DEF CreateRaises, ListRaises, DetailRaises
  <2>2. ASSUME NEW k \in Apps, CreateRaises, Form(req.body) = "valid",
               req.tenant \in Tenants, Insert(k, req.tenant, Columns(req.body))
        PROVE  TypeInv'
    <3>1. Columns(req.body) \in Stored /\ Raise
      BY <1>c, <2>2 DEF CreateRaises
    <3>2. /\ apps' \subseteq Rows
          /\ \A a, b \in apps' : a.id = b.id => a = b
          /\ issued' \subseteq Apps
          /\ {a.id : a \in apps'} \subseteq issued'
          /\ scores' \subseteq [app : {a.id : a \in apps'}, at : Times]
          /\ HasNewest'
      BY <1>i, <2>2, <3>1, InsertType
    <3> QED
      BY <1>i, <3>1, <3>2, RaiseType DEF TypeInv, TypeOK, Unanswered
  <2> QED
    BY <1>6, <2>1, <2>2 DEF CreateRaises, ListRaises, DetailRaises
<1>7. CASE List
  <2>1. Sorted \in SUBSET Rows
    BY <1>i DEF Sorted, TypeOK
  <2> QED
    BY <1>7, <2>1, <1>r DEF List
<1>8. CASE Find
  <2>1. PICK a \in apps : found' = {a}
    BY <1>8 DEF Find
  <2>2. /\ pc = "handler" /\ pc' = "scoring"
        /\ UNCHANGED <<table, req, header, begun, answer>>
    BY <1>8 DEF Find, Handling
  <2>3. found' \subseteq Rows /\ found' # {}
    BY <1>i, <2>1 DEF TypeOK
  <2> QED
    BY <1>i, <2>2, <2>3, TablesKept DEF TypeInv, TypeOK, Unanswered
<1>9. CASE Score
  <2>1. PICK t \in Latest(req.id) : Respond("200", found, t)
    BY <1>9 DEF Score
  <2>2. t \in Times \cup {NoScore}
    <3>1. t = Newest(ScoreTimes(req.id))
      BY <2>1 DEF Latest
    <3>2. CASE req.id \in Apps
      BY <1>i, <3>1, <3>2, NewestIsThere
    <3>3. CASE req.id \notin Apps
      <4>1. ScoreTimes(req.id) = {}
        BY <1>i, <3>3 DEF ScoreTimes
      <4> QED
        BY <3>1, <4>1 DEF Newest
    <3> QED
      BY <3>2, <3>3
  <2>3. found \in SUBSET Rows
    BY <1>i DEF TypeOK
  <2> QED
    BY <1>9, <2>1, <2>2, <2>3, <1>r DEF Score
<1>10. CASE OtherCreates
  <2>1. pc # "done" /\ UNCHANGED <<pc, req, header, found, begun, answer>>
    BY <1>10 DEF OtherCreates, Writing
  <2>2. PICK k \in Apps, t \in Tenants, c \in Stored : Insert(k, t, c)
    BY <1>10 DEF OtherCreates
  <2> QED
    BY <1>i, <2>1, <2>2, InsertType DEF TypeInv, TypeOK, Unanswered
<1>11. CASE Rescore
  <2>1. pc # "done" /\ UNCHANGED <<pc, req, header, found, begun, answer>>
    BY <1>11 DEF Rescore, Writing
  <2> QED
    BY <1>i, <1>11, <2>1, RescoreType DEF TypeInv, TypeOK, Unanswered
<1>12. CASE Delete
  <2>1. pc # "done" /\ UNCHANGED <<pc, req, header, found, begun, answer>>
    BY <1>12 DEF Delete, Writing
  <2>2. /\ apps' \subseteq apps /\ issued' = issued /\ HasNewest'
        /\ scores' \subseteq [app : {a.id : a \in apps'}, at : Times]
    BY <1>i, <1>12, DeleteType
  <2> QED
    BY <1>i, <2>1, <2>2 DEF TypeInv, TypeOK, Unanswered
<1>13. CASE UNCHANGED vars
  <2>1. UNCHANGED <<table, pc, req, header, found, begun, answer>>
    BY <1>13 DEF vars
  <2> QED
    BY <1>i, <2>1, TablesKept DEF TypeInv, TypeOK, Unanswered
<1> QED
  BY <1>1, <1>2, <1>3, <1>4, <1>5, <1>6, <1>7, <1>8, <1>9, <1>10, <1>11, <1>12,
     <1>13 DEF Next

-----------------------------------------------------------------------------
(* The invariant.                                                          *)

LEMMA InitIInv == Init => IInv
BY InitType, NoAnswerFields
DEF Init, IInv, FoundMatches, Awaited, RatiosThere, TenantIsolation, DetailFresh

LEMMA NextIInv == IInv /\ [Next]_vars => IInv'
<1> SUFFICES ASSUME IInv, [Next]_vars PROVE IInv'
  OBVIOUS
<1>i. /\ TypeInv /\ TypeInv' /\ FoundMatches /\ Awaited /\ RatiosThere
  BY NextType DEF IInv
<1>t. /\ TypeOK /\ TypeOK' /\ Unanswered /\ Unanswered' /\ HasNewest /\ HasNewest'
      /\ scores \subseteq [app : Apps, at : Times]
      /\ scores' \subseteq [app : Apps, at : Times]
  <2>1. TypeOK /\ TypeOK' /\ Unanswered /\ Unanswered' /\ HasNewest /\ HasNewest'
    BY <1>i DEF TypeInv
  <2> QED
    BY <2>1 DEF TypeOK, Rows
\* What is said of answers, before there is one.
<1>q. ASSUME pc' # "done"
      PROVE  TenantIsolation' /\ DetailFresh'
  <2>1. answer' = NoAnswer
    BY <1>t, <1>q DEF Unanswered
  <2> QED
    BY <1>q, <2>1, NoAnswerFields
    DEF TenantIsolation, DetailFresh
\* What is said of the tables' rows, when they stay.
<1>s. ASSUME UNCHANGED table PROVE RatiosThere'
  BY <1>i, <1>s DEF RatiosThere, table
<1>1. CASE Receive
  <2>1. /\ pc' = "handler" /\ UNCHANGED table
        /\ begun' = IF req'.endpoint = "detail" THEN Newest(ScoreTimes(req'.id))
                    ELSE NoScore
    BY <1>1 DEF Receive
  <2>2. Awaited'
    <3>1. SUFFICES ASSUME req'.endpoint = "detail"
                   PROVE  /\ req'.id \notin issued => begun' = NoScore
                          /\ (\E a \in apps : a.id = req'.id) =>
                                begun' <= Newest(ScoreTimes(req'.id))
      BY <2>1 DEF Awaited, ScoreTimes, table
    <3>2. ASSUME req'.id \notin issued PROVE begun' = NoScore
      <4>1. ScoreTimes(req'.id) = {}
        BY <1>t, <3>2 DEF ScoreTimes, TypeOK
      <4> QED
        BY <2>1, <3>1, <4>1 DEF Newest
    <3>3. ASSUME NEW a \in apps, a.id = req'.id
          PROVE  begun' <= Newest(ScoreTimes(req'.id))
      <4>1. req'.id \in Apps
        BY <1>t, <3>3 DEF TypeOK, Rows
      <4>2. Newest(ScoreTimes(req'.id)) \in Nat
        BY <1>t, <4>1, NewestIsThere
      <4> QED
        BY <2>1, <3>1, <4>2
    <3> QED
      BY <3>2, <3>3
  <2> QED
    BY <1>i, <1>q, <1>s, <2>1, <2>2 DEF IInv, FoundMatches
<1>2. CASE Close
  <2>1. pc' = "idle" /\ UNCHANGED table
    BY <1>2 DEF Close
  <2> QED
    BY <1>i, <1>q, <1>s, <2>1 DEF IInv, FoundMatches, Awaited
\* An answer that is none of 200, 201 and 500 has no rows in it.
<1>r. ASSUME NEW status \in {"404", "422"}, Respond(status, {}, NoScore),
             UNCHANGED table
      PROVE  IInv'
  <2>1. /\ pc' = "done" /\ UNCHANGED <<req, header, begun>>
        /\ answer'.status = status /\ answer'.items = {}
        /\ answer'.score = NoScore
    BY <1>r DEF Respond
  <2>2. TenantIsolation' /\ DetailFresh'
    BY <2>1 DEF TenantIsolation, DetailFresh
  <2> QED
    BY <1>i, <1>s, <1>r, <2>1, <2>2 DEF IInv, FoundMatches, Awaited
<1>3. CASE Create
  <2>1. PICK k \in Apps :
           /\ Insert(k, req.tenant, Columns(req.body))
           /\ Respond("201", {Row(k, req.tenant, Columns(req.body))}, NoScore)
    BY <1>3 DEF Create
  <2>2. /\ pc' = "done" /\ UNCHANGED <<req, header, begun>>
        /\ answer'.status = "201"
        /\ answer'.items = {Row(k, req.tenant, Columns(req.body))}
        /\ answer'.score = NoScore
    BY <2>1 DEF Respond
  <2>3. /\ req.endpoint = "create"
        /\ req.tenant \in Tenants
        /\ Columns(req.body) \in Stored
    BY <1>t, <1>3, CreatedIsStored DEF Create, Handling
  <2>4. RatiosThere'
    <3>1. apps' = apps \cup {Row(k, req.tenant, Columns(req.body))}
      BY <2>1 DEF Insert
    <3>2. Row(k, req.tenant, Columns(req.body)).derived = "ratios"
      BY <2>3, RowType
    <3> QED
      BY <1>i, <3>1, <3>2 DEF RatiosThere
  <2>5. TenantIsolation'
    <3>1. Row(k, req.tenant, Columns(req.body)).tenant = req.tenant
      BY <2>3, RowType
    <3> QED
      BY <2>2, <3>1 DEF TenantIsolation
  <2>6. DetailFresh'
    BY <2>2 DEF DetailFresh
  <2> QED
    BY <1>i, <2>2, <2>4, <2>5, <2>6 DEF IInv, FoundMatches, Awaited
<1>4. CASE RefuseBody \/ RefuseQuery \/ RefuseTenant
  BY <1>4, <1>r DEF RefuseBody, RefuseQuery, RefuseTenant
<1>5. CASE NotFound
  BY <1>5, <1>r DEF NotFound
\* A 500 has no rows; a POST may have stored one before it.
<1>6. CASE CreateRaises \/ ListRaises \/ DetailRaises
  <2>1. /\ pc' = "done" /\ UNCHANGED <<req, header, begun>>
        /\ answer'.status = "500" /\ answer'.items = {}
        /\ answer'.score = NoScore
    BY <1>6, RaiseType DEF CreateRaises, ListRaises, DetailRaises
  <2>2. TenantIsolation' /\ DetailFresh'
    BY <2>1 DEF TenantIsolation, DetailFresh
  <2>3. RatiosThere'
    <3>1. CASE UNCHANGED table
      BY <1>s, <3>1
    <3>2. ASSUME NEW k \in Apps, CreateRaises, Form(req.body) = "valid",
                 req.tenant \in Tenants, Insert(k, req.tenant, Columns(req.body))
          PROVE  RatiosThere'
      <4>1. apps' = apps \cup {Row(k, req.tenant, Columns(req.body))}
        BY <3>2 DEF Insert
      <4>2. Columns(req.body) \in Stored
        BY <1>t, <3>2, CreatedIsStored DEF CreateRaises
      <4>3. Row(k, req.tenant, Columns(req.body)).derived = "ratios"
        BY <3>2, <4>2, RowType
      <4> QED
        BY <1>i, <4>1, <4>3 DEF RatiosThere
    <3> QED
      BY <1>6, <3>1, <3>2 DEF CreateRaises, ListRaises, DetailRaises
  <2> QED
    BY <1>i, <2>1, <2>2, <2>3 DEF IInv, FoundMatches, Awaited
<1>7. CASE List
  <2>1. /\ pc' = "done" /\ UNCHANGED <<req, header, begun, table>>
        /\ answer'.status = "200" /\ answer'.items = Sorted
        /\ answer'.score = NoScore /\ req.endpoint = "list"
    BY <1>7 DEF List, Respond, Handling
  <2>2. TenantIsolation' /\ DetailFresh'
    BY <2>1 DEF TenantIsolation, DetailFresh, Sorted
  <2> QED
    BY <1>i, <1>s, <2>1, <2>2 DEF IInv, FoundMatches, Awaited
<1>8. CASE Find
  <2>1. PICK a \in apps : Matches(a) /\ found' = {a}
    BY <1>8 DEF Find
  <2>2. /\ pc = "handler" /\ pc' = "scoring" /\ UNCHANGED <<table, req, begun>>
    BY <1>8 DEF Find, Handling
  <2>3. FoundMatches'
    BY <2>1, <2>2 DEF FoundMatches, Matches
  <2>4. Awaited'
    BY <1>i, <2>2 DEF Awaited, ScoreTimes, table
  <2> QED
    BY <1>i, <1>q, <1>s, <2>2, <2>3, <2>4 DEF IInv
<1>9. CASE Score
  <2>1. /\ pc = "scoring" /\ pc' = "done" /\ UNCHANGED <<req, header, begun, table>>
        /\ answer'.status = "200" /\ answer'.items = found
        /\ answer'.score = Newest(ScoreTimes(req.id))
    BY <1>9 DEF Score, Respond, Latest
  <2>2. TenantIsolation'
    <3>1. \A a \in found : a.id = req.id /\ req.tenant \in {NoId, a.tenant}
      BY <1>i, <2>1 DEF FoundMatches, Matches
    <3>2. ScoreTimes(req.id)' = ScoreTimes(req.id)
      BY <2>1 DEF ScoreTimes, table
    <3>3. ASSUME answer'.score # NoScore, NEW a \in found
          PROVE  answer'.score \in ScoreTimes(a.id)'
      <4>1. a.id = req.id /\ req.id \in Apps
        BY <1>t, <3>1, <3>3 DEF TypeOK, Rows
      <4>2. ScoreTimes(req.id) \in SUBSET Times
        BY <1>t, <4>1, NewestIsThere
      <4>3. ScoreTimes(req.id) # {} => Newest(ScoreTimes(req.id)) \in ScoreTimes(req.id)
        BY <1>t, <4>1, <4>2, NewestIn DEF HasNewest
      <4>4. ScoreTimes(req.id) # {}
        BY <2>1, <3>3 DEF Newest
      <4> QED
        BY <2>1, <3>2, <4>1, <4>3, <4>4 DEF ScoreTimes
    <3> QED
      BY <2>1, <3>1, <3>3 DEF TenantIsolation
  <2>3. DetailFresh'
    <3>1. SUFFICES ASSUME req.endpoint = "detail", NEW a \in apps, a.id = req.id
                   PROVE  Newest(ScoreTimes(req.id)) >= begun
      BY <2>1 DEF DetailFresh, table
    <3>2. begun <= Newest(ScoreTimes(req.id))
      BY <1>i, <2>1, <3>1 DEF Awaited
    <3>3. begun \in Nat
      BY <1>t, NumberAssumption DEF TypeOK, NoScore
    <3>4. Newest(ScoreTimes(req.id)) \in Nat
      BY <1>t, <3>1, NewestIsThere DEF TypeOK, Rows
    <3> QED
      BY <3>2, <3>3, <3>4
  <2> QED
    BY <1>i, <1>s, <2>1, <2>2, <2>3 DEF IInv, FoundMatches, Awaited
<1>10. CASE OtherCreates
  <2>1. pc # "done" /\ UNCHANGED <<pc, req, found, begun>>
    BY <1>10 DEF OtherCreates, Writing
  <2>2. PICK k \in Apps, t \in Tenants, c \in Stored : Insert(k, t, c)
    BY <1>10 DEF OtherCreates
  <2>3. /\ k \notin issued /\ issued' = issued \cup {k}
        /\ apps' = apps \cup {Row(k, t, c)} /\ scores' = scores
        /\ Row(k, t, c).id = k /\ Row(k, t, c).derived = "ratios"
    BY <2>2, RowType DEF Insert
  <2>4. RatiosThere'
    BY <1>i, <2>3 DEF RatiosThere
  <2>5. Awaited'
    <3>1. SUFFICES ASSUME pc \in {"handler", "scoring"}, req.endpoint = "detail"
                   PROVE  /\ req.id \notin issued' => begun = NoScore
                          /\ (\E a \in apps' : a.id = req.id) =>
                                begun <= Newest(ScoreTimes(req.id))
      BY <2>1, <2>3 DEF Awaited, ScoreTimes
    <3>2. CASE req.id # k
      BY <1>i, <2>3, <3>1, <3>2 DEF Awaited
    <3>3. CASE req.id = k
      <4>1. begun = NoScore
        BY <1>i, <2>3, <3>1, <3>3 DEF Awaited
      <4>2. Newest(ScoreTimes(req.id)) \in Nat
        BY <1>t, <3>3, NewestIsThere
      <4> QED
        BY <4>1, <4>2 DEF NoScore
    <3> QED
      BY <3>2, <3>3
  <2>6. FoundMatches'
    BY <1>i, <2>1 DEF FoundMatches, Matches
  <2> QED
    BY <1>i, <1>q, <2>1, <2>4, <2>5, <2>6 DEF IInv
<1>11. CASE Rescore
  <2>1. pc # "done" /\ UNCHANGED <<pc, req, found, begun>>
    BY <1>11 DEF Rescore, Writing
  <2>2. /\ apps' = apps /\ issued' = issued
        /\ \A k \in Apps : ScoreTimes(k) \subseteq ScoreTimes(k)'
    BY <1>t, <1>11, RescoreType
  <2>3. ASSUME NEW k \in Apps
        PROVE  /\ Newest(ScoreTimes(k)) <= Newest(ScoreTimes(k))'
               /\ Newest(ScoreTimes(k))' \in Nat
    <3> DEFINE S == ScoreTimes(k)
               T == ScoreTimes(k)'
    <3>1. S \in SUBSET Times /\ T \in SUBSET Times /\ S \subseteq T
      BY <1>t, <2>2 DEF ScoreTimes
    <3>2. /\ S = {} \/ \E t \in S : \A u \in S : u <= t
          /\ T = {} \/ \E t \in T : \A u \in T : u <= t
      BY <1>t DEF HasNewest
    <3>3. Newest(ScoreTimes(k))' = Newest(T)
      BY DEF Newest
    <3> HIDE DEF S, T
    <3>4. Newest(S) <= Newest(T)
      BY <3>1, <3>2, NewestGrows
    <3>5. Newest(T) \in Nat
      BY <3>1, <3>2, NewestIn
    <3> QED
      BY <3>3, <3>4, <3>5 DEF S
  <2>4. Awaited'
    <3>1. SUFFICES ASSUME pc \in {"handler", "scoring"}, req.endpoint = "detail",
                          NEW a \in apps, a.id = req.id
                   PROVE  begun <= Newest(ScoreTimes(a.id))'
      BY <1>i, <2>1, <2>2 DEF Awaited
    <3>2. a.id \in Apps /\ begun \in Nat
      BY <1>t, <3>1, NumberAssumption DEF TypeOK, Rows, NoScore
    <3>3. begun <= Newest(ScoreTimes(a.id))
      BY <1>i, <3>1 DEF Awaited
    <3>4. Newest(ScoreTimes(a.id)) \in Nat
      BY <1>t, <3>2, NewestIsThere
    <3>5. /\ Newest(ScoreTimes(a.id)) <= Newest(ScoreTimes(a.id))'
          /\ Newest(ScoreTimes(a.id))' \in Nat
      BY <2>3, <3>2
    <3> QED
      BY <3>2, <3>3, <3>4, <3>5
  <2>5. RatiosThere' /\ FoundMatches'
    BY <1>i, <2>1, <2>2 DEF RatiosThere, FoundMatches, Matches
  <2> QED
    BY <1>i, <1>q, <2>1, <2>4, <2>5 DEF IInv
<1>12. CASE Delete
  <2>1. pc # "done" /\ UNCHANGED <<pc, req, found, begun>>
    BY <1>12 DEF Delete, Writing
  <2>2. /\ apps' \subseteq apps /\ issued' = issued
        /\ \A a \in apps' : ScoreTimes(a.id)' = ScoreTimes(a.id)
    BY <1>t, <1>12, DeleteType
  <2>3. RatiosThere' /\ FoundMatches'
    BY <1>i, <2>1, <2>2 DEF RatiosThere, FoundMatches, Matches
  <2>4. Awaited'
    <3>1. SUFFICES ASSUME pc \in {"handler", "scoring"}, req.endpoint = "detail",
                          NEW a \in apps', a.id = req.id
                   PROVE  begun <= Newest(ScoreTimes(a.id))'
      BY <1>i, <2>1, <2>2 DEF Awaited
    <3>2. begun <= Newest(ScoreTimes(a.id))
      BY <1>i, <2>2, <3>1 DEF Awaited
    <3> DEFINE T == ScoreTimes(a.id)'
    <3>3. T = ScoreTimes(a.id)
      BY <2>2
    <3>4. Newest(ScoreTimes(a.id))' = Newest(T)
      BY DEF Newest
    <3> HIDE DEF T
    <3> QED
      BY <3>2, <3>3, <3>4
  <2> QED
    BY <1>i, <1>q, <2>1, <2>3, <2>4 DEF IInv
<1>13. CASE UNCHANGED vars
  <2>1. UNCHANGED <<table, pc, req, header, found, begun, answer>>
    BY <1>13 DEF vars
  <2>2. Awaited' /\ FoundMatches' /\ RatiosThere'
    BY <1>i, <2>1 DEF Awaited, ScoreTimes, FoundMatches, Matches, RatiosThere, table
  <2>3. TenantIsolation' /\ DetailFresh'
    BY <2>1 DEF IInv, TenantIsolation, DetailFresh, ScoreTimes, table
  <2> QED
    BY <1>i, <2>2, <2>3 DEF IInv
<1> QED
  BY <1>1, <1>2, <1>3, <1>4, <1>5, <1>6, <1>7, <1>8, <1>9, <1>10, <1>11, <1>12,
     <1>13 DEF Next

LEMMA Invariant == Spec => []IInv
BY InitIInv, NextIInv, PTL DEF Spec

-----------------------------------------------------------------------------
\* Every variable keeps its type.
THEOREM TypeCorrect == Spec => []TypeOK
<1>1. IInv => TypeOK
  BY DEF IInv, TypeInv
<1> QED
  BY <1>1, Invariant, PTL

\* Every application that is stored has its ratios, whatever kinds of values the
\* bodies of the requests are made of.
THEOREM RatiosAreThere == Spec => []RatiosThere
<1>1. IInv => RatiosThere
  BY DEF IInv
<1> QED
  BY <1>1, Invariant, PTL

\* No answer shows a row of another tenant than the one that was asked for, or
\* the result of another application.
THEOREM TenantsAreIsolated == Spec => []TenantIsolation
<1>1. IInv => TenantIsolation
  BY DEF IInv
<1> QED
  BY <1>1, Invariant, PTL

\* The result a detail view shows is none that was superseded when the request
\* arrived, however many results and deletions come between its two reads.
THEOREM DetailsAreFresh == Spec => []DetailFresh
<1>1. IInv => DetailFresh
  BY DEF IInv
<1> QED
  BY <1>1, Invariant, PTL
=============================================================================
