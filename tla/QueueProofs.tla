---------------------------- MODULE QueueProofs -----------------------------
(***************************************************************************)
(* Proofs about Queue, for any number of entries, any arguments of         *)
(* calculate_queue_priority and any time.  Every entry has the priority of *)
(* its arguments and is due at most as many hours from now as they say     *)
(* (Given), so that what the summary's limits and the order of a list mean *)
(* is arithmetic about the function (PriorityOrder, HighPriority); the time*)
(* the handler has read lies between request and statement (Clocked); and  *)
(* what an answer says when it is given still holds while it is on its way,*)
(* because Queue lets nothing change then.                                 *)
(***************************************************************************)
EXTENDS Queue, FiniteSetTheorems, TLAPS

\* An answer is there only until it is on its way.
Unanswered == pc # "done" => answer = NoAnswer

TypeInv == TypeOK /\ Unanswered /\ IsFiniteSet(queue)

Given ==
    \A e \in queue : /\ e.case \in Cases /\ e.priority = Priority(e.case)
                     /\ e.due \in Nat /\ e.due <= now + e.case.hours

Clocked == pc = "query" /\ req.endpoint = "summary" => arrived <= asOf

IInv ==
    /\ TypeInv
    /\ Given
    /\ Clocked
    /\ HighMeansUrgent
    /\ SummaryAddsUp
    /\ SlaExact

-----------------------------------------------------------------------------
(* calculate_queue_priority.                                               *)

LEMMA PriorityOrder ==
    ASSUME NEW c \in Cases, NEW d \in Cases, AtLeastAsUrgent(c, d)
    PROVE  Priority(c) <= Priority(d)
<1>1. c.hours \in Nat /\ d.hours \in Nat /\ c.vip \in BOOLEAN /\ d.vip \in BOOLEAN
  BY CaseAssumption
<1>2. LoanBonus(c.loan) \in {0, 5, 10, 15} /\ LoanBonus(d.loan) \in {0, 5, 10, 15}
  BY DEF LoanBonus
<1>3. SlaBonus(c.hours) \in {0, 5, 10, 20} /\ SlaBonus(d.hours) \in {0, 5, 10, 20}
  BY DEF SlaBonus
<1>4. CASE c.vip
  BY <1>2, <1>3, <1>4 DEF Priority, Clamp
<1>5. CASE ~c.vip
  <2>1. /\ ~d.vip
        /\ c.hours <= d.hours
        /\ d.loan = Null \/ (c.loan # Null /\ c.loan >= d.loan)
    BY <1>5 DEF AtLeastAsUrgent
  <2>2. LoanBonus(c.loan) >= LoanBonus(d.loan)
    <3>1. CASE d.loan = Null
      BY <3>1, <1>2 DEF LoanBonus, Over
    <3>2. CASE d.loan # Null
      <4>1. c.loan \in Nat /\ d.loan \in Nat /\ c.loan >= d.loan
        BY <2>1, <3>2, CaseAssumption
      <4> QED
        BY <4>1, <2>1, <3>2 DEF LoanBonus, Over
    <3> QED
      BY <3>1, <3>2
  <2>3. SlaBonus(c.hours) >= SlaBonus(d.hours)
    BY <1>1, <2>1 DEF SlaBonus
  <2> QED
    BY <1>2, <1>3, <1>5, <2>1, <2>2, <2>3 DEF Priority, Clamp
<1> QED
  BY <1>4, <1>5

LEMMA HighPriority ==
    ASSUME NEW c \in Cases
    PROVE  Priority(c) <= 20 <=> c.vip \/ (Over(c.loan, 2000000) /\ c.hours < 2)
<1>1. c.hours \in Nat /\ c.vip \in BOOLEAN
  BY CaseAssumption
<1>2. LoanBonus(c.loan) \in {0, 5, 10, 15}
  BY DEF LoanBonus
<1>3. SlaBonus(c.hours) \in {0, 5, 10, 20} /\ (SlaBonus(c.hours) = 20 <=> c.hours < 2)
  BY <1>1 DEF SlaBonus
<1>4. LoanBonus(c.loan) >= 10 <=> Over(c.loan, 2000000)
  BY CaseAssumption, NullAssumption DEF LoanBonus, Over
<1> QED
  BY <1>1, <1>2, <1>3, <1>4 DEF Priority, Clamp

\* The clamp never acts: the bonuses take at most 35 of 50.
LEMMA PriorityRange ==
    ASSUME NEW c \in Cases
    PROVE  Priority(c) \in 1..50
<1>1. LoanBonus(c.loan) \in {0, 5, 10, 15}
  BY DEF LoanBonus
<1>2. SlaBonus(c.hours) \in {0, 5, 10, 20}
  BY DEF SlaBonus
<1> QED
  BY <1>1, <1>2 DEF Priority, Clamp

-----------------------------------------------------------------------------
(* The statement of the summary.                                           *)

LEMMA CountOf ==
    ASSUME NEW f \in DOMAIN NoCounts
    PROVE  Counts[f] =
              Cardinality({e \in Base :
                 CASE f \in Open -> e.status = f
                   [] f = "approaching" -> Approaching(e)
                   [] f = "breached" -> Breached(e)
                   [] OTHER -> Level(e) = f})
BY DEF Counts

\* Base is what the properties call the open entries.
LEMMA BaseIsOpen == Base = OpenEntries
BY DEF Base, OpenEntries

LEMMA BaseFinite == IsFiniteSet(queue) => IsFiniteSet(Base)
<1>1. Base \subseteq queue
  BY DEF Base
<1> QED
  BY <1>1, FS_Subset

LEMMA CountsBase ==
    ASSUME IsFiniteSet(queue), NEW A, NEW B, A \subseteq B, B \subseteq Base
    PROVE  Cardinality(A) <= Cardinality(B)
<1>1. IsFiniteSet(B)
  BY BaseFinite, FS_Subset
<1> QED
  BY <1>1, FS_Subset

\* "high" counts the open entries with the most urgent arguments; the loans among
\* them are due in less than two hours.
LEMMA HighCount ==
    ASSUME Given, IsFiniteSet(queue), now \in Nat
    PROVE  /\ Cardinality({e \in OpenEntries :
                              e.case.vip \/ (Large(e) /\ e.case.hours < 2)})
                  <= Counts["high"]
           /\ Counts["high"]
                  <= Cardinality({e \in OpenEntries :
                                   e.case.vip \/ (Large(e) /\ e.due < now + 2)})
<1> DEFINE Q == {e \in OpenEntries : e.case.vip \/ (Large(e) /\ e.case.hours < 2)}
           H == {e \in Base : Level(e) = "high"}
           U == {e \in OpenEntries : e.case.vip \/ (Large(e) /\ e.due < now + 2)}
<1>1. Counts["high"] = Cardinality(H)
  BY CountOf DEF NoCounts, Open
<1>2. ASSUME NEW e \in Base
      PROVE  /\ Level(e) = "high" <=>
                   e.case.vip \/ (Large(e) /\ e.case.hours < 2)
             /\ e.case.hours < 2 => e.due < now + 2
  <2>1. /\ e.case \in Cases /\ e.priority = Priority(e.case)
        /\ e.due \in Nat /\ e.due <= now + e.case.hours
    BY DEF Given, Base
  <2>2. Level(e) = "high" <=> Priority(e.case) <= 20
    BY <2>1, PriorityRange DEF Level
  <2>3. e.case.hours \in Nat
    BY <2>1, CaseAssumption
  <2>4. e.case.hours < 2 => e.due < now + 2
    BY <2>1, <2>3
  <2> QED
    BY <2>1, <2>2, <2>4, HighPriority DEF Large
<1>3. Q = H /\ H \subseteq U /\ Q \subseteq Base /\ U \subseteq Base
  BY <1>2, BaseIsOpen
<1> HIDE DEF Q, H, U
<1>4. Cardinality(Q) <= Cardinality(H) /\ Cardinality(H) <= Cardinality(U)
  BY <1>3, CountsBase
<1> QED
  BY <1>1, <1>4 DEF Q, H, U

LEMMA CardinalityOfDisjoint ==
    ASSUME NEW A, IsFiniteSet(A), NEW B, IsFiniteSet(B), A \cap B = {}
    PROVE  Cardinality(A \cup B) = Cardinality(A) + Cardinality(B)
<1>1. Cardinality(A \cup B) = Cardinality(A) + Cardinality(B) - Cardinality(A \cap B)
  BY FS_Union
<1>2. Cardinality(A \cap B) = 0
  BY FS_EmptySet
<1>3. Cardinality(A) \in Nat /\ Cardinality(B) \in Nat
  BY FS_CardinalityType
<1> QED
  BY <1>1, <1>2, <1>3

\* Breached is what is due by asOf; approaching has no entry in common with it,
\* and together they are what is due by the cutoff.
LEMMA DueCount ==
    ASSUME IsFiniteSet(queue), Given, asOf \in Nat
    PROVE  /\ Counts["breached"] = DueBy(asOf)
           /\ Counts["approaching"] + Counts["breached"] = DueBy(asOf + 2)
<1> DEFINE A == {e \in Base : Approaching(e)}
           B == {e \in Base : Breached(e)}
<1>1. Counts["approaching"] = Cardinality(A) /\ Counts["breached"] = Cardinality(B)
  BY CountOf DEF NoCounts, Open
<1>2. IsFiniteSet(A) /\ IsFiniteSet(B)
  <2>1. A \subseteq queue /\ B \subseteq queue
    BY DEF Base
  <2> QED
    BY <2>1, FS_Subset
<1>3. A \cap B = {}
  BY DEF Approaching, Breached, Given, Base
<1>4. /\ B = {e \in OpenEntries : e.due <= asOf}
      /\ A \cup B = {e \in OpenEntries : e.due <= asOf + 2}
  BY BaseIsOpen DEF Approaching, Breached, Given, Base
<1> HIDE DEF A, B
<1>5. Cardinality(A \cup B) = Cardinality(A) + Cardinality(B)
  BY <1>2, <1>3, CardinalityOfDisjoint
<1> QED
  BY <1>1, <1>4, <1>5 DEF DueBy

\* Time only adds to what is due.
LEMMA DueGrows ==
    ASSUME IsFiniteSet(queue), Given, NEW t \in Nat, NEW u \in Nat, t <= u
    PROVE  DueBy(t) <= DueBy(u)
<1> DEFINE D(x) == {e \in OpenEntries : e.due <= x}
<1>1. D(t) \subseteq D(u) /\ D(u) \subseteq Base
  BY BaseIsOpen DEF Given, Base
<1> HIDE DEF D
<1>2. Cardinality(D(t)) <= Cardinality(D(u))
  BY <1>1, CountsBase
<1> QED
  BY <1>2 DEF DueBy, D

LEMMA CardinalityOfThree ==
    ASSUME NEW S, IsFiniteSet(S), NEW A, NEW B, NEW C,
           S = A \cup B \cup C,
           A \cap B = {}, (A \cup B) \cap C = {}
    PROVE  Cardinality(S) = Cardinality(A) + Cardinality(B) + Cardinality(C)
<1>1. IsFiniteSet(A) /\ IsFiniteSet(B) /\ IsFiniteSet(C) /\ IsFiniteSet(A \cup B)
  <2>1. A \subseteq S /\ B \subseteq S /\ C \subseteq S /\ A \cup B \subseteq S
    OBVIOUS
  <2> QED
    BY <2>1, FS_Subset
<1>2. Cardinality(A \cup B) = Cardinality(A) + Cardinality(B)
  BY <1>1, CardinalityOfDisjoint
<1>3. Cardinality((A \cup B) \cup C) = Cardinality(A \cup B) + Cardinality(C)
  BY <1>1, CardinalityOfDisjoint
<1> QED
  BY <1>2, <1>3

LEMMA CountType ==
    ASSUME IsFiniteSet(queue)
    PROVE  Counts \in [DOMAIN NoCounts -> Nat]
<1>1. ASSUME NEW f \in DOMAIN NoCounts PROVE Counts[f] \in Nat
  <2> DEFINE S == {e \in Base :
                 CASE f \in Open -> e.status = f
                   [] f = "approaching" -> Approaching(e)
                   [] f = "breached" -> Breached(e)
                   [] OTHER -> Level(e) = f}
  <2>1. S \subseteq Base
    OBVIOUS
  <2>2. Counts[f] = Cardinality(S)
    BY CountOf
  <2> HIDE DEF S
  <2> QED
    BY <2>1, <2>2, BaseFinite, FS_Subset, FS_CardinalityType
<1> QED
  BY <1>1 DEF Counts

\* Every open entry is in one status, in one bucket, and in at most one of the
\* two groups of the SLA.
LEMMA CountsAddUp ==
    ASSUME IsFiniteSet(queue), Given, asOf \in Nat
    PROVE  /\ Counts["pending"] + Counts["assigned"] + Counts["in_progress"]
                 = Counts["high"] + Counts["medium"] + Counts["low"]
           /\ Counts["approaching"] + Counts["breached"]
                 <= Counts["high"] + Counts["medium"] + Counts["low"]
<1> DEFINE S(f) == {e \in Base : e.status = f}
           L(f) == {e \in Base : Level(e) = f}
           A == {e \in Base : Approaching(e)}
           B == {e \in Base : Breached(e)}
<1>1. IsFiniteSet(Base) /\ Cardinality(Base) \in Nat
  BY BaseFinite, FS_CardinalityType
<1>2. Cardinality(Base) = Cardinality(S("pending")) + Cardinality(S("assigned"))
                            + Cardinality(S("in_progress"))
  <2>1. Base = S("pending") \cup S("assigned") \cup S("in_progress")
    BY DEF Base, Open
  <2>2. /\ S("pending") \cap S("assigned") = {}
        /\ (S("pending") \cup S("assigned")) \cap S("in_progress") = {}
    OBVIOUS
  <2> HIDE DEF S
  <2> QED
    BY <1>1, <2>1, <2>2, CardinalityOfThree
<1>3. Cardinality(Base) = Cardinality(L("high")) + Cardinality(L("medium"))
                            + Cardinality(L("low"))
  <2>1. Base = L("high") \cup L("medium") \cup L("low")
    BY DEF Level
  <2>2. /\ L("high") \cap L("medium") = {}
        /\ (L("high") \cup L("medium")) \cap L("low") = {}
    OBVIOUS
  <2> HIDE DEF L
  <2> QED
    BY <1>1, <2>1, <2>2, CardinalityOfThree
<1>4. Cardinality(A) + Cardinality(B) <= Cardinality(Base)
  <2>1. A \subseteq Base /\ B \subseteq Base /\ A \cup B \subseteq Base
    OBVIOUS
  <2>2. A \cap B = {}
    BY DEF Approaching, Breached, Given, Base
  <2> HIDE DEF A, B
  <2>3. IsFiniteSet(A) /\ IsFiniteSet(B)
    BY <1>1, <2>1, FS_Subset
  <2>4. Cardinality(A \cup B) = Cardinality(A) + Cardinality(B)
    BY <2>2, <2>3, CardinalityOfDisjoint
  <2>5. Cardinality(A \cup B) <= Cardinality(Base)
    BY <1>1, <2>1, FS_Subset
  <2> QED
    BY <2>4, <2>5
<1>5. /\ Counts["pending"] = Cardinality(S("pending"))
      /\ Counts["assigned"] = Cardinality(S("assigned"))
      /\ Counts["in_progress"] = Cardinality(S("in_progress"))
  BY CountOf DEF NoCounts, Open
<1>6. /\ Counts["high"] = Cardinality(L("high"))
      /\ Counts["medium"] = Cardinality(L("medium"))
      /\ Counts["low"] = Cardinality(L("low"))
  BY CountOf DEF NoCounts, Open
<1>7. Counts["approaching"] = Cardinality(A) /\ Counts["breached"] = Cardinality(B)
  BY CountOf DEF NoCounts, Open
<1> HIDE DEF S, L, A, B
<1> QED
  BY <1>1, <1>2, <1>3, <1>4, <1>5, <1>6, <1>7

-----------------------------------------------------------------------------
(* Types.                                                                  *)

LEMMA InitType == Init => TypeInv
<1> SUFFICES ASSUME Init PROVE TypeInv
  OBVIOUS
<1>1. NoAnswer.status = "none" /\ NoAnswer.items = {} /\ NoAnswer.counts = NoCounts
  BY DEF NoAnswer, Answer
<1>2. NoCounts \in [DOMAIN NoCounts -> Nat]
  BY DEF NoCounts
<1> QED
  BY <1>1, <1>2, FS_EmptySet, NullAssumption
  DEF Init, TypeInv, TypeOK, Unanswered

LEMMA EnqueuedRow ==
    ASSUME NEW e \in Entries, NEW t \in Tenants, NEW c \in Cases, TypeOK
    PROVE  [id |-> e, tenant |-> t, case |-> c, priority |-> Priority(c),
            due |-> now + c.hours, status |-> "pending"] \in Rows
<1>1. now + c.hours \in Nat
  BY CaseAssumption, NullAssumption DEF TypeOK
<1>2. Priority(c) \in 1..100
  BY PriorityRange
<1> QED
  BY <1>1, <1>2 DEF Rows, Statuses

LEMMA NextType == TypeInv /\ [Next]_vars => TypeInv'
<1> SUFFICES ASSUME TypeInv, [Next]_vars PROVE TypeInv'
  OBVIOUS
<1>i. TypeOK /\ Unanswered /\ IsFiniteSet(queue)
  BY DEF TypeInv
<1>n. /\ NoAnswer.status = "none" /\ NoAnswer.items = {}
      /\ NoAnswer.counts = NoCounts /\ NoCounts \in [DOMAIN NoCounts -> Nat]
  BY DEF NoAnswer, Answer, NoCounts
<1>1. CASE Receive
  BY <1>i, <1>1 DEF Receive, TypeInv, TypeOK, Unanswered
<1>2. CASE Refuse
  <2>1. answer'.status = "422" /\ answer'.items = {} /\ answer'.counts = NoCounts
    BY <1>2 DEF Refuse, Respond, Answer
  <2> QED
    BY <1>i, <1>n, <1>2, <2>1 DEF Refuse, Respond, TypeInv, TypeOK, Unanswered
<1>3. CASE Prepare
  BY <1>i, <1>3, NullAssumption DEF Prepare, TypeInv, TypeOK, Unanswered
<1>4. CASE List
  <2>1. PICK page \in SUBSET Selected :
           /\ pc' = "done"
           /\ answer' = IF \A e \in page : e.status \in Known
                        THEN Answer("200", page, NoCounts)
                        ELSE Answer("500", {}, NoCounts)
           /\ UNCHANGED <<queue, now, req, arrived, asOf>>
    BY <1>4 DEF List, Respond
  <2>2. /\ answer'.status \in {"200", "500"}
        /\ answer'.items \subseteq queue
        /\ answer'.counts = NoCounts
    BY <2>1 DEF Answer, Selected
  <2> QED
    BY <1>i, <1>n, <2>1, <2>2 DEF TypeInv, TypeOK, Unanswered
<1>11. CASE StatementFails
  <2>1. answer'.status = "500" /\ answer'.items = {} /\ answer'.counts = NoCounts
    BY <1>11 DEF StatementFails, Respond, Answer
  <2> QED
    BY <1>i, <1>n, <1>11, <2>1
    DEF StatementFails, Respond, TypeInv, TypeOK, Unanswered
<1>5. CASE Summary
  <2>1. answer'.status = "200" /\ answer'.items = {} /\ answer'.counts = Counts
    BY <1>5 DEF Summary, Respond, Answer
  <2>2. Counts \in [DOMAIN NoCounts -> Nat]
    BY <1>i, CountType
  <2> QED
    BY <1>i, <1>5, <2>1, <2>2 DEF Summary, Respond, TypeInv, TypeOK, Unanswered
<1>6. CASE Close
  BY <1>i, <1>n, <1>6, NullAssumption DEF Close, TypeInv, TypeOK, Unanswered
<1>7. ASSUME NEW e \in Entries, Enqueue(e) PROVE TypeInv'
  <2>1. /\ pc # "done" /\ UNCHANGED <<now, pc, req, arrived, asOf, answer>>
        /\ \A f \in queue : f.id # e
    BY <1>7 DEF Enqueue, Writing
  <2>2. PICK r \in Rows : r.id = e /\ queue' = queue \cup {r}
    BY <1>7, <1>i, EnqueuedRow DEF Enqueue
  <2>3. IsFiniteSet(queue')
    BY <1>i, <2>2, FS_AddElement
  <2>4. queue' \subseteq Rows /\ \A f, g \in queue' : f.id = g.id => f = g
    BY <1>i, <2>1, <2>2 DEF TypeOK
  <2> QED
    BY <1>i, <1>n, <2>1, <2>3, <2>4 DEF TypeInv, TypeOK, Unanswered
<1>8. ASSUME NEW e \in queue, SetStatus(e) PROVE TypeInv'
  <2>1. pc # "done" /\ UNCHANGED <<now, pc, req, arrived, asOf, answer>>
    BY <1>8 DEF SetStatus, Writing
  <2>2. PICK s \in Statuses : queue' = (queue \ {e}) \cup {[e EXCEPT !.status = s]}
    BY <1>8 DEF SetStatus
  <2>3. IsFiniteSet(queue')
    BY <1>i, <2>2, FS_AddElement, FS_RemoveElement
  <2>4. e \in Rows
    BY <1>i DEF TypeOK
  <2>5. [e EXCEPT !.status = s] \in Rows /\ [e EXCEPT !.status = s].id = e.id
    BY <2>4 DEF Rows
  <2>6. queue' \subseteq Rows /\ \A f, g \in queue' : f.id = g.id => f = g
    BY <1>i, <2>2, <2>5 DEF TypeOK
  <2> QED
    BY <1>i, <1>n, <2>1, <2>3, <2>6 DEF TypeInv, TypeOK, Unanswered
<1>9. CASE Tick
  BY <1>i, <1>9, NullAssumption DEF Tick, TypeInv, TypeOK, Unanswered
<1>10. CASE UNCHANGED vars
  BY <1>i, <1>10 DEF vars, TypeInv, TypeOK, Unanswered
<1> QED
  BY <1>1, <1>2, <1>3, <1>4, <1>5, <1>6, <1>7, <1>8, <1>9, <1>10, <1>11 DEF Next

-----------------------------------------------------------------------------
(* The invariant.                                                          *)

LEMMA InitIInv == Init => IInv
<1> SUFFICES ASSUME Init PROVE IInv
  OBVIOUS
<1>1. SummaryAddsUp
  BY DEF Init, SummaryAddsUp, NoAnswer, Answer, NoCounts
<1> QED
  BY <1>1, InitType
  DEF Init, IInv, Given, Clocked, HighMeansUrgent, SlaExact, Summarized

LEMMA NextIInv == IInv /\ [Next]_vars => IInv'
<1> SUFFICES ASSUME IInv, [Next]_vars PROVE IInv'
  OBVIOUS
<1>i. TypeInv /\ TypeInv' /\ Given /\ Clocked /\ SummaryAddsUp
  BY NextType DEF IInv
<1>t. /\ TypeOK /\ TypeOK' /\ IsFiniteSet(queue)
      /\ now \in Nat /\ asOf \in Nat /\ arrived \in Nat
      /\ asOf <= now /\ arrived <= now
  <2>1. TypeOK /\ TypeOK' /\ IsFiniteSet(queue)
    BY <1>i DEF TypeInv
  <2> QED
    BY <2>1, NullAssumption DEF TypeOK
\* Before and after a step that leads to no answer.
<1>q. ASSUME pc' # "done", answer' = answer \/ answer' = NoAnswer
      PROVE  HighMeansUrgent' /\ SummaryAddsUp' /\ SlaExact'
  <2>1. SummaryAddsUp'
    <3>1. CASE answer' = answer
      BY <1>i, <3>1 DEF SummaryAddsUp
    <3>2. CASE answer' = NoAnswer
      BY <3>2 DEF SummaryAddsUp, NoAnswer, Answer, NoCounts
    <3> QED
      BY <1>q, <3>1, <3>2
  <2> QED
    BY <1>q, <2>1 DEF HighMeansUrgent, SlaExact, Summarized
\* An answer without counts that is not a summary's.
<1>a. ASSUME pc' = "done", answer'.counts = NoCounts,
             answer'.status # "200" \/ req.endpoint # "summary",
             UNCHANGED <<queue, now, req, arrived, asOf>>
      PROVE  IInv'
  <2>1. HighMeansUrgent' /\ SlaExact'
    BY <1>a DEF HighMeansUrgent, SlaExact, Summarized
  <2>2. SummaryAddsUp'
    BY <1>a DEF SummaryAddsUp, NoCounts
  <2> QED
    BY <1>i, <1>a, <2>1, <2>2 DEF IInv, Given, Clocked
<1>1. CASE Receive
  BY <1>i, <1>q, <1>1 DEF Receive, IInv, Given, Clocked
<1>2. CASE Refuse
  BY <1>a, <1>2 DEF Refuse, Respond, Answer
<1>3. CASE Prepare
  <2>1. pc' = "query" /\ UNCHANGED <<queue, now, req, arrived, answer>>
    BY <1>3 DEF Prepare
  <2>2. Clocked'
    BY <1>t, <1>3, <2>1 DEF Prepare, Clocked
  <2> QED
    BY <1>i, <1>q, <2>1, <2>2 DEF IInv, Given
<1>4. CASE List
  BY <1>a, <1>4 DEF List, Respond, Answer
<1>5. CASE Summary
  <2>1. /\ pc = "query" /\ req.endpoint = "summary"
        /\ pc' = "done" /\ answer'.status = "200" /\ answer'.counts = Counts
        /\ UNCHANGED <<queue, now, req, arrived, asOf>>
    BY <1>5 DEF Summary, Respond, Answer
  <2>2. HighMeansUrgent'
    BY <1>i, <1>t, <2>1, HighCount DEF HighMeansUrgent, OpenEntries, Large
  <2>3. SlaExact'
    <3>1. /\ Counts["breached"] = DueBy(asOf)
          /\ Counts["approaching"] + Counts["breached"] = DueBy(asOf + 2)
      BY <1>i, <1>t, DueCount
    <3>2. arrived <= asOf
      BY <1>i, <2>1 DEF Clocked
    <3>3. /\ DueBy(arrived) <= DueBy(asOf)
          /\ DueBy(asOf) <= DueBy(now)
      BY <1>i, <1>t, <3>2, DueGrows
    <3>4. /\ DueBy(arrived + 2) <= DueBy(asOf + 2)
          /\ DueBy(asOf + 2) <= DueBy(now + 2)
      <4>1. /\ arrived + 2 \in Nat /\ asOf + 2 \in Nat /\ now + 2 \in Nat
            /\ arrived + 2 <= asOf + 2 /\ asOf + 2 <= now + 2
        BY <1>t, <3>2
      <4> QED
        BY <1>i, <1>t, <4>1, DueGrows
    <3>5. /\ DueBy(arrived)' = DueBy(arrived) /\ DueBy(now)' = DueBy(now)
          /\ DueBy(arrived + 2)' = DueBy(arrived + 2)
          /\ DueBy(now + 2)' = DueBy(now + 2)
      BY <2>1 DEF DueBy, OpenEntries
    <3> QED
      BY <2>1, <3>1, <3>3, <3>4, <3>5 DEF SlaExact
  <2>4. SummaryAddsUp'
    BY <1>i, <1>t, <2>1, CountsAddUp DEF SummaryAddsUp
  <2> QED
    BY <1>i, <2>1, <2>2, <2>3, <2>4 DEF IInv, Given, Clocked
<1>6. CASE Close
  <2>1. pc' = "idle" /\ answer' = NoAnswer /\ UNCHANGED <<queue, now>>
    BY <1>6 DEF Close
  <2> QED
    BY <1>i, <1>q, <2>1 DEF IInv, Given, Clocked
<1>7. ASSUME NEW e \in Entries, Enqueue(e) PROVE IInv'
  <2>1. pc # "done" /\ UNCHANGED <<now, pc, req, arrived, asOf, answer>>
    BY <1>7 DEF Enqueue, Writing
  <2>2. PICK t \in Tenants, c \in Cases :
           queue' = queue \cup
              {[id |-> e, tenant |-> t, case |-> c, priority |-> Priority(c),
                due |-> now + c.hours, status |-> "pending"]}
    BY <1>7 DEF Enqueue
  <2>3. now + c.hours \in Nat
    BY <1>t, CaseAssumption
  <2>4. Given'
    BY <1>i, <2>1, <2>2, <2>3 DEF Given
  <2> QED
    BY <1>i, <1>q, <2>1, <2>4 DEF IInv, Clocked
<1>8. ASSUME NEW e \in queue, SetStatus(e) PROVE IInv'
  <2>1. pc # "done" /\ UNCHANGED <<now, pc, req, arrived, asOf, answer>>
    BY <1>8 DEF SetStatus, Writing
  <2>2. PICK s \in Statuses : queue' = (queue \ {e}) \cup {[e EXCEPT !.status = s]}
    BY <1>8 DEF SetStatus
  <2>3. e \in Rows
    BY <1>t DEF TypeOK
  <2>4. /\ [e EXCEPT !.status = s].case = e.case
        /\ [e EXCEPT !.status = s].priority = e.priority
        /\ [e EXCEPT !.status = s].due = e.due
    BY <2>3 DEF Rows
  <2>5. Given'
    BY <1>i, <2>1, <2>2, <2>4 DEF Given
  <2> QED
    BY <1>i, <1>q, <2>1, <2>5 DEF IInv, Clocked
<1>9. CASE Tick
  <2>1. /\ pc # "done" /\ now' = now + 1
        /\ UNCHANGED <<queue, pc, req, arrived, asOf, answer>>
    BY <1>9 DEF Tick
  <2>2. Given'
    <3>1. ASSUME NEW e \in queue PROVE e.due <= now' + e.case.hours
      <4>1. /\ e.case.hours \in Nat /\ e.due \in Nat
            /\ e.due <= now + e.case.hours
        BY <1>i, CaseAssumption DEF Given
      <4> QED
        BY <1>t, <2>1, <4>1
    <3> QED
      BY <1>i, <2>1, <3>1 DEF Given
  <2> QED
    BY <1>i, <1>q, <2>1, <2>2 DEF IInv, Clocked
<1>10. CASE UNCHANGED vars
  <2>1. HighMeansUrgent' /\ SummaryAddsUp' /\ SlaExact'
    BY <1>10
    DEF vars, IInv, HighMeansUrgent, SummaryAddsUp, SlaExact, Summarized,
        OpenEntries, Large, DueBy
  <2> QED
    BY <1>i, <1>10, <2>1 DEF vars, IInv, Given, Clocked
<1>11. CASE StatementFails
  BY <1>a, <1>11 DEF StatementFails, Respond, Answer
<1> QED
  BY <1>1, <1>2, <1>3, <1>4, <1>5, <1>6, <1>7, <1>8, <1>9, <1>10, <1>11 DEF Next

LEMMA Invariant == Spec => []IInv
BY InitIInv, NextIInv, PTL DEF Spec

-----------------------------------------------------------------------------
\* Every variable keeps its type, and priorities stay between 1 and 100.
THEOREM TypeCorrect == Spec => []TypeOK
<1>1. IInv => TypeOK
  BY DEF IInv, TypeInv
<1> QED
  BY <1>1, Invariant, PTL

\* Whatever entries are queued with, none that is at least as urgent has the
\* larger number, and VIPs come first: calculate_queue_priority is monotone in
\* each argument and its limits never turn two entries around.
THEOREM UrgentComeFirst == Spec => []UrgentFirst
<1>1. IInv => UrgentFirst
  BY PriorityOrder DEF IInv, Given, UrgentFirst
<1> QED
  BY <1>1, Invariant, PTL

\* Every VIP and every large loan queued in its last two hours is in the summary's
\* "high" bucket, and nothing else is but large loans whose last two hours have
\* begun since.
THEOREM BucketsMeanUrgency == Spec => []HighMeansUrgent
<1>1. IInv => HighMeansUrgent
  BY DEF IInv
<1> QED
  BY <1>1, Invariant, PTL

\* The counts by status, by bucket and by deadline of a summary are about the same
\* entries.
THEOREM SummariesAddUp == Spec => []SummaryAddsUp
<1>1. IInv => SummaryAddsUp
  BY DEF IInv
<1> QED
  BY <1>1, Invariant, PTL

\* Breached is what is due by a time between request and statement, and approaching
\* the rest of what is due two hours after it, whatever was written meanwhile and
\* however long the handler waited.
THEOREM SlaCountsAreExact == Spec => []SlaExact
<1>1. IInv => SlaExact
  BY DEF IInv
<1> QED
  BY <1>1, Invariant, PTL

\* A statement runs only for parameters the handler has let through.
Checked ==
    pc = "query" /\ req.endpoint = "list" => req.status \in Open \cup {Null}

LEMMA CheckedAlways == Spec => []Checked
<1>1. Init => Checked
  BY DEF Init, Checked
<1>2. TypeOK /\ Checked /\ [Next]_vars => Checked'
  <2> SUFFICES ASSUME TypeOK, Checked, [Next]_vars PROVE Checked'
    OBVIOUS
  <2>1. CASE Prepare
    <3>1. SUFFICES ASSUME req.endpoint = "list" PROVE req.status \in Open \cup {Null}
      BY <2>1 DEF Prepare, Checked
    <3>2. req \in Lists
      BY <3>1 DEF TypeOK, Idle, Summaries
    <3> QED
      BY <2>1, <3>1, <3>2 DEF Prepare, BadRequest, Lists
  <2>2. ASSUME UNCHANGED <<pc, req>> PROVE Checked'
    BY <2>2 DEF Checked
  <2>3. ASSUME pc' # "query" PROVE Checked'
    BY <2>3 DEF Checked
  <2>4. CASE \E e \in Entries : Enqueue(e)
    BY <2>2, <2>4 DEF Enqueue, Writing
  <2>5. CASE \E e \in queue : SetStatus(e)
    BY <2>2, <2>5 DEF SetStatus, Writing
  <2>6. CASE Receive \/ Refuse \/ List \/ Summary \/ StatementFails \/ Close
    BY <2>3, <2>6 DEF Receive, Refuse, List, Summary, StatementFails, Close, Respond
  <2>7. CASE Tick \/ UNCHANGED vars
    BY <2>2, <2>7 DEF Tick, vars
  <2> QED
    BY <2>1, <2>4, <2>5, <2>6, <2>7 DEF Next
<1> QED
  BY <1>1, <1>2, TypeCorrect, PTL DEF Spec

\* When its statement is answered, a status the response schema does not know
\* fails only an unfiltered list of the entry's own tenant.
THEOREM UnknownStatusIsContained == Spec => UnknownStatusContained
<1>1. ASSUME Checked, List, answer'.status # "200"
      PROVE  /\ req.status = Null
             /\ \E e \in queue : e.tenant = req.tenant /\ e.status \notin Known
  <2>1. PICK e \in Selected : e.status \notin Known
    BY <1>1 DEF List, Respond, Answer
  <2>2. /\ e \in queue /\ e.tenant = req.tenant
        /\ req.status = Null \/ e.status = req.status
    BY <2>1 DEF Selected
  <2>3. req.status \in Open \cup {Null}
    BY <1>1 DEF List, Checked
  <2>4. req.status = Null
    BY <2>1, <2>2, <2>3 DEF Open, Known
  <2> QED
    BY <2>1, <2>2, <2>4
<1>2. Checked
        => [List /\ answer'.status # "200"
               => /\ req.status = Null
                  /\ \E e \in queue :
                        e.tenant = req.tenant /\ e.status \notin Known]_vars
  BY <1>1
<1> QED
  BY <1>2, CheckedAlways, PTL DEF UnknownStatusContained
=============================================================================
