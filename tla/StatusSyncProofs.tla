-------------------------- MODULE StatusSyncProofs --------------------------
(***************************************************************************)
(* Proofs about StatusSync for any number of transactions, of which any    *)
(* number is open at once.  What is committed about decisions only grows,  *)
(* so that a status read from a decision stays backed however long the     *)
(* UPDATE waits (WantBacked); what a transaction read is still the whole   *)
(* truth as long as nothing was committed since (FreshRead).               *)
(***************************************************************************)
EXTENDS StatusSync, TLAPS

\* The decisions D leave the status to the queue.
Undecided(D) == D = {} \/ \E d \in Latest(D) : d.outcome \notin Final

\* A transaction's UPDATE is still to come, or waits to be committed.
Updating(t) == pc[t] = "update" \/ (pc[t] = "synced" /\ lock = t)

LockHeld == \A t \in Txns : lock = t => pc[t] = "synced"

WantBacked ==
    \A t \in Txns :
        Updating(t) /\ want[t] \in Final =>
            \E d \in SeenDecisions(t) : d.outcome = want[t]

FreshRead ==
    \A t \in fresh :
        /\ pc[t] \notin {"idle", "open", "sync"}
        /\ pc[t] = "queue" => Undecided(SeenDecisions(t))
        /\ Updating(t) =>
              \/ \E d \in Latest(SeenDecisions(t)) :
                    d.outcome \in Final /\ want[t] = d.outcome
              \/ /\ want[t] = "review"
                 /\ Undecided(SeenDecisions(t))
                 /\ SeenQueue(t) # {}
        /\ pc[t] = "synced" /\ lock # t =>
              Undecided(SeenDecisions(t)) /\ SeenQueue(t) = {}

IInv == TypeOK /\ Backed /\ LockHeld /\ WantBacked /\ FreshRead

-----------------------------------------------------------------------------
LEMMA InitType == Init => TypeOK
BY TimeAssumption
DEF Init, TypeOK, PCs, Statuses, Final, Writes, NothingWritten

LEMMA SeenType ==
    ASSUME TypeOK, NEW t \in Txns
    PROVE  SeenDecisions(t) \subseteq Decision /\ SeenQueue(t) \subseteq Txns
BY DEF TypeOK, SeenDecisions, SeenQueue, Writes

LEMMA WriteType ==
    ASSUME TypeOK, NEW t \in Txns, Write(t)
    PROVE  write' \in [Txns -> Writes]
<1>1. CASE Decide(t)
  <2>1. PICK o \in Outcomes :
            write' = [write EXCEPT ![t].decided =
                          {[by |-> t, outcome |-> o, at |-> since[t]]}]
    BY <1>1 DEF Decide
  <2>2. [by |-> t, outcome |-> o, at |-> since[t]] \in Decision
    BY DEF TypeOK, Decision
  <2> QED
    BY <2>1, <2>2 DEF TypeOK, Writes
<1>2. CASE Enqueue(t)
  <2>1. [write[t] EXCEPT !.opened = {t}] \in Writes
    BY DEF TypeOK, Writes
  <2>2. write' = [write EXCEPT ![t] = [write[t] EXCEPT !.opened = {t}]]
    BY <1>2 DEF Enqueue
  <2> QED
    BY <2>1, <2>2 DEF TypeOK
<1>3. CASE Complete(t)
  <2>1. [write[t] EXCEPT !.closed = queue] \in Writes
    BY DEF TypeOK, Writes
  <2>2. write' = [write EXCEPT ![t] = [write[t] EXCEPT !.closed = queue]]
    BY <1>3 DEF Complete
  <2> QED
    BY <2>1, <2>2 DEF TypeOK
<1> QED
  BY <1>1, <1>2, <1>3 DEF Write, TypeOK

LEMMA NextType == TypeOK /\ [Next]_vars => TypeOK'
<1> SUFFICES ASSUME TypeOK, [Next]_vars PROVE TypeOK'
  OBVIOUS
<1>1. ASSUME NEW t \in Txns, Begin(t) PROVE TypeOK'
  BY <1>1 DEF Begin, Go, TypeOK, tables, PCs
<1>2. ASSUME NEW t \in Txns, Write(t) PROVE TypeOK'
  <2>1. write' \in [Txns -> Writes]
    BY <1>2, WriteType
  <2> QED
    BY <1>2, <2>1 DEF Write, Go, TypeOK, tables, PCs
<1>3. ASSUME NEW t \in Txns, ReadDecision(t) PROVE TypeOK'
  BY <1>3 DEF ReadDecision, Go, TypeOK, tables, PCs, Statuses, Final
<1>4. ASSUME NEW t \in Txns, ReadQueue(t) PROVE TypeOK'
  BY <1>4 DEF ReadQueue, Go, TypeOK, tables, PCs, Statuses
<1>5. ASSUME NEW t \in Txns, Update(t) PROVE TypeOK'
  BY <1>5 DEF Update, Go, TypeOK, tables, PCs
<1>6. ASSUME NEW t \in Txns, Commit(t) PROVE TypeOK'
  <2>1. decisions' \subseteq Decision /\ queue' \subseteq Txns
    BY <1>6, SeenType DEF Commit
  <2>2. /\ pc' \in [Txns -> PCs]
        /\ status' \in Statuses
        /\ lock' \in Txns \cup {NoTxn}
        /\ fresh' = {}
        /\ UNCHANGED <<since, write, want, clock>>
    BY <1>6 DEF Commit, Go, TypeOK, PCs
  <2> QED
    BY <2>1, <2>2 DEF TypeOK
<1>7. ASSUME NEW t \in Txns, Rollback(t) PROVE TypeOK'
  <2>1. /\ pc' \in [Txns -> PCs]
        /\ lock' \in Txns \cup {NoTxn}
        /\ UNCHANGED <<since, write, want, tables, clock, fresh>>
    BY <1>7 DEF Rollback, TypeOK, PCs
  <2> QED
    BY <2>1 DEF TypeOK, tables
<1>8. CASE Tick
  BY <1>8, TimeAssumption DEF Tick, TypeOK, tables
<1>9. CASE UNCHANGED vars
  BY <1>9 DEF vars, TypeOK, tables
<1> QED
  BY <1>1, <1>2, <1>3, <1>4, <1>5, <1>6, <1>7, <1>8, <1>9 DEF Next

-----------------------------------------------------------------------------
(* Facts about one step.                                                   *)

LEMMA SeenSame ==
    ASSUME UNCHANGED <<decisions, queue, write>>
    PROVE  /\ \A t : SeenDecisions(t)' = SeenDecisions(t)
           /\ \A t : SeenQueue(t)' = SeenQueue(t)
BY DEF SeenDecisions, SeenQueue

\* The first SELECT returns a decision none is later than, or none at all.
LEMMA ChosenMeaning ==
    ASSUME NEW t, NEW o \in Outcomes, Chosen(t, o)
    PROVE  /\ o \in Final => \E d \in Latest(SeenDecisions(t)) : d.outcome = o
           /\ o \notin Final => Undecided(SeenDecisions(t))
BY DEF Chosen, Undecided, Final, Outcomes

LEMMA LatestIsLastWord ==
    ASSUME NEW D \in SUBSET Decision, NEW d \in Latest(D)
    PROVE  d \in D /\ LastWord(d, D)
BY TimeAssumption DEF Latest, LastWord, Decision

\* What was read is what is wanted.
LEMMA ReadIsWanted ==
    ASSUME NEW D \in SUBSET Decision, NEW Q, NEW s
    PROVE  /\ \A d \in Latest(D) :
                 d.outcome \in Final => d.outcome \in Wanted(D, Q, s)
           /\ Undecided(D) /\ Q # {} => "review" \in Wanted(D, Q, s)
           /\ Undecided(D) /\ Q = {} => s \in Wanted(D, Q, s)
<1> DEFINE u == IF Q = {} THEN s ELSE "review"
<1>1. D = {} => Wanted(D, Q, s) = {u}
  BY DEF Wanted
<1>2. ASSUME NEW d \in Latest(D)
      PROVE  (IF d.outcome \in Final THEN d.outcome ELSE u)
                 \in Wanted(D, Q, s)
  <2>1. d \in {e \in D : LastWord(e, D)}
    BY LatestIsLastWord
  <2> QED
    BY <2>1 DEF Wanted
<1>3. Undecided(D) => u \in Wanted(D, Q, s)
  BY <1>1, <1>2 DEF Undecided
<1> QED
  BY <1>2, <1>3

-----------------------------------------------------------------------------
LEMMA InitIInv == Init => IInv
<1> SUFFICES ASSUME Init PROVE IInv
  OBVIOUS
<1>1. LockHeld
  BY TxnAssumption DEF Init, LockHeld
<1> QED
  BY <1>1, InitType
  DEF Init, IInv, Backed, WantBacked, FreshRead, Updating, Final

LEMMA NextIInv == IInv /\ [Next]_vars => IInv'
<1> SUFFICES ASSUME IInv, [Next]_vars PROVE IInv'
  OBVIOUS
<1>t. TypeOK /\ TypeOK'
  BY NextType DEF IInv
<1> DEFINE Rest == Backed /\ LockHeld /\ WantBacked /\ FreshRead
<1>r. Rest
  BY DEF IInv
<1>1. ASSUME NEW t \in Txns, Begin(t) PROVE Rest'
  <2>1. /\ UNCHANGED <<write, want, decisions, queue, status, lock, fresh>>
        /\ pc[t] = "idle"
        /\ pc' = [pc EXCEPT ![t] = "open"]
    BY <1>1 DEF Begin, Go, tables
  <2> QED
    BY <1>t, <1>r, <2>1, SeenSame
    DEF TypeOK, Backed, LockHeld, WantBacked, FreshRead, Updating
<1>2. ASSUME NEW t \in Txns, Write(t) PROVE Rest'
  <2>1. /\ UNCHANGED <<want, decisions, queue, status, lock, fresh>>
        /\ pc[t] = "open"
        /\ pc' = [pc EXCEPT ![t] = "sync"]
    BY <1>2 DEF Write, Go, tables
  <2>2. \A q \in Txns \ {t} : write'[q] = write[q]
    BY <1>2, <1>t
    DEF Write, Decide, Enqueue, Complete, TypeOK
  <2>3. /\ \A q \in Txns \ {t} : SeenDecisions(q)' = SeenDecisions(q)
        /\ \A q \in Txns \ {t} : SeenQueue(q)' = SeenQueue(q)
    BY <2>1, <2>2 DEF SeenDecisions, SeenQueue
  <2>4. t \notin fresh /\ lock # t
    BY <1>r, <2>1 DEF FreshRead, LockHeld
  <2>5. Backed' /\ LockHeld'
    BY <1>t, <1>r, <2>1, <2>4 DEF Backed, LockHeld, TypeOK
  <2>6. WantBacked'
    BY <1>t, <1>r, <2>1, <2>3, <2>4 DEF WantBacked, Updating, TypeOK
  <2>7. FreshRead'
    BY <1>t, <1>r, <2>1, <2>3, <2>4 DEF FreshRead, Updating, TypeOK
  <2> QED
    BY <2>5, <2>6, <2>7
<1>3. ASSUME NEW t \in Txns, ReadDecision(t) PROVE Rest'
  <2>1. PICK o \in Outcomes :
           /\ Chosen(t, o)
           /\ pc[t] = "sync"
           /\ \/ /\ o \in Final
                 /\ pc' = [pc EXCEPT ![t] = "update"]
                 /\ want' = [want EXCEPT ![t] = o]
              \/ /\ o \notin Final
                 /\ pc' = [pc EXCEPT ![t] = "queue"]
                 /\ want' = want
           /\ fresh' = fresh \cup {t}
           /\ UNCHANGED <<write, decisions, queue, status, lock>>
    BY <1>3 DEF ReadDecision, Go, tables
  <2>2. /\ \A q : SeenDecisions(q)' = SeenDecisions(q)
        /\ \A q : SeenQueue(q)' = SeenQueue(q)
    BY <2>1, SeenSame
  <2>3. lock # t
    BY <1>r, <2>1 DEF LockHeld
  <2>4. /\ o \in Final => \E d \in Latest(SeenDecisions(t)) : d.outcome = o
        /\ o \notin Final => Undecided(SeenDecisions(t))
    BY <2>1, ChosenMeaning
  <2>5. Backed' /\ LockHeld'
    BY <1>t, <1>r, <2>1, <2>3 DEF Backed, LockHeld, TypeOK
  <2>6. WantBacked'
    BY <1>t, <1>r, <2>1, <2>2, <2>3, <2>4
    DEF WantBacked, Updating, TypeOK, Latest
  <2>7. FreshRead'
    BY <1>t, <1>r, <2>1, <2>2, <2>3, <2>4 DEF FreshRead, Updating, TypeOK
  <2> QED
    BY <2>5, <2>6, <2>7
<1>4. ASSUME NEW t \in Txns, ReadQueue(t) PROVE Rest'
  <2>1. /\ pc[t] = "queue"
        /\ \/ /\ SeenQueue(t) # {}
              /\ pc' = [pc EXCEPT ![t] = "update"]
              /\ want' = [want EXCEPT ![t] = "review"]
           \/ /\ SeenQueue(t) = {}
              /\ pc' = [pc EXCEPT ![t] = "synced"]
              /\ want' = want
        /\ UNCHANGED <<write, decisions, queue, status, lock, fresh>>
    BY <1>4 DEF ReadQueue, Go, tables
  <2>2. /\ \A q : SeenDecisions(q)' = SeenDecisions(q)
        /\ \A q : SeenQueue(q)' = SeenQueue(q)
    BY <2>1, SeenSame
  <2>3. lock # t
    BY <1>r, <2>1 DEF LockHeld
  <2>5. Backed' /\ LockHeld'
    BY <1>t, <1>r, <2>1, <2>3 DEF Backed, LockHeld, TypeOK
  <2>6. WantBacked'
    BY <1>t, <1>r, <2>1, <2>2, <2>3 DEF WantBacked, Updating, TypeOK, Final
  <2>7. FreshRead'
    BY <1>t, <1>r, <2>1, <2>2, <2>3 DEF FreshRead, Updating, TypeOK
  <2> QED
    BY <2>5, <2>6, <2>7
<1>5. ASSUME NEW t \in Txns, Update(t) PROVE Rest'
  <2>1. /\ lock = NoTxn
        /\ lock' = t
        /\ pc[t] = "update"
        /\ pc' = [pc EXCEPT ![t] = "synced"]
        /\ UNCHANGED <<write, want, decisions, queue, status, fresh>>
    BY <1>5 DEF Update, Go, tables
  <2>2. /\ \A q : SeenDecisions(q)' = SeenDecisions(q)
        /\ \A q : SeenQueue(q)' = SeenQueue(q)
    BY <2>1, SeenSame
  <2>3. \A q \in Txns : q # NoTxn
    BY TxnAssumption
  <2>5. Backed' /\ LockHeld'
    BY <1>t, <1>r, <2>1 DEF Backed, LockHeld, TypeOK
  <2>6. WantBacked'
    BY <1>t, <1>r, <2>1, <2>2, <2>3 DEF WantBacked, Updating, TypeOK
  <2>7. FreshRead'
    BY <1>t, <1>r, <2>1, <2>2, <2>3 DEF FreshRead, Updating, TypeOK
  <2> QED
    BY <2>5, <2>6, <2>7
<1>6. ASSUME NEW t \in Txns, Commit(t) PROVE Rest'
  <2>1. /\ pc[t] = "synced"
        /\ pc' = [pc EXCEPT ![t] = "committed"]
        /\ decisions' = SeenDecisions(t)
        /\ fresh' = {}
        /\ UNCHANGED <<write, want>>
        /\ \/ lock = t /\ status' = want[t] /\ lock' = NoTxn
           \/ lock # t /\ status' = status /\ lock' = lock
    BY <1>6 DEF Commit, Go
  <2>2. \A q : SeenDecisions(q) \subseteq SeenDecisions(q)'
    BY <2>1 DEF SeenDecisions
  <2>3. decisions \subseteq decisions'
    BY <2>1 DEF SeenDecisions
  <2>4. Backed'
    BY <1>r, <2>1, <2>3 DEF Backed, WantBacked, Updating
  <2>5. LockHeld'
    BY <1>t, <1>r, <2>1, TxnAssumption DEF LockHeld, TypeOK
  <2>6. WantBacked'
    BY <1>t, <1>r, <2>1, <2>2, TxnAssumption DEF WantBacked, Updating, TypeOK
  <2>7. FreshRead'
    BY <2>1 DEF FreshRead
  <2> QED
    BY <2>4, <2>5, <2>6, <2>7
<1>7. ASSUME NEW t \in Txns, Rollback(t) PROVE Rest'
  <2>1. /\ pc' = [pc EXCEPT ![t] = "aborted"]
        /\ pc[t] \notin {"idle", "committed", "aborted"}
        /\ lock' = IF lock = t THEN NoTxn ELSE lock
        /\ UNCHANGED <<write, want, decisions, queue, status, fresh>>
    BY <1>7 DEF Rollback, Active, tables
  <2>2. /\ \A q : SeenDecisions(q)' = SeenDecisions(q)
        /\ \A q : SeenQueue(q)' = SeenQueue(q)
    BY <2>1, SeenSame
  <2>5. Backed' /\ LockHeld'
    BY <1>t, <1>r, <2>1, TxnAssumption DEF Backed, LockHeld, TypeOK
  <2>6. WantBacked'
    BY <1>t, <1>r, <2>1, <2>2, TxnAssumption DEF WantBacked, Updating, TypeOK
  <2>7. FreshRead'
    BY <1>t, <1>r, <2>1, <2>2, TxnAssumption DEF FreshRead, Updating, TypeOK
  <2> QED
    BY <2>5, <2>6, <2>7
<1>8. CASE Tick \/ UNCHANGED vars
  <2>1. UNCHANGED <<pc, write, want, decisions, queue, status, lock, fresh>>
    BY <1>8 DEF Tick, vars, tables
  <2> QED
    BY <1>t, <1>r, <2>1, SeenSame
    DEF IInv, Backed, LockHeld, WantBacked, FreshRead, Updating
<1> QED
  BY <1>t, <1>1, <1>2, <1>3, <1>4, <1>5, <1>6, <1>7, <1>8 DEF Next, IInv

LEMMA Invariant == Spec => []IInv
BY InitIInv, NextIInv, PTL DEF Spec

\* Every variable keeps its type, however many transactions are open at once.
THEOREM TypeCorrect == Spec => []TypeOK
<1>1. IInv => TypeOK
  BY DEF IInv
<1> QED
  BY <1>1, Invariant, PTL

\* An application is only approved or declined by a committed decision, for
\* any number of overlapping transactions.
THEOREM StatusIsBacked == Spec => []Backed
<1>1. IInv => Backed
  BY DEF IInv
<1> QED
  BY <1>1, Invariant, PTL

LEMMA StepFreshSync ==
    IInv /\ [Next]_vars =>
        [\A t \in Txns :
            (t \in fresh /\ pc[t] = "synced" /\ pc'[t] = "committed")
               => status' \in Wanted(decisions', queue', status)]_vars
<1> SUFFICES ASSUME IInv, Next, NEW t \in Txns,
                    t \in fresh, pc[t] = "synced", pc'[t] = "committed"
             PROVE  status' \in Wanted(decisions', queue', status)
  OBVIOUS
<1>1. Commit(t)
  BY DEF Next, IInv, TypeOK, Begin, Write, ReadDecision, ReadQueue, Update,
         Commit, Rollback, Tick, Go
<1>2. /\ decisions' = SeenDecisions(t)
      /\ queue' = SeenQueue(t)
      /\ \/ lock = t /\ status' = want[t]
         \/ lock # t /\ status' = status
  BY <1>1 DEF Commit
<1>3. SeenDecisions(t) \in SUBSET Decision
  BY SeenType DEF IInv
<1>4. /\ lock = t =>
             \/ \E d \in Latest(SeenDecisions(t)) :
                   d.outcome \in Final /\ want[t] = d.outcome
             \/ /\ want[t] = "review"
                /\ Undecided(SeenDecisions(t))
                /\ SeenQueue(t) # {}
      /\ lock # t => Undecided(SeenDecisions(t)) /\ SeenQueue(t) = {}
  BY DEF IInv, FreshRead, Updating
<1> QED
  BY <1>2, <1>3, <1>4, ReadIsWanted

\* A sync that nothing overtook leaves the right status, for any number of
\* transactions open beside it.
THEOREM FreshSyncsAreRight == Spec => FreshSync
BY Invariant, StepFreshSync, PTL DEF Spec, FreshSync
=============================================================================
