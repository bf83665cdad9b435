---------------------------- MODULE IntakeProofs ----------------------------
(***************************************************************************)
(* Proofs about Intake for every set of POSTs, payloads and deployments,   *)
(* every pool size and every number of crashes.                            *)
(*                                                                         *)
(* The safety invariants are not inductive one by one: that a task names a *)
(* committed row rests on where a handler must be once its row is          *)
(* committed (Progress), and that a COMMIT taken after the end of its POST *)
(* contradicts no answer on what was answered to those in doubt (Doubt).   *)
(* IInv collects what they need.                                           *)
(***************************************************************************)
EXTENDS Intake, FiniteSetTheorems, TLAPS

Insertable(p) == body[p].form = "valid" /\ body[p].tenant \in Tenants

\* What the position of a handler says about its row.
Progress ==
    \A p \in Posts :
        /\ pc[p] = "commit" => Insertable(p)
        /\ pc[p] \in {"refresh", "emit", "respond"} => Recorded(p)
        /\ Recorded(p) =>
              Insertable(p) /\ pc[p] \in {"refresh", "emit", "respond", "done"}

\* What an answer says about the POST.
AnswerMeaning ==
    \A p \in Posts :
        /\ pc[p] # "done" => answer[p] = "none"
        /\ answer[p] = "201" => Recorded(p)
        /\ answer[p] = "422" => body[p].form = "invalid"

\* A scoring task is left by a handler that is past the emission.
TaskOrigin ==
    \A p \in Posts :
        Sent(p) => Recorded(p) /\ pc[p] \in {"respond", "done"}

\* A COMMIT in doubt is of a POST that has ended without knowing it.
Doubt ==
    \A p \in inDoubt :
        /\ pc[p] = "done"
        /\ answer[p] \in {"none", "500"}
        /\ Insertable(p)
        /\ ~Recorded(p)

IInv ==
    /\ TypeOK
    /\ AuditTrailExact
    /\ Progress
    /\ AnswerMeaning
    /\ TaskOrigin
    /\ Doubt

\* Cardinality only means something for a finite set.
PoolInv == TypeOK /\ PoolExact /\ IsFiniteSet(conns)

-----------------------------------------------------------------------------
(* Type correctness.                                                       *)

LEMMA InitType == Init => TypeOK
<1> SUFFICES ASSUME Init PROVE TypeOK
  OBVIOUS
<1>1. NoTasks \in [Stages -> Nat]
  BY DEF NoTasks
<1>2. crashes \in 0..MaxCrashes
  BY BoundAssumption DEF Init
<1> QED
  BY <1>1, <1>2 DEF Init, TypeOK, PCs, Answers

\* No step changes the payloads, so that a row keeps its contents.
LEMMA BodyFixed == [Next]_vars => body' = body /\ env' = env
BY DEF Next, vars, Arrive, Handle, Consume, Reject, DeriveFails, Admit, Flush,
       FlushFails, PoolTimeout, Commit, CommitFails, Refresh, RefreshFails,
       Emit, Respond, CloseFails, Reserve, Start, Discard, ScoreApplication,
       Restore, Redeliver, ServerCommits, ServerRollsBack, ApiCrash, WorkerCrash

LEMMA RowsFixed ==
    ASSUME body' = body
    PROVE  \A p : AppRow(p)' = AppRow(p) /\ AuditRow(p)' = AuditRow(p)
BY DEF AppRow, AuditRow, ExternalId

\* One message moves from one stage to another.
LEMMA MoveType ==
    ASSUME TypeOK, NEW p \in Posts, NEW from \in Stages, NEW to \in Stages,
           from # to, Move(p, from, to)
    PROVE  tasks' \in [Posts -> [Stages -> Nat]]
BY DEF Move, TypeOK

\* A handler that ends has a place, an answer and no connection.
LEMMA FinishType ==
    ASSUME TypeOK, NEW p \in Posts, NEW s \in Answers, Finish(p, s)
    PROVE  /\ pc' \in [Posts -> PCs]
           /\ answer' \in [Posts -> Answers]
           /\ conns' \subseteq Posts
BY DEF TypeOK, Finish, PCs

\* A step that writes no row keeps the rows' type.
LEMMA SameTables ==
    ASSUME TypeOK, body' = body, UNCHANGED <<apps, audits>>
    PROVE  /\ (apps \subseteq {AppRow(q) : q \in Posts})'
           /\ (audits \subseteq {AuditRow(q) : q \in Posts})'
<1>1. /\ {AppRow(q) : q \in Posts}' = {AppRow(q) : q \in Posts}
      /\ {AuditRow(q) : q \in Posts}' = {AuditRow(q) : q \in Posts}
  BY RowsFixed
<1> QED
  BY <1>1 DEF TypeOK

LEMMA SameRows ==
    ASSUME TypeOK, body' = body, UNCHANGED db
    PROVE  /\ (apps \subseteq {AppRow(q) : q \in Posts})'
           /\ (audits \subseteq {AuditRow(q) : q \in Posts})'
           /\ inDoubt' \subseteq Posts
BY SameTables DEF db, TypeOK

\* A step that writes one POST's rows does too.
LEMMA StoreType ==
    ASSUME TypeOK, body' = body, NEW p \in Posts, Store(p)
    PROVE  /\ (apps \subseteq {AppRow(q) : q \in Posts})'
           /\ (audits \subseteq {AuditRow(q) : q \in Posts})'
<1>1. /\ {AppRow(q) : q \in Posts}' = {AppRow(q) : q \in Posts}
      /\ {AuditRow(q) : q \in Posts}' = {AuditRow(q) : q \in Posts}
  BY RowsFixed
<1>2. /\ apps' \subseteq {AppRow(q) : q \in Posts}
      /\ audits' \subseteq {AuditRow(q) : q \in Posts}
  BY DEF Store, TypeOK
<1> QED
  BY <1>1, <1>2

LEMMA NextType == TypeOK /\ [Next]_vars => TypeOK'
<1> SUFFICES ASSUME TypeOK, [Next]_vars PROVE TypeOK'
  OBVIOUS
<1>0. body' = body /\ env' = env
  BY BodyFixed
<1>s. "422" \in Answers /\ "500" \in Answers /\ "201" \in Answers
  BY DEF Answers
<1>1. ASSUME NEW p \in Posts, Arrive(p) PROVE TypeOK'
  <2>1. CASE Reject(p) \/ DeriveFails(p)
    <3>1. UNCHANGED <<db, broker, crashes>> /\ (Finish(p, "422") \/ Finish(p, "500"))
      BY <2>1 DEF Reject, DeriveFails
    <3> QED
      BY <1>0, <1>s, <3>1, FinishType, SameRows DEF TypeOK, broker
  <2>2. CASE Admit(p)
    <3>1. UNCHANGED <<conns, db, answer, broker, crashes>> /\ pc' \in [Posts -> PCs]
      BY <2>2 DEF Admit, Step, TypeOK, PCs
    <3> QED
      BY <1>0, <3>1, SameRows DEF TypeOK, broker
  <2> QED
    BY <1>1, <2>1, <2>2 DEF Arrive
<1>2. ASSUME NEW p \in Posts, Handle(p) PROVE TypeOK'
  <2>1. CASE Flush(p) \/ Refresh(p)
    <3>1. /\ UNCHANGED <<db, answer, broker, crashes>>
          /\ pc' \in [Posts -> PCs]
          /\ conns' \subseteq Posts
      BY <2>1 DEF Flush, Refresh, Step, TypeOK, PCs
    <3> QED
      BY <1>0, <3>1, SameRows DEF TypeOK, broker
  <2>2. CASE \/ FlushFails(p) \/ PoolTimeout(p) \/ RefreshFails(p)
             \/ Respond(p) \/ CloseFails(p)
    <3>1. UNCHANGED <<db, broker, crashes>> /\ (Finish(p, "500") \/ Finish(p, "201"))
      BY <2>2 DEF FlushFails, PoolTimeout, RefreshFails, Respond, CloseFails
    <3> QED
      BY <1>0, <1>s, <3>1, FinishType, SameRows DEF TypeOK, broker
  <2>4. CASE Commit(p)
    <3>1. /\ Store(p)
          /\ pc' \in [Posts -> PCs]
          /\ conns' \subseteq Posts
          /\ UNCHANGED <<inDoubt, answer, tasks, received, crashes>>
      BY <2>4 DEF Commit, Step, broker, PCs, TypeOK
    <3> QED
      BY <1>0, <3>1, StoreType DEF TypeOK
  <2>5. CASE CommitFails(p)
    <3>1. /\ inDoubt' \subseteq Posts
          /\ Finish(p, "500")
          /\ UNCHANGED <<apps, audits, tasks, received, crashes>>
      BY <2>5 DEF CommitFails, broker, TypeOK
    <3> QED
      BY <1>0, <1>s, <3>1, FinishType, SameTables DEF TypeOK
  <2>3. CASE Emit(p)
    <3>1. tasks' \in [Posts -> [Stages -> Nat]]
      <4>1. ASSUME NEW n \in 0..MaxCopies,
                   tasks' = [tasks EXCEPT ![p]["queued"] = @ + n]
            PROVE  tasks' \in [Posts -> [Stages -> Nat]]
        BY <4>1, BoundAssumption DEF Stages, TypeOK
      <4> QED
        BY <2>3, <4>1 DEF Emit, TypeOK
    <3>2. /\ UNCHANGED <<conns, db, answer, received, crashes>>
          /\ pc' \in [Posts -> PCs]
      BY <2>3 DEF Emit, Step, TypeOK, PCs
    <3> QED
      BY <1>0, <3>1, <3>2, SameRows DEF TypeOK
  <2> QED
    BY <1>2, <2>1, <2>2, <2>3, <2>4, <2>5 DEF Handle
<1>3. ASSUME NEW p \in Posts, Consume(p) PROVE TypeOK'
  <2>1. CASE Reserve(p) \/ Start(p) \/ Restore(p)
    <3>1. \E from, to \in Stages : from # to /\ Move(p, from, to)
      BY <2>1 DEF Reserve, Start, Restore, Stages
    <3>2. tasks' \in [Posts -> [Stages -> Nat]]
      BY <3>1, MoveType
    <3> QED
      BY <1>0, <2>1, <3>2, SameRows DEF Reserve, Start, Restore, TypeOK
  <2>2. CASE Discard(p)
    <3>1. tasks' \in [Posts -> [Stages -> Nat]]
      BY <2>2 DEF Discard, Stages, TypeOK
    <3> QED
      BY <1>0, <2>2, <3>1, SameRows DEF Discard, TypeOK
  <2>3. CASE ScoreApplication(p)
    <3>1. tasks' \in [Posts -> [Stages -> Nat]]
      BY <2>3 DEF ScoreApplication, Stages, TypeOK
    <3> QED
      BY <1>0, <2>3, <3>1, SameRows DEF ScoreApplication, TypeOK
  <2> QED
    BY <1>3, <2>1, <2>2, <2>3 DEF Consume
<1>4. CASE ApiCrash
  <2>1. /\ crashes' \in 0..MaxCrashes
        /\ pc' \in [Posts -> PCs]
        /\ conns' \subseteq Posts
        /\ inDoubt' \subseteq Posts
    BY <1>4, BoundAssumption DEF ApiCrash, PCs, TypeOK
  <2> QED
    BY <1>0, <1>4, <2>1, SameTables DEF ApiCrash, broker, TypeOK
<1>5. CASE WorkerCrash
  <2>1. \A p \in Posts :
           [tasks[p] EXCEPT !["orphaned"] = @ + tasks[p]["reserved"],
                            !["reserved"] = 0, !["stale"] = 0,
                            !["running"] = 0]
              \in [Stages -> Nat]
    BY DEF Stages, TypeOK
  <2>2. tasks' \in [Posts -> [Stages -> Nat]]
    BY <1>5, <2>1 DEF WorkerCrash
  <2>3. crashes' \in 0..MaxCrashes
    BY <1>5, BoundAssumption DEF WorkerCrash, TypeOK
  <2> QED
    BY <1>0, <1>5, <2>2, <2>3, SameRows DEF WorkerCrash, TypeOK
<1>6. CASE UNCHANGED vars
  BY <1>6, SameRows DEF vars, db, TypeOK
<1>7. ASSUME NEW p \in Posts, Redeliver(p) PROVE TypeOK'
  <2>1. tasks' \in [Posts -> [Stages -> Nat]]
    BY <1>7 DEF Redeliver, Stages, TypeOK
  <2> QED
    BY <1>0, <1>7, <2>1, SameRows DEF Redeliver, TypeOK
<1>8. ASSUME NEW p \in Posts, ServerCommits(p) PROVE TypeOK'
  <2>1. /\ Store(p)
        /\ inDoubt' \subseteq Posts
        /\ UNCHANGED <<pc, conns, answer, tasks, received, crashes>>
    BY <1>8 DEF ServerCommits, broker, TypeOK
  <2> QED
    BY <1>0, <2>1, StoreType DEF TypeOK
<1>9. ASSUME NEW p \in Posts, ServerRollsBack(p) PROVE TypeOK'
  <2>1. /\ inDoubt' \subseteq Posts
        /\ UNCHANGED <<pc, conns, apps, audits, answer, tasks, received, crashes>>
    BY <1>9 DEF ServerRollsBack, broker, TypeOK
  <2> QED
    BY <1>0, <2>1, SameTables DEF TypeOK
<1> QED
  BY <1>1, <1>2, <1>3, <1>4, <1>5, <1>6, <1>7, <1>8, <1>9 DEF Next

\* Every variable keeps the type the model declares for it.
THEOREM TypeCorrect == Spec => []TypeOK
BY InitType, NextType, PTL DEF Spec

-----------------------------------------------------------------------------
(* What one step does to the rows and to the tasks.                        *)

LEMMA RecordedFixed ==
    ASSUME UNCHANGED apps
    PROVE  \A q : Recorded(q)' = Recorded(q)
BY DEF Recorded

LEMMA RecordedSame ==
    ASSUME UNCHANGED db
    PROVE  \A q : Recorded(q)' = Recorded(q)
BY RecordedFixed DEF db

LEMMA RecordedByStore ==
    ASSUME NEW p, Store(p)
    PROVE  \A q : Recorded(q)' <=> Recorded(q) \/ q = p
<1>1. AppRow(p).id = p
  BY DEF AppRow
<1> QED
  BY <1>1 DEF Store, Recorded

LEMMA RequestedSame ==
    ASSUME UNCHANGED tasks
    PROVE  \A q : Requested(q)' = Requested(q)
BY DEF Requested

\* A step that sends nothing requests nothing.
LEMMA RequestedShrinks ==
    ASSUME TypeOK, NEW p \in Posts,
           Consume(p) \/ Redeliver(p)
    PROVE  \A q \in Posts : Requested(q)' => Requested(q)
<1>1. ASSUME NEW from \in Stages, NEW to \in Stages, Move(p, from, to),
             NEW q \in Posts, Requested(q)'
      PROVE  Requested(q)
  BY <1>1 DEF Move, Requested, TypeOK
<1>2. ASSUME NEW s \in Stages, tasks[p][s] > 0,
             tasks' = [tasks EXCEPT ![p][s] = @ - 1],
             NEW q \in Posts, Requested(q)'
      PROVE  Requested(q)
  BY <1>2 DEF Requested, TypeOK
<1>3. ASSUME Redeliver(p), NEW q \in Posts, Requested(q)'
      PROVE  Requested(q)
  BY <1>3 DEF Redeliver, Requested, Stages, TypeOK
<1> QED
  BY <1>1, <1>2, <1>3
  DEF Consume, Reserve, Start, Restore, Discard, ScoreApplication, Stages

LEMMA RequestedByCrash ==
    ASSUME TypeOK, WorkerCrash
    PROVE  \A q \in Posts : Requested(q)' => Requested(q)
BY DEF TypeOK, WorkerCrash, Requested, Stages

\* Only the emission can request a scoring.
LEMMA RequestedByEmit ==
    ASSUME TypeOK, NEW p \in Posts, Emit(p)
    PROVE  \A q \in Posts \ {p} : Requested(q)' => Requested(q)
<1>1. \A q \in Posts \ {p} : tasks'[q] = tasks[q]
  BY DEF Emit, TypeOK
<1> QED
  BY <1>1 DEF Requested

LEMMA SentSame ==
    ASSUME UNCHANGED broker
    PROVE  \A q : Sent(q)' = Sent(q)
BY RequestedSame DEF broker, Sent

\* Broker and worker run what was sent, move it, lose it or repeat it.
LEMMA SentByBroker ==
    ASSUME TypeOK,
           \/ \E p \in Posts : Consume(p) \/ Redeliver(p)
           \/ WorkerCrash
           \/ UNCHANGED vars
    PROVE  \A q \in Posts : Sent(q)' => Sent(q)
<1>1. ASSUME NEW p \in Posts, Consume(p) \/ Redeliver(p),
             NEW q \in Posts, Sent(q)'
      PROVE  Sent(q)
  <2>1. Requested(q)' => Requested(q)
    BY <1>1, RequestedShrinks
  <2>2. q \in received' => Requested(q) \/ q \in received
    BY <1>1
    DEF Consume, Reserve, Start, Discard, ScoreApplication, Restore, Redeliver,
        Requested, Stages
  <2> QED
    BY <1>1, <2>1, <2>2 DEF Sent
<1>2. CASE WorkerCrash
  BY <1>2, RequestedByCrash DEF WorkerCrash, Sent
<1>3. CASE UNCHANGED vars
  BY <1>3, SentSame DEF vars, broker
<1> QED
  BY <1>1, <1>2, <1>3

LEMMA AuditFixed ==
    ASSUME AuditTrailExact, UNCHANGED <<apps, audits>>
    PROVE  AuditTrailExact'
BY DEF AuditTrailExact, AuditOf

LEMMA AuditSame ==
    ASSUME AuditTrailExact, UNCHANGED db
    PROVE  AuditTrailExact'
BY AuditFixed DEF db

\* A POST that has not ended has no COMMIT in doubt: what it does concerns no
\* other.
LEMMA DoubtSame ==
    ASSUME Doubt, UNCHANGED <<body, inDoubt>>, inDoubt \subseteq Posts,
           NEW p, pc[p] # "done",
           \A q \in Posts \ {p} : /\ pc'[q] = pc[q]
                                  /\ answer'[q] = answer[q]
                                  /\ Recorded(q)' = Recorded(q)
    PROVE  Doubt'
BY DEF Doubt, Insertable

LEMMA AuditByStore ==
    ASSUME AuditTrailExact, NEW p, Store(p)
    PROVE  AuditTrailExact'
<1>1. AuditOf(AppRow(p)) = AuditRow(p)
  BY DEF AuditOf, AppRow, AuditRow
<1>2. audits' = {AuditOf(r) : r \in apps'}
  BY <1>1 DEF AuditTrailExact, Store
<1> QED
  BY <1>2 DEF AuditTrailExact, AuditOf

-----------------------------------------------------------------------------
(* The inductive invariant.                                                *)

LEMMA InitIInv == Init => IInv
<1> SUFFICES ASSUME Init PROVE IInv
  OBVIOUS
<1>1. TypeOK
  BY InitType
<1>2. \A p \in Posts : ~Recorded(p) /\ ~Requested(p)
  BY DEF Init, Recorded, Requested, NoTasks
<1> QED
  BY <1>1, <1>2
  DEF Init, IInv, AuditTrailExact, Progress, AnswerMeaning, TaskOrigin, Sent,
      Doubt

\* The conjuncts about handlers, answers, tasks and the server.
Flow == Progress /\ AnswerMeaning /\ TaskOrigin /\ Doubt

LEMMA NextIInv == IInv /\ [Next]_vars => IInv'
<1> SUFFICES ASSUME IInv, [Next]_vars PROVE IInv'
  OBVIOUS
<1>t. TypeOK /\ TypeOK'
  BY NextType DEF IInv
<1>0. body' = body
  BY BodyFixed
<1>i. \A q \in Posts : Insertable(q)' = Insertable(q)
  BY <1>0 DEF Insertable
<1>d. inDoubt \subseteq Posts
  BY <1>t DEF TypeOK
<1> USE DEF IInv
<1>1. ASSUME NEW p \in Posts, Arrive(p) PROVE AuditTrailExact' /\ Flow'
  <2>1. /\ UNCHANGED db
        /\ UNCHANGED broker
        /\ pc[p] = "idle"
        /\ \/ pc' = [pc EXCEPT ![p] = "flush"] /\ answer' = answer
           \/ /\ pc' = [pc EXCEPT ![p] = "done"]
              /\ \/ /\ answer' = [answer EXCEPT ![p] = "422"]
                    /\ body[p].form = "invalid"
                 \/ answer' = [answer EXCEPT ![p] = "500"]
    BY <1>1 DEF Arrive, Reject, DeriveFails, Admit, Step, Finish
  <2>2. /\ \A q : Recorded(q)' = Recorded(q)
        /\ \A q : Sent(q)' = Sent(q)
    BY <2>1, RecordedSame, SentSame
  <2>3. ~Recorded(p) /\ ~Sent(p)
    BY <2>1 DEF Progress, TaskOrigin
  <2>4. Progress'
    BY <1>t, <1>i, <2>1, <2>2, <2>3 DEF Progress, TypeOK
  <2>5. AnswerMeaning'
    BY <1>t, <1>0, <2>1, <2>2 DEF AnswerMeaning, TypeOK
  <2>6. TaskOrigin'
    BY <1>t, <2>1, <2>2, <2>3 DEF TaskOrigin, TypeOK
  <2>7. Doubt'
    BY <1>t, <1>0, <1>d, <2>1, <2>2, DoubtSame DEF TypeOK, db
  <2> QED
    BY <2>1, <2>4, <2>5, <2>6, <2>7, AuditSame DEF Flow
<1>2. ASSUME NEW p \in Posts, Handle(p) PROVE AuditTrailExact' /\ Flow'
  <2>1. CASE \/ Flush(p) \/ FlushFails(p) \/ PoolTimeout(p) \/ Refresh(p)
             \/ RefreshFails(p) \/ Respond(p) \/ CloseFails(p)
    <3>1. /\ UNCHANGED db
          /\ UNCHANGED broker
          /\ \/ /\ pc[p] = "flush"
                /\ pc' = [pc EXCEPT ![p] = "commit"]
                /\ answer' = answer
                /\ Insertable(p)
             \/ /\ pc[p] = "refresh"
                /\ pc' = [pc EXCEPT ![p] = "emit"]
                /\ answer' = answer
             \/ /\ pc[p] \in {"flush", "refresh", "respond"}
                /\ pc' = [pc EXCEPT ![p] = "done"]
                /\ answer' = [answer EXCEPT ![p] = "500"]
             \/ /\ pc[p] = "respond"
                /\ pc' = [pc EXCEPT ![p] = "done"]
                /\ answer' = [answer EXCEPT ![p] = "201"]
      BY <2>1
      DEF Flush, FlushFails, PoolTimeout, Refresh, RefreshFails, Respond,
          CloseFails, Step, Finish, Insertable
    <3>2. /\ \A q : Recorded(q)' = Recorded(q)
          /\ \A q : Sent(q)' = Sent(q)
      BY <3>1, RecordedSame, SentSame
    <3>3. Progress'
      BY <1>t, <1>i, <3>1, <3>2 DEF Progress, TypeOK
    <3>4. AnswerMeaning'
      BY <1>t, <1>0, <3>1, <3>2 DEF AnswerMeaning, Progress, TypeOK
    <3>5. TaskOrigin'
      BY <1>t, <3>1, <3>2 DEF TaskOrigin, TypeOK
    <3>6. Doubt'
      BY <1>t, <1>0, <1>d, <3>1, <3>2, DoubtSame DEF TypeOK, db
    <3> QED
      BY <3>1, <3>3, <3>4, <3>5, <3>6, AuditSame DEF Flow
  <2>2. CASE Commit(p)
    <3>1. /\ Store(p)
          /\ UNCHANGED broker
          /\ inDoubt' = inDoubt
          /\ answer' = answer
          /\ pc[p] = "commit"
          /\ pc' = [pc EXCEPT ![p] = "refresh"]
      BY <2>2 DEF Commit, Step
    <3>2. /\ \A q : Recorded(q)' <=> Recorded(q) \/ q = p
          /\ \A q : Sent(q)' = Sent(q)
      BY <3>1, RecordedByStore, SentSame
    <3>3. Progress'
      BY <1>t, <1>i, <3>1, <3>2 DEF Progress, TypeOK
    <3>4. AnswerMeaning'
      BY <1>t, <1>0, <3>1, <3>2 DEF AnswerMeaning, TypeOK
    <3>5. TaskOrigin'
      BY <1>t, <3>1, <3>2 DEF TaskOrigin, TypeOK
    <3>6. Doubt'
      BY <1>t, <1>d, <1>i, <3>1, <3>2 DEF Doubt, TypeOK
    <3> QED
      BY <3>1, <3>3, <3>4, <3>5, <3>6, AuditByStore DEF Flow
  <2>3. CASE CommitFails(p)
    <3>1. /\ UNCHANGED <<apps, audits>>
          /\ UNCHANGED broker
          /\ inDoubt' = inDoubt \cup {p}
          /\ answer' = [answer EXCEPT ![p] = "500"]
          /\ pc[p] = "commit"
          /\ pc' = [pc EXCEPT ![p] = "done"]
      BY <2>3 DEF CommitFails, Finish
    <3>2. /\ \A q : Recorded(q)' = Recorded(q)
          /\ \A q : Sent(q)' = Sent(q)
      BY <3>1, RecordedFixed, SentSame
    <3>3. Progress'
      BY <1>t, <1>i, <3>1, <3>2 DEF Progress, TypeOK
    <3>4. AnswerMeaning'
      BY <1>t, <1>0, <3>1, <3>2 DEF AnswerMeaning, TypeOK
    <3>5. TaskOrigin'
      BY <1>t, <3>1, <3>2 DEF TaskOrigin, TypeOK
    <3>6. Insertable(p) /\ ~Recorded(p)
      BY <3>1 DEF Progress
    <3>7. Doubt'
      BY <1>t, <1>d, <1>i, <3>1, <3>2, <3>6 DEF Doubt, TypeOK
    <3> QED
      BY <3>1, <3>3, <3>4, <3>5, <3>7, AuditFixed DEF Flow
  <2>4. CASE Emit(p)
    <3>1. /\ UNCHANGED db
          /\ received' = received
          /\ answer' = answer
          /\ pc[p] = "emit"
          /\ pc' = [pc EXCEPT ![p] = "respond"]
      BY <2>4 DEF Emit, Step
    <3>2. /\ \A q : Recorded(q)' = Recorded(q)
          /\ \A q \in Posts \ {p} : Requested(q)' => Requested(q)
      BY <1>t, <2>4, <3>1, RecordedSame, RequestedByEmit
    <3>3. Progress'
      BY <1>t, <1>i, <3>1, <3>2 DEF Progress, TypeOK
    <3>4. AnswerMeaning'
      BY <1>t, <1>0, <3>1, <3>2 DEF AnswerMeaning, TypeOK
    <3>5. Recorded(p)
      BY <3>1 DEF Progress
    <3>6. TaskOrigin'
      BY <1>t, <3>1, <3>2, <3>5 DEF TaskOrigin, Sent, TypeOK
    <3>7. Doubt'
      BY <1>t, <1>0, <1>d, <3>1, <3>2, DoubtSame DEF TypeOK, db
    <3> QED
      BY <3>1, <3>3, <3>4, <3>6, <3>7, AuditSame DEF Flow
  <2> QED
    BY <1>2, <2>1, <2>2, <2>3, <2>4 DEF Handle
<1>3. ASSUME \/ \E p \in Posts : Consume(p) \/ Redeliver(p)
             \/ WorkerCrash
             \/ UNCHANGED vars
      PROVE  AuditTrailExact' /\ Flow'
  <2>1. UNCHANGED <<db, pc, answer>>
    BY <1>3
    DEF Consume, Reserve, Start, Discard, ScoreApplication, Restore, Redeliver,
        WorkerCrash, vars, db
  <2>2. /\ \A q \in Posts : Recorded(q)' = Recorded(q)
        /\ \A q \in Posts : Sent(q)' => Sent(q)
    BY <1>3, <1>t, <2>1, RecordedSame, SentByBroker
  <2>3. Progress' /\ AnswerMeaning'
    BY <1>0, <1>i, <2>1, <2>2 DEF Progress, AnswerMeaning
  <2>4. TaskOrigin'
    BY <2>1, <2>2 DEF TaskOrigin
  <2>5. Doubt'
    BY <1>d, <1>i, <2>1, <2>2 DEF Doubt, db
  <2> QED
    BY <2>1, <2>3, <2>4, <2>5, AuditSame DEF Flow
<1>4. ASSUME ApiCrash PROVE AuditTrailExact' /\ Flow'
  <2>1. /\ UNCHANGED <<apps, audits>>
        /\ UNCHANGED broker
        /\ answer' = answer
        /\ pc' = [p \in Posts |-> IF pc[p] = "idle" THEN "idle" ELSE "done"]
        /\ \A p \in inDoubt' : p \in inDoubt \/ (p \in Posts /\ pc[p] = "commit")
    BY <1>4 DEF ApiCrash
  <2>2. /\ \A q : Recorded(q)' = Recorded(q)
        /\ \A q : Sent(q)' = Sent(q)
    BY <2>1, RecordedFixed, SentSame
  <2>3. Progress'
    BY <1>i, <2>1, <2>2 DEF Progress
  <2>4. AnswerMeaning'
    BY <1>0, <2>1, <2>2 DEF AnswerMeaning
  <2>5. TaskOrigin'
    BY <2>1, <2>2 DEF TaskOrigin
  <2>6. ASSUME NEW p \in Posts, pc[p] = "commit"
        PROVE  answer[p] = "none" /\ Insertable(p) /\ ~Recorded(p)
    BY <2>6 DEF Progress, AnswerMeaning
  <2>7. Doubt'
    BY <1>d, <1>i, <2>1, <2>2, <2>6 DEF Doubt
  <2> QED
    BY <2>1, <2>3, <2>4, <2>5, <2>7, AuditFixed DEF Flow
<1>5. ASSUME NEW p \in Posts, ServerCommits(p) PROVE AuditTrailExact' /\ Flow'
  <2>1. /\ Store(p)
        /\ UNCHANGED <<pc, answer>>
        /\ UNCHANGED broker
        /\ p \in inDoubt
        /\ inDoubt' = inDoubt \ {p}
    BY <1>5 DEF ServerCommits
  <2>2. /\ \A q : Recorded(q)' <=> Recorded(q) \/ q = p
        /\ \A q : Sent(q)' = Sent(q)
    BY <2>1, RecordedByStore, SentSame
  <2>3. pc[p] = "done" /\ Insertable(p)
    BY <2>1 DEF Doubt
  <2>4. Progress' /\ AnswerMeaning'
    BY <1>0, <1>i, <2>1, <2>2, <2>3 DEF Progress, AnswerMeaning
  <2>5. TaskOrigin'
    BY <2>1, <2>2 DEF TaskOrigin
  <2>6. Doubt'
    BY <1>d, <1>i, <2>1, <2>2 DEF Doubt
  <2> QED
    BY <2>1, <2>4, <2>5, <2>6, AuditByStore DEF Flow
<1>6. ASSUME NEW p \in Posts, ServerRollsBack(p)
      PROVE  AuditTrailExact' /\ Flow'
  <2>1. /\ UNCHANGED <<apps, audits>>
        /\ UNCHANGED <<pc, answer>>
        /\ UNCHANGED broker
        /\ inDoubt' = inDoubt \ {p}
    BY <1>6 DEF ServerRollsBack
  <2>2. /\ \A q : Recorded(q)' = Recorded(q)
        /\ \A q : Sent(q)' = Sent(q)
    BY <2>1, RecordedFixed, SentSame
  <2>3. Progress' /\ AnswerMeaning'
    BY <1>0, <1>i, <2>1, <2>2 DEF Progress, AnswerMeaning
  <2>4. TaskOrigin'
    BY <2>1, <2>2 DEF TaskOrigin
  <2>5. Doubt'
    BY <1>d, <1>i, <2>1, <2>2 DEF Doubt
  <2> QED
    BY <2>1, <2>3, <2>4, <2>5, AuditFixed DEF Flow
<1> QED
  BY <1>t, <1>1, <1>2, <1>3, <1>4, <1>5, <1>6 DEF Next, Flow

LEMMA Invariant == Spec => []IInv
BY InitIInv, NextIInv, PTL DEF Spec

\* The audit trail and the applications table agree, whatever fails when.
THEOREM AuditTrailIsExact == Spec => []AuditTrailExact
<1>1. IInv => AuditTrailExact
  BY DEF IInv
<1> QED
  BY <1>1, Invariant, PTL

\* A scoring task, waiting or run, names a committed application.
THEOREM TasksAreReal == Spec => []NoGhostTask
<1>1. IInv => NoGhostTask
  BY DEF IInv, TaskOrigin, NoGhostTask, Sent
<1> QED
  BY <1>1, Invariant, PTL

\* The status a client gets tells the truth about the database.
THEOREM AnswersAreTrue == Spec => []AnswerTruthful
<1>1. IInv => AnswerTruthful
  BY DEF IInv, Progress, AnswerMeaning, AnswerTruthful, Insertable
<1> QED
  BY <1>1, Invariant, PTL

LEMMA StepSends ==
    ASSUME IInv, [Next]_vars, NEW q \in Posts
    PROVE  /\ pc[q] \in {"idle", "flush", "commit", "refresh"} /\ pc'[q] = "done"
                 => ~Sent(q)'
           /\ pc[q] = "done" /\ Sent(q)' => Sent(q)
<1>t. TypeOK
  BY DEF IInv
<1>1. pc[q] \in {"idle", "flush", "commit", "refresh"} => ~Sent(q)
  BY DEF IInv, TaskOrigin
<1>2. CASE Sent(q)' => Sent(q)
  BY <1>1, <1>2
<1>3. ASSUME NEW p \in Posts, Emit(p)
      PROVE  pc[q] = "emit" \/ (Sent(q)' => Sent(q))
  BY <1>3, <1>t, RequestedByEmit DEF Emit, Step, Sent
<1>4. ASSUME \/ \E p \in Posts : \/ Arrive(p) \/ (Handle(p) /\ ~Emit(p))
                                 \/ ServerCommits(p) \/ ServerRollsBack(p)
             \/ ApiCrash
      PROVE  UNCHANGED broker
  BY <1>4
  DEF Arrive, Handle, Reject, DeriveFails, Admit, Flush, FlushFails, PoolTimeout,
      Commit, CommitFails, Refresh, RefreshFails, Respond, CloseFails,
      ServerCommits, ServerRollsBack, ApiCrash
<1>5. CASE UNCHANGED broker
  BY <1>2, <1>5, SentSame
<1>6. CASE \/ \E p \in Posts : Consume(p) \/ Redeliver(p)
           \/ WorkerCrash
           \/ UNCHANGED vars
  BY <1>t, <1>2, <1>6, SentByBroker
<1>7. CASE \E p \in Posts : Emit(p)
  BY <1>2, <1>3, <1>7
<1> QED
  BY <1>4, <1>5, <1>6, <1>7 DEF Next

\* A POST that ends before create_application has returned leaves no task, and
\* what happens after the end of a POST (a late COMMIT, a redelivery, a crash)
\* makes none appear.
THEOREM FailedPostsStaySilent == Spec => UnreturnedNeverScored
<1>1. IInv /\ [Next]_vars =>
        \A p \in Posts :
          /\ pc[p] \in {"idle", "flush", "commit", "refresh"} /\ pc'[p] = "done"
                => ~Sent(p)'
          /\ pc[p] = "done" /\ Sent(p)' => Sent(p)
  BY StepSends
<1> QED
  BY <1>1, Invariant, PTL DEF Spec, UnreturnedNeverScored

-----------------------------------------------------------------------------
(* The connection pool.                                                    *)

LEMMA InitPool == Init => PoolInv
<1> SUFFICES ASSUME Init PROVE PoolInv
  OBVIOUS
<1>1. conns = {} /\ Cardinality(conns) = 0 /\ IsFiniteSet(conns)
  BY FS_EmptySet DEF Init
<1>2. {p \in Posts : pc[p] \in {"commit", "emit", "respond"}} = {}
  BY DEF Init
<1> QED
  BY <1>1, <1>2, InitType, BoundAssumption DEF PoolInv, PoolExact

\* Taking a connection out while there is room does not overdraw the pool.
LEMMA TakeConnection ==
    ASSUME PoolInv, PoolHasRoom, NEW p, conns' = conns \cup {p}
    PROVE  Cardinality(conns') <= PoolSize /\ IsFiniteSet(conns')
<1>1. Cardinality(conns) \in Nat
  BY FS_CardinalityType DEF PoolInv
<1>2. /\ IsFiniteSet(conns')
      /\ Cardinality(conns') \in {Cardinality(conns), Cardinality(conns) + 1}
  BY FS_AddElement DEF PoolInv
<1> QED
  BY <1>1, <1>2, BoundAssumption DEF PoolHasRoom

\* Giving connections back never does.
LEMMA ReturnConnections ==
    ASSUME PoolInv, conns' \subseteq conns
    PROVE  Cardinality(conns') <= PoolSize /\ IsFiniteSet(conns')
<1>1. /\ IsFiniteSet(conns')
      /\ Cardinality(conns') <= Cardinality(conns)
  BY FS_Subset DEF PoolInv
<1>2. Cardinality(conns) \in Nat /\ Cardinality(conns') \in Nat
  BY <1>1, FS_CardinalityType DEF PoolInv
<1> QED
  BY <1>1, <1>2, BoundAssumption DEF PoolInv, PoolExact

LEMMA NextPool == PoolInv /\ [Next]_vars => PoolInv'
<1> SUFFICES ASSUME PoolInv, [Next]_vars PROVE PoolInv'
  OBVIOUS
<1>t. TypeOK /\ TypeOK'
  BY NextType DEF PoolInv
<1>h. conns = {p \in Posts : pc[p] \in {"commit", "emit", "respond"}}
  BY DEF PoolInv, PoolExact
<1> DEFINE Holders == {p \in Posts : pc[p] \in {"commit", "emit", "respond"}}
<1> SUFFICES /\ Cardinality(conns') <= PoolSize
             /\ IsFiniteSet(conns')
             /\ conns' = Holders'
  BY <1>t DEF PoolInv, PoolExact
<1>1. ASSUME NEW p \in Posts, Flush(p) \/ Refresh(p)
      PROVE  /\ PoolHasRoom
             /\ conns' = conns \cup {p}
             /\ conns' = Holders'
  <2>1. /\ PoolHasRoom
        /\ conns' = conns \cup {p}
        /\ pc' = [pc EXCEPT ![p] = "commit"] \/ pc' = [pc EXCEPT ![p] = "emit"]
    BY <1>1 DEF Flush, Refresh, Step
  <2> QED
    BY <1>t, <1>h, <2>1 DEF TypeOK
<1>2. ASSUME NEW p \in Posts,
             \/ Reject(p) \/ DeriveFails(p) \/ FlushFails(p) \/ PoolTimeout(p)
             \/ CommitFails(p) \/ RefreshFails(p) \/ Respond(p) \/ Commit(p)
             \/ CloseFails(p)
      PROVE  conns' \subseteq conns /\ conns' = Holders'
  <2>1. /\ conns' = conns \ {p}
        /\ pc' = [pc EXCEPT ![p] = "done"] \/ pc' = [pc EXCEPT ![p] = "refresh"]
    BY <1>2
    DEF Reject, DeriveFails, FlushFails, PoolTimeout, CommitFails,
        RefreshFails, Respond, CloseFails, Commit, Finish, Step
  <2> QED
    BY <1>t, <1>h, <2>1 DEF TypeOK
<1>3. ASSUME NEW p \in Posts, Admit(p) \/ Emit(p)
      PROVE  conns' \subseteq conns /\ conns' = Holders'
  <2>1. /\ conns' = conns
        /\ \/ pc[p] = "idle" /\ pc' = [pc EXCEPT ![p] = "flush"]
           \/ pc[p] = "emit" /\ pc' = [pc EXCEPT ![p] = "respond"]
    BY <1>3 DEF Admit, Emit, Step
  <2> QED
    BY <1>t, <1>h, <2>1 DEF TypeOK
<1>4. ASSUME NEW p \in Posts,
             Consume(p) \/ Redeliver(p) \/ ServerCommits(p) \/ ServerRollsBack(p)
      PROVE  conns' \subseteq conns /\ conns' = Holders'
  BY <1>4, <1>h
  DEF Consume, Reserve, Start, Discard, ScoreApplication, Restore, Redeliver,
      ServerCommits, ServerRollsBack
<1>5. ASSUME ApiCrash
      PROVE  conns' \subseteq conns /\ conns' = Holders'
  BY <1>5, <1>h DEF ApiCrash
<1>6. ASSUME WorkerCrash \/ UNCHANGED vars
      PROVE  conns' \subseteq conns /\ conns' = Holders'
  BY <1>6, <1>h DEF WorkerCrash, vars
<1>7. CASE \E p \in Posts : Flush(p) \/ Refresh(p)
  BY <1>1, <1>7, TakeConnection
<1>8. CASE conns' \subseteq conns /\ conns' = Holders'
  BY <1>8, ReturnConnections
<1> QED
  BY <1>2, <1>3, <1>4, <1>5, <1>6, <1>7, <1>8 DEF Next, Arrive, Handle

\* The pool is never overdrawn and no handler leaks a connection, for pools of
\* every size.
THEOREM PoolIsExact == Spec => []PoolExact
<1>1. PoolInv => PoolExact
  BY DEF PoolInv
<1> QED
  BY <1>1, InitPool, NextPool, PTL DEF Spec

-----------------------------------------------------------------------------
(* The intake implements its promise.                                      *)

MRecorded == {r.id : r \in apps}
MAudited == {a.entity : a \in audits}
MRequested == {p \in Posts : Requested(p)}

LEMMA MappedRows ==
    /\ UNCHANGED <<apps, audits>> =>
          MRecorded' = MRecorded /\ MAudited' = MAudited
    /\ \A p : Store(p) => /\ MRecorded' = MRecorded \cup {p}
                          /\ MAudited' = MAudited \cup {p}
    /\ \A p : p \in MRecorded <=> Recorded(p)
<1>1. \A p : AppRow(p).id = p /\ AuditRow(p).entity = p
  BY DEF AppRow, AuditRow
<1>2. ASSUME UNCHANGED <<apps, audits>>
      PROVE  MRecorded' = MRecorded /\ MAudited' = MAudited
  BY <1>2 DEF MRecorded, MAudited
<1>3. ASSUME NEW p, Store(p)
      PROVE  /\ MRecorded' = MRecorded \cup {p}
             /\ MAudited' = MAudited \cup {p}
  BY <1>1, <1>3 DEF Store, MRecorded, MAudited
<1>4. \A p : p \in MRecorded <=> Recorded(p)
  BY DEF MRecorded, Recorded
<1> QED
  BY <1>2, <1>3, <1>4

LEMMA MappedTasks ==
    UNCHANGED broker => MRequested' = MRequested /\ received' = received
BY RequestedSame DEF MRequested, broker

LEMMA InitRefines == Init => Promise!Init
BY DEF Init, Promise!Init, Requested, NoTasks

LEMMA StepRefines ==
    IInv /\ [Next]_vars => [Promise!Next]_(Promise!vars)
<1> SUFFICES ASSUME IInv, [Next]_vars PROVE [Promise!Next]_(Promise!vars)
  OBVIOUS
<1> DEFINE Stutter == /\ MRecorded' = MRecorded
                      /\ MAudited' = MAudited
                      /\ MRequested' = MRequested
                      /\ received' = received
                      /\ answer' = answer
<1>t. TypeOK
  BY DEF IInv
<1>u. Stutter => UNCHANGED Promise!vars
  BY DEF Promise!vars, MRecorded, MAudited, MRequested
<1>1. ASSUME NEW p \in Posts, Arrive(p)
      PROVE  Promise!Refuse(p) \/ Promise!Fail(p) \/ Stutter
  <2>1. /\ UNCHANGED <<apps, audits>>
        /\ UNCHANGED broker
        /\ pc[p] = "idle"
        /\ \/ answer' = answer
           \/ answer' = [answer EXCEPT ![p] = "422"]
           \/ answer' = [answer EXCEPT ![p] = "500"]
    BY <1>1 DEF Arrive, Reject, DeriveFails, Admit, Step, Finish, db
  <2>2. ~Recorded(p) /\ answer[p] = "none"
    BY <2>1 DEF IInv, Progress, AnswerMeaning
  <2> QED
    BY <2>1, <2>2, MappedRows, MappedTasks
    DEF Promise!Refuse, Promise!Fail, Promise!Open, Promise!Tell, MRecorded,
        MAudited, MRequested
<1>2. ASSUME NEW p \in Posts, Handle(p)
      PROVE  \/ Promise!Fail(p) \/ Promise!Record(p) \/ Promise!Request(p)
             \/ Promise!Accept(p) \/ Stutter
  <2>1. CASE Flush(p) \/ Refresh(p)
    BY <2>1, MappedRows, MappedTasks DEF Flush, Refresh, db
  <2>2. CASE \/ FlushFails(p) \/ PoolTimeout(p) \/ RefreshFails(p)
             \/ CommitFails(p) \/ CloseFails(p)
    <3>1. /\ UNCHANGED <<apps, audits>>
          /\ UNCHANGED broker
          /\ pc[p] # "done"
          /\ answer' = [answer EXCEPT ![p] = "500"]
      BY <2>2
      DEF FlushFails, PoolTimeout, RefreshFails, CommitFails, CloseFails, Finish,
          db
    <3>2. answer[p] = "none"
      BY <3>1 DEF IInv, AnswerMeaning
    <3> QED
      BY <3>1, <3>2, MappedRows, MappedTasks
      DEF Promise!Fail, Promise!Open, Promise!Tell, MRecorded, MAudited,
          MRequested
  <2>3. CASE Commit(p)
    <3>1. /\ UNCHANGED broker
          /\ pc[p] = "commit"
          /\ Store(p)
          /\ answer' = answer
      BY <2>3 DEF Commit, Step
    <3>2. answer[p] = "none" /\ ~Recorded(p)
      BY <3>1 DEF IInv, Progress, AnswerMeaning
    <3> QED
      BY <3>1, <3>2, MappedRows, MappedTasks
      DEF Promise!Record, MRecorded, MAudited, MRequested
  <2>4. CASE Emit(p)
    <3>1. /\ UNCHANGED <<apps, audits>>
          /\ received' = received
          /\ answer' = answer
          /\ pc[p] = "emit"
      BY <2>4 DEF Emit, Step, db
    <3>2. Recorded(p) /\ answer[p] = "none" /\ ~Requested(p)
      BY <3>1 DEF IInv, Progress, AnswerMeaning, TaskOrigin, Sent
    <3>3. \A q \in Posts \ {p} : Requested(q)' = Requested(q)
      <4>1. \A q \in Posts \ {p} : tasks'[q] = tasks[q]
        BY <1>t, <2>4 DEF Emit, TypeOK
      <4> QED
        BY <4>1 DEF Requested
    <3>4. MRequested' = MRequested \/ MRequested' = MRequested \cup {p}
      BY <3>2, <3>3 DEF MRequested
    <3> QED
      BY <3>1, <3>2, <3>4, MappedRows
      DEF Promise!Request, Promise!Open, MRecorded, MAudited, MRequested
  <2>5. CASE Respond(p)
    <3>1. /\ UNCHANGED <<apps, audits>>
          /\ UNCHANGED broker
          /\ pc[p] = "respond"
          /\ answer' = [answer EXCEPT ![p] = "201"]
      BY <2>5 DEF Respond, Finish, db
    <3>2. answer[p] = "none" /\ Recorded(p)
      BY <3>1 DEF IInv, Progress, AnswerMeaning
    <3> QED
      BY <3>1, <3>2, MappedRows, MappedTasks
      DEF Promise!Accept, Promise!Open, Promise!Tell, MRecorded, MAudited,
          MRequested
  <2> QED
    BY <1>2, <2>1, <2>2, <2>3, <2>4, <2>5 DEF Handle
<1>3. ASSUME NEW p \in Posts, Consume(p) \/ Redeliver(p)
      PROVE  Promise!Score(p) \/ Promise!Lose
  <2>1. UNCHANGED <<apps, audits>> /\ answer' = answer
    BY <1>3
    DEF Consume, Reserve, Start, Discard, ScoreApplication, Restore, Redeliver,
        db
  <2>2. MRequested' \subseteq MRequested
    BY <1>3, <1>t, RequestedShrinks DEF MRequested
  <2>3. CASE ScoreApplication(p)
    <3>1. p \in MRequested /\ received' = received \cup {p}
      BY <2>3 DEF ScoreApplication, MRequested, Requested, Stages
    <3>2. \A q \in Posts \ {p} : Requested(q)' = Requested(q)
      <4>1. \A q \in Posts \ {p} : tasks'[q] = tasks[q]
        BY <1>t, <2>3 DEF ScoreApplication, TypeOK
      <4> QED
        BY <4>1 DEF Requested
    <3>3. MRequested' \in {MRequested, MRequested \ {p}}
      BY <2>2, <3>2 DEF MRequested
    <3> QED
      BY <2>1, <3>1, <3>3, MappedRows
      DEF Promise!Score, MRecorded, MAudited, MRequested
  <2>4. CASE ~ScoreApplication(p)
    <3>1. received' = received
      BY <1>3, <2>4 DEF Consume, Reserve, Start, Discard, Restore, Redeliver
    <3> QED
      BY <2>1, <2>2, <3>1, MappedRows
      DEF Promise!Lose, MRecorded, MAudited, MRequested
  <2> QED
    BY <2>3, <2>4
<1>4. ASSUME ApiCrash \/ \E p \in Posts : ServerRollsBack(p) PROVE Stutter
  BY <1>4, MappedRows, MappedTasks DEF ApiCrash, ServerRollsBack
<1>5. ASSUME WorkerCrash PROVE Promise!Lose
  <2>1. MRequested' \subseteq MRequested
    BY <1>5, <1>t, RequestedByCrash DEF MRequested
  <2> QED
    BY <1>5, <2>1, MappedRows
    DEF WorkerCrash, Promise!Lose, MRecorded, MAudited, MRequested, db
<1>6. ASSUME NEW p \in Posts, ServerCommits(p) PROVE Promise!Record(p)
  <2>1. /\ UNCHANGED broker
        /\ Store(p)
        /\ p \in inDoubt
        /\ answer' = answer
    BY <1>6 DEF ServerCommits
  <2>2. answer[p] \in {"none", "500"} /\ ~Recorded(p)
    BY <2>1 DEF IInv, Doubt
  <2> QED
    BY <2>1, <2>2, MappedRows, MappedTasks
    DEF Promise!Record, MRecorded, MAudited, MRequested
<1>7. ASSUME UNCHANGED vars PROVE Stutter
  BY <1>7, MappedRows, MappedTasks DEF vars, broker
<1> QED
  BY <1>u, <1>1, <1>2, <1>3, <1>4, <1>5, <1>6, <1>7 DEF Next, Promise!Next

\* Handlers, pool, broker and worker together do only what IntakePromise
\* allows.
THEOREM KeepsPromise == Spec => PromiseSpec
BY InitRefines, StepRefines, Invariant, PTL
DEF Spec, PromiseSpec, Promise!Spec

=============================================================================
