-------------------------- MODULE ThresholdsProofs --------------------------
(***************************************************************************)
(* Proofs about Thresholds for any number of seeders and administrators.   *)
(* Everything rests on Exclusive: a seeder that is past its first          *)
(* statement holds the tenant's row, so that what it has found about the   *)
(* Default threshold (Found) is still so when it commits.                  *)
(***************************************************************************)
EXTENDS Thresholds, TLAPS

Inside(s) == pc[s] \in {"deactivate", "select", "commit"}

Exclusive == \A s \in Seeders : Inside(s) => lock = s

UniqueIds == \A q, r \in rows : q.id = r.id => q = r

\* A seeder's uuid names no row before it commits.
OwnIdUnused ==
    \A s \in Seeders : pc[s] # "committed" => \A r \in rows : r.id # s

Found ==
    \A s \in Seeders :
        /\ pc[s] \in {"idle", "upsert", "deactivate", "select"}
              => target[s] = NoOne
        /\ pc[s] = "commit" /\ target[s] = NoOne
              => \A r \in rows : r.name # "Default"
        /\ pc[s] = "commit" /\ target[s] # NoOne
              => \E r \in rows : r.id = target[s] /\ r.name = "Default"

\* Nothing was added since the seeder switched the rows off.
AllOff ==
    \A s \in undisturbed :
        pc[s] \in {"select", "commit"} => \A r \in rows : r.id \in off[s]

IInv ==
    /\ TypeOK
    /\ Exclusive
    /\ UniqueIds
    /\ OwnIdUnused
    /\ Found
    /\ AllOff
    /\ OneDefault
    /\ NeverNoneActive

-----------------------------------------------------------------------------
LEMMA InitIInv == Init => IInv
<1> SUFFICES ASSUME Init PROVE IInv
  OBVIOUS
<1>1. TypeOK
  <2>1. {} \in SUBSET Ids
    OBVIOUS
  <2> QED
    <3>1. 0 \in 0..MaxTime /\ 0 \in 0..(MaxTime + MaxSkew)
      BY TimeAssumption
    <3>2. /\ now \in [Seeders -> 0..(MaxTime + MaxSkew)]
          /\ off \in [Seeders -> SUBSET Ids]
          /\ target \in [Seeders -> Ids \cup {NoOne}]
      BY <2>1, <3>1 DEF Init
    <3> QED
      BY <3>1, <3>2 DEF Init, TypeOK, PCs
<1> QED
  BY <1>1
  DEF Init, IInv, Exclusive, Inside, UniqueIds, OwnIdUnused, Found, AllOff,
      OneDefault, NeverNoneActive

LEMMA NewRowType ==
    ASSUME TypeOK, NEW s \in Seeders
    PROVE  NewDefault(s) \in Row
BY DEF TypeOK, NewDefault, Row, Ids

\* What a seeder's statements do to one row.
After(s, r) ==
    IF r.id = target[s]
    THEN [r EXCEPT !.is_active = TRUE, !.effective_from = now[s]]
    ELSE [r EXCEPT !.is_active = @ /\ r.id \notin off[s]]

LEMMA SeededRows ==
    ASSUME NEW s
    PROVE  Seeded(s) = {After(s, r) : r \in rows}
                          \cup (IF target[s] = NoOne THEN {NewDefault(s)} ELSE {})
BY DEF Seeded, After

LEMMA AfterKeeps ==
    ASSUME TypeOK, NEW s \in Seeders, NEW r \in rows
    PROVE  /\ After(s, r) \in Row
           /\ After(s, r).id = r.id
           /\ After(s, r).name = r.name
           /\ r.id = target[s] => After(s, r).is_active
           /\ r.id # target[s] /\ r.id \in off[s] => ~After(s, r).is_active
<1>1. r \in Row
  BY DEF TypeOK
<1>2. now[s] \in 0..(MaxTime + MaxSkew)
  BY DEF TypeOK
<1>3. CASE r.id = target[s]
  <2>1. After(s, r) = [r EXCEPT !.is_active = TRUE, !.effective_from = now[s]]
    BY <1>3 DEF After
  <2> QED
    BY <1>1, <1>2, <1>3, <2>1 DEF Row
<1>4. CASE r.id # target[s]
  <2>1. After(s, r)
           = [r EXCEPT !.is_active = r.is_active /\ r.id \notin off[s]]
    BY <1>4 DEF After
  <2>2. (r.is_active /\ r.id \notin off[s]) \in BOOLEAN
    OBVIOUS
  <2> QED
    BY <1>1, <1>4, <2>1, <2>2 DEF Row
<1> QED
  BY <1>3, <1>4

\* Every row after the seeder's statements is one it found or its own.
LEMMA SeededOrigin ==
    ASSUME TypeOK, NEW s \in Seeders, NEW x \in Seeded(s)
    PROVE  \/ \E r \in rows : x = After(s, r)
           \/ target[s] = NoOne /\ x = NewDefault(s)
BY SeededRows

-----------------------------------------------------------------------------
LEMMA NextType == TypeOK /\ [Next]_vars => TypeOK'
<1> SUFFICES ASSUME TypeOK, [Next]_vars PROVE TypeOK'
  OBVIOUS
<1>1. ASSUME NEW s \in Seeders, ReadClock(s) PROVE TypeOK'
  <2>1. PICK k \in 0..MaxSkew : now' = [now EXCEPT ![s] = clock + k]
    BY <1>1 DEF ReadClock
  <2>2. clock + k \in 0..(MaxTime + MaxSkew)
    BY TimeAssumption DEF TypeOK
  <2> QED
    BY <1>1, <2>1, <2>2 DEF ReadClock, Go, TypeOK, PCs
<1>2. ASSUME NEW s \in Seeders, UpsertTenant(s) PROVE TypeOK'
  BY <1>2 DEF UpsertTenant, Go, TypeOK, PCs
<1>3. ASSUME NEW s \in Seeders, Deactivate(s) PROVE TypeOK'
  <2>1. {r.id : r \in rows} \in SUBSET Ids
    BY DEF TypeOK, Row
  <2> QED
    BY <1>3, <2>1 DEF Deactivate, Go, TypeOK, PCs
<1>4. ASSUME NEW s \in Seeders, SelectDefault(s) PROVE TypeOK'
  <2>1. \A r \in rows : r.id \in Ids
    BY DEF TypeOK, Row
  <2>2. target' \in [Seeders -> Ids \cup {NoOne}]
    BY <1>4, <2>1 DEF SelectDefault, TypeOK
  <2> QED
    BY <1>4, <2>2 DEF SelectDefault, Go, TypeOK, PCs
<1>5. ASSUME NEW s \in Seeders, Commit(s) PROVE TypeOK'
  <2>1. rows' \subseteq Row
    BY <1>5, SeededOrigin, AfterKeeps, NewRowType DEF Commit
  <2>2. {} \in SUBSET Ids
    OBVIOUS
  <2> QED
    BY <1>5, <2>1, <2>2 DEF Commit, Go, TypeOK, PCs
<1>6. ASSUME NEW s \in Seeders, Abort(s) PROVE TypeOK'
  <2>1. {} \in SUBSET Ids
    OBVIOUS
  <2> QED
    BY <1>6, <2>1 DEF Abort, TypeOK, PCs
<1>7. ASSUME NEW m \in Manual, AddManual(m) PROVE TypeOK'
  <2>1. [id |-> m, name |-> "Manual", is_active |-> TRUE,
         effective_from |-> clock, effective_to |-> Never] \in Row
    BY TimeAssumption DEF TypeOK, Row, Ids
  <2> QED
    BY <1>7, <2>1 DEF AddManual, TypeOK
<1>8. ASSUME NEW r \in rows, Expire(r) PROVE TypeOK'
  <2>1. [r EXCEPT !.effective_to = clock] \in Row
    BY DEF TypeOK, Row
  <2> QED
    BY <1>8, <2>1 DEF Expire, TypeOK
<1>9. CASE Tick
  BY <1>9, TimeAssumption DEF Tick, TypeOK
<1>10. CASE UNCHANGED vars
  BY <1>10 DEF vars, TypeOK
<1> QED
  BY <1>1, <1>2, <1>3, <1>4, <1>5, <1>6, <1>7, <1>8, <1>9, <1>10 DEF Next

-----------------------------------------------------------------------------
\* The conjuncts of IInv about the committed rows alone.
RowsOK == UniqueIds /\ OneDefault /\ NeverNoneActive

\* Those that relate rows and seeders.
SeedersOK == Exclusive /\ OwnIdUnused /\ Found /\ AllOff

\* Only one seeder at a time is past the tenant's upsert.
LEMMA OneInside ==
    ASSUME IInv, NEW s \in Seeders, NEW q \in Seeders, Inside(s), Inside(q)
    PROVE  q = s
BY DEF IInv, Exclusive

\* The rows a commit leaves.
LEMMA CommitRows ==
    ASSUME IInv, NEW s \in Seeders, Commit(s)
    PROVE  /\ UniqueIds' /\ OneDefault' /\ NeverNoneActive'
           /\ \A x \in rows' : x.id = s \/ \E r \in rows : r.id = x.id
<1>1. /\ rows' = Seeded(s)
      /\ pc[s] = "commit"
  BY DEF Commit, Go
<1>t. TypeOK /\ UniqueIds /\ OneDefault
  BY DEF IInv
<1>2. \A x \in rows' : \/ \E r \in rows : x = After(s, r)
                       \/ target[s] = NoOne /\ x = NewDefault(s)
  BY <1>1, <1>t, SeededOrigin
<1>3. \A r \in rows : After(s, r).id = r.id /\ After(s, r).name = r.name
  BY <1>t, AfterKeeps
<1>4. NewDefault(s).id = s /\ NewDefault(s).name = "Default"
      /\ NewDefault(s).is_active
  BY DEF NewDefault
<1>5. \A r \in rows : r.id # s
  BY <1>1 DEF IInv, OwnIdUnused
<1>6. target[s] = NoOne => \A r \in rows : r.name # "Default"
  BY <1>1 DEF IInv, Found
<1>7. UniqueIds'
  BY <1>2, <1>3, <1>4, <1>5, <1>t DEF UniqueIds
<1>8. OneDefault'
  BY <1>2, <1>3, <1>4, <1>6, <1>t DEF OneDefault
<1>9. \E x \in rows' : x.is_active
  <2>1. CASE target[s] = NoOne
    BY <1>1, <1>4, <2>1, SeededRows
  <2>2. CASE target[s] # NoOne
    <3>1. PICK r \in rows : r.id = target[s]
      BY <1>1, <2>2 DEF IInv, Found
    <3>2. After(s, r) \in rows'
      BY <1>1, SeededRows
    <3> QED
      BY <1>t, <3>1, <3>2, AfterKeeps
  <2> QED
    BY <2>1, <2>2
<1> QED
  BY <1>2, <1>3, <1>4, <1>7, <1>8, <1>9 DEF NeverNoneActive

LEMMA NextIInv == IInv /\ [Next]_vars => IInv'
<1> SUFFICES ASSUME IInv, [Next]_vars PROVE IInv'
  OBVIOUS
<1>t. TypeOK /\ TypeOK'
  BY NextType DEF IInv
<1>r. RowsOK /\ SeedersOK
  BY DEF IInv, RowsOK, SeedersOK
<1>q. RowsOK' /\ SeedersOK' => IInv'
  BY <1>t DEF IInv, RowsOK, SeedersOK
<1>n. \A s \in Seeders : s # NoOne
  BY IdAssumption
<1>1. ASSUME NEW s \in Seeders, ReadClock(s) \/ UpsertTenant(s)
      PROVE  RowsOK' /\ SeedersOK'
  <2>1. /\ UNCHANGED <<off, target, tenant, rows, undisturbed>>
        /\ \/ pc[s] = "idle" /\ pc' = [pc EXCEPT ![s] = "upsert"] /\ lock' = lock
           \/ /\ pc[s] = "upsert"
              /\ pc' = [pc EXCEPT ![s] = "deactivate"]
              /\ lock = NoOne
              /\ lock' = s
    BY <1>1 DEF ReadClock, UpsertTenant, Go
  <2>2. RowsOK'
    BY <1>r, <2>1 DEF RowsOK, UniqueIds, OneDefault, NeverNoneActive
  <2>3. Exclusive'
    BY <1>t, <1>r, <1>n, <2>1 DEF SeedersOK, Exclusive, Inside, TypeOK
  <2>4. OwnIdUnused' /\ Found' /\ AllOff'
    BY <1>t, <1>r, <2>1 DEF SeedersOK, OwnIdUnused, Found, AllOff, TypeOK
  <2> QED
    BY <2>2, <2>3, <2>4 DEF SeedersOK
<1>2. ASSUME NEW s \in Seeders, Deactivate(s) PROVE RowsOK' /\ SeedersOK'
  <2>1. /\ UNCHANGED <<target, tenant, rows, lock>>
        /\ pc[s] = "deactivate"
        /\ pc' = [pc EXCEPT ![s] = "select"]
        /\ off' = [off EXCEPT ![s] = {r.id : r \in rows}]
        /\ undisturbed' = undisturbed \cup {s}
    BY <1>2 DEF Deactivate, Go
  <2>2. RowsOK'
    BY <1>r, <2>1 DEF RowsOK, UniqueIds, OneDefault, NeverNoneActive
  <2>3. Exclusive'
    BY <1>t, <1>r, <2>1 DEF SeedersOK, Exclusive, Inside, TypeOK
  <2>4. OwnIdUnused' /\ Found'
    BY <1>t, <1>r, <2>1 DEF SeedersOK, OwnIdUnused, Found, TypeOK
  <2>5. AllOff'
    BY <1>t, <1>r, <2>1 DEF SeedersOK, AllOff, TypeOK
  <2> QED
    BY <2>2, <2>3, <2>4, <2>5 DEF SeedersOK
<1>3. ASSUME NEW s \in Seeders, SelectDefault(s) PROVE RowsOK' /\ SeedersOK'
  <2>1. /\ UNCHANGED <<off, tenant, rows, lock, undisturbed>>
        /\ pc[s] = "select"
        /\ pc' = [pc EXCEPT ![s] = "commit"]
        /\ \/ \E r \in rows : /\ r.name = "Default"
                              /\ target' = [target EXCEPT ![s] = r.id]
           \/ (\A r \in rows : r.name # "Default") /\ target' = target
    BY <1>3 DEF SelectDefault, Go
  <2>2. RowsOK'
    BY <1>r, <2>1 DEF RowsOK, UniqueIds, OneDefault, NeverNoneActive
  <2>3. Exclusive' /\ OwnIdUnused' /\ AllOff'
    BY <1>t, <1>r, <2>1
    DEF SeedersOK, Exclusive, Inside, OwnIdUnused, AllOff, TypeOK
  <2>4. \A r \in rows : r.id # NoOne
    BY <1>t, IdAssumption DEF TypeOK, Row, Ids
  <2>5. Found'
    BY <1>t, <1>r, <2>1, <2>4 DEF SeedersOK, Found, TypeOK
  <2> QED
    BY <2>2, <2>3, <2>5 DEF SeedersOK
<1>4. ASSUME NEW s \in Seeders, Commit(s) PROVE RowsOK' /\ SeedersOK'
  <2>1. /\ UNCHANGED <<target, undisturbed>>
        /\ pc[s] = "commit"
        /\ pc' = [pc EXCEPT ![s] = "committed"]
        /\ lock' = IF lock = s THEN NoOne ELSE lock
    BY <1>4 DEF Commit, Go
  <2>2. /\ RowsOK'
        /\ \A x \in rows' : x.id = s \/ \E r \in rows : r.id = x.id
    BY <1>4, CommitRows DEF RowsOK
  <2>3. \A q \in Seeders \ {s} : ~Inside(q)
    BY <2>1, OneInside DEF Inside
  <2>4. \A q \in Seeders : ~Inside(q)'
    BY <1>t, <2>1, <2>3 DEF Inside, TypeOK
  <2>5. OwnIdUnused'
    BY <1>t, <1>r, <2>1, <2>2 DEF SeedersOK, OwnIdUnused, TypeOK
  <2>6. Exclusive' /\ Found' /\ AllOff'
    BY <1>t, <1>r, <2>1, <2>4
    DEF SeedersOK, Exclusive, Inside, Found, AllOff, TypeOK
  <2> QED
    BY <2>2, <2>5, <2>6 DEF SeedersOK
<1>5. ASSUME NEW s \in Seeders, Abort(s) PROVE RowsOK' /\ SeedersOK'
  <2>1. /\ UNCHANGED <<target, tenant, rows, undisturbed>>
        /\ pc' = [pc EXCEPT ![s] = "aborted"]
        /\ lock' = IF lock = s THEN NoOne ELSE lock
        /\ off' = [off EXCEPT ![s] = {}]
        /\ pc[s] # "committed"
    BY <1>5 DEF Abort
  <2>2. RowsOK'
    BY <1>r, <2>1 DEF RowsOK, UniqueIds, OneDefault, NeverNoneActive
  <2>3. Exclusive'
    BY <1>t, <1>r, <2>1 DEF SeedersOK, Exclusive, Inside, TypeOK
  <2>4. OwnIdUnused' /\ Found' /\ AllOff'
    BY <1>t, <1>r, <2>1 DEF SeedersOK, OwnIdUnused, Found, AllOff, TypeOK
  <2> QED
    BY <2>2, <2>3, <2>4 DEF SeedersOK
<1>6. ASSUME NEW m \in Manual, AddManual(m) PROVE RowsOK' /\ SeedersOK'
  <2> DEFINE new == [id |-> m, name |-> "Manual", is_active |-> TRUE,
                     effective_from |-> clock, effective_to |-> Never]
  <2>1. /\ UNCHANGED <<pc, off, target, tenant, lock>>
        /\ rows' = rows \cup {new}
        /\ \A r \in rows : r.id # m
        /\ undisturbed' = {}
    BY <1>6 DEF AddManual
  <2>2. new.id = m /\ new.name = "Manual" /\ new.is_active
    OBVIOUS
  <2> HIDE DEF new
  <2>3. RowsOK'
    BY <1>r, <2>1, <2>2 DEF RowsOK, UniqueIds, OneDefault, NeverNoneActive
  <2>4. \A s \in Seeders : s # m
    BY IdAssumption
  <2>5. OwnIdUnused'
    BY <1>r, <2>1, <2>2, <2>4 DEF SeedersOK, OwnIdUnused
  <2>6. Exclusive' /\ Found' /\ AllOff'
    BY <1>r, <2>1, <2>2 DEF SeedersOK, Exclusive, Inside, Found, AllOff
  <2> QED
    BY <2>3, <2>5, <2>6 DEF SeedersOK
<1>7. ASSUME NEW x \in rows, Expire(x) PROVE RowsOK' /\ SeedersOK'
  <2> DEFINE new == [x EXCEPT !.effective_to = clock]
  <2>1. /\ UNCHANGED <<pc, off, target, tenant, lock>>
        /\ rows' = (rows \ {x}) \cup {new}
        /\ undisturbed' = {}
    BY <1>7 DEF Expire
  <2>2. new.id = x.id /\ new.name = x.name /\ new.is_active = x.is_active
    BY <1>t DEF TypeOK, Row
  <2> HIDE DEF new
  <2>3. RowsOK'
    BY <1>r, <2>1, <2>2 DEF RowsOK, UniqueIds, OneDefault, NeverNoneActive
  <2>5. OwnIdUnused'
    BY <1>r, <2>1, <2>2 DEF SeedersOK, OwnIdUnused
  <2>6. Exclusive' /\ Found' /\ AllOff'
    BY <1>r, <2>1, <2>2 DEF SeedersOK, Exclusive, Inside, Found, AllOff
  <2> QED
    BY <2>3, <2>5, <2>6 DEF SeedersOK
<1>8. ASSUME Tick \/ UNCHANGED vars PROVE RowsOK' /\ SeedersOK'
  <2>1. UNCHANGED <<pc, off, target, tenant, lock, rows, undisturbed>>
    BY <1>8 DEF Tick, vars
  <2> QED
    BY <1>r, <2>1
    DEF RowsOK, UniqueIds, OneDefault, NeverNoneActive, SeedersOK, Exclusive,
        Inside, OwnIdUnused, Found, AllOff
<1> QED
  BY <1>q, <1>1, <1>2, <1>3, <1>4, <1>5, <1>6, <1>7, <1>8 DEF Next

LEMMA Invariant == Spec => []IInv
BY InitIInv, NextIInv, PTL DEF Spec

\* Every variable keeps its type, however far the seeders' clocks are off.
THEOREM TypeCorrect == Spec => []TypeOK
<1>1. IInv => TypeOK
  BY DEF IInv, RowsOK
<1> QED
  BY <1>1, Invariant, PTL

\* However many seeders run at once, there is one Default threshold at most.
THEOREM DefaultIsUnique == Spec => []OneDefault
<1>1. IInv => OneDefault
  BY DEF IInv
<1> QED
  BY <1>1, Invariant, PTL

\* A seeded tenant always has an active threshold.
THEOREM ActiveAlways == Spec => []NeverNoneActive
<1>1. IInv => NeverNoneActive
  BY DEF IInv
<1> QED
  BY <1>1, Invariant, PTL

LEMMA StepSeedLeavesOne ==
    IInv /\ [Next]_vars =>
        [\A s \in Seeders :
            (s \in undisturbed /\ pc[s] = "commit" /\ pc'[s] = "committed")
               => \A r \in rows' : r.is_active <=> r.name = "Default"]_vars
<1> SUFFICES ASSUME IInv, Next, NEW s \in Seeders, s \in undisturbed,
                    pc[s] = "commit", pc'[s] = "committed", NEW x \in rows'
             PROVE  x.is_active <=> x.name = "Default"
  OBVIOUS
<1>1. Commit(s)
  BY DEF Next, IInv, TypeOK, ReadClock, UpsertTenant, Deactivate,
         SelectDefault, Commit, Abort, AddManual, Expire, Tick, Go
<1>t. TypeOK /\ OneDefault /\ UniqueIds
  BY DEF IInv
<1>2. \/ \E r \in rows : x = After(s, r)
      \/ target[s] = NoOne /\ x = NewDefault(s)
  BY <1>1, <1>t, SeededOrigin DEF Commit
<1>3. ASSUME NEW r \in rows, x = After(s, r)
      PROVE  x.is_active <=> x.name = "Default"
  <2>1. r.id \in off[s]
    BY DEF IInv, AllOff
  <2>2. r.id = target[s] <=> r.name = "Default"
    <3>1. CASE target[s] = NoOne
      <4>1. r.id # NoOne
        BY <1>t, IdAssumption DEF TypeOK, Row, Ids
      <4> QED
        BY <3>1, <4>1 DEF IInv, Found
    <3>2. CASE target[s] # NoOne
      <4>1. PICK d \in rows : d.id = target[s] /\ d.name = "Default"
        BY <3>2 DEF IInv, Found
      <4> QED
        BY <1>t, <4>1 DEF OneDefault, UniqueIds
    <3> QED
      BY <3>1, <3>2
  <2> QED
    BY <1>3, <1>t, <2>1, <2>2, AfterKeeps
<1>4. x = NewDefault(s) => x.is_active /\ x.name = "Default"
  BY DEF NewDefault
<1> QED
  BY <1>2, <1>3, <1>4

\* A seeder that commits undisturbed leaves the Default threshold as the only
\* active one.
THEOREM SeedingLeavesOne == Spec => SeedLeavesOne
BY Invariant, StepSeedLeavesOne, PTL DEF Spec, SeedLeavesOne

\* The row a seeder leaves as Default: its own, or the one it has found with a
\* new effective_from and the old effective_to.
LEMMA CommittedDefault ==
    ASSUME IInv, NEW s \in Seeders, Commit(s),
           \A r \in rows : r.name = "Default" => ~Lapsed(r, clock)
    PROVE  \E x \in rows' : /\ x.name = "Default" /\ x.is_active
                            /\ x.effective_from = now[s]
                            /\ ~Lapsed(x, clock)
<1>t. TypeOK
  BY DEF IInv
<1>1. rows' = Seeded(s) /\ pc[s] = "commit"
  BY DEF Commit, Go
<1>2. CASE target[s] = NoOne
  <2>1. NewDefault(s) \in rows'
    BY <1>1, <1>2, SeededRows
  <2> QED
    BY <2>1 DEF NewDefault, Lapsed
<1>3. CASE target[s] # NoOne
  <2>1. PICK d \in rows : d.id = target[s] /\ d.name = "Default"
    BY <1>1, <1>3 DEF IInv, Found
  <2>2. After(s, d) \in rows'
    BY <1>1, SeededRows
  <2>3. After(s, d) = [d EXCEPT !.is_active = TRUE, !.effective_from = now[s]]
    BY <2>1 DEF After
  <2>4. d \in Row
    BY <1>t DEF TypeOK
  <2>5. /\ After(s, d).effective_from = now[s]
        /\ After(s, d).effective_to = d.effective_to
    BY <2>3, <2>4 DEF Row
  <2>6. After(s, d).name = "Default" /\ After(s, d).is_active
    BY <1>t, <2>1, AfterKeeps
  <2> QED
    BY <2>1, <2>2, <2>5, <2>6 DEF Lapsed
<1> QED
  BY <1>2, <1>3

LEMMA StepServed ==
    IInv /\ [Next]_vars =>
        [\A s \in Seeders :
            (/\ s \in undisturbed /\ pc[s] = "commit" /\ pc'[s] = "committed"
             /\ now[s] <= clock
             /\ \A r \in rows : r.name = "Default" => ~Lapsed(r, clock))
               => /\ ActiveThreshold(clock)' # {}
                  /\ \A r \in ActiveThreshold(clock)' : r.name = "Default"]_vars
<1> SUFFICES ASSUME IInv, Next, NEW s \in Seeders, s \in undisturbed,
                    pc[s] = "commit", pc'[s] = "committed", now[s] <= clock,
                    \A r \in rows : r.name = "Default" => ~Lapsed(r, clock)
             PROVE  /\ ActiveThreshold(clock)' # {}
                    /\ \A r \in ActiveThreshold(clock)' : r.name = "Default"
  OBVIOUS
<1>t. TypeOK /\ TypeOK' /\ OneDefault'
  BY NextIInv DEF IInv
<1>1. Commit(s)
  BY DEF Next, IInv, TypeOK, ReadClock, UpsertTenant, Deactivate,
         SelectDefault, Commit, Abort, AddManual, Expire, Tick, Go
<1>2. clock' = clock
  BY <1>1 DEF Commit
<1>3. vars' # vars
  BY <1>1 DEF vars
<1>4. \A x \in rows' : x.is_active <=> x.name = "Default"
  BY <1>3, StepSeedLeavesOne
<1>5. PICK x \in rows' : /\ x.name = "Default" /\ x.is_active
                         /\ x.effective_from = now[s] /\ ~Lapsed(x, clock)
  BY <1>1, CommittedDefault
<1>6. Effective(x, clock)
  <2>1. x.effective_to \in Int /\ clock \in Int
    BY <1>t, TimeAssumption DEF TypeOK, Row, Never
  <2> QED
    BY <1>5, <2>1 DEF Effective, Lapsed
<1>7. \A y \in rows' : Effective(y, clock) <=> y = x
  BY <1>t, <1>4, <1>5, <1>6 DEF Effective, OneDefault
<1>8. x.effective_from \in Int
  BY <1>5, <1>t, TimeAssumption DEF TypeOK
<1>9. ActiveThreshold(clock)' = {x}
  <2>1. {r \in rows' : Effective(r, clock)} = {x}
    BY <1>5, <1>7
  <2> QED
    BY <1>2, <1>8, <2>1 DEF ActiveThreshold, Effective
<1> QED
  BY <1>5, <1>9

\* A seeder with a clock that is not ahead, and no expired Default row before it,
\* leaves the tenant with the threshold that get_active_threshold returns.
THEOREM SeedingIsServed == Spec => ServedUnlessLapsed
BY Invariant, StepServed, PTL DEF Spec, ServedUnlessLapsed

-----------------------------------------------------------------------------
(* The refinement.  Which seeder or administrator made a row is known from *)
(* its name, and a seeded tenant never loses its Default row.              *)

Origins ==
    /\ \A r \in rows : r.id \in (IF r.name = "Default" THEN Seeders ELSE Manual)
    /\ tenant => \E r \in rows : r.name = "Default"

Named(name) == IdsOf({r \in rows : r.name = name})
Active == IdsOf({r \in rows : r.is_active})

\* The ids of the rows a commit leaves, by name.
LEMMA CommitNames ==
    ASSUME IInv, NEW s \in Seeders, Commit(s)
    PROVE  /\ Named("Default")' = IF Named("Default") = {} THEN {s}
                                 ELSE Named("Default")
           /\ Named("Manual")' = Named("Manual")
           /\ \A x \in rows' : x = NewDefault(s) \/ \E r \in rows : x = After(s, r)
<1>t. TypeOK
  BY DEF IInv
<1>1. rows' = Seeded(s) /\ pc[s] = "commit"
  BY DEF Commit, Go
<1>2. \A r \in rows : After(s, r).id = r.id /\ After(s, r).name = r.name
  BY <1>t, AfterKeeps
<1>3. NewDefault(s).id = s /\ NewDefault(s).name = "Default"
  BY DEF NewDefault
<1>4. target[s] = NoOne <=> Named("Default") = {}
  BY <1>1 DEF IInv, Found, Named, IdsOf
<1>5. /\ \A r \in rows : After(s, r) \in rows'
      /\ target[s] = NoOne => NewDefault(s) \in rows'
      /\ \A x \in rows' :
            \/ target[s] = NoOne /\ x = NewDefault(s)
            \/ \E r \in rows : x = After(s, r)
  BY <1>1, SeededRows
<1>6. Named("Manual")' = Named("Manual")
  BY <1>2, <1>3, <1>5 DEF Named, IdsOf
<1>7. CASE target[s] = NoOne
  <2>1. \A r \in rows : r.name # "Default"
    BY <1>1, <1>7 DEF IInv, Found
  <2>2. Named("Default")' = {s}
    BY <1>2, <1>3, <1>5, <1>7, <2>1 DEF Named, IdsOf
  <2> QED
    BY <1>4, <1>5, <1>6, <1>7, <2>2
<1>8. CASE target[s] # NoOne
  <2>1. Named("Default")' = Named("Default")
    BY <1>2, <1>5, <1>8 DEF Named, IdsOf
  <2> QED
    BY <1>4, <1>5, <1>6, <1>8, <2>1
<1> QED
  BY <1>7, <1>8

\* After a commit the Default row is active, and of the others at most those that
\* were.
LEMMA CommitActive ==
    ASSUME IInv, NEW s \in Seeders, Commit(s)
    PROVE  /\ Named("Default")' \subseteq Active'
           /\ Active' \ Named("Default")' \subseteq Active \cap Named("Manual")
<1>t. TypeOK /\ TypeOK' /\ OneDefault /\ UniqueIds /\ UniqueIds'
  <2>1. [Next]_vars
    BY DEF Next
  <2> QED
    BY <2>1, NextIInv DEF IInv
<1>1. rows' = Seeded(s) /\ pc[s] = "commit"
  BY DEF Commit, Go
<1>2. NewDefault(s).name = "Default" /\ NewDefault(s).is_active
  BY DEF NewDefault
<1>3. ASSUME NEW x \in rows', x.name = "Default" PROVE x.is_active
  <2>1. CASE x = NewDefault(s)
    BY <1>2, <2>1
  <2>2. CASE \E r \in rows : x = After(s, r)
    <3>1. PICK r \in rows : x = After(s, r)
      BY <2>2
    <3>2. r.name = "Default"
      BY <1>t, <1>3, <3>1, AfterKeeps
    <3>3. target[s] # NoOne
      BY <1>1, <3>2 DEF IInv, Found
    <3>4. r.id = target[s]
      BY <1>1, <1>t, <3>2, <3>3 DEF IInv, Found, OneDefault
    <3> QED
      BY <1>t, <3>1, <3>4, AfterKeeps
  <2> QED
    BY <2>1, <2>2, CommitNames
<1>4. ASSUME NEW x \in rows', x.is_active, x.name # "Default"
      PROVE  \E r \in rows : r.id = x.id /\ r.is_active /\ r.name = "Manual"
  <2>1. PICK r \in rows : x = After(s, r)
    BY <1>2, <1>4, CommitNames
  <2>2. x.id = r.id /\ x.name = r.name /\ r \in Row
    BY <1>t, <2>1, AfterKeeps DEF TypeOK
  <2>3. r.name = "Manual"
    BY <1>4, <2>2 DEF Row
  <2>4. r.id # target[s]
    <3>1. r.id # NoOne
      BY <2>2, IdAssumption DEF Row, Ids
    <3> QED
      BY <1>1, <1>t, <2>3, <3>1 DEF IInv, Found, UniqueIds
  <2>5. x = [r EXCEPT !.is_active = r.is_active /\ r.id \notin off[s]]
    BY <2>1, <2>4 DEF After
  <2>6. r.is_active
    BY <1>4, <2>2, <2>5 DEF Row
  <2> QED
    BY <2>2, <2>3, <2>6
<1>5. Named("Default")' \subseteq Active'
  BY <1>3 DEF Named, Active, IdsOf
<1>6. Active' \ Named("Default")' \subseteq Active \cap Named("Manual")
  BY <1>4 DEF Named, Active, IdsOf
<1> QED
  BY <1>5, <1>6

LEMMA NextOrigins == IInv /\ Origins /\ [Next]_vars => Origins'
<1> SUFFICES ASSUME IInv, Origins, [Next]_vars PROVE Origins'
  OBVIOUS
<1>t. TypeOK
  BY DEF IInv
<1>1. CASE UNCHANGED <<rows, tenant>>
  BY <1>1 DEF Origins
<1>2. ASSUME NEW s \in Seeders, Commit(s) PROVE Origins'
  <2>1. \A x \in rows' :
           x.id \in (IF x.name = "Default" THEN Seeders ELSE Manual)
    <3> TAKE x \in rows'
    <3>1. CASE x = NewDefault(s)
      BY <3>1 DEF NewDefault
    <3>2. CASE \E r \in rows : x = After(s, r)
      BY <1>t, <3>2, AfterKeeps DEF Origins
    <3> QED
      BY <1>2, <3>1, <3>2, CommitNames
  <2>2. Named("Default")' # {}
    BY <1>2, CommitNames
  <2> QED
    BY <2>1, <2>2 DEF Origins, Named, IdsOf
<1>3. ASSUME NEW m \in Manual, AddManual(m) PROVE Origins'
  BY <1>3 DEF AddManual, Origins
<1>4. ASSUME NEW x \in rows, Expire(x) PROVE Origins'
  <2> DEFINE new == [x EXCEPT !.effective_to = clock]
  <2>1. rows' = (rows \ {x}) \cup {new} /\ tenant' = tenant
    BY <1>4 DEF Expire
  <2>2. new.id = x.id /\ new.name = x.name
    BY <1>t DEF TypeOK, Row
  <2> HIDE DEF new
  <2> QED
    BY <2>1, <2>2 DEF Origins
<1> QED
  BY <1>1, <1>2, <1>3, <1>4
     DEF Next, ReadClock, UpsertTenant, Deactivate, SelectDefault, Abort, Tick, vars

LEMMA OriginsInvariant == Spec => []Origins
<1>1. Init => Origins
  BY DEF Init, Origins
<1> QED
  BY <1>1, NextOrigins, Invariant, PTL DEF Spec

LEMMA InitRefines == Init => Promise!Init
BY DEF Init, Promise!Init, IdsOf

LEMMA StepRefines ==
    IInv /\ Origins /\ [Next]_vars => [Promise!Next]_(Promise!vars)
<1> SUFFICES ASSUME IInv, Origins, [Next]_vars
             PROVE  [Promise!Next]_(Promise!vars)
  OBVIOUS
<1>t. TypeOK
  BY DEF IInv
<1>1. CASE UNCHANGED rows
  BY <1>1 DEF Promise!vars, IdsOf
<1>2. ASSUME NEW s \in Seeders, Commit(s) PROVE Promise!Seed(s)
  <2>1. /\ Named("Default")' = IF Named("Default") = {} THEN {s}
                               ELSE Named("Default")
        /\ Named("Manual")' = Named("Manual")
    BY <1>2, CommitNames
  <2>2. /\ Named("Default")' \subseteq Active'
        /\ Active' \ Named("Default")' \subseteq Active \cap Named("Manual")
    BY <1>2, CommitActive
  <2> QED
    BY <2>1, <2>2 DEF Promise!Seed, Named, Active
<1>3. ASSUME NEW m \in Manual, AddManual(m) PROVE Promise!Add(m)
  <2> DEFINE new == [id |-> m, name |-> "Manual", is_active |-> TRUE,
                     effective_from |-> clock, effective_to |-> Never]
  <2>1. tenant /\ rows' = rows \cup {new} /\ \A r \in rows : r.id # m
    BY <1>3 DEF AddManual
  <2>2. new.id = m /\ new.name = "Manual" /\ new.is_active
    OBVIOUS
  <2> HIDE DEF new
  <2>3. Named("Default") # {} /\ Named("Default")' = Named("Default")
    BY <2>1, <2>2 DEF Origins, Named, IdsOf
  <2>4. m \notin Named("Manual") /\ Named("Manual")' = Named("Manual") \cup {m}
    BY <2>1, <2>2 DEF Named, IdsOf
  <2>5. Active' = Active \cup {m}
    BY <2>1, <2>2 DEF Active, IdsOf
  <2> QED
    BY <2>3, <2>4, <2>5 DEF Promise!Add, Named, Active
<1>4. ASSUME NEW x \in rows, Expire(x) PROVE UNCHANGED Promise!vars
  <2> DEFINE new == [x EXCEPT !.effective_to = clock]
  <2>1. rows' = (rows \ {x}) \cup {new}
    BY <1>4 DEF Expire
  <2>2. new.id = x.id /\ new.name = x.name /\ new.is_active = x.is_active
    BY <1>t DEF TypeOK, Row
  <2> HIDE DEF new
  <2>3. /\ Named("Default")' = Named("Default")
        /\ Named("Manual")' = Named("Manual")
        /\ Active' = Active
    BY <2>1, <2>2 DEF Named, Active, IdsOf
  <2> QED
    BY <2>3 DEF Promise!vars, Named, Active
<1> QED
  BY <1>1, <1>2, <1>3, <1>4
     DEF Next, Promise!Next, ReadClock, UpsertTenant, Deactivate, SelectDefault,
         Abort, Tick, vars

\* Seeders that run at once, statement by statement, do to the rows what whole
\* seeds do one after the other.
THEOREM KeepsPromise == Spec => PromiseSpec
BY InitRefines, StepRefines, Invariant, OriginsInvariant, PTL
   DEF Spec, PromiseSpec, Promise!Spec
=============================================================================
