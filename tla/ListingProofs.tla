--------------------------- MODULE ListingProofs ---------------------------
(***************************************************************************)
(* Proofs about Listing, for any finite number of rows, any keys and any   *)
(* page sizes.  What a page contains is known only as far as ORDER BY      *)
(* fixes it: a page follows some prefix of the order (APage).  Under       *)
(* Determined a row's place is the number of rows before it (Ahead), and   *)
(* the walk has got to place Offset(page + 1): inserts only move a row     *)
(* back, so that one the client has not been given is still to come        *)
(* (StillToCome); removals only move it forward, so that one it has been   *)
(* given does not come again (Past).                                       *)
(***************************************************************************)
EXTENDS Listing, FiniteSetTheorems, TLAPS

\* The rows that every query returns before r.
Ahead(r) == {q \in table : Before(q, r)}

\* A page that is not the last one lies within the table, as it was then.
Bounded ==
    /\ pc # "done" => Offset(page + 1) <= Cardinality(Rows)
    /\ \A r \in Rows : seen[r] <= page

TypeInv == TypeOK /\ Bounded

\* A count nothing has been written since.
CountFresh == pc = "page" /\ steady => total = Cardinality(table)

\* Without a write the table is the one the walk began with.
Still ==
    changed = {} => table = begun /\ \A r \in Rows \ table : seen[r] = 0

StillToCome ==
    changed \subseteq {"insert"} /\ Determined
        => /\ begun \subseteq table
           /\ \A r \in begun : seen[r] = 0 =>
                 pc # "done" /\ Offset(page + 1) <= Cardinality(Ahead(r))

Past ==
    changed \subseteq {"remove"} /\ Determined
        => \A r \in Rows :
              /\ seen[r] <= 1
              /\ r \in table /\ seen[r] = 1 =>
                    Cardinality(Ahead(r)) < Offset(page + 1)

IInv ==
    /\ TypeInv
    /\ CountFresh
    /\ TotalHonest
    /\ Still
    /\ StillToCome
    /\ Past

-----------------------------------------------------------------------------
(* The order.                                                              *)

LEMMA KeyTypes ==
    ASSUME TypeOK
    PROVE  /\ \A r \in Rows : key[r] \in Keys \cup {Null}
           /\ endpoint = "queue" => \A r \in Rows : key[r] \in Keys
BY DEF TypeOK, KeyValues

LEMMA NotBeforeItself ==
    ASSUME TypeOK, NEW r \in Rows
    PROVE  ~Before(r, r)
<1>1. r \in Nat /\ (key[r] = Null \/ key[r] \in Nat)
  BY KeyTypes, NumberAssumption
<1> QED
  BY <1>1 DEF Before, KeyBefore

LEMMA TotalOrder ==
    ASSUME TypeOK, Determined, NEW q \in Rows, NEW r \in Rows, q # r
    PROVE  Before(q, r) \/ Before(r, q)
<1>1. q \in Nat /\ r \in Nat
  BY NumberAssumption
<1>2. /\ key[q] = Null \/ key[q] \in Nat
      /\ key[r] = Null \/ key[r] \in Nat
  BY KeyTypes, NumberAssumption
<1>3. CASE key[q] = key[r]
  <2>1. endpoint = "queue"
    BY <1>3 DEF Determined
  <2> QED
    BY <1>1, <1>3, <2>1 DEF Before
<1>4. CASE key[q] # key[r]
  BY <1>2, <1>4 DEF Before, KeyBefore
<1> QED
  BY <1>3, <1>4

-----------------------------------------------------------------------------
(* Pages.                                                                  *)

LEMMA Sizes ==
    ASSUME TypeOK
    PROVE  /\ page_size \in Nat /\ page_size >= 1
           /\ IsFiniteSet(table) /\ Cardinality(table) \in Nat
           /\ Cardinality(Rows) \in Nat
           /\ Cardinality(table) <= Cardinality(Rows)
<1>1. page_size \in Nat \ {0}
  BY SizeAssumption DEF TypeOK
<1>2. table \in SUBSET Rows
  BY DEF TypeOK
<1> QED
  BY <1>1, <1>2, FiniteAssumption, FS_Subset, FS_CardinalityType

LEMMA Offsets ==
    ASSUME TypeOK, NEW p \in Nat
    PROVE  /\ Offset(p + 1) \in Nat
           /\ Offset(p + 2) = Offset(p + 1) + page_size
           /\ p <= Offset(p + 1)
<1>1. page_size \in Nat /\ page_size >= 1
  BY Sizes
<1>2. Offset(p + 1) = p * page_size /\ Offset(p + 2) = (p + 1) * page_size
  BY DEF Offset
<1>3. p * page_size \in Nat /\ (p + 1) * page_size = p * page_size + page_size
  BY <1>1
<1>4. p <= p * page_size
  <2>1. p * page_size = p + p * (page_size - 1)
    BY <1>1
  <2>2. page_size - 1 \in Nat
    BY <1>1
  <2>3. p * (page_size - 1) \in Nat
    BY <2>2
  <2> QED
    BY <2>1, <2>3, <1>3
<1> QED
  BY <1>2, <1>3, <1>4

\* P is a page after the rows B that come before it.
APage(p, B, P) ==
    /\ B \subseteq table /\ IsPrefix(B)
    /\ P \subseteq table \ B /\ IsPrefix(B \cup P)
    /\ IsFiniteSet(B) /\ IsFiniteSet(P) /\ IsFiniteSet(B \cup P)
    /\ Cardinality(B) = Smaller(Offset(p), Cardinality(table))
    /\ Cardinality(P) =
          Smaller(page_size, Cardinality(table) - Cardinality(B))
    /\ Cardinality(B \cup P) = Cardinality(B) + Cardinality(P)

LEMMA PageResult ==
    ASSUME TypeOK, NEW p, NEW P \in PageResults(p)
    PROVE  \E B : APage(p, B, P)
<1>1. PICK B \in SUBSET table :
         /\ Cardinality(B) = Smaller(Offset(p), Cardinality(table))
         /\ IsPrefix(B)
         /\ P \in PageAfter(B)
  BY DEF PageResults
<1>2. /\ P \in SUBSET (table \ B)
      /\ Cardinality(P) =
            Smaller(page_size, Cardinality(table) - Cardinality(B))
      /\ IsPrefix(B \cup P)
  BY <1>1 DEF PageAfter
<1>3. IsFiniteSet(B) /\ IsFiniteSet(P)
  BY <1>1, <1>2, Sizes, FS_Subset
<1>4. B \cap P = {}
  BY <1>2
<1>5. IsFiniteSet(B \cup P) /\ Cardinality(B \cup P) = Cardinality(B) + Cardinality(P)
  <2>1. /\ IsFiniteSet(B \cup P)
        /\ Cardinality(B \cup P) =
              Cardinality(B) + Cardinality(P) - Cardinality(B \cap P)
    BY <1>3, FS_Union
  <2>2. Cardinality(B \cap P) = 0
    BY <1>4, FS_EmptySet
  <2>3. Cardinality(B) \in Nat /\ Cardinality(P) \in Nat
    BY <1>3, FS_CardinalityType
  <2> QED
    BY <2>1, <2>2, <2>3
<1> QED
  BY <1>1, <1>2, <1>3, <1>5 DEF APage

\* A page is full, or nothing is left after it.
LEMMA FullOrLast ==
    ASSUME TypeOK, NEW p \in Nat, NEW B, NEW P, APage(p + 1, B, P)
    PROVE  /\ Cardinality(P) \in Nat /\ Cardinality(B) \in Nat
           /\ Cardinality(P) <= page_size
           /\ Cardinality(B) <= Offset(p + 1)
           /\ \/ /\ Cardinality(P) = page_size
                 /\ Cardinality(B) = Offset(p + 1)
                 /\ Cardinality(B \cup P) = Offset(p + 2)
              \/ Cardinality(P) < page_size /\ B \cup P = table
<1>1. /\ page_size \in Nat /\ page_size >= 1
      /\ IsFiniteSet(table) /\ Cardinality(table) \in Nat
  BY Sizes
<1>2. /\ Offset(p + 1) \in Nat
      /\ Offset(p + 2) = Offset(p + 1) + page_size
  BY Offsets
<1>3. Cardinality(B) \in Nat /\ Cardinality(P) \in Nat
  BY FS_CardinalityType DEF APage
<1>4. Cardinality(B \cup P) = Cardinality(table) => B \cup P = table
  <2>1. B \cup P \in SUBSET table
    BY DEF APage
  <2> QED
    BY <2>1, <1>1, FS_Subset
<1>5. /\ Cardinality(B) = Smaller(Offset(p + 1), Cardinality(table))
      /\ Cardinality(P) =
            Smaller(page_size, Cardinality(table) - Cardinality(B))
      /\ Cardinality(B \cup P) = Cardinality(B) + Cardinality(P)
  BY DEF APage
<1> QED
  BY <1>1, <1>2, <1>3, <1>4, <1>5 DEF Smaller

-----------------------------------------------------------------------------
(* Types, and the end of the walk.                                         *)

LEMMA TypeStep ==
    ASSUME TypeInv, [Next]_vars
    PROVE  TypeInv'
<1> USE DEF TypeInv
<1>1. /\ page_size \in Nat /\ page_size >= 1
      /\ Cardinality(Rows) \in Nat
      /\ Cardinality(table) \in Nat
      /\ Cardinality(table) <= Cardinality(Rows)
  BY Sizes
<1>2. page \in Nat /\ \A r \in Rows : seen[r] \in Nat
  BY <1>1 DEF TypeOK
<1>3. /\ Offset(page + 1) \in Nat
      /\ Offset(page + 2) = Offset(page + 1) + page_size
      /\ page <= Offset(page + 1)
  BY <1>2, Offsets
<1>4. CASE Count
  BY <1>1, <1>4 DEF Count, TypeOK, Bounded, request, KeyValues, Offset
<1>5. CASE Fetch
  <2>1. items' \in PageResults(page + 1)
    BY <1>5 DEF Fetch
  <2>2. PICK B : APage(page + 1, B, items')
    BY <2>1, PageResult
  <2>3. /\ Cardinality(items') \in Nat
        /\ \/ /\ Cardinality(items') = page_size
              /\ Cardinality(B \cup items') = Offset(page + 2)
           \/ Cardinality(items') < page_size
    BY <1>2, <2>2, FullOrLast
  <2>4. items' \subseteq table /\ B \cup items' \in SUBSET Rows
    BY <2>2 DEF APage, TypeOK
  <2>5. Cardinality(B \cup items') <= Cardinality(Rows)
    BY <2>4, FiniteAssumption, FS_Subset
  <2>6. page' = page + 1 /\ page <= Cardinality(Rows)
    BY <1>1, <1>2, <1>3, <1>5 DEF Fetch, Bounded
  <2>7. page' \in 0..(Cardinality(Rows) + 1)
    BY <1>1, <1>2, <2>6
  <2>8. \A r \in Rows : seen'[r] \in Nat /\ seen'[r] <= page'
    BY <1>2, <1>5, <2>6 DEF Fetch, Bounded, TypeOK
  <2>9. seen' \in [Rows -> 0..(Cardinality(Rows) + 1)]
    BY <1>1, <1>5, <2>7, <2>8 DEF Fetch
  <2>10. pc' \in {"count", "page", "done"}
    BY <1>5 DEF Fetch
  <2>11. TypeOK'
    BY <1>5, <2>4, <2>7, <2>9, <2>10 DEF Fetch, TypeOK, request, KeyValues
  <2>12. pc' # "done" => Offset(page' + 1) <= Cardinality(Rows)
    <3>1. Offset(page' + 1) = Offset(page + 2)
      BY <1>2, <2>6 DEF Offset
    <3> QED
      BY <1>1, <1>5, <2>3, <2>5, <3>1 DEF Fetch
  <2>13. (Offset(page + 1))' = Offset(page' + 1)
    BY <1>5 DEF Fetch, request, Offset
  <2> QED
    BY <2>8, <2>11, <2>12, <2>13 DEF Bounded
<1>6. ASSUME NEW r \in Rows, Insert(r) PROVE TypeInv'
  BY <1>6 DEF Insert, Changing, TypeOK, Bounded, request, walk, KeyValues, Offset
<1>7. ASSUME NEW r \in Rows, Remove(r) PROVE TypeInv'
  BY <1>7 DEF Remove, Changing, TypeOK, Bounded, request, walk, KeyValues, Offset
<1>8. ASSUME NEW r \in Rows, Rekey(r) PROVE TypeInv'
  BY <1>8 DEF Rekey, Changing, TypeOK, Bounded, request, walk, KeyValues, Offset
<1>9. CASE UNCHANGED vars
  BY <1>9 DEF vars, request, TypeOK, Bounded, KeyValues, Offset
<1> QED
  BY <1>4, <1>5, <1>6, <1>7, <1>8, <1>9 DEF Next

\* What another transaction leaves alone, and what it leaves of the walk.
LEMMA WriteStep ==
    ASSUME TypeOK, NEW r \in Rows, Insert(r) \/ Remove(r) \/ Rekey(r)
    PROVE  /\ UNCHANGED <<request, walk>> /\ pc # "done"
           /\ steady' = (steady /\ pc # "page")
           /\ \A p : (Offset(p))' = Offset(p)
BY DEF Insert, Remove, Rekey, Changing, request, walk, Offset

LEMMA TotalStep ==
    ASSUME TypeInv, CountFresh, TotalHonest, [Next]_vars
    PROVE  CountFresh' /\ TotalHonest'
<1>1. CASE Count
  BY <1>1 DEF Count, CountFresh, TotalHonest
<1>2. CASE Fetch
  <2>1. pc = "page" /\ page' = page + 1 /\ pc' # "page" /\ page \in Nat
    BY <1>2, Sizes DEF Fetch, TypeInv, TypeOK
  <2>2. PICK B : APage(page + 1, B, items')
    BY <1>2, PageResult DEF Fetch, TypeInv
  <2>3. /\ Cardinality(B) = Smaller(Offset(page + 1), Cardinality(table))
        /\ Cardinality(items') =
              Smaller(page_size, Cardinality(table) - Cardinality(B))
    BY <2>2 DEF APage
  <2>4. /\ Offset(page + 1) \in Nat /\ Cardinality(table) \in Nat
        /\ page_size \in Nat /\ page_size >= 1
    BY <2>1, Offsets, Sizes DEF TypeInv
  <2>5. /\ UNCHANGED <<total, steady, page_size>>
        /\ (Offset(page))' = Offset(page + 1)
    BY <1>2, <2>1 DEF Fetch, request, Offset
  <2>6. steady => total = Cardinality(table)
    BY <2>1 DEF CountFresh
  <2>7. steady => Cardinality(items') =
                     IF total - Offset(page + 1) < 0 THEN 0
                     ELSE Smaller(page_size, total - Offset(page + 1))
    BY <2>3, <2>4, <2>6 DEF Smaller
  <2> QED
    BY <2>1, <2>5, <2>7 DEF CountFresh, TotalHonest, Smaller
<1>3. ASSUME NEW r \in Rows, Insert(r) \/ Remove(r) \/ Rekey(r)
      PROVE  CountFresh' /\ TotalHonest'
  <2>1. /\ UNCHANGED <<pc, page, total, items, page_size>>
        /\ steady' = (steady /\ pc # "page")
        /\ (Offset(page))' = Offset(page)
    BY <1>3, WriteStep DEF TypeInv, request, walk, Offset
  <2> QED
    BY <2>1 DEF CountFresh, TotalHonest, Smaller
<1>4. CASE UNCHANGED vars
  BY <1>4 DEF vars, request, CountFresh, TotalHonest, Offset, Smaller
<1> QED
  BY <1>1, <1>2, <1>3, <1>4 DEF Next

LEMMA StillStep ==
    ASSUME TypeInv, Still, [Next]_vars
    PROVE  Still'
<1>1. CASE Count
  BY <1>1 DEF Count, Still
<1>2. CASE Fetch
  <2>1. PICK B : APage(page + 1, B, items')
    BY <1>2, PageResult DEF Fetch, TypeInv
  <2>2. items' \subseteq table
    BY <2>1 DEF APage
  <2> QED
    BY <1>2, <2>2 DEF Fetch, Still
<1>3. ASSUME NEW r \in Rows, Insert(r) \/ Remove(r) \/ Rekey(r)
      PROVE  Still'
  BY <1>3 DEF Insert, Remove, Rekey, Changing, Still
<1>4. CASE UNCHANGED vars
  BY <1>4 DEF vars, Still
<1> QED
  BY <1>1, <1>2, <1>3, <1>4 DEF Next

-----------------------------------------------------------------------------
(* Places in the order.                                                    *)

LEMMA Places ==
    ASSUME TypeOK, NEW r
    PROVE  /\ IsFiniteSet(Ahead(r)) /\ Cardinality(Ahead(r)) \in Nat
           /\ \A S \in SUBSET Ahead(r) :
                 Cardinality(S) <= Cardinality(Ahead(r))
<1>1. IsFiniteSet(table)
  BY Sizes
<1>2. Ahead(r) \in SUBSET table
  BY DEF Ahead
<1> QED
  BY <1>1, <1>2, FS_Subset, FS_CardinalityType

\* A row among the first ones has fewer before it.
LEMMA WithinPrefix ==
    ASSUME TypeOK, NEW C \in SUBSET table, IsPrefix(C), NEW r \in C
    PROVE  Cardinality(Ahead(r)) < Cardinality(C)
<1>1. IsFiniteSet(C)
  BY Sizes, FS_Subset
<1>2. r \in Rows
  BY DEF TypeOK
<1>3. Ahead(r) \in SUBSET (C \ {r})
  BY <1>2, NotBeforeItself DEF Ahead, IsPrefix
<1>4. IsFiniteSet(C \ {r}) /\ Cardinality(C \ {r}) = Cardinality(C) - 1
  BY <1>1, FS_RemoveElement
<1>5. Cardinality(Ahead(r)) <= Cardinality(C \ {r})
  BY <1>3, <1>4, FS_Subset
<1>6. Cardinality(C) \in Nat /\ Cardinality(Ahead(r)) \in Nat
  BY <1>1, Places, FS_CardinalityType
<1> QED
  BY <1>4, <1>5, <1>6

\* One that is not among them has them all before it.
LEMMA BeyondPrefix ==
    ASSUME TypeOK, Determined,
           NEW C \in SUBSET table, IsPrefix(C), NEW r \in table \ C
    PROVE  Cardinality(C) <= Cardinality(Ahead(r))
<1>1. \A q \in C : Before(q, r)
  <2> SUFFICES ASSUME NEW q \in C PROVE Before(q, r)
    OBVIOUS
  <2>1. q \in Rows /\ r \in Rows /\ q # r
    BY DEF TypeOK
  <2>2. ~Before(r, q)
    BY DEF IsPrefix
  <2> QED
    BY <2>1, <2>2, TotalOrder
<1>2. C \in SUBSET Ahead(r)
  BY <1>1 DEF Ahead
<1> QED
  BY <1>2, Places

\* A write to other rows, and one that changes no key, leaves the order alone.
LEMMA SameOrder ==
    ASSUME UNCHANGED <<endpoint, sort_order, key>>
    PROVE  /\ \A q, r \in Rows : Before(q, r)' <=> Before(q, r)
           /\ Determined' <=> Determined
BY DEF Before, KeyBefore, Determined

-----------------------------------------------------------------------------
(* Inserts skip nothing.                                                   *)

LEMMA StillToComeStep ==
    ASSUME TypeInv, TypeInv', StillToCome, [Next]_vars
    PROVE  StillToCome'
<1> USE DEF TypeInv
<1>1. CASE Count
  <2>1. UNCHANGED <<table, begun, seen, changed, key, endpoint, sort_order>>
    BY <1>1 DEF Count, request
  <2>2. (Offset(page + 1))' = Offset(page + 1) /\ pc' # "done"
    BY <1>1 DEF Count, request, Offset
  <2>3. \A r : Ahead(r)' = Ahead(r)
    BY <2>1 DEF Ahead, Before, KeyBefore
  <2>4. Determined' <=> Determined
    BY <2>1, SameOrder
  <2> QED
    BY <2>1, <2>2, <2>3, <2>4 DEF StillToCome
<1>2. CASE Fetch
  <2>1. UNCHANGED <<table, begun, changed, key, endpoint, sort_order, page_size>>
    BY <1>2 DEF Fetch, request
  <2>2. \A r : Ahead(r)' = Ahead(r)
    BY <2>1 DEF Ahead, Before, KeyBefore
  <2>3. Determined' <=> Determined
    BY <2>1, SameOrder
  <2>4. page \in Nat /\ page' = page + 1
    BY <1>2, Sizes DEF Fetch, TypeOK
  <2>5. (Offset(page + 1))' = Offset(page + 2)
    BY <2>1, <2>4 DEF Offset
  <2>6. PICK B : APage(page + 1, B, items')
    BY <1>2, PageResult DEF Fetch
  <2>7. SUFFICES ASSUME changed \subseteq {"insert"}, Determined,
                        begun \subseteq table,
                        NEW r \in begun, seen'[r] = 0
                 PROVE  /\ pc' # "done"
                        /\ Offset(page + 2) <= Cardinality(Ahead(r))
    BY <2>1, <2>2, <2>3, <2>5 DEF StillToCome
  <2>8. r \in Rows /\ r \in table
    BY <2>7 DEF TypeOK
  <2>9. seen[r] = 0 /\ r \notin items'
    BY <1>2, <2>7, <2>8 DEF Fetch, TypeOK
  <2>10. Offset(page + 1) <= Cardinality(Ahead(r))
    BY <2>7, <2>9 DEF StillToCome
  <2>11. /\ Cardinality(B) \in Nat
         /\ Cardinality(B) <= Offset(page + 1)
         /\ \/ /\ Cardinality(items') = page_size
               /\ Cardinality(B \cup items') = Offset(page + 2)
            \/ B \cup items' = table
    BY <2>4, <2>6, FullOrLast
  <2>12. r \notin B
    <3>1. SUFFICES ASSUME r \in B PROVE FALSE
      OBVIOUS
    <3>2. Cardinality(Ahead(r)) < Cardinality(B)
      BY <2>6, <3>1, WithinPrefix DEF APage
    <3>3. Offset(page + 1) \in Nat /\ Cardinality(Ahead(r)) \in Nat
      BY <2>4, Offsets, Places
    <3> QED
      BY <2>10, <2>11, <3>2, <3>3
  <2>13. /\ Cardinality(items') = page_size
         /\ Cardinality(B \cup items') = Offset(page + 2)
    BY <2>8, <2>9, <2>11, <2>12
  <2>14. Cardinality(B \cup items') <= Cardinality(Ahead(r))
    <3>1. B \cup items' \in SUBSET table /\ IsPrefix(B \cup items')
      BY <2>6 DEF APage
    <3>2. r \in table \ (B \cup items')
      BY <2>8, <2>9, <2>12
    <3> QED
      BY <2>7, <3>1, <3>2, BeyondPrefix
  <2>15. pc' # "done"
    BY <1>2, <2>13, Sizes DEF Fetch
  <2> QED
    BY <2>13, <2>14, <2>15
<1>3. ASSUME NEW n \in Rows, Insert(n) PROVE StillToCome'
  <2>1. UNCHANGED <<endpoint, sort_order, page_size, key, pc, page, seen, begun>>
    BY <1>3 DEF Insert, request, walk
  <2>2. table' = table \cup {n} /\ changed' = changed \cup {"insert"}
    BY <1>3 DEF Insert, Changing
  <2>3. (Offset(page + 1))' = Offset(page + 1)
    BY <2>1 DEF Offset
  <2>4. \A r \in begun : Cardinality(Ahead(r)) <= Cardinality(Ahead(r)')
    <3> TAKE r \in begun
    <3>1. Ahead(r) \in SUBSET (Ahead(r)')
      BY <2>1, <2>2 DEF Ahead, Before, KeyBefore
    <3>2. IsFiniteSet(Ahead(r)')
      <4>1. IsFiniteSet(table')
        <5>1. table' \in SUBSET Rows
          BY DEF TypeOK
        <5> QED
          BY <5>1, FiniteAssumption, FS_Subset
      <4>2. Ahead(r)' \in SUBSET table'
        BY DEF Ahead
      <4> QED
        BY <4>1, <4>2, FS_Subset
    <3> QED
      BY <3>1, <3>2, FS_Subset
  <2>5. SUFFICES ASSUME changed \subseteq {"insert"}, Determined
                 PROVE  /\ begun \subseteq table'
                        /\ \A r \in begun : seen[r] = 0 =>
                              /\ pc # "done"
                              /\ Offset(page + 1) <= Cardinality(Ahead(r)')
    BY <2>1, <2>2, <2>3, SameOrder DEF StillToCome
  <2>6. SUFFICES ASSUME NEW r \in begun, seen[r] = 0
                 PROVE  Offset(page + 1) <= Cardinality(Ahead(r)')
    BY <2>2, <2>5 DEF StillToCome
  <2>7. Offset(page + 1) <= Cardinality(Ahead(r))
    BY <2>5, <2>6 DEF StillToCome
  <2>8. Offset(page + 1) \in Nat /\ Cardinality(Ahead(r)) \in Nat
    <3>1. page \in Nat
      BY Sizes DEF TypeOK
    <3> QED
      BY <3>1, Offsets, Places
  <2>9. Cardinality(Ahead(r)') \in Nat
    <3>1. Ahead(r)' \in SUBSET Rows
      BY DEF Ahead, TypeOK
    <3> QED
      BY <3>1, FiniteAssumption, FS_Subset, FS_CardinalityType
  <2> QED
    BY <2>4, <2>6, <2>7, <2>8, <2>9
<1>4. ASSUME NEW n \in Rows, Remove(n) \/ Rekey(n) PROVE StillToCome'
  BY <1>4 DEF Remove, Rekey, Changing, StillToCome
<1>5. CASE UNCHANGED vars
  <2>1. UNCHANGED <<table, begun, seen, changed, key, endpoint, sort_order, pc>>
    BY <1>5 DEF vars, request
  <2>2. (Offset(page + 1))' = Offset(page + 1)
    BY <1>5 DEF vars, request, Offset
  <2>3. \A r : Ahead(r)' = Ahead(r)
    BY <2>1 DEF Ahead, Before, KeyBefore
  <2>4. Determined' <=> Determined
    BY <2>1, SameOrder
  <2> QED
    BY <2>1, <2>2, <2>3, <2>4 DEF StillToCome
<1> QED
  BY <1>1, <1>2, <1>3, <1>4, <1>5 DEF Next

-----------------------------------------------------------------------------
(* Removals repeat nothing.                                                *)

LEMMA PastStep ==
    ASSUME TypeInv, TypeInv', Past, [Next]_vars
    PROVE  Past'
<1> USE DEF TypeInv
<1>1. CASE Count
  <2>1. UNCHANGED <<table, seen, changed, key, endpoint, sort_order>>
    BY <1>1 DEF Count, request
  <2>2. (Offset(page + 1))' = Offset(page + 1)
    BY <1>1 DEF Count, request, Offset
  <2>3. \A r : Ahead(r)' = Ahead(r)
    BY <2>1 DEF Ahead, Before, KeyBefore
  <2>4. Determined' <=> Determined
    BY <2>1, SameOrder
  <2> QED
    BY <2>1, <2>2, <2>3, <2>4 DEF Past
<1>2. CASE Fetch
  <2>1. UNCHANGED <<table, changed, key, endpoint, sort_order, page_size>>
    BY <1>2 DEF Fetch, request
  <2>2. \A r : Ahead(r)' = Ahead(r)
    BY <2>1 DEF Ahead, Before, KeyBefore
  <2>3. Determined' <=> Determined
    BY <2>1, SameOrder
  <2>4. page \in Nat /\ page' = page + 1 /\ \A r \in Rows : seen[r] \in Nat
    BY <1>2, Sizes DEF Fetch, TypeOK
  <2>5. (Offset(page + 1))' = Offset(page + 2)
    BY <2>1, <2>4 DEF Offset
  <2>6. PICK B : APage(page + 1, B, items')
    BY <1>2, PageResult DEF Fetch
  <2>7. SUFFICES ASSUME changed \subseteq {"remove"}, Determined, NEW r \in Rows
                 PROVE  /\ seen'[r] <= 1
                        /\ r \in table /\ seen'[r] = 1 =>
                              Cardinality(Ahead(r)) < Offset(page + 2)
    BY <2>1, <2>2, <2>3, <2>5 DEF Past
  <2>8. /\ seen[r] <= 1
        /\ r \in table /\ seen[r] = 1 => Cardinality(Ahead(r)) < Offset(page + 1)
    BY <2>7 DEF Past
  <2>9. /\ Offset(page + 1) \in Nat
        /\ Offset(page + 2) = Offset(page + 1) + page_size
        /\ page_size \in Nat /\ page_size >= 1
    BY <2>4, Offsets, Sizes
  <2>10. Cardinality(Ahead(r)) \in Nat
    BY Places
  <2>11. /\ Cardinality(items') \in Nat /\ Cardinality(B) \in Nat
         /\ Cardinality(items') <= page_size
         /\ Cardinality(B) <= Offset(page + 1)
         /\ Cardinality(B \cup items') = Cardinality(B) + Cardinality(items')
    BY <2>4, <2>6, FullOrLast DEF APage
  <2>12. CASE r \in items'
    <3>1. r \in table \ B /\ seen'[r] = seen[r] + 1
      BY <1>2, <2>6, <2>7, <2>12 DEF APage, Fetch, TypeOK
    <3>2. seen[r] # 1
      <4>1. SUFFICES ASSUME seen[r] = 1 PROVE FALSE
        OBVIOUS
      <4>2. Cardinality(B) <= Cardinality(Ahead(r))
        BY <2>6, <2>7, <3>1, BeyondPrefix DEF APage
      <4>3. Cardinality(B) < Offset(page + 1)
        BY <2>8, <2>9, <2>10, <2>11, <3>1, <4>1, <4>2
      <4>4. Cardinality(B) = Cardinality(table) /\ B \in SUBSET table
        BY <2>6, <2>9, <4>3, Sizes DEF APage, Smaller
      <4>5. B = table
        BY <4>4, Sizes, FS_Subset
      <4> QED
        BY <3>1, <4>5
    <3>3. seen[r] \in Nat
      BY <2>4
    <3>4. Cardinality(Ahead(r)) < Cardinality(B \cup items')
      <4>1. B \cup items' \in SUBSET table /\ IsPrefix(B \cup items')
        BY <2>6 DEF APage
      <4> QED
        BY <2>12, <4>1, WithinPrefix
    <3> QED
      BY <2>8, <2>9, <2>10, <2>11, <3>1, <3>2, <3>3, <3>4
  <2>13. CASE r \notin items'
    <3>1. seen'[r] = seen[r]
      BY <1>2, <2>7, <2>13 DEF Fetch
    <3> QED
      BY <2>8, <2>9, <2>10, <3>1
  <2> QED
    BY <2>12, <2>13
<1>3. ASSUME NEW n \in Rows, Remove(n) PROVE Past'
  <2>1. UNCHANGED <<endpoint, sort_order, page_size, key, page, seen>>
    BY <1>3 DEF Remove, request, walk
  <2>2. table' = table \ {n} /\ changed' = changed \cup {"remove"}
    BY <1>3 DEF Remove, Changing
  <2>3. (Offset(page + 1))' = Offset(page + 1)
    BY <2>1 DEF Offset
  <2>4. \A r \in Rows : /\ Cardinality(Ahead(r)') \in Nat
                        /\ Cardinality(Ahead(r)') <= Cardinality(Ahead(r))
    <3> TAKE r \in Rows
    <3>1. Ahead(r)' \in SUBSET Ahead(r)
      BY <2>1, <2>2 DEF Ahead, Before, KeyBefore
    <3>2. IsFiniteSet(Ahead(r))
      BY Places
    <3> QED
      BY <3>1, <3>2, FS_Subset, FS_CardinalityType
  <2>5. SUFFICES ASSUME changed \subseteq {"remove"}, Determined, NEW r \in Rows
                 PROVE  /\ seen[r] <= 1
                        /\ r \in table' /\ seen[r] = 1 =>
                              Cardinality(Ahead(r)') < Offset(page + 1)
    BY <2>1, <2>2, <2>3, SameOrder DEF Past
  <2>6. /\ seen[r] <= 1
        /\ r \in table /\ seen[r] = 1 => Cardinality(Ahead(r)) < Offset(page + 1)
    BY <2>5 DEF Past
  <2>7. page \in Nat
    BY Sizes DEF TypeOK
  <2>8. Offset(page + 1) \in Nat /\ Cardinality(Ahead(r)) \in Nat
    BY <2>7, Offsets, Places
  <2> QED
    BY <2>2, <2>4, <2>6, <2>8
<1>4. ASSUME NEW n \in Rows, Insert(n) \/ Rekey(n) PROVE Past'
  BY <1>4 DEF Insert, Rekey, Changing, Past
<1>5. CASE UNCHANGED vars
  <2>1. UNCHANGED <<table, seen, changed, key, endpoint, sort_order>>
    BY <1>5 DEF vars, request
  <2>2. (Offset(page + 1))' = Offset(page + 1)
    BY <1>5 DEF vars, request, Offset
  <2>3. \A r : Ahead(r)' = Ahead(r)
    BY <2>1 DEF Ahead, Before, KeyBefore
  <2>4. Determined' <=> Determined
    BY <2>1, SameOrder
  <2> QED
    BY <2>1, <2>2, <2>3, <2>4 DEF Past
<1> QED
  BY <1>1, <1>2, <1>3, <1>4, <1>5 DEF Next

-----------------------------------------------------------------------------
(* The theorems.                                                           *)

LEMMA Initially == Init => IInv
<1> SUFFICES ASSUME Init PROVE IInv
  OBVIOUS
<1>1. page_size \in Nat \ {0} /\ page = 0 /\ Offset(page + 1) = 0
  BY SizeAssumption DEF Init, Offset
<1>2. Cardinality(Rows) \in Nat
  BY FiniteAssumption, FS_CardinalityType
<1>3. TypeInv
  BY <1>1, <1>2 DEF Init, TypeInv, TypeOK, Bounded, KeyValues
<1>4. StillToCome
  <2>1. \A r : Cardinality(Ahead(r)) \in Nat
    BY <1>3, Places DEF TypeInv
  <2> QED
    BY <1>1, <2>1 DEF Init, StillToCome
<1>5. CountFresh /\ TotalHonest /\ Still /\ Past
  BY DEF Init, CountFresh, TotalHonest, Still, Past
<1> QED
  BY <1>3, <1>4, <1>5 DEF IInv

LEMMA Inductive == IInv /\ [Next]_vars => IInv'
<1> SUFFICES ASSUME IInv, [Next]_vars PROVE IInv'
  OBVIOUS
<1> USE DEF IInv
<1>1. TypeInv'
  BY TypeStep
<1>2. CountFresh' /\ TotalHonest'
  BY TotalStep
<1>3. Still' /\ StillToCome' /\ Past'
  BY <1>1, StillStep, StillToComeStep, PastStep
<1> QED
  BY <1>1, <1>2, <1>3

LEMMA Invariant == Spec => []IInv
BY Initially, Inductive, PTL DEF Spec

\* The client's state and the table stay what they are, and no walk asks for
\* more than one page beyond the table: each page but the last is full.
THEOREM TypeCorrect == Spec => []TypeOK
<1>1. IInv => TypeOK
  BY DEF IInv, TypeInv
<1> QED
  BY <1>1, Invariant, PTL

\* list_applications: total, counted in a statement of its own, and the page
\* agree when no commit came between the two, on every page of every size.
THEOREM TotalsAreHonest == Spec => []TotalHonest
<1>1. IInv => TotalHonest
  BY DEF IInv
<1> QED
  BY <1>1, Invariant, PTL

\* list_queue_entries (its order is total) and list_applications on different
\* keys: rows inserted while the client turns the pages hide no row from it
\* that was there when it began.
THEOREM InsertsSkipNothing == Spec => []NoSkipUnderInserts
<1>1. IInv => NoSkipUnderInserts
  <2> SUFFICES ASSUME IInv, pc = "done", changed \subseteq {"insert"}, Determined,
                      NEW r \in begun
               PROVE  seen[r] >= 1
    BY DEF NoSkipUnderInserts
  <2>1. r \in Rows
    BY DEF IInv, TypeInv, TypeOK
  <2>2. Cardinality(Rows) \in Nat
    BY FiniteAssumption, FS_CardinalityType
  <2>3. seen[r] \in Nat
    BY <2>1, <2>2 DEF IInv, TypeInv, TypeOK
  <2>4. seen[r] # 0
    BY DEF IInv, StillToCome
  <2> QED
    BY <2>3, <2>4
<1> QED
  BY <1>1, Invariant, PTL

\* The same lists: rows that leave the filter meanwhile, as an entry does that
\* is decided, bring no row twice, not even in a walk that has not ended.
THEOREM RemovalsRepeatNothing == Spec => []NoRepeatUnderRemovals
<1>1. IInv => NoRepeatUnderRemovals
  BY DEF IInv, Past, NoRepeatUnderRemovals
<1> QED
  BY <1>1, Invariant, PTL

\* The offsets of the pages fit together: a walk through a list nobody writes
\* to gives every row of it once and no other.
THEOREM StillWalksAreComplete == Spec => []CompleteWhenStill
<1>1. IInv => CompleteWhenStill
  <2> SUFFICES ASSUME IInv, pc = "done", changed = {}, Determined
               PROVE  seen = [r \in Rows |-> IF r \in table THEN 1 ELSE 0]
    BY DEF CompleteWhenStill
  <2>1. table = begun /\ \A r \in Rows \ table : seen[r] = 0
    BY DEF IInv, Still
  <2>2. \A r \in begun : seen[r] # 0
    BY DEF IInv, StillToCome
  <2>3. \A r \in Rows : seen[r] <= 1
    BY DEF IInv, Past
  <2>4. Cardinality(Rows) \in Nat
    BY FiniteAssumption, FS_CardinalityType
  <2>5. seen \in [Rows -> 0..(Cardinality(Rows) + 1)]
    BY DEF IInv, TypeInv, TypeOK
  <2>6. \A r \in Rows : seen[r] \in Nat
    BY <2>4, <2>5
  <2>7. \A r \in table : seen[r] = 1
    BY <2>1, <2>2, <2>3, <2>6 DEF IInv, TypeInv, TypeOK
  <2> QED
    BY <2>1, <2>5, <2>7
<1> QED
  BY <1>1, Invariant, PTL
=============================================================================
