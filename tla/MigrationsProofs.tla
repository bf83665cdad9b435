-------------------------- MODULE MigrationsProofs --------------------------
(***************************************************************************)
(* Proofs about Migrations, for any number of migrators and any targets.   *)
(*                                                                         *)
(* The revisions are data: the lemmas of the first part say of each name   *)
(* which revision creates it, and of each statement what it relies on      *)
(* (UpgradeStatement, DowngradeStatement).  From these alone follows what  *)
(* a command sees that runs by itself (Expected) and that none of its      *)
(* statements is refused (StatementWorks).                                 *)
(*                                                                         *)
(* A command that runs beside others may have read a version that is gone. *)
(* It finds out when it changes the row of alembic_version, at the end of  *)
(* its first revision: from there on it leads, nobody else can, and it     *)
(* sees what is Expected.  Until then it follows: what it has done is what *)
(* its statements do wherever they are accepted (Following), and its locks *)
(* keep that true while the leader commits.                                *)
(***************************************************************************)
EXTENDS Migrations, TLAPS

-----------------------------------------------------------------------------
(* The data.                                                               *)

\* The revision that creates a name, the place of its CREATE in the upgrade and
\* of its DROP in the downgrade.
Place(n) ==
    CASE n = "tenants" -> <<1, 1, 2>>
      [] n = "users" -> <<1, 2, 1>>
      [] n = "applications" -> <<2, 1, 10>>
      [] n = "idx_applications_tenant_status" -> <<2, 2, 9>>
      [] n = "idx_applications_submitted" -> <<2, 3, 8>>
      [] n = "scoring_results" -> <<2, 4, 7>>
      [] n = "idx_scoring_application" -> <<2, 5, 6>>
      [] n = "idx_scoring_routing" -> <<2, 6, 5>>
      [] n = "analyst_queues" -> <<2, 7, 4>>
      [] n = "decisions" -> <<2, 8, 3>>
      [] n = "idx_decisions_application" -> <<2, 9, 2>>
      [] n = "idx_decisions_override" -> <<2, 10, 1>>
      [] n = "decision_thresholds" -> <<3, 1, 10>>
      [] n = "audit_logs" -> <<3, 2, 9>>
      [] n = "idx_audit_entity" -> <<3, 3, 8>>
      [] n = "idx_audit_created" -> <<3, 4, 7>>
      [] n = "update_updated_at_column" -> <<3, 5, 6>>
      [] n = "trg_tenants_updated_at" -> <<3, 7, 5>>
      [] n = "trg_users_updated_at" -> <<3, 9, 4>>
      [] n = "trg_applications_updated_at" -> <<3, 11, 3>>
      [] n = "trg_analyst_queues_updated_at" -> <<3, 13, 2>>
      [] n = "trg_decision_thresholds_updated_at" -> <<3, 15, 1>>
      [] n = "model_registry" -> <<4, 1, 7>>
      [] n = "similar_cases" -> <<4, 2, 6>>
      [] n = "idx_similar_cases_application" -> <<4, 3, 5>>
      [] n = "notifications" -> <<4, 4, 4>>
      [] n = "idx_notifications_tenant_created" -> <<4, 5, 3>>
      [] n = "loan_outcomes" -> <<4, 6, 2>>
      [] n = "idx_loan_outcomes_application" -> <<4, 7, 1>>
      [] n = "calculate_queue_priority" -> <<5, 1, 2>>
      [] n = "get_active_threshold" -> <<5, 2, 1>>
      [] n = "sync_application_status" -> <<6, 1, 4>>
      [] n = "v_daily_decision_summary" -> <<6, 2, 3>>
      [] n = "v_analyst_performance" -> <<6, 3, 2>>
      [] n = "v_queue_metrics" -> <<6, 4, 1>>
      [] n = "idx_queue_priority" -> <<7, 1, 2>>
      [] n = "idx_queue_sla" -> <<7, 2, 1>>
      [] OTHER -> <<0, 0, 0>>

Rev(n) == Place(n)[1]
Up(n) == Place(n)[2]
Down(n) == Place(n)[3]

\* The names that other objects refer to.
Referred ==
    {"tenants", "users", "applications", "scoring_results", "analyst_queues",
     "decisions", "decision_thresholds", "audit_logs", "similar_cases",
     "notifications", "loan_outcomes", "update_updated_at_column"}

\* A CREATE comes after those of all it refers to, and is dropped before them;
\* what an upgrade drops is what it is about to create.
UpgradeStatement(v, i) ==
    LET s == Upgrades[v][i]
        o == s.object
    IN  /\ s.op \in {"create", "drop"}
        /\ s.op = "create" =>
              /\ Rev(o.name) = v /\ Up(o.name) = i
              /\ Down(o.name) \in 1..Len(Downgrades[v])
              /\ Downgrades[v][Down(o.name)].object.name = o.name
              /\ \A n \in o.refs :
                    /\ n \in Referred /\ Rev(n) <= v
                    /\ Rev(n) = v => Up(n) < i /\ Down(n) > Down(o.name)
        /\ s.op = "drop" =>
              /\ s.lenient /\ o.refs = {} /\ o.name \notin Referred
              /\ Rev(o.name) = v /\ Up(o.name) > i

\* A downgrade drops what its upgrade has created, each once.
DowngradeStatement(v, i) ==
    LET s == Downgrades[v][i]
        n == s.object.name
    IN  /\ s.op = "drop" /\ s.object.refs = {}
        /\ Rev(n) = v /\ Down(n) = i
        /\ Up(n) \in 1..Len(Upgrades[v])
        /\ Upgrades[v][Up(n)].op = "create"
        /\ Upgrades[v][Up(n)].object.name = n

LEMMA Places1 ==
    /\ Place("tenants") = <<1, 1, 2>>
    /\ Place("users") = <<1, 2, 1>>
BY DEF Place

LEMMA Places2 ==
    /\ Place("applications") = <<2, 1, 10>>
    /\ Place("idx_applications_tenant_status") = <<2, 2, 9>>
    /\ Place("idx_applications_submitted") = <<2, 3, 8>>
    /\ Place("scoring_results") = <<2, 4, 7>>
    /\ Place("idx_scoring_application") = <<2, 5, 6>>
    /\ Place("idx_scoring_routing") = <<2, 6, 5>>
    /\ Place("analyst_queues") = <<2, 7, 4>>
    /\ Place("decisions") = <<2, 8, 3>>
    /\ Place("idx_decisions_application") = <<2, 9, 2>>
    /\ Place("idx_decisions_override") = <<2, 10, 1>>
BY DEF Place

LEMMA Places3 ==
    /\ Place("decision_thresholds") = <<3, 1, 10>>
    /\ Place("audit_logs") = <<3, 2, 9>>
    /\ Place("idx_audit_entity") = <<3, 3, 8>>
    /\ Place("idx_audit_created") = <<3, 4, 7>>
    /\ Place("update_updated_at_column") = <<3, 5, 6>>
    /\ Place("trg_tenants_updated_at") = <<3, 7, 5>>
    /\ Place("trg_users_updated_at") = <<3, 9, 4>>
    /\ Place("trg_applications_updated_at") = <<3, 11, 3>>
    /\ Place("trg_analyst_queues_updated_at") = <<3, 13, 2>>
    /\ Place("trg_decision_thresholds_updated_at") = <<3, 15, 1>>
BY DEF Place

LEMMA Places4 ==
    /\ Place("model_registry") = <<4, 1, 7>>
    /\ Place("similar_cases") = <<4, 2, 6>>
    /\ Place("idx_similar_cases_application") = <<4, 3, 5>>
    /\ Place("notifications") = <<4, 4, 4>>
    /\ Place("idx_notifications_tenant_created") = <<4, 5, 3>>
    /\ Place("loan_outcomes") = <<4, 6, 2>>
    /\ Place("idx_loan_outcomes_application") = <<4, 7, 1>>
BY DEF Place

LEMMA Places5 ==
    /\ Place("calculate_queue_priority") = <<5, 1, 2>>
    /\ Place("get_active_threshold") = <<5, 2, 1>>
BY DEF Place

LEMMA Places6 ==
    /\ Place("sync_application_status") = <<6, 1, 4>>
    /\ Place("v_daily_decision_summary") = <<6, 2, 3>>
    /\ Place("v_analyst_performance") = <<6, 3, 2>>
    /\ Place("v_queue_metrics") = <<6, 4, 1>>
BY DEF Place

LEMMA Places7 ==
    /\ Place("idx_queue_priority") = <<7, 1, 2>>
    /\ Place("idx_queue_sla") = <<7, 2, 1>>
BY DEF Place

LEMMA Lengths ==
    /\ Len(Upgrades[1]) = 2 /\ Len(Downgrades[1]) = 2
    /\ Len(Upgrades[2]) = 10 /\ Len(Downgrades[2]) = 10
    /\ Len(Upgrades[3]) = 15 /\ Len(Downgrades[3]) = 10
    /\ Len(Upgrades[4]) = 7 /\ Len(Downgrades[4]) = 7
    /\ Len(Upgrades[5]) = 2 /\ Len(Downgrades[5]) = 2
    /\ Len(Upgrades[6]) = 4 /\ Len(Downgrades[6]) = 4
    /\ Len(Upgrades[7]) = 2 /\ Len(Downgrades[7]) = 2
<1>1. Len(Upgrades[1]) = 2 /\ Len(Downgrades[1]) = 2
  BY DEF Upgrades, Downgrades, Upgrade001, Downgrade001
<1>2. Len(Upgrades[2]) = 10 /\ Len(Downgrades[2]) = 10
  BY DEF Upgrades, Downgrades, Upgrade002, Downgrade002
<1>3. Len(Upgrades[3]) = 15 /\ Len(Downgrades[3]) = 10
  BY DEF Upgrades, Downgrades, Upgrade003, Downgrade003
<1>4. Len(Upgrades[4]) = 7 /\ Len(Downgrades[4]) = 7
  BY DEF Upgrades, Downgrades, Upgrade004, Downgrade004
<1>5. Len(Upgrades[5]) = 2 /\ Len(Downgrades[5]) = 2
  BY DEF Upgrades, Downgrades, Upgrade005, Downgrade005
<1>6. Len(Upgrades[6]) = 4 /\ Len(Downgrades[6]) = 4
  BY DEF Upgrades, Downgrades, Upgrade006, Downgrade006
<1>7. Len(Upgrades[7]) = 2 /\ Len(Downgrades[7]) = 2
  BY DEF Upgrades, Downgrades, Upgrade007, Downgrade007
<1> QED
  BY <1>1, <1>2, <1>3, <1>4, <1>5, <1>6, <1>7

LEMMA TriggerStatements ==
    /\ LET s == DropTrigger("tenants")
       IN  /\ s.op = "drop" /\ s.lenient /\ s.object.refs = {}
           /\ s.object.name = "trg_tenants_updated_at"
    /\ LET s == CreateTrigger("tenants")
       IN  /\ s.op = "create" /\ s.object.name = "trg_tenants_updated_at"
           /\ s.object.refs = {"tenants", "update_updated_at_column"}
    /\ LET s == DropTrigger("users")
       IN  /\ s.op = "drop" /\ s.lenient /\ s.object.refs = {}
           /\ s.object.name = "trg_users_updated_at"
    /\ LET s == CreateTrigger("users")
       IN  /\ s.op = "create" /\ s.object.name = "trg_users_updated_at"
           /\ s.object.refs = {"users", "update_updated_at_column"}
    /\ LET s == DropTrigger("applications")
       IN  /\ s.op = "drop" /\ s.lenient /\ s.object.refs = {}
           /\ s.object.name = "trg_applications_updated_at"
    /\ LET s == CreateTrigger("applications")
       IN  /\ s.op = "create" /\ s.object.name = "trg_applications_updated_at"
           /\ s.object.refs = {"applications", "update_updated_at_column"}
    /\ LET s == DropTrigger("analyst_queues")
       IN  /\ s.op = "drop" /\ s.lenient /\ s.object.refs = {}
           /\ s.object.name = "trg_analyst_queues_updated_at"
    /\ LET s == CreateTrigger("analyst_queues")
       IN  /\ s.op = "create" /\ s.object.name = "trg_analyst_queues_updated_at"
           /\ s.object.refs = {"analyst_queues", "update_updated_at_column"}
    /\ LET s == DropTrigger("decision_thresholds")
       IN  /\ s.op = "drop" /\ s.lenient /\ s.object.refs = {}
           /\ s.object.name = "trg_decision_thresholds_updated_at"
    /\ LET s == CreateTrigger("decision_thresholds")
       IN  /\ s.op = "create" /\ s.object.name = "trg_decision_thresholds_updated_at"
           /\ s.object.refs = {"decision_thresholds", "update_updated_at_column"}
BY DEF DropTrigger, CreateTrigger, TriggerName, DropIfExists, Create, Object

LEMMA Revision1 ==
    /\ \A i \in 1..2 : UpgradeStatement(1, i)
    /\ \A i \in 1..2 : DowngradeStatement(1, i)
<1>1. Upgrades[1] = Upgrade001 /\ Downgrades[1] = Downgrade001
  BY DEF Upgrades, Downgrades
<1>2. Len(Upgrades[1]) = 2 /\ Len(Downgrades[1]) = 2
  BY Lengths
<1>3. \A i \in 1..2 : UpgradeStatement(1, i)
  BY <1>1, <1>2, Places1
     DEF UpgradeStatement, Upgrade001, Downgrade001, Referred, Rev, Up, Down,
         Table, Create, Drop, Object
<1>4. \A i \in 1..2 : DowngradeStatement(1, i)
  BY <1>1, <1>2, Places1
     DEF DowngradeStatement, Upgrade001, Downgrade001, Rev, Up, Down,
         Table, Create, Drop, Object
<1> QED
  BY <1>3, <1>4

LEMMA Revision2 ==
    /\ \A i \in 1..10 : UpgradeStatement(2, i)
    /\ \A i \in 1..10 : DowngradeStatement(2, i)
<1>1. Upgrades[2] = Upgrade002 /\ Downgrades[2] = Downgrade002
  BY DEF Upgrades, Downgrades
<1>2. Len(Upgrades[2]) = 10 /\ Len(Downgrades[2]) = 10
  BY Lengths
<1>3. \A i \in 1..10 : UpgradeStatement(2, i)
  BY <1>1, <1>2, Places1, Places2
     DEF UpgradeStatement, Upgrade002, Downgrade002, Referred, Rev, Up, Down,
         Table, Index, Create, Drop, Object
<1>4. \A i \in 1..10 : DowngradeStatement(2, i)
  BY <1>1, <1>2, Places2
     DEF DowngradeStatement, Upgrade002, Downgrade002, Rev, Up, Down,
         Table, Index, Create, Drop, Object
<1> QED
  BY <1>3, <1>4

LEMMA Revision3 ==
    /\ \A i \in 1..15 : UpgradeStatement(3, i)
    /\ \A i \in 1..10 : DowngradeStatement(3, i)
<1>1. Upgrades[3] = Upgrade003 /\ Downgrades[3] = Downgrade003
  BY DEF Upgrades, Downgrades
<1>2. Len(Upgrades[3]) = 15 /\ Len(Downgrades[3]) = 10
  BY Lengths
<1>3. \A i \in 1..15 : UpgradeStatement(3, i)
  <2> USE <1>1, <1>2, TriggerStatements, Places1, Places2, Places3
      DEF UpgradeStatement, Upgrade003, Downgrade003, Referred, Rev, Up, Down,
          Table, Index, Function, Create, Replace, DropIfExists, Drop, Object
  <2>1. UpgradeStatement(3, 1)  OBVIOUS
  <2>2. UpgradeStatement(3, 2)  OBVIOUS
  <2>3. UpgradeStatement(3, 3)  OBVIOUS
  <2>4. UpgradeStatement(3, 4)  OBVIOUS
  <2>5. UpgradeStatement(3, 5)  OBVIOUS
  <2>6. UpgradeStatement(3, 6)  OBVIOUS
  <2>7. UpgradeStatement(3, 7)  OBVIOUS
  <2>8. UpgradeStatement(3, 8)  OBVIOUS
  <2>9. UpgradeStatement(3, 9)  OBVIOUS
  <2>10. UpgradeStatement(3, 10)  OBVIOUS
  <2>11. UpgradeStatement(3, 11)  OBVIOUS
  <2>12. UpgradeStatement(3, 12)  OBVIOUS
  <2>13. UpgradeStatement(3, 13)  OBVIOUS
  <2>14. UpgradeStatement(3, 14)  OBVIOUS
  <2>15. UpgradeStatement(3, 15)  OBVIOUS
  <2> HIDE DEF UpgradeStatement
  <2> QED
    BY <2>1, <2>2, <2>3, <2>4, <2>5, <2>6, <2>7, <2>8,
       <2>9, <2>10, <2>11, <2>12, <2>13, <2>14, <2>15
<1>4. \A i \in 1..10 : DowngradeStatement(3, i)
  <2> USE <1>1, <1>2, TriggerStatements, Places3
      DEF DowngradeStatement, Upgrade003, Downgrade003, Rev, Up, Down,
          Table, Index, Function, Create, Replace, DropIfExists, Drop, Object
  <2>1. DowngradeStatement(3, 1)  OBVIOUS
  <2>2. DowngradeStatement(3, 2)  OBVIOUS
  <2>3. DowngradeStatement(3, 3)  OBVIOUS
  <2>4. DowngradeStatement(3, 4)  OBVIOUS
  <2>5. DowngradeStatement(3, 5)  OBVIOUS
  <2>6. DowngradeStatement(3, 6)  OBVIOUS
  <2>7. DowngradeStatement(3, 7)  OBVIOUS
  <2>8. DowngradeStatement(3, 8)  OBVIOUS
  <2>9. DowngradeStatement(3, 9)  OBVIOUS
  <2>10. DowngradeStatement(3, 10)  OBVIOUS
  <2> HIDE DEF DowngradeStatement
  <2> QED
    BY <2>1, <2>2, <2>3, <2>4, <2>5, <2>6, <2>7, <2>8,
       <2>9, <2>10
<1> QED
  BY <1>3, <1>4

LEMMA Revision4 ==
    /\ \A i \in 1..7 : UpgradeStatement(4, i)
    /\ \A i \in 1..7 : DowngradeStatement(4, i)
<1>1. Upgrades[4] = Upgrade004 /\ Downgrades[4] = Downgrade004
  BY DEF Upgrades, Downgrades
<1>2. Len(Upgrades[4]) = 7 /\ Len(Downgrades[4]) = 7
  BY Lengths
<1>3. \A i \in 1..7 : UpgradeStatement(4, i)
  BY <1>1, <1>2, Places1, Places2, Places4
     DEF UpgradeStatement, Upgrade004, Downgrade004, Referred, Rev, Up, Down,
         Table, Index, Create, Drop, Object
<1>4. \A i \in 1..7 : DowngradeStatement(4, i)
  BY <1>1, <1>2, Places4
     DEF DowngradeStatement, Upgrade004, Downgrade004, Rev, Up, Down,
         Table, Index, Create, Drop, Object
<1> QED
  BY <1>3, <1>4

LEMMA Revision5 ==
    /\ \A i \in 1..2 : UpgradeStatement(5, i)
    /\ \A i \in 1..2 : DowngradeStatement(5, i)
<1>1. Upgrades[5] = Upgrade005 /\ Downgrades[5] = Downgrade005
  BY DEF Upgrades, Downgrades
<1>2. Len(Upgrades[5]) = 2 /\ Len(Downgrades[5]) = 2
  BY Lengths
<1>3. \A i \in 1..2 : UpgradeStatement(5, i)
  BY <1>1, <1>2, Places5
     DEF UpgradeStatement, Upgrade005, Downgrade005, Referred, Rev, Up, Down,
         Function, Replace, DropIfExists, Object
<1>4. \A i \in 1..2 : DowngradeStatement(5, i)
  BY <1>1, <1>2, Places5
     DEF DowngradeStatement, Upgrade005, Downgrade005, Rev, Up, Down,
         Function, Replace, DropIfExists, Object
<1> QED
  BY <1>3, <1>4

LEMMA Revision6 ==
    /\ \A i \in 1..4 : UpgradeStatement(6, i)
    /\ \A i \in 1..4 : DowngradeStatement(6, i)
<1>1. Upgrades[6] = Upgrade006 /\ Downgrades[6] = Downgrade006
  BY DEF Upgrades, Downgrades
<1>2. Len(Upgrades[6]) = 4 /\ Len(Downgrades[6]) = 4
  BY Lengths
<1>3. \A i \in 1..4 : UpgradeStatement(6, i)
  BY <1>1, <1>2, Places2, Places6
     DEF UpgradeStatement, Upgrade006, Downgrade006, Referred, Rev, Up, Down,
         Function, View, Replace, DropIfExists, Object
<1>4. \A i \in 1..4 : DowngradeStatement(6, i)
  BY <1>1, <1>2, Places6
     DEF DowngradeStatement, Upgrade006, Downgrade006, Rev, Up, Down,
         Function, View, Replace, DropIfExists, Object
<1> QED
  BY <1>3, <1>4

LEMMA Revision7 ==
    /\ \A i \in 1..2 : UpgradeStatement(7, i)
    /\ \A i \in 1..2 : DowngradeStatement(7, i)
<1>1. Upgrades[7] = Upgrade007 /\ Downgrades[7] = Downgrade007
  BY DEF Upgrades, Downgrades
<1>2. Len(Upgrades[7]) = 2 /\ Len(Downgrades[7]) = 2
  BY Lengths
<1>3. \A i \in 1..2 : UpgradeStatement(7, i)
  BY <1>1, <1>2, Places2, Places7
     DEF UpgradeStatement, Upgrade007, Downgrade007, Referred, Rev, Up, Down,
         Index, Create, Drop, Object
<1>4. \A i \in 1..2 : DowngradeStatement(7, i)
  BY <1>1, <1>2, Places7
     DEF DowngradeStatement, Upgrade007, Downgrade007, Rev, Up, Down,
         Index, Create, Drop, Object
<1> QED
  BY <1>3, <1>4

-----------------------------------------------------------------------------
(* What holds of every revision.                                           *)

Revisions == 1..LastRevision

USE DEF LastRevision

LEMMA Statements ==
    ASSUME NEW v \in Revisions
    PROVE  /\ Len(Upgrades[v]) \in Nat /\ Len(Upgrades[v]) >= 2
           /\ Len(Downgrades[v]) \in Nat /\ Len(Downgrades[v]) >= 2
           /\ \A i \in 1..Len(Upgrades[v]) : UpgradeStatement(v, i)
           /\ \A i \in 1..Len(Downgrades[v]) : DowngradeStatement(v, i)
<1>1. CASE v = 1
  BY <1>1, Lengths, Revision1
<1>2. CASE v = 2
  BY <1>2, Lengths, Revision2
<1>3. CASE v = 3
  BY <1>3, Lengths, Revision3
<1>4. CASE v = 4
  BY <1>4, Lengths, Revision4
<1>5. CASE v = 5
  BY <1>5, Lengths, Revision5
<1>6. CASE v = 6
  BY <1>6, Lengths, Revision6
<1>7. CASE v = 7
  BY <1>7, Lengths, Revision7
<1> QED
  BY <1>1, <1>2, <1>3, <1>4, <1>5, <1>6, <1>7 DEF Revisions

Elements(s) == {s[i] : i \in 1..Len(s)}

LEMMA Sequences ==
    ASSUME NEW v \in Revisions
    PROVE  /\ Upgrades[v] \in Seq(Elements(Upgrades[v]))
           /\ Downgrades[v] \in Seq(Elements(Downgrades[v]))
<1>1. CASE v = 1
  <2>1. Upgrade001 \in Seq(Elements(Upgrade001))
    BY DEF Upgrade001, Elements
  <2>2. Downgrade001 \in Seq(Elements(Downgrade001))
    BY DEF Downgrade001, Elements
  <2> QED
    BY <1>1, <2>1, <2>2 DEF Upgrades, Downgrades
<1>2. CASE v = 2
  <2>1. Upgrade002 \in Seq(Elements(Upgrade002))
    BY DEF Upgrade002, Elements
  <2>2. Downgrade002 \in Seq(Elements(Downgrade002))
    BY DEF Downgrade002, Elements
  <2> QED
    BY <1>2, <2>1, <2>2 DEF Upgrades, Downgrades
<1>3. CASE v = 3
  <2>1. Upgrade003 \in Seq(Elements(Upgrade003))
    BY DEF Upgrade003, Elements
  <2>2. Downgrade003 \in Seq(Elements(Downgrade003))
    BY DEF Downgrade003, Elements
  <2> QED
    BY <1>3, <2>1, <2>2 DEF Upgrades, Downgrades
<1>4. CASE v = 4
  <2>1. Upgrade004 \in Seq(Elements(Upgrade004))
    BY DEF Upgrade004, Elements
  <2>2. Downgrade004 \in Seq(Elements(Downgrade004))
    BY DEF Downgrade004, Elements
  <2> QED
    BY <1>4, <2>1, <2>2 DEF Upgrades, Downgrades
<1>5. CASE v = 5
  <2>1. Upgrade005 \in Seq(Elements(Upgrade005))
    BY DEF Upgrade005, Elements
  <2>2. Downgrade005 \in Seq(Elements(Downgrade005))
    BY DEF Downgrade005, Elements
  <2> QED
    BY <1>5, <2>1, <2>2 DEF Upgrades, Downgrades
<1>6. CASE v = 6
  <2>1. Upgrade006 \in Seq(Elements(Upgrade006))
    BY DEF Upgrade006, Elements
  <2>2. Downgrade006 \in Seq(Elements(Downgrade006))
    BY DEF Downgrade006, Elements
  <2> QED
    BY <1>6, <2>1, <2>2 DEF Upgrades, Downgrades
<1>7. CASE v = 7
  <2>1. Upgrade007 \in Seq(Elements(Upgrade007))
    BY DEF Upgrade007, Elements
  <2>2. Downgrade007 \in Seq(Elements(Downgrade007))
    BY DEF Downgrade007, Elements
  <2> QED
    BY <1>7, <2>1, <2>2 DEF Upgrades, Downgrades
<1> QED
  BY <1>1, <1>2, <1>3, <1>4, <1>5, <1>6, <1>7 DEF Revisions

LEMMA ReferredExist ==
    ASSUME NEW n \in Referred
    PROVE  /\ Rev(n) \in Revisions
           /\ Up(n) \in 1..Len(Upgrades[Rev(n)])
           /\ Upgrades[Rev(n)][Up(n)].op = "create"
           /\ Upgrades[Rev(n)][Up(n)].object.name = n
<1>1. \/ Rev(n) = 1 /\ Down(n) \in 1..2
      \/ Rev(n) = 2 /\ Down(n) \in 1..10
      \/ Rev(n) = 3 /\ Down(n) \in 1..10
      \/ Rev(n) = 4 /\ Down(n) \in 1..7
  BY Places1, Places2, Places3, Places4 DEF Referred, Rev, Down
<1>2. Downgrades[Rev(n)][Down(n)].object.name = n
  BY Places1, Places2, Places3, Places4
     DEF Referred, Rev, Down, Downgrades, Downgrade001, Downgrade002,
         Downgrade003, Downgrade004, Drop, DropIfExists, Object
<1>3. Rev(n) \in Revisions /\ Down(n) \in 1..Len(Downgrades[Rev(n)])
  <2>1. Len(Downgrades[Rev(n)]) = CASE Rev(n) = 1 -> 2 [] Rev(n) = 4 -> 7
                                    [] OTHER -> 10
    BY <1>1, Lengths
  <2> QED
    BY <1>1, <2>1 DEF Revisions
<1>4. DowngradeStatement(Rev(n), Down(n))
  BY <1>3, Statements
<1> QED
  BY <1>2, <1>3, <1>4 DEF DowngradeStatement

LEMMA StampNames ==
    /\ \A v \in Revisions : Rev(Ids[v]) = 0
    /\ \A v, w \in Revisions : v # w => Ids[v] # Ids[w]
<1>1. Rev(Ids[1]) = 0 /\ Rev(Ids[2]) = 0 /\ Rev(Ids[3]) = 0 /\ Rev(Ids[4]) = 0
  BY DEF Ids, Rev, Place
<1>2. Rev(Ids[5]) = 0 /\ Rev(Ids[6]) = 0 /\ Rev(Ids[7]) = 0
  BY DEF Ids, Rev, Place
<1>3. \A v, w \in Revisions : v # w => Ids[v] # Ids[w]
  BY DEF Ids, Revisions
<1> QED
  BY <1>1, <1>2, <1>3 DEF Revisions

LEMMA InSchema ==
    ASSUME NEW v \in 0..LastRevision, NEW o
    PROVE  o \in Schema(v) <=>
              \E u \in 1..v : \E i \in 1..Len(Upgrades[u]) :
                 Upgrades[u][i].op = "create" /\ o = Upgrades[u][i].object
<1>1. \A u \in 1..v : DOMAIN Upgrades[u] = 1..Len(Upgrades[u])
  <2> TAKE u \in 1..v
  <2>1. u \in Revisions
    BY DEF Revisions
  <2> QED
    BY <2>1, Sequences
<1> QED
  BY <1>1 DEF Schema

LEMMA SchemaObject ==
    ASSUME NEW v \in 0..LastRevision, NEW o \in Schema(v)
    PROVE  /\ Rev(o.name) \in 1..v /\ Rev(o.name) \in Revisions
           /\ Up(o.name) \in 1..Len(Upgrades[Rev(o.name)])
           /\ Upgrades[Rev(o.name)][Up(o.name)].op = "create"
           /\ o = Upgrades[Rev(o.name)][Up(o.name)].object
           /\ Down(o.name) \in 1..Len(Downgrades[Rev(o.name)])
           /\ Downgrades[Rev(o.name)][Down(o.name)].object.name = o.name
           /\ \A n \in o.refs :
                 /\ n \in Referred /\ Rev(n) <= Rev(o.name)
                 /\ Rev(n) = Rev(o.name) =>
                       Up(n) < Up(o.name) /\ Down(n) > Down(o.name)
<1>1. PICK u \in 1..v : \E i \in 1..Len(Upgrades[u]) :
         Upgrades[u][i].op = "create" /\ o = Upgrades[u][i].object
  BY InSchema
<1> PICK i \in 1..Len(Upgrades[u]) :
         Upgrades[u][i].op = "create" /\ o = Upgrades[u][i].object
  BY <1>1
<1>2. u \in Revisions
  BY DEF Revisions
<1>3. UpgradeStatement(u, i)
  BY <1>2, Statements
<1> QED
  BY <1>2, <1>3 DEF UpgradeStatement

LEMMA SchemaByRevision ==
    ASSUME NEW v \in 0..LastRevision, NEW w \in 0..LastRevision,
           NEW o \in Schema(w)
    PROVE  o \in Schema(v) <=> Rev(o.name) <= v
<1>1. /\ Rev(o.name) \in Revisions
      /\ Up(o.name) \in 1..Len(Upgrades[Rev(o.name)])
      /\ Upgrades[Rev(o.name)][Up(o.name)].op = "create"
      /\ o = Upgrades[Rev(o.name)][Up(o.name)].object
  BY SchemaObject
<1>2. CASE Rev(o.name) <= v
  <2>1. Rev(o.name) \in 1..v
    BY <1>1, <1>2 DEF Revisions
  <2> QED
    BY <1>1, <1>2, <2>1, InSchema
<1>3. CASE ~(Rev(o.name) <= v)
  <2>1. o \in Schema(v) => Rev(o.name) \in 1..v
    BY SchemaObject
  <2> QED
    BY <1>3, <2>1
<1> QED
  BY <1>2, <1>3

LEMMA StampObject ==
    ASSUME NEW v \in Revisions
    PROVE  /\ Stamp(v).name = Ids[v] /\ Stamp(v).refs = {}
           /\ Stamp(v).kind = "revision"
BY DEF Stamp, Object

LEMMA InObjects ==
    ASSUME NEW o \in Objects
    PROVE  o \in Schema(LastRevision) \/ \E v \in Revisions : o = Stamp(v)
BY DEF Objects, Revisions

LEMMA UniqueNames ==
    ASSUME NEW o \in Objects, NEW p \in Objects, o.name = p.name
    PROVE  o = p
<1>1. LastRevision \in 0..LastRevision
  OBVIOUS
<1>2. CASE o \in Schema(LastRevision) /\ p \in Schema(LastRevision)
  BY <1>1, <1>2, SchemaObject
<1>3. ASSUME NEW x \in Schema(LastRevision), NEW v \in Revisions
      PROVE  x.name # Stamp(v).name
  <2>1. Rev(x.name) \in 1..LastRevision
    BY <1>1, SchemaObject
  <2>2. Rev(Stamp(v).name) = 0
    BY StampObject, StampNames
  <2> QED
    BY <2>1, <2>2
<1>4. ASSUME NEW v \in Revisions, NEW w \in Revisions, Stamp(v).name = Stamp(w).name
      PROVE  Stamp(v) = Stamp(w)
  BY <1>4, StampObject, StampNames
<1> QED
  BY <1>2, <1>3, <1>4, InObjects

-----------------------------------------------------------------------------
(* A command that runs by itself.                                          *)

\* The database at a revision.
Database(v) == Schema(v) \cup (IF v = 0 THEN {} ELSE {Stamp(v)})

\* What the first k statements of an upgrade have created.
Created(v, k) == {o \in Schema(v) : Rev(o.name) = v /\ Up(o.name) <= k}

\* What the first k statements of a downgrade have left.
Left(v, k) == {o \in Database(v) : Rev(o.name) # v \/ Down(o.name) > k}

\* What a command sees at statement k of the revision from a on its way to t.
Expected(a, t, k) ==
    IF a = t THEN Database(a)
    ELSE IF a < t
    THEN IF k <= Len(Upgrades[a + 1]) THEN Database(a) \cup Created(a + 1, k)
         ELSE Schema(a + 1)
    ELSE IF k <= Len(Downgrades[a]) THEN Left(a, k)
         ELSE Schema(a - 1)

\* What an accepted statement makes of what is visible.
Apply(C, s) ==
    IF s.op = "create" THEN C \cup {s.object} ELSE C \ Removed(C, s)

LEMMA InDatabase ==
    ASSUME NEW v \in 0..LastRevision, NEW o \in Database(v)
    PROVE  /\ o \in Schema(v) \/ (v \in Revisions /\ o = Stamp(v))
           /\ \A n \in o.refs : n \in Referred
           /\ Rev(o.name) \in 0..v
           /\ o \in Objects
<1>1. CASE o \in Schema(v)
  <2>1. o \in Schema(LastRevision)
    <3>1. Rev(o.name) <= LastRevision /\ LastRevision \in 0..LastRevision
      BY <1>1, SchemaObject
    <3> QED
      BY <1>1, <3>1, SchemaByRevision
  <2> QED
    BY <1>1, <2>1, SchemaObject DEF Objects
<1>2. CASE o \notin Schema(v)
  <2>1. v \in Revisions /\ o = Stamp(v)
    BY <1>2 DEF Database, Revisions
  <2> QED
    BY <2>1, StampObject, StampNames DEF Objects, Revisions
<1> QED
  BY <1>1, <1>2

UpgradeStep(v, a, k, s) ==
    /\ Accepted(Database(a) \cup Created(v, k), s)
    /\ Apply(Database(a) \cup Created(v, k), s)
          = Database(a) \cup Created(v, k + 1)

LEMMA UpgradeWorks ==
    ASSUME NEW v \in Revisions, NEW a \in 0..LastRevision, v = a + 1,
           NEW k \in 0..(Len(Upgrades[v]) - 1),
           NEW s, s = Upgrades[v][k + 1]
    PROVE  UpgradeStep(v, a, k, s)
<1> DEFINE C == Database(a) \cup Created(v, k)
           o == s.object
<1>1. /\ v \in Revisions /\ v \in 0..LastRevision
      /\ Len(Upgrades[v]) \in Nat /\ k + 1 \in 1..Len(Upgrades[v])
  <2>1. v \in Revisions /\ Len(Upgrades[v]) \in Nat
    BY Statements
  <2> QED
    BY <2>1 DEF Revisions
<1>2. UpgradeStatement(v, k + 1)
  BY <1>1, Statements
<1>3. \A x \in Schema(v) : Up(x.name) \in Nat
  <2> TAKE x \in Schema(v)
  <2>1. Up(x.name) \in 1..Len(Upgrades[Rev(x.name)])
    BY <1>1, SchemaObject
  <2> QED
    BY <2>1
<1>4. \A x \in C : /\ Rev(x.name) = v => Up(x.name) \in Nat /\ Up(x.name) <= k
                   /\ \A n \in x.refs : n \in Referred
  <2> TAKE x \in C
  <2>1. CASE x \in Database(a)
    <3>1. Rev(x.name) \in 0..a /\ \A n \in x.refs : n \in Referred
      BY <2>1, InDatabase
    <3>2. Rev(x.name) # v
      BY <3>1
    <3> QED
      BY <3>1, <3>2
  <2>2. CASE x \in Created(v, k)
    <3>1. x \in Schema(v) /\ Up(x.name) <= k
      BY <2>2 DEF Created
    <3> QED
      BY <1>1, <1>3, <3>1, SchemaObject
  <2> QED
    BY <2>1, <2>2
<1>5. \A x \in Schema(v) : Rev(x.name) = v /\ Up(x.name) = k + 1 =>
         s.op = "create" /\ x = o
  BY <1>1, SchemaObject
<1>6. CASE s.op = "create"
  <2>1. /\ Rev(o.name) = v /\ Up(o.name) = k + 1
        /\ \A n \in o.refs : /\ n \in Referred /\ Rev(n) <= v
                             /\ Rev(n) = v => Up(n) < k + 1
    BY <1>2, <1>6 DEF UpgradeStatement
  <2>2. o \in Schema(v)
    BY <1>1, <1>6, InSchema
  <2>3. Named(C, o.name) = {}
    BY <1>1, <1>4, <2>1 DEF Named
  <2>4. ASSUME NEW n \in o.refs PROVE Named(C, n) # {}
    <3> DEFINE p == Upgrades[Rev(n)][Up(n)].object
    <3>1. n \in Referred /\ Rev(n) <= v /\ (Rev(n) = v => Up(n) < k + 1)
      BY <2>1
    <3>2. /\ Rev(n) \in Revisions /\ Up(n) \in 1..Len(Upgrades[Rev(n)])
          /\ Upgrades[Rev(n)][Up(n)].op = "create" /\ p.name = n
      BY <3>1, ReferredExist
    <3>3. Rev(n) \in 1..v
      BY <3>1, <3>2 DEF Revisions
    <3>4. p \in Schema(v)
      BY <1>1, <3>2, <3>3, InSchema
    <3>5. CASE Rev(n) = v
      BY <1>3, <3>1, <3>2, <3>4, <3>5 DEF Created, Named
    <3>6. CASE Rev(n) # v
      <4>1. Rev(p.name) <= a
        BY <3>2, <3>3, <3>6
      <4>2. p \in Schema(a)
        BY <1>1, <3>4, <4>1, SchemaByRevision
      <4> QED
        BY <3>2, <4>2 DEF Database, Named
    <3> QED
      BY <3>5, <3>6
  <2>5. Accepted(C, s)
    BY <1>6, <2>3, <2>4 DEF Accepted
  <2>6. Created(v, k + 1) = Created(v, k) \cup {o}
    BY <1>3, <1>5, <2>1, <2>2 DEF Created
  <2> QED
    BY <1>6, <2>5, <2>6 DEF Apply, UpgradeStep
<1>7. CASE s.op = "drop"
  <2>1. /\ s.lenient /\ o.name \notin Referred
        /\ Rev(o.name) = v /\ Up(o.name) > k + 1
    BY <1>2, <1>7 DEF UpgradeStatement
  <2>2. Removed(C, s) = {} /\ Named(C, o.name) = {}
    BY <1>4, <2>1 DEF Removed, Named, GoesWith
  <2>3. Created(v, k + 1) = Created(v, k)
    BY <1>3, <1>5, <1>7 DEF Created
  <2> QED
    BY <1>7, <2>1, <2>2, <2>3 DEF Accepted, Apply, UpgradeStep
<1>8. s.op \in {"create", "drop"}
  BY <1>2 DEF UpgradeStatement
<1> QED
  BY <1>6, <1>7, <1>8

LEMMA DowngradeWorks ==
    ASSUME NEW a \in Revisions, NEW k \in 0..(Len(Downgrades[a]) - 1),
           NEW s, s = Downgrades[a][k + 1]
    PROVE  /\ Accepted(Left(a, k), s)
           /\ Apply(Left(a, k), s) = Left(a, k + 1)
<1> DEFINE n == s.object.name
           o == Upgrades[a][Up(n)].object
<1>1. /\ a \in 0..LastRevision /\ a # 0
      /\ Len(Downgrades[a]) \in Nat /\ k + 1 \in 1..Len(Downgrades[a])
  <2>1. Len(Downgrades[a]) \in Nat
    BY Statements
  <2> QED
    BY <2>1 DEF Revisions
<1>2. /\ s.op = "drop" /\ Rev(n) = a /\ Down(n) = k + 1
      /\ Up(n) \in 1..Len(Upgrades[a])
      /\ Upgrades[a][Up(n)].op = "create" /\ o.name = n
  BY <1>1, Statements DEF DowngradeStatement
<1>3. o \in Schema(a)
  <2>1. a \in 1..a
    BY <1>1 DEF Revisions
  <2> HIDE DEF n
  <2> QED
    BY <1>1, <1>2, <2>1, InSchema
<1>4. o \in Named(Left(a, k), n)
  BY <1>2, <1>3 DEF Named, Left, Database
<1>5. \A x \in Schema(a) : Down(x.name) \in Nat
  <2> TAKE x \in Schema(a)
  <2>1. Down(x.name) \in 1..Len(Downgrades[Rev(x.name)])
    BY <1>1, SchemaObject
  <2> QED
    BY <2>1
<1>6. \A d \in Left(a, k) : n \notin d.refs
  <2> SUFFICES ASSUME NEW d \in Left(a, k), n \in d.refs PROVE FALSE
    OBVIOUS
  <2>1. d \in Database(a) /\ (Rev(d.name) # a \/ Down(d.name) > k)
    BY DEF Left
  <2>2. d \in Schema(a)
    BY <1>1, <2>1, InDatabase, StampObject
  <2>3. /\ Rev(d.name) \in 1..a /\ Rev(n) <= Rev(d.name)
        /\ Rev(n) = Rev(d.name) => Down(n) > Down(d.name)
    BY <1>1, <2>2, SchemaObject
  <2>4. Rev(d.name) = a
    BY <1>1, <1>2, <2>3
  <2> QED
    BY <1>2, <1>5, <2>1, <2>2, <2>3, <2>4
<1>7. Accepted(Left(a, k), s)
  BY <1>2, <1>4, <1>6 DEF Accepted, Dependents, Named
<1>8. \A x \in Left(a, k) :
         x \in Removed(Left(a, k), s) <=> Rev(x.name) = a /\ Down(x.name) = k + 1
  <2> TAKE x \in Left(a, k)
  <2>1. x \in Removed(Left(a, k), s) <=> x.name = n
    BY <1>6 DEF Removed, GoesWith
  <2>2. Rev(x.name) = a /\ Down(x.name) = k + 1 => x.name = n
    <3> SUFFICES ASSUME Rev(x.name) = a, Down(x.name) = k + 1 PROVE x.name = n
      OBVIOUS
    <3>1. x \in Schema(a)
      BY <1>1, InDatabase, StampObject, StampNames DEF Left
    <3> QED
      BY <1>1, <3>1, SchemaObject
  <2> QED
    BY <1>2, <2>1, <2>2
<1>9. \A x \in Left(a, k) : Rev(x.name) = a => Down(x.name) \in Nat
  <2> SUFFICES ASSUME NEW x \in Left(a, k), Rev(x.name) = a
               PROVE  Down(x.name) \in Nat
    OBVIOUS
  <2>1. x \in Schema(a)
    BY <1>1, InDatabase, StampObject, StampNames DEF Left
  <2> QED
    BY <1>5, <2>1
<1>10. \A x : x \in Left(a, k + 1) <=>
          x \in Left(a, k) /\ ~(Rev(x.name) = a /\ Down(x.name) = k + 1)
  <2> TAKE x
  <2>1. CASE x \in Database(a) /\ Rev(x.name) = a
    <3>1. x \in Schema(a)
      BY <1>1, <2>1, InDatabase, StampObject, StampNames
    <3>2. Down(x.name) \in Nat
      BY <1>5, <3>1
    <3> QED
      BY <2>1, <3>2 DEF Left
  <2>2. CASE ~(x \in Database(a) /\ Rev(x.name) = a)
    BY <2>2 DEF Left
  <2> QED
    BY <2>1, <2>2
<1>11. Apply(Left(a, k), s) = Left(a, k + 1)
  BY <1>2, <1>8, <1>10 DEF Apply
<1> QED
  BY <1>7, <1>11

\* An upgrade has created what the next revision has and this one has not.
LEMMA AllCreated ==
    ASSUME NEW v \in Revisions, NEW a \in 0..LastRevision, v = a + 1
    PROVE  Schema(a) \cup Created(v, Len(Upgrades[v])) = Schema(v)
<1>1. v \in 0..LastRevision
  BY DEF Revisions
<1>2. ASSUME NEW o \in Schema(v)
      PROVE  o \in Schema(a) \cup Created(v, Len(Upgrades[v]))
  <2>1. /\ Rev(o.name) \in 1..v
        /\ Up(o.name) \in 1..Len(Upgrades[Rev(o.name)])
    BY <1>1, SchemaObject
  <2>2. CASE Rev(o.name) = v
    <3>1. Len(Upgrades[v]) \in Nat
      BY Statements
    <3> QED
      BY <2>1, <2>2, <3>1 DEF Created
  <2>3. CASE Rev(o.name) # v
    <3>1. Rev(o.name) <= a
      BY <2>1, <2>3
    <3> QED
      BY <1>1, <3>1, SchemaByRevision
  <2> QED
    BY <2>2, <2>3
<1>3. ASSUME NEW o \in Schema(a) PROVE o \in Schema(v)
  <2>1. Rev(o.name) \in 1..a
    BY SchemaObject
  <2>2. Rev(o.name) <= v
    BY <2>1
  <2> QED
    BY <1>1, <2>2, SchemaByRevision
<1> QED
  BY <1>2, <1>3 DEF Created

\* A downgrade leaves what the revision before has.
LEMMA AllDropped ==
    ASSUME NEW a \in Revisions
    PROVE  Left(a, Len(Downgrades[a])) = Schema(a - 1) \cup {Stamp(a)}
<1>1. a \in 0..LastRevision /\ a - 1 \in 0..LastRevision /\ a # 0
  BY DEF Revisions
<1>2. Rev(Stamp(a).name) = 0
  BY StampObject, StampNames
<1>3. ASSUME NEW o \in Schema(a)
      PROVE  o \in Left(a, Len(Downgrades[a])) <=> o \in Schema(a - 1)
  <2>1. /\ Rev(o.name) \in 1..a
        /\ Down(o.name) \in 1..Len(Downgrades[Rev(o.name)])
    BY <1>1, SchemaObject
  <2>2. o \in Schema(a - 1) <=> Rev(o.name) <= a - 1
    BY <1>1, SchemaByRevision
  <2>3. Len(Downgrades[a]) \in Nat
    BY Statements
  <2> QED
    BY <1>1, <2>1, <2>2, <2>3 DEF Left, Database
<1>4. ASSUME NEW o \in Schema(a - 1) PROVE o \in Schema(a)
  <2>1. Rev(o.name) \in 1..(a - 1)
    BY <1>1, SchemaObject
  <2>2. Rev(o.name) <= a
    BY <1>1, <2>1
  <2> QED
    BY <1>1, <2>2, SchemaByRevision
<1>5. Stamp(a) \in Left(a, Len(Downgrades[a]))
  BY <1>1, <1>2 DEF Left, Database
<1>6. Left(a, Len(Downgrades[a])) \subseteq Schema(a) \cup {Stamp(a)}
  BY <1>1 DEF Left, Database
<1> QED
  BY <1>3, <1>4, <1>5, <1>6

LEMMA DropStamp ==
    ASSUME NEW w \in 0..LastRevision, NEW a \in Revisions
    PROVE  LET C == Schema(w) \cup {Stamp(a)}
               s == Drop("revision", Ids[a])
           IN  Accepted(C, s) /\ Apply(C, s) = Schema(w)
<1> DEFINE C == Schema(w) \cup {Stamp(a)}
           s == Drop("revision", Ids[a])
<1>1. s.op = "drop" /\ s.object.name = Ids[a] /\ Rev(Ids[a]) = 0
  BY StampNames DEF Drop, Object
<1>2. \A o \in Schema(w) : o.name # Ids[a] /\ Ids[a] \notin o.refs
  <2> TAKE o \in Schema(w)
  <2>1. Rev(o.name) \in 1..w /\ \A n \in o.refs : n \in Referred
    BY SchemaObject
  <2>2. Ids[a] \notin Referred
    <3>1. \A n \in Referred : Rev(n) \in Revisions
      BY ReferredExist
    <3> QED
      BY <1>1, <3>1 DEF Revisions
  <2> QED
    BY <1>1, <2>1, <2>2
<1>3. Stamp(a).name = Ids[a] /\ Stamp(a).refs = {}
  BY StampObject
<1>4. Named(C, Ids[a]) = {Stamp(a)}
  BY <1>2, <1>3 DEF Named
<1>5. Dependents(C, Stamp(a)) = {}
  BY <1>2, <1>3 DEF Dependents
<1>6. Removed(C, s) = {Stamp(a)}
  BY <1>1, <1>2, <1>3 DEF Removed, GoesWith
<1>7. Stamp(a) \notin Schema(w)
  BY <1>2, <1>3
<1>8. Accepted(C, s)
  BY <1>1, <1>4, <1>5 DEF Accepted
<1>9. Apply(C, s) = Schema(w)
  BY <1>1, <1>6, <1>7 DEF Apply
<1> QED
  BY <1>8, <1>9

LEMMA CreateStamp ==
    ASSUME NEW w \in Revisions
    PROVE  /\ Accepted(Schema(w), Create(Stamp(w)))
           /\ Apply(Schema(w), Create(Stamp(w))) = Database(w)
<1>1. w \in 0..LastRevision /\ w # 0
  BY DEF Revisions
<1>2. Named(Schema(w), Ids[w]) = {}
  <2>1. \A o \in Schema(w) : Rev(o.name) \in 1..w
    BY <1>1, SchemaObject
  <2>2. Rev(Ids[w]) = 0
    BY StampNames
  <2> QED
    BY <2>1, <2>2 DEF Named
<1>3. /\ Create(Stamp(w)).op = "create" /\ Create(Stamp(w)).object = Stamp(w)
      /\ Stamp(w).name = Ids[w] /\ Stamp(w).refs = {}
  BY StampObject DEF Create
<1> QED
  BY <1>1, <1>2, <1>3 DEF Accepted, Apply, Database

\* The first upgrade has nothing to take the row of alembic_version from.
LEMMA NothingAtZero == Schema(0) = {} /\ Database(0) = {}
<1>1. Schema(0) = {}
  <2>1. \A o : o \notin Schema(0)
    BY InSchema
  <2> QED
    BY <2>1
<1> QED
  BY <1>1 DEF Database

LEMMA AppendOne ==
    ASSUME NEW S, NEW s \in Seq(S), NEW x, NEW r, r = s \o <<x>>
    PROVE  /\ Len(r) = Len(s) + 1
           /\ \A i \in 1..Len(s) : r[i] = s[i]
           /\ r[Len(s) + 1] = x
OBVIOUS

LEMMA AppendTwo ==
    ASSUME NEW S, NEW s \in Seq(S), NEW x, NEW y, NEW r, r = s \o <<x, y>>
    PROVE  /\ Len(r) = Len(s) + 2
           /\ \A i \in 1..Len(s) : r[i] = s[i]
           /\ r[Len(s) + 1] = x
           /\ r[Len(s) + 2] = y
OBVIOUS

LEMMA Pair ==
    ASSUME NEW x, NEW y
    PROVE  <<x>> \o <<y>> = <<x, y>>
<1>1. <<x>> \in Seq({x, y}) /\ <<y>> \in Seq({x, y})
  OBVIOUS
<1> DEFINE r == <<x>> \o <<y>>
<1>2. r \in Seq({x, y}) /\ Len(r) = 2 /\ r[1] = x /\ r[2] = y
  BY <1>1
<1> HIDE DEF r
<1>3. r = <<x, y>>
  BY <1>2
<1> QED
  BY <1>3 DEF r

LEMMA Single ==
    ASSUME NEW x
    PROVE  <<>> \o <<x>> = <<x>> /\ <<x>> \o <<>> = <<x>>
OBVIOUS

\* The script from a to the next revision v, l statements and the row.
IsUpScript(v, a, t, l) ==
    /\ l \in Nat /\ Len(Script(a, t)) = l + (IF a = 0 THEN 1 ELSE 2)
    /\ \A i \in 1..l : Script(a, t)[i] = Upgrades[v][i]
    /\ a = 0 => Script(a, t)[l + 1] = Create(Stamp(v))
    /\ a # 0 => /\ Script(a, t)[l + 1] = Drop("revision", Ids[a])
                /\ Script(a, t)[l + 2] = Create(Stamp(v))

\* The one from a back to w.
IsDownScript(a, w, t, l) ==
    /\ l \in Nat /\ Len(Script(a, t)) = l + (IF w = 0 THEN 1 ELSE 2)
    /\ \A i \in 1..l : Script(a, t)[i] = Downgrades[a][i]
    /\ Script(a, t)[l + 1] = Drop("revision", Ids[a])
    /\ w # 0 => Script(a, t)[l + 2] = Create(Stamp(w))

LEMMA UpScript ==
    ASSUME NEW v \in Revisions, NEW a \in 0..LastRevision, v = a + 1,
           NEW t \in 0..LastRevision, a < t
    PROVE  IsUpScript(v, a, t, Len(Upgrades[v]))
<1> DEFINE U == Upgrades[v]
           s == Script(a, t)
           x == Drop("revision", Ids[a])
           y == Create(Stamp(v))
<1>1. v # 0
  BY DEF Revisions
<1>2. U \in Seq(Elements(U)) /\ Len(U) \in Nat
  BY Sequences, Statements
<1>3. s = U \o Restamp(a, v)
  BY Zenon DEF Script
<1>4. CASE a = 0
  <2>1. Restamp(a, v) = <<>> \o <<y>>
    BY <1>1, <1>4, Zenon DEF Restamp
  <2> HIDE DEF U, s, y
  <2>2. s = U \o <<y>>
    BY <1>3, <2>1, Single, Zenon
  <2>3. /\ Len(s) = Len(U) + 1
        /\ \A i \in 1..Len(U) : s[i] = U[i]
        /\ s[Len(U) + 1] = y
    BY <1>2, <2>2, AppendOne
  <2> QED
    BY <1>2, <1>4, <2>3 DEF U, s, y, IsUpScript
<1>5. CASE a # 0
  <2>1. Restamp(a, v) = <<x>> \o <<y>>
    BY <1>1, <1>5, Zenon DEF Restamp
  <2> HIDE DEF U, s, x, y
  <2>2. s = U \o <<x, y>>
    BY <1>3, <2>1, Pair, Zenon
  <2>3. /\ Len(s) = Len(U) + 2
        /\ \A i \in 1..Len(U) : s[i] = U[i]
        /\ s[Len(U) + 1] = x /\ s[Len(U) + 2] = y
    BY <1>2, <2>2, AppendTwo
  <2> QED
    BY <1>2, <1>5, <2>3 DEF U, s, x, y, IsUpScript
<1> QED
  BY <1>4, <1>5

LEMMA DownScript ==
    ASSUME NEW a \in Revisions, NEW t \in 0..LastRevision, a > t,
           NEW w \in 0..LastRevision, w = a - 1
    PROVE  IsDownScript(a, w, t, Len(Downgrades[a]))
<1> DEFINE D == Downgrades[a]
           s == Script(a, t)
           x == Drop("revision", Ids[a])
           y == Create(Stamp(w))
<1>1. ~(a < t) /\ a # 0
  BY DEF Revisions
<1>2. D \in Seq(Elements(D)) /\ Len(D) \in Nat
  BY Sequences, Statements
<1>3. s = D \o Restamp(a, w)
  BY <1>1, Zenon DEF Script
<1>4. CASE w = 0
  <2>1. Restamp(a, w) = <<x>> \o <<>>
    BY <1>1, <1>4, Zenon DEF Restamp
  <2> HIDE DEF D, s, x
  <2>2. s = D \o <<x>>
    BY <1>3, <2>1, Single, Zenon
  <2>3. /\ Len(s) = Len(D) + 1
        /\ \A i \in 1..Len(D) : s[i] = D[i]
        /\ s[Len(D) + 1] = x
    BY <1>2, <2>2, AppendOne
  <2> QED
    BY <1>2, <1>4, <2>3 DEF D, s, x, IsDownScript
<1>5. CASE w # 0
  <2>1. Restamp(a, w) = <<x>> \o <<y>>
    BY <1>1, <1>5, Zenon DEF Restamp
  <2> HIDE DEF D, s, x, y
  <2>2. s = D \o <<x, y>>
    BY <1>3, <2>1, Pair, Zenon
  <2>3. /\ Len(s) = Len(D) + 2
        /\ \A i \in 1..Len(D) : s[i] = D[i]
        /\ s[Len(D) + 1] = x /\ s[Len(D) + 2] = y
    BY <1>2, <2>2, AppendTwo
  <2> QED
    BY <1>2, <1>5, <2>3 DEF D, s, x, y, IsDownScript
<1> QED
  BY <1>4, <1>5

LEMMA ExpectedAtStart ==
    ASSUME NEW a \in 0..LastRevision, NEW t \in 0..LastRevision
    PROVE  Expected(a, t, 0) = Database(a)
<1>1. CASE a < t
  <2>1. a + 1 \in Revisions /\ a + 1 \in 0..LastRevision
    BY <1>1 DEF Revisions
  <2>2. ASSUME NEW o \in Schema(a + 1) PROVE Up(o.name) \in Nat /\ Up(o.name) > 0
    <3>1. Up(o.name) \in 1..Len(Upgrades[Rev(o.name)])
      BY <2>1, SchemaObject
    <3> QED
      BY <3>1
  <2>3. Created(a + 1, 0) = {}
    BY <2>2 DEF Created
  <2>4. 0 <= Len(Upgrades[a + 1])
    BY <2>1, Statements
  <2> QED
    BY <1>1, <2>3, <2>4 DEF Expected
<1>2. CASE a > t
  <2>1. a \in Revisions /\ a # 0
    BY <1>2 DEF Revisions
  <2>2. ASSUME NEW o \in Database(a) PROVE Rev(o.name) # a \/ Down(o.name) > 0
    <3>1. CASE o \in Schema(a)
      <4>1. Down(o.name) \in 1..Len(Downgrades[Rev(o.name)])
        BY <3>1, SchemaObject
      <4> QED
        BY <4>1
    <3>2. CASE o \notin Schema(a)
      <4>1. Rev(o.name) = 0
        BY <2>1, <3>2, InDatabase, StampObject, StampNames
      <4> QED
        BY <2>1, <4>1
    <3> QED
      BY <3>1, <3>2
  <2>3. Left(a, 0) = Database(a)
    BY <2>2 DEF Left
  <2>4. 0 <= Len(Downgrades[a])
    BY <2>1, Statements
  <2> QED
    BY <1>2, <2>3, <2>4 DEF Expected
<1>3. CASE a = t
  BY <1>3 DEF Expected
<1> QED
  BY <1>1, <1>2, <1>3

\* What a command sees during an upgrade, during a downgrade.
LEMMA ExpectedUp ==
    ASSUME NEW v \in Revisions, NEW a \in 0..LastRevision, v = a + 1,
           NEW t \in 0..LastRevision, a < t, NEW k
    PROVE  /\ Expected(a, t, k) = IF k <= Len(Upgrades[v])
                                  THEN Database(a) \cup Created(v, k)
                                  ELSE Schema(v)
           /\ Toward(a, t) = v
BY DEF Expected, Toward

LEMMA ExpectedDown ==
    ASSUME NEW a \in Revisions, NEW t \in 0..LastRevision, a > t,
           NEW w \in 0..LastRevision, w = a - 1, NEW k
    PROVE  /\ Expected(a, t, k) = IF k <= Len(Downgrades[a]) THEN Left(a, k)
                                  ELSE Schema(w)
           /\ Toward(a, t) = w
<1>1. a # t /\ ~(a < t)
  BY DEF Revisions
<1> QED
  BY <1>1 DEF Expected, Toward

\* No statement of a command that runs by itself is refused, and each brings
\* about what is expected after it.
Works(a, t, k, s, n) ==
    /\ Accepted(Expected(a, t, k), s)
    /\ k + 1 < n => Apply(Expected(a, t, k), s) = Expected(a, t, k + 1)
    /\ k + 1 >= n => Apply(Expected(a, t, k), s) = Database(Toward(a, t))

LEMMA UpWorks ==
    ASSUME NEW v \in Revisions, NEW a \in 0..LastRevision, v = a + 1,
           NEW t \in 0..LastRevision, a < t,
           NEW n, n = Len(Script(a, t)), NEW k \in Nat, k < n,
           NEW s, s = Script(a, t)[k + 1]
    PROVE  Works(a, t, k, s, n)
<1> DEFINE U == Upgrades[v]
           l == Len(U)
<1>0. IsUpScript(v, a, t, l)
  BY UpScript
<1>1. /\ l \in Nat /\ n = l + (IF a = 0 THEN 1 ELSE 2)
      /\ \A i \in 1..l : Script(a, t)[i] = U[i]
      /\ a = 0 => Script(a, t)[l + 1] = Create(Stamp(v))
      /\ a # 0 => /\ Script(a, t)[l + 1] = Drop("revision", Ids[a])
                  /\ Script(a, t)[l + 2] = Create(Stamp(v))
  BY <1>0 DEF IsUpScript
<1>2. \A i : Expected(a, t, i) =
                IF i <= l THEN Database(a) \cup Created(v, i) ELSE Schema(v)
  BY ExpectedUp
<1>3. Toward(a, t) = v
  BY ExpectedUp
<1>4. Schema(a) \cup Created(v, l) = Schema(v)
  BY AllCreated
<1>5. CASE k < l
  <2>1. k \in 0..(l - 1) /\ k + 1 \in 1..l
    BY <1>1, <1>5
  <2>2. s = U[k + 1]
    BY <1>1, <2>1
  <2>3. UpgradeStep(v, a, k, s)
    BY <2>1, <2>2, UpgradeWorks
  <2> HIDE DEF U, l
  <2>4. k <= l /\ k + 1 <= l /\ k + 1 < n
    BY <1>1, <1>5
  <2>5. /\ Expected(a, t, k) = Database(a) \cup Created(v, k)
        /\ Expected(a, t, k + 1) = Database(a) \cup Created(v, k + 1)
    BY <1>2, <2>4
  <2>6. /\ Accepted(Expected(a, t, k), s)
        /\ Apply(Expected(a, t, k), s) = Expected(a, t, k + 1)
    BY <2>3, <2>5, Zenon DEF UpgradeStep
  <2> QED
    BY <1>1, <2>4, <2>6 DEF Works
<1> HIDE DEF U, l
<1>6. CASE k = l /\ a = 0
  <2>1. Expected(a, t, k) = Schema(v)
    BY <1>1, <1>2, <1>4, <1>6, NothingAtZero
  <2>2. s = Create(Stamp(v)) /\ k + 1 = n
    BY <1>1, <1>6
  <2> QED
    BY <1>1, <1>3, <2>1, <2>2, CreateStamp DEF Works
<1>7. CASE k = l /\ a # 0
  <2>1. Expected(a, t, k) = Schema(v) \cup {Stamp(a)}
    BY <1>1, <1>2, <1>4, <1>7 DEF Database
  <2>2. s = Drop("revision", Ids[a]) /\ k + 1 < n /\ ~(k + 1 <= l)
    BY <1>1, <1>7
  <2>3. Expected(a, t, k + 1) = Schema(v)
    BY <1>2, <2>2
  <2>4. a \in Revisions /\ v \in 0..LastRevision
    BY <1>7 DEF Revisions
  <2>5. Accepted(Expected(a, t, k), s) /\ Apply(Expected(a, t, k), s) = Schema(v)
    BY <2>1, <2>2, <2>4, DropStamp
  <2> QED
    BY <1>1, <2>2, <2>3, <2>5 DEF Works
<1>8. CASE k = l + 1 /\ a # 0
  <2>1. Expected(a, t, k) = Schema(v)
    BY <1>1, <1>2, <1>8
  <2>2. s = Create(Stamp(v)) /\ k + 1 = n
    BY <1>1, <1>8
  <2> QED
    BY <1>1, <1>3, <2>1, <2>2, CreateStamp DEF Works
<1> QED
  BY <1>1, <1>5, <1>6, <1>7, <1>8

LEMMA DownWorks ==
    ASSUME NEW a \in Revisions, NEW t \in 0..LastRevision, a > t,
           NEW w \in 0..LastRevision, w = a - 1,
           NEW n, n = Len(Script(a, t)), NEW k \in Nat, k < n,
           NEW s, s = Script(a, t)[k + 1]
    PROVE  Works(a, t, k, s, n)
<1> DEFINE D == Downgrades[a]
           l == Len(D)
<1>0. IsDownScript(a, w, t, l)
  BY DownScript
<1>1. /\ l \in Nat /\ n = l + (IF w = 0 THEN 1 ELSE 2)
      /\ \A i \in 1..l : Script(a, t)[i] = D[i]
      /\ Script(a, t)[l + 1] = Drop("revision", Ids[a])
      /\ w # 0 => Script(a, t)[l + 2] = Create(Stamp(w))
  BY <1>0 DEF IsDownScript
<1>2. \A i : Expected(a, t, i) = IF i <= l THEN Left(a, i) ELSE Schema(w)
  BY ExpectedDown
<1>3. Toward(a, t) = w
  BY ExpectedDown
<1>4. Left(a, l) = Schema(w) \cup {Stamp(a)}
  BY AllDropped
<1>5. CASE k < l
  <2>1. k \in 0..(l - 1) /\ k + 1 \in 1..l
    BY <1>1, <1>5
  <2>2. s = D[k + 1]
    BY <1>1, <2>1
  <2>3. Accepted(Left(a, k), s) /\ Apply(Left(a, k), s) = Left(a, k + 1)
    BY <2>1, <2>2, DowngradeWorks
  <2> HIDE DEF D, l
  <2>4. k <= l /\ k + 1 <= l /\ k + 1 < n
    BY <1>1, <1>5
  <2>5. Expected(a, t, k) = Left(a, k) /\ Expected(a, t, k + 1) = Left(a, k + 1)
    BY <1>2, <2>4
  <2> QED
    BY <1>1, <2>3, <2>4, <2>5 DEF Works
<1> HIDE DEF D, l
<1>6. CASE k = l
  <2>1. Expected(a, t, k) = Schema(w) \cup {Stamp(a)}
    BY <1>1, <1>2, <1>4, <1>6
  <2>2. s = Drop("revision", Ids[a])
    BY <1>1, <1>6
  <2>3. Accepted(Expected(a, t, k), s) /\ Apply(Expected(a, t, k), s) = Schema(w)
    BY <2>1, <2>2, DropStamp
  <2>4. CASE w = 0
    <3>1. Schema(w) = Database(Toward(a, t)) /\ k + 1 = n
      BY <1>1, <1>3, <1>6, <2>4, NothingAtZero
    <3> QED
      BY <1>1, <2>3, <3>1 DEF Works
  <2>5. CASE w # 0
    <3>1. ~(k + 1 <= l) /\ k + 1 < n
      BY <1>1, <1>6, <2>5
    <3>2. Expected(a, t, k + 1) = Schema(w)
      BY <1>2, <3>1
    <3> QED
      BY <1>1, <2>3, <3>1, <3>2 DEF Works
  <2> QED
    BY <2>4, <2>5
<1>7. CASE k = l + 1 /\ w # 0
  <2>1. Expected(a, t, k) = Schema(w)
    BY <1>1, <1>2, <1>7
  <2>2. s = Create(Stamp(w)) /\ k + 1 = n
    BY <1>1, <1>7
  <2>3. w \in Revisions
    BY <1>7 DEF Revisions
  <2> QED
    BY <1>1, <1>3, <2>1, <2>2, <2>3, CreateStamp DEF Works
<1> QED
  BY <1>1, <1>5, <1>6, <1>7

LEMMA StatementWorks ==
    ASSUME NEW a \in 0..LastRevision, NEW t \in 0..LastRevision, a # t,
           NEW n, n = Len(Script(a, t)), NEW k \in Nat, k < n,
           NEW s, s = Script(a, t)[k + 1]
    PROVE  Works(a, t, k, s, n)
<1>1. CASE a < t
  <2>1. PICK v \in Revisions : v = a + 1
    BY <1>1 DEF Revisions
  <2> QED
    BY <1>1, <2>1, UpWorks
<1>2. CASE a > t
  <2>1. PICK w \in 0..LastRevision : w = a - 1
    BY <1>2
  <2>2. a \in Revisions
    BY <1>2 DEF Revisions
  <2> QED
    BY <1>2, <2>1, <2>2, DownWorks
<1> QED
  BY <1>1, <1>2

-----------------------------------------------------------------------------
(* One statement of one command, in the database C, with what the command  *)
(* has created (M), the names it has dropped (D) and those it has touched  *)
(* (T).                                                                    *)

Seen(C, M, D) == {o \in C : o.name \notin D} \cup M

NewMade(M, V, s) == IF s.op = "create" THEN M \cup {s.object} ELSE M \ Removed(V, s)

NewDropped(D, V, s) ==
    IF s.op = "create" THEN D ELSE D \cup {o.name : o \in Removed(V, s)}

Touched(V, s) ==
    {s.object.name} \cup s.object.refs
      \cup UNION {o.refs : o \in Named(V, s.object.name)}

LEMMA ApplySeen ==
    ASSUME NEW C, NEW M, NEW D, NEW s, C \subseteq Objects, M \subseteq Objects
    PROVE  Seen(C, NewMade(M, Seen(C, M, D), s), NewDropped(D, Seen(C, M, D), s))
              = Apply(Seen(C, M, D), s)
<1> DEFINE V == Seen(C, M, D)
           R == Removed(V, s)
<1>1. CASE s.op = "create"
  BY <1>1 DEF Seen, NewMade, NewDropped, Apply
<1>2. CASE s.op # "create"
  <2>1. V \subseteq Objects /\ R \subseteq V
    BY DEF Seen, Removed
  <2>2. \A o \in V : o \in R <=> o.name \in {p.name : p \in R}
    BY <2>1, UniqueNames
  <2>3. Seen(C, NewMade(M, V, s), NewDropped(D, V, s))
           = {o \in C : o.name \notin D \cup {p.name : p \in R}} \cup (M \ R)
    BY <1>2 DEF Seen, NewMade, NewDropped
  <2>4. Apply(V, s) = V \ R
    BY <1>2 DEF Apply
  <2> HIDE DEF R
  <2> QED
    BY <2>1, <2>2, <2>3, <2>4 DEF Seen
<1> QED
  BY <1>1, <1>2

\* What k statements of the upgrade to v have done, wherever they were accepted.
UpSoFar(v, k, M, D) ==
    /\ k <= Len(Upgrades[v])
    /\ M = Created(v, k)
    /\ \A n \in D : Rev(n) = v /\ n \notin Referred

\* What the first k statements of the downgrade from v take away.
Gone(v, k) ==
    {o \in Objects : \E i \in 1..k :
        \/ o.name = Downgrades[v][i].object.name
        \/ GoesWith(o, Downgrades[v][i].object.name)}

\* What they have done in the database C.
DownSoFar(v, k, C, M, D, T) ==
    /\ k <= Len(Downgrades[v])
    /\ M = {}
    /\ \A n \in D : \E o \in Gone(v, k) : n = o.name
    /\ \A o \in C \cap Gone(v, k) : o.name \in D
    /\ \A i \in 1..k : Downgrades[v][i].object.name \in T

LEMMA SeenUp ==
    ASSUME NEW v \in Revisions, NEW a \in 0..LastRevision, v = a + 1,
           NEW t \in 0..LastRevision, a < t,
           NEW k \in Nat, NEW M, NEW D, UpSoFar(v, k, M, D)
    PROVE  Seen(Database(a), M, D) = Expected(a, t, k)
<1>1. \A o \in Database(a) : o.name \notin D
  <2> TAKE o \in Database(a)
  <2>1. Rev(o.name) \in 0..a
    BY InDatabase
  <2>2. Rev(o.name) # v
    BY <2>1
  <2> QED
    BY <2>2 DEF UpSoFar
<1>2. Expected(a, t, k) = Database(a) \cup Created(v, k)
  BY ExpectedUp DEF UpSoFar
<1> QED
  BY <1>1, <1>2 DEF Seen, UpSoFar

LEMMA GoneFromDatabase ==
    ASSUME NEW a \in Revisions, NEW k \in Nat, k <= Len(Downgrades[a]),
           NEW o \in Database(a)
    PROVE  o \in Gone(a, k) <=> Rev(o.name) = a /\ Down(o.name) <= k
<1>1. /\ a \in 0..LastRevision /\ a # 0 /\ Len(Downgrades[a]) \in Nat
      /\ \A i \in 1..k : i \in 1..Len(Downgrades[a])
  <2>1. Len(Downgrades[a]) \in Nat
    BY Statements
  <2> QED
    BY <2>1 DEF Revisions
<1>2. o \in Objects
  BY <1>1, InDatabase
<1>3. ASSUME NEW i \in 1..k
      PROVE  LET n == Downgrades[a][i].object.name
             IN  Rev(n) = a /\ Down(n) = i
  BY <1>1, <1>3, Statements DEF DowngradeStatement
<1>4. CASE o \in Schema(a)
  <2>1. /\ Rev(o.name) \in 1..a
        /\ Down(o.name) \in 1..Len(Downgrades[Rev(o.name)])
        /\ Downgrades[Rev(o.name)][Down(o.name)].object.name = o.name
        /\ \A n \in o.refs : /\ Rev(n) <= Rev(o.name)
                             /\ Rev(n) = Rev(o.name) => Down(n) > Down(o.name)
    BY <1>1, <1>4, SchemaObject
  <2>2. ASSUME NEW i \in 1..k, o.name = Downgrades[a][i].object.name
        PROVE  Rev(o.name) = a /\ Down(o.name) <= k
    BY <1>3, <2>2
  <2>3. ASSUME NEW i \in 1..k, Downgrades[a][i].object.name \in o.refs
        PROVE  Rev(o.name) = a /\ Down(o.name) <= k
    <3> DEFINE n == Downgrades[a][i].object.name
    <3>1. Rev(n) = a /\ Down(n) = i
      BY <1>3
    <3> HIDE DEF n
    <3>2. Rev(n) <= Rev(o.name) /\ (Rev(n) = Rev(o.name) => Down(n) > Down(o.name))
      BY <2>1, <2>3 DEF n
    <3>3. Rev(o.name) = a
      BY <1>1, <2>1, <3>1, <3>2
    <3> QED
      BY <2>1, <3>1, <3>2, <3>3
  <2>4. ASSUME Rev(o.name) = a, Down(o.name) <= k
        PROVE  \E i \in 1..k : o.name = Downgrades[a][i].object.name
    <3>1. Down(o.name) \in 1..k
      BY <2>1, <2>4
    <3> QED
      BY <2>1, <2>4, <3>1
  <2> QED
    BY <1>2, <2>2, <2>3, <2>4 DEF Gone, GoesWith
<1>5. CASE o \notin Schema(a)
  <2>1. Rev(o.name) = 0 /\ o.refs = {}
    BY <1>1, <1>5, InDatabase, StampObject, StampNames
  <2> QED
    BY <1>1, <1>3, <2>1 DEF Gone, GoesWith
<1> QED
  BY <1>4, <1>5

LEMMA SeenDown ==
    ASSUME NEW a \in Revisions, NEW t \in 0..LastRevision, a > t,
           NEW k \in Nat, NEW M, NEW D, NEW T,
           DownSoFar(a, k, Database(a), M, D, T)
    PROVE  Seen(Database(a), M, D) = Expected(a, t, k)
<1>1. a \in 0..LastRevision
  BY DEF Revisions
<1>2. ASSUME NEW o \in Database(a)
      PROVE  o.name \in D <=> Rev(o.name) = a /\ Down(o.name) <= k
  <2>1. o \in Objects
    BY <1>1, InDatabase
  <2>2. o.name \in D => o \in Gone(a, k)
    BY <2>1, UniqueNames DEF DownSoFar, Gone
  <2>3. o \in Gone(a, k) => o.name \in D
    BY DEF DownSoFar
  <2> QED
    BY <2>2, <2>3, GoneFromDatabase DEF DownSoFar
<1>3. ASSUME NEW o \in Database(a), Rev(o.name) = a
      PROVE  Down(o.name) \in Nat
  <2>1. o \in Schema(a)
    BY <1>1, <1>3, InDatabase, StampObject, StampNames DEF Revisions
  <2>2. Down(o.name) \in 1..Len(Downgrades[Rev(o.name)])
    BY <1>1, <2>1, SchemaObject
  <2> QED
    BY <2>2
<1>4. Expected(a, t, k) = Left(a, k)
  <2>1. PICK w \in 0..LastRevision : w = a - 1
    BY DEF Revisions
  <2> QED
    BY <2>1, ExpectedDown DEF DownSoFar
<1> QED
  BY <1>2, <1>3, <1>4 DEF Seen, DownSoFar, Left

\* No name but those of the revisions stands for a row of alembic_version.
RevisionIds == {Ids[v] : v \in Revisions}

LEMMA OtherNames ==
    /\ \A n \in RevisionIds : Rev(n) = 0
    /\ RevisionIds \cap Referred = {}
    /\ \A o \in Objects : o.refs \subseteq Referred
<1>1. \A n \in RevisionIds : Rev(n) = 0
  BY StampNames DEF RevisionIds
<1>2. \A n \in Referred : Rev(n) # 0
  BY ReferredExist DEF Revisions
<1>3. ASSUME NEW o \in Objects PROVE o.refs \subseteq Referred
  <2>1. CASE o \in Schema(LastRevision)
    <3>1. LastRevision \in 0..LastRevision
      OBVIOUS
    <3> QED
      BY <2>1, <3>1, SchemaObject
  <2>2. CASE \E v \in Revisions : o = Stamp(v)
    BY <2>2, StampObject
  <2> QED
    BY <2>1, <2>2, InObjects
<1> QED
  BY <1>1, <1>2, <1>3

LEMMA StepUp ==
    ASSUME NEW v \in Revisions, NEW k \in Nat, NEW s,
           k + 1 \in 1..Len(Upgrades[v]), s = Upgrades[v][k + 1],
           NEW M, NEW D, UpSoFar(v, k, M, D),
           NEW C, C \subseteq Objects, NEW V, V = Seen(C, M, D)
    PROVE  /\ UpSoFar(v, k + 1, NewMade(M, V, s), NewDropped(D, V, s))
           /\ NewMade(M, V, s) \subseteq Objects
           /\ Touched(V, s) \cap RevisionIds = {}
<1>1. v \in 0..LastRevision /\ LastRevision \in 0..LastRevision /\ v # 0
  BY DEF Revisions
<1>2. UpgradeStatement(v, k + 1)
  BY Statements
<1>3. Schema(v) \subseteq Objects
  <2> SUFFICES ASSUME NEW o \in Schema(v) PROVE o \in Objects
    OBVIOUS
  <2>1. o \in Database(v)
    BY DEF Database
  <2> QED
    BY <1>1, <2>1, InDatabase
<1>4. M \subseteq Schema(v) /\ V \subseteq Objects
  BY <1>3 DEF UpSoFar, Created, Seen
<1>5. ASSUME NEW o \in Schema(v), Rev(o.name) = v
      PROVE  /\ Up(o.name) \in Nat
             /\ Up(o.name) = k + 1 => s.op = "create" /\ o = s.object
  <2>1. /\ Up(o.name) \in 1..Len(Upgrades[Rev(o.name)])
        /\ Upgrades[Rev(o.name)][Up(o.name)].op = "create"
        /\ o = Upgrades[Rev(o.name)][Up(o.name)].object
    BY <1>1, SchemaObject
  <2> QED
    BY <1>5, <2>1
<1>6. Rev(s.object.name) = v /\ s.object.refs \subseteq Referred
  <2>1. CASE s.op = "create"
    BY <1>2, <2>1 DEF UpgradeStatement
  <2>2. CASE s.op # "create"
    <3>1. s.op = "drop"
      BY <1>2, <2>2 DEF UpgradeStatement
    <3> QED
      BY <1>2, <3>1 DEF UpgradeStatement
  <2> QED
    BY <2>1, <2>2
<1>7. Touched(V, s) \cap RevisionIds = {}
  BY <1>1, <1>4, <1>6, OtherNames DEF Touched, Named
<1>8. CASE s.op = "create"
  <2>1. Up(s.object.name) = k + 1
    BY <1>2, <1>8 DEF UpgradeStatement
  <2>2. s.object \in Schema(v)
    <3>1. v \in 1..v
      BY DEF Revisions
    <3> QED
      BY <1>1, <1>8, <3>1, InSchema
  <2>3. Created(v, k + 1) = Created(v, k) \cup {s.object}
    BY <1>5, <1>6, <2>1, <2>2 DEF Created
  <2>4. k + 1 <= Len(Upgrades[v])
    BY Statements
  <2> QED
    BY <1>3, <1>4, <1>7, <1>8, <2>2, <2>3, <2>4 DEF UpSoFar, NewMade, NewDropped
<1>9. CASE s.op = "drop"
  <2>1. s.object.name \notin Referred /\ Up(s.object.name) > k + 1
    BY <1>2, <1>9 DEF UpgradeStatement
  <2>2. \A o \in Removed(V, s) : o.name = s.object.name
    BY <1>4, <2>1, OtherNames DEF Removed, GoesWith
  <2>3. Created(v, k + 1) = Created(v, k)
    BY <1>5, <1>9 DEF Created
  <2>4. \A o \in M : o.name # s.object.name
    <3> TAKE o \in M
    <3>1. o \in Schema(v) /\ Rev(o.name) = v /\ Up(o.name) <= k
      BY DEF UpSoFar, Created
    <3>2. Up(o.name) \in Nat
      BY <1>5, <3>1
    <3> QED
      BY <2>1, <3>1, <3>2
  <2>5. NewMade(M, V, s) = M
    BY <1>9, <2>2, <2>4 DEF NewMade
  <2>6. \A n \in NewDropped(D, V, s) : Rev(n) = v /\ n \notin Referred
    BY <1>6, <1>9, <2>1, <2>2 DEF NewDropped, UpSoFar
  <2>7. k + 1 <= Len(Upgrades[v])
    BY Statements
  <2> QED
    BY <1>3, <1>4, <1>7, <2>3, <2>5, <2>6, <2>7 DEF UpSoFar
<1> QED
  BY <1>2, <1>8, <1>9 DEF UpgradeStatement

LEMMA StepDown ==
    ASSUME NEW a \in Revisions, NEW k \in Nat, NEW s,
           k + 1 \in 1..Len(Downgrades[a]), s = Downgrades[a][k + 1],
           NEW C, C \subseteq Objects, NEW M, NEW D, NEW T,
           DownSoFar(a, k, C, M, D, T),
           NEW V, V = Seen(C, M, D), NEW S, S = T \cup Touched(V, s)
    PROVE  /\ DownSoFar(a, k + 1, C, NewMade(M, V, s), NewDropped(D, V, s), S)
           /\ NewMade(M, V, s) \subseteq Objects
           /\ Touched(V, s) \cap RevisionIds = {}
<1>1. DowngradeStatement(a, k + 1) /\ Len(Downgrades[a]) \in Nat
  BY Statements
<1>2. /\ s.op = "drop" /\ Rev(s.object.name) = a /\ a # 0
      /\ s.object.refs = {}
  BY <1>1 DEF DowngradeStatement, Revisions
<1>3. V \subseteq C /\ V \subseteq Objects
  BY DEF Seen, DownSoFar
<1>4. Touched(V, s) \cap RevisionIds = {}
  BY <1>2, <1>3, OtherNames DEF Touched, Named
<1>5. Gone(a, k + 1) = Gone(a, k) \cup {o \in Objects :
         o.name = s.object.name \/ GoesWith(o, s.object.name)}
  <2>1. 1..(k + 1) = (1..k) \cup {k + 1}
    OBVIOUS
  <2> QED
    BY <2>1 DEF Gone
<1>6. \A o \in V : o \in Removed(V, s) <=>
                      o.name = s.object.name \/ GoesWith(o, s.object.name)
  BY DEF Removed
<1>7. NewMade(M, V, s) = {}
  BY <1>2 DEF NewMade, DownSoFar
<1>8. NewDropped(D, V, s) = D \cup {o.name : o \in Removed(V, s)}
  BY <1>2 DEF NewDropped
<1>9. \A n \in NewDropped(D, V, s) : \E o \in Gone(a, k + 1) : n = o.name
  BY <1>3, <1>5, <1>8 DEF DownSoFar, Removed
<1>10. \A o \in C \cap Gone(a, k + 1) : o.name \in NewDropped(D, V, s)
  <2> TAKE o \in C \cap Gone(a, k + 1)
  <2>1. CASE o \in Gone(a, k) \/ o.name \in D
    BY <1>8, <2>1 DEF DownSoFar
  <2>2. CASE o \notin Gone(a, k) /\ o.name \notin D
    BY <1>5, <1>6, <1>8, <2>2 DEF Seen
  <2> QED
    BY <2>1, <2>2
<1>11. ASSUME NEW i \in 1..(k + 1) PROVE Downgrades[a][i].object.name \in S
  <2>1. CASE i = k + 1
    BY <2>1 DEF Touched
  <2>2. CASE i # k + 1
    <3>1. i \in 1..k
      BY <2>2
    <3> QED
      BY <3>1 DEF DownSoFar
  <2> QED
    BY <2>1, <2>2
<1>12. k + 1 <= Len(Downgrades[a])
  BY <1>1
<1> QED
  BY <1>4, <1>7, <1>9, <1>10, <1>11, <1>12 DEF DownSoFar

-----------------------------------------------------------------------------
(* A command at statement k from revision a to t.  It leads once it has    *)
(* changed the row of alembic_version, and follows until then.             *)

Stamped(T) == T \cap RevisionIds # {}

\* What one command at most can touch that starts from revision b.
Guard(b) == IF b = 0 THEN "tenants" ELSE Ids[b]

Leading(C, a, t, k, M, D, T) ==
    /\ Seen(C, M, D) = Expected(a, t, k)
    /\ \E b \in 0..LastRevision : C = Database(b) /\ Guard(b) \in T

Following(C, a, t, k, M, D, T) ==
    /\ a = t => k = 0 /\ M = {} /\ D = {} /\ T = {}
    /\ \A v \in Revisions : v = a + 1 /\ a < t =>
          /\ UpSoFar(v, k, M, D)
          /\ v = 1 /\ k > 0 => C = {} /\ "tenants" \in T
    /\ a > t => DownSoFar(a, k, C, M, D, T)

LEMMA ScriptLength ==
    ASSUME NEW a \in 0..LastRevision, NEW t \in 0..LastRevision, a # t
    PROVE  /\ Len(Script(a, t)) \in Nat /\ Len(Script(a, t)) > 0
           /\ Toward(a, t) \in 0..LastRevision
<1>1. CASE a < t
  <2>1. PICK v \in Revisions : v = a + 1
    BY <1>1 DEF Revisions
  <2>2. IsUpScript(v, a, t, Len(Upgrades[v]))
    BY <1>1, <2>1, UpScript
  <2>3. Toward(a, t) = v
    BY <1>1, <2>1, ExpectedUp
  <2> HIDE DEF IsUpScript
  <2> DEFINE l == Len(Upgrades[v])
  <2>4. l \in Nat /\ Len(Script(a, t)) = l + (IF a = 0 THEN 1 ELSE 2)
    BY <2>2 DEF IsUpScript
  <2> HIDE DEF l
  <2> QED
    BY <2>3, <2>4 DEF Revisions
<1>2. CASE a > t
  <2>1. PICK w \in 0..LastRevision : w = a - 1
    BY <1>2
  <2>2. a \in Revisions
    BY <1>2 DEF Revisions
  <2>3. IsDownScript(a, w, t, Len(Downgrades[a]))
    BY <1>2, <2>1, <2>2, DownScript
  <2>4. Toward(a, t) = w
    BY <1>2, <2>1, <2>2, ExpectedDown
  <2> DEFINE l == Len(Downgrades[a])
  <2>5. l \in Nat /\ Len(Script(a, t)) = l + (IF w = 0 THEN 1 ELSE 2)
    BY <2>3 DEF IsDownScript
  <2> HIDE DEF l
  <2> QED
    BY <2>1, <2>4, <2>5
<1> QED
  BY <1>1, <1>2

LEMMA SeenFollowing ==
    ASSUME NEW a \in 0..LastRevision, NEW t \in 0..LastRevision, NEW k \in Nat,
           NEW M, NEW D, NEW T, Following(Database(a), a, t, k, M, D, T)
    PROVE  Seen(Database(a), M, D) = Expected(a, t, k)
<1>1. CASE a = t
  BY <1>1 DEF Following, Seen, Expected
<1>2. CASE a < t
  <2>1. PICK v \in Revisions : v = a + 1
    BY <1>2 DEF Revisions
  <2>2. UpSoFar(v, k, M, D)
    BY <1>2, <2>1 DEF Following
  <2> QED
    BY <1>2, <2>1, <2>2, SeenUp
<1>3. CASE a > t
  <2>1. a \in Revisions
    BY <1>3 DEF Revisions
  <2>2. DownSoFar(a, k, Database(a), M, D, T)
    BY <1>3 DEF Following
  <2> QED
    BY <1>3, <2>1, <2>2, SeenDown
<1> QED
  BY <1>1, <1>2, <1>3

\* Where one more statement takes it.
NextAt(a, t, k) == IF k + 1 < Len(Script(a, t)) THEN a ELSE Toward(a, t)
NextStep(a, t, k) == IF k + 1 < Len(Script(a, t)) THEN k + 1 ELSE 0

\* A command that sees what is expected is not refused and still does.
LedOn(C, a, t, k, M, D) ==
    LET s == Script(a, t)[k + 1]
        V == Seen(C, M, D)
    IN  /\ Accepted(V, s)
        /\ Seen(C, NewMade(M, V, s), NewDropped(D, V, s))
              = Expected(NextAt(a, t, k), t, NextStep(a, t, k))

LEMMA LeadOn ==
    ASSUME NEW a \in 0..LastRevision, NEW t \in 0..LastRevision, a # t,
           NEW k \in Nat, k < Len(Script(a, t)),
           NEW C, C \subseteq Objects, NEW M, M \subseteq Objects, NEW D,
           Seen(C, M, D) = Expected(a, t, k)
    PROVE  LedOn(C, a, t, k, M, D)
<1> DEFINE n == Len(Script(a, t))
           s == Script(a, t)[k + 1]
           V == Seen(C, M, D)
<1>1. Works(a, t, k, s, n)
  BY StatementWorks
<1>2. n \in Nat /\ Toward(a, t) \in 0..LastRevision
  BY ScriptLength
<1>3. Seen(C, NewMade(M, V, s), NewDropped(D, V, s)) = Apply(V, s)
  BY ApplySeen
<1>0. V = Expected(a, t, k)
  OBVIOUS
<1> HIDE DEF n, s, V
<1>4. CASE k + 1 < n
  BY <1>0, <1>1, <1>3, <1>4 DEF Works, NextAt, NextStep, LedOn, n, s, V
<1>5. CASE ~(k + 1 < n)
  <2>1. k + 1 >= n
    BY <1>2, <1>5
  <2>2. Expected(Toward(a, t), t, 0) = Database(Toward(a, t))
    BY <1>2, ExpectedAtStart
  <2> QED
    BY <1>0, <1>1, <1>3, <1>5, <2>1, <2>2
       DEF Works, NextAt, NextStep, LedOn, n, s, V
<1> QED
  BY <1>4, <1>5

\* Only from the database at revision b can the row of b be taken.
LEMMA RowTaken ==
    ASSUME NEW a \in Revisions, NEW b \in 0..LastRevision,
           NEW M, NEW D, \A o \in M : o.name # Ids[a],
           NEW s, s = Drop("revision", Ids[a]),
           Accepted(Seen(Database(b), M, D), s)
    PROVE  a = b
<1>1. s.op # "create" /\ ~s.lenient /\ s.object.name = Ids[a]
  BY DEF Drop, Object
<1>2. PICK o \in Seen(Database(b), M, D) : o.name = Ids[a]
  BY <1>1 DEF Accepted, Named
<1>3. o \in Database(b) /\ Rev(o.name) = 0
  BY <1>2, StampNames DEF Seen
<1>4. o \notin Schema(b)
  BY <1>3, SchemaObject
<1>5. b \in Revisions /\ o = Stamp(b)
  BY <1>3, <1>4, InDatabase
<1> QED
  BY <1>2, <1>5, StampObject, StampNames

\* A command that finds no table tenants has found no revision.
LEMMA NothingThere ==
    ASSUME NEW b \in 0..LastRevision, NEW M, NEW D,
           \A n \in D : n \notin Referred,
           Named(Seen(Database(b), M, D), "tenants") = {}
    PROVE  b = 0
<1> SUFFICES ASSUME b # 0 PROVE FALSE
  OBVIOUS
<1> DEFINE o == Upgrades[Rev("tenants")][Up("tenants")].object
<1>1. "tenants" \in Referred
  BY DEF Referred
<1>2. Rev("tenants") = 1
  BY Places1 DEF Rev
<1>3. Rev("tenants") \in 1..b
  BY <1>2
<1>4. o \in Schema(b) /\ o.name = "tenants"
  BY <1>1, <1>3, ReferredExist, InSchema
<1> HIDE DEF o
<1> QED
  BY <1>1, <1>4 DEF Seen, Named, Database

\* A follower's statement, accepted: it still follows, or it has changed the row
\* of alembic_version, and then what it had read is what is committed.
FollowedOn(C, a, t, k, M, D, T, b) ==
    LET s == Script(a, t)[k + 1]
        V == Seen(C, M, D)
        S == T \cup Touched(V, s)
    IN  /\ ~Stamped(S) =>
              /\ NextAt(a, t, k) = a
              /\ Following(C, a, t, NextStep(a, t, k),
                           NewMade(M, V, s), NewDropped(D, V, s), S)
        /\ Stamped(S) => a = b /\ Guard(b) \in S
        /\ NewMade(M, V, s) \subseteq Objects

LEMMA FollowOnUp ==
    ASSUME NEW v \in Revisions, NEW a \in 0..LastRevision, v = a + 1,
           NEW t \in 0..LastRevision, a < t,
           NEW k \in Nat, k < Len(Script(a, t)),
           NEW C, C \subseteq Objects, NEW M, M \subseteq Objects, NEW D, NEW T,
           Following(C, a, t, k, M, D, T), ~Stamped(T),
           Accepted(Seen(C, M, D), Script(a, t)[k + 1]),
           NEW b \in 0..LastRevision, C = Database(b)
    PROVE  FollowedOn(C, a, t, k, M, D, T, b)
<1> PICK s : s = Script(a, t)[k + 1]
  OBVIOUS
<1> PICK V : V = Seen(C, M, D)
  OBVIOUS
<1> PICK S : S = T \cup Touched(V, s)
  OBVIOUS
<1> Accepted(V, s)
  OBVIOUS
<1> SUFFICES /\ ~Stamped(S) =>
                   /\ NextAt(a, t, k) = a
                   /\ Following(C, a, t, NextStep(a, t, k),
                                NewMade(M, V, s), NewDropped(D, V, s), S)
             /\ Stamped(S) => a = b /\ Guard(b) \in S
             /\ NewMade(M, V, s) \subseteq Objects
  BY DEF FollowedOn
<1> DEFINE l == Len(Upgrades[v])
<1>0. IsUpScript(v, a, t, l)
  BY UpScript
<1>1. /\ l \in Nat /\ Len(Script(a, t)) = l + (IF a = 0 THEN 1 ELSE 2)
      /\ \A i \in 1..l : Script(a, t)[i] = Upgrades[v][i]
      /\ a = 0 => Script(a, t)[l + 1] = Create(Stamp(v))
      /\ a # 0 => Script(a, t)[l + 1] = Drop("revision", Ids[a])
  BY <1>0 DEF IsUpScript
<1>2. UpSoFar(v, k, M, D) /\ (v = 1 /\ k > 0 => C = {} /\ "tenants" \in T)
  BY DEF Following
<1>3. k <= l /\ l >= 2
  BY <1>2, Statements DEF UpSoFar
<1> HIDE DEF l
<1>4. Ids[v] \in RevisionIds /\ a # t /\ ~(a > t)
  BY DEF RevisionIds
<1>5. CASE k < l
  <2>1. k + 1 \in 1..l /\ k + 1 < Len(Script(a, t))
    BY <1>1, <1>5
  <2>2. s = Upgrades[v][k + 1]
    BY <1>1, <2>1
  <2>3. /\ UpSoFar(v, k + 1, NewMade(M, V, s), NewDropped(D, V, s))
        /\ NewMade(M, V, s) \subseteq Objects
        /\ Touched(V, s) \cap RevisionIds = {}
    BY <1>2, <2>1, <2>2, StepUp DEF l
  <2>4. ~Stamped(S)
    BY <2>3 DEF Stamped
  <2>5. ASSUME v = 1 PROVE C = {} /\ "tenants" \in S
    <3>1. CASE k > 0
      BY <1>2, <2>5, <3>1
    <3>2. CASE k = 0
      <4>1. s = Table("tenants", {})
        BY <2>2, <2>5, <3>2 DEF Upgrades, Upgrade001
      <4>2. s.op = "create" /\ ~s.lenient /\ s.object.name = "tenants"
        BY <4>1 DEF Table, Create, Object
      <4>3. Named(V, "tenants") = {}
        BY <4>2 DEF Accepted
      <4>4. b = 0
        BY <1>2, <4>3, NothingThere DEF UpSoFar
      <4> QED
        BY <4>2, <4>4, NothingAtZero DEF Touched
    <3> QED
      BY <3>1, <3>2
  <2>6. NextAt(a, t, k) = a /\ NextStep(a, t, k) = k + 1
    BY <2>1 DEF NextAt, NextStep
  <2>7. Following(C, a, t, k + 1, NewMade(M, V, s), NewDropped(D, V, s), S)
    BY <1>4, <2>3, <2>5 DEF Following
  <2> QED
    BY <2>3, <2>4, <2>6, <2>7
<1>6. CASE k = l
  <2>1. M \subseteq Schema(v)
    BY <1>2 DEF UpSoFar, Created
  <2>2. CASE a = 0
    <3>1. s = Create(Stamp(v)) /\ s.op = "create" /\ s.object.name = Ids[v]
          /\ s.object \in Objects
      BY <1>1, <1>6, <2>2, StampObject DEF Create, Objects, Revisions
    <3>2. Stamped(S)
      BY <1>4, <3>1 DEF Stamped, Touched
    <3>3. C = {} /\ "tenants" \in T
      BY <1>2, <1>3, <1>6, <2>2
    <3>4. b = 0
      BY <3>3 DEF Database
    <3> QED
      BY <2>2, <3>1, <3>2, <3>3, <3>4 DEF Guard, NewMade
  <2>3. CASE a # 0
    <3>1. s = Drop("revision", Ids[a]) /\ a \in Revisions
      BY <1>1, <1>6, <2>3 DEF Revisions
    <3>2. s.op # "create" /\ s.object.name = Ids[a] /\ Ids[a] \in RevisionIds
      BY <3>1 DEF Drop, Object, RevisionIds
    <3>3. Stamped(S) /\ Ids[a] \in S
      BY <3>2 DEF Stamped, Touched
    <3>4. \A o \in M : o.name # Ids[a]
      <4>1. \A o \in Schema(v) : Rev(o.name) \in 1..v
        <5>1. v \in 0..LastRevision
          BY DEF Revisions
        <5> QED
          BY <5>1, SchemaObject
      <4>2. Rev(Ids[a]) = 0
        BY <3>1, StampNames
      <4> QED
        BY <2>1, <4>1, <4>2
    <3>5. a = b
      BY <3>1, <3>4, RowTaken
    <3> QED
      BY <2>3, <3>2, <3>3, <3>5 DEF Guard, NewMade
  <2> QED
    BY <2>2, <2>3
<1> QED
  BY <1>1, <1>3, <1>5, <1>6

LEMMA FollowOnDown ==
    ASSUME NEW a \in Revisions, NEW t \in 0..LastRevision, a > t,
           NEW k \in Nat, k < Len(Script(a, t)),
           NEW C, C \subseteq Objects, NEW M, M \subseteq Objects, NEW D, NEW T,
           Following(C, a, t, k, M, D, T), ~Stamped(T),
           Accepted(Seen(C, M, D), Script(a, t)[k + 1]),
           NEW b \in 0..LastRevision, C = Database(b)
    PROVE  FollowedOn(C, a, t, k, M, D, T, b)
<1> PICK s : s = Script(a, t)[k + 1]
  OBVIOUS
<1> PICK V : V = Seen(C, M, D)
  OBVIOUS
<1> PICK S : S = T \cup Touched(V, s)
  OBVIOUS
<1> Accepted(V, s)
  OBVIOUS
<1> SUFFICES /\ ~Stamped(S) =>
                   /\ NextAt(a, t, k) = a
                   /\ Following(C, a, t, NextStep(a, t, k),
                                NewMade(M, V, s), NewDropped(D, V, s), S)
             /\ Stamped(S) => a = b /\ Guard(b) \in S
             /\ NewMade(M, V, s) \subseteq Objects
  BY DEF FollowedOn
<1> DEFINE l == Len(Downgrades[a])
<1> PICK w \in 0..LastRevision : w = a - 1
  BY DEF Revisions
<1>0. IsDownScript(a, w, t, l)
  BY DownScript
<1>1. /\ l \in Nat /\ Len(Script(a, t)) = l + (IF w = 0 THEN 1 ELSE 2)
      /\ \A i \in 1..l : Script(a, t)[i] = Downgrades[a][i]
      /\ Script(a, t)[l + 1] = Drop("revision", Ids[a])
  BY <1>0 DEF IsDownScript
<1>2. DownSoFar(a, k, C, M, D, T)
  BY DEF Following
<1>3. k <= l
  BY <1>2 DEF DownSoFar
<1> HIDE DEF l
<1>4. a # t /\ ~(a < t) /\ a # 0
  BY DEF Revisions
<1>5. CASE k < l
  <2>1. k + 1 \in 1..l /\ k + 1 < Len(Script(a, t))
    BY <1>1, <1>5
  <2>2. s = Downgrades[a][k + 1]
    BY <1>1, <2>1
  <2>3. /\ DownSoFar(a, k + 1, C, NewMade(M, V, s), NewDropped(D, V, s), S)
        /\ NewMade(M, V, s) \subseteq Objects
        /\ Touched(V, s) \cap RevisionIds = {}
    BY <1>2, <2>1, <2>2, StepDown DEF l
  <2>4. ~Stamped(S)
    BY <2>3 DEF Stamped
  <2>5. NextAt(a, t, k) = a /\ NextStep(a, t, k) = k + 1
    BY <2>1 DEF NextAt, NextStep
  <2>6. Following(C, a, t, k + 1, NewMade(M, V, s), NewDropped(D, V, s), S)
    BY <1>4, <2>3 DEF Following
  <2> QED
    BY <2>3, <2>4, <2>5, <2>6
<1>6. CASE k = l
  <2>1. s = Drop("revision", Ids[a])
    BY <1>1, <1>6
  <2>2. s.op # "create" /\ s.object.name = Ids[a] /\ Ids[a] \in RevisionIds
    BY <2>1 DEF Drop, Object, RevisionIds
  <2>3. Stamped(S) /\ Ids[a] \in S
    BY <2>2 DEF Stamped, Touched
  <2>4. M = {}
    BY <1>2 DEF DownSoFar
  <2>5. a = b
    BY <2>1, <2>4, RowTaken
  <2> QED
    BY <1>4, <2>2, <2>3, <2>4, <2>5 DEF Guard, NewMade
<1> QED
  BY <1>1, <1>3, <1>5, <1>6

LEMMA FollowOn ==
    ASSUME NEW a \in 0..LastRevision, NEW t \in 0..LastRevision, a # t,
           NEW k \in Nat, k < Len(Script(a, t)),
           NEW C, C \subseteq Objects, NEW M, M \subseteq Objects, NEW D, NEW T,
           Following(C, a, t, k, M, D, T), ~Stamped(T),
           Accepted(Seen(C, M, D), Script(a, t)[k + 1]),
           NEW b \in 0..LastRevision, C = Database(b)
    PROVE  /\ FollowedOn(C, a, t, k, M, D, T, b)
           /\ a = b => LedOn(C, a, t, k, M, D)
<1>1. ASSUME a < t PROVE FollowedOn(C, a, t, k, M, D, T, b)
  <2>1. PICK v \in Revisions : v = a + 1
    BY <1>1 DEF Revisions
  <2> QED
    BY <1>1, <2>1, FollowOnUp
<1>2. ASSUME a > t PROVE FollowedOn(C, a, t, k, M, D, T, b)
  <2>1. a \in Revisions
    BY <1>2 DEF Revisions
  <2> QED
    BY <1>2, <2>1, FollowOnDown
<1>3. ASSUME a = b PROVE LedOn(C, a, t, k, M, D)
  <2>1. Seen(C, M, D) = Expected(a, t, k)
    BY <1>3, SeenFollowing
  <2> QED
    BY <2>1, LeadOn
<1> QED
  BY <1>1, <1>2, <1>3

\* What a command that follows finds in a database that is still the one it has
\* read: nothing that refuses its statement.
LEMMA FollowerAccepted ==
    ASSUME NEW a \in 0..LastRevision, NEW t \in 0..LastRevision, a # t,
           NEW k \in Nat, k < Len(Script(a, t)),
           NEW M, NEW D, NEW T, Following(Database(a), a, t, k, M, D, T)
    PROVE  Accepted(Seen(Database(a), M, D), Script(a, t)[k + 1])
<1>1. Seen(Database(a), M, D) = Expected(a, t, k)
  BY SeenFollowing
<1> DEFINE s == Script(a, t)[k + 1]
           n == Len(Script(a, t))
<1>2. Works(a, t, k, s, n)
  BY StatementWorks
<1> QED
  BY <1>1, <1>2 DEF Works

\* The leader has committed what it has made (N): what others have done is what it
\* would have been after that.
LEMMA FollowersKeep ==
    ASSUME NEW a, NEW t, NEW k, NEW M, NEW D, NEW T,
           NEW b \in 0..LastRevision, NEW C, C = Database(b),
           Following(C, a, t, k, M, D, T),
           NEW N, NEW E, NEW S, Guard(b) \in S,
           \A o \in N : o.name \in S /\ o.refs \subseteq S,
           S \cap T = {}
    PROVE  Following(Seen(C, N, E), a, t, k, M, D, T)
<1> DEFINE Z == Seen(C, N, E)
<1>1. ASSUME C = {}, "tenants" \in T PROVE FALSE
  <2>1. CASE b = 0
    BY <1>1, <2>1 DEF Guard
  <2>2. CASE b # 0
    BY <1>1, <2>2 DEF Database
  <2> QED
    BY <2>1, <2>2
<1>2. ASSUME a > t PROVE DownSoFar(a, k, Z, M, D, T)
  <2>1. DownSoFar(a, k, C, M, D, T)
    BY <1>2 DEF Following
  <2>2. ASSUME NEW o \in Z \cap Gone(a, k) PROVE o.name \in D
    <3>1. CASE o \in C
      BY <2>1, <3>1 DEF DownSoFar
    <3>2. CASE o \in N
      <4>1. PICK i \in 1..k : \/ o.name = Downgrades[a][i].object.name
                              \/ Downgrades[a][i].object.name \in o.refs
        BY DEF Gone, GoesWith
      <4>2. Downgrades[a][i].object.name \in T
        BY <2>1 DEF DownSoFar
      <4> QED
        BY <3>2, <4>1, <4>2
    <3> QED
      BY <3>1, <3>2 DEF Seen
  <2> QED
    BY <2>1, <2>2 DEF DownSoFar
<1> HIDE DEF Z
<1> QED
  BY <1>1, <1>2 DEF Following, Z

-----------------------------------------------------------------------------
(* The inductive invariant.                                                *)

TypeInv ==
    /\ TypeOK
    /\ step \in [Migrators -> Nat]
    /\ made \in [Migrators -> SUBSET Objects]
    /\ dropped \in [Migrators -> SUBSET {o.name : o \in Objects}]
    /\ DOMAIN touched = Migrators

IdleInv ==
    \A m \in Migrators : ~Running(m) =>
        step[m] = 0 /\ made[m] = {} /\ dropped[m] = {} /\ touched[m] = {}

LocksDisjoint ==
    \A m, n \in Migrators : m # n => touched[m] \cap touched[n] = {}

MadeTouched ==
    \A m \in Migrators : \A o \in made[m] :
        o.name \in touched[m] /\ o.refs \subseteq touched[m]

LeaderInv ==
    \A m \in Migrators : Running(m) /\ Stamped(touched[m]) =>
        Leading(catalog, at[m], target[m], step[m], made[m], dropped[m], touched[m])

FollowerInv ==
    \A m \in Migrators : Running(m) /\ ~Stamped(touched[m]) =>
        /\ Following(catalog, at[m], target[m], step[m], made[m], dropped[m],
                     touched[m])
        /\ ~overtaken[m] => catalog = Database(at[m])

IInv ==
    /\ TypeInv /\ IdleInv /\ CatalogMatchesVersion /\ RefusedOnlyIfOvertaken
    /\ LocksDisjoint /\ MadeTouched /\ LeaderInv /\ FollowerInv

LEMMA CatalogIsDatabase ==
    ASSUME CatalogMatchesVersion
    PROVE  \E b \in 0..LastRevision : catalog = Database(b)
BY DEF CatalogMatchesVersion, Database

LEMMA Types ==
    ASSUME TypeInv, NEW m \in Migrators
    PROVE  /\ at[m] \in 0..LastRevision /\ target[m] \in 0..LastRevision
           /\ step[m] \in Nat /\ made[m] \subseteq Objects
           /\ catalog \subseteq Objects
           /\ Visible(m) = Seen(catalog, made[m], dropped[m])
           /\ InRevision(m) => /\ at[m] # target[m]
                               /\ step[m] < Len(Script(at[m], target[m]))
<1>1. target[m] \in 0..LastRevision
  <2>1. target[m] \in Targets \/ target[m] = 0
    BY DEF TypeInv, TypeOK
  <2>2. ASSUME NEW t \in Targets PROVE t \in 0..LastRevision
    BY TargetAssumption
  <2>3. CASE target[m] \in Targets
    BY <2>2, <2>3
  <2>4. CASE target[m] = 0
    BY <2>4
  <2> QED
    BY <2>1, <2>3, <2>4
<1>2. /\ at[m] \in 0..LastRevision /\ step[m] \in Nat /\ made[m] \subseteq Objects
      /\ catalog \subseteq Objects
  BY DEF TypeInv, TypeOK
<1>3. InRevision(m) => /\ at[m] # target[m]
                       /\ step[m] < Len(Script(at[m], target[m]))
  BY DEF TypeInv, TypeOK, InRevision
<1>4. Visible(m) = Seen(catalog, made[m], dropped[m])
  BY DEF Visible, Seen
<1> QED
  BY <1>1, <1>2, <1>3, <1>4

\* The invariant says nothing that the end of a transaction without a commit could
\* disturb.
LEMMA Ended ==
    ASSUME IInv, NEW m \in Migrators, NEW how \in {"idle", "refused"}, End(m, how),
           how = "refused" => overtaken[m], UNCHANGED <<catalog, overtaken>>
    PROVE  IInv'
<1> USE DEF IInv
<1>1. /\ \A n \in Migrators : n # m =>
            /\ pc'[n] = pc[n] /\ target'[n] = target[n] /\ at'[n] = at[n]
            /\ step'[n] = step[n] /\ made'[n] = made[n]
            /\ dropped'[n] = dropped[n] /\ touched'[n] = touched[n]
      /\ pc'[m] = how /\ made'[m] = {} /\ touched'[m] = {} /\ dropped'[m] = {}
      /\ step'[m] = 0
  BY DEF End, TypeInv, TypeOK
<1>2. TypeInv'
  <2>1. TypeOK'
    BY <1>1 DEF TypeInv, TypeOK, End, InRevision, Running
  <2> QED
    BY <2>1 DEF TypeInv, End
<1>3. IdleInv'
  BY <1>1 DEF IdleInv, Running
<1>4. CatalogMatchesVersion'
  BY DEF CatalogMatchesVersion
<1>5. RefusedOnlyIfOvertaken'
  BY <1>1 DEF RefusedOnlyIfOvertaken
<1>6. LocksDisjoint'
  BY <1>1 DEF LocksDisjoint
<1>7. MadeTouched'
  BY <1>1 DEF MadeTouched
<1>8. LeaderInv'
  BY <1>1 DEF LeaderInv, Running
<1>9. FollowerInv'
  BY <1>1 DEF FollowerInv, Running
<1> QED
  BY <1>2, <1>3, <1>4, <1>5, <1>6, <1>7, <1>8, <1>9

\* A database at revision b has one version, b.
LEMMA VersionsOfDatabase ==
    ASSUME NEW b \in 0..LastRevision
    PROVE  Versions(Database(b)) = {b} \ {0}
<1>1. \A w \in Revisions : Stamp(w) \in Database(b) <=> w = b
  <2> TAKE w \in Revisions
  <2>1. Stamp(w) \notin Schema(b)
    <3>1. Rev(Stamp(w).name) = 0
      BY StampObject, StampNames
    <3> QED
      BY <3>1, SchemaObject
  <2>2. b # 0 => b \in Revisions
    BY DEF Revisions
  <2> QED
    BY <2>1, <2>2, StampObject, StampNames DEF Database, Revisions
<1> QED
  BY <1>1 DEF Versions, Revisions

LEMMA BeginKeeps ==
    ASSUME IInv, NEW m \in Migrators, Begin(m)
    PROVE  IInv'
<1> USE DEF IInv
<1>1. /\ pc' = [pc EXCEPT ![m] = "running"]
      /\ overtaken' = [overtaken EXCEPT ![m] = FALSE]
      /\ UNCHANGED <<catalog, step, made, dropped, touched>>
      /\ ~Running(m)
  BY DEF Begin
<1> PICK t \in Targets : target' = [target EXCEPT ![m] = t]
  BY DEF Begin
<1> PICK v \in 0..LastRevision :
       /\ Versions(catalog) = {v} \ {0}
       /\ at' = [at EXCEPT ![m] = v] /\ read' = [read EXCEPT ![m] = v]
  BY DEF Begin
<1> PICK b \in 0..LastRevision : catalog = Database(b)
  BY CatalogIsDatabase
<1>2. v = b
  <2>1. Versions(catalog) = {b} \ {0}
    BY VersionsOfDatabase
  <2> QED
    BY <2>1
<1>3. t \in 0..LastRevision
  BY TargetAssumption
<1>4. /\ \A n \in Migrators : n # m =>
            /\ pc'[n] = pc[n] /\ target'[n] = target[n] /\ at'[n] = at[n]
            /\ overtaken'[n] = overtaken[n]
      /\ pc'[m] = "running" /\ target'[m] = t /\ at'[m] = b
      /\ overtaken'[m] = FALSE
      /\ step'[m] = 0 /\ made'[m] = {} /\ dropped'[m] = {} /\ touched'[m] = {}
  BY <1>1, <1>2 DEF TypeInv, TypeOK, IdleInv
<1>5. TypeInv'
  <2>1. b # t => 0 < Len(Script(b, t))
    BY <1>3, ScriptLength
  <2>2. ASSUME NEW n \in Migrators
        PROVE  (InRevision(n) => step[n] < Len(Script(at[n], target[n])))'
    <3>1. CASE n = m
      BY <1>4, <2>1, <3>1 DEF InRevision
    <3>2. CASE n # m
      BY <1>1, <1>4, <3>2 DEF TypeInv, TypeOK, InRevision, Running
    <3> QED
      BY <3>1, <3>2
  <2>3. /\ pc' \in [Migrators -> {"idle", "running", "refused"}]
        /\ target' \in [Migrators -> Targets \cup {0}]
        /\ at' \in [Migrators -> 0..LastRevision]
        /\ read' \in [Migrators -> 0..LastRevision]
        /\ overtaken' \in [Migrators -> BOOLEAN]
    BY <1>1 DEF TypeInv, TypeOK
  <2> QED
    BY <1>1, <2>2, <2>3 DEF TypeInv, TypeOK
<1>6. IdleInv'
  BY <1>1, <1>4 DEF IdleInv, Running
<1>7. CatalogMatchesVersion'
  BY <1>1 DEF CatalogMatchesVersion
<1>8. RefusedOnlyIfOvertaken'
  BY <1>4 DEF RefusedOnlyIfOvertaken
<1>9. LocksDisjoint' /\ MadeTouched'
  BY <1>1 DEF LocksDisjoint, MadeTouched
<1>10. LeaderInv'
  BY <1>1, <1>4 DEF LeaderInv, Running, Stamped
<1>11. FollowerInv'
  <2>1. Following(catalog, b, t, 0, {}, {}, {})
    <3>1. ASSUME NEW w \in Revisions PROVE UpSoFar(w, 0, {}, {})
      <4>1. \A o \in Schema(w) : Up(o.name) \in Nat /\ Up(o.name) > 0
        <5> TAKE o \in Schema(w)
        <5>1. Up(o.name) \in 1..Len(Upgrades[Rev(o.name)])
          BY SchemaObject DEF Revisions
        <5> QED
          BY <5>1
      <4> QED
        BY <4>1, Statements DEF UpSoFar, Created
    <3>2. ASSUME b > t PROVE DownSoFar(b, 0, catalog, {}, {}, {})
      <4>1. b \in Revisions
        BY <1>3, <3>2 DEF Revisions
      <4>2. Gone(b, 0) = {} /\ 0 <= Len(Downgrades[b])
        BY <4>1, Statements DEF Gone
      <4> QED
        BY <4>2 DEF DownSoFar
    <3> QED
      BY <3>1, <3>2 DEF Following
  <2>2. ASSUME NEW n \in Migrators, (Running(n) /\ ~Stamped(touched[n]))'
        PROVE  (/\ Following(catalog, at[n], target[n], step[n], made[n],
                             dropped[n], touched[n])
                /\ ~overtaken[n] => catalog = Database(at[n]))'
    <3>1. CASE n = m
      BY <1>1, <1>4, <2>1, <3>1
    <3>2. CASE n # m
      BY <1>1, <1>4, <2>2, <3>2 DEF FollowerInv, Running
    <3> QED
      BY <3>1, <3>2
  <2> QED
    BY <2>2 DEF FollowerInv
<1> QED
  BY <1>5, <1>6, <1>7, <1>8, <1>9, <1>10, <1>11

LEMMA StepInScript ==
    ASSUME NEW a \in 0..LastRevision, NEW t \in 0..LastRevision, a # t,
           NEW k \in Nat
    PROVE  /\ NextAt(a, t, k) \in 0..LastRevision /\ NextStep(a, t, k) \in Nat
           /\ NextAt(a, t, k) # t =>
                 NextStep(a, t, k) < Len(Script(NextAt(a, t, k), t))
<1>1. CASE k + 1 < Len(Script(a, t))
  BY <1>1 DEF NextAt, NextStep
<1>2. CASE ~(k + 1 < Len(Script(a, t)))
  <2>1. Toward(a, t) \in 0..LastRevision
    BY ScriptLength
  <2>2. Toward(a, t) # t => 0 < Len(Script(Toward(a, t), t))
    BY <2>1, ScriptLength
  <2> QED
    BY <1>2, <2>1, <2>2 DEF NextAt, NextStep
<1> QED
  BY <1>1, <1>2

LEMMA ExpectedObjects ==
    ASSUME NEW a \in 0..LastRevision, NEW t \in 0..LastRevision, NEW k
    PROVE  Expected(a, t, k) \subseteq Objects
<1>1. \A d \in 0..LastRevision : Database(d) \subseteq Objects
  BY InDatabase
<1>2. \A d \in 0..LastRevision : Schema(d) \subseteq Objects
  BY <1>1 DEF Database
<1>3. CASE a < t
  <2>1. PICK v \in Revisions : v = a + 1
    BY <1>3 DEF Revisions
  <2>2. Expected(a, t, k) \subseteq Database(a) \cup Schema(v)
    BY <1>3, <2>1, ExpectedUp DEF Created
  <2>3. v \in 0..LastRevision
    BY DEF Revisions
  <2> QED
    BY <1>1, <1>2, <2>2, <2>3
<1>4. CASE a > t
  <2>1. PICK w \in 0..LastRevision : w = a - 1
    BY <1>4
  <2>2. a \in Revisions
    BY <1>4 DEF Revisions
  <2>3. Expected(a, t, k) \subseteq Database(a) \cup Schema(w)
    BY <1>4, <2>1, <2>2, ExpectedDown DEF Left
  <2> QED
    BY <1>1, <1>2, <2>3
<1>5. CASE a = t
  BY <1>1, <1>5 DEF Expected
<1> QED
  BY <1>3, <1>4, <1>5

LEMMA ExecuteDoes ==
    ASSUME TypeInv, NEW m \in Migrators, Execute(m),
           NEW s, s = Statement(m), NEW V, V = Visible(m)
    PROVE  /\ InRevision(m) /\ Granted(m) /\ Accepted(V, s)
           /\ made' = [made EXCEPT ![m] = NewMade(made[m], V, s)]
           /\ dropped' = [dropped EXCEPT ![m] = NewDropped(dropped[m], V, s)]
           /\ touched' = [touched EXCEPT ![m] = touched[m] \cup Touched(V, s)]
           /\ at' = [at EXCEPT ![m] = NextAt(at[m], target[m], step[m])]
           /\ step' = [step EXCEPT ![m] = NextStep(at[m], target[m], step[m])]
           /\ UNCHANGED <<catalog, pc, target, read, overtaken>>
<1>1. InRevision(m) /\ Granted(m) /\ Accepted(V, s)
  BY DEF Execute
<1>2. /\ made' = [made EXCEPT ![m] = NewMade(made[m], V, s)]
      /\ dropped' = [dropped EXCEPT ![m] = NewDropped(dropped[m], V, s)]
  BY DEF Execute, NewMade, NewDropped, TypeInv
<1>3. touched' = [touched EXCEPT ![m] = touched[m] \cup Touched(V, s)]
  BY DEF Execute, Touches, Touched
<1>4. /\ at' = [at EXCEPT ![m] = NextAt(at[m], target[m], step[m])]
      /\ step' = [step EXCEPT ![m] = NextStep(at[m], target[m], step[m])]
  BY DEF Execute, Proceed, NextAt, NextStep, TypeInv, TypeOK
<1>5. UNCHANGED <<catalog, pc, target, read, overtaken>>
  BY DEF Execute
<1> QED
  BY <1>1, <1>2, <1>3, <1>4, <1>5

LEMMA ExecuteKeeps ==
    ASSUME IInv, NEW m \in Migrators, Execute(m)
    PROVE  IInv'
<1> USE DEF IInv
<1> DEFINE a == at[m]
           t == target[m]
           k == step[m]
           M == made[m]
           D == dropped[m]
           T == touched[m]
           s == Script(a, t)[k + 1]
           V == Seen(catalog, M, D)
           S == T \cup Touched(V, s)
<1>1. /\ a \in 0..LastRevision /\ t \in 0..LastRevision /\ k \in Nat
      /\ M \subseteq Objects /\ catalog \subseteq Objects
      /\ V = Visible(m) /\ s = Statement(m)
  BY Types DEF Statement
<1>2. /\ InRevision(m) /\ Granted(m) /\ Accepted(V, s)
      /\ made' = [made EXCEPT ![m] = NewMade(M, V, s)]
      /\ dropped' = [dropped EXCEPT ![m] = NewDropped(D, V, s)]
      /\ touched' = [touched EXCEPT ![m] = S]
      /\ at' = [at EXCEPT ![m] = NextAt(a, t, k)]
      /\ step' = [step EXCEPT ![m] = NextStep(a, t, k)]
      /\ UNCHANGED <<catalog, pc, target, read, overtaken>>
  BY <1>1, ExecuteDoes
<1>3. Running(m) /\ a # t /\ k < Len(Script(a, t))
  BY <1>2, Types DEF InRevision
<1> PICK b \in 0..LastRevision : catalog = Database(b)
  BY CatalogIsDatabase
<1>4. /\ \A n \in Migrators : n # m =>
            /\ at'[n] = at[n] /\ step'[n] = step[n] /\ made'[n] = made[n]
            /\ dropped'[n] = dropped[n] /\ touched'[n] = touched[n]
      /\ at'[m] = NextAt(a, t, k) /\ step'[m] = NextStep(a, t, k)
      /\ made'[m] = NewMade(M, V, s) /\ dropped'[m] = NewDropped(D, V, s)
      /\ touched'[m] = S
  BY <1>2 DEF TypeInv, TypeOK
<1> HIDE DEF s, V, S
\* Leading or not, it does from here on what it should.
<1>5. /\ Stamped(S) => Leading(catalog, NextAt(a, t, k), t, NextStep(a, t, k),
                               NewMade(M, V, s), NewDropped(D, V, s), S)
      /\ ~Stamped(S) => /\ NextAt(a, t, k) = a /\ ~Stamped(T)
                        /\ Following(catalog, a, t, NextStep(a, t, k),
                                     NewMade(M, V, s), NewDropped(D, V, s), S)
      /\ NewMade(M, V, s) \subseteq Objects
  <2>1. Leading(catalog, a, t, k, M, D, T) \/ ~Stamped(T)
    BY <1>3 DEF LeaderInv
  <2>2. ~Stamped(T) => Following(catalog, a, t, k, M, D, T)
    BY <1>3 DEF FollowerInv
  <2>3. T \subseteq S
    BY DEF S
  <2>4. ASSUME LedOn(catalog, a, t, k, M, D), Guard(b) \in S
        PROVE  Leading(catalog, NextAt(a, t, k), t, NextStep(a, t, k),
                       NewMade(M, V, s), NewDropped(D, V, s), S)
    BY <2>4 DEF LedOn, Leading, s, V
  <2>5. CASE Stamped(T)
    <3>1. Leading(catalog, a, t, k, M, D, T)
      BY <2>1, <2>5
    <3>2. Seen(catalog, M, D) = Expected(a, t, k)
      BY <3>1 DEF Leading
    <3>3. LedOn(catalog, a, t, k, M, D)
      BY <1>1, <1>3, <3>2, LeadOn
    <3>4. PICK d \in 0..LastRevision : catalog = Database(d) /\ Guard(d) \in T
      BY <3>1 DEF Leading
    <3>5. Stamped(S)
      BY <2>3, <2>5 DEF Stamped
    <3>6. NewMade(M, V, s) \subseteq Objects
      <4>1. NextAt(a, t, k) \in 0..LastRevision
        BY <1>1, <1>3, StepInScript
      <4>2. Expected(NextAt(a, t, k), t, NextStep(a, t, k)) \subseteq Objects
        BY <1>1, <4>1, ExpectedObjects
      <4> QED
        BY <3>3, <4>2 DEF LedOn, s, V, Seen
    <3> QED
      BY <2>3, <3>3, <3>4, <3>5, <3>6 DEF Leading, LedOn, s, V
  <2>6. CASE ~Stamped(T)
    <3>1. Accepted(Seen(catalog, M, D), Script(a, t)[k + 1])
      BY <1>2 DEF s, V
    <3>2. /\ FollowedOn(catalog, a, t, k, M, D, T, b)
          /\ a = b => LedOn(catalog, a, t, k, M, D)
      BY <1>1, <1>3, <2>2, <2>6, <3>1, FollowOn
    <3>3. /\ ~Stamped(S) => /\ NextAt(a, t, k) = a
                            /\ Following(catalog, a, t, NextStep(a, t, k),
                                         NewMade(M, V, s), NewDropped(D, V, s), S)
          /\ Stamped(S) => a = b /\ Guard(b) \in S
          /\ NewMade(M, V, s) \subseteq Objects
      BY <3>2 DEF FollowedOn, s, V, S
    <3> QED
      BY <2>4, <2>6, <3>2, <3>3
  <2> QED
    BY <2>5, <2>6
<1>6. TypeInv'
  <2>1. NextAt(a, t, k) \in 0..LastRevision /\ NextStep(a, t, k) \in Nat
    BY <1>1, <1>3, StepInScript
  <2>2. ASSUME NEW n \in Migrators
        PROVE  (InRevision(n) => step[n] < Len(Script(at[n], target[n])))'
    <3>1. CASE n = m
      <4>1. NextAt(a, t, k) # t =>
               NextStep(a, t, k) < Len(Script(NextAt(a, t, k), t))
        BY <1>1, <1>3, StepInScript
      <4> QED
        BY <1>2, <1>4, <3>1, <4>1 DEF InRevision
    <3>2. CASE n # m
      BY <1>2, <1>4, <3>2 DEF TypeInv, TypeOK, InRevision, Running
    <3> QED
      BY <3>1, <3>2
  <2>3. at' \in [Migrators -> 0..LastRevision] /\ step' \in [Migrators -> Nat]
    BY <1>2, <2>1 DEF TypeInv, TypeOK
  <2>4. made' \in [Migrators -> SUBSET Objects]
    BY <1>2, <1>5 DEF TypeInv
  <2>5. dropped' \in [Migrators -> SUBSET {o.name : o \in Objects}]
    <3>1. V \subseteq Objects
      BY <1>1 DEF V, Seen
    <3>2. D \subseteq {o.name : o \in Objects}
      BY DEF TypeInv
    <3>3. NewDropped(D, V, s) \subseteq {o.name : o \in Objects}
      BY <3>1, <3>2 DEF NewDropped, Removed
    <3> QED
      BY <1>2, <3>3 DEF TypeInv
  <2>6. DOMAIN touched' = Migrators
    BY <1>2 DEF TypeInv
  <2> QED
    BY <1>2, <2>2, <2>3, <2>4, <2>5, <2>6 DEF TypeInv, TypeOK
<1>7. IdleInv'
  BY <1>2, <1>3, <1>4 DEF IdleInv, Running
<1>8. CatalogMatchesVersion' /\ RefusedOnlyIfOvertaken'
  BY <1>2 DEF CatalogMatchesVersion, RefusedOnlyIfOvertaken
<1>9. LocksDisjoint'
  <2>1. Touches(m) = Touched(V, s)
    BY <1>1 DEF Touches, Touched
  <2>2. \A n \in Migrators : n # m => S \cap touched[n] = {}
    BY <1>2, <2>1 DEF Granted, LocksDisjoint, S
  <2> QED
    BY <1>4, <2>2 DEF LocksDisjoint
<1>10. MadeTouched'
  <2>1. \A o \in NewMade(M, V, s) : o.name \in S /\ o.refs \subseteq S
    BY DEF NewMade, MadeTouched, S, Touched
  <2> QED
    BY <1>4, <2>1 DEF MadeTouched
<1>11. LeaderInv'
  <2> SUFFICES ASSUME NEW n \in Migrators, (Running(n) /\ Stamped(touched[n]))'
               PROVE  Leading(catalog, at[n], target[n], step[n], made[n],
                              dropped[n], touched[n])'
    BY DEF LeaderInv
  <2>1. CASE n = m
    BY <1>2, <1>4, <1>5, <2>1
  <2>2. CASE n # m
    BY <1>2, <1>4, <2>2 DEF LeaderInv, Running
  <2> QED
    BY <2>1, <2>2
<1>12. FollowerInv'
  <2> SUFFICES ASSUME NEW n \in Migrators, (Running(n) /\ ~Stamped(touched[n]))'
               PROVE  (/\ Following(catalog, at[n], target[n], step[n], made[n],
                                    dropped[n], touched[n])
                       /\ ~overtaken[n] => catalog = Database(at[n]))'
    BY DEF FollowerInv
  <2>1. CASE n = m
    BY <1>2, <1>3, <1>4, <1>5, <2>1 DEF FollowerInv
  <2>2. CASE n # m
    BY <1>2, <1>4, <2>2 DEF FollowerInv, Running
  <2> QED
    BY <2>1, <2>2
<1> QED
  BY <1>6, <1>7, <1>8, <1>9, <1>10, <1>11, <1>12

LEMMA OneVersion ==
    ASSUME NEW b \in 0..LastRevision, NEW d \in 0..LastRevision,
           Database(b) = Database(d)
    PROVE  b = d
<1>1. ASSUME NEW x \in 0..LastRevision, NEW y \in 0..LastRevision, x # 0,
             Database(x) = Database(y)
      PROVE  x = y
  <2>1. x \in Revisions /\ Stamp(x) \in Database(x)
    BY <1>1 DEF Database, Revisions
  <2>2. Stamp(x) \notin Schema(y)
    <3>1. Rev(Stamp(x).name) = 0
      BY <2>1, StampObject, StampNames
    <3> QED
      BY <3>1, SchemaObject
  <2>3. y \in Revisions /\ Stamp(x) = Stamp(y)
    BY <1>1, <2>1, <2>2, InDatabase
  <2> QED
    BY <2>1, <2>3, StampObject, StampNames
<1> QED
  BY <1>1

LEMMA RefuseKeeps ==
    ASSUME IInv, NEW m \in Migrators, Refuse(m)
    PROVE  IInv'
<1> USE DEF IInv
<1> DEFINE s == Script(at[m], target[m])[step[m] + 1]
           V == Seen(catalog, made[m], dropped[m])
<1>1. /\ InRevision(m) /\ ~Accepted(Visible(m), Statement(m))
      /\ End(m, "refused") /\ UNCHANGED <<catalog, overtaken>>
  BY DEF Refuse
<1>2. /\ at[m] \in 0..LastRevision /\ target[m] \in 0..LastRevision
      /\ step[m] \in Nat /\ made[m] \subseteq Objects /\ catalog \subseteq Objects
      /\ V = Visible(m) /\ s = Statement(m)
      /\ at[m] # target[m] /\ step[m] < Len(Script(at[m], target[m]))
  BY <1>1, Types DEF Statement
<1>3. ~Accepted(V, s) /\ Running(m)
  BY <1>1, <1>2 DEF InRevision
<1>4. ~Stamped(touched[m])
  <2> SUFFICES ASSUME Stamped(touched[m]) PROVE FALSE
    OBVIOUS
  <2>1. Seen(catalog, made[m], dropped[m]) = Expected(at[m], target[m], step[m])
    BY <1>3 DEF LeaderInv, Leading
  <2>2. LedOn(catalog, at[m], target[m], step[m], made[m], dropped[m])
    BY <1>2, <2>1, LeadOn
  <2> QED
    BY <1>3, <2>2 DEF LedOn
<1>5. overtaken[m]
  <2> SUFFICES ASSUME ~overtaken[m] PROVE FALSE
    OBVIOUS
  <2>1. /\ Following(catalog, at[m], target[m], step[m], made[m], dropped[m],
                     touched[m])
        /\ catalog = Database(at[m])
    BY <1>3, <1>4 DEF FollowerInv
  <2>2. Accepted(V, s)
    BY <1>2, <2>1, FollowerAccepted
  <2> QED
    BY <1>3, <2>2
<1> QED
  BY <1>1, <1>5, Ended

LEMMA AbortKeeps ==
    ASSUME IInv, NEW m \in Migrators, Abort(m)
    PROVE  IInv'
BY Ended DEF Abort

\* It commits the database at its target, or nothing.
LEMMA CommitDoes ==
    ASSUME IInv, NEW m \in Migrators, Commit(m),
           NEW b \in 0..LastRevision, catalog = Database(b)
    PROVE  \/ /\ Stamped(touched[m]) /\ touched[m] # {}
              /\ catalog' = Database(at[m]) /\ Guard(b) \in touched[m]
           \/ ~Stamped(touched[m]) /\ touched[m] = {} /\ catalog' = catalog
<1> USE DEF IInv
<1>1. /\ at[m] \in 0..LastRevision /\ Running(m) /\ at[m] = target[m]
      /\ catalog' = Seen(catalog, made[m], dropped[m])
  BY Types DEF Commit
<1>2. CASE Stamped(touched[m])
  <2>1. Leading(catalog, at[m], target[m], step[m], made[m], dropped[m], touched[m])
    BY <1>1, <1>2 DEF LeaderInv
  <2>2. PICK d \in 0..LastRevision : catalog = Database(d) /\ Guard(d) \in touched[m]
    BY <2>1 DEF Leading
  <2>3. d = b
    BY <2>2, OneVersion
  <2> QED
    BY <1>1, <1>2, <2>1, <2>2, <2>3 DEF Leading, Expected, Stamped
<1>3. CASE ~Stamped(touched[m])
  <2>1. Following(catalog, at[m], target[m], step[m], made[m], dropped[m],
                  touched[m])
    BY <1>1, <1>3 DEF FollowerInv
  <2> QED
    BY <1>1, <1>3, <2>1 DEF Following, Seen
<1> QED
  BY <1>2, <1>3

LEMMA CommitKeeps ==
    ASSUME IInv, NEW m \in Migrators, Commit(m)
    PROVE  IInv'
<1> USE DEF IInv
<1>1. /\ Running(m) /\ at[m] = target[m] /\ catalog' = Visible(m)
      /\ overtaken' = [n \in Migrators |->
             overtaken[n] \/ (n # m /\ Running(n) /\ touched[m] # {})]
      /\ End(m, "idle")
  BY DEF Commit
<1>2. /\ \A n \in Migrators : n # m =>
            /\ pc'[n] = pc[n] /\ target'[n] = target[n] /\ at'[n] = at[n]
            /\ step'[n] = step[n] /\ made'[n] = made[n]
            /\ dropped'[n] = dropped[n] /\ touched'[n] = touched[n]
            /\ overtaken'[n] =
                  (overtaken[n] \/ (Running(n) /\ touched[m] # {}))
      /\ pc'[m] = "idle" /\ made'[m] = {} /\ touched'[m] = {} /\ dropped'[m] = {}
      /\ step'[m] = 0
  BY <1>1 DEF End, TypeInv, TypeOK
<1>3. /\ at[m] \in 0..LastRevision /\ catalog \subseteq Objects
      /\ Visible(m) = Seen(catalog, made[m], dropped[m])
  BY Types
<1> PICK b \in 0..LastRevision : catalog = Database(b)
  BY CatalogIsDatabase
<1>4. \/ /\ Stamped(touched[m]) /\ touched[m] # {}
         /\ catalog' = Database(at[m]) /\ Guard(b) \in touched[m]
      \/ ~Stamped(touched[m]) /\ touched[m] = {} /\ catalog' = catalog
  BY CommitDoes
<1>5. CatalogMatchesVersion'
  BY <1>3, <1>4 DEF CatalogMatchesVersion, Database
<1>6. TypeInv'
  <2>1. catalog' \subseteq Objects
    <3>1. Database(at[m]) \subseteq Objects
      BY <1>3, InDatabase
    <3> QED
      BY <1>3, <1>4, <3>1
  <2>2. ASSUME NEW n \in Migrators
        PROVE  (InRevision(n) => step[n] < Len(Script(at[n], target[n])))'
    BY <1>2 DEF InRevision, Running, TypeInv, TypeOK
  <2>3. /\ pc' \in [Migrators -> {"idle", "running", "refused"}]
        /\ target' \in [Migrators -> Targets \cup {0}]
        /\ at' \in [Migrators -> 0..LastRevision]
        /\ step' \in [Migrators -> Nat]
        /\ made' \in [Migrators -> SUBSET Objects]
        /\ dropped' \in [Migrators -> SUBSET {o.name : o \in Objects}]
        /\ DOMAIN touched' = Migrators
    BY <1>1 DEF TypeInv, TypeOK, End
  <2>4. /\ read' \in [Migrators -> 0..LastRevision]
        /\ overtaken' \in [Migrators -> BOOLEAN]
    BY <1>1 DEF TypeInv, TypeOK, End
  <2> QED
    BY <2>1, <2>2, <2>3, <2>4 DEF TypeInv, TypeOK
<1>7. IdleInv'
  BY <1>2 DEF IdleInv, Running
<1>8. RefusedOnlyIfOvertaken'
  BY <1>2 DEF RefusedOnlyIfOvertaken
<1>9. LocksDisjoint' /\ MadeTouched'
  BY <1>2 DEF LocksDisjoint, MadeTouched
<1>10. LeaderInv'
  <2> SUFFICES ASSUME NEW n \in Migrators, (Running(n) /\ Stamped(touched[n]))'
               PROVE  Leading(catalog, at[n], target[n], step[n], made[n],
                              dropped[n], touched[n])'
    BY DEF LeaderInv
  <2>1. n # m
    BY <1>2 DEF Running
  <2>2. Leading(catalog, at[n], target[n], step[n], made[n], dropped[n], touched[n])
    BY <1>2, <2>1 DEF LeaderInv, Running
  <2>3. PICK d \in 0..LastRevision : catalog = Database(d) /\ Guard(d) \in touched[n]
    BY <2>2 DEF Leading
  <2>4. d = b
    BY <2>3, OneVersion
  <2>5. Guard(b) \notin touched[m]
    BY <2>1, <2>3, <2>4 DEF LocksDisjoint
  <2>6. catalog' = catalog
    BY <1>4, <2>5
  <2> QED
    BY <1>2, <2>1, <2>2, <2>6
<1>11. FollowerInv'
  <2> SUFFICES ASSUME NEW n \in Migrators, (Running(n) /\ ~Stamped(touched[n]))'
               PROVE  (/\ Following(catalog, at[n], target[n], step[n], made[n],
                                    dropped[n], touched[n])
                       /\ ~overtaken[n] => catalog = Database(at[n]))'
    BY DEF FollowerInv
  <2>1. n # m
    BY <1>2 DEF Running
  <2>2. /\ Following(catalog, at[n], target[n], step[n], made[n], dropped[n],
                     touched[n])
        /\ ~overtaken[n] => catalog = Database(at[n])
        /\ Running(n)
    BY <1>2, <2>1 DEF FollowerInv, Running
  <2>3. CASE touched[m] = {}
    <3>1. catalog' = catalog
      BY <1>4, <2>3
    <3> QED
      BY <1>2, <2>1, <2>2, <2>3, <3>1
  <2>4. CASE touched[m] # {}
    <3>1. Guard(b) \in touched[m] /\ catalog' = Seen(catalog, made[m], dropped[m])
      BY <1>1, <1>3, <1>4, <2>4
    <3>2. \A o \in made[m] : o.name \in touched[m] /\ o.refs \subseteq touched[m]
      BY DEF MadeTouched
    <3>3. touched[m] \cap touched[n] = {}
      BY <2>1 DEF LocksDisjoint
    <3>4. Following(Seen(catalog, made[m], dropped[m]), at[n], target[n], step[n],
                    made[n], dropped[n], touched[n])
      BY <2>2, <3>1, <3>2, <3>3, FollowersKeep
    <3>5. overtaken'[n]
      BY <1>2, <2>1, <2>2, <2>4
    <3> QED
      BY <1>2, <2>1, <3>1, <3>4, <3>5
  <2> QED
    BY <2>3, <2>4
<1> QED
  BY <1>5, <1>6, <1>7, <1>8, <1>9, <1>10, <1>11

-----------------------------------------------------------------------------
(* The theorems.                                                           *)

LEMMA InitIInv == Init => IInv
<1> SUFFICES ASSUME Init PROVE IInv
  OBVIOUS
<1> USE DEF Init
<1>1. TypeInv
  BY DEF TypeInv, TypeOK, InRevision, Running
<1>2. CatalogMatchesVersion
  <2>1. catalog = Schema(0) \cup {}
    BY NothingAtZero
  <2> QED
    BY <2>1 DEF CatalogMatchesVersion
<1>3. IdleInv /\ RefusedOnlyIfOvertaken /\ LocksDisjoint /\ MadeTouched
  BY DEF IdleInv, RefusedOnlyIfOvertaken, LocksDisjoint, MadeTouched
<1>4. LeaderInv /\ FollowerInv
  BY DEF LeaderInv, FollowerInv, Running
<1> QED
  BY <1>1, <1>2, <1>3, <1>4 DEF IInv

LEMMA NextIInv == IInv /\ [Next]_vars => IInv'
<1> SUFFICES ASSUME IInv, [Next]_vars PROVE IInv'
  OBVIOUS
<1>1. ASSUME NEW m \in Migrators, Begin(m) PROVE IInv'
  BY <1>1, BeginKeeps
<1>2. ASSUME NEW m \in Migrators, Execute(m) PROVE IInv'
  BY <1>2, ExecuteKeeps
<1>3. ASSUME NEW m \in Migrators, Refuse(m) PROVE IInv'
  BY <1>3, RefuseKeeps
<1>4. ASSUME NEW m \in Migrators, Abort(m) PROVE IInv'
  BY <1>4, AbortKeeps
<1>5. ASSUME NEW m \in Migrators, Commit(m) PROVE IInv'
  BY <1>5, CommitKeeps
<1>6. CASE UNCHANGED vars
  BY <1>6 DEF vars, IInv, TypeInv, TypeOK, InRevision, Running, IdleInv,
         CatalogMatchesVersion, RefusedOnlyIfOvertaken, LocksDisjoint, MadeTouched,
         LeaderInv, FollowerInv
<1> QED
  BY <1>1, <1>2, <1>3, <1>4, <1>5, <1>6 DEF Next

LEMMA Invariance == Spec => []IInv
BY InitIInv, NextIInv, PTL DEF Spec

\* Every command is at a statement of its script, and has created and dropped only
\* what some revision creates.
THEOREM TypeCorrect == Spec => []TypeOK
<1>1. IInv => TypeOK
  BY DEF IInv, TypeInv
<1> QED
  BY <1>1, Invariance, PTL

\* Whatever commands run beside each other, are refused or die, the database is
\* the one its version stands for: each downgrade takes away what its upgrade has
\* made, and a command that has read a version which is gone commits nothing.
THEOREM SchemaIsTheVersions == Spec => []CatalogMatchesVersion
<1>1. IInv => CatalogMatchesVersion
  BY DEF IInv
<1> QED
  BY <1>1, Invariance, PTL

\* From any revision to any other, no statement is refused of a command that no
\* other has overtaken.
THEOREM AloneNothingIsRefused == Spec => []RefusedOnlyIfOvertaken
<1>1. IInv => RefusedOnlyIfOvertaken
  BY DEF IInv
<1> QED
  BY <1>1, Invariance, PTL

-----------------------------------------------------------------------------
(* The refinement.  A command that leads has read the version that is      *)
(* committed; one that follows is still at the revision it has read.       *)

ReadInv ==
    \A m \in Migrators : Running(m) =>
        IF Stamped(touched[m]) THEN catalog = Database(read[m])
        ELSE read[m] = at[m]

LEMMA ExecuteKeepsRead ==
    ASSUME IInv, ReadInv, NEW m \in Migrators, Execute(m)
    PROVE  ReadInv'
<1> USE DEF IInv
<1> DEFINE s == Script(at[m], target[m])[step[m] + 1]
           V == Seen(catalog, made[m], dropped[m])
           S == touched[m] \cup Touched(V, s)
<1>1. /\ at[m] \in 0..LastRevision /\ target[m] \in 0..LastRevision
      /\ step[m] \in Nat /\ made[m] \subseteq Objects /\ catalog \subseteq Objects
      /\ V = Visible(m) /\ s = Statement(m)
  BY Types DEF Statement
<1>2. /\ InRevision(m) /\ Accepted(V, s)
      /\ touched' = [touched EXCEPT ![m] = S]
      /\ at' = [at EXCEPT ![m] = NextAt(at[m], target[m], step[m])]
      /\ UNCHANGED <<catalog, pc, read>>
  BY <1>1, ExecuteDoes
<1>3. /\ Running(m) /\ at[m] # target[m]
      /\ step[m] < Len(Script(at[m], target[m]))
  BY <1>2, Types DEF InRevision
<1>4. /\ \A n \in Migrators : n # m => at'[n] = at[n] /\ touched'[n] = touched[n]
      /\ at'[m] = NextAt(at[m], target[m], step[m]) /\ touched'[m] = S
  BY <1>2 DEF TypeInv, TypeOK
<1> PICK b \in 0..LastRevision : catalog = Database(b)
  BY CatalogIsDatabase
<1>5. ~Stamped(touched[m]) =>
          /\ ~Stamped(S) => at'[m] = at[m]
          /\ Stamped(S) => at[m] = b
  <2> SUFFICES ASSUME ~Stamped(touched[m])
               PROVE  /\ ~Stamped(S) => at'[m] = at[m]
                      /\ Stamped(S) => at[m] = b
    OBVIOUS
  <2>1. Following(catalog, at[m], target[m], step[m], made[m], dropped[m],
                  touched[m])
    BY <1>3 DEF FollowerInv
  <2>2. FollowedOn(catalog, at[m], target[m], step[m], made[m], dropped[m],
                   touched[m], b)
    BY <1>1, <1>2, <1>3, <2>1, FollowOn
  <2> QED
    BY <1>4, <2>2 DEF FollowedOn
<1>6. Stamped(touched[m]) => Stamped(S)
  BY DEF Stamped
<1> HIDE DEF S
<1>7. ASSUME NEW n \in Migrators, Running(n)'
      PROVE  (IF Stamped(touched[n]) THEN catalog = Database(read[n])
              ELSE read[n] = at[n])'
  <2>1. CASE n = m
    BY <1>2, <1>3, <1>4, <1>5, <1>6, <2>1 DEF ReadInv
  <2>2. CASE n # m
    BY <1>2, <1>4, <1>7, <2>2 DEF ReadInv, Running
  <2> QED
    BY <2>1, <2>2
<1> QED
  BY <1>7 DEF ReadInv

\* A command that leads holds the row another would have to change to commit.
LEMMA CommitKeepsRead ==
    ASSUME IInv, ReadInv, NEW m \in Migrators, Commit(m)
    PROVE  ReadInv'
<1> USE DEF IInv
<1> PICK b \in 0..LastRevision : catalog = Database(b)
  BY CatalogIsDatabase
<1>1. /\ \A n \in Migrators : n # m =>
            /\ pc'[n] = pc[n] /\ at'[n] = at[n] /\ read'[n] = read[n]
            /\ touched'[n] = touched[n]
      /\ pc'[m] = "idle"
  BY DEF Commit, End, TypeInv, TypeOK
<1>2. Guard(b) \in touched[m] \/ catalog' = catalog
  BY CommitDoes
<1> SUFFICES ASSUME NEW n \in Migrators, Running(n)'
             PROVE  (IF Stamped(touched[n]) THEN catalog = Database(read[n])
                     ELSE read[n] = at[n])'
  BY DEF ReadInv
<1>3. n # m /\ Running(n)
  BY <1>1 DEF Running
<1>4. CASE Stamped(touched[n])
  <2>1. Leading(catalog, at[n], target[n], step[n], made[n], dropped[n], touched[n])
    BY <1>3, <1>4 DEF LeaderInv
  <2>2. PICK d \in 0..LastRevision : catalog = Database(d) /\ Guard(d) \in touched[n]
    BY <2>1 DEF Leading
  <2>3. Guard(b) \in touched[n]
    BY <2>2, OneVersion
  <2>4. catalog' = catalog
    BY <1>2, <1>3, <2>3 DEF LocksDisjoint
  <2> QED
    BY <1>1, <1>3, <1>4, <2>4 DEF ReadInv
<1>5. CASE ~Stamped(touched[n])
  BY <1>1, <1>3, <1>5 DEF ReadInv
<1> QED
  BY <1>4, <1>5

LEMMA NextReadInv == IInv /\ ReadInv /\ [Next]_vars => ReadInv'
<1> SUFFICES ASSUME IInv, ReadInv, [Next]_vars PROVE ReadInv'
  OBVIOUS
<1>1. ASSUME NEW m \in Migrators, Begin(m) PROVE ReadInv'
  <2>1. /\ \A n \in Migrators : n # m =>
              pc'[n] = pc[n] /\ at'[n] = at[n] /\ read'[n] = read[n]
        /\ at'[m] = read'[m] /\ UNCHANGED <<catalog, touched>>
    BY <1>1 DEF Begin, IInv, TypeInv, TypeOK
  <2>2. ~Stamped(touched[m])
    BY <1>1 DEF Begin, IInv, IdleInv, Stamped
  <2> QED
    BY <2>1, <2>2 DEF ReadInv, Running
<1>2. ASSUME NEW m \in Migrators, Execute(m) PROVE ReadInv'
  BY <1>2, ExecuteKeepsRead
<1>3. ASSUME NEW m \in Migrators, Refuse(m) \/ Abort(m) PROVE ReadInv'
  <2>1. /\ \A n \in Migrators : n # m =>
              /\ pc'[n] = pc[n] /\ at'[n] = at[n] /\ read'[n] = read[n]
              /\ touched'[n] = touched[n]
        /\ pc'[m] # "running" /\ UNCHANGED catalog
    BY <1>3 DEF Refuse, Abort, End, IInv, TypeInv, TypeOK
  <2> QED
    BY <2>1 DEF ReadInv, Running
<1>4. ASSUME NEW m \in Migrators, Commit(m) PROVE ReadInv'
  BY <1>4, CommitKeepsRead
<1>5. CASE UNCHANGED vars
  BY <1>5 DEF vars, ReadInv, Running
<1> QED
  BY <1>1, <1>2, <1>3, <1>4, <1>5 DEF Next

LEMMA ReadInvariance == Spec => []ReadInv
<1>1. Init => ReadInv
  BY DEF Init, ReadInv, Running
<1> QED
  BY <1>1, NextReadInv, Invariance, PTL DEF Spec

LEMMA VersionOfDatabase ==
    ASSUME NEW b \in 0..LastRevision
    PROVE  VersionOf(Database(b)) = b
<1>1. \A v \in 0..LastRevision :
          Versions(Database(b)) = {v} \ {0} <=> v = b
  BY VersionsOfDatabase
<1> QED
  BY <1>1 DEF VersionOf

LEMMA InitRefines == Init => Promise!Init
<1> SUFFICES ASSUME Init PROVE Promise!Init
  OBVIOUS
<1>1. VersionOf(catalog) = 0
  BY NothingAtZero, VersionOfDatabase DEF Init
<1> QED
  BY <1>1 DEF Init, Promise!Init, Running

LEMMA StepRefines ==
    IInv /\ ReadInv /\ [Next]_vars => [Promise!Next]_(Promise!vars)
<1> SUFFICES ASSUME IInv, ReadInv, [Next]_vars
             PROVE  [Promise!Next]_(Promise!vars)
  OBVIOUS
<1> DEFINE R == {m \in Migrators : Running(m)}
<1> PICK b \in 0..LastRevision : catalog = Database(b)
  BY CatalogIsDatabase DEF IInv
<1>0. VersionOf(catalog) = b
  BY VersionOfDatabase
<1>1. ASSUME NEW m \in Migrators, Begin(m) PROVE Promise!Start(m)
  <2>1. PICK v \in 0..LastRevision :
           Versions(catalog) = {v} \ {0} /\ read' = [read EXCEPT ![m] = v]
    BY <1>1 DEF Begin
  <2>2. v = b
    BY <2>1, VersionsOfDatabase
  <2>3. m \notin R /\ R' = R \cup {m}
    BY <1>1 DEF Begin, Running, IInv, TypeInv, TypeOK
  <2> QED
    BY <1>0, <1>1, <2>1, <2>2, <2>3 DEF Begin, Promise!Start
<1>2. ASSUME NEW m \in Migrators, Execute(m) PROVE UNCHANGED Promise!vars
  BY <1>2 DEF Execute, Promise!vars, Running
<1>3. ASSUME NEW m \in Migrators, Running(m), NEW how \in {"idle", "refused"},
             End(m, how)
      PROVE  Promise!Leave(m)
  <2>1. m \in R /\ R' = R \ {m}
    BY <1>3 DEF End, Running, IInv, TypeInv, TypeOK
  <2> QED
    BY <1>3, <2>1 DEF End, Promise!Leave
<1>4. ASSUME NEW m \in Migrators, Refuse(m) \/ Abort(m) PROVE Promise!GiveUp(m)
  BY <1>3, <1>4 DEF Refuse, Abort, InRevision, Promise!GiveUp
<1>5. ASSUME NEW m \in Migrators, Commit(m)
      PROVE  Promise!Finish(m) \/ Promise!GiveUp(m)
  <2>1. Promise!Leave(m) /\ Running(m) /\ at[m] = target[m]
    BY <1>3, <1>5 DEF Commit
  <2>2. CASE Stamped(touched[m]) /\ catalog' = Database(at[m])
    <3>1. at[m] \in 0..LastRevision /\ read[m] \in 0..LastRevision
      BY DEF IInv, TypeInv, TypeOK
    <3>2. VersionOf(catalog)' = target[m]
      BY <2>1, <2>2, <3>1, VersionOfDatabase
    <3>3. read[m] = b
      BY <2>1, <2>2, <3>1, OneVersion DEF ReadInv
    <3> QED
      BY <1>0, <2>1, <3>2, <3>3 DEF Promise!Finish
  <2>3. CASE catalog' = catalog
    BY <2>1, <2>3 DEF Promise!GiveUp
  <2> QED
    BY <1>5, <2>2, <2>3, CommitDoes
<1>6. CASE UNCHANGED vars
  BY <1>6 DEF vars, Promise!vars, Running
<1> QED
  BY <1>1, <1>2, <1>4, <1>5, <1>6 DEF Next, Promise!Next

\* Commands that run side by side, statement by statement, do what SchemaVersion
\* lets them do in one step each.
THEOREM KeepsPromise == Spec => PromiseSpec
BY InitRefines, StepRefines, Invariance, ReadInvariance, PTL
   DEF Spec, PromiseSpec, Promise!Spec
=============================================================================
