--------------------------- MODULE SchemaVersion ---------------------------
(***************************************************************************)
(* What alembic promises of a database that several commands migrate at    *)
(* once, without statements and locks: a command that does anything takes  *)
(* the database in one step from the version it has read to the one it was *)
(* told, and only if the version is still what it has read.  All others    *)
(* leave the database as it is.                                            *)
(***************************************************************************)
EXTENDS Naturals

CONSTANTS
    Migrators,  \* processes that run commands
    Targets     \* versions they are told to go to

VARIABLES
    version,  \* of the database, 0 when it is empty
    running,  \* the processes at work
    read,     \* the version each has found
    goal      \* where each goes

vars == <<version, running, read, goal>>

Init ==
    /\ version = 0
    /\ running = {}
    /\ read = [m \in Migrators |-> 0]
    /\ goal = [m \in Migrators |-> 0]

Start(m) ==
    /\ m \notin running
    /\ running' = running \cup {m}
    /\ read' = [read EXCEPT ![m] = version]
    /\ \E t \in Targets : goal' = [goal EXCEPT ![m] = t]
    /\ UNCHANGED version

Leave(m) ==
    /\ m \in running
    /\ running' = running \ {m}
    /\ read' = [read EXCEPT ![m] = 0]
    /\ goal' = [goal EXCEPT ![m] = 0]

Finish(m) ==
    /\ read[m] = version
    /\ version' = goal[m]
    /\ Leave(m)

\* Refused, killed, or with nothing to do.
GiveUp(m) ==
    /\ Leave(m)
    /\ UNCHANGED version

Next == \E m \in Migrators : Start(m) \/ Finish(m) \/ GiveUp(m)

Spec == Init /\ [][Next]_vars
=============================================================================
