-------------------------- MODULE AtomicMigrations --------------------------
(***************************************************************************)
(* What the migrations promise to whoever looks at the database, by any    *)
(* number of processes: the schema is always that of some version, its     *)
(* rows say which, and both move to the next or to the previous version    *)
(* in one step.                                                            *)
(***************************************************************************)
EXTENDS Integers

CONSTANT Latest

VARIABLES rows,   \* the versions that are recorded
          tables  \* the versions whose tables are there

At(v) == rows = 1 .. v /\ tables = 1 .. v

Init == At(0)

MigrateUp(v) == At(v - 1) /\ At(v)'

MigrateDown(v) == At(v) /\ At(v - 1)'

Next == \E v \in 1 .. Latest : MigrateUp(v) \/ MigrateDown(v)

Spec == Init /\ [][Next]_<<rows, tables>>
=============================================================================
