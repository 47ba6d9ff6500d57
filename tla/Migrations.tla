----------------------------- MODULE Migrations -----------------------------
(***************************************************************************)
(* The embedded migrations of internal/db/migrator.go.  Every server that  *)
(* starts applies the missing ones before it serves (RunServer), as does   *)
(* `migrate up`; `migrate down` reverts the latest.  Nothing keeps two     *)
(* processes from doing so at once: what they share is the database, its   *)
(* table locks and the primary key of schema_migrations.                   *)
(*                                                                         *)
(* A migration is its version.  Its script alters the tables of the one    *)
(* before, or creates or drops the first ones, so of two scripts only one  *)
(* gets to its end before the other's transaction is over: here a script   *)
(* waits as a whole.  Two that create one table meet in the catalog, and   *)
(* the second fails when the first commits, as it would on the row of its  *)
(* version (Conflict).  The first script up and the first down lock their  *)
(* tables in opposite orders, and the database aborts one of them, which   *)
(* leaves nothing behind (Break).                                          *)
(***************************************************************************)
EXTENDS Integers, FiniteSets, FiniteSetsExt

CONSTANTS Appliers,   \* processes that run ApplyAll
          Reverters,  \* processes that run DownOne
          Latest,     \* the last version
          Nobody

ASSUME MigrationsAssumption ==
    /\ Appliers \cap Reverters = {}
    /\ Latest \in Nat \ {0}
    /\ Nobody \notin Appliers \cup Reverters

Versions == 1 .. Latest

Processes == Appliers \cup Reverters

VARIABLES tableExists,  \* there is a schema_migrations table
          recorded,     \* its rows
          present,      \* the versions whose tables and columns exist
          holder,       \* the process whose transaction holds the table locks
          saved,        \* what its ROLLBACK brings back of present
          stage, todo,  \* of each process: where it is, the versions it will work on
          reverted,     \* a migration was reverted (history)
          faulted       \* a process failed or died for another reason (history)

database == <<tableExists, recorded, present, holder, saved>>

history == <<reverted, faulted>>

vars == <<database, stage, todo, history>>

Stages == {"start", "creating", "reading", "working", "inTransaction", "done", "failed"}

TypeOK ==
    /\ tableExists \in BOOLEAN /\ reverted \in BOOLEAN /\ faulted \in BOOLEAN
    /\ recorded \subseteq Versions /\ present \subseteq Versions /\ saved \subseteq Versions
    /\ holder \in Processes \cup {Nobody}
    /\ stage \in [Processes -> Stages]
    /\ todo \in [Processes -> SUBSET Versions]

Init ==
    /\ tableExists = FALSE
    /\ recorded = {} /\ present = {} /\ saved = {}
    /\ holder = Nobody
    /\ stage = [p \in Processes |-> "start"]
    /\ todo = [p \in Processes |-> {}]
    /\ reverted = FALSE /\ faulted = FALSE

-----------------------------------------------------------------------------
GoTo(p, s) == stage' = [stage EXCEPT ![p] = s]

\* The version in work: migrations are applied in order.
Current(p) == Min(todo[p])

\* Mutant: the versions already applied are not skipped.
AppliesAgain(p) == Versions

\* Mutant: an empty table is read as "revert version 0".
RevertsZero(p) == IF p \in Appliers THEN Versions \ recorded ELSE {Max(recorded \cup {0})}

\* What the process will do, from the rows it reads.
Plan(p) ==
    IF p \in Appliers THEN Versions \ recorded
    ELSE IF recorded = {} THEN {} ELSE {Max(recorded)}

\* The script of a version needs the tables of the one before it.
Applicable(v) == v = 1 \/ v - 1 \in present

\* Mutant: the down scripts drop dependent tables too.
RemovableByCascade(v) == TRUE

\* Tables that a later version refers to cannot be dropped, and the down scripts alter
\* the tables of the version before: they fail where those are gone.
Removable(v) == v + 1 \notin present /\ Applicable(v)

\* Mutant: the transaction of a process that gives up stays open.
LeavesTransaction(p) ==
    /\ GoTo(p, "failed")
    /\ UNCHANGED <<database, todo>>

\* Mutant: scripts are run outside the transaction that records them.
KeepsHalf(p) ==
    /\ GoTo(p, "failed")
    /\ holder' = IF holder = p THEN Nobody ELSE holder
    /\ UNCHANGED <<tableExists, recorded, present, saved, todo>>

\* The process returns an error; an open transaction is rolled back.
GiveUp(p) ==
    /\ GoTo(p, "failed")
    /\ IF holder = p
         THEN holder' = Nobody /\ present' = saved
         ELSE UNCHANGED <<holder, present>>
    /\ UNCHANGED <<tableExists, recorded, saved, todo>>

-----------------------------------------------------------------------------
\* CREATE TABLE IF NOT EXISTS schema_migrations: looks, then creates.
LookForTable(p) ==
    /\ stage[p] = "start"
    /\ GoTo(p, IF tableExists THEN "reading" ELSE "creating")
    /\ UNCHANGED <<database, todo, history>>

\* Creating what somebody else has created in between is an error.
CreateTable(p) ==
    /\ stage[p] = "creating"
    /\ IF tableExists
         THEN GiveUp(p)
         ELSE /\ tableExists' = TRUE
              /\ GoTo(p, "reading")
              /\ UNCHANGED <<recorded, present, holder, saved, todo>>
    /\ UNCHANGED history

ReadRecorded(p) ==
    /\ stage[p] = "reading"
    /\ todo' = [todo EXCEPT ![p] = Plan(p)]
    /\ GoTo(p, "working")
    /\ UNCHANGED <<database, history>>

\* Opens a transaction and runs the script of the next version in it, after
\* whoever holds the tables.  Scripts say IF [NOT] EXISTS: one that has been run
\* since finds nothing to do.
RunScript(p) ==
    /\ stage[p] = "working" /\ todo[p] # {}
    /\ holder = Nobody
    /\ IF IF p \in Appliers THEN Applicable(Current(p)) ELSE Removable(Current(p))
         THEN /\ holder' = p
              /\ saved' = present
              /\ present' = IF p \in Appliers THEN present \cup {Current(p)}
                                              ELSE present \ {Current(p)}
              /\ GoTo(p, "inTransaction")
              /\ UNCHANGED <<tableExists, recorded, todo>>
         ELSE GiveUp(p)
    /\ UNCHANGED history

\* Mutant: a duplicate row means that another process has migrated already.
TrustsTheOther(p) ==
    /\ stage[p] = "inTransaction"
    /\ p \in Appliers /\ Current(p) \in recorded
    /\ GoTo(p, "done")
    /\ holder' = Nobody /\ present' = saved
    /\ UNCHANGED <<tableExists, recorded, saved, todo, history>>

\* The row is there already: another process has applied this version since.
Conflict(p) ==
    /\ stage[p] = "inTransaction"
    /\ p \in Appliers /\ Current(p) \in recorded
    /\ GiveUp(p)
    /\ UNCHANGED history

\* The row is written or deleted and the transaction commits.
Commit(p) ==
    /\ stage[p] = "inTransaction"
    /\ IF p \in Appliers
         THEN /\ Current(p) \notin recorded
              /\ recorded' = recorded \cup {Current(p)}
              /\ UNCHANGED reverted
         ELSE /\ recorded' = recorded \ {Current(p)}
              /\ reverted' = TRUE
    /\ holder' = Nobody
    /\ todo' = [todo EXCEPT ![p] = @ \ {Current(p)}]
    /\ GoTo(p, "working")
    /\ UNCHANGED <<tableExists, present, saved, faulted>>

\* Nothing is left to do: the server goes on to serve, the command ends.
Finish(p) ==
    /\ stage[p] = "working" /\ todo[p] = {}
    /\ GoTo(p, "done")
    /\ UNCHANGED <<database, todo, history>>

\* A statement or the commit fails, a signal cancels the context, or the process
\* dies: the database rolls the transaction back.
Break(p) ==
    /\ stage[p] \in {"start", "creating", "reading", "working", "inTransaction"}
    /\ GiveUp(p)
    /\ faulted' = TRUE
    /\ UNCHANGED reverted

\* A server is started again, after a failure or in a later deployment.
Restart(p) ==
    /\ p \in Appliers /\ stage[p] \in {"done", "failed"}
    /\ GoTo(p, "start")
    /\ todo' = [todo EXCEPT ![p] = {}]
    /\ UNCHANGED <<database, history>>

Step(p) ==
    \/ LookForTable(p) \/ CreateTable(p) \/ ReadRecorded(p)
    \/ RunScript(p) \/ Conflict(p) \/ Commit(p) \/ Finish(p)

Next == \E p \in Processes : Step(p) \/ Break(p) \/ Restart(p)

Spec == Init /\ [][Next]_vars

\* The database answers and the tables are granted in turn: a process that could
\* run its script again and again does so.
FairSpec == Spec /\ \A p \in Processes : WF_vars(Step(p)) /\ SF_vars(RunScript(p))

-----------------------------------------------------------------------------
\* schema_migrations never lies: whatever fails, dies or starts again, and although
\* a process may run the script of a version another has applied or reverted since,
\* a version has a row exactly when its tables are there for others to see.
LedgerMatchesSchema == holder = Nobody => recorded = present

\* What others see of the tables: an open transaction shows them nothing.
VisibleTables == IF holder = Nobody THEN present ELSE saved

Atomic == INSTANCE AtomicMigrations WITH rows <- recorded, tables <- VisibleTables

\* The migrations implement AtomicMigrations: with the statements of a migration and
\* of its row, the conflicts and the deaths between them, the others still see whole
\* versions, one up or one down at a time.
MigratesAtomically == Atomic!Spec

\* The versions applied have no hole, although every process works from rows it
\* read earlier and a revert may run between.
NoGaps == \A v \in recorded : 1 .. v \subseteq recorded

\* A server that gets to serve finds the whole schema, unless a migration was
\* reverted under it.
ServesWholeSchema ==
    (\E p \in Appliers : stage[p] = "done") /\ ~reverted => recorded = Versions

\* Processes that start together make each other fail, on the table, on a row or on
\* a dependency, but never all of them: with no other fault, one gets through.
SomeoneSurvives == ~faulted => \E p \in Processes : stage[p] # "failed"

\* A start never hangs: the tables are always given back.
EveryStartEnds == \A p \in Processes : stage[p] = "start" ~> stage[p] \in {"done", "failed"}
=============================================================================
