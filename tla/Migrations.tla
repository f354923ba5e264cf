------------------------------- MODULE Migrations ------------------------------
(***************************************************************************)
(* storage.Open: the migrations of the database, which the writer          *)
(* connection applies before anything else. Step 1 executes schema.sql     *)
(* statement by statement, every other step is a transaction that ends     *)
(* with its version. Nothing keeps the program from being started twice,   *)
(* so that two processes may migrate one database at a time.               *)
(***************************************************************************)
EXTENDS Integers, FiniteSets, FiniteSetsExt

CONSTANTS
  Processes,
  Tables,    \* that schema.sql creates
  Threads,   \* rows of an old database
  MaxFailures  \* bound: crashes, statements that fail

ASSUME MigrationsAssumption ==
  IsFiniteSet(Processes) /\ Tables \in Nat \ {0} /\ IsFiniteSet(Threads) /\ MaxFailures \in Nat

\* The database.
VARIABLES
  tables,      \* how many of the tables of schema.sql there are
  added,       \* the steps whose tables and columns there are, but for the first's
  versions,    \* schema_migrations
  unassigned,  \* there are accounts without a profile
  drifted,     \* threads whose statistics are not those of their messages
  ghosts       \* threads without messages

\* Open, in each process.
VARIABLES pc, next, failures

content == <<unassigned, drifted, ghosts>>
database == <<tables, added, versions, content>>
migrationsVars == <<database, pc, next, failures>>

Last == 9
Failure == failures < MaxFailures /\ failures' = failures + 1

\* Types; the index of the next statement or step stays within its list.
MigrationsTypeOK ==
  /\ tables \in 0..Tables /\ added \subseteq 2..Last /\ versions \subseteq 1..Last
  /\ unassigned \in BOOLEAN /\ drifted \subseteq Threads /\ ghosts \subseteq Threads
  /\ pc \in [Processes -> {"closed", "read", "create", "apply", "open"}]
  /\ next \in [Processes -> Nat]
  /\ \A p \in Processes : next[p] <= IF pc[p] = "create" THEN Tables ELSE Last + 1
  /\ failures \in 0..MaxFailures

\* A new database, or one as some earlier version has left it, with the flaws of its time.
MigrationsInit ==
  /\ \E v \in 0..Last :
       /\ versions = 1..v /\ added = 2..v
       /\ tables = IF v = 0 THEN 0 ELSE Tables
       /\ unassigned \in BOOLEAN /\ (unassigned => v = 1)
       /\ drifted \in SUBSET Threads /\ (drifted # {} => v \in 1..3)
       /\ ghosts \in SUBSET Threads /\ (ghosts # {} => v \in 1..4)
  /\ pc = [p \in Processes |-> "closed"] /\ next = [p \in Processes |-> 0]
  /\ failures = 0

-----------------------------------------------------------------------------
Goes(p, place, n) == pc' = [pc EXCEPT ![p] = place] /\ next' = [next EXCEPT ![p] = n]

\* The table of versions is created if there is none.
Start(p) ==
  /\ pc[p] = "closed"
  /\ Goes(p, "read", 0)
  /\ UNCHANGED <<database, failures>>

\* Mutant: one version too far.
CurrentAndOne == IF versions = {} THEN 0 ELSE Min({Last, Max(versions) + 1})

\* Mutant: what is recorded is not looked at.
CurrentUnread == 0

Current == IF versions = {} THEN 0 ELSE Max(versions)

\* migrate: the steps above the current version, which is read once, are to be applied.
ReadVersion(p) ==
  /\ pc[p] = "read"
  /\ IF Current = 0 THEN Goes(p, "create", 0) ELSE Goes(p, "apply", Current + 1)
  /\ UNCHANGED <<database, failures>>

\* applyMigrationV1: each statement of schema.sql commits by itself. A table that is
\* there already, or a version, fails, and so does Open.
CreateTable(p) ==
  LET n == next[p] IN
  /\ pc[p] = "create"
  /\ \/ /\ n < Tables
        /\ IF tables = n THEN tables' = n + 1 /\ Goes(p, "create", n + 1)
           ELSE Goes(p, "closed", 0) /\ UNCHANGED tables
        /\ UNCHANGED versions
     \/ /\ n = Tables
        /\ IF 1 \notin versions THEN versions' = versions \cup {1} /\ Goes(p, "apply", 2)
           ELSE Goes(p, "closed", 0) /\ UNCHANGED versions
        /\ UNCHANGED tables
  /\ UNCHANGED <<added, content, failures>>

\* V2 gives accounts the profile "Default", V4 computes the statistics of the threads,
\* V5 deletes those without messages.
Repairs(v) ==
  /\ unassigned' = (unassigned /\ v # 2)
  /\ drifted' = IF v = 4 THEN {} ELSE drifted
  /\ ghosts' = IF v = 5 THEN {} ELSE ghosts

\* Mutant: no transaction holds a step together.
ApplyInParts(p) ==
  LET v == next[p] IN
  /\ pc[p] = "apply" /\ v <= Last
  /\ \/ /\ v \notin added
        /\ added' = added \cup {v} /\ Repairs(v) /\ UNCHANGED <<versions, pc, next>>
     \/ /\ v \in added
        /\ IF v \in versions THEN Goes(p, "closed", 0) /\ UNCHANGED versions
           ELSE versions' = versions \cup {v} /\ Goes(p, "apply", v + 1)
        /\ UNCHANGED <<added, content>>
  /\ UNCHANGED <<tables, failures>>

\* applyMigrationV2 to V9: one transaction, in which a column that is there already is
\* no error, but a version is: it is rolled back, and Open fails.
Apply(p) ==
  LET v == next[p] IN
  /\ pc[p] = "apply" /\ v <= Last
  /\ IF v \in versions
     THEN Goes(p, "closed", 0) /\ UNCHANGED <<added, versions, content>>
     ELSE /\ added' = added \cup {v} /\ versions' = versions \cup {v} /\ Repairs(v)
          /\ Goes(p, "apply", v + 1)
  /\ UNCHANGED <<tables, failures>>

Opened(p) ==
  /\ pc[p] = "apply" /\ next[p] > Last
  /\ Goes(p, "open", 0)
  /\ UNCHANGED <<database, failures>>

\* A statement fails, for the disk or another's lock, or the process ends: what a
\* transaction has not committed is gone.
Fails(p) ==
  /\ Failure
  /\ pc[p] # "closed" /\ Goes(p, "closed", 0)
  /\ UNCHANGED database

Close(p) ==
  /\ pc[p] = "open" /\ Goes(p, "closed", 0)
  /\ UNCHANGED <<database, failures>>

Works(p) == Start(p) \/ ReadVersion(p) \/ CreateTable(p) \/ Apply(p) \/ Opened(p)
MigrationsNext == \E p \in Processes : Works(p) \/ Fails(p) \/ Close(p)
MigrationsSpec == MigrationsInit /\ [][MigrationsNext]_migrationsVars

\* The user starts the program again, and it goes on.
MigrationsFairSpec == MigrationsSpec /\ \A p \in Processes : WF_migrationsVars(Works(p))

-----------------------------------------------------------------------------
(* Properties.                                                             *)

\* What the database has is what its versions say, at every instant: a crash, a failure
\* or a second process leaves no step half done. The first step may be.
SchemaMatchesVersions ==
  /\ versions = 1..Cardinality(versions)
  /\ added = versions \ {1}
  /\ versions # {} => tables = Tables

\* Once Open returns, the database is that of the last version, free of the flaws of
\* older ones: also if another process applied some of the steps.
OpenIsMigrated ==
  (\E p \in Processes : pc[p] = "open")
    => versions = 1..Last /\ ~unassigned /\ drifted = {} /\ ghosts = {}

\* schema.sql was left halfway, and nobody goes on with it.
Torn == tables > 0 /\ versions = {} /\ \A p \in Processes : pc[p] = "create" => next[p] # tables

\* Starting the program again and again opens the database, unless its first step was
\* interrupted: then no start ever will.
Reopens == \A p \in Processes : pc[p] = "closed" ~> pc[p] = "open" \/ Torn
=============================================================================
