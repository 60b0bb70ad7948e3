-------------------------- MODULE SchemaMigrations --------------------------
(***************************************************************************)
(* How processes bring manager.db to their schema (core/migrations.py and  *)
(* initialize of core/repository.py).  The server, the administrative CLI  *)
(* and, in an update, the server of the release before do so side by side. *)
(***************************************************************************)
EXTENDS Naturals

CONSTANTS
    Processes,
    Older,       \* those of the release before the last migration
    Latest,      \* LATEST_SCHEMA_VERSION
    MaxStarts,   \* bound: starts of a process
    MaxFailures  \* bound: migrations that raise, and deaths

ASSUME MigrationsAssumption ==
    /\ Older \subseteq Processes
    /\ Latest \in Nat \ {0} /\ MaxStarts \in Nat /\ MaxFailures \in Nat

VARIABLES
    version, \* PRAGMA user_version
    schema,  \* migrations whose statements are committed
    used,    \* the file is not empty
    backups, \* version |-> "none", "empty", or the schema of its copy
    at,      \* process |-> where it is
    before,  \* process |-> the version initialize read
    reached, \* process |-> the version run_migrations goes on from
    starts,
    failures

fileVars == <<version, schema, used>>
readVars == <<before, reached>>
schemaVars == <<fileVars, backups, at, readVars, starts, failures>>

Versions == 0 .. Latest
Migrations == 1 .. Latest
Supported(p) == IF p \in Older THEN Latest - 1 ELSE Latest

SchemaTypeOK ==
    /\ version \in Versions /\ schema \subseteq Migrations /\ used \in BOOLEAN
    /\ backups \in [Versions -> {[is |-> "none"], [is |-> "empty"]} \cup [is : {"copy"}, of : SUBSET Migrations]]
    /\ at \in [Processes -> {"down", "backup", "copy", "plan", "migrate", "serving"}]
    /\ before \in [Processes -> Versions] /\ reached \in [Processes -> Versions]

\* A new file, or what some release left
SchemaInit ==
    /\ version \in Versions
    /\ schema = 1 .. version
    /\ used \in IF version = 0 THEN BOOLEAN ELSE {TRUE}
    /\ backups = [v \in Versions |-> [is |-> "none"]]
    /\ at = [p \in Processes |-> "down"]
    /\ before = [p \in Processes |-> 0] /\ reached = before
    /\ starts = 0 /\ failures = 0

Moves(p, step) == at' = [at EXCEPT ![p] = step]

\* initialize, up to the choice to back up
Start(p) ==
    /\ at[p] = "down" /\ starts < MaxStarts
    /\ starts' = starts + 1
    /\ before' = [before EXCEPT ![p] = version]
    /\ Moves(p, IF used /\ version < Supported(p) THEN "backup" ELSE "plan")
    /\ UNCHANGED <<fileVars, backups, reached, failures>>

\* _backup_before_migration: a file with that name is returned as it is;
\* connecting to a new one creates it
Backup(p) ==
    /\ at[p] = "backup"
    /\ IF backups[before[p]].is # "none" THEN Moves(p, "plan") /\ UNCHANGED backups
       ELSE Moves(p, "copy") /\ backups' = [backups EXCEPT ![before[p]] = [is |-> "empty"]]
    /\ UNCHANGED <<fileVars, readVars, starts, failures>>

Copy(p) ==
    /\ at[p] = "copy"
    /\ backups' = [backups EXCEPT ![before[p]] = [is |-> "copy", of |-> schema]]
    /\ Moves(p, "plan")
    /\ UNCHANGED <<fileVars, readVars, starts, failures>>

\* run_migrations reads the version once and refuses a newer one
Plan(p) ==
    /\ at[p] = "plan"
    /\ reached' = [reached EXCEPT ![p] = version]
    /\ Moves(p, IF version > Supported(p) THEN "down" ELSE "migrate")
    /\ UNCHANGED <<fileVars, backups, before, starts, failures>>

\* One migration and its version, in one transaction.  Its statements say IF
\* NOT EXISTS, so one that was applied changes nothing
Migrate(p) ==
    /\ at[p] = "migrate" /\ reached[p] < Supported(p)
    /\ schema' = schema \cup {reached[p] + 1}
    /\ version' = reached[p] + 1
    /\ used' = TRUE
    /\ reached' = [reached EXCEPT ![p] = @ + 1]
    /\ UNCHANGED <<backups, at, before, starts, failures>>

\* mutant: the version is outside the transaction that is rolled back
RolledBack_KeepsVersion(p) == version' = reached[p] + 1 /\ UNCHANGED <<schema, used>>

RolledBack(p) == UNCHANGED fileVars

\* A statement raises: the migration is rolled back and the process ends
MigrationFails(p) ==
    /\ at[p] = "migrate" /\ reached[p] < Supported(p) /\ failures < MaxFailures
    /\ failures' = failures + 1
    /\ RolledBack(p)
    /\ Moves(p, "down")
    /\ UNCHANGED <<backups, readVars, starts>>

Serve(p) ==
    /\ at[p] = "migrate" /\ reached[p] >= Supported(p)
    /\ Moves(p, "serving")
    /\ UNCHANGED <<fileVars, backups, readVars, starts, failures>>

\* a command ends, a server stops
Stop(p) ==
    /\ at[p] = "serving"
    /\ Moves(p, "down")
    /\ UNCHANGED <<fileVars, backups, readVars, starts, failures>>

Die(p) ==
    /\ at[p] \notin {"down", "serving"} /\ failures < MaxFailures
    /\ failures' = failures + 1
    /\ Moves(p, "down")
    /\ UNCHANGED <<fileVars, backups, readVars, starts>>

SchemaNext ==
    \E p \in Processes :
        Start(p) \/ Backup(p) \/ Copy(p) \/ Plan(p) \/ Migrate(p) \/ MigrationFails(p)
        \/ Serve(p) \/ Stop(p) \/ Die(p)

SchemaSpec == SchemaInit /\ [][SchemaNext]_schemaVars

-----------------------------------------------------------------------------
(* Properties                                                              *)

\* What user_version claims is there
SchemaCoversVersion == 1 .. version \subseteq schema

\* A process serves only on every migration it knows, whatever versions other
\* processes wrote while it migrated, and whoever failed before
ServesOnItsSchema ==
    \A p \in Processes : at[p] = "serving" => 1 .. Supported(p) \subseteq schema

=============================================================================
