------------------------------ MODULE MCStores ------------------------------
(***************************************************************************)
(* The parts of the control plane that keep a store of their own and share *)
(* no state with each other: accounts, backups, telemetry, players and the *)
(* schema.  A behaviour is one of one part, the others rest; so one run    *)
(* checks each of them as it would be checked alone.                       *)
(***************************************************************************)
EXTENDS Authentication, BackupRestore, TelemetryStream, PlayerSessions, SchemaMigrations

VARIABLE part \* the part that runs

Init ==
    /\ part \in {"accounts", "backups", "telemetry", "players", "schema"}
    /\ AuthInit /\ BackupInit /\ TelemetryInit /\ VisitsInit /\ SchemaInit
    \* a part that rests has one initial state
    /\ part # "backups" => ~running
    /\ part # "players" => gamertag = CHOOSE g \in [Xuids -> Names] : \A x, y \in Xuids : g[x] = g[y] => x = y
    /\ part # "schema" => version = 0 /\ ~used

Runs(name) == part = name /\ UNCHANGED part

Next ==
    \/ Runs("accounts") /\ AuthNext /\ UNCHANGED <<backupVars, telemetryVars, visitVars, schemaVars>>
    \/ Runs("backups") /\ BackupNext /\ UNCHANGED <<authVars, telemetryVars, visitVars, schemaVars>>
    \/ Runs("telemetry") /\ TelemetryNext /\ UNCHANGED <<authVars, backupVars, visitVars, schemaVars>>
    \/ Runs("players") /\ VisitsNext /\ UNCHANGED <<authVars, backupVars, telemetryVars, schemaVars>>
    \/ Runs("schema") /\ SchemaNext /\ UNCHANGED <<authVars, backupVars, telemetryVars, visitVars>>

vars == <<part, authVars, backupVars, telemetryVars, visitVars, schemaVars>>
Spec == Init /\ [][Next]_vars

\* Bounds on combinations: beside and after a restore one creation runs at a time,
\* and Bedrock is not started again; of what disturbs telemetry two meet in one
\* behaviour
Bound ==
    /\ restores > 0 => ~running /\ \A c, d \in Creators : stage[c] # "idle" /\ stage[d] # "idle" => c = d
    /\ modesDone + kills + outages + crashes <= 2

\* Creating processes and sets are told apart by nothing but their names
Symmetry == Permutations(Creators) \cup Permutations(Sets)

\* Every part's data keep their types
TypeOK == AuthTypeOK /\ BackupTypeOK /\ TelemetryTypeOK /\ VisitsTypeOK /\ SchemaTypeOK
=============================================================================
