--------------------------- MODULE BackupRestore ---------------------------
(***************************************************************************)
(* BackupService (operations/backup.py): coordinated copies of the world   *)
(* and of manager.db, and the offline restore.  Every command is a process *)
(* of its own, with nothing that keeps two of them apart, beside a Bedrock *)
(* server that saves its world unless it is told to hold.  As the document *)
(* asks, Bedrock and the control plane are not started during a restore,   *)
(* and one restore runs at a time; a creation may run beside it.           *)
(***************************************************************************)
EXTENDS Naturals, FiniteSets

CONSTANTS
    Creators,  \* processes that run "backup create"
    Sets,      \* identifiers of backup sets
    MaxWrites, \* bound: versions of the world and of the database
    MaxRestores, \* bound: restores
    Nowhere     \* no set

ASSUME SetsAssumption == Nowhere \notin Sets
ASSUME BoundsAssumption == MaxWrites \in Nat /\ MaxRestores \in Nat

VARIABLES
    running,   \* the Bedrock container runs
    hold,      \* "off", "asked" or "ready": what "save hold" has led to
    readyLine, \* Bedrock's log has a line that says "ready"
    world,     \* the version in data/worlds, Missing when the directory is missing
    database,  \* the version of manager.db
    parts,     \* set |-> the files it has so far
    content,   \* set |-> the versions of world and database it holds
    clean,     \* sets whose world was not written while it was copied
    disturbed, \* history: sets another process or a start of Bedrock came between
    stage,        \* creator |-> where it is
    target,    \* creator |-> the set it makes
    held,      \* creator |-> the local "held"
    abandoned, \* history: a process was killed, or its console raised, while saves were held
    rpc,       \* where restore is
    source,    \* the set it restores
    recovery,  \* versions under pre-restore: of worlds, of databases
    found,    \* history: what was in place when the last restore began
    replaced,  \* history: that restore has replaced something
    restores

bedrockVars == <<running, hold, readyLine, world, database>>
setVars == <<parts, content, clean, disturbed>>
creatorVars == <<stage, target, held, abandoned>>
restoreVars == <<rpc, source, recovery, found, replaced, restores>>
backupVars == <<bedrockVars, setVars, creatorVars, restoreVars>>

WorldVersions == 0..MaxWrites
Missing == MaxWrites + 1
Files == {"database", "world", "manifest"}
NoContent == [world |-> 0, database |-> 0]

BackupInit ==
    /\ running \in BOOLEAN
    /\ hold = "off"
    /\ readyLine = FALSE
    /\ world = 0
    /\ database = 0
    /\ parts = [s \in Sets |-> {}]
    /\ content = [s \in Sets |-> NoContent]
    /\ clean = {}
    /\ disturbed = {}
    /\ stage = [c \in Creators |-> "idle"]
    /\ target = [c \in Creators |-> Nowhere]
    /\ held = [c \in Creators |-> FALSE]
    /\ abandoned = FALSE
    /\ rpc = "idle"
    /\ source = Nowhere
    /\ recovery = [world |-> {}, database |-> {}]
    /\ found = NoContent
    /\ replaced = FALSE
    /\ restores = 0

-----------------------------------------------------------------------------
(* Bedrock and the control plane's database.                               *)

Copiers == {c \in Creators : stage[c] = "copying"}
Torn == clean' = clean \ {target[c] : c \in Copiers}   \* a copy under way has parts of two worlds
InUse(c) == stage[c] \in {"database", "copy", "copying"}
Disturb(creators) == disturbed' = disturbed \cup {target[c] : c \in creators}

BedrockSaves ==
    /\ running /\ hold # "ready"
    /\ world \in 0..(MaxWrites - 1)
    /\ world' = world + 1
    /\ Torn
    /\ UNCHANGED <<running, hold, readyLine, database, parts, content, disturbed, creatorVars, restoreVars>>

BedrockIsReady ==
    /\ hold = "asked"
    /\ hold' = "ready"
    /\ readyLine' = TRUE
    /\ UNCHANGED <<running, world, database, setVars, creatorVars, restoreVars>>

\* A hold does not outlive the server process
BedrockStopsOrStarts ==
    /\ rpc = "idle"                 \* restore is run with Bedrock stopped
    /\ running' = ~running
    /\ hold' = "off"
    /\ Disturb({c \in Creators : InUse(c)})
    /\ UNCHANGED <<readyLine, world, database, parts, content, clean, creatorVars, restoreVars>>

DatabaseWrites ==
    /\ rpc = "idle"                 \* and with the control plane stopped
    /\ database < MaxWrites
    /\ database' = database + 1
    /\ UNCHANGED <<running, hold, readyLine, world, setVars, creatorVars, restoreVars>>

-----------------------------------------------------------------------------
(* backup create.                                                          *)

Goto(c, label) == stage' = [stage EXCEPT ![c] = label]

Create(c, s) ==
    /\ stage[c] = "idle"
    /\ parts[s] = {} /\ \A d \in Creators : target[d] # s
    /\ world # Missing
    /\ target' = [target EXCEPT ![c] = s]
    /\ Goto(c, IF running THEN "hold" ELSE "database")
    /\ disturbed' = disturbed \ {s}
    /\ UNCHANGED <<bedrockVars, parts, content, clean, held, abandoned, restoreVars>>

\* The console may raise after it has written the command, before held is set
SaveHold(c) ==
    /\ stage[c] = "hold" /\ running
    /\ hold' = IF hold = "off" THEN "asked" ELSE hold
    /\ \/ held' = [held EXCEPT ![c] = TRUE] /\ Goto(c, "wait") /\ UNCHANGED abandoned
       \/ abandoned' = TRUE /\ Goto(c, "undo") /\ UNCHANGED held
    /\ UNCHANGED <<running, readyLine, world, database, setVars, target, restoreVars>>

WaitUntilReady_Not(c) == TRUE  \* mutant: the copy begins while Bedrock still saves
\* Any line of the last seconds that says "ready" will do, also the answer to
\* another command that has resumed since
WaitUntilReady(c) == hold = "ready" \/ readyLine

Ready(c) ==
    /\ stage[c] = "wait"
    /\ WaitUntilReady(c)
    /\ IF hold # "ready" /\ readyLine THEN Disturb({c}) ELSE UNCHANGED disturbed
    /\ Goto(c, "database")
    /\ UNCHANGED <<bedrockVars, parts, content, clean, target, held, abandoned, restoreVars>>

AddPart(c, file) == parts' = [parts EXCEPT ![target[c]] = @ \cup {file}]

\* The online backup API copies one version
CopyDatabase(c) ==
    /\ stage[c] = "database"
    /\ AddPart(c, "database")
    /\ content' = [content EXCEPT ![target[c]].database = database]
    /\ Goto(c, "copy")
    /\ UNCHANGED <<bedrockVars, clean, disturbed, target, held, abandoned, restoreVars>>

\* _archive reads the world file by file
CopyWorld(c) ==
    /\ stage[c] = "copy" /\ world # Missing
    /\ content' = [content EXCEPT ![target[c]].world = world]
    /\ clean' = clean \cup {target[c]}
    /\ Goto(c, "copying")
    /\ UNCHANGED <<bedrockVars, parts, disturbed, target, held, abandoned, restoreVars>>

WorldCopied(c) ==
    /\ stage[c] = "copying"
    /\ AddPart(c, "world")
    /\ Goto(c, "manifest")
    /\ UNCHANGED <<bedrockVars, content, clean, disturbed, target, held, abandoned, restoreVars>>

\* The configuration is copied, the manifest comes last, and then the set is moved to its place
WriteManifest(c) ==
    /\ stage[c] = "manifest"
    /\ AddPart(c, "manifest")
    /\ Goto(c, "resume")
    /\ UNCHANGED <<bedrockVars, content, clean, disturbed, target, held, abandoned, restoreVars>>

Steps == {"hold", "wait", "database", "copy", "copying", "manifest"}

\* What is left of a set is nothing, or what verify refuses
Discard(s, rest) ==
    /\ parts' = [parts EXCEPT ![s] = rest]
    /\ content' = [content EXCEPT ![s] = NoContent]
    /\ clean' = clean \ {s}

\* Any step may raise; the finally clause follows
CreateRaises(c) ==
    /\ stage[c] \in Steps
    /\ Goto(c, "undo")
    /\ UNCHANGED <<bedrockVars, setVars, target, held, abandoned, restoreVars>>

\* mutant: only a command that succeeded resumes
ResumedAt_Success == {"resume"}
ResumedAt == {"resume", "undo"}

\* finally, and the removal of a staging directory that was not moved
SaveResume(c) ==
    /\ stage[c] \in {"resume", "undo"}
    /\ IF held[c] /\ stage[c] \in ResumedAt
       THEN \/ /\ hold' = "off"
               /\ Disturb({d \in Creators \ {c} : InUse(d)})
               /\ UNCHANGED abandoned
            \/ abandoned' = TRUE /\ UNCHANGED <<hold, disturbed>>   \* the console does not answer
       ELSE UNCHANGED <<hold, disturbed, abandoned>>
    /\ held' = [held EXCEPT ![c] = FALSE]
    /\ IF stage[c] = "undo" THEN Discard(target[c], {}) ELSE UNCHANGED <<parts, content, clean>>
    /\ target' = [target EXCEPT ![c] = Nowhere]
    /\ Goto(c, "idle")
    /\ UNCHANGED <<running, readyLine, world, database, restoreVars>>

\* The process is killed: no finally, and the staging directory stays, which
\* counts as a set if it has its manifest
Kill(c) ==
    /\ stage[c] # "idle"
    /\ abandoned' = (abandoned \/ held[c])
    /\ held' = [held EXCEPT ![c] = FALSE]
    /\ target' = [target EXCEPT ![c] = Nowhere]
    /\ Goto(c, "idle")
    /\ IF parts[target[c]] = Files THEN UNCHANGED <<parts, content, clean>> ELSE Discard(target[c], {})
    /\ UNCHANGED <<bedrockVars, disturbed, restoreVars>>

CreateStep(c) ==
    \/ (\E s \in Sets : Create(c, s)) \/ SaveHold(c) \/ Ready(c)
    \/ CopyDatabase(c) \/ CopyWorld(c) \/ WorldCopied(c)
    \/ WriteManifest(c) \/ CreateRaises(c) \/ SaveResume(c) \/ Kill(c)

\* prune deletes a listed set, unless it is killed before all of it is gone
Listed(s) == "manifest" \in parts[s]

Prune(s) ==
    /\ Listed(s)
    /\ \A c \in Creators : target[c] # s
    /\ \E rest \in {{}, {"manifest"}} : Discard(s, rest)
    /\ UNCHANGED <<bedrockVars, disturbed, creatorVars, restoreVars>>

-----------------------------------------------------------------------------
(* backup restore.                                                         *)

RGoto(label) == rpc' = label

\* Bedrock is stopped, and the set passes verify
Restore(s) ==
    /\ rpc = "idle" /\ restores < MaxRestores
    /\ ~running
    /\ parts[s] = Files
    /\ source' = s
    /\ found' = [world |-> world, database |-> database]
    /\ replaced' = FALSE
    /\ restores' = restores + 1
    /\ RGoto("keep database")
    /\ UNCHANGED <<bedrockVars, setVars, creatorVars, recovery>>

KeepDatabase ==
    /\ rpc = "keep database"
    /\ recovery' = [recovery EXCEPT !.database = @ \cup {database}]
    /\ RGoto("keep world")
    /\ UNCHANGED <<bedrockVars, setVars, creatorVars, source, found, replaced, restores>>

KeptWorld_Moved == {}   \* mutant: the moved directory is taken for the copy
KeptWorld == IF world = Missing THEN {} ELSE {world}

KeepWorld ==
    /\ rpc = "keep world"
    /\ recovery' = [recovery EXCEPT !.world = @ \cup KeptWorld]
    /\ RGoto("extract")
    /\ UNCHANGED <<bedrockVars, setVars, creatorVars, source, found, replaced, restores>>

\* The archive may have been pruned since it was verified
Extract ==
    /\ rpc = "extract"
    /\ "world" \in parts[source]
    /\ RGoto("move away")
    /\ UNCHANGED <<bedrockVars, setVars, creatorVars, source, recovery, found, replaced, restores>>

\* A creation that archives the directory meanwhile is told nothing
MoveAway ==
    /\ rpc = "move away"
    /\ world' = Missing
    /\ Torn /\ Disturb(Copiers)
    /\ replaced' = TRUE
    /\ RGoto("move in")
    /\ UNCHANGED <<running, hold, readyLine, database, parts, content, creatorVars, source, recovery, found, restores>>

MoveIn ==
    /\ rpc = "move in"
    /\ world' = content[source].world
    /\ Torn /\ Disturb(Copiers)
    /\ RGoto("database")
    /\ UNCHANGED <<running, hold, readyLine, database, parts, content, creatorVars, source, recovery, found, replaced, restores>>

ReplaceDatabase ==
    /\ rpc = "database"
    /\ "database" \in parts[source]
    /\ database' = content[source].database
    /\ RGoto("idle")
    /\ source' = Nowhere
    /\ UNCHANGED <<running, hold, readyLine, world, setVars, creatorVars, recovery, found, replaced, restores>>

\* A step raises, or the process is killed: nothing is undone
RestoreStops ==
    /\ rpc # "idle"
    /\ RGoto("idle")
    /\ source' = Nowhere
    /\ UNCHANGED <<bedrockVars, setVars, creatorVars, recovery, found, replaced, restores>>

RestoreStep ==
    \/ (\E s \in Sets : Restore(s)) \/ KeepDatabase \/ KeepWorld \/ Extract
    \/ MoveAway \/ MoveIn \/ ReplaceDatabase \/ RestoreStops

BackupNext ==
    \/ BedrockSaves \/ BedrockIsReady \/ BedrockStopsOrStarts \/ DatabaseWrites
    \/ \E c \in Creators : CreateStep(c)
    \/ \E s \in Sets : Prune(s)
    \/ RestoreStep

BackupSpec == BackupInit /\ [][BackupNext]_backupVars

-----------------------------------------------------------------------------
(* Properties.                                                             *)

Labels == Steps \cup {"idle", "resume", "undo"}
RestoreLabels == {"idle", "keep database", "keep world", "extract", "move away", "move in", "database"}

BackupTypeOK ==
    /\ running \in BOOLEAN
    /\ hold \in {"off", "asked", "ready"}
    /\ readyLine \in BOOLEAN
    /\ world \in WorldVersions \cup {Missing}
    /\ database \in WorldVersions
    /\ parts \in [Sets -> SUBSET Files]
    /\ content \in [Sets -> [world : WorldVersions, database : WorldVersions]]
    /\ clean \in SUBSET Sets
    /\ disturbed \in SUBSET Sets
    /\ stage \in [Creators -> Labels]
    /\ target \in [Creators -> Sets \cup {Nowhere}]
    /\ held \in [Creators -> BOOLEAN]
    /\ abandoned \in BOOLEAN
    /\ rpc \in RestoreLabels
    /\ source \in Sets \cup {Nowhere}
    /\ recovery \in [world : SUBSET WorldVersions, database : SUBSET WorldVersions]
    /\ found \in [world : WorldVersions \cup {Missing}, database : WorldVersions]
    /\ replaced \in BOOLEAN
    /\ restores \in 0..MaxRestores

\* Bedrock holds its saves only while a command that asked for it has still to
\* resume them, whichever step of it failed; only a command that was killed, or
\* whose console raised, leaves them held.
SavesResume == hold = "off" \/ abandoned \/ \E c \in Creators : held[c]

\* The world in a set that can be listed was neither written nor moved while it
\* was copied, unless Bedrock was stopped or started, or another command came
\* between: resumed the saves, left the line that says "ready", or restored.
ArchiveIsConsistent == \A s \in Sets : Listed(s) /\ "world" \in parts[s] => s \in clean \cup disturbed

\* Once a restore has replaced anything, the world and the database it found
\* are under pre-restore, wherever it stops and whatever else it replaces.
NothingIsLost ==
    replaced => found.world \in recovery.world \cup {Missing} /\ found.database \in recovery.database
=============================================================================
