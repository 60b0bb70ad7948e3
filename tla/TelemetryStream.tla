--------------------------- MODULE TelemetryStream ---------------------------
(***************************************************************************)
(* The telemetry pack (packs/telemetry), the container log it writes to,   *)
(* and the manager's copy of its counters (telemetry/service.py and        *)
(* telemetry/repository.py).                                               *)
(*                                                                         *)
(* The pack numbers what it publishes and keeps the number and the         *)
(* counters in the world, saved every five seconds.  The manager reads the *)
(* lines in two threads: the one that follows the log, and the one that    *)
(* asks the pack for a snapshot and ingests the tail of the log.  Of the   *)
(* counters the model keeps the blocks of each player.                     *)
(***************************************************************************)
EXTENDS Naturals, Sequences, FiniteSets, SequencesExt

CONSTANTS
    Seen,
    MaxBlocks,   \* bound: block changes
    MaxModes,    \* bound: changes of game mode
    MaxSyncs,    \* bound: snapshots asked for
    MaxKills,    \* bound: deaths of Bedrock
    MaxOutages,  \* bound: breaks of the log stream
    MaxCrashes   \* bound: deaths of the manager

ASSUME SeenAssumption == IsFiniteSet(Seen)
ASSUME TelemetryBoundsAssumption ==
    \A bound \in {MaxBlocks, MaxModes, MaxSyncs, MaxKills, MaxOutages, MaxCrashes} : bound \in Nat

VARIABLES
    pack,     \* the pack's state: sequence, blocks of each player
    saved,    \* the same, in the dynamic properties of the world
    queued,   \* pendingBlocks
    log,      \* telemetry lines of the container
    read,     \* lines the following thread has passed
    opened,   \* lines before the stream it follows
    mirror,   \* player_telemetry
    received, \* event keys in telemetry_events
    last,     \* sequence in the state table, 0 for none
    health,
    gaps,     \* gap_count > 0
    sync,     \* where the snapshot thread is
    window,   \* the lines it has still to ingest: first, end
    answered, \* accepted > 0
    due,      \* the timer of a new log stream, which asks for a snapshot
    fresh,    \* a snapshot was asked for since the stream is new
    cut,      \* history: a stream began inside a snapshot
    late,     \* history: a line was ingested after a later one
    blocksDone, modesDone, syncsDone, kills, outages, crashes

packVars == <<pack, saved, queued, log, blocksDone, modesDone, kills>>
mirrorVars == <<mirror, received, last, gaps, late>>
syncVars == <<sync, window, answered, syncsDone, fresh>>
streamVars == <<read, opened, due, cut>>
telemetryVars == <<packVars, streamVars, mirrorVars, health, syncVars, outages, crashes>>

NoBlocks == [p \in Seen |-> 0]
States == [sequence : Nat, blocks : [Seen -> 0 .. MaxBlocks]]
Frames == {"snapshot.started", "snapshot.player", "snapshot.finished"}

TelemetryTypeOK ==
    /\ pack \in States /\ saved \in States
    /\ queued \in [Seen -> 0 .. MaxBlocks]
    /\ opened \in 0 .. read /\ read \in 0 .. Len(log)
    /\ mirror \in [Seen -> Nat]
    /\ last \in Nat
    /\ health \in {"waiting", "syncing", "degraded", "healthy"}
    /\ sync \in {"idle", "ask", "send", "wait", "ingest", "check", "degrade"}
    /\ {gaps, answered, due, fresh, cut, late} \subseteq BOOLEAN

\* the pack has started, and published that, before the manager looks
TelemetryInit ==
    /\ pack = [sequence |-> 1, blocks |-> NoBlocks] /\ saved = pack
    /\ queued = NoBlocks /\ log = <<>> /\ read = 0 /\ opened = 0
    /\ mirror = NoBlocks /\ received = {} /\ last = 0
    /\ health = "waiting" /\ gaps = FALSE /\ late = FALSE
    /\ sync = "idle" /\ window = [first |-> 1, end |-> 0] /\ answered = FALSE
    /\ due = TRUE /\ fresh = FALSE /\ cut = FALSE
    /\ blocksDone = 0 /\ modesDone = 0 /\ syncsDone = 0
    /\ kills = 0 /\ outages = 0 /\ crashes = 0

-----------------------------------------------------------------------------
(* The pack                                                                *)

Line(type, sequence, player, count) ==
    [type |-> type, sequence |-> sequence, player |-> player, count |-> count]

\* publish(): one line for each member of what, numbered from n + 1
Publish(type, n, what, counts) ==
    [i \in 1 .. Len(what) |-> Line(type, n + i, <<what[i]>>, counts[what[i]])]

Waiting == SetToSeq({p \in Seen : queued[p] > 0})

\* publishBlockChanges(): what is queued, one line for each player
BlockLines(n) == Publish("blocks.changed", n, Waiting, queued)

\* publishSnapshot(): frames that share the state's sequence
Snapshot(state) ==
    <<Line("snapshot.started", state.sequence, <<>>, 0)>>
    \o [i \in 1 .. Len(SetToSeq(Seen)) |->
          Line("snapshot.player", state.sequence, <<SetToSeq(Seen)[i]>>, state.blocks[SetToSeq(Seen)[i]])]
    \o <<Line("snapshot.finished", state.sequence, <<>>, 0)>>

\* The lines are written and nothing is queued any more; flush(): the world
\* saves the pack's state
Emit(lines, state) ==
    /\ log' = log \o lines
    /\ pack' = state /\ saved' = state
    /\ queued' = NoBlocks

\* onPlayerBreakBlock, onPlayerPlaceBlock
ChangeBlock(p) ==
    /\ blocksDone < MaxBlocks
    /\ blocksDone' = blocksDone + 1
    /\ pack' = [pack EXCEPT !.blocks[p] = @ + 1]
    /\ queued' = [queued EXCEPT ![p] = @ + 1]
    /\ UNCHANGED <<saved, log, modesDone, kills, streamVars, mirrorVars, health, syncVars, outages, crashes>>

\* Every five seconds: the players whose game mode differs from the sampled
\* one, then the queued blocks, then flush()
Sample ==
    \E changed \in SUBSET Seen :
        LET modes == Publish("player.gamemode.changed", pack.sequence, SetToSeq(changed), NoBlocks)
            lines == modes \o BlockLines(pack.sequence + Len(modes))
        IN  /\ modesDone + Len(modes) <= MaxModes
            /\ lines # <<>> \/ saved # pack
            /\ modesDone' = modesDone + Len(modes)
            /\ Emit(lines, [pack EXCEPT !.sequence = @ + Len(lines)])
            /\ UNCHANGED <<blocksDone, kills, streamVars, mirrorVars, health, syncVars, outages, crashes>>

\* Bedrock dies and comes back with what the world had saved; the pack starts
Restart ==
    /\ kills < MaxKills /\ sync # "ingest"
    /\ kills' = kills + 1
    /\ LET state == [saved EXCEPT !.sequence = @ + 1]
       IN  Emit(<<Line("telemetry.started", state.sequence, <<>>, 0)>> \o Snapshot(state), state)
    /\ UNCHANGED <<blocksDone, modesDone, streamVars, mirrorVars, health, syncVars, outages, crashes>>

-----------------------------------------------------------------------------
(* Ingestion, under the service's lock                                     *)

InTopics(line) == line.type # "player.gamemode.changed"

\* The key of a delta is its sequence; that of a frame has its time too
EventKey(i) ==
    LET line == log[i]
    IN  IF line.type = "blocks.changed" THEN <<line.sequence, line.type, line.player>> ELSE <<i>>

PackReset(line) == line.type = "telemetry.started" /\ last # 0 /\ line.sequence < last

Stale(line) ==
    /\ line.type \notin Frames
    /\ last # 0 /\ line.sequence <= last
    /\ ~ PackReset(line)

Gap(line) == line.type \notin Frames /\ last # 0 /\ line.sequence > last + 1

StatusAfter(line) ==
    CASE line.type = "snapshot.started" -> "syncing"
      [] line.type = "snapshot.finished" -> "healthy"
      [] line.type = "snapshot.player" -> health
      [] Gap(line) -> "degraded"
      [] line.type = "telemetry.started" -> "syncing"
      [] OTHER -> IF health \in {"syncing", "degraded"} THEN health ELSE "healthy"

\* _apply_block_batch: a batch adds to the counter
AddBatch(counter, line) == counter + line.count

\* A line changes the counters of the player it names; a snapshot replaces them
Counters(line) ==
    [p \in Seen |->
        IF line.player # <<p>> THEN mirror[p]
        ELSE IF line.type = "snapshot.player" THEN line.count
        ELSE AddBatch(mirror[p], line)]

\* ingest_telemetry: the deduplicated event and what it changes, in one transaction
Accept(i) ==
    /\ received' = received \cup {EventKey(i)}
    /\ mirror' = Counters(log[i])
    /\ late' = (late \/ \E j \in (i + 1) .. Len(log) : EventKey(j) \in received)

\* mutant: a line is counted as often as it is read
Refused_Never(i) == FALSE

Refused(i) == Stale(log[i]) \/ EventKey(i) \in received

\* request_telemetry_snapshot_async: coalesced while a snapshot runs and, when
\* it may be cooling down, for five seconds after the last request
RequestSnapshot(cooling) ==
    \/ /\ sync = "idle" /\ syncsDone < MaxSyncs
       /\ sync' = "ask" /\ syncsDone' = syncsDone + 1
       /\ fresh' = TRUE
       /\ UNCHANGED <<window, answered>>
    \/ (sync # "idle" \/ cooling) /\ UNCHANGED syncVars

Resync(line) == Gap(line) \/ line.type = "telemetry.started"

\* ingest: the event, the state row, and the request a gap or a start makes
Ingest(i) ==
    IF Refused(i) THEN UNCHANGED <<mirrorVars, health>>
    ELSE /\ Accept(i)
         /\ last' = log[i].sequence
         /\ health' = StatusAfter(log[i])
         /\ gaps' = (gaps \/ Gap(log[i]))

\* the thread that follows the log
Follow ==
    /\ read < Len(log)
    /\ read' = read + 1
    /\ IF InTopics(log[read + 1])
       THEN /\ Ingest(read + 1)
            /\ IF ~ Refused(read + 1) /\ Resync(log[read + 1]) THEN RequestSnapshot(syncsDone > 0) ELSE UNCHANGED syncVars
       ELSE UNCHANGED <<mirrorVars, health, syncVars>>
    /\ UNCHANGED <<packVars, opened, due, cut, outages, crashes>>

\* Who begins at line i misses a frame of a snapshot that nobody has ingested
Inside(i) ==
    /\ i <= Len(log) /\ log[i].type \in {"snapshot.player", "snapshot.finished"}
    /\ EventKey(i - 1) \notin received

\* The stream ends and a later one begins, seconds back: at any line written
\* since, or with the last one read
Outage ==
    /\ outages < MaxOutages /\ sync # "ingest"
    /\ outages' = outages + 1
    /\ \E next \in {n \in 0 .. Len(log) : n + 1 >= read} :
         /\ read' = next /\ opened' = next
         /\ cut' = (cut \/ Inside(next + 1))
    /\ due' = TRUE /\ fresh' = FALSE
    /\ UNCHANGED <<packVars, mirrorVars, health, sync, window, answered, syncsDone, crashes>>

\* _logs: the timer of a new stream
StreamConnected ==
    /\ due /\ (sync = "idle" \/ fresh)
    /\ due' = FALSE
    /\ RequestSnapshot(fresh)
    /\ UNCHANGED <<packVars, read, opened, mirrorVars, health, cut, outages, crashes>>

-----------------------------------------------------------------------------
(* request_telemetry_snapshot, in a thread of its own                      *)

SyncAsk ==
    /\ sync = "ask"
    /\ health' = "syncing"
    /\ sync' = "send"
    /\ UNCHANGED <<packVars, streamVars, mirrorVars, window, answered, syncsDone, fresh, outages, crashes>>

\* the command is written; the lines of a second before, all or none of the
\* stream, are to be read too
SyncSend ==
    /\ sync = "send"
    /\ sync' = "wait"
    /\ answered' = FALSE
    /\ \E first \in {opened, Len(log)} : window' = [first |-> first + 1, end |-> Len(log)]
    /\ UNCHANGED <<packVars, streamVars, mirrorVars, health, syncsDone, fresh, outages, crashes>>

\* the pack answers
AnswerSync ==
    /\ sync = "wait" /\ ~ answered
    /\ answered' = TRUE
    /\ LET blocks == BlockLines(pack.sequence)
           state == [pack EXCEPT !.sequence = @ + Len(blocks)]
       IN  Emit(blocks \o Snapshot(state), state)
    /\ UNCHANGED <<blocksDone, modesDone, kills, streamVars, mirrorVars, health, sync, window, syncsDone, fresh, outages, crashes>>

\* after the console's wait, by when the following thread has passed what was
\* there before the command
SyncRead ==
    /\ sync = "wait" /\ read >= window.end
    /\ sync' = "ingest"
    /\ window' = [window EXCEPT !.end = Len(log)]
    /\ answered' = (window.first <= Len(log))
    /\ UNCHANGED <<packVars, streamVars, mirrorVars, health, syncsDone, fresh, outages, crashes>>

\* a request this thread makes is coalesced with itself; an unsupported line
\* raises, and the handler stores the failure
SyncIngest ==
    /\ sync = "ingest" /\ window.first <= window.end
    /\ IF InTopics(log[window.first])
       THEN Ingest(window.first) /\ window' = [window EXCEPT !.first = @ + 1] /\ UNCHANGED sync
       ELSE sync' = "degrade" /\ UNCHANGED <<mirrorVars, health, window>>
    /\ UNCHANGED <<packVars, streamVars, answered, syncsDone, fresh, outages, crashes>>

SyncCheck ==
    /\ sync = "ingest" /\ window.first > window.end
    /\ sync' = IF ~ answered \/ health # "healthy" THEN "degrade" ELSE "idle"
    /\ UNCHANGED <<packVars, streamVars, mirrorVars, health, window, answered, syncsDone, fresh, outages, crashes>>

SyncDegrade ==
    /\ sync = "degrade"
    /\ health' = "degraded"
    /\ sync' = "idle"
    /\ UNCHANGED <<packVars, streamVars, mirrorVars, window, answered, syncsDone, fresh, outages, crashes>>

\* the console raises
SyncFails ==
    /\ sync \in {"send", "wait"}
    /\ sync' = "degrade"
    /\ UNCHANGED <<packVars, streamVars, mirrorVars, health, window, answered, syncsDone, fresh, outages, crashes>>

\* The manager dies, maybe between the two transactions of an ingestion, and a
\* new one follows the log from then on
Crash ==
    /\ crashes < MaxCrashes
    /\ crashes' = crashes + 1
    /\ \/ UNCHANGED <<mirror, received, late>>
       \/ read < Len(log) /\ InTopics(log[read + 1]) /\ ~ Refused(read + 1) /\ Accept(read + 1)
    /\ sync' = "idle" /\ window' = [first |-> 1, end |-> 0] /\ answered' = FALSE
    /\ \E next \in read .. Len(log) :
         /\ read' = next /\ opened' = next
         /\ cut' = (cut \/ Inside(next + 1))
    /\ due' = TRUE /\ fresh' = FALSE
    /\ UNCHANGED <<packVars, last, health, gaps, syncsDone, outages>>

TelemetryNext ==
    \/ \E p \in Seen : ChangeBlock(p)
    \/ Sample \/ Restart \/ AnswerSync
    \/ Follow \/ Outage \/ StreamConnected
    \/ SyncAsk \/ SyncSend \/ SyncRead \/ SyncIngest \/ SyncCheck \/ SyncDegrade \/ SyncFails
    \/ Crash

TelemetrySpec == TelemetryInit /\ [][TelemetryNext]_telemetryVars

-----------------------------------------------------------------------------
(* Properties                                                              *)

\* Telemetry that is healthy at the pack's own sequence, on a stream for which
\* a snapshot was asked, has the counters the pack had when it last published:
\* what two threads, lost lines, replayed lines and deaths, with the counts they
\* lost, did to the copy was repaired or is visible.  A stream that begins
\* inside a snapshot and a line ingested after a later one are excepted.
HealthyMirrorsPack ==
    (health = "healthy" /\ last = pack.sequence /\ ~ due /\ sync # "ask" /\ ~ cut /\ ~ late)
        => mirror = saved.blocks

\* docs/telemetry-pack.md: a gap is a range of missing events.  While every
\* line is read and nothing restarts, none is recorded.
GapMeansLoss == gaps => outages + crashes + kills > 0

=============================================================================
