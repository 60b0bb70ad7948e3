# CraftControl in TLA+

CraftControl administers a Minecraft Bedrock server: a control plane (Flask, SQLite, one Gunicorn worker of gevent greenlets)
watches Bedrock, changes its settings and restarts it, and shows what it knows to web clients over an event stream.  A host agent,
the *bedrock-proxy*, restarts the container where the control plane may not.

These modules model the parts of that system in which threads, processes, restarts and failing calls meet.  Paths are relative to the
repository; `CP` is `apps/server/controlplane/src` and `BP` is `services/bedrock-proxy/src`.

- [Modules and runs](#modules-and-runs)
- [Inventory](#inventory)
- [Server operations](#server-operations)
- [The host agent](#the-host-agent) and [its client](#the-client-of-the-host-agent)
- [The event broker](#the-event-broker)
- [Reconciliation](#reconciliation)
- [The stores](#the-stores): [accounts](#accounts), [backups](#backups), [telemetry](#telemetry), [players](#players), [schema](#schema)
- [Where the code and its documents disagree](#where-the-code-and-its-documents-disagree)
- [What is proved](#what-is-proved)
- [What is not modelled](#what-is-not-modelled)
- [Plan](#plan)

## Modules and runs

| module | models |
| --- | --- |
| `ServerOperation` | the lifecycle of a restart-required change: `CP/operations/service.py`, `lifecycle.py`, `repository.py` |
| `OperationContract` | the abstract specification that `ServerOperation` implements |
| `ReloadOverlap` | `ServerOperation` with a graceful reload, two processes over the same rows |
| `HostAgent` | the bedrock-proxy: `BP/store/store.py`, `runtime/queue_worker.py`, `runtime/operations.py`, `http/handler.py` |
| `AgentClient` | `HostAgent` composed with the adapter that posts to it and polls it: `CP/server/host_agent.py` |
| `Executor` | the abstract specification that this composition implements |
| `EventBroker` | publication, replay and streaming: `CP/core/events.py`, with the table behind it |
| `Reconciliation` | the refresh lock and its workers: `CP/runtime/reconciliation.py`, `supervisor.py`, part of `manager.py` |
| `Authentication` | accounts, invitations, sessions: `CP/auth/service.py` and what `CP/auth/http.py`, `CP/cli.py` call |
| `BackupRestore` | the backup, prune and restore commands beside Bedrock: `CP/operations/backup.py` |
| `TelemetryStream` | the telemetry pack, the log and the manager's copy: `packs/telemetry`, `CP/telemetry` |
| `PlayerSessions` | presence, sessions and identities: `CP/players` |
| `SchemaMigrations` | processes of two releases that migrate one file: `CP/core/migrations.py`, `initialize` of `CP/core/repository.py` |
| `MCStores` | the last five side by side, for one run |
| `MC...` | the symmetry sets and constraints for TLC |
| `...Proofs` | theorems about `ServerOperation`, `HostAgent`, `AgentClient`, `EventBroker`, `Reconciliation`, `TelemetryStream` and `PlayerSessions` |
| `StoresProofs` | theorems about `Authentication`, `BackupRestore`, `SchemaMigrations`, and about the stores together |

| run | expects | shows |
| --- | --- | --- |
| `Concurrency` | pass | what the records claim agrees with what Bedrock runs, with two operations, two requests and late restarts |
| `Recovery` | pass | one active operation, no reclaim of a running one, and the refinement of `OperationContract`, with a crash and a failing write |
| `Progress` | pass | every operation ends, the lock is released, outcomes are shown unless the event itself is not written; terminal events follow the commit, terminal records change only by re-observation |
| `CrashBetweenStages` | violation | a crash between two stages loses the reconciliation of an applied change |
| `ReloadOverlap` | violation | the new process of a reload fails an operation that still restarts Bedrock |
| `HostAgent` | pass | each unfinished record has one owner, nothing begun is forgotten or run twice, `ok` is true, for any client; and with the adapter the two implement `Executor` |
| `LostAnswer` | violation | a post that was delivered and not answered is reported as never delivered |
| `EventBroker` | pass | slots and queues do not leak, the live part of a stream is exactly once |
| `Reconciliation` | pass | the lock has one owner, no request is stranded, failed gamerules are asked for again |
| `Freshness` | pass | a deferred refresh runs, and the repository ends with Bedrock's values |
| `Stores` | pass | what accounts, backups, telemetry, players and the schema each promise |
| `FalseGap` | violation | a line the manager does not parse is recorded as a missing event |

Run one with `tlc -config Recovery.cfg MCServerOperation.tla` (`PROJECT.json` has the module of each run), and check the proofs of a
module with `tlapm HostAgentProofs.tla`.

## Inventory

| component | state it keeps | operations | what makes it hard | correctness |
| --- | --- | --- | --- | --- |
| Server operations (`CP/operations`) | operation rows in SQLite, `_lock`, `_live_workers`, one object per worker thread | create, retry, seven stages, fail, reclaim at boot and by reads, re-observe, audit, publish | workers, requests and boot share the rows; calls that time out and are served late; writes that raise anywhere | one active operation; only its worker ends it while it runs; it ends; its record agrees with the container |
| Adapters to Docker (`CP/server/docker.py`, `host_agent.py`) | none between calls | execute, poll status | lost answers, an agent that restarts between two polls | no success without a health check; an unknown outcome is not retried |
| Host agent (`BP`) | records in memory and SQLite, bounded queue, worker threads | `POST /v1/execute`, `GET /v1/status`, run, evict, recover | workers beside the request thread, SQLite that fails, restarts of the agent, a daemon that acts late | one owner per record; at most one execution; what was begun is reported |
| Event broker (`CP/core/events.py`) | event table, subscriber queues, slots | publish, stream, replay, close | publishers and streams interleave; readers vanish | no leak; exactly once while live |
| Reconciliation (`CP/runtime`) | `_refresh_lock`, pending reasons and rules, worker flags | full, world and gamerule refresh; timers; log and Docker events | three kinds of refresh over one lock, coalesced requests, stale answers | one holder; no request lost; the repository ends fresh |
| Players (`CP/players`) | presence, sessions, identities | observe, open and close sessions, merge identities | the log, the console's list and the container's death are three threads; names change and are learnt late | a session for each presence; renames and merges lose none |
| Telemetry service (`CP/telemetry`) | last sequence, received events, counters, health | ingest, ask for a snapshot | two threads read the same lines; lines are lost, replayed or missed | counters that read as healthy are the pack's |
| Telemetry pack (`packs`) | sequence and counters, saved in the world; queued changes | count, sample, publish, snapshot | a restart goes back to what the world had saved | a reset is told apart from a repetition |
| Authentication (`CP/auth`) | users, invitations, sessions | log in, invite, claim, recover, suspend, revoke | two owners at once, and commands in another process | an owner remains; sessions belong to active accounts |
| Audit (`CP/audit`) | append-only table | record, query | written after the fact | each terminal operation is recorded |
| Backup and restore (`CP/operations/backup.py`) | backup sets, the save hold | hold, copy, resume, prune, restore | a failure while saves are held; commands beside each other; a restore that stops half way | saves resume; archives are consistent; what a restore replaced is kept |
| State repository and migrations (`CP/core`) | observed state in SQLite, its schema version | store, replace, migrate | two processes migrate one file, and either may stop | who serves has its schema |
| HTTP interface, CLI, configuration | none | validate and forward | - | - |
| Web client (`apps/client`) | the operation it shows, the stream's last id | follow, poll, reconnect | late answers and events out of order | the drawer ends on the terminal state |
| Bedrock console, files, world readers | none | request and parse | I/O | - |
| Contracts, translations, deployment scripts | none | generated types, text, sequential shell | - | - |

How they interact:

- A client posts changes; the service writes the row under `_lock`, starts a worker thread, and the worker calls the adapter, which
  posts to the host agent and polls it.  Every change of the row is published to the broker, which records it and offers it to the
  streams.
- The event runtime follows Bedrock's log and Docker's events and asks the reconciliation for refreshes; those read Bedrock over
  its console and store what they read in the state repository.
- The control plane and the host agent each recover by themselves: the first by reclaiming rows nobody works on, the second by
  failing the rows that say "running".

## Server operations

`ServerOperation` has one thread per operation (its worker), `Requests`, and `Main`.  `pc` names the step a thread is about to take.

| in the model | in the code |
| --- | --- |
| `row` | the row of the operation in SQLite; `state = "none"` is no row |
| `obj[t]` | the `ServerOperation` object thread `t` holds; it may be ahead of the row |
| `age` | the class of `now - updated_at`: fresh, 30 s (`ORPHAN_STALENESS_SECONDS`), 900 s (`ABANDONED_STALENESS_SECONDS`) |
| `lock`, `live` | `_lock`, `_live_workers` |
| `exec`, `effective` | the request the executor holds, and the value `server.properties` holds in a running Bedrock |
| `shown`, `audited` | the last event of the operation, or that the write of its terminal event raised (`"lost"`); and whether its end is in the audit trail |
| `Accept`, `SaveCreated`, `Spawn` | `apply_restart_required`, `retry_operation`, `_create_or_reject`: the check for an active operation and the write under `_lock`, then `thread.start()` |
| `Begin` ... `SaveConfirmed` | `_run`, stage by stage |
| `Fail`, `Reconcile`, `SaveTerminal`, `Publish`, `AuditTerminal` | `_fail` and what it calls, shared by workers, reclaiming requests and the boot |
| `WriteRaises`, `HandleTerminal`, `HandleError`, `HandlerRaises` | the `except Exception` of `_run`, whose own save may raise |
| `ReclaimAbandoned`, `BootReclaims` | `_reclaim_stalled` from the read paths and from `__init__` |
| `Observe`, `Recheck` | `request_reconciliation`: a probe before the write lock, the decision under it |

A write of a non-terminal record and its event are one action, because nothing distinguishes them; the terminal write, its event and
its audit record are three, because a crash between them is one of the hazards.  An event is itself a row (`record_event`), so its write may
raise like any other: `_publish` and `_audit_terminal` swallow that (`Emit`, `AuditTerminal`), and nobody publishes again.  Whether Bedrock answers is open at every
observation, so the observation and the read of `server.properties` are one action.  `Invalid` stands for the values that REVIEW
rejects.  Operations are numbered in the order of `created_at`.  A thread that was started reaches its first line within 30 s
(the guard of `Tick`).  The executor serves requests in the order it accepted them, also those whose caller has given up.  The health
deadline may pass before the first poll.

Bounds: `NumOps` operations, the sets `Requests` and `Reobservers`, the stages in `Failing` whose failure is followed,
`MaxCrashes`, `MaxFaults`.  Two operations are needed for exclusion and for a late restart to meet a later operation; two requests
for a race of creation, and of a retry, a reclaim or a re-observation with it.  Every run has at most one re-observer, so two of them never race in
one: a second makes `Progress`, whose `OnlyReobservationRevises` is about them, too large, and for any number of re-observers that property is
proved (`TerminalRecordsAreSealed`).  One crash and one fault, since each hazard needs one of either
(two faults in `Progress`, so that the handler of a fault may fail too).  `CHECK_DEADLOCK FALSE`, because the model stops once its operations are used.

Fairness, in this module's run `Progress` only: threads go on, deadlines expire and time passes (weak), and reads that find an abandoned operation
happen in the end (strong: clients keep polling the operation they show, and one of their reads finds the lock free).  An answer of
the executor is not assumed; its timeout is.  Nothing forces a crash or a fault.

What the properties say: `AtMostOneActive` is the exclusion across creation, retry, reclaim and crash; `WorkerOwnsItsRow` that no
reclaim takes an operation from a thread that executes it, however silent the thread is; `ConfirmedIsEffective` that a restart left
behind by a timed-out operation cannot falsify a later confirmation; `OnlyReviewedIsApplied`, `FailureIsObserved`,
`TerminalEventIsCommitted` and `OnlyReobservationRevises` relate the row to Bedrock, to its observation, to the stream and to its own
past.  `OutcomeIsShown` says that no path but a death of the process or the loss of the event itself leaves a terminal row without its
event: the handler of a failing write and the reclaims publish too.  `ImplementsContract` refines `OperationContract` by the state column alone.

## The host agent

`HTTPServer` is not threaded (`services/bedrock-proxy/agent.py`), so one thread `Handler` serves requests one after the other, beside the workers.

| in the model | in the code |
| --- | --- |
| `mem[op]`, `db[op]` | the record in `OperationStore._records` and its row; `"undecided"` is status `done` with the outcome still `None` |
| `queue`, `job`, `pc`, `result` | `OperationQueue`, and the locals of the threads |
| `dropped`, `old` | the keys `evict_expired` has taken from memory but not from SQLite, and the records past their retention |
| `ran` | history: the operations taken by a worker since they were last evicted |
| `props`, `loaded`, `reboot` | `server.properties`, what Bedrock started with, and the restarts the daemon has still to make |
| `Duplicate`, `Create`, `Created`, `Enqueue`, `QueueFull`, `SaveRejected` | `_handle_execute` |
| `Evict`, `DeleteRow`, `ReadStatus`, `ReadBody` | `_handle_status`, which evicts first and then reads the record without the lock |
| `Take` ... `SaveDone` | `_worker_loop` and `OperationExecutor.run` |
| `Crash`, `LoadAndRecover`, `InMemoryOnly` | a new process and the three ways its store may start |

An operation stands for the value it writes.  The updates that begin a stage change memory and row in one action; the final one is
three (`SetStatus`, `SetFields`, `SaveDone`) because the handler reads in between.  Every SQLite call may raise, is swallowed and
counted in `faults`.  A row is written long before its retention ends (guard of `Expire`), at most one recovered row fails to be written
per restart, and a probe's outcome is open.  The validation of the request's fields is left out.

Bounds: two operations, one worker, a queue of one, one restart, one failing call; two operations are enough for a full queue, for
a late restart to meet another operation and for an eviction beside a running operation.  The run `HostAgent` starts either with any client,
which posts, repeats and polls what it likes, or with the adapter of the next section; SQLite fails only under the adapter
(`FaultsOfTheAdapter`), which halves the run and leaves every other combination in.  Two workers double the state space and add
the race of two writes of `server.properties`; the theorems cover every number of workers.  No liveness is checked here: that a
record ends follows from `OneOwner` and from an owner that goes on, and the agent has no retry.

### The client of the host agent

`AgentClient` EXTENDS `HostAgent` with `HostAgentContainerOperations.execute`, the connection and the listen backlog, so that a request of
one meets the handler of the other.

| in the model | in the code |
| --- | --- |
| `caller` | the adapter, or any client (then the module behaves as `HostAgent`) |
| `call`, `at`, `tries` | the operation `execute` runs for, where it is, the attempts of `_poll_with_recovery` |
| `asked`, `verdict` | history: the calls in order, and whether each returned (`"ok"`) or how it raised |
| `wire`, `serving`, `answer` | requests accepted by the socket and not read, the one being served, the answer in flight |
| `Post...`, `Poll...`, `Recover...` | the post, `_poll_loop`, `_poll_with_recovery`; a step ends in the answer, in its loss, or in a deadline |
| `Serve`, `ServeStep`, `ServeRejects` | the handler takes the next connection, runs, and refuses a token or a body |
| `AgentDies`, `CallerDies` | a restart of either side |

Both deadlines (600 s of polling, the attempts of recovery) may pass wherever they are looked at.  A request whose caller has given up
stays on the wire (`live = FALSE`) and is served.  Each operation is posted once, because the service has one worker per operation and
`execute` does not repeat a post; hence `Expire` and `Duplicate` do not happen with the adapter, and the retention (hours) outlasts a call.

`ImplementsExecutor` refines `Executor`, the promise `ServerOperation` builds upon: requests are begun at most once and in the order they
were made, also after their caller gave up (none begins while an earlier one still may, so one that was overtaken is lost); that they also end in
that order, as `ServerOperation` has it, takes the one worker that `BEDROCK_PROXY_WORKERS` defaults to; and `execute` returns only for one
that succeeded.  `ReturnedIsLoaded` says the same of Bedrock: when `execute` has returned, Bedrock runs what the operation wrote, whatever was lost and polled on the way.  `FailedIsFinished` says which of
the ways to raise are final: an operation the agent refused or reported as failed neither waits nor runs again, writes no
properties and asks for no restart.  One thing may still come of it: when `docker compose restart` is killed at its timeout the agent reports a
failure and the daemon makes the restart later, on whatever `server.properties` then holds.  After the other ways to raise the operation may do
all of it.

Bounds: those of `HostAgent`, a backlog of two and two attempts of recovery.  A request whose caller gave up and the next one can then both
wait for the handler, which is where they could overtake each other, and the second attempt is the one that follows a failed one.

## The event broker

`Publishers` record, read the subscribers and offer, in three steps.  A stream goes from a reserved slot through the replay of one
page to its live queue; the server notices a reader that left at its next write, an event or the heartbeat.

`Streams` are names that are used again after a stream closed.  `Last-Event-ID` is any id recorded so far.  `since`, `sent` and
`refused` are history.  A reader that leaves before the replay is read is treated as one that leaves after it, which no state tells apart.
Puts into the queue of a closed stream are dropped, since nobody reads it.  Crashes are not bounded: only the table is left.  The
diagnostic counters are left out.

Bounds: two publishers, two events, up to two of three streams, queues and pages of one.  One event is enough to fill a queue, the
second to be refused and to be replayed after one was pruned or paged out; a third stream makes the capacity refuse one.
`SlotComesBack` assumes weak fairness of each stream's own steps: each response has its own greenlet, and the heartbeat makes it write.  The symmetry of this run
is that of the publishers, of which neither the fairness nor the property speaks.

`LiveIsExactlyOnce` starts at the subscription.  What falls between replay and subscription, or beyond the page, is a gap the
documents admit (`docs/operation-lifecycle.md:373-383`), and no order between two publishers is promised.

## Reconciliation

One lock serialises the full refresh, which does not wait but leaves a deferred request, and the workers of the world and of the
gamerules, which wait.  Requests for a worker that runs are coalesced into what is pending; the worker looks again under the lock of
the pending request before it gives up its flag.

Of the state that is read and stored, the model keeps the gamerules, because those are also written by `set_gamerule` without the
lock.  Threads on their way to a full refresh are a counter (`starting`), since at most one gets past the lock.  Acquiring the lock and raising
`_refreshing`, and lowering it and releasing, are single steps.  Which log lines Bedrock writes for a change or a query is open.  A worker that is started again takes the name of
the one that ended.  A console that answers in part counts as a fault.

Bounds: the safety run has two rules, two threads of each kind, one change, one fault and one crash, so that a worker can be
started while the previous one ends; the liveness run has one rule, two `set_gamerule` requests, which may store in
the other order than they sent, two changes and one fault.  Both check
deadlock.

Fairness: threads go on (weak).  Acquiring the lock is strong: the gamerule worker sleeps two seconds between two holds, so whoever
asks again gets it in the end.  The world timer fires every 45 s.  `EventuallyFresh` has the safety timer (900 s) as its premise, because without a full refresh a stale
answer that was stored over a newer value may stay.

Things to know about this code that no property claims: the gamerule worker releases the lock without
`_release_refresh_lock`, so a full refresh it deferred waits for the next refresh of the world (`DeferredIsServed` holds because of the
timer, not because of the worker); `set_gamerule` is overwritten by an answer that was read before it, until the next full refresh;
log lines are dropped while a refresh runs, whether it caused them or not.

## The stores

Five parts keep a store of their own and share no state with each other.  They are five modules; `MCStores` EXTENDS them, which is why
their top-level names carry prefixes (`AuthInit`, `BackupNext`, ...).  A behaviour of `MCStores` picks one part and only that part moves,
so the run `Stores` (about 880 000 states) checks each module as it would be checked alone: its reachable states are the union of theirs.  The
constraint `Bound` limits combinations: beside and after a restore one creation runs at a time and Bedrock is not started again, and two of
{change of game mode, death of Bedrock, break of the stream, death of the manager} meet in one behaviour of telemetry.  `Symmetry` permutes creators and
sets, of which no liveness is checked.  `CHECK_DEADLOCK FALSE`, because each part has bounded inputs.

### Accounts

`Authentication`: the web process and the commands of the CLI.  A request is authenticated, waits for its body, and then runs without
another greenlet in between, since SQLite does not yield; so a handler is one action, but the capability it relies on (`rank`) is that of an earlier
moment.  Python's sqlite3 opens a transaction at the first write, so a command in another process may come between the reads and the
writes of a handler.  That is modelled for `claim` (`ClaimRead`, `ClaimWrite`) and for `create_recovery` (`RecoverRead`, `RecoverWrite`,
two transactions); for the other handlers it tells nothing apart, because commands change neither sessions nor active accounts.
`code[c]` is the unused invitation a code stands for, `session[s]` whose live session a token is; names of dead ones are used again.
Passwords, failed attempts and CSRF tokens are comparisons and are left out; operators and viewers administer nobody and are one role.

`LastOwnerRemains`: two owners who were authenticated before either suspended the other do not leave the panel without one, and neither
does a claimed code that demotes.  `LiveSessionsAreActive`: a suspension leaves no session behind that a later invitation would revive.
Two players, codes, sessions and requests: two of each are what the races need.

### Backups

`BackupRestore`: every command is a process of its own, and nothing keeps two apart: creations run beside each other, beside `prune` and
beside a restore, which looks at nothing but whether Bedrock runs when it begins (`backup.py:146`).  What the model does assume is what
`docs/backup-and-restore.md:53` asks of the operator: Bedrock and the control plane stay stopped during a restore (guards of `BedrockStopsOrStarts` and
`DatabaseWrites`); and restores come one after the other.  `world` and `database` are versions; `hold` is what
"save hold" has led to, and `readyLine` that the log has a line that says "ready": the query of a command looks for one in the lines of the last
seconds (`console.py:42-45`), also for one that answered another command, which may have resumed since (`WaitUntilReady`); `stage`, `target` and `held` belong to a creating process and `rpc`, `source`, `recovery` to the restore.  Any step of create
may raise, after which its `finally` runs (`CreateRaises`, `SaveResume`), and any process may be killed (`Kill`, `RestoreStops`).  A console call
may raise after its command was written.  `prune` deletes a set while a restore reads it, or is killed half way.

`SavesResume`: whatever step failed, Bedrock holds its saves only while a command that will resume them runs.  `ArchiveIsConsistent`: the world of a
listed set was neither written nor moved while it was copied, whichever steps fail, and whatever other commands do.  `NothingIsLost`: what a
restore found is under `pre-restore` once it has replaced anything.  Their exceptions are what the code does not handle: `abandoned`, a process killed
or a console that raised while saves were held; and `disturbed`, a set that was copied while Bedrock was stopped or started, while another command
resumed the saves, after the line that says "ready" was another command's, or while a restore moved the world.  Two creators, two sets, two versions and
one restore; the rows of the audit that a restore carries over and the configuration file are left out.

### Telemetry

`TelemetryStream`: the pack numbers its lines and saves the number with its counters in the world every five seconds; the manager reads the
lines in the thread that follows the log, and once more in the thread that asked for a snapshot.  `pack` and `saved` are the pack's state and
what a killed Bedrock comes back with; `log` is the container's log; `mirror`, `received`, `last`, `health` and `gaps` are the manager's tables;
`sync` and `window` are the snapshot thread and the lines it has still to ingest; `cut` is history.  Of the counters the blocks of each player
are kept: the other queues of the pack are filled and published in the same way.  A pack whose storage is blocked is left out.

Of time the model assumes what seconds against milliseconds give: `SyncRead` follows the wait of the console, by when the following
thread has passed the lines that were there before the command; Bedrock does not die and the stream does not break in the
milliseconds a window is ingested; the timer of a new stream fires after a snapshot of the old stream has ended.

What the pack saves (`saved`) is what a killed Bedrock comes back with: dynamic properties are taken to survive its death, so the changes
that were queued are lost and the sequence is not.  Bedrock writes its world in its own time, and the code distinguishes a pack that went
back (`PackReset`); in this model the sequence never does.

`HealthyMirrorsPack`: on a stream for which a snapshot was asked, a manager that calls telemetry healthy and is at the pack's sequence has
the pack's counters, whatever was lost, read twice, or dropped in a death.  It also holds while lines are still to be read or another snapshot is on
its way.  Two kinds of history are excepted, because the code does not handle them:

- `cut`: a stream or a window that begins inside a snapshot.  The frames before it are missed and the last frame still says healthy.
- `late`: a line ingested after a later one.  `ingest` compares the sequence of batches, not that of frames; frames carry the pack's
  sequence and are told apart by their time only.  The snapshot thread that ingests frames the following thread never saw, because its
  stream broke, while that thread is already past a later snapshot, sets counters back.  Batches add to what is there.

One player, one block, one snapshot and one of each disturbance, two per behaviour.  With a second snapshot and three disturbances
(9.7 million states, beyond what a run may take) TLC finds `late` to be needed: the stream breaks while an answer is awaited, the following
thread goes ahead into a later snapshot, the snapshot thread ingests the frames of the older one, and the manager dies before the
later frames that would repair it are read.

### Players

`PlayerSessions`: the thread that follows the log, the refresh that compares the profiles with the console's list, and the one that hears
of the container's death write the same tables.  A connection reads outside a transaction until it first writes, so an observation is
`Look` (identity, presence) and `Write`.  `Named`, `Merge`, `MergedDays` are `player_identity` without and with an xuid and
the merge it makes.  Times, deaths and permissions are left out, and so are replayed lines of a stream that begins again.

`EverySessionIsCounted`: the calendar counts every session once, under one identity, across renames, merges and every interleaving.
`SessionMatchesPresence`: a profile is online exactly while one of its sessions is open.  The code does not keep that when two
observations overlap between look and write (`overlap`), or when two profiles that both have a presence are merged (`merged`), so
these are excepted.  One player with two names, two connections, one of each disturbance; a rename and a refresh before the xuid is
known give a temporary profile, which is what a merge needs.

### Schema

`SchemaMigrations`: the server, the CLI and, in an update, the server of the release before start beside each other, each with the version it
read.  `backups[v]` is the file of the copy made before migrating from `v`, `schema` the migrations whose statements are
committed.  `ServesOnItsSchema`: who serves has every migration it knows, although versions are written by whoever comes last and
migrations fail.  Two processes of two releases, three starts and one failure; two migrations.

## Where the code and its documents disagree

Shown by a run that ends in a counterexample:

- `CrashBetweenStages`.  A process that dies after `_complete(RESTART)` and before `_begin(HEALTH_WAIT)` leaves no running stage; the
  boot charges REVIEW, and `_fail` skips the reconciliation although the change was applied.  `CP/operations/service.py:724-728`
  says that the observation "must be attached".
- `ReloadOverlap`.  RESTART waits for the executor without touching `updated_at`, for longer than the 30 s after which a process that
  boots takes the operation for an orphan; `CP/operations/service.py:18-23` says that the threshold prevents this race.  The run
  needs the two processes to overlap, as they do in a graceful reload.
- `LostAnswer`.  A post was delivered and no status line arrives: `urlopen` raises the plain `TimeoutError` or `ConnectionError` of
  `getresponse`, and `execute` reports the agent as unavailable at once, although the agent goes on with the operation.
  `docs/bedrock-proxy-contract.md:436` and `:445-446` say that such a failure is post-delivery and that the backend polls before it
  concludes.
- `FalseGap`.  The pack numbers `player.gamemode.changed` like every line, the manager does not know that topic and drops the line, and
  the next one is recorded as a gap; `docs/telemetry-pack.md:26-28` calls the range missing events.

Met while reading, where the model follows the code and no run is spent:

- `CP/http/operations.py:85-86`: clients pass Last-Event-ID "so no terminal outcome is missed"; nothing publishes the event of a process
  that died after the terminal save, and an event whose own write raises is dropped (`CP/operations/service.py:763-771`).  `OutcomeIsShown`
  excepts both.
- `docs/bedrock-proxy-contract.md:264`: `outcome` is `"ok"` or `"error"`; `_handle_status` reads the record without the store's lock and may
  answer done with null, between two assignments of `store.update`.  The adapter takes it for a failure (`Outcome`).
- `docs/operation-lifecycle.md:78-79`: `DIVERGENT` comes only from `VERIFICATION`; `service.py:525` sets it for any failed
  operation whose reconciliation finds another value.
- `docs/operation-lifecycle.md:111-112`: no transition leaves a terminal state; `service.py:206` revises failed and divergent ones.
- `service.py:727-728`: the audit record is written before the result is exposed; `_fail` (`:474-476`) saves and publishes first.
- `docs/operation-lifecycle.md:268-269`: the stages after a failure are `skipped`; `lifecycle.py:206` leaves them pending.
- `docs/operation-lifecycle.md:87-88`: a failed operation is reconciled before it is published; the handler of an internal error
  (`service.py:436`) neither reconciles nor audits.
- `docs/bedrock-proxy-contract.md:264-265`: a failure has a non-null `failed_stage`; the records of a crash recovery and of a full
  queue have none.
- `docs/bedrock-proxy-contract.md:199-205`: records are lost when the agent restarts; the store keeps them in SQLite.
- `docs/bedrock-proxy-contract.md:195-197`: a repeated call answers the stored result; the handler answers 202.
- `docs/configuration.md:78-80`: a disconnect closes the session; two observations that overlap may leave a profile offline with an open
  session, or close one session of two (`overlap` in `PlayerSessions`).
- `docs/database-migrations.md:11,17`: a copy precedes a migration; a process that dies while it makes the copy leaves an empty file of that
  name, which the next one takes for the copy.

Things to know about the code that no document contradicts:

- A recovery code issued while the account is suspended or given another role invites it again with the role that was read before.
- A backup has a torn archive and passes `verify` if during the copy Bedrock is started, another command resumes it, or a restore moves the
  world; also if it took the "ready" another command was answered for its own, and Bedrock was resumed since (`disturbed` in `BackupRestore`).
- A console that raises after "save hold" was written leaves saves held: `held` is not set yet, so nothing resumes them.
- The frames of a snapshot are accepted in any order of their sequences, so an older snapshot that is read late overwrites a newer one
  and may end as healthy (`late` in `TelemetryStream`).
- Requests for a snapshot that arrive while one runs are dropped, also when that one began before the gap.  A death of Bedrock
  and a new line may give an event the key of an older one.  A snapshot thread that failed writes degraded over a healthy state.
- Deaths are counted by `CP/players/repository.py:243-268` from the log and by `CP/telemetry/repository.py:259-268` from the pack.

## What is proved

TLAPS checks these for every value of the constants: any number of operations, threads, values, crashes and failing calls.  The
assumptions are those the modules declare: bounds are natural numbers, a queue has room for one, the names of threads and values
are distinct, and there are finitely many players.

`ServerOperationProofs`: `TypeCorrect`, `OneActiveOperation`, `WorkersOwnTheirRows`, `TerminalEventsAreCommitted`,
`OnlyReviewedValuesAreApplied`, `TerminalRecordsAreSealed`, `ControlPlaneImplementsContract`, `ConfirmedOperationsAreEffective` and
`FailuresAreObserved`.  None of these properties is inductive by itself.  `IInv` adds what each kind of thread knows at each step:

- a request between its check and its write holds the lock, and nothing is active meanwhile (`RequestFits`), which is what makes
  creation exclusive;
- a thread that executes is in `_live_workers`, its object and its row agree on the phase, and an operation that was just created or spawned is fresh
  (`WorkerFits`), while a reclaim in progress is about a row that is silent and that no thread executes (`ReclaimIsSafe`): so a
  reclaim and a worker never meet;
- one request at a time is about to spawn (`OneSpawner`), and a boot has no other thread beside it (`BootIsAlone`);
- past REVIEW a worker has a value REVIEW accepted, and so does whatever the executor still holds (`ReviewFits`).

The action property and the refinement follow from `IInv` step by step: each step of `ServerOperation` is a step of
`OperationContract` on the state column or leaves it unchanged.  Two properties need a second invariant on top:

- `ConfirmInv`, for `ConfirmedIsEffective`: only the newest operation is active (`OnlyNewestIsActive`), a creation makes the newest
  (`CreatesTheNewest`), the executor serves in order (`ServedInOrder`), the request of an operation follows its phase
  (`RequestFollows`), and what a completed VERIFY or CONFIRM says of `effective` (`MarksHold`).  A late restart of an older operation would
  have to be served after a newer one.
- `ObservedInv`, for `FailureIsObserved`, under the assumption that neither the process dies nor a write raises (with either, the code
  does not promise it: see `CrashBetweenStages`): every active operation has a thread (`Attended`), so nothing is reclaimed; and a worker's object
  carries its observation before its terminal save (`WorkerObserves`).

`HostAgentProofs`: `TypeCorrect`, `EachHasOneOwner`, `OkWasLoaded`, `BegunIsInSQLite`, `RowsAgree`, `ExecutedAtMostOnce` and
`ForgottenInTime`.  The invariant has two layers:

- `OwnerInv`, which holds whatever fails.  An unfinished record has its owner, the queue has no repetition, a record says "running"
  or "undecided" exactly as its owner's step requires, and no two threads work on one operation (`OwnersFit`).  Unfinished records
  and those still being written are never past their retention, so an eviction cannot touch them (`RecordsStay`).  Types are part of
  this layer, since a thread writes a row only where its record cannot be "undecided".
- `DurableInv`, which holds while no SQLite call has failed.  The row follows the record but for the thread between the two
  (`RowFollows`); what was executed has a record and is on its way to the queue no more (`RanIsKnown`); and an operation that is or
  will be reported `ok`, or whose restart has come back, has been loaded by Bedrock as long as the file still holds its value
  (`Settled`).  Faults are only counted up, so a state without one comes from a state without one.

`EventBrokerProofs`: `TypeCorrect`, `SlotsAndQueuesAreReturned` (`NothingLeaks`) and `DeliveredExactlyOnce` (`LiveIsExactlyOnce`).
Publishers that have recorded have distinct events (`PublishersFit`); the phase of a stream decides its slot and its queue
(`StreamsFit`).  An event that is on its way to a stream is neither in its queue nor sent to it (`ArrivesOnce`), and
every event recorded since the subscription is sent, queued, refused or on its way (`Complete`).

`ReconciliationProofs`: `TypeCorrect`, `TheLockHasOneOwner`, `EveryRequestHasAServer` and `FailedRulesStayPending`.  One thread of each
kind is in its loop exactly while the worker's flag is up, the holder of the lock is the one thread in a critical section
(`LockFits`), and what a worker took is in what is pending again once it has raised (`WorldFits`, `RulesFit`).

`AgentClientProofs`: `AnyClient`, `FailuresAreFinal`, `ReturnedWasLoaded` and `Executes`, that the composition implements `Executor`.
`AnyClient` says that the composition is a behaviour of `HostAgent`, so `OwnerInv` holds of it; whatever fails, also SQLite.  `AdapterInv` adds,
while the adapter is the client:

- an operation is asked for once and `execute` is inside the last one asked (`CallFits`); of the requests on the wire and with the handler only
  the one `execute` waits for is live, so an answer is about the operation it is taken for (`LiveFits`), although those
  of callers that gave up are served before it;
- a request is in one place: with the caller, on the wire, with the handler, in the queue, or begun.  Until the handler has it the agent has no record
  of it (`UnknownIsAbsent`, `ServiceFits`), and nobody overtakes on the way (`InOrder`), which gives the order of `Executor`;
- what was reported as an end is one (`EndsAreFinal`), and `ok` in memory, in SQLite, in an answer or as a verdict is true of an operation that
  succeeded (`OkIsTrue`) and that Bedrock was restarted for (`RestartedIsLoaded`).

A request is waiting in the sense of `Executor` while it is at one of these places.  A step of the code that moves it from one to the next is a
stutter, so is a lost answer, and a restart of the agent is what loses requests.

`TelemetryStreamProofs`: `TelemetryTypeCorrect` and `HealthyIsCurrent` (`HealthyMirrorsPack`).  The log determines the counters the pack had at each of its
sequences; the invariant `MirrorInv` says that such a history `F` exists (`LogFits`): a batch leads from `F[n - 1]` to `F[n]`, a frame shows
`F[n]`, batches are numbered without repetition, and a snapshot is in one piece and names everybody (`Framed`).  What the pack has beyond `F` is queued
(`PackFits`).  The manager is compared with the same `F` (`HealthFits`): telemetry that is healthy has `F[last]`; the players whose frames were read
since the last "started" have the counts of those frames (`Shown`), so the last frame completes `F` at its sequence; and no reader stands inside a
snapshot he did not begin (`ReadersFit`).  A batch is accepted at healthy only if it is the next one, and otherwise degrades.  `F` grows
when the pack publishes (`PackKeeps`), and one lemma serves both readers (`IngestKeeps`).

`PlayerSessionsProofs`: `VisitsTypeCorrect`, `SessionsAreCounted` and `PresenceHasItsSession`.  The invariant has what each thread holds between its
steps (`ThreadFits`), that a profile has a name (`NamesFit`), and that while no observation overlapped another, what a thread saw is still
so when it writes (`NothingIsStale`); the two properties themselves are the rest.

`StoresProofs` has the other three stores.

- Accounts: `AccountTypeCorrect`, `SessionsOfActiveAccounts` and `AnOwnerRemains`.  A request past its authentication has the session it
  was authenticated with (`RequestsFit`); one request at a time is between the reads and the writes of a claim, and while it is, no other
  request runs, so the owner check it made still holds: commands can only change who is not active (`ClaimsFit`).
- Backups: `BackupTypeCorrect`, `SavesAreResumed`, `ArchivesAreConsistent` and `NothingRestoredIsLost`.  A set has one process that makes it
  (`TargetsFit`); a set that is copied is clean or disturbed, and beside a running Bedrock that does not hold its saves only disturbed sets
  are copied (`CopiesFit`); a restore past the copies to `pre-restore` has made them (`RestoreFits`).
- Schema: `SchemaTypeCorrect` and `ServingIsMigrated`.  The schema has all of 1 to the file's version, and all of 1 to what each process has
  reached (`MigratedInv`): a version written late is lower than the schema, never higher.
- Together: a behaviour of `MCStores` is one of each part (`StoresParts`), hence `StoresTypeCorrect`.

Each preservation proof has one step per action; lemmas such as `OwnersKept`, `MoveKeeps`, `HandlerKeeps` and `RowKept` carry the many
actions that change nothing of what an invariant speaks of.

Only model-checked: the liveness properties (`EveryOperationEnds`, `LockIsReleased`, `OutcomeIsShown`, `SlotComesBack`,
`DeferredIsServed`, `EventuallyFresh`), because the prover does not handle fairness and ENABLED.  Every invariant, action property and
refinement of the passing runs is stated by a theorem.

## What is not modelled

`PROJECT.json` lists every part with its reason.  In short:

- Console and file access, world readers, the pack installer, routes, exports, metrics, wiring, rendering in the client,
  generated contracts, translations and deployment scripts are I/O, formatting or sequential scripts without shared state.
- `CP/server/docker.py`, the adapter without an agent, is one blocking call; the executor of `ServerOperation` stands for it.
- The health probe's backoff (`BP/adapters/raknet.py`) and the merge of `server.properties` (`BP/adapters/filesystem.py`) are pure
  algorithms on text and time.
- Of players and telemetry: durations, deaths, dimensions, permissions, preferred game modes, queries and analytics; migrations of
  the pack's storage and a pack that cannot store.
- The preservation of the audit across a restore, and `store` and `replace` of the state repository, which are single writes of their
  callers.
- The web client's operation drawer, which follows the stream, polls, and may show a late answer.

## Plan

Done: the server operations, the agent and its client, the broker, the reconciliation, and the five stores, each with the proofs
listed above.  Next, in this order:

1. The web client's operation drawer over `EventBroker` and `ServerOperation`: late answers and events out of order
   (`CP/operations/service.py:244`).
2. A pack whose storage is blocked or whose world went back, for which `TelemetryStream` would let the sequence decrease.
3. The pack's storage migrations.
4. The health probe's backoff and the merge of `server.properties` against reference definitions.
