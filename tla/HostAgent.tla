----------------------------- MODULE HostAgent -----------------------------
(***************************************************************************)
(* The bedrock-proxy, the agent on the Docker host that applies a change:  *)
(* OperationStore (store/store.py), OperationQueue (runtime/               *)
(* queue_worker.py), OperationExecutor (runtime/operations.py) and the     *)
(* endpoints (http/handler.py).                                            *)
(*                                                                         *)
(* HTTPServer is not threaded: one thread, Handler, serves POST /v1/execute *)
(* and GET /v1/status one after the other, beside the worker threads.  The *)
(* store keeps each record in memory and in SQLite and swallows the writes *)
(* that raise.  The Docker daemon outlives the command that asks it to     *)
(* restart Bedrock.                                                        *)
(***************************************************************************)
EXTENDS Naturals, Sequences

CONSTANTS
    Ops,        \* operation ids; an operation stands for the value it applies
    Workers,    \* BEDROCK_PROXY_WORKERS threads
    Handler,    \* the thread that serves requests
    NoOp,       \* a thread works on nothing; server.properties holds another value
    Torn,       \* server.properties is half written
    QueueSize,  \* BEDROCK_PROXY_QUEUE_SIZE
    MaxCrashes, \* bound: restarts of the agent
    MaxFaults   \* bound: SQLite calls that raise

Threads == Workers \cup {Handler}

ASSUME QueueAssumption == QueueSize \in Nat \ {0}
ASSUME BoundsAssumption == MaxCrashes \in Nat /\ MaxFaults \in Nat
ASSUME NamesAssumption == Handler \notin Workers /\ NoOp \notin Ops /\ Torn \notin Ops \cup {NoOp}

VARIABLES
    mem,     \* operation |-> its record in memory
    db,      \* operation |-> its row
    conn,    \* SQLite is open
    queue,   \* operations accepted and not taken
    pc,      \* thread |-> where it is
    job,     \* thread |-> the operation it is about
    result,  \* worker |-> the outcome it is about to record
    dropped, \* operations evicted from memory, their rows not yet deleted
    old,     \* operations completed RESULT_RETENTION_SECONDS ago or more
    ran,     \* operations executed since they were last evicted
    told,    \* the last answer of the handler
    props,   \* what server.properties holds
    loaded,  \* what it held when Bedrock last started
    reboot,  \* operations whose restart the Docker daemon has still to make
    crashes,
    faults

storeVars == <<mem, db, conn, dropped, old>>
threadVars == <<queue, pc, job, result>>
bedrockVars == <<props, loaded, reboot>>
vars == <<storeVars, threadVars, ran, told, bedrockVars, crashes, faults>>

\* Records: status "running", or status "done" with its outcome; a record whose
\* status is already "done" and whose outcome is still None is "undecided"
Decided == {"ok", "error"}
Rows == {"absent", "running"} \cup Decided
Records == Rows \cup {"undecided"}

Goto(t, label) == pc' = [pc EXCEPT ![t] = label]
Queued(op) == \E i \in 1..Len(queue) : queue[i] = op

\* _persist: caught when it raises, skipped without a connection
Persist(op, record) ==
    \/ conn /\ db' = [db EXCEPT ![op] = record] /\ UNCHANGED faults
    \/ conn /\ faults < MaxFaults /\ faults' = faults + 1 /\ UNCHANGED db
    \/ ~conn /\ UNCHANGED <<db, faults>>

Init ==
    /\ mem = [op \in Ops |-> "absent"]
    /\ db = [op \in Ops |-> "absent"]
    /\ conn = TRUE
    /\ queue = <<>>
    /\ pc = [t \in Threads |-> "idle"]
    /\ job = [t \in Threads |-> NoOp]
    /\ result = [w \in Workers |-> "error"]
    /\ dropped = {}
    /\ old = {}
    /\ ran = {}
    /\ told = "nothing"
    /\ props = NoOp
    /\ loaded = NoOp
    /\ reboot = {}
    /\ crashes = 0
    /\ faults = 0

-----------------------------------------------------------------------------
(* POST /v1/execute                                                        *)

Known_Running(op) == mem[op] = "running"  \* mutant: what has ended runs again
Known(op) == mem[op] # "absent"

HandlerIdle == pc[Handler] = "idle"
HandlerDone == Goto(Handler, "idle") /\ job' = [job EXCEPT ![Handler] = NoOp]

\* A known operation is not run again: 409 while it runs, 202 afterwards
Duplicate(op) ==
    /\ HandlerIdle
    /\ Known(op)
    /\ told' = IF mem[op] = "running" THEN "conflict" ELSE "accepted"
    /\ UNCHANGED <<storeVars, threadVars, ran, bedrockVars, crashes, faults>>

Create(op) ==
    /\ HandlerIdle
    /\ ~Known(op)
    /\ mem' = [mem EXCEPT ![op] = "running"]
    /\ old' = old \ {op}
    /\ job' = [job EXCEPT ![Handler] = op]
    /\ Goto(Handler, "create")
    /\ UNCHANGED <<db, conn, dropped, queue, result, ran, told, bedrockVars, crashes, faults>>

\* mutant: the row is written once the operation has ended
SaveCreated_Later(op) == UNCHANGED <<db, faults>>

SaveCreated(op) == Persist(op, "running")

Created ==
    /\ pc[Handler] = "create"
    /\ SaveCreated(job[Handler])
    /\ Goto(Handler, "enqueue")
    /\ UNCHANGED <<mem, conn, dropped, old, queue, job, result, ran, told, bedrockVars, crashes>>

Enqueue ==
    /\ pc[Handler] = "enqueue"
    /\ Len(queue) < QueueSize
    /\ queue' = Append(queue, job[Handler])
    /\ told' = "accepted"
    /\ HandlerDone
    /\ UNCHANGED <<storeVars, result, ran, bedrockVars, crashes, faults>>

\* mutant: the record of a rejected operation is left running
MarkRejected_Forgotten(op) == UNCHANGED mem

MarkRejected(op) == mem' = [mem EXCEPT ![op] = "error"]

QueueFull ==
    /\ pc[Handler] = "enqueue"
    /\ Len(queue) >= QueueSize
    /\ MarkRejected(job[Handler])
    /\ Goto(Handler, "reject")
    /\ UNCHANGED <<db, conn, dropped, old, queue, job, result, ran, told, bedrockVars, crashes, faults>>

SaveRejected ==
    /\ pc[Handler] = "reject"
    /\ Persist(job[Handler], mem[job[Handler]])
    /\ told' = "full"
    /\ HandlerDone
    /\ UNCHANGED <<mem, conn, dropped, old, queue, result, ran, bedrockVars, crashes>>

-----------------------------------------------------------------------------
(* GET /v1/status                                                          *)

Expired_Done == {op \in Ops : mem[op] \in Decided}   \* mutant: the retention is ignored
Expired == {op \in old : mem[op] \in Decided}

\* evict_expired drops the expired records under the lock, then their rows
Evict(op) ==
    /\ HandlerIdle
    /\ mem' = [o \in Ops |-> IF o \in Expired THEN "absent" ELSE mem[o]]
    /\ dropped' = Expired
    /\ ran' = ran \ Expired
    /\ job' = [job EXCEPT ![Handler] = op]
    /\ Goto(Handler, "delete")
    /\ UNCHANGED <<db, conn, old, queue, result, told, bedrockVars, crashes, faults>>

DropRow_Kept(op) == UNCHANGED <<db, faults>>  \* mutant: only memory is evicted
DropRow(op) == Persist(op, "absent")

DeleteRow(op) ==
    /\ pc[Handler] = "delete"
    /\ op \in dropped
    /\ DropRow(op)
    /\ dropped' = dropped \ {op}
    /\ UNCHANGED <<mem, conn, old, threadVars, ran, told, bedrockVars, crashes>>

\* The record is read outside the lock: first its status ...
ReadStatus ==
    /\ pc[Handler] = "delete"
    /\ dropped = {}
    /\ LET op == job[Handler]
       IN  \/ /\ mem[op] \in {"absent", "running"}
              /\ told' = IF mem[op] = "absent" THEN "unknown" ELSE "running"
              /\ HandlerDone
           \/ /\ mem[op] \notin {"absent", "running"}
              /\ Goto(Handler, "body")
              /\ UNCHANGED <<job, told>>
    /\ UNCHANGED <<storeVars, queue, result, ran, bedrockVars, crashes, faults>>

\* ... then its fields
ReadBody ==
    /\ pc[Handler] = "body"
    /\ told' = mem[job[Handler]]
    /\ HandlerDone
    /\ UNCHANGED <<storeVars, queue, result, ran, bedrockVars, crashes, faults>>

HandlerStep ==
    \/ Created \/ Enqueue \/ QueueFull \/ SaveRejected
    \/ (\E op \in Ops : DeleteRow(op)) \/ ReadStatus \/ ReadBody

-----------------------------------------------------------------------------
(* A worker: OperationExecutor.run.  Each stage begins with an update that *)
(* rewrites the row of the running record.                                 *)

At(w, label) == pc[w] = label

Take(w) ==
    /\ At(w, "idle")
    /\ queue # <<>>
    /\ job' = [job EXCEPT ![w] = Head(queue)]
    /\ queue' = Tail(queue)
    /\ ran' = ran \cup {Head(queue)}
    /\ Goto(w, "prepare")
    /\ UNCHANGED <<storeVars, result, told, bedrockVars, crashes, faults>>

BeginStage(w) == Persist(job[w], mem[job[w]])

\* server.properties is rewritten in place
Prepare(w) ==
    /\ At(w, "prepare")
    /\ BeginStage(w)
    /\ props' = Torn
    /\ Goto(w, "write")
    /\ UNCHANGED <<mem, conn, dropped, old, queue, job, result, ran, told, loaded, reboot, crashes>>

Written(w) ==
    /\ At(w, "write")
    /\ props' = job[w]
    /\ Goto(w, "restart")
    /\ UNCHANGED <<storeVars, queue, job, result, ran, told, loaded, reboot, crashes, faults>>

End(w, outcome) ==
    /\ result' = [result EXCEPT ![w] = outcome]
    /\ Goto(w, "finish")

PrepareFails(w) ==
    /\ pc[w] \in {"prepare", "write"}
    /\ End(w, "error")
    /\ UNCHANGED <<storeVars, queue, job, ran, told, bedrockVars, crashes, faults>>

Restart(w) ==
    /\ At(w, "restart")
    /\ BeginStage(w)
    /\ reboot' = reboot \cup {job[w]}
    /\ Goto(w, "restarting")
    /\ UNCHANGED <<mem, conn, dropped, old, queue, job, result, ran, told, props, loaded, crashes>>

RestartReturned_Detached(w) == TRUE  \* mutant: the command does not wait for the daemon
RestartReturned(w) == job[w] \notin reboot

RestartReturns(w) ==
    /\ At(w, "restarting")
    /\ RestartReturned(w)
    /\ BeginStage(w)
    /\ Goto(w, "health")
    /\ UNCHANGED <<mem, conn, dropped, old, queue, job, result, ran, told, bedrockVars, crashes>>

\* The command exits non-zero, or is killed when it times out while the daemon
\* still restarts the container
RestartFails(w) ==
    /\ At(w, "restarting")
    /\ reboot' \in {reboot, reboot \ {job[w]}}
    /\ End(w, "error")
    /\ UNCHANGED <<storeVars, queue, job, ran, told, props, loaded, crashes, faults>>

\* Whether a probe succeeds before the deadline is open
HealthWait(w) ==
    /\ At(w, "health")
    /\ \E outcome \in Decided : End(w, outcome)
    /\ UNCHANGED <<storeVars, queue, job, ran, told, bedrockVars, crashes, faults>>

\* The last update sets status, then the other fields, then writes the row
SetStatus(w) ==
    /\ At(w, "finish")
    /\ mem' = [mem EXCEPT ![job[w]] = "undecided"]
    /\ Goto(w, "fields")
    /\ UNCHANGED <<db, conn, dropped, old, queue, job, result, ran, told, bedrockVars, crashes, faults>>

SetFields(w) ==
    /\ At(w, "fields")
    /\ mem' = [mem EXCEPT ![job[w]] = result[w]]
    /\ Goto(w, "save")
    /\ UNCHANGED <<db, conn, dropped, old, queue, job, result, ran, told, bedrockVars, crashes, faults>>

SaveDone(w) ==
    /\ At(w, "save")
    /\ Persist(job[w], mem[job[w]])
    /\ job' = [job EXCEPT ![w] = NoOp]
    /\ result' = [result EXCEPT ![w] = "error"]
    /\ Goto(w, "idle")
    /\ UNCHANGED <<mem, conn, dropped, old, queue, ran, told, bedrockVars, crashes>>

WorkerStep(w) ==
    \/ Take(w) \/ Prepare(w) \/ Written(w) \/ PrepareFails(w)
    \/ Restart(w) \/ RestartReturns(w) \/ RestartFails(w) \/ HealthWait(w)
    \/ SetStatus(w) \/ SetFields(w) \/ SaveDone(w)

-----------------------------------------------------------------------------
(* The daemon, time, and the agent's own restart.                          *)

DaemonRestarts(op) ==
    /\ op \in reboot
    /\ reboot' = reboot \ {op}
    /\ loaded' = props
    /\ UNCHANGED <<storeVars, threadVars, ran, told, props, crashes, faults>>

\* A row is written long before its retention ends
Expire(op) ==
    /\ mem[op] \in Decided
    /\ \A t \in Threads : job[t] # op \/ pc[t] \in {"delete", "body"}
    /\ old' = old \cup {op}
    /\ UNCHANGED <<mem, db, conn, dropped, threadVars, ran, told, bedrockVars, crashes, faults>>

\* _load_and_recover: what was running has failed
Recovered_Undecided(row) == IF row = "running" THEN "undecided" ELSE row  \* mutant
Recovered(row) == IF row = "running" THEN "error" ELSE row

LoadAndRecover ==
    /\ mem' = [op \in Ops |-> Recovered(db[op])]
    /\ \/ db' = mem' /\ UNCHANGED faults
       \/ /\ faults < MaxFaults     \* a recovered row may not be written
          /\ faults' = faults + 1
          /\ \E op \in Ops : db' = [mem' EXCEPT ![op] = db[op]]
    /\ conn' = TRUE

\* The database does not open: the store runs in memory only
InMemoryOnly ==
    /\ faults < MaxFaults
    /\ faults' = faults + 1
    /\ mem' = [op \in Ops |-> "absent"]
    /\ conn' = FALSE
    /\ UNCHANGED db

Crash ==
    /\ crashes < MaxCrashes
    /\ crashes' = crashes + 1
    /\ LoadAndRecover \/ InMemoryOnly
    /\ queue' = <<>>
    /\ pc' = [t \in Threads |-> "idle"]
    /\ job' = [t \in Threads |-> NoOp]
    /\ result' = [w \in Workers |-> "error"]
    /\ dropped' = {}
    /\ UNCHANGED <<old, ran, told, bedrockVars>>

Request(op) == Duplicate(op) \/ Create(op) \/ Evict(op)

Next ==
    \/ \E op \in Ops : Request(op) \/ DaemonRestarts(op) \/ Expire(op)
    \/ HandlerStep
    \/ \E w \in Workers : WorkerStep(w)
    \/ Crash

Spec == Init /\ [][Next]_vars

-----------------------------------------------------------------------------
(* Properties.                                                             *)

Labels == {"idle", "create", "enqueue", "reject", "delete", "body",
           "prepare", "write", "restart", "restarting", "health", "finish", "fields", "save"}

TypeOK ==
    /\ mem \in [Ops -> Records]
    /\ db \in [Ops -> Rows]
    /\ conn \in BOOLEAN
    /\ queue \in Seq(Ops)
    /\ pc \in [Threads -> Labels]
    /\ job \in [Threads -> Ops \cup {NoOp}]
    /\ result \in [Workers -> Decided]
    /\ dropped \in SUBSET Ops
    /\ old \in SUBSET Ops
    /\ ran \in SUBSET Ops
    /\ told \in Records \cup {"nothing", "accepted", "conflict", "full", "unknown"}
    /\ props \in Ops \cup {NoOp, Torn}
    /\ loaded \in Ops \cup {NoOp, Torn}
    /\ reboot \in SUBSET Ops
    /\ crashes \in 0..MaxCrashes
    /\ faults \in 0..MaxFaults

\* A record that is not finished has one owner who will finish it: the handler
\* that creates it, a place in the queue, or one worker; and neither the queue
\* nor a worker holds an operation whose record is finished or gone.
Owns(t, op) ==
    /\ job[t] = op
    /\ pc[t] \in {"create", "enqueue", "prepare", "write", "restart", "restarting",
                  "health", "finish", "fields"}
OneOwner ==
    /\ \A op \in Ops : mem[op] \in {"running", "undecided"} <=> Queued(op) \/ \E t \in Threads : Owns(t, op)
    /\ \A i, j \in 1..Len(queue) : queue[i] = queue[j] => i = j
    /\ \A t \in Threads, op \in Ops : Owns(t, op) => ~Queued(op) /\ \A u \in Threads : Owns(u, op) => u = t

\* The outcome "ok" is true: as long as server.properties holds what the
\* operation wrote, Bedrock has been started on it, whichever restarts the
\* daemon made late for operations that timed out.
OkIsLoaded == faults = 0 => \A op \in Ops : mem[op] = "ok" /\ props = op => loaded = op

\* An operation is executed at most once until its record is evicted, whatever
\* is posted again and whenever the agent restarts, if its rows are written.
AtMostOnce ==
    [][\A w \in Workers : faults = 0 /\ job'[w] # job[w] => job'[w] \notin ran]_vars

\* What the agent has begun is in SQLite before a worker touches the host, so a
\* restart reports it as failed instead of forgetting it.
BegunIsRecoverable ==
    faults = 0 =>
        \A op \in Ops : Queued(op) \/ (\E w \in Workers : job[w] = op) => db[op] = "running"

\* A record is forgotten only after its retention; a restart forgets none but
\* the one whose first row is still being written, before it was answered.
ForgottenOnlyWhenExpired ==
    [][\A op \in Ops :
          faults' = 0 /\ mem[op] # "absent" /\ mem'[op] = "absent" =>
              op \in old \/ (pc[Handler] = "create" /\ job[Handler] = op)]_vars

\* Once no thread works on an operation, its row says what its record says.
RowAgrees ==
    faults = 0 => \A op \in Ops :
        (\A t \in Threads : job[t] # op) /\ op \notin dropped => db[op] = mem[op]
=============================================================================
