-------------------------- MODULE ServerOperation --------------------------
(***************************************************************************)
(* The lifecycle of a restart-required change in the control plane:        *)
(* ServerOperationService (operations/service.py) running ServerOperation  *)
(* objects (operations/lifecycle.py) against the SQLite operation store    *)
(* (operations/repository.py).                                             *)
(*                                                                         *)
(* One worker thread runs each accepted operation; request threads create, *)
(* retry, reclaim and re-observe operations; Main boots the process.  They *)
(* share the database rows, the creation lock, the set of live workers     *)
(* and the executor that restarts Bedrock.  Whether Bedrock answers        *)
(* status() is open at every observation.                                  *)
(***************************************************************************)
EXTENDS Naturals, FiniteSets

CONSTANTS
    NumOps,      \* bound: operations that are ever created
    Requests,    \* threads that serve HTTP requests
    Reobservers, \* bound: the requests among them that may re-observe
    Main,        \* the thread that boots the process
    NoThread,    \* the creation lock is free
    Values,      \* valid values of the one setting the changes are about
    Invalid,     \* a requested value that REVIEW rejects
    Failing,     \* bound: stages whose body may raise or time out
    MaxCrashes,  \* bound: process crashes
    MaxFaults    \* bound: database writes that raise

Ops == 1..NumOps
Threads == Ops \cup Requests \cup {Main}   \* an operation's worker is its thread

ASSUME NumOpsAssumption == NumOps \in Nat
ASSUME BoundsAssumption == MaxCrashes \in Nat /\ MaxFaults \in Nat
ASSUME ThreadsAssumption ==
    /\ Requests \cap Ops = {}
    /\ Reobservers \subseteq Requests
    /\ Main \notin Ops \cup Requests
    /\ NoThread \notin Threads
ASSUME FailingAssumption == Failing \subseteq 1..7
ASSUME ValuesAssumption == Values # {} /\ Invalid \notin Values

VARIABLES
    row,        \* operation |-> its persisted record
    age,        \* operation |-> how long updated_at has been silent
    obj,        \* thread |-> the ServerOperation it holds in memory
    pc,         \* thread |-> where it is
    at,         \* worker |-> the stage it is working on
    target,     \* thread |-> the operation a request (or Main) is about
    seen,       \* request |-> what its observation outside the lock said
    lock,       \* holder of _lock
    live,       \* _live_workers
    want,       \* operation |-> requested value
    exec,       \* operation |-> what the executor did with it
    effective,  \* the value in server.properties
    shown,      \* operation |-> state in the last operation.updated event, or
                \* "lost" once the write of a terminal one has raised
    audited,    \* operations with a terminal audit record
    crashes,
    faults

threadVars == <<obj, pc, at, target, seen>>
worldVars == <<want, exec, effective>>
countVars == <<crashes, faults>>
vars == <<row, age, threadVars, lock, live, worldVars, shown, audited, countVars>>

-----------------------------------------------------------------------------
(* The record and its transitions (lifecycle.py).                          *)

Stages == 1..7
REVIEW == 1
BACKUP_VERIFY == 2
PREPARE == 3
RESTART == 4
HEALTH_WAIT == 5
VERIFY == 6
CONFIRM == 7

ActiveStates == {"pending", "running"}
TerminalStates == {"confirmed", "failed", "divergent"}
RetryableStates == {"failed", "divergent"}
StageResult == {"pending", "running", "completed", "failed", "skipped"}
Reconciliation == {"none", "unknown", "applied", "diverged"}

\* recon is observation["reconciliation_result"]; a row in state "none" is absent
Record == [state : {"none"} \cup ActiveStates \cup TerminalStates,
           stages : [Stages -> StageResult],
           recon : Reconciliation]

Fresh(state) == [state |-> state,
                 stages |-> [s \in Stages |-> "pending"],
                 recon |-> "none"]

Terminal(o) == o.state \in TerminalStates
Active(op) == row[op].state \in ActiveStates

Start(o) == [o EXCEPT !.state = "running"]
BeginStage(o, s) == [o EXCEPT !.stages[s] = "running"]
CompleteStage(o, s) == [o EXCEPT !.stages[s] = "completed"]
SkipStage(o, s) == [o EXCEPT !.stages[s] = "skipped"]
FailStage_DocName(o, s) ==         \* mutant: the document's name of the result
    [o EXCEPT !.stages[s] = "error", !.state = "failed"]
FailStage(o, s) == [o EXCEPT !.stages[s] = "failed", !.state = "failed"]
Confirm(o) == [o EXCEPT !.stages[CONFIRM] = "completed", !.state = "confirmed"]
Diverge(o) == [o EXCEPT !.stages[VERIFY] = "completed", !.state = "divergent"]

\* The stage a failure is charged to: the first running one, else REVIEW
ChargedStage(o) ==
    LET running == {s \in Stages : o.stages[s] = "running"}
    IN  IF running = {} THEN REVIEW
        ELSE CHOOSE s \in running : \A r \in running : s <= r

-----------------------------------------------------------------------------
(* The store (repository.py) and the clock behind updated_at.              *)

FRESH == 0      \* silent for less than ORPHAN_STALENESS_SECONDS
ORPHAN == 1     \* silent for ORPHAN_STALENESS_SECONDS or more
ABANDONED == 2  \* silent for ABANDONED_STALENESS_SECONDS or more

Save(op, o) ==
    /\ row' = [row EXCEPT ![op] = o]
    /\ age' = [age EXCEPT ![op] = FRESH]

UpdateStage(op, o, s) ==
    Save(op, [row[op] EXCEPT !.state = o.state,
                             !.stages[s] = o.stages[s],
                             !.recon = o.recon])

NoActive_RunningOnly ==            \* mutant: the query forgets "pending"
    \A op \in Ops : row[op].state # "running"
NoActive == \A op \in Ops : ~Active(op)

\* get_active: the newest non-terminal row
GetActive(op) == Active(op) /\ \A other \in Ops : Active(other) => other <= op

\* Operations are numbered in the order of created_at
NextOp(op) == \A other \in Ops : row[other].state = "none" <=> op <= other

OpOf(t) == IF t \in Ops THEN t ELSE target[t]

Goto(t, label) == pc' = [pc EXCEPT ![t] = label]

Serving == pc[Main] = "serving"

\* _verify_configuration: server.properties holds the requested value
Matches_Assumed(op) == TRUE        \* mutant: the executor's success is believed
Matches(op) == effective = want[op]

-----------------------------------------------------------------------------
Init ==
    /\ row = [op \in Ops |-> Fresh("none")]
    /\ age = [op \in Ops |-> FRESH]
    /\ obj = [t \in Threads |-> Fresh("none")]
    /\ pc = [t \in Threads |-> IF t = Main THEN "boot"
                               ELSE IF t \in Ops THEN "none" ELSE "idle"]
    /\ at = [op \in Ops |-> REVIEW]
    /\ target = [t \in Requests \cup {Main} |-> 0]
    /\ seen = [r \in Requests |-> FALSE]
    /\ lock = NoThread
    /\ live = {}
    /\ want = [op \in Ops |-> Invalid]
    /\ exec = [op \in Ops |-> "idle"]
    /\ effective \in Values
    /\ shown = [op \in Ops |-> "none"]
    /\ audited = {}
    /\ crashes = 0
    /\ faults = 0

-----------------------------------------------------------------------------
(* The worker: _run.  A step that writes the row and then publishes it is  *)
(* one action while the operation is not terminal; the terminal write, its *)
(* event and its audit record are separate steps.                          *)

\* What worker w holds once it has mutated the object it is about to write
Written(w) ==
    CASE pc[w] = "start" -> Start(obj[w])
      [] pc[w] = "begin" /\ at[w] = BACKUP_VERIFY -> SkipStage(obj[w], at[w])
      [] pc[w] = "begin" /\ at[w] # BACKUP_VERIFY -> BeginStage(obj[w], at[w])
      [] pc[w] = "complete" -> CompleteStage(obj[w], at[w])
      [] pc[w] = "work" /\ at[w] = CONFIRM -> Confirm(obj[w])
      [] OTHER -> obj[w]

SaveOperation(w, next) ==
    /\ obj' = [obj EXCEPT ![w] = Written(w)]
    /\ Save(w, Written(w))
    /\ Goto(w, next)

\* _publish: the event is a database write, swallowed when it raises
Emit(op, state) ==
    \/ /\ shown' = [shown EXCEPT ![op] = state]
       /\ UNCHANGED faults
    \/ /\ faults < MaxFaults
       /\ faults' = faults + 1
       /\ shown' = [shown EXCEPT ![op] = IF state \in TerminalStates THEN "lost" ELSE @]

WriteStage(w, next) ==
    /\ obj' = [obj EXCEPT ![w] = Written(w)]
    /\ UpdateStage(w, Written(w), at[w])
    /\ Emit(w, Written(w).state)
    /\ Goto(w, next)

\* mutant: stages before HEALTH_WAIT are reconciled no more than REVIEW
Fail_Unobserved(t, o, s) ==
    /\ obj' = [obj EXCEPT ![t] = FailStage(o, s)]
    /\ Goto(t, IF s <= RESTART THEN "save" ELSE "reconcile")

\* _fail: the terminal flow starts with the stage marked failed in memory
Fail(t, o, s) ==
    /\ obj' = [obj EXCEPT ![t] = FailStage(o, s)]
    /\ Goto(t, IF s = REVIEW THEN "save" ELSE "reconcile")

Enter(w) ==
    /\ pc[w] = "spawned"
    /\ live' = live \cup {w}
    /\ Goto(w, "start")
    /\ UNCHANGED <<row, age, obj, at, target, seen, lock, worldVars, shown, audited, countVars>>

StartOperation(w) ==
    /\ pc[w] = "start"
    /\ SaveOperation(w, "begin")
    /\ UNCHANGED <<at, target, seen, lock, live, worldVars, shown, audited, countVars>>

Begin(w) ==
    /\ pc[w] = "begin"
    /\ at[w] # BACKUP_VERIFY
    /\ WriteStage(w, "work")
    /\ UNCHANGED <<at, target, seen, lock, live, worldVars, audited, crashes>>

Skip(w) ==
    /\ pc[w] = "begin"
    /\ at[w] = BACKUP_VERIFY
    /\ WriteStage(w, "begin")
    /\ at' = [at EXCEPT ![w] = PREPARE]
    /\ UNCHANGED <<target, seen, lock, live, worldVars, audited, crashes>>

Complete(w) ==
    /\ pc[w] = "complete"
    /\ WriteStage(w, "begin")
    /\ at' = [at EXCEPT ![w] = @ + 1]
    /\ UNCHANGED <<target, seen, lock, live, worldVars, audited, crashes>>

Working(w, s) == pc[w] = "work" /\ at[w] = s

ReviewRejects(w) ==
    /\ Working(w, REVIEW)
    /\ want[w] = Invalid
    /\ Fail(w, obj[w], REVIEW)
    /\ UNCHANGED <<row, age, at, target, seen, lock, live, worldVars, shown, audited, countVars>>

\* mutant: REVIEW looks at one change only
ReviewAccepts_Unchecked(w) ==
    /\ Working(w, REVIEW)
    /\ SaveOperation(w, "complete")
    /\ UNCHANGED <<at, target, seen, lock, live, worldVars, shown, audited, countVars>>

\* the normalised changes are saved before REVIEW completes
ReviewAccepts(w) ==
    /\ Working(w, REVIEW)
    /\ want[w] # Invalid
    /\ SaveOperation(w, "complete")
    /\ UNCHANGED <<at, target, seen, lock, live, worldVars, shown, audited, countVars>>

\* apply_fn returns ...
Prepared(w) ==
    /\ Working(w, PREPARE)
    /\ Goto(w, "complete")
    /\ UNCHANGED <<row, age, obj, at, target, seen, lock, live, worldVars, shown, audited, countVars>>

\* ... or raises
PrepareRaises(w) ==
    /\ Working(w, PREPARE)
    /\ PREPARE \in Failing
    /\ Fail(w, obj[w], PREPARE)
    /\ UNCHANGED <<row, age, at, target, seen, lock, live, worldVars, shown, audited, countVars>>

\* docker.execute: the worker blocks until the executor answers
CallExecutor(w) ==
    /\ Working(w, RESTART)
    /\ exec' = [exec EXCEPT ![w] = "requested"]
    /\ Goto(w, "await")
    /\ UNCHANGED <<row, age, obj, at, target, seen, lock, live, want, effective, shown, audited, countVars>>

ExecutorReturns(w) ==
    /\ pc[w] = "await"
    /\ exec[w] = "applied"
    /\ Goto(w, "complete")
    /\ UNCHANGED <<row, age, obj, at, target, seen, lock, live, worldVars, shown, audited, countVars>>

\* refused, timed out, or applied by an executor whose answer was lost
ExecutorRaises(w) ==
    /\ pc[w] = "await"
    /\ RESTART \in Failing
    /\ Fail(w, obj[w], RESTART)
    /\ UNCHANGED <<row, age, at, target, seen, lock, live, worldVars, shown, audited, countVars>>

\* every observation is persisted: the heartbeat of _wait_for_health
HealthPoll(w) ==
    /\ Working(w, HEALTH_WAIT)
    /\ \E next \in {"work", "complete"} : WriteStage(w, next)
    /\ UNCHANGED <<at, target, seen, lock, live, worldVars, audited, crashes>>

HealthTimeout(w) ==
    /\ Working(w, HEALTH_WAIT)
    /\ HEALTH_WAIT \in Failing
    /\ Fail(w, obj[w], HEALTH_WAIT)
    /\ UNCHANGED <<row, age, at, target, seen, lock, live, worldVars, shown, audited, countVars>>

VerifyMatches(w) ==
    /\ Working(w, VERIFY)
    /\ Matches(w)
    /\ Goto(w, "complete")
    /\ UNCHANGED <<row, age, obj, at, target, seen, lock, live, worldVars, shown, audited, countVars>>

VerifyDiverges(w) ==
    /\ Working(w, VERIFY)
    /\ ~Matches(w)
    /\ obj' = [obj EXCEPT ![w] = Diverge(obj[w])]
    /\ Goto(w, "save")
    /\ UNCHANGED <<row, age, at, target, seen, lock, live, worldVars, shown, audited, countVars>>

\* the properties cannot be read, or status() says offline or raises
VerifyFails(w) ==
    /\ Working(w, VERIFY)
    /\ VERIFY \in Failing
    /\ Fail(w, obj[w], VERIFY)
    /\ UNCHANGED <<row, age, at, target, seen, lock, live, worldVars, shown, audited, countVars>>

SaveConfirmed(w) ==
    /\ Working(w, CONFIRM)
    /\ SaveOperation(w, "publish")
    /\ UNCHANGED <<at, target, seen, lock, live, worldVars, shown, audited, countVars>>

\* the writes that raise into _run's `except Exception`
Writing(w) ==
    \/ pc[w] \in {"start", "begin", "complete", "save"}
    \/ Working(w, REVIEW) /\ want[w] # Invalid
    \/ Working(w, HEALTH_WAIT)
    \/ Working(w, CONFIRM)

WriteRaises(w) ==
    /\ Writing(w)
    /\ faults < MaxFaults
    /\ faults' = faults + 1
    /\ obj' = [obj EXCEPT ![w] = Written(w)]
    /\ Goto(w, "except")
    /\ UNCHANGED <<row, age, at, target, seen, lock, live, worldVars, shown, audited, crashes>>

\* the handler: a terminal object is left as it is ...
HandleTerminal(w) ==
    /\ pc[w] = "except"
    /\ Terminal(obj[w])
    /\ Goto(w, "finally")
    /\ UNCHANGED <<row, age, obj, at, target, seen, lock, live, worldVars, shown, audited, countVars>>

\* ... any other fails where it stands, without reconciliation
HandleError(w) ==
    /\ pc[w] = "except"
    /\ ~Terminal(obj[w])
    /\ LET o == FailStage(obj[w], ChargedStage(obj[w]))
       IN  obj' = [obj EXCEPT ![w] = o] /\ Save(w, o)
    /\ Goto(w, "report")
    /\ UNCHANGED <<at, target, seen, lock, live, worldVars, shown, audited, countVars>>

\* mutant: the event goes out although the save raised
HandlerRaises_Reports(w) ==
    /\ pc[w] = "except"
    /\ ~Terminal(obj[w])
    /\ faults < MaxFaults
    /\ faults' = faults + 1
    /\ obj' = [obj EXCEPT ![w] = FailStage(@, ChargedStage(@))]
    /\ Goto(w, "report")
    /\ UNCHANGED <<row, age, at, target, seen, lock, live, worldVars, shown, audited, crashes>>

\* and its own save may raise: the thread ends without a terminal row
HandlerRaises(w) ==
    /\ pc[w] = "except"
    /\ ~Terminal(obj[w])
    /\ faults < MaxFaults
    /\ faults' = faults + 1
    /\ obj' = [obj EXCEPT ![w] = FailStage(@, ChargedStage(@))]
    /\ Goto(w, "finally")
    /\ UNCHANGED <<row, age, at, target, seen, lock, live, worldVars, shown, audited, crashes>>

\* mutant: without `finally`, a thread that died stays a live worker
DiscardLive_Forgotten(w) == UNCHANGED live

DiscardLive(w) == live' = live \ {w}

Leave(w) ==
    /\ pc[w] = "finally"
    /\ DiscardLive(w)
    /\ Goto(w, "done")
    /\ obj' = [obj EXCEPT ![w] = Fresh("none")]
    /\ at' = [at EXCEPT ![w] = REVIEW]
    /\ UNCHANGED <<row, age, target, seen, lock, worldVars, shown, audited, countVars>>

-----------------------------------------------------------------------------
(* The terminal flow, shared by workers, reclaiming requests and Main.     *)

\* _reconcile_failed_operation: read-only, never raises
Reconcile(t) ==
    /\ pc[t] = "reconcile"
    /\ \E verdict \in {"unknown", "applied", "diverged"} :
          /\ verdict = "applied" => Matches(OpOf(t))
          /\ verdict = "diverged" => ~Matches(OpOf(t))
          /\ obj' = [obj EXCEPT ![t].recon = verdict,
                                ![t].state = IF verdict = "diverged" THEN "divergent" ELSE @]
    /\ Goto(t, "save")
    /\ UNCHANGED <<row, age, at, target, seen, lock, live, worldVars, shown, audited, countVars>>

\* mutant: the terminal record is saved and audited but not published
SaveTerminal_Unpublished(t) ==
    /\ pc[t] = "save"
    /\ Save(OpOf(t), obj[t])
    /\ Goto(t, "audit")
    /\ UNCHANGED <<obj, at, target, seen, lock, live, worldVars, shown, audited, countVars>>

SaveTerminal(t) ==
    /\ pc[t] = "save"
    /\ Save(OpOf(t), obj[t])
    /\ Goto(t, "publish")
    /\ UNCHANGED <<obj, at, target, seen, lock, live, worldVars, shown, audited, countVars>>

Publish(t) ==
    /\ pc[t] \in {"publish", "report"}
    /\ Emit(OpOf(t), obj[t].state)
    /\ Goto(t, IF pc[t] = "publish" THEN "audit" ELSE "finally")
    /\ UNCHANGED <<row, age, obj, at, target, seen, lock, live, worldVars, audited, crashes>>

\* _audit_terminal swallows a write that raises
AuditTerminal(t) ==
    /\ pc[t] = "audit"
    /\ \/ audited' = audited \cup {OpOf(t)} /\ UNCHANGED faults
       \/ faults < MaxFaults /\ faults' = faults + 1 /\ UNCHANGED audited
    /\ Goto(t, "finally")
    /\ UNCHANGED <<row, age, obj, at, target, seen, lock, live, worldVars, shown, crashes>>

-----------------------------------------------------------------------------
(* Requests.  _lock is held from the check for an active operation to the  *)
(* end of the write; the worker is spawned after it is released.           *)

Idle(r) == pc[r] = "idle" /\ Serving

Accept(r, v) ==
    /\ lock = NoThread
    /\ NoActive
    /\ \E op \in Ops :
          /\ NextOp(op)
          /\ target' = [target EXCEPT ![r] = op]
          /\ want' = [want EXCEPT ![op] = v]
    /\ obj' = [obj EXCEPT ![r] = Fresh("pending")]
    /\ lock' = r
    /\ Goto(r, "create")
    /\ UNCHANGED <<row, age, at, seen, live, exec, effective, shown, audited, countVars>>

CreateOrReject(r) ==
    /\ Idle(r)
    /\ \E v \in Values \cup {Invalid} : Accept(r, v)

\* The origin is read under the lock and left unchanged
RetryOperation(r) ==
    /\ Idle(r)
    /\ \E origin \in Ops : row[origin].state \in RetryableStates /\ Accept(r, want[origin])

SaveCreated(r) ==
    /\ pc[r] = "create"
    /\ Save(target[r], obj[r])
    /\ lock' = NoThread
    /\ Goto(r, "spawn")
    /\ UNCHANGED <<obj, at, target, seen, live, worldVars, shown, audited, countVars>>

Spawn(r) ==
    /\ pc[r] = "spawn"
    /\ obj' = [obj EXCEPT ![target[r]] = obj[r], ![r] = Fresh("none")]
    /\ pc' = [pc EXCEPT ![target[r]] = "spawned", ![r] = "idle"]
    /\ target' = [target EXCEPT ![r] = 0]
    /\ UNCHANGED <<row, age, at, seen, lock, live, worldVars, shown, audited, countVars>>

Reclaimable_AnyAge(op, threshold) ==      \* mutant: no staleness check
    GetActive(op) /\ op \notin live

Reclaimable_EvenLive(op, threshold) ==    \* mutant: silence is taken for death
    GetActive(op) /\ age[op] >= threshold

\* _reclaim_stalled past its early returns
Reclaimable(op, threshold) ==
    /\ GetActive(op)
    /\ op \notin live
    /\ age[op] >= threshold

ReclaimStalled(t, op) ==
    /\ target' = [target EXCEPT ![t] = op]
    /\ Fail(t, row[op], ChargedStage(row[op]))
    /\ UNCHANGED <<row, age, at, seen, live, worldVars, shown, audited, countVars>>

\* get_latest and get_active: the lock is only tried
ReclaimAbandoned(r) ==
    /\ Idle(r)
    /\ lock = NoThread
    /\ \E op \in Ops : Reclaimable(op, ABANDONED) /\ ReclaimStalled(r, op)
    /\ lock' = r

\* request_reconciliation: the observation is made before the write lock is taken
Observe(r) ==
    /\ Idle(r)
    /\ r \in Reobservers
    /\ \E op \in Ops :
          /\ row[op].state \in RetryableStates
          /\ target' = [target EXCEPT ![r] = op]
    /\ \E online \in BOOLEAN : seen' = [seen EXCEPT ![r] = online]
    /\ Goto(r, "recheck")
    /\ UNCHANGED <<row, age, obj, at, lock, live, worldVars, shown, audited, countVars>>

\* The outcomes _apply may leave in a fresh snapshot o of op.  A key outside
\* server.properties keeps the state; whatever else REVIEW rejects is compared
Reobserved(op, o, sawOnline) ==
    IF o.state \notin RetryableStates THEN {o}
    ELSE (IF want[op] = Invalid
          THEN {[o EXCEPT !.recon = IF o.state = "failed" THEN "unknown" ELSE "diverged"]}
          ELSE {}) \cup
         (IF sawOnline THEN
            {[o EXCEPT !.state = "failed", !.recon = "unknown"]} \cup
            (IF Matches(op)
             THEN {[o EXCEPT !.state = "confirmed", !.recon = "applied"]}
             ELSE {[o EXCEPT !.state = "divergent", !.recon = "diverged"]})
          ELSE {[o EXCEPT !.state = "failed"]})

Recheck(r) ==
    /\ pc[r] = "recheck"
    /\ \E o \in Reobserved(target[r], row[target[r]], seen[r]) :
          /\ obj' = [obj EXCEPT ![r] = o]
          /\ Save(target[r], o)
    /\ Goto(r, "report")
    /\ UNCHANGED <<at, target, seen, lock, live, worldVars, shown, audited, countVars>>

\* mutant: the lock is not in a `finally`
Finish_KeepsLock(r) ==
    /\ obj' = [obj EXCEPT ![r] = Fresh("none")]
    /\ target' = [target EXCEPT ![r] = 0]
    /\ seen' = [seen EXCEPT ![r] = FALSE]
    /\ Goto(r, "idle")
    /\ UNCHANGED lock

\* The request ends; `with` and `finally` free the lock
Finish(r) ==
    /\ lock' = IF lock = r THEN NoThread ELSE lock
    /\ obj' = [obj EXCEPT ![r] = Fresh("none")]
    /\ target' = [target EXCEPT ![r] = 0]
    /\ seen' = [seen EXCEPT ![r] = FALSE]
    /\ Goto(r, "idle")

RequestRaises(r) ==
    /\ pc[r] \in {"create", "save", "recheck"}
    /\ faults < MaxFaults
    /\ faults' = faults + 1
    /\ Finish(r)
    /\ UNCHANGED <<row, age, at, live, worldVars, shown, audited, crashes>>

Respond(r) ==
    /\ pc[r] = "finally"
    /\ Finish(r)
    /\ UNCHANGED <<row, age, at, live, worldVars, shown, audited, countVars>>

-----------------------------------------------------------------------------
(* Main: __init__ reclaims the previous process's orphan before it serves. *)

BootReclaims ==
    /\ pc[Main] = "boot"
    /\ \E op \in Ops : Reclaimable(op, ORPHAN) /\ ReclaimStalled(Main, op)
    /\ UNCHANGED lock

BootServes ==
    /\ \/ /\ pc[Main] = "boot"
          /\ \A op \in Ops : ~Reclaimable(op, ORPHAN)
       \/ pc[Main] = "finally"
    /\ Goto(Main, "serving")
    /\ obj' = [obj EXCEPT ![Main] = Fresh("none")]
    /\ target' = [target EXCEPT ![Main] = 0]
    /\ UNCHANGED <<row, age, at, seen, lock, live, worldVars, shown, audited, countVars>>

\* What a new process starts from; the rows and the executor survive
Restart ==
    /\ pc' = [t \in Threads |-> IF t = Main THEN "boot"
                                ELSE IF t \in Requests THEN "idle"
                                ELSE IF pc[t] = "none" THEN "none" ELSE "done"]
    /\ lock' = NoThread
    /\ live' = {}
    /\ obj' = [t \in Threads |-> Fresh("none")]
    /\ at' = [op \in Ops |-> REVIEW]
    /\ target' = [r \in Requests \cup {Main} |-> 0]
    /\ seen' = [r \in Requests |-> FALSE]
    /\ UNCHANGED <<row, age, worldVars, shown, audited>>

Crash ==
    /\ crashes < MaxCrashes
    /\ crashes' = crashes + 1
    /\ Restart
    /\ UNCHANGED faults

\* __init__ does not catch a write that raises: the process exits
BootRaises ==
    /\ pc[Main] = "save"
    /\ faults < MaxFaults
    /\ faults' = faults + 1
    /\ Restart
    /\ UNCHANGED crashes

-----------------------------------------------------------------------------
(* The world: the executor and the passing of time.                        *)

\* Requests reach Bedrock in the order the executor accepted them, possibly
\* after the caller stopped waiting.  The host agent writes the requested value;
\* DockerOperations recreates the container and writes no property
ExecutorApplies(op) ==
    /\ exec[op] = "requested"
    /\ \A earlier \in 1..(op - 1) : exec[earlier] # "requested"
    /\ exec' = [exec EXCEPT ![op] = "applied"]
    /\ effective' \in {want[op], effective}
    /\ UNCHANGED <<row, age, threadVars, lock, live, want, shown, audited, countVars>>

ExecutorRefuses(op) ==
    /\ exec[op] = "requested"
    /\ exec' = [exec EXCEPT ![op] = "refused"]
    /\ UNCHANGED <<row, age, threadVars, lock, live, want, effective, shown, audited, countVars>>

\* A spawned thread is assumed to reach its first line within 30 s
Starting(op) == pc[op] = "spawned" \/ \E r \in Requests : pc[r] = "spawn" /\ target[r] = op

Tick(op) ==
    /\ Active(op)
    /\ ~Starting(op)
    /\ age[op] < ABANDONED
    /\ age' = [age EXCEPT ![op] = @ + 1]
    /\ UNCHANGED <<row, threadVars, lock, live, worldVars, shown, audited, countVars>>

-----------------------------------------------------------------------------
\* The steps a worker takes on its own, without the executor's answer
WorkerStep(w) ==
    \/ Enter(w) \/ StartOperation(w) \/ Begin(w) \/ Skip(w) \/ Complete(w)
    \/ ReviewRejects(w) \/ ReviewAccepts(w)
    \/ Prepared(w) \/ PrepareRaises(w)
    \/ CallExecutor(w) \/ ExecutorReturns(w) \/ ExecutorRaises(w)
    \/ HealthPoll(w) \/ HealthTimeout(w)
    \/ VerifyMatches(w) \/ VerifyDiverges(w) \/ VerifyFails(w)
    \/ SaveConfirmed(w)
    \/ WriteRaises(w) \/ HandleTerminal(w) \/ HandleError(w) \/ HandlerRaises(w)
    \/ Leave(w)

TerminalStep(t) == Reconcile(t) \/ SaveTerminal(t) \/ Publish(t) \/ AuditTerminal(t)

\* The steps that finish what a request has begun
RequestStep(r) == SaveCreated(r) \/ Spawn(r) \/ Recheck(r) \/ RequestRaises(r) \/ Respond(r)

NewRequest(r) ==
    CreateOrReject(r) \/ RetryOperation(r) \/ ReclaimAbandoned(r) \/ Observe(r)

BootStep == BootReclaims \/ BootServes \/ BootRaises

Environment(op) == ExecutorApplies(op) \/ ExecutorRefuses(op) \/ Tick(op)

Next ==
    \/ \E w \in Ops : WorkerStep(w) \/ Environment(w)
    \/ \E t \in Threads : TerminalStep(t)
    \/ \E r \in Requests : RequestStep(r) \/ NewRequest(r)
    \/ BootStep
    \/ Crash

Spec == Init /\ [][Next]_vars

\* Threads are scheduled, deadlines expire, time passes, and some client
\* keeps reading the operation (the read paths are what reclaims)
Fairness ==
    /\ \A w \in Ops :
          /\ WF_vars(WorkerStep(w))
          /\ WF_vars(ExecutorRaises(w))
          /\ WF_vars(HealthTimeout(w))
          /\ WF_vars(Tick(w))
    /\ \A t \in Threads : WF_vars(TerminalStep(t))
    /\ \A r \in Requests : WF_vars(RequestStep(r))
    /\ WF_vars(BootStep)
    /\ SF_vars(\E r \in Requests : ReclaimAbandoned(r))

FairSpec == Spec /\ Fairness

-----------------------------------------------------------------------------
(* Properties.                                                             *)

Labels == {"none", "spawned", "start", "begin", "work", "complete", "await", "except", "done",
           "reconcile", "save", "publish", "report", "audit", "finally",
           "idle", "create", "spawn", "recheck", "boot", "serving"}

TypeOK ==
    /\ row \in [Ops -> Record]
    /\ age \in [Ops -> FRESH..ABANDONED]
    /\ obj \in [Threads -> Record]
    /\ pc \in [Threads -> Labels]
    /\ at \in [Ops -> Stages]
    /\ target \in [Requests \cup {Main} -> 0..NumOps]
    /\ seen \in [Requests -> BOOLEAN]
    /\ lock \in Requests \cup {NoThread}
    /\ live \in SUBSET Ops
    /\ want \in [Ops -> Values \cup {Invalid}]
    /\ exec \in [Ops -> {"idle", "requested", "applied", "refused"}]
    /\ effective \in Values \cup {Invalid}
    /\ shown \in [Ops -> {"none", "lost"} \cup ActiveStates \cup TerminalStates]
    /\ audited \in SUBSET Ops
    /\ crashes \in 0..MaxCrashes
    /\ faults \in 0..MaxFaults

\* The check under _lock and the write that follows it let no second operation
\* become active, whatever workers, reclaiming reads and crashes do meanwhile.
AtMostOneActive == \A a, b \in Ops : Active(a) /\ Active(b) => a = b

\* From thread.start() until it has saved its own terminal record, a worker
\* executes an operation that is active in the database: no reclaim, by a read
\* or at boot, ends a record behind the back of the thread that executes it.
Executing(w) ==
    \/ pc[w] \in {"spawned", "start", "begin", "work", "complete", "await", "reconcile", "save"}
    \/ pc[w] = "except" /\ ~Terminal(obj[w])

WorkerOwnsItsRow == \A w \in Ops : Executing(w) => Active(w)

\* A terminal operation.updated event is published only once a terminal record
\* is committed, on every path: verified, failed, reclaimed, internal error.
TerminalEventIsCommitted ==
    \A op \in Ops : shown[op] \in TerminalStates => Terminal(row[op])

\* An operation that completed CONFIRM names the value Bedrock runs with, until
\* the executor has acted on a later operation: no request that an earlier,
\* timed-out operation left behind can still change it.
ConfirmedIsEffective ==
    \A op \in Ops :
        /\ row[op].stages[CONFIRM] = "completed"
        /\ \A later \in (op + 1)..NumOps : exec[later] # "applied"
        => effective = want[op]

\* A value REVIEW rejects never reaches server.properties, not even through the
\* retry of a failed operation or a request the executor serves late.
OnlyReviewedIsApplied == effective \in Values

\* An operation that failed after REVIEW, where disk or container may have been
\* touched, carries the observation that says whether its change was applied:
\* the verdict of its reconciliation, or the comparison VERIFY completed with.
Ran(op, s) == row[op].stages[s] # "pending"
FailureIsObserved ==
    \A op \in Ops :
        row[op].state = "failed" /\ Ran(op, PREPARE) =>
            row[op].recon # "none" \/ row[op].stages[VERIFY] = "completed"

\* A terminal record changes only when a re-observation, on the snapshot it
\* takes under the write lock, revises a failed or divergent outcome.  A late
\* worker, a reclaim or a stale probe never does.
OnlyReobservationRevises ==
    [][\A op \in Ops :
          Terminal(row[op]) /\ row'[op] # row[op] =>
              /\ row[op].state \in RetryableStates
              /\ Terminal(row'[op])
              /\ \E r \in Requests : pc[r] = "recheck" /\ target[r] = op]_vars

\* The rows implement the contract of OperationContract.
Contract == INSTANCE OperationContract WITH state <- [op \in Ops |-> row[op].state]
ImplementsContract == Contract!Spec

\* Every accepted operation ends, whichever of its writes raise and whenever
\* the process restarts: its worker ends it, or a boot or a read reclaims it.
EveryOperationEnds == \A op \in Ops : Active(op) ~> ~Active(op)

\* No path keeps the creation lock.
LockIsReleased == lock # NoThread ~> lock = NoThread

\* Every terminal outcome reaches the event stream, whichever writes of rows and
\* audit records raise on the way, unless the process dies or the write of the
\* terminal event itself raises, which _publish swallows.
OutcomeIsShown ==
    \A op \in Ops : Terminal(row[op]) ~>
        shown[op] \in TerminalStates \cup {"lost"} \/ crashes > 0

-----------------------------------------------------------------------------
(* What the documents say and the code does not do.                        *)

\* "anything past REVIEW may have already reached disk or the container, so the
\* observation that classifies it as applied or divergent must be attached."
AppliedFailureIsObserved ==
    \A op \in Ops :
        row[op].state = "failed" /\ exec[op] = "applied" =>
            row[op].recon # "none" \/ row[op].stages[VERIFY] = "completed"
=============================================================================
