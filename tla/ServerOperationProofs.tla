----------------------- MODULE ServerOperationProofs -----------------------
(***************************************************************************)
(* Proofs about ServerOperation for every number of operations, requests,  *)
(* values, crashes and failing writes.                                     *)
(***************************************************************************)
EXTENDS ServerOperation, TLAPS

Claimants == Requests \cup {Main}   \* the threads that may reclaim

\* What TypeOK needs to be inductive: a stage that completes has a successor,
\* and a claimant in its terminal flow is about an operation.
StagesFit ==
    \A w \in Ops :
        /\ pc[w] = "await" => at[w] = RESTART
        /\ pc[w] = "complete" => at[w] # CONFIRM

TargetsFit ==
    \A t \in Claimants :
        pc[t] \in {"create", "spawn", "recheck", "reconcile", "save", "publish", "report", "audit"}
            => target[t] \in Ops

TypeInv == TypeOK /\ StagesFit /\ TargetsFit

\* The object and the row of a worker agree on its phase, and only a thread
\* that has not begun or has ended is missing from _live_workers.
WorkerFits(w) ==
    /\ pc[w] \notin {"idle", "create", "spawn", "recheck", "boot", "serving"}
    /\ pc[w] # "none" => row[w].state # "none"
    /\ pc[w] \notin {"none", "spawned", "done"} => w \in live
    /\ pc[w] = "spawned" => age[w] = FRESH
    /\ pc[w] \in {"spawned", "start"} =>
          obj[w].state = "pending" /\ row[w].state = "pending"
    /\ pc[w] \in {"begin", "work", "complete", "await"} =>
          obj[w].state = "running" /\ row[w].state = "running"
    /\ pc[w] \in {"reconcile", "save"} => Terminal(obj[w]) /\ Active(w)
    /\ pc[w] = "except" => Terminal(obj[w]) \/ Active(w)
    /\ pc[w] \in {"publish", "report"} => Terminal(row[w])

\* A worker that is past REVIEW works on a value REVIEW accepted.
ReviewFits(w) ==
    /\ pc[w] = "none" => exec[w] = "idle"
    /\ pc[w] \in {"none", "spawned", "start"} => at[w] = REVIEW
    /\ pc[w] \in {"begin", "work", "await"} /\ at[w] # REVIEW => want[w] # Invalid
    /\ pc[w] = "complete" => want[w] # Invalid
    /\ exec[w] = "requested" => want[w] # Invalid

\* A request between its check and its last step.
RequestFits(r) ==
    /\ pc[r] \in {"idle", "create", "spawn", "recheck", "report",
                  "reconcile", "save", "publish", "audit", "finally"}
    /\ pc[r] \in {"create", "reconcile", "save"} => lock = r
    /\ pc[r] = "create" =>
          /\ row[target[r]].state = "none"
          /\ obj[r].state = "pending"
          /\ NoActive
    /\ pc[r] = "spawn" =>
          /\ row[target[r]].state = "pending"
          /\ pc[target[r]] = "none"
          /\ obj[r].state = "pending"
          /\ age[target[r]] = FRESH
    /\ pc[r] \in {"recheck", "publish", "report"} => Terminal(row[target[r]])

\* A claimant that is about to end a record ends one that nobody executes: it
\* stays silent, and its worker never began or is dead.
ReclaimIsSafe(t) ==
    pc[t] \in {"reconcile", "save"} =>
        /\ Active(target[t])
        /\ pc[target[t]] \in {"none", "done"}
        /\ age[target[t]] >= ORPHAN
        /\ Terminal(obj[t])

\* Until it serves, the process has no thread but Main.
BootIsAlone ==
    /\ pc[Main] \in {"boot", "serving", "reconcile", "save", "publish", "audit", "finally"}
    /\ pc[Main] = "publish" => Terminal(row[target[Main]])
    /\ pc[Main] # "serving" =>
          /\ \A r \in Requests : pc[r] = "idle"
          /\ \A w \in Ops : pc[w] \in {"none", "done"}

OneSpawner == \A r, q \in Requests : pc[r] = "spawn" /\ pc[q] = "spawn" => r = q

IInv ==
    /\ TypeInv
    /\ \A w \in Ops : WorkerFits(w)
    /\ \A w \in Ops : ReviewFits(w)
    /\ \A r \in Requests : RequestFits(r)
    /\ \A t \in Claimants : ReclaimIsSafe(t)
    /\ OneSpawner
    /\ BootIsAlone
    /\ AtMostOneActive
    /\ TerminalEventIsCommitted
    /\ OnlyReviewedIsApplied

-----------------------------------------------------------------------------
(* Lemmas about the lifecycle operators.                                   *)

LEMMA ThreadFacts ==
    /\ Ops \subseteq Threads /\ Requests \subseteq Threads /\ Main \in Threads
    /\ Main \notin Ops /\ Main \notin Requests
    /\ \A r \in Requests : r \notin Ops /\ r # Main /\ r # NoThread
    /\ \A op \in Ops : op \in Nat /\ op \in 0..NumOps
BY NumOpsAssumption, ThreadsAssumption DEF Ops, Threads

\* A failure is charged to one of the seven stages.
LEMMA ChargedStageIsStage ==
    ASSUME NEW o \in Record
    PROVE  ChargedStage(o) \in Stages
<1> DEFINE running == {s \in Stages : o.stages[s] = "running"}
<1>1. CASE running = {}
    BY <1>1 DEF ChargedStage, Stages, REVIEW
<1>2. CASE running # {}
    <2>1. \E s \in running : \A r \in running : s <= r
        BY <1>2 DEF Stages
    <2> QED BY <2>1, <1>2 DEF ChargedStage
<1> QED BY <1>1, <1>2

\* The transitions of lifecycle.py stay inside the record type.
LEMMA TransitionsFit ==
    ASSUME NEW o \in Record, NEW s \in Stages
    PROVE  /\ Start(o) \in Record
           /\ BeginStage(o, s) \in Record
           /\ CompleteStage(o, s) \in Record
           /\ SkipStage(o, s) \in Record
           /\ FailStage(o, s) \in Record
           /\ Confirm(o) \in Record
           /\ Diverge(o) \in Record
BY DEF Record, Start, BeginStage, CompleteStage, SkipStage, FailStage, Confirm, Diverge,
       Stages, StageResult, ActiveStates, TerminalStates, CONFIRM, VERIFY

LEMMA FreshFits == Fresh("none") \in Record /\ Fresh("pending") \in Record
BY DEF Fresh, Record, Stages, StageResult, ActiveStates, Reconciliation

\* ... and do to the state what their names say.
LEMMA TransitionStates ==
    ASSUME NEW o \in Record, NEW s
    PROVE  /\ Start(o).state = "running"
           /\ BeginStage(o, s).state = o.state
           /\ CompleteStage(o, s).state = o.state
           /\ SkipStage(o, s).state = o.state
           /\ FailStage(o, s).state = "failed"
           /\ Confirm(o).state = "confirmed"
           /\ Diverge(o).state = "divergent"
BY DEF Record, Start, BeginStage, CompleteStage, SkipStage, FailStage, Confirm, Diverge

LEMMA WrittenFits ==
    ASSUME TypeOK, NEW w \in Ops
    PROVE  Written(w) \in Record
<1>1. obj[w] \in Record /\ at[w] \in Stages
    BY ThreadFacts DEF TypeOK
<1> QED BY <1>1, TransitionsFit DEF Written
-----------------------------------------------------------------------------
(* Type correctness.                                                       *)

LEMMA TypeInit == Init => TypeInv
BY ThreadFacts, FreshFits, NumOpsAssumption, BoundsAssumption, ThreadsAssumption
   DEF Init, TypeInv, TypeOK, StagesFit, TargetsFit, Claimants, Labels, Stages, REVIEW, FRESH,
       ABANDONED, ORPHAN, Threads

\* What update_stage writes is a record.
LEMMA UpdateFits ==
    ASSUME NEW old \in Record, NEW o \in Record, NEW s \in Stages
    PROVE  [old EXCEPT !.state = o.state, !.stages[s] = o.stages[s], !.recon = o.recon] \in Record
BY DEF Record

LEMMA SaveFits ==
    ASSUME TypeOK, NEW op \in Ops, NEW o \in Record, Save(op, o)
    PROVE  row' \in [Ops -> Record] /\ age' \in [Ops -> FRESH..ABANDONED]
BY DEF TypeOK, Save, FRESH, ABANDONED

\* An event may be lost; then at most one more write has failed.
LEMMA EmitEffect ==
    ASSUME TypeOK, NEW op \in Ops, NEW state \in {"none"} \cup ActiveStates \cup TerminalStates,
           Emit(op, state)
    PROVE  /\ shown' \in [Ops -> {"none", "lost"} \cup ActiveStates \cup TerminalStates]
           /\ faults' \in {faults, faults + 1} /\ faults' \in 0..MaxFaults
           /\ \A v \in Ops : v # op => shown'[v] = shown[v]
           /\ shown'[op] \in {state, "lost", shown[op]}
<1>1. CASE shown' = [shown EXCEPT ![op] = state] /\ UNCHANGED faults
    BY <1>1 DEF TypeOK
<1>2. CASE /\ faults < MaxFaults /\ faults' = faults + 1
           /\ shown' = [shown EXCEPT ![op] = IF state \in TerminalStates THEN "lost" ELSE @]
    BY <1>2, BoundsAssumption DEF TypeOK
<1> QED BY <1>1, <1>2 DEF Emit

LEMMA WriteStageFits ==
    ASSUME TypeOK, NEW w \in Ops, NEW next \in Labels, WriteStage(w, next)
    PROVE  /\ row' \in [Ops -> Record] /\ age' \in [Ops -> FRESH..ABANDONED]
           /\ obj' \in [Threads -> Record]
           /\ shown' \in [Ops -> {"none", "lost"} \cup ActiveStates \cup TerminalStates]
           /\ pc' = [pc EXCEPT ![w] = next] /\ faults' \in 0..MaxFaults
<1>1. Written(w) \in Record /\ row[w] \in Record /\ at[w] \in Stages
    BY WrittenFits DEF TypeOK
<1>2. row' \in [Ops -> Record] /\ age' \in [Ops -> FRESH..ABANDONED]
    BY <1>1, UpdateFits, SaveFits DEF WriteStage, UpdateStage
<1>3. Written(w).state \in {"none"} \cup ActiveStates \cup TerminalStates
    BY <1>1 DEF Record
<1>4. shown' \in [Ops -> {"none", "lost"} \cup ActiveStates \cup TerminalStates] /\ faults' \in 0..MaxFaults
    BY <1>3, EmitEffect DEF WriteStage
<1> QED BY <1>1, <1>2, <1>4 DEF WriteStage, TypeOK, Goto

\* The worker's own steps.
LEMMA WorkerStepFits ==
    ASSUME TypeInv, NEW w \in Ops, WorkerStep(w)
    PROVE  TypeInv'
<1> USE ThreadFacts, BoundsAssumption DEF TypeInv, TypeOK, StagesFit, TargetsFit, Claimants, Goto, Working,
        worldVars, countVars, Labels, REVIEW, BACKUP_VERIFY, PREPARE, RESTART, HEALTH_WAIT,
        VERIFY, CONFIRM
<1>0. Written(w) \in Record /\ obj[w] \in Record /\ row[w] \in Record
    BY WrittenFits
<1>1. CASE Enter(w)
    BY <1>1, <1>0 DEF Enter
<1>2. CASE StartOperation(w)
    BY <1>2, <1>0, SaveFits DEF StartOperation, SaveOperation
<1>3. CASE Begin(w)
    <2>1. pc' = [pc EXCEPT ![w] = "work"]
        BY <1>3, WriteStageFits DEF Begin
    <2>2. StagesFit' /\ TargetsFit'
        BY <1>3, <2>1 DEF Begin
    <2>3. TypeOK'
        BY <1>3, <2>1, WriteStageFits DEF Begin
    <2> QED BY <2>2, <2>3
<1>4. CASE Skip(w)
    BY <1>4, WriteStageFits DEF Skip, Stages
<1>5. CASE Complete(w)
    <2>1. at[w] \in 1..7 /\ at[w] # 7
        BY <1>5 DEF Complete, Stages
    <2>2. at[w] + 1 \in Stages
        BY <2>1 DEF Stages
    <2>3. at' \in [Ops -> Stages]
        BY <1>5, <2>2 DEF Complete
    <2>4. pc' = [pc EXCEPT ![w] = "begin"]
        BY <1>5, WriteStageFits DEF Complete
    <2>5. \A v \in Ops : v # w => at'[v] = at[v]
        BY <1>5 DEF Complete
    <2>6. StagesFit'
        BY <2>4, <2>5
    <2>7. TargetsFit'
        BY <1>5, <2>4 DEF Complete
    <2>8. TypeOK'
        BY <1>5, <2>3, <2>4, WriteStageFits DEF Complete
    <2> QED BY <2>6, <2>7, <2>8
<1>6. CASE ReviewRejects(w)
    BY <1>6, <1>0, TransitionsFit DEF ReviewRejects, Fail, Stages
<1>7. CASE ReviewAccepts(w)
    BY <1>7, <1>0, SaveFits DEF ReviewAccepts, SaveOperation
<1>8. CASE Prepared(w)
    BY <1>8, <1>0 DEF Prepared
<1>9. CASE PrepareRaises(w)
    BY <1>9, <1>0, TransitionsFit DEF PrepareRaises, Fail, Stages
<1>10. CASE CallExecutor(w)
    BY <1>10, <1>0 DEF CallExecutor
<1>11. CASE ExecutorReturns(w)
    BY <1>11, <1>0 DEF ExecutorReturns
<1>12. CASE ExecutorRaises(w)
    BY <1>12, <1>0, TransitionsFit DEF ExecutorRaises, Fail, Stages
<1>13. CASE HealthPoll(w)
    <2>1. PICK next \in {"work", "complete"} : WriteStage(w, next)
        BY <1>13 DEF HealthPoll
    <2>2. pc' = [pc EXCEPT ![w] = next] /\ at[w] = HEALTH_WAIT /\ UNCHANGED <<at, target>>
        BY <1>13, <2>1, WriteStageFits DEF HealthPoll
    <2>3. StagesFit' /\ TargetsFit'
        BY <2>2 DEF Stages
    <2>4. UNCHANGED <<at, target, seen, lock, live, want, exec, effective, audited, crashes>>
        BY <1>13 DEF HealthPoll
    <2>5. /\ row' \in [Ops -> Record] /\ age' \in [Ops -> FRESH..ABANDONED] /\ obj' \in [Threads -> Record]
          /\ shown' \in [Ops -> {"none", "lost"} \cup ActiveStates \cup TerminalStates]
          /\ faults' \in 0..MaxFaults
        BY <2>1, WriteStageFits
    <2>6. TypeOK'
        BY <2>2, <2>4, <2>5
    <2> QED BY <2>3, <2>6
<1>14. CASE HealthTimeout(w)
    BY <1>14, <1>0, TransitionsFit DEF HealthTimeout, Fail, Stages
<1>15. CASE VerifyMatches(w)
    BY <1>15, <1>0 DEF VerifyMatches
<1>16. CASE VerifyDiverges(w)
    BY <1>16, <1>0, TransitionsFit DEF VerifyDiverges, Stages
<1>17. CASE VerifyFails(w)
    BY <1>17, <1>0, TransitionsFit DEF VerifyFails, Fail, Stages
<1>18. CASE SaveConfirmed(w)
    BY <1>18, <1>0, SaveFits DEF SaveConfirmed, SaveOperation
<1>19. CASE WriteRaises(w)
    BY <1>19, <1>0 DEF WriteRaises
<1>20. CASE HandleTerminal(w)
    BY <1>20, <1>0 DEF HandleTerminal
<1>21. CASE HandleError(w)
    <2> DEFINE o == FailStage(obj[w], ChargedStage(obj[w]))
    <2>1. o \in Record
        BY <1>0, TransitionsFit, ChargedStageIsStage
    <2> HIDE DEF o
    <2> QED BY <1>21, <2>1, SaveFits DEF HandleError, o
<1>22. CASE HandlerRaises(w)
    <2> DEFINE o == FailStage(obj[w], ChargedStage(obj[w]))
    <2>1. o \in Record
        BY <1>0, TransitionsFit, ChargedStageIsStage
    <2>2. obj' = [obj EXCEPT ![w] = o]
        BY <1>22 DEF HandlerRaises
    <2> HIDE DEF o
    <2> QED BY <1>22, <2>1, <2>2 DEF HandlerRaises
<1>23. CASE Leave(w)
    BY <1>23, <1>0, FreshFits DEF Leave, DiscardLive, Stages
<1> QED
    BY <1>1, <1>2, <1>3, <1>4, <1>5, <1>6, <1>7, <1>8, <1>9, <1>10, <1>11, <1>12,
       <1>13, <1>14, <1>15, <1>16, <1>17, <1>18, <1>19, <1>20, <1>21, <1>22, <1>23
       DEF WorkerStep

LEMMA OpOfFits ==
    ASSUME TypeInv, NEW t \in Threads,
           pc[t] \in {"reconcile", "save", "publish", "report", "audit"}
    PROVE  OpOf(t) \in Ops
<1>1. CASE t \in Ops
    BY <1>1 DEF OpOf
<1>2. CASE t \in Claimants
    <2>1. target[t] \in Ops
        BY <1>2 DEF TypeInv, TargetsFit
    <2> QED BY <2>1 DEF OpOf
<1> QED BY <1>1, <1>2 DEF Threads, Claimants

\* A step that changes the label of one thread and no target.
LEMMA GotoFits ==
    ASSUME TypeInv, NEW t \in Threads, NEW next \in Labels, Goto(t, next), UNCHANGED <<at, target>>,
           next \notin {"await", "complete", "create", "spawn", "recheck"},
           pc[t] \in {"reconcile", "save", "publish", "report", "audit"} \/ next \in {"finally"}
    PROVE  StagesFit' /\ TargetsFit' /\ pc' \in [Threads -> Labels]
<1>0. Ops \subseteq Threads /\ Claimants \subseteq Threads
    BY ThreadFacts DEF Claimants
<1>1. /\ \A u \in Threads : u # t => pc'[u] = pc[u]
      /\ pc'[t] = next
    BY DEF Goto, TypeInv, TypeOK
<1>2. StagesFit'
    BY <1>0, <1>1 DEF TypeInv, StagesFit
<1>3. TargetsFit'
    BY <1>0, <1>1 DEF TypeInv, TargetsFit
<1>4. pc' \in [Threads -> Labels]
    BY DEF Goto, TypeInv, TypeOK
<1> QED BY <1>2, <1>3, <1>4

\* The terminal flow of a worker or a claimant.
LEMMA TerminalStepFits ==
    ASSUME TypeInv, NEW t \in Threads, TerminalStep(t)
    PROVE  TypeInv'
<1> USE DEF TypeOK, worldVars, countVars
<1>0. TypeOK
    BY DEF TypeInv
<1>1. CASE Reconcile(t)
    <2>1. PICK verdict \in {"unknown", "applied", "diverged"} :
             obj' = [obj EXCEPT ![t].recon = verdict,
                                ![t].state = IF verdict = "diverged" THEN "divergent" ELSE @]
        BY <1>1 DEF Reconcile
    <2> DEFINE s == IF verdict = "diverged" THEN "divergent" ELSE obj[t].state
               o == [obj[t] EXCEPT !.recon = verdict, !.state = s]
    <2>2. s \in {"none"} \cup ActiveStates \cup TerminalStates
        BY <1>0 DEF Record, TerminalStates
    <2>3. o \in Record
        <3>1. obj[t] \in Record /\ verdict \in Reconciliation
            BY <1>0 DEF Reconciliation
        <3> HIDE DEF s
        <3> QED BY <2>2, <3>1 DEF Record
    <2>4. obj' = [obj EXCEPT ![t] = o]
        BY <1>0, <2>1
    <2>5. obj' \in [Threads -> Record]
        <3> HIDE DEF o
        <3> QED BY <1>0, <2>3, <2>4
    <2>6. StagesFit' /\ TargetsFit' /\ pc' \in [Threads -> Labels]
        BY <1>1, GotoFits DEF Reconcile, Labels
    <2> QED BY <1>0, <1>1, <2>5, <2>6 DEF Reconcile, TypeInv
<1>2. CASE SaveTerminal(t)
    <2>1. row' \in [Ops -> Record] /\ age' \in [Ops -> FRESH..ABANDONED]
        BY <1>0, <1>2, OpOfFits, SaveFits DEF SaveTerminal
    <2>2. StagesFit' /\ TargetsFit' /\ pc' \in [Threads -> Labels]
        BY <1>2, GotoFits DEF SaveTerminal, Labels
    <2> QED BY <1>0, <1>2, <2>1, <2>2 DEF SaveTerminal, TypeInv
<1>3. CASE Publish(t)
    <2>1. obj[t].state \in {"none"} \cup ActiveStates \cup TerminalStates
        BY <1>0 DEF Record
    <2>2. StagesFit' /\ TargetsFit' /\ pc' \in [Threads -> Labels]
        <3>1. CASE pc[t] = "publish"
            BY <1>3, <3>1, GotoFits DEF Publish, Labels
        <3>2. CASE pc[t] = "report"
            BY <1>3, <3>2, GotoFits DEF Publish, Labels
        <3> QED BY <1>3, <3>1, <3>2 DEF Publish
    <2>3. shown' \in [Ops -> {"none", "lost"} \cup ActiveStates \cup TerminalStates] /\ faults' \in 0..MaxFaults
        BY <1>0, <1>3, <2>1, OpOfFits, EmitEffect DEF Publish
    <2> QED BY <1>0, <1>3, <2>2, <2>3 DEF Publish, TypeInv
<1>4. CASE AuditTerminal(t)
    <2>1. audited' \in SUBSET Ops
        BY <1>0, <1>4, OpOfFits DEF AuditTerminal
    <2>2. faults' \in 0..MaxFaults
        BY <1>0, <1>4, BoundsAssumption DEF AuditTerminal
    <2>3. StagesFit' /\ TargetsFit' /\ pc' \in [Threads -> Labels]
        BY <1>4, GotoFits DEF AuditTerminal, Labels
    <2> QED BY <1>0, <1>4, <2>1, <2>2, <2>3 DEF AuditTerminal, TypeInv
<1> QED BY <1>1, <1>2, <1>3, <1>4 DEF TerminalStep

\* A re-observation leaves a record.
LEMMA ReobservedFits ==
    ASSUME NEW op \in Ops, NEW o \in Record, NEW sawOnline \in BOOLEAN,
           NEW new \in Reobserved(op, o, sawOnline)
    PROVE  new \in Record
BY DEF Reobserved, Record, Reconciliation, TerminalStates

\* The end of a request touches what the request holds and nothing else.
LEMMA FinishFits ==
    ASSUME TypeInv, NEW r \in Requests, Finish(r)
    PROVE  /\ obj' \in [Threads -> Record]
           /\ pc' = [pc EXCEPT ![r] = "idle"]
           /\ target' = [target EXCEPT ![r] = 0]
           /\ seen' \in [Requests -> BOOLEAN]
           /\ lock' \in Requests \cup {NoThread}
BY FreshFits DEF Finish, Goto, TypeInv, TypeOK

\* So does the start of a reclaim.
LEMMA ReclaimFits ==
    ASSUME TypeInv, NEW t \in Claimants, NEW op \in Ops, ReclaimStalled(t, op)
    PROVE  /\ obj' \in [Threads -> Record]
           /\ target' \in [Requests \cup {Main} -> 0..NumOps]
           /\ pc' \in [Threads -> Labels]
           /\ StagesFit' /\ TargetsFit'
<1> DEFINE o == FailStage(row[op], ChargedStage(row[op]))
<1>0. Ops \subseteq Threads /\ Claimants \subseteq Threads /\ t \notin Ops /\ op \in 0..NumOps
    BY ThreadFacts DEF Claimants
<1>1. o \in Record
    BY TransitionsFit, ChargedStageIsStage DEF TypeInv, TypeOK
<1>2. obj' = [obj EXCEPT ![t] = o]
    BY DEF ReclaimStalled, Fail
<1>3. obj' \in [Threads -> Record]
    <2> HIDE DEF o
    <2> QED BY <1>1, <1>2 DEF TypeInv, TypeOK
<1>4. target' \in [Requests \cup {Main} -> 0..NumOps] /\ target'[t] = op
      /\ \A u \in Claimants : u # t => target'[u] = target[u]
    BY <1>0 DEF ReclaimStalled, TypeInv, TypeOK, Claimants
<1>5. PICK next \in {"save", "reconcile"} : pc' = [pc EXCEPT ![t] = next]
    BY DEF ReclaimStalled, Fail, Goto
<1>6. pc' \in [Threads -> Labels] /\ \A u \in Threads : u # t => pc'[u] = pc[u]
    BY <1>5 DEF TypeInv, TypeOK, Labels
<1>7. StagesFit'
    BY <1>0, <1>6 DEF StagesFit, TypeInv, ReclaimStalled
<1>8. TargetsFit'
    BY <1>0, <1>4, <1>6 DEF TargetsFit, TypeInv
<1> QED BY <1>3, <1>4, <1>6, <1>7, <1>8

\* The steps of a request.
LEMMA RequestStepFits ==
    ASSUME TypeInv, NEW r \in Requests, RequestStep(r) \/ NewRequest(r)
    PROVE  TypeInv'
<1> USE DEF TypeInv, TypeOK, StagesFit, TargetsFit, Claimants, Goto, worldVars, countVars, Labels
<1>0. r \in Threads /\ r \notin Ops /\ r # Main /\ Ops \subseteq Threads /\ Main \in Threads
      /\ Requests \subseteq Threads /\ Main \notin Ops /\ 0 \in 0..NumOps
      /\ Ops \subseteq 0..NumOps /\ \A q \in Requests : q \notin Ops
    BY ThreadFacts, NumOpsAssumption DEF Ops
<1>1. CASE SaveCreated(r)
    <2>1. target[r] \in Ops /\ obj[r] \in Record
        BY <1>0, <1>1 DEF SaveCreated
    <2>2. row' \in [Ops -> Record] /\ age' \in [Ops -> FRESH..ABANDONED]
        BY <1>1, <2>1, SaveFits DEF SaveCreated
    <2> QED BY <1>0, <1>1, <2>2 DEF SaveCreated
<1>2. CASE Spawn(r)
    <2>1. target[r] \in Ops
        BY <1>0, <1>2 DEF Spawn
    <2>2. obj' \in [Threads -> Record]
        BY <1>0, <1>2, <2>1, FreshFits DEF Spawn
    <2>3. pc' \in [Threads -> Labels] /\ target' \in [Requests \cup {Main} -> 0..NumOps]
        BY <1>0, <1>2, <2>1 DEF Spawn
    <2>4. StagesFit'
        BY <1>0, <1>2, <2>1 DEF Spawn
    <2>5. TargetsFit'
        BY <1>0, <1>2, <2>1 DEF Spawn
    <2> QED BY <1>2, <2>2, <2>3, <2>4, <2>5 DEF Spawn
<1>3. CASE Recheck(r)
    <2>1. target[r] \in Ops
        BY <1>0, <1>3 DEF Recheck
    <2>2. PICK o \in Reobserved(target[r], row[target[r]], seen[r]) :
             obj' = [obj EXCEPT ![r] = o] /\ Save(target[r], o)
        BY <1>3 DEF Recheck
    <2>3. o \in Record
        BY <2>1, <2>2, ReobservedFits
    <2>4. row' \in [Ops -> Record] /\ age' \in [Ops -> FRESH..ABANDONED]
        BY <2>1, <2>2, <2>3, SaveFits
    <2> QED BY <1>0, <1>3, <2>2, <2>3, <2>4 DEF Recheck
<1>4. CASE RequestRaises(r)
    <2>1. faults' \in 0..MaxFaults
        BY <1>4, BoundsAssumption DEF RequestRaises
    <2>2. pc' \in [Threads -> Labels] /\ target' \in [Requests \cup {Main} -> 0..NumOps]
        BY <1>0, <1>4, FinishFits DEF RequestRaises
    <2>3. StagesFit' /\ TargetsFit'
        BY <1>0, <1>4, FinishFits DEF RequestRaises
    <2> QED BY <1>0, <1>4, <2>1, <2>2, <2>3, FinishFits DEF RequestRaises
<1>5. CASE Respond(r)
    <2>1. pc' \in [Threads -> Labels] /\ target' \in [Requests \cup {Main} -> 0..NumOps]
        BY <1>0, <1>5, FinishFits DEF Respond
    <2>2. StagesFit' /\ TargetsFit'
        BY <1>0, <1>5, FinishFits DEF Respond
    <2> QED BY <1>0, <1>5, <2>1, <2>2, FinishFits DEF Respond
<1>6. ASSUME NEW v \in Values \cup {Invalid}, Accept(r, v)
      PROVE  TypeInv'
    <2>1. PICK op \in Ops : target' = [target EXCEPT ![r] = op] /\ want' = [want EXCEPT ![op] = v]
        BY <1>6 DEF Accept
    <2>2. pc' = [pc EXCEPT ![r] = "create"]
        BY <1>6 DEF Accept
    <2>3. StagesFit' /\ TargetsFit'
        BY <1>0, <1>6, <2>1, <2>2 DEF Accept
    <2> QED BY <1>0, <1>6, <2>1, <2>2, <2>3, FreshFits DEF Accept
<1>7. CASE CreateOrReject(r)
    BY <1>6, <1>7 DEF CreateOrReject
<1>8. CASE RetryOperation(r)
    BY <1>6, <1>8 DEF RetryOperation
<1>9. CASE ReclaimAbandoned(r)
    <2>1. PICK op \in Ops : ReclaimStalled(r, op)
        BY <1>9 DEF ReclaimAbandoned
    <2> QED BY <1>0, <1>9, <2>1, ReclaimFits DEF ReclaimAbandoned, ReclaimStalled
<1>10. CASE Observe(r)
    <2>1. PICK op \in Ops : target' = [target EXCEPT ![r] = op]
        BY <1>10 DEF Observe
    <2>2. StagesFit' /\ TargetsFit'
        BY <1>0, <1>10, <2>1 DEF Observe
    <2> QED BY <1>0, <1>10, <2>1, <2>2 DEF Observe
<1> QED BY <1>1, <1>2, <1>3, <1>4, <1>5, <1>7, <1>8, <1>9, <1>10 DEF RequestStep, NewRequest

\* Main, crashes and the world.
LEMMA RestartFits ==
    ASSUME TypeInv, Restart, crashes' \in 0..MaxCrashes, faults' \in 0..MaxFaults
    PROVE  TypeInv'
<1> USE DEF TypeInv, TypeOK
<1>0. Main \in Threads /\ 0 \in 0..NumOps /\ REVIEW \in Stages
    BY ThreadFacts, NumOpsAssumption DEF REVIEW, Stages
<1>1. pc' \in [Threads -> {"boot", "idle", "none", "done"}]
    BY DEF Restart
<1>2. StagesFit'
    BY <1>1, ThreadFacts DEF StagesFit
<1>3. TargetsFit'
    BY <1>1, ThreadFacts DEF TargetsFit, Claimants
<1>4. obj' \in [Threads -> Record]
    BY FreshFits DEF Restart
<1>5. /\ at' \in [Ops -> Stages]
      /\ target' \in [Requests \cup {Main} -> 0..NumOps]
      /\ seen' \in [Requests -> BOOLEAN]
      /\ lock' \in Requests \cup {NoThread}
      /\ live' \in SUBSET Ops
    BY <1>0 DEF Restart
<1>6. pc' \in [Threads -> Labels]
    BY <1>1 DEF Labels
<1>7. UNCHANGED <<row, age, want, exec, effective, shown, audited>>
    BY DEF Restart, worldVars
<1>8. TypeOK'
    BY <1>4, <1>5, <1>6, <1>7
<1> QED BY <1>2, <1>3, <1>8

LEMMA OtherStepFits ==
    ASSUME TypeInv, BootStep \/ Crash \/ (\E op \in Ops : Environment(op))
    PROVE  TypeInv'
<1> USE DEF TypeInv, TypeOK, StagesFit, TargetsFit, Claimants, Goto, threadVars, worldVars,
            countVars, Labels
<1>0. Main \in Threads /\ Main \notin Ops /\ Main \notin Requests /\ 0 \in 0..NumOps
      /\ Ops \subseteq 0..NumOps /\ Ops \subseteq Threads /\ Requests \subseteq Threads
    BY ThreadFacts, NumOpsAssumption DEF Ops
<1>1. CASE BootReclaims
    <2>1. PICK op \in Ops : ReclaimStalled(Main, op)
        BY <1>1 DEF BootReclaims
    <2> QED BY <1>0, <1>1, <2>1, ReclaimFits DEF BootReclaims, ReclaimStalled
<1>2. CASE BootServes
    <2>1. pc' = [pc EXCEPT ![Main] = "serving"] /\ target' = [target EXCEPT ![Main] = 0]
        BY <1>2 DEF BootServes
    <2>2. StagesFit' /\ TargetsFit'
        BY <1>0, <1>2, <2>1 DEF BootServes
    <2> QED BY <1>0, <1>2, <2>1, <2>2, FreshFits DEF BootServes
<1>3. CASE BootRaises
    <2>1. crashes' \in 0..MaxCrashes /\ faults' \in 0..MaxFaults
        BY <1>3, BoundsAssumption DEF BootRaises
    <2> QED BY <1>3, <2>1, RestartFits DEF BootRaises
<1>4. CASE Crash
    <2>1. crashes' \in 0..MaxCrashes /\ faults' \in 0..MaxFaults
        BY <1>4, BoundsAssumption DEF Crash
    <2> QED BY <1>4, <2>1, RestartFits DEF Crash
<1>5. ASSUME NEW op \in Ops, Environment(op)
      PROVE  TypeInv'
    <2>1. CASE ExecutorApplies(op)
        BY <2>1 DEF ExecutorApplies
    <2>2. CASE ExecutorRefuses(op)
        BY <2>2 DEF ExecutorRefuses
    <2>3. CASE Tick(op)
        <3>1. age[op] + 1 \in FRESH..ABANDONED
            BY <2>3 DEF Tick, FRESH, ABANDONED
        <3> QED BY <2>3, <3>1 DEF Tick
    <2> QED BY <1>5, <2>1, <2>2, <2>3 DEF Environment
<1> QED BY <1>1, <1>2, <1>3, <1>4, <1>5 DEF BootStep

LEMMA TypeStep == TypeInv /\ [Next]_vars => TypeInv'
<1> SUFFICES ASSUME TypeInv, [Next]_vars PROVE TypeInv'
    OBVIOUS
<1>1. CASE UNCHANGED vars
    BY <1>1 DEF vars, threadVars, worldVars, countVars, TypeInv, TypeOK, StagesFit, TargetsFit
<1>2. CASE Next
    BY <1>2, WorkerStepFits, TerminalStepFits, RequestStepFits, OtherStepFits DEF Next
<1> QED BY <1>1, <1>2

\* Every variable keeps its type: in particular every persisted record and
\* every object a thread holds is one the code's enumerations can name.
THEOREM TypeCorrect == Spec => []TypeOK
<1>1. TypeInv => TypeOK
    BY DEF TypeInv
<1> QED BY TypeInit, TypeStep, <1>1, PTL DEF Spec

-----------------------------------------------------------------------------
(* What a step of a worker does to the rest of the system: it changes what *)
(* the worker holds and its own row, and that row only while the operation *)
(* is active.                                                              *)

WorkerMoves(w) ==
    /\ UNCHANGED <<target, lock, effective>>
    /\ \A v \in Ops : v # w =>
          /\ row'[v] = row[v] /\ age'[v] = age[v] /\ shown'[v] = shown[v]
          /\ want'[v] = want[v] /\ exec'[v] = exec[v] /\ at'[v] = at[v]
    /\ \A t \in Threads : t # w => pc'[t] = pc[t] /\ obj'[t] = obj[t]
    /\ pc[w] \notin {"none", "done"}
    /\ \A v \in Ops : v # w /\ v \in live => v \in live'
    /\ row'[w] # row[w] => Active(w)
    /\ row'[w].state # row[w].state => row'[w].state \in {"running"} \cup TerminalStates
    /\ shown'[w] \in TerminalStates => Terminal(row'[w])
    /\ WorkerFits(w)'
    /\ ReviewFits(w)'

LEMMA WrittenStates ==
    ASSUME TypeInv, NEW w \in Ops
    PROVE  /\ pc[w] = "start" => Written(w).state = "running"
           /\ pc[w] \in {"begin", "complete", "save"} => Written(w).state = obj[w].state
           /\ pc[w] = "work" /\ at[w] # CONFIRM => Written(w) = obj[w]
           /\ pc[w] = "work" /\ at[w] = CONFIRM => Written(w).state = "confirmed"
<1>1. obj[w] \in Record
    BY ThreadFacts DEF TypeInv, TypeOK
<1> QED BY <1>1, TransitionStates DEF Written

LEMMA SaveOperationEffect ==
    ASSUME TypeInv, NEW w \in Ops, NEW next, SaveOperation(w, next)
    PROVE  /\ row'[w].state = Written(w).state /\ obj'[w].state = Written(w).state
           /\ \A v \in Ops : v # w => row'[v] = row[v] /\ age'[v] = age[v]
           /\ \A t \in Threads : t # w => pc'[t] = pc[t] /\ obj'[t] = obj[t]
           /\ pc'[w] = next
BY ThreadFacts DEF SaveOperation, Save, Goto, TypeInv, TypeOK

LEMMA WriteStageEffect ==
    ASSUME TypeInv, NEW w \in Ops, NEW next, WriteStage(w, next)
    PROVE  /\ row'[w].state = Written(w).state /\ obj'[w].state = Written(w).state
           /\ shown'[w] \in {Written(w).state, "lost", shown[w]}
           /\ \A v \in Ops : v # w => row'[v] = row[v] /\ age'[v] = age[v] /\ shown'[v] = shown[v]
           /\ \A t \in Threads : t # w => pc'[t] = pc[t] /\ obj'[t] = obj[t]
           /\ pc'[w] = next
<1>1. row[w] \in Record
    BY DEF TypeInv, TypeOK
<1>2. row'[w].state = Written(w).state
    BY <1>1 DEF WriteStage, UpdateStage, Save, TypeInv, TypeOK, Record
<1>3. Written(w).state \in {"none"} \cup ActiveStates \cup TerminalStates
    BY WrittenFits DEF TypeInv, Record
<1>4. /\ shown'[w] \in {Written(w).state, "lost", shown[w]}
      /\ \A v \in Ops : v # w => shown'[v] = shown[v]
    BY <1>3, EmitEffect DEF WriteStage, TypeInv
<1> QED BY <1>2, <1>4, ThreadFacts DEF WriteStage, UpdateStage, Save, Goto, TypeInv, TypeOK

LEMMA FailEffect ==
    ASSUME TypeInv, NEW t \in Threads, NEW o \in Record, NEW s, Fail(t, o, s)
    PROVE  /\ obj'[t].state = "failed"
           /\ \A u \in Threads : u # t => pc'[u] = pc[u] /\ obj'[u] = obj[u]
           /\ pc'[t] \in {"save", "reconcile"}
BY TransitionStates DEF Fail, Goto, TypeInv, TypeOK

LEMMA WorkerStepMoves ==
    ASSUME IInv, NEW w \in Ops, WorkerStep(w) \/ TerminalStep(w)
    PROVE  WorkerMoves(w)
<1> USE DEF WorkerMoves, WorkerFits, ReviewFits, Terminal, Active, ActiveStates, TerminalStates
<1>0. /\ TypeInv /\ WorkerFits(w) /\ ReviewFits(w)
      /\ w \in Threads /\ obj[w] \in Record /\ row[w] \in Record
      /\ shown[w] \in TerminalStates => Terminal(row[w])
    BY ThreadFacts DEF IInv, TypeInv, TypeOK, TerminalEventIsCommitted
<1>a. /\ pc \in [Threads -> Labels] /\ at \in [Ops -> Stages]
      /\ shown \in [Ops -> {"none", "lost"} \cup ActiveStates \cup TerminalStates]
      /\ exec \in [Ops -> {"idle", "requested", "applied", "refused"}]
      /\ obj \in [Threads -> Record] /\ row \in [Ops -> Record]
    BY <1>0 DEF TypeInv, TypeOK
<1> USE DEF worldVars, countVars
<1>1. CASE Enter(w)
    BY <1>0, <1>a, <1>1 DEF Enter, Goto
<1>2. CASE StartOperation(w)
    BY <1>0, <1>a, <1>2, SaveOperationEffect, WrittenStates DEF StartOperation
<1>3. CASE Begin(w)
    BY <1>0, <1>a, <1>3, WriteStageEffect, WrittenStates DEF Begin
<1>4. CASE Skip(w)
    BY <1>0, <1>a, <1>4, WriteStageEffect, WrittenStates DEF Skip, REVIEW, BACKUP_VERIFY
<1>5. CASE Complete(w)
    BY <1>0, <1>a, <1>5, WriteStageEffect, WrittenStates DEF Complete
<1>6. CASE ReviewRejects(w)
    BY <1>0, <1>a, <1>6, FailEffect DEF ReviewRejects, Working
<1>7. CASE ReviewAccepts(w)
    BY <1>0, <1>a, <1>7, SaveOperationEffect, WrittenStates DEF ReviewAccepts, Working, REVIEW, CONFIRM
<1>8. CASE Prepared(w)
    BY <1>0, <1>a, <1>8 DEF Prepared, Goto, Working, REVIEW, PREPARE
<1>9. CASE PrepareRaises(w)
    BY <1>0, <1>a, <1>9, FailEffect DEF PrepareRaises, Working
<1>10. CASE CallExecutor(w)
    BY <1>0, <1>a, <1>10 DEF CallExecutor, Goto, Working, REVIEW, RESTART
<1>11. CASE ExecutorReturns(w)
    BY <1>0, <1>a, <1>11 DEF ExecutorReturns, Goto, IInv, TypeInv, StagesFit, REVIEW, RESTART
<1>12. CASE ExecutorRaises(w)
    BY <1>0, <1>a, <1>12, FailEffect DEF ExecutorRaises
<1>13. CASE HealthPoll(w)
    <2>1. PICK next \in {"work", "complete"} : WriteStage(w, next)
        BY <1>13 DEF HealthPoll
    <2> QED BY <1>0, <1>a, <1>13, <2>1, WriteStageEffect, WrittenStates
            DEF HealthPoll, Working, HEALTH_WAIT, REVIEW, CONFIRM
<1>14. CASE HealthTimeout(w)
    BY <1>0, <1>a, <1>14, FailEffect DEF HealthTimeout, Working
<1>15. CASE VerifyMatches(w)
    BY <1>0, <1>a, <1>15 DEF VerifyMatches, Goto, Working, VERIFY, REVIEW
<1>16. CASE VerifyDiverges(w)
    BY <1>0, <1>a, <1>16, TransitionStates DEF VerifyDiverges, Goto, Working
<1>17. CASE VerifyFails(w)
    BY <1>0, <1>a, <1>17, FailEffect DEF VerifyFails, Working
<1>18. CASE SaveConfirmed(w)
    BY <1>0, <1>a, <1>18, SaveOperationEffect, WrittenStates DEF SaveConfirmed, Working
<1>19. CASE WriteRaises(w)
    BY <1>0, <1>a, <1>19, WrittenStates DEF WriteRaises, Writing, Goto, Working
<1>20. CASE HandleTerminal(w)
    BY <1>0, <1>a, <1>20 DEF HandleTerminal, Goto
<1>21. CASE HandleError(w)
    <2> DEFINE o == FailStage(obj[w], ChargedStage(obj[w]))
    <2>1. o.state = "failed"
        BY <1>0, TransitionStates
    <2>2. obj' = [obj EXCEPT ![w] = o] /\ Save(w, o)
        BY <1>21 DEF HandleError
    <2> HIDE DEF o
    <2> QED BY <1>0, <1>a, <1>21, <2>1, <2>2 DEF HandleError, Save, Goto, TypeInv, TypeOK
<1>22. CASE HandlerRaises(w)
    <2>1. \A t \in Threads : t # w => obj'[t] = obj[t]
        BY <1>a, <1>22 DEF HandlerRaises
    <2> QED BY <1>0, <1>a, <1>22, <2>1 DEF HandlerRaises, Goto
<1>23. CASE Leave(w)
    BY <1>0, <1>a, <1>23 DEF Leave, DiscardLive, Goto
<1>24. CASE Reconcile(w)
    <2>1. PICK verdict \in {"unknown", "applied", "diverged"} :
             obj' = [obj EXCEPT ![w].recon = verdict,
                                ![w].state = IF verdict = "diverged" THEN "divergent" ELSE @]
        BY <1>24 DEF Reconcile
    <2>2. obj'[w].state = obj[w].state \/ obj'[w].state = "divergent"
        BY <1>a, <2>1 DEF Record
    <2>3. \A t \in Threads : t # w => obj'[t] = obj[t]
        BY <1>a, <2>1
    <2> QED BY <1>0, <1>a, <1>24, <2>2, <2>3 DEF Reconcile, Goto
<1>25. CASE SaveTerminal(w)
    BY <1>0, <1>a, <1>25 DEF SaveTerminal, Save, OpOf, Goto, TypeInv, TypeOK
<1>26. CASE Publish(w)
    <2>1. obj[w].state \in {"none"} \cup ActiveStates \cup TerminalStates /\ OpOf(w) = w
        BY <1>0 DEF Record, OpOf
    <2>2. /\ shown'[w] \in {obj[w].state, "lost", shown[w]}
          /\ \A v \in Ops : v # w => shown'[v] = shown[v]
        BY <1>0, <1>26, <2>1, EmitEffect DEF Publish, TypeInv
    <2> QED BY <1>0, <1>a, <1>26, <2>2 DEF Publish, Goto
<1>27. CASE AuditTerminal(w)
    BY <1>0, <1>a, <1>27 DEF AuditTerminal, OpOf, Goto
<1> QED
    BY <1>1, <1>2, <1>3, <1>4, <1>5, <1>6, <1>7, <1>8, <1>9, <1>10, <1>11, <1>12, <1>13, <1>14,
       <1>15, <1>16, <1>17, <1>18, <1>19, <1>20, <1>21, <1>22, <1>23, <1>24, <1>25, <1>26, <1>27
       DEF WorkerStep, TerminalStep

-----------------------------------------------------------------------------
(* Each group of steps preserves the invariant.                            *)

LEMMA WorkerKeepsInvariant ==
    ASSUME IInv, NEW w \in Ops, WorkerMoves(w), TypeInv'
    PROVE  IInv'
<1>0. /\ TypeInv /\ Ops \subseteq Threads /\ Requests \subseteq Threads /\ Main \in Threads
      /\ w \notin Requests /\ w # Main
    BY ThreadFacts DEF IInv
<1>1. \A v \in Ops : v # w => pc'[v] = pc[v] /\ obj'[v] = obj[v]
    BY <1>0 DEF WorkerMoves
<1>2. \A t \in Claimants : pc'[t] = pc[t] /\ obj'[t] = obj[t] /\ target'[t] = target[t]
    BY <1>0 DEF WorkerMoves, Claimants
<1>3. \A v \in Ops : row'[v].state # row[v].state => v = w /\ Active(w)
    BY DEF WorkerMoves
<1>4. \A v \in Ops : Active(v)' => Active(v)
    BY <1>3 DEF Active
<1>5. \A v \in Ops : Terminal(row[v]) => Terminal(row[v])'
    BY <1>3 DEF Active, Terminal, ActiveStates, TerminalStates
<1>6. pc[w] \notin {"none", "done"}
    BY DEF WorkerMoves
<1>7. ASSUME NEW v \in Ops PROVE WorkerFits(v)'
    BY <1>1 DEF IInv, WorkerFits, WorkerMoves, Active, Terminal
<1>8. ASSUME NEW v \in Ops PROVE ReviewFits(v)'
    BY <1>1 DEF IInv, ReviewFits, WorkerMoves
<1>9. ASSUME NEW r \in Requests PROVE RequestFits(r)'
    <2>1. pc'[r] = pc[r] /\ obj'[r] = obj[r] /\ target'[r] = target[r] /\ lock' = lock
        BY <1>2 DEF Claimants, WorkerMoves
    <2>2. RequestFits(r) /\ WorkerFits(w)
        BY DEF IInv
    <2>3. pc[r] \in {"create", "spawn", "recheck", "publish", "report"} => target[r] \in Ops
        BY <1>0 DEF TypeInv, TargetsFit, Claimants
    <2>4. CASE pc[r] = "create"
        <3>1. target[r] # w
            BY <1>6, <2>2, <2>4 DEF RequestFits, WorkerFits
        <3>2. NoActive'
            BY <1>4, <2>2, <2>4 DEF RequestFits, NoActive
        <3> QED BY <2>1, <2>2, <2>3, <2>4, <3>1, <3>2 DEF RequestFits, WorkerMoves
    <2>5. CASE pc[r] = "spawn"
        <3>1. target[r] # w
            BY <1>6, <2>2, <2>5 DEF RequestFits
        <3>2. pc'[target[r]] = pc[target[r]]
            BY <1>1, <2>3, <2>5, <3>1
        <3> QED BY <2>1, <2>2, <2>3, <2>5, <3>1, <3>2 DEF RequestFits, WorkerMoves
    <2>6. CASE pc[r] \notin {"create", "spawn"}
        BY <1>5, <2>1, <2>2, <2>3, <2>6 DEF RequestFits
    <2> QED BY <2>4, <2>5, <2>6
<1>10. ASSUME NEW t \in Claimants PROVE ReclaimIsSafe(t)'
    <2>1. SUFFICES ASSUME pc[t] \in {"reconcile", "save"}
                   PROVE  /\ Active(target[t])'
                          /\ pc'[target[t]] \in {"none", "done"}
                          /\ age'[target[t]] >= ORPHAN
                          /\ Terminal(obj[t])'
        BY <1>2 DEF ReclaimIsSafe
    <2>2. ReclaimIsSafe(t) /\ target[t] \in Ops
        BY <1>0, <2>1 DEF IInv, TypeInv, TargetsFit
    <2>3. target[t] # w
        BY <1>6, <2>1, <2>2 DEF ReclaimIsSafe
    <2>4. /\ row'[target[t]] = row[target[t]] /\ age'[target[t]] = age[target[t]]
          /\ pc'[target[t]] = pc[target[t]]
        BY <1>1, <2>2, <2>3 DEF WorkerMoves
    <2> QED BY <1>2, <2>1, <2>2, <2>4 DEF ReclaimIsSafe, Active, Terminal
<1>11. OneSpawner'
    BY <1>2 DEF IInv, OneSpawner, Claimants
<1>12. BootIsAlone'
    BY <1>2, <1>6 DEF IInv, BootIsAlone, Claimants
<1>13. AtMostOneActive'
    BY <1>4 DEF IInv, AtMostOneActive
<1>14. TerminalEventIsCommitted'
    <2>1. ASSUME NEW v \in Ops, shown'[v] \in TerminalStates PROVE Terminal(row'[v])
        BY <2>1 DEF IInv, TerminalEventIsCommitted, WorkerMoves
    <2> QED BY <2>1 DEF TerminalEventIsCommitted, Terminal
<1>15. OnlyReviewedIsApplied'
    BY DEF IInv, OnlyReviewedIsApplied, WorkerMoves
<1> QED BY <1>7, <1>8, <1>9, <1>10, <1>11, <1>12, <1>13, <1>14, <1>15 DEF IInv

\* A claimant's step that writes no row.
LEMMA QuietKeepsInvariant ==
    ASSUME IInv, TypeInv', NEW t \in Claimants,
           UNCHANGED <<row, age, exec, effective, live, at>>,
           \A op \in Ops : row[op].state # "none" => want'[op] = want[op],
           \A u \in Threads : u # t => pc'[u] = pc[u] /\ obj'[u] = obj[u],
           \A u \in Claimants : u # t => target'[u] = target[u],
           \A op \in Ops : shown'[op] \in TerminalStates => Terminal(row[op]),
           lock' = lock \/ lock \in {NoThread, t},
           t \in Requests => RequestFits(t)' /\ pc'[t] # "spawn",
           ReclaimIsSafe(t)', BootIsAlone'
    PROVE  IInv'
<1>0. /\ TypeInv /\ Ops \subseteq Threads /\ Claimants \subseteq Threads /\ t \notin Ops
      /\ \A u \in Claimants : u \notin Ops
      /\ \A r \in Requests : r # NoThread /\ r \in Claimants
    BY ThreadFacts DEF IInv, Claimants
<1>1. \A w \in Ops : pc'[w] = pc[w] /\ obj'[w] = obj[w]
    BY <1>0
<1>2. ASSUME NEW w \in Ops PROVE WorkerFits(w)'
    BY <1>1 DEF IInv, WorkerFits, Active, Terminal
<1>3. ASSUME NEW w \in Ops PROVE ReviewFits(w)'
    BY <1>1 DEF IInv, WorkerFits, ReviewFits
<1>4. ASSUME NEW r \in Requests, r # t PROVE RequestFits(r)'
    <2>1. pc'[r] = pc[r] /\ obj'[r] = obj[r] /\ target'[r] = target[r] /\ RequestFits(r)
        BY <1>0, <1>4 DEF IInv
    <2>2. pc[r] \in {"create", "reconcile", "save"} => lock' = r
        BY <1>0, <1>4, <2>1 DEF RequestFits
    <2>3. pc[r] = "spawn" => target[r] \in Ops
        BY <1>0 DEF TypeInv, TargetsFit
    <2> QED BY <1>1, <2>1, <2>2, <2>3 DEF RequestFits, NoActive, Active, Terminal
<1>5. ASSUME NEW u \in Claimants, u # t PROVE ReclaimIsSafe(u)'
    <2>1. pc'[u] = pc[u] /\ obj'[u] = obj[u] /\ target'[u] = target[u] /\ ReclaimIsSafe(u)
        BY <1>0, <1>5 DEF IInv
    <2>2. pc[u] \in {"reconcile", "save"} => target[u] \in Ops
        BY <1>0 DEF TypeInv, TargetsFit
    <2> QED BY <1>1, <2>1, <2>2 DEF ReclaimIsSafe, Active, Terminal
<1>6. OneSpawner'
    <2>1. \A r \in Requests : pc'[r] = "spawn" => pc[r] = "spawn"
        BY <1>0
    <2> QED BY <2>1 DEF IInv, OneSpawner
<1>7. AtMostOneActive' /\ TerminalEventIsCommitted' /\ OnlyReviewedIsApplied'
    BY DEF IInv, AtMostOneActive, TerminalEventIsCommitted, OnlyReviewedIsApplied, Active, Terminal
<1>8. \A r \in Requests : RequestFits(r)'
    BY <1>4
<1>9. \A u \in Claimants : ReclaimIsSafe(u)'
    BY <1>5
<1> QED BY <1>2, <1>3, <1>6, <1>7, <1>8, <1>9 DEF IInv

\* A claimant's step that writes the outcome of an operation nobody executes.
LEMMA OutcomeKeepsInvariant ==
    ASSUME IInv, TypeInv', NEW t \in Claimants, NEW op \in Ops,
           \A v \in Ops : v # op => row'[v] = row[v] /\ age'[v] = age[v],
           \/ Terminal(row[op])
           \/ Active(op) /\ pc[op] \in {"none", "done"} /\ age[op] >= ORPHAN,
           Terminal(row'[op]),
           \A u \in Claimants : u # t /\ pc[u] \in {"reconcile", "save"} => target[u] # op,
           UNCHANGED <<want, exec, effective, live, at, shown, lock, target>>,
           \A u \in Threads : u # t => pc'[u] = pc[u] /\ obj'[u] = obj[u],
           pc'[t] = "publish" \/ (t # Main /\ pc'[t] = "report"),
           t = Main <=> pc[Main] # "serving", target[t] = op
    PROVE  IInv'
<1>0. /\ TypeInv /\ Ops \subseteq Threads /\ Claimants \subseteq Threads /\ t \notin Ops
      /\ \A u \in Claimants : u \notin Ops
      /\ \A r \in Requests : r # NoThread /\ r \in Claimants /\ r # Main
      /\ Main \in Claimants
    BY ThreadFacts DEF IInv, Claimants
<1>1. \A w \in Ops : pc'[w] = pc[w] /\ obj'[w] = obj[w]
    BY <1>0
<1>2. \A v \in Ops : Active(v)' => Active(v)
    BY DEF Active, Terminal, ActiveStates, TerminalStates
<1>3. \A v \in Ops : Terminal(row[v]) => Terminal(row'[v])
    BY DEF Terminal
<1>4. /\ row'[op].state # "none" /\ row[op].state # "none"
      /\ row[op].state = "pending" => age[op] # FRESH
    BY DEF Active, Terminal, ActiveStates, TerminalStates, ORPHAN, FRESH
<1>5. ASSUME NEW w \in Ops PROVE WorkerFits(w)'
    <2>1. CASE w # op
        BY <1>1, <2>1 DEF IInv, WorkerFits, Active, Terminal
    <2>2. CASE w = op /\ pc[w] \in {"none", "done"}
        BY <1>1, <1>4, <2>2 DEF WorkerFits
    <2>3. CASE w = op /\ Terminal(row[op]) /\ pc[w] \notin {"none", "done"}
        <3>1. pc[w] \in {"except", "publish", "report", "audit", "finally"}
              /\ (pc[w] = "except" => Terminal(obj[w])) /\ w \in live
            BY <1>0, <2>3 DEF IInv, WorkerFits, TypeInv, TypeOK, Labels, Active, Terminal,
               ActiveStates, TerminalStates
        <3> QED BY <1>1, <1>4, <2>3, <3>1 DEF WorkerFits, Terminal
    <2> QED BY <2>1, <2>2, <2>3
<1>6. ASSUME NEW w \in Ops PROVE ReviewFits(w)'
    BY <1>1 DEF IInv, ReviewFits
<1>7. ASSUME NEW r \in Requests PROVE RequestFits(r)'
    <2>1. RequestFits(r) /\ target'[r] = target[r]
        BY DEF IInv
    <2>2. pc[r] \in {"create", "spawn", "recheck", "publish", "report"} => target[r] \in Ops
        BY <1>0 DEF TypeInv, TargetsFit
    <2>3. CASE r = t
        BY <2>1, <2>3 DEF RequestFits, Terminal
    <2>4. CASE r # t
        <3>1. pc'[r] = pc[r] /\ obj'[r] = obj[r]
            BY <1>0, <2>4
        <3>2. pc[r] \in {"create", "spawn"} => target[r] # op
            BY <1>4, <2>1 DEF RequestFits
        <3>3. pc[r] = "create" => NoActive'
            BY <1>2, <2>1 DEF RequestFits, NoActive
        <3> QED BY <1>1, <1>3, <2>1, <2>2, <3>1, <3>2, <3>3 DEF RequestFits, Terminal
    <2> QED BY <2>3, <2>4
<1>8. ASSUME NEW u \in Claimants PROVE ReclaimIsSafe(u)'
    <2>1. CASE u = t
        BY <2>1 DEF ReclaimIsSafe
    <2>2. CASE u # t
        <3>1. pc'[u] = pc[u] /\ obj'[u] = obj[u] /\ target'[u] = target[u] /\ ReclaimIsSafe(u)
            BY <1>0, <2>2 DEF IInv
        <3>2. pc[u] \in {"reconcile", "save"} => target[u] \in Ops /\ target[u] # op
            BY <1>0, <2>2 DEF TypeInv, TargetsFit
        <3> QED BY <1>1, <3>1, <3>2 DEF ReclaimIsSafe, Active, Terminal
    <2> QED BY <2>1, <2>2
<1>9. OneSpawner'
    <2>1. \A r \in Requests : pc'[r] = "spawn" => pc[r] = "spawn"
        BY <1>0
    <2> QED BY <2>1 DEF IInv, OneSpawner
<1>10. BootIsAlone'
    <2>1. CASE t = Main
        <3>1. pc'[t] = "publish" \/ pc'[t] = "report"
            OBVIOUS
        <3>2. \A r \in Requests : pc'[r] = pc[r]
            BY <1>0, <2>1
        <3> QED BY <1>0, <1>1, <2>1, <3>1, <3>2 DEF IInv, BootIsAlone, Terminal
    <2>2. CASE t # Main
        BY <1>0, <2>2 DEF IInv, BootIsAlone
    <2> QED BY <2>1, <2>2
<1>11. AtMostOneActive'
    BY <1>2 DEF IInv, AtMostOneActive
<1>12. TerminalEventIsCommitted'
    BY <1>3 DEF IInv, TerminalEventIsCommitted, Terminal
<1>13. OnlyReviewedIsApplied'
    BY DEF IInv, OnlyReviewedIsApplied
<1> QED BY <1>5, <1>6, <1>7, <1>8, <1>9, <1>10, <1>11, <1>12, <1>13 DEF IInv

LEMMA ClaimantFacts ==
    ASSUME IInv, NEW t \in Claimants
    PROVE  /\ t \in Threads /\ t \notin Ops /\ OpOf(t) = target[t]
           /\ t \in Requests => t # Main /\ t # NoThread /\ RequestFits(t)
           /\ ReclaimIsSafe(t) /\ BootIsAlone
           /\ pc[t] \in {"reconcile", "save", "publish", "report", "audit"} => target[t] \in Ops
           /\ t = Main \/ t \in Requests
           /\ t \in Requests /\ pc[t] # "idle" => pc[Main] = "serving"
           /\ TypeOK
BY ThreadFacts DEF IInv, Claimants, OpOf, TypeInv, TargetsFit, BootIsAlone

\* No other claimant ends a record while t does.
LEMMA OneReclaimer ==
    ASSUME IInv, NEW t \in Claimants, pc[t] \in {"reconcile", "save"},
           NEW u \in Claimants, pc[u] \in {"reconcile", "save"}
    PROVE  u = t
BY ClaimantFacts DEF RequestFits, BootIsAlone

LEMMA TerminalStepKeepsInvariant ==
    ASSUME IInv, TypeInv', NEW t \in Claimants, TerminalStep(t)
    PROVE  IInv'
<1> USE DEF worldVars, countVars
<1>0. /\ t \in Threads /\ OpOf(t) = target[t] /\ TypeOK
      /\ RequestFits(t) \/ t = Main
      /\ ReclaimIsSafe(t) /\ BootIsAlone
      /\ pc[t] \in {"reconcile", "save", "publish", "report", "audit"} => target[t] \in Ops
      /\ t \in Requests => t # Main /\ RequestFits(t)
      /\ t \in Requests /\ pc[t] # "idle" => pc[Main] = "serving"
      /\ t = Main \/ t \in Requests
      /\ Main \in Threads /\ Requests \subseteq Threads /\ Ops \subseteq Threads
      /\ t \notin Ops
    BY ClaimantFacts, ThreadFacts
<1>1. \A u \in Threads : u # t => pc'[u] = pc[u]
    BY <1>0 DEF TerminalStep, Reconcile, SaveTerminal, Publish, AuditTerminal, Goto, TypeOK
<1>2. \A u \in Threads : u # t => obj'[u] = obj[u]
    BY <1>0 DEF TerminalStep, Reconcile, SaveTerminal, Publish, AuditTerminal, TypeOK
<1>3. CASE Reconcile(t)
    <2>1. PICK verdict \in {"unknown", "applied", "diverged"} :
             obj' = [obj EXCEPT ![t].recon = verdict,
                                ![t].state = IF verdict = "diverged" THEN "divergent" ELSE @]
        BY <1>3 DEF Reconcile
    <2>2. obj'[t].state = obj[t].state \/ obj'[t].state = "divergent"
        BY <1>0, <2>1 DEF TypeOK, Record
    <2>3. pc'[t] = "save" /\ pc[t] = "reconcile"
        BY <1>0, <1>3 DEF Reconcile, Goto, TypeOK
    <2>4. Terminal(obj'[t])
        BY <1>0, <2>2, <2>3 DEF ReclaimIsSafe, Terminal, TerminalStates
    <2>5. pc'[target[t]] = pc[target[t]]
        BY <1>0, <1>1, <2>3
    <2>6. ReclaimIsSafe(t)'
        BY <1>0, <1>3, <2>3, <2>4, <2>5 DEF Reconcile, ReclaimIsSafe, Active, Terminal
    <2>7. t \in Requests => RequestFits(t)'
        BY <1>0, <1>3, <2>3 DEF Reconcile, RequestFits
    <2>8. BootIsAlone'
        BY <1>0, <1>1, <2>3 DEF BootIsAlone
    <2>9. UNCHANGED <<row, age, exec, effective, live, at, want, target, shown, lock>>
        BY <1>3 DEF Reconcile
    <2>10. \A op \in Ops : shown'[op] \in TerminalStates => Terminal(row[op])
        BY <2>9 DEF IInv, TerminalEventIsCommitted
    <2> QED BY <1>1, <1>2, <2>3, <2>6, <2>7, <2>8, <2>9, <2>10, QuietKeepsInvariant
<1>4. CASE SaveTerminal(t)
    <2>1. pc'[t] = "publish" /\ pc[t] = "save" /\ target[t] \in Ops
        BY <1>0, <1>4 DEF SaveTerminal, Goto, TypeOK
    <2>2. /\ \A v \in Ops : v # target[t] => row'[v] = row[v] /\ age'[v] = age[v]
          /\ row'[target[t]] = obj[t]
        BY <1>0, <1>4, <2>1 DEF SaveTerminal, Save, TypeOK
    <2>3. Terminal(row'[target[t]])
        BY <1>0, <2>1, <2>2 DEF ReclaimIsSafe
    <2>4. Active(target[t]) /\ pc[target[t]] \in {"none", "done"} /\ age[target[t]] >= ORPHAN
        BY <1>0, <2>1 DEF ReclaimIsSafe
    <2>5. \A u \in Claimants : u # t /\ pc[u] \in {"reconcile", "save"} => target[u] # target[t]
        BY <2>1, OneReclaimer
    <2>6. UNCHANGED <<want, exec, effective, live, at, shown, lock, target>>
        BY <1>4 DEF SaveTerminal
    <2>7. t = Main <=> pc[Main] # "serving"
        BY <1>0, <2>1 DEF BootIsAlone
    <2> QED BY <1>1, <1>2, <2>1, <2>2, <2>3, <2>4, <2>5, <2>6, <2>7, OutcomeKeepsInvariant
<1>5. CASE Publish(t)
    <2>1. /\ pc'[t] \in {"audit", "finally"} /\ pc[t] \in {"publish", "report"}
          /\ UNCHANGED <<row, age, exec, effective, live, at, want, target, lock, obj>>
        BY <1>0, <1>5 DEF Publish, Goto, TypeOK
    <2>2. \A op \in Ops : op # target[t] => shown'[op] = shown[op]
        <3>1. obj[t].state \in {"none"} \cup ActiveStates \cup TerminalStates
            BY <1>0, <1>1 DEF TypeInv, TypeOK, Record
        <3>2. OpOf(t) = target[t] /\ target[t] \in Ops
            BY <1>0, <1>1, <1>5 DEF Publish, OpOf
        <3> QED BY <1>0, <1>5, <3>1, <3>2, EmitEffect DEF Publish
    <2>3. Terminal(row[target[t]])
        BY <1>0, <2>1 DEF RequestFits, BootIsAlone
    <2>4. \A op \in Ops : shown'[op] \in TerminalStates => Terminal(row[op])
        BY <2>2, <2>3 DEF IInv, TerminalEventIsCommitted
    <2>5. t \in Requests => RequestFits(t)'
        BY <2>1 DEF RequestFits
    <2>6. BootIsAlone'
        BY <1>0, <1>1, <2>1 DEF BootIsAlone
    <2>7. ReclaimIsSafe(t)'
        BY <2>1 DEF ReclaimIsSafe
    <2> QED BY <1>1, <2>1, <2>4, <2>5, <2>6, <2>7, QuietKeepsInvariant
<1>6. CASE AuditTerminal(t)
    <2>1. /\ pc'[t] = "finally" /\ pc[t] = "audit"
          /\ UNCHANGED <<row, age, exec, effective, live, at, want, target, lock, obj, shown>>
        BY <1>0, <1>6 DEF AuditTerminal, Goto, TypeOK
    <2>2. \A op \in Ops : shown'[op] \in TerminalStates => Terminal(row[op])
        BY <2>1 DEF IInv, TerminalEventIsCommitted
    <2>3. t \in Requests => RequestFits(t)'
        BY <2>1 DEF RequestFits
    <2>4. BootIsAlone'
        BY <1>0, <1>1, <2>1 DEF BootIsAlone
    <2>5. ReclaimIsSafe(t)'
        BY <2>1 DEF ReclaimIsSafe
    <2> QED BY <1>1, <2>1, <2>2, <2>3, <2>4, <2>5, QuietKeepsInvariant
<1> QED BY <1>3, <1>4, <1>5, <1>6 DEF TerminalStep

LEMMA RequestFacts ==
    ASSUME IInv, NEW r \in Requests
    PROVE  /\ r \in Threads /\ r \in Claimants /\ r \notin Ops /\ r # Main /\ r # NoThread
           /\ RequestFits(r) /\ ReclaimIsSafe(r) /\ BootIsAlone /\ TypeOK
           /\ pc[r] \in {"create", "spawn", "recheck", "reconcile", "save", "publish", "report"}
                => target[r] \in Ops
           /\ pc[r] # "idle" => pc[Main] = "serving"
           /\ Main \in Threads /\ Requests \subseteq Threads /\ Ops \subseteq Threads
           /\ \A op \in Ops : shown[op] \in TerminalStates => Terminal(row[op])
BY ThreadFacts
   DEF IInv, Claimants, TypeInv, TargetsFit, BootIsAlone, TerminalEventIsCommitted

\* A claimant may reclaim an active record that is silent and not live: nobody
\* executes it.
LEMMA ReclaimableIsDead ==
    ASSUME IInv, NEW op \in Ops, NEW threshold \in {ORPHAN, ABANDONED}, Reclaimable(op, threshold)
    PROVE  Active(op) /\ pc[op] \in {"none", "done"} /\ age[op] >= ORPHAN
<1>1. Active(op) /\ op \notin live /\ age[op] >= threshold /\ age[op] \in FRESH..ABANDONED
    BY DEF Reclaimable, GetActive, IInv, TypeInv, TypeOK
<1>2. age[op] >= ORPHAN /\ age[op] # FRESH
    BY <1>1 DEF FRESH, ORPHAN, ABANDONED
<1> QED BY <1>1, <1>2 DEF IInv, WorkerFits

LEMMA ReclaimStalledIsSafe ==
    ASSUME IInv, NEW t \in Claimants, NEW op \in Ops, NEW threshold \in {ORPHAN, ABANDONED},
           Reclaimable(op, threshold), ReclaimStalled(t, op)
    PROVE  /\ ReclaimIsSafe(t)'
           /\ pc'[t] \in {"reconcile", "save"}
           /\ UNCHANGED <<row, age, at, seen, live, want, exec, effective, shown>>
           /\ \A u \in Threads : u # t => pc'[u] = pc[u] /\ obj'[u] = obj[u]
           /\ \A u \in Claimants : u # t => target'[u] = target[u]
<1>0. t \in Threads /\ t \notin Ops /\ Ops \subseteq Threads /\ TypeOK
    BY ThreadFacts, ClaimantFacts
<1>1. UNCHANGED <<row, age, at, seen, live, want, exec, effective, shown>>
    BY DEF ReclaimStalled, worldVars
<1>2. FailStage(row[op], ChargedStage(row[op])).state = "failed"
    BY <1>0, TransitionStates DEF TypeOK
<1>3. PICK next \in {"save", "reconcile"} : pc' = [pc EXCEPT ![t] = next]
    BY DEF ReclaimStalled, Fail, Goto
<1>4. /\ \A u \in Threads : u # t => pc'[u] = pc[u] /\ obj'[u] = obj[u]
      /\ pc'[t] = next /\ obj'[t].state = "failed"
    BY <1>0, <1>2, <1>3 DEF ReclaimStalled, Fail, TypeOK
<1>5. /\ target'[t] = op
      /\ \A u \in Claimants : u # t => target'[u] = target[u]
    BY <1>0 DEF ReclaimStalled, TypeOK, Claimants
<1>6. ReclaimIsSafe(t)'
    BY <1>0, <1>1, <1>4, <1>5, ReclaimableIsDead
       DEF ReclaimIsSafe, Active, Terminal, TerminalStates
<1> QED BY <1>1, <1>4, <1>5, <1>6

LEMMA NewRequestKeepsInvariant ==
    ASSUME IInv, TypeInv', NEW r \in Requests, NewRequest(r)
    PROVE  IInv'
<1>0. /\ r \in Threads /\ r \in Claimants /\ r \notin Ops /\ r # Main /\ r # NoThread
      /\ BootIsAlone /\ TypeOK
      /\ Main \in Threads /\ Requests \subseteq Threads /\ Ops \subseteq Threads
      /\ \A op \in Ops : shown[op] \in TerminalStates => Terminal(row[op])
      /\ pc[r] = "idle" /\ pc[Main] = "serving"
    BY RequestFacts
       DEF NewRequest, CreateOrReject, RetryOperation, ReclaimAbandoned, Observe, Idle, Serving
<1> USE DEF worldVars, countVars
<1>1. ASSUME NEW v, Accept(r, v) PROVE IInv'
    <2>1. PICK op \in Ops : /\ NextOp(op)
                            /\ target' = [target EXCEPT ![r] = op]
                            /\ want' = [want EXCEPT ![op] = v]
        BY <1>1 DEF Accept
    <2>2. /\ UNCHANGED <<row, age, at, seen, live, exec, effective, shown>>
          /\ lock = NoThread /\ lock' = r /\ NoActive
          /\ obj' = [obj EXCEPT ![r] = Fresh("pending")]
          /\ pc' = [pc EXCEPT ![r] = "create"]
        BY <1>1 DEF Accept, Goto
    <2>3. /\ \A u \in Threads : u # r => pc'[u] = pc[u] /\ obj'[u] = obj[u]
          /\ pc'[r] = "create" /\ obj'[r].state = "pending"
        BY <1>0, <2>2 DEF TypeOK, Fresh
    <2>4. /\ target'[r] = op
          /\ \A u \in Claimants : u # r => target'[u] = target[u]
        BY <1>0, <2>1 DEF TypeOK, Claimants
    <2>5. row[op].state = "none"
        BY <2>1 DEF NextOp, Ops
    <2>6. \A o \in Ops : row[o].state # "none" => want'[o] = want[o]
        BY <1>0, <2>1, <2>5 DEF TypeOK
    <2>7. RequestFits(r)'
        BY <2>2, <2>3, <2>4, <2>5 DEF RequestFits, NoActive, Active
    <2>8. ReclaimIsSafe(r)' /\ BootIsAlone'
        BY <1>0, <2>3 DEF ReclaimIsSafe, BootIsAlone
    <2> QED BY <1>0, <2>2, <2>3, <2>4, <2>6, <2>7, <2>8, QuietKeepsInvariant
<1>2. CASE CreateOrReject(r)
    BY <1>1, <1>2 DEF CreateOrReject
<1>3. CASE RetryOperation(r)
    BY <1>1, <1>3 DEF RetryOperation
<1>4. CASE ReclaimAbandoned(r)
    <2>1. PICK op \in Ops : Reclaimable(op, ABANDONED) /\ ReclaimStalled(r, op)
        BY <1>4 DEF ReclaimAbandoned
    <2>2. lock = NoThread /\ lock' = r
        BY <1>4 DEF ReclaimAbandoned
    <2>3. /\ ReclaimIsSafe(r)'
          /\ pc'[r] \in {"reconcile", "save"}
          /\ UNCHANGED <<row, age, at, seen, live, want, exec, effective, shown>>
          /\ \A u \in Threads : u # r => pc'[u] = pc[u] /\ obj'[u] = obj[u]
          /\ \A u \in Claimants : u # r => target'[u] = target[u]
        BY <1>0, <2>1, ReclaimStalledIsSafe
    <2>4. RequestFits(r)' /\ BootIsAlone'
        BY <1>0, <2>2, <2>3 DEF RequestFits, BootIsAlone
    <2> QED BY <1>0, <2>2, <2>3, <2>4, QuietKeepsInvariant
<1>5. CASE Observe(r)
    <2>1. PICK op \in Ops : row[op].state \in RetryableStates /\ target' = [target EXCEPT ![r] = op]
        BY <1>5 DEF Observe
    <2>2. /\ UNCHANGED <<row, age, at, obj, lock, live, want, exec, effective, shown>>
          /\ pc' = [pc EXCEPT ![r] = "recheck"]
        BY <1>5 DEF Observe, Goto
    <2>3. pc'[r] = "recheck" /\ \A u \in Threads : u # r => pc'[u] = pc[u]
        BY <1>0, <2>2 DEF TypeOK
    <2>4. target'[r] = op /\ \A u \in Claimants : u # r => target'[u] = target[u]
        BY <1>0, <2>1 DEF TypeOK, Claimants
    <2>5. RequestFits(r)'
        BY <2>1, <2>2, <2>3, <2>4 DEF RequestFits, Terminal, TerminalStates, RetryableStates
    <2>6. ReclaimIsSafe(r)' /\ BootIsAlone'
        BY <1>0, <2>3 DEF ReclaimIsSafe, BootIsAlone
    <2> QED BY <1>0, <2>2, <2>3, <2>4, <2>5, <2>6, QuietKeepsInvariant
<1> QED BY <1>2, <1>3, <1>4, <1>5 DEF NewRequest

\* The first row of an operation: nothing was active, so nothing is disturbed.
LEMMA CreateKeepsInvariant ==
    ASSUME IInv, TypeInv', NEW r \in Requests, SaveCreated(r)
    PROVE  IInv'
<1> DEFINE op == target[r]
<1>0. /\ r \in Threads /\ r \in Claimants /\ r \notin Ops /\ r # Main /\ r # NoThread
      /\ BootIsAlone /\ TypeOK /\ op \in Ops /\ RequestFits(r)
      /\ Main \in Threads /\ Requests \subseteq Threads /\ Ops \subseteq Threads
      /\ pc[r] = "create" /\ pc[Main] = "serving"
    BY RequestFacts DEF SaveCreated
<1>1. /\ row[op].state = "none" /\ obj[r].state = "pending" /\ NoActive /\ lock = r
    BY <1>0 DEF RequestFits
<1>2. /\ \A v \in Ops : v # op => row'[v] = row[v] /\ age'[v] = age[v]
      /\ row'[op].state = "pending" /\ age'[op] = FRESH
    BY <1>0, <1>1 DEF SaveCreated, Save, TypeOK
<1>3. /\ UNCHANGED <<obj, at, target, seen, live, want, exec, effective, shown>>
      /\ lock' = NoThread
    BY DEF SaveCreated, worldVars
<1>4. pc'[r] = "spawn" /\ \A u \in Threads : u # r => pc'[u] = pc[u]
    BY <1>0 DEF SaveCreated, Goto, TypeOK
<1>5. \A w \in Ops : pc'[w] = pc[w]
    BY <1>0, <1>4
<1>6. pc[op] = "none"
    BY <1>0, <1>1 DEF IInv, WorkerFits
<1> HIDE DEF op
<1>7. ASSUME NEW w \in Ops PROVE WorkerFits(w)'
    <2>1. CASE w = op
        BY <1>5, <1>6, <2>1 DEF WorkerFits
    <2>2. CASE w # op
        BY <1>2, <1>3, <1>5, <2>2 DEF IInv, WorkerFits, Active, Terminal
    <2> QED BY <2>1, <2>2
<1>8. ASSUME NEW w \in Ops PROVE ReviewFits(w)'
    BY <1>3, <1>5 DEF IInv, ReviewFits
<1>9. ASSUME NEW q \in Requests PROVE RequestFits(q)'
    <2>1. CASE q = r
        BY <1>0, <1>1, <1>2, <1>3, <1>4, <1>5, <1>6, <2>1 DEF RequestFits, op
    <2>2. CASE q # r
        <3>1. pc'[q] = pc[q] /\ RequestFits(q)
            BY <1>0, <1>4, <2>2 DEF IInv
        <3>2. pc[q] \in {"spawn", "recheck", "publish", "report"} => target[q] \in Ops
            BY RequestFacts
        <3>3. pc[q] \notin {"create", "reconcile", "save"}
            BY <1>1, <2>2, <3>1 DEF RequestFits
        <3>4. pc[q] # "spawn"
            BY <1>1, <3>1, <3>2 DEF RequestFits, NoActive, Active, ActiveStates
        <3>5. pc[q] \in {"recheck", "publish", "report"} => target[q] # op
            BY <1>1, <3>1 DEF RequestFits, Terminal, TerminalStates
        <3> QED BY <1>2, <1>3, <3>1, <3>2, <3>3, <3>4, <3>5 DEF RequestFits, Terminal
    <2> QED BY <2>1, <2>2
<1>10. ASSUME NEW t \in Claimants PROVE ReclaimIsSafe(t)'
    <2>1. ReclaimIsSafe(t) /\ (pc[t] \in {"reconcile", "save"} => target[t] \in Ops)
        BY ClaimantFacts
    <2>2. pc[t] \notin {"reconcile", "save"}
        BY <1>1, <2>1 DEF ReclaimIsSafe, NoActive
    <2>3. pc'[t] \notin {"reconcile", "save"}
        BY <1>4, <2>2, ClaimantFacts
    <2> QED BY <2>3 DEF ReclaimIsSafe
<1>11. OneSpawner'
    <2>1. \A q \in Requests : q # r => pc'[q] # "spawn"
        <3> SUFFICES ASSUME NEW q \in Requests, q # r PROVE pc[q] # "spawn"
            BY <1>0, <1>4
        <3>1. RequestFits(q) /\ (pc[q] = "spawn" => target[q] \in Ops)
            BY RequestFacts
        <3> QED BY <1>1, <3>1 DEF RequestFits, NoActive, Active, ActiveStates
    <2> QED BY <2>1 DEF OneSpawner
<1>12. BootIsAlone'
    BY <1>0, <1>4 DEF BootIsAlone
<1>13. AtMostOneActive'
    BY <1>1, <1>2 DEF AtMostOneActive, NoActive, Active
<1>14. TerminalEventIsCommitted'
    BY <1>1, <1>2, <1>3 DEF IInv, TerminalEventIsCommitted, Terminal, TerminalStates
<1>15. OnlyReviewedIsApplied'
    BY <1>3 DEF IInv, OnlyReviewedIsApplied
<1> QED BY <1>7, <1>8, <1>9, <1>10, <1>11, <1>12, <1>13, <1>14, <1>15 DEF IInv

\* The worker that is started finds the row its request has just written.
LEMMA SpawnKeepsInvariant ==
    ASSUME IInv, TypeInv', NEW r \in Requests, Spawn(r)
    PROVE  IInv'
<1> DEFINE op == target[r]
<1>0. /\ r \in Threads /\ r \in Claimants /\ r \notin Ops /\ r # Main /\ r # NoThread
      /\ BootIsAlone /\ TypeOK /\ op \in Ops /\ RequestFits(r)
      /\ Main \in Threads /\ Requests \subseteq Threads /\ Ops \subseteq Threads
      /\ pc[r] = "spawn" /\ pc[Main] = "serving" /\ Main \notin Ops
      /\ \A q \in Requests : q \notin Ops
    BY RequestFacts, ThreadFacts DEF Spawn
<1>1. /\ row[op].state = "pending" /\ pc[op] = "none" /\ age[op] = FRESH
      /\ obj[r].state = "pending"
    BY <1>0 DEF RequestFits
<1>2. /\ pc'[op] = "spawned" /\ pc'[r] = "idle" /\ obj'[op] = obj[r]
      /\ \A u \in Threads : u \notin {op, r} => pc'[u] = pc[u] /\ obj'[u] = obj[u]
      /\ \A u \in Claimants : u # r => target'[u] = target[u]
    BY <1>0 DEF Spawn, TypeOK, Claimants
<1>3. UNCHANGED <<row, age, at, seen, lock, live, want, exec, effective, shown>>
    BY DEF Spawn, worldVars
<1> HIDE DEF op
<1>4. \A u \in Claimants : u # r => pc'[u] = pc[u] /\ obj'[u] = obj[u] /\ u # op
    BY <1>0, <1>2 DEF Claimants
<1>5. ASSUME NEW w \in Ops PROVE WorkerFits(w)'
    <2>1. CASE w = op
        BY <1>1, <1>2, <1>3, <2>1 DEF WorkerFits
    <2>2. CASE w # op
        BY <1>0, <1>2, <1>3, <2>2 DEF IInv, WorkerFits, Active, Terminal
    <2> QED BY <2>1, <2>2
<1>6. ASSUME NEW w \in Ops PROVE ReviewFits(w)'
    <2>1. CASE w = op
        BY <1>1, <1>2, <1>3, <2>1 DEF IInv, ReviewFits
    <2>2. CASE w # op
        BY <1>0, <1>2, <1>3, <2>2 DEF IInv, ReviewFits
    <2> QED BY <2>1, <2>2
<1>7. ASSUME NEW q \in Requests PROVE RequestFits(q)'
    <2>1. CASE q = r
        BY <1>2, <2>1 DEF RequestFits
    <2>2. CASE q # r
        <3>1. pc'[q] = pc[q] /\ obj'[q] = obj[q] /\ target'[q] = target[q] /\ RequestFits(q)
            BY <1>2, <1>4, <2>2 DEF IInv, Claimants
        <3>2. pc[q] # "spawn"
            BY <1>0, <2>2 DEF IInv, OneSpawner
        <3> QED BY <1>3, <3>1, <3>2 DEF RequestFits, NoActive, Active, Terminal
    <2> QED BY <2>1, <2>2
<1>8. ASSUME NEW t \in Claimants PROVE ReclaimIsSafe(t)'
    <2>1. CASE t = r
        BY <1>2, <2>1 DEF ReclaimIsSafe
    <2>2. CASE t # r
        <3>1. /\ pc'[t] = pc[t] /\ obj'[t] = obj[t] /\ target'[t] = target[t]
              /\ ReclaimIsSafe(t) /\ (pc[t] \in {"reconcile", "save"} => target[t] \in Ops)
            BY <1>2, <1>4, <2>2, ClaimantFacts
        <3>2. pc[t] \in {"reconcile", "save"} => target[t] # op
            BY <1>1, <3>1 DEF ReclaimIsSafe, ORPHAN, FRESH
        <3>3. pc[t] \in {"reconcile", "save"} => pc'[target[t]] = pc[target[t]]
            BY <1>0, <1>2, <3>1, <3>2
        <3> QED BY <1>3, <3>1, <3>3 DEF ReclaimIsSafe, Active, Terminal
    <2> QED BY <2>1, <2>2
<1>9. OneSpawner'
    <2>1. \A q \in Requests : pc'[q] # "spawn"
        BY <1>0, <1>2, <1>4 DEF IInv, OneSpawner, Claimants
    <2> QED BY <2>1 DEF OneSpawner
<1>10. BootIsAlone'
    BY <1>0, <1>2 DEF BootIsAlone
<1>11. AtMostOneActive' /\ TerminalEventIsCommitted' /\ OnlyReviewedIsApplied'
    BY <1>3 DEF IInv, AtMostOneActive, TerminalEventIsCommitted, OnlyReviewedIsApplied,
                Active, Terminal
<1> QED BY <1>5, <1>6, <1>7, <1>8, <1>9, <1>10, <1>11 DEF IInv

\* Every outcome a re-observation may leave is terminal.
LEMMA ReobservedIsTerminal ==
    ASSUME NEW op, NEW o \in Record, Terminal(o), NEW sawOnline, NEW new \in Reobserved(op, o, sawOnline)
    PROVE  Terminal(new)
BY DEF Reobserved, Record, Terminal, TerminalStates

LEMMA RecheckKeepsInvariant ==
    ASSUME IInv, TypeInv', NEW r \in Requests, Recheck(r)
    PROVE  IInv'
<1>0. /\ r \in Threads /\ r \in Claimants /\ r # Main
      /\ TypeOK /\ target[r] \in Ops /\ RequestFits(r)
      /\ pc[r] = "recheck" /\ pc[Main] = "serving"
    BY RequestFacts DEF Recheck
<1>1. Terminal(row[target[r]]) /\ row[target[r]] \in Record
    BY <1>0 DEF RequestFits, TypeOK
<1>2. PICK o \in Reobserved(target[r], row[target[r]], seen[r]) :
         obj' = [obj EXCEPT ![r] = o] /\ Save(target[r], o)
    BY DEF Recheck
<1>3. Terminal(o)
    BY <1>1, <1>2, ReobservedIsTerminal
<1>4. /\ \A v \in Ops : v # target[r] => row'[v] = row[v] /\ age'[v] = age[v]
      /\ row'[target[r]] = o
    BY <1>0, <1>2 DEF Save, TypeOK
<1>5. /\ \A u \in Threads : u # r => pc'[u] = pc[u] /\ obj'[u] = obj[u]
      /\ pc'[r] = "report"
    BY <1>0, <1>2 DEF Recheck, Goto, TypeOK
<1>6. UNCHANGED <<want, exec, effective, live, at, shown, lock, target>>
    BY DEF Recheck, worldVars
<1>7. \A u \in Claimants : u # r /\ pc[u] \in {"reconcile", "save"} => target[u] # target[r]
    BY <1>1, ClaimantFacts DEF ReclaimIsSafe, Active, Terminal, ActiveStates, TerminalStates
<1> QED BY <1>0, <1>1, <1>3, <1>4, <1>5, <1>6, <1>7, OutcomeKeepsInvariant

LEMMA FinishKeepsInvariant ==
    ASSUME IInv, TypeInv', NEW r \in Requests, RequestRaises(r) \/ Respond(r)
    PROVE  IInv'
<1>0. /\ r \in Threads /\ r \in Claimants /\ r # Main /\ BootIsAlone /\ Main \in Threads
      /\ TypeOK /\ pc[Main] = "serving"
      /\ \A op \in Ops : shown[op] \in TerminalStates => Terminal(row[op])
    BY RequestFacts DEF RequestRaises, Respond
<1>1. UNCHANGED <<row, age, at, live, want, exec, effective, shown>> /\ Finish(r)
    BY DEF RequestRaises, Respond, worldVars
<1>2. /\ \A u \in Threads : u # r => pc'[u] = pc[u] /\ obj'[u] = obj[u]
      /\ pc'[r] = "idle"
    BY <1>0, <1>1 DEF Finish, Goto, TypeOK
<1>3. \A u \in Claimants : u # r => target'[u] = target[u]
    BY <1>0, <1>1 DEF Finish, TypeOK, Claimants
<1>4. lock' = lock \/ lock = r
    BY <1>1 DEF Finish
<1>5. RequestFits(r)' /\ ReclaimIsSafe(r)' /\ BootIsAlone'
    BY <1>0, <1>2 DEF RequestFits, ReclaimIsSafe, BootIsAlone
<1> QED BY <1>0, <1>1, <1>2, <1>3, <1>4, <1>5, QuietKeepsInvariant

LEMMA RequestStepKeepsInvariant ==
    ASSUME IInv, TypeInv', NEW r \in Requests, RequestStep(r)
    PROVE  IInv'
BY CreateKeepsInvariant, SpawnKeepsInvariant, RecheckKeepsInvariant, FinishKeepsInvariant
   DEF RequestStep

LEMMA RestartKeepsInvariant ==
    ASSUME IInv, TypeInv', Restart
    PROVE  IInv'
<1>0. /\ \A w \in Ops : w \in Threads /\ w \notin Requests /\ w # Main
      /\ \A r \in Requests : r \in Threads /\ r # Main
      /\ Main \in Threads
    BY ThreadFacts
<1>1. /\ \A w \in Ops : pc'[w] = IF pc[w] = "none" THEN "none" ELSE "done"
      /\ \A r \in Requests : pc'[r] = "idle"
      /\ pc'[Main] = "boot"
    BY <1>0 DEF Restart
<1>2. /\ UNCHANGED <<row, want, exec, effective, shown>>
      /\ \A w \in Ops : at'[w] = REVIEW
    BY DEF Restart, worldVars
<1>3. \A w \in Ops : WorkerFits(w)'
    BY <1>1, <1>2 DEF IInv, WorkerFits
<1>4. \A w \in Ops : ReviewFits(w)'
    BY <1>1, <1>2 DEF IInv, ReviewFits
<1>5. \A r \in Requests : RequestFits(r)'
    BY <1>1 DEF RequestFits
<1>6. \A t \in Claimants : ReclaimIsSafe(t)'
    BY <1>1 DEF ReclaimIsSafe, Claimants
<1>7. OneSpawner' /\ BootIsAlone'
    BY <1>1 DEF OneSpawner, BootIsAlone
<1>8. AtMostOneActive' /\ TerminalEventIsCommitted' /\ OnlyReviewedIsApplied'
    BY <1>2 DEF IInv, AtMostOneActive, TerminalEventIsCommitted, OnlyReviewedIsApplied,
                Active, Terminal
<1> QED BY <1>3, <1>4, <1>5, <1>6, <1>7, <1>8 DEF IInv

LEMMA BootKeepsInvariant ==
    ASSUME IInv, TypeInv', BootStep
    PROVE  IInv'
<1>0. /\ Main \in Threads /\ Main \in Claimants /\ Main \notin Requests /\ TypeOK /\ BootIsAlone
      /\ \A op \in Ops : shown[op] \in TerminalStates => Terminal(row[op])
      /\ \A w \in Ops : w \in Threads /\ w # Main
      /\ \A r \in Requests : r \in Threads /\ r # Main
    BY ThreadFacts DEF IInv, TypeInv, Claimants, TerminalEventIsCommitted
<1>1. CASE BootReclaims
    <2>1. PICK op \in Ops : Reclaimable(op, ORPHAN) /\ ReclaimStalled(Main, op)
        BY <1>1 DEF BootReclaims
    <2>2. /\ ReclaimIsSafe(Main)'
          /\ pc'[Main] \in {"reconcile", "save"}
          /\ UNCHANGED <<row, age, at, seen, live, want, exec, effective, shown>>
          /\ \A u \in Threads : u # Main => pc'[u] = pc[u] /\ obj'[u] = obj[u]
          /\ \A u \in Claimants : u # Main => target'[u] = target[u]
        BY <1>0, <2>1, ReclaimStalledIsSafe
    <2>3. pc[Main] = "boot" /\ lock' = lock
        BY <1>1 DEF BootReclaims
    <2>4. BootIsAlone'
        BY <1>0, <2>2, <2>3 DEF BootIsAlone
    <2> QED BY <1>0, <2>2, <2>3, <2>4, QuietKeepsInvariant
<1>2. CASE BootServes
    <2>1. /\ UNCHANGED <<row, age, at, seen, lock, live, want, exec, effective, shown>>
          /\ pc'[Main] = "serving"
          /\ \A u \in Threads : u # Main => pc'[u] = pc[u] /\ obj'[u] = obj[u]
          /\ \A u \in Claimants : u # Main => target'[u] = target[u]
        BY <1>0, <1>2 DEF BootServes, Goto, worldVars, TypeOK, Claimants
    <2>2. ReclaimIsSafe(Main)' /\ BootIsAlone'
        BY <2>1 DEF ReclaimIsSafe, BootIsAlone
    <2> QED BY <1>0, <2>1, <2>2, QuietKeepsInvariant
<1>3. CASE BootRaises
    BY <1>3, RestartKeepsInvariant DEF BootRaises
<1> QED BY <1>1, <1>2, <1>3 DEF BootStep

LEMMA EnvironmentKeepsInvariant ==
    ASSUME IInv, TypeInv', NEW op \in Ops, Environment(op)
    PROVE  IInv'
<1>0. TypeInv /\ TypeOK
    BY DEF IInv, TypeInv
<1>1. CASE ExecutorApplies(op) \/ ExecutorRefuses(op)
    <2>1. UNCHANGED <<row, age, obj, pc, at, target, seen, lock, live, want, shown>>
        BY <1>1 DEF ExecutorApplies, ExecutorRefuses, threadVars
    <2>2. /\ \A w \in Ops : w # op => exec'[w] = exec[w]
          /\ exec[op] = "requested" /\ exec'[op] \in {"applied", "refused"}
        BY <1>0, <1>1 DEF ExecutorApplies, ExecutorRefuses, TypeOK
    <2>3. effective' \in Values
        <3>1. want[op] \in Values /\ effective \in Values
            BY <1>0, <2>2 DEF IInv, ReviewFits, TypeOK, OnlyReviewedIsApplied
        <3> QED BY <1>1, <3>1 DEF ExecutorApplies, ExecutorRefuses
    <2>4. \A w \in Ops : ReviewFits(w)'
        BY <2>1, <2>2 DEF IInv, ReviewFits
    <2> QED BY <2>1, <2>3, <2>4
            DEF IInv, WorkerFits, RequestFits, ReclaimIsSafe, OneSpawner, BootIsAlone, NoActive,
                AtMostOneActive, TerminalEventIsCommitted, OnlyReviewedIsApplied, Active, Terminal
<1>2. CASE Tick(op)
    <2>1. UNCHANGED <<row, obj, pc, at, target, seen, lock, live, want, exec, effective, shown>>
        BY <1>2 DEF Tick, threadVars, worldVars
    <2>2. /\ \A w \in Ops : w # op => age'[w] = age[w]
          /\ age'[op] = age[op] + 1 /\ age[op] \in 0..2
          /\ pc[op] # "spawned" /\ \A r \in Requests : ~(pc[r] = "spawn" /\ target[r] = op)
        BY <1>0, <1>2 DEF Tick, Starting, TypeOK, FRESH, ABANDONED
    <2>3. \A w \in Ops : age[w] >= ORPHAN => age'[w] >= ORPHAN
        BY <2>2 DEF ORPHAN
    <2>4. \A w \in Ops : WorkerFits(w)'
        BY <2>1, <2>2 DEF IInv, WorkerFits, Active, Terminal
    <2>5. ASSUME NEW r \in Requests PROVE RequestFits(r)'
        <3>1. RequestFits(r) /\ (pc[r] = "spawn" => target[r] \in Ops)
            BY RequestFacts
        <3> QED BY <2>1, <2>2, <3>1 DEF RequestFits, NoActive, Active, Terminal
    <2>6. ASSUME NEW t \in Claimants PROVE ReclaimIsSafe(t)'
        <3>1. ReclaimIsSafe(t) /\ (pc[t] \in {"reconcile", "save"} => target[t] \in Ops)
            BY ClaimantFacts
        <3> QED BY <2>1, <2>3, <3>1 DEF ReclaimIsSafe, Active, Terminal
    <2> QED BY <2>1, <2>4, <2>5, <2>6
            DEF IInv, ReviewFits, OneSpawner, BootIsAlone,
                AtMostOneActive, TerminalEventIsCommitted, OnlyReviewedIsApplied, Active, Terminal
<1> QED BY <1>1, <1>2 DEF Environment

-----------------------------------------------------------------------------
(* The theorems.                                                           *)

LEMMA InvariantInit == Init => IInv
<1> SUFFICES ASSUME Init PROVE IInv
    OBVIOUS
<1>1. TypeInv
    BY TypeInit
<1>2. /\ \A w \in Ops : pc[w] = "none" /\ at[w] = REVIEW /\ exec[w] = "idle"
      /\ \A r \in Requests : pc[r] = "idle"
      /\ pc[Main] = "boot"
    BY ThreadFacts DEF Init
<1>3. \A w \in Ops : row[w].state = "none" /\ shown[w] = "none"
    BY DEF Init, Fresh
<1>4. \A w \in Ops : WorkerFits(w) /\ ReviewFits(w)
    BY <1>2, <1>3 DEF WorkerFits, ReviewFits
<1>5. /\ \A r \in Requests : RequestFits(r)
      /\ \A t \in Claimants : ReclaimIsSafe(t)
      /\ OneSpawner /\ BootIsAlone
    BY <1>2 DEF RequestFits, ReclaimIsSafe, OneSpawner, BootIsAlone, Claimants
<1>6. AtMostOneActive /\ TerminalEventIsCommitted
    BY <1>3 DEF AtMostOneActive, TerminalEventIsCommitted, Active, ActiveStates, TerminalStates
<1>7. OnlyReviewedIsApplied
    BY DEF Init, OnlyReviewedIsApplied
<1> QED BY <1>1, <1>4, <1>5, <1>6, <1>7 DEF IInv

LEMMA StutterKeepsInvariant ==
    ASSUME IInv, TypeInv', UNCHANGED vars
    PROVE  IInv'
BY DEF vars, threadVars, worldVars, countVars, IInv, WorkerFits, ReviewFits, RequestFits,
       ReclaimIsSafe, OneSpawner, BootIsAlone, NoActive, AtMostOneActive,
       TerminalEventIsCommitted, OnlyReviewedIsApplied, Active, Terminal

LEMMA InvariantStep == IInv /\ [Next]_vars => IInv'
<1> SUFFICES ASSUME IInv, [Next]_vars PROVE IInv'
    OBVIOUS
<1>1. TypeInv'
    BY TypeStep DEF IInv
<1>2. CASE UNCHANGED vars
    BY <1>1, <1>2, StutterKeepsInvariant
<1>3. ASSUME NEW w \in Ops, WorkerStep(w) \/ TerminalStep(w) PROVE IInv'
    BY <1>1, <1>3, WorkerStepMoves, WorkerKeepsInvariant
<1>4. ASSUME NEW t \in Claimants, TerminalStep(t) PROVE IInv'
    BY <1>1, <1>4, TerminalStepKeepsInvariant
<1>5. ASSUME NEW r \in Requests, RequestStep(r) \/ NewRequest(r) PROVE IInv'
    BY <1>1, <1>5, RequestStepKeepsInvariant, NewRequestKeepsInvariant
<1>6. CASE BootStep
    BY <1>1, <1>6, BootKeepsInvariant
<1>7. CASE Crash
    BY <1>1, <1>7, RestartKeepsInvariant DEF Crash
<1>8. ASSUME NEW op \in Ops, Environment(op) PROVE IInv'
    BY <1>1, <1>8, EnvironmentKeepsInvariant
<1>9. \A t \in Threads : t \in Ops \/ t \in Claimants
    BY DEF Threads, Claimants
<1> QED BY <1>2, <1>3, <1>4, <1>5, <1>6, <1>7, <1>8, <1>9 DEF Next

LEMMA Invariance == Spec => []IInv
BY InvariantInit, InvariantStep, PTL DEF Spec

\* Whatever the number of requests, crashes and failing writes, the database
\* never holds two active operations.
THEOREM OneActiveOperation == Spec => []AtMostOneActive
<1>1. IInv => AtMostOneActive
    BY DEF IInv
<1> QED BY Invariance, <1>1, PTL

\* No thread executes an operation whose row is not active.
THEOREM WorkersOwnTheirRows == Spec => []WorkerOwnsItsRow
<1>1. IInv => WorkerOwnsItsRow
    BY DEF IInv, WorkerFits, WorkerOwnsItsRow, Executing, Active, ActiveStates
<1> QED BY Invariance, <1>1, PTL

\* No terminal event precedes the commit of a terminal record.
THEOREM TerminalEventsAreCommitted == Spec => []TerminalEventIsCommitted
<1>1. IInv => TerminalEventIsCommitted
    BY DEF IInv
<1> QED BY Invariance, <1>1, PTL

\* server.properties never holds a value REVIEW rejects.
THEOREM OnlyReviewedValuesAreApplied == Spec => []OnlyReviewedIsApplied
<1>1. IInv => OnlyReviewedIsApplied
    BY DEF IInv
<1> QED BY Invariance, <1>1, PTL

\* What any step may do to the rows.
RowMoves ==
    \/ \A v \in Ops : row'[v] = row[v]
    \/ \E op \in Ops :
          /\ \A v \in Ops : v # op => row'[v] = row[v]
          /\ \/ /\ NoActive /\ row[op].state = "none" /\ row'[op].state = "pending"
                /\ \E r \in Requests : pc[r] = "create" /\ target[r] = op
             \/ Active(op) /\ row'[op].state \in {row[op].state, "running"} \cup TerminalStates
             \/ /\ row[op].state \in RetryableStates
                /\ Terminal(row'[op])
                /\ \E r \in Requests : pc[r] = "recheck" /\ target[r] = op

LEMMA StepMovesRows ==
    ASSUME IInv, [Next]_vars
    PROVE  RowMoves
<1>0. TypeOK
    BY DEF IInv, TypeInv
<1>1. ASSUME NEW w \in Ops, WorkerStep(w) \/ TerminalStep(w) PROVE RowMoves
    <2>1. WorkerMoves(w)
        BY <1>1, WorkerStepMoves
    <2> QED BY <2>1 DEF WorkerMoves, RowMoves
<1>2. ASSUME NEW t \in Claimants, TerminalStep(t) PROVE RowMoves
    <2>1. CASE SaveTerminal(t)
        <3>1. ReclaimIsSafe(t) /\ pc[t] = "save" /\ target[t] \in Ops /\ OpOf(t) = target[t]
            BY <2>1, ClaimantFacts DEF SaveTerminal
        <3>2. /\ \A v \in Ops : v # target[t] => row'[v] = row[v]
              /\ row'[target[t]] = obj[t]
            BY <1>0, <2>1, <3>1 DEF SaveTerminal, Save, TypeOK
        <3> QED BY <3>1, <3>2 DEF ReclaimIsSafe, Terminal, RowMoves
    <2>2. CASE ~SaveTerminal(t)
        BY <1>2, <2>2 DEF TerminalStep, Reconcile, Publish, AuditTerminal, RowMoves
    <2> QED BY <2>1, <2>2
<1>3. ASSUME NEW r \in Requests, RequestStep(r) \/ NewRequest(r) PROVE RowMoves
    <2>1. CASE SaveCreated(r)
        <3>1. RequestFits(r) /\ pc[r] = "create" /\ target[r] \in Ops
            BY <2>1, RequestFacts DEF SaveCreated
        <3>2. /\ \A v \in Ops : v # target[r] => row'[v] = row[v]
              /\ row'[target[r]] = obj[r]
            BY <1>0, <2>1, <3>1 DEF SaveCreated, Save, TypeOK
        <3> QED BY <3>1, <3>2 DEF RequestFits, RowMoves
    <2>2. CASE Recheck(r)
        <3>1. /\ pc[r] = "recheck" /\ target[r] \in Ops
              /\ Terminal(row[target[r]]) /\ row[target[r]] \in Record
            BY <1>0, <2>2, RequestFacts DEF Recheck, RequestFits, TypeOK
        <3>2. PICK o \in Reobserved(target[r], row[target[r]], seen[r]) :
                 obj' = [obj EXCEPT ![r] = o] /\ Save(target[r], o)
            BY <2>2 DEF Recheck
        <3>3. /\ \A v \in Ops : v # target[r] => row'[v] = row[v]
              /\ row'[target[r]] = o
            BY <1>0, <3>1, <3>2 DEF Save, TypeOK
        <3>4. CASE row[target[r]].state \in RetryableStates
            BY <3>1, <3>2, <3>3, <3>4, ReobservedIsTerminal DEF RowMoves
        <3>5. CASE row[target[r]].state \notin RetryableStates
            <4>1. o = row[target[r]]
                BY <3>2, <3>5 DEF Reobserved
            <4> QED BY <3>3, <4>1 DEF RowMoves
        <3> QED BY <3>4, <3>5
    <2>3. CASE ~SaveCreated(r) /\ ~Recheck(r)
        <3>1. row' = row
            BY <1>3, <2>3
               DEF RequestStep, NewRequest, Spawn, RequestRaises, Respond, CreateOrReject,
                   RetryOperation, Accept, ReclaimAbandoned, ReclaimStalled, Observe
        <3> QED BY <3>1 DEF RowMoves
    <2> QED BY <2>1, <2>2, <2>3
<1>4. CASE BootStep \/ Crash \/ (\E op \in Ops : Environment(op)) \/ UNCHANGED vars
    <2>1. row' = row
        BY <1>4 DEF BootStep, BootReclaims, ReclaimStalled, BootServes, BootRaises, Crash, Restart,
                    Environment, ExecutorApplies, ExecutorRefuses, Tick, vars
    <2> QED BY <2>1 DEF RowMoves
<1>5. \A t \in Threads : t \in Ops \/ t \in Claimants
    BY DEF Threads, Claimants
<1> QED BY <1>1, <1>2, <1>3, <1>4, <1>5 DEF Next

\* Terminal records are sealed but for a re-observation.
THEOREM TerminalRecordsAreSealed == Spec => OnlyReobservationRevises
<1> DEFINE A == \A op \in Ops :
                   Terminal(row[op]) /\ row'[op] # row[op] =>
                      /\ row[op].state \in RetryableStates
                      /\ Terminal(row'[op])
                      /\ \E r \in Requests : pc[r] = "recheck" /\ target[r] = op
<1>1. IInv /\ [Next]_vars => A
    <2> SUFFICES ASSUME IInv, [Next]_vars, NEW op \in Ops,
                        Terminal(row[op]), row'[op] # row[op]
                 PROVE  /\ row[op].state \in RetryableStates
                        /\ Terminal(row'[op])
                        /\ \E r \in Requests : pc[r] = "recheck" /\ target[r] = op
        OBVIOUS
    <2>1. row[op].state # "none" /\ ~Active(op)
        BY DEF Terminal, TerminalStates, Active, ActiveStates
    <2> QED BY <2>1, StepMovesRows DEF RowMoves
<1>2. IInv /\ [Next]_vars => [A]_vars
    BY <1>1
<1> QED BY Invariance, <1>2, PTL DEF Spec, OnlyReobservationRevises

\* The rows of the control plane implement the contract of OperationContract.
THEOREM ControlPlaneImplementsContract == Spec => ImplementsContract
<1> DEFINE state == [op \in Ops |-> row[op].state]
<1>1. Init => Contract!Init
    BY DEF Init, Contract!Init, Fresh
<1>2. IInv /\ [Next]_vars => [Contract!Next]_state
    <2> SUFFICES ASSUME IInv, [Next]_vars PROVE Contract!Next \/ state' = state
        BY DEF Contract!Next
    <2>1. RowMoves
        BY StepMovesRows
    <2>2. CASE \A v \in Ops : row'[v] = row[v]
        BY <2>2
    <2>3. ASSUME NEW op \in Ops, \A v \in Ops : v # op => row'[v] = row[v]
          PROVE  state' = [state EXCEPT ![op] = row'[op].state]
        BY <2>3
    <2>4. ASSUME NEW op \in Ops, \A v \in Ops : v # op => row'[v] = row[v],
                 NoActive, row[op].state = "none", row'[op].state = "pending"
          PROVE  Contract!Accept(op)
        BY <2>3, <2>4 DEF Contract!Accept, Contract!Become, Contract!ActiveStates, NoActive,
                          Active, ActiveStates
    <2>5. ASSUME NEW op \in Ops, \A v \in Ops : v # op => row'[v] = row[v],
                 Active(op), row'[op].state \in {row[op].state, "running"} \cup TerminalStates
          PROVE  Contract!Next \/ state' = state
        <3>1. CASE row'[op].state = row[op].state
            BY <2>5, <3>1
        <3>2. CASE row'[op].state # row[op].state /\ row'[op].state = "running"
            BY <2>3, <2>5, <3>2 DEF Contract!Next, Contract!Start, Contract!Become, Active, ActiveStates
        <3>3. CASE row'[op].state \in TerminalStates
            BY <2>3, <2>5, <3>3 DEF Contract!Next, Contract!End, Contract!Become,
               Contract!ActiveStates, Contract!TerminalStates, Active, ActiveStates, TerminalStates
        <3> QED BY <2>5, <3>1, <3>2, <3>3
    <2>6. ASSUME NEW op \in Ops, \A v \in Ops : v # op => row'[v] = row[v],
                 row[op].state \in RetryableStates, Terminal(row'[op])
          PROVE  Contract!Revise(op)
        BY <2>3, <2>6 DEF Contract!Revise, Contract!Become, Contract!RevisableStates,
           Contract!TerminalStates, RetryableStates, TerminalStates, Terminal
    <2> HIDE DEF state
    <2> QED BY <2>1, <2>2, <2>4, <2>5, <2>6 DEF RowMoves, Contract!Next
<1> QED BY Invariance, <1>1, <1>2, PTL DEF Spec, ImplementsContract, Contract!Spec

-----------------------------------------------------------------------------
(* What a confirmed operation says of Bedrock.                             *)

\* The executor served op, and only a later operation can have changed Bedrock
\* since then.
Holds(op) ==
    /\ op \in Ops
    /\ exec[op] = "applied"
    /\ (\A later \in (op + 1)..NumOps : exec[later] # "applied") => effective = want[op]

Marked(o) == o.stages[CONFIRM] = "completed"

\* Only the newest operation can be active, and a new one is the newest.
OnlyNewestIsActive ==
    \A a, b \in Ops : a < b /\ row[b].state # "none" => ~Active(a)

CreatesTheNewest(r) ==
    /\ pc[r] = "create" =>
          /\ \A op \in Ops : op >= target[r] => row[op].state = "none"
          /\ ~Marked(obj[r])
    /\ pc[r] = "idle" => ~Marked(obj[r])

\* The executor serves in order: it acted on b after it was done with a.
ServedInOrder ==
    \A a, b \in Ops : a < b /\ exec[b] = "applied" => exec[a] # "requested"

\* What a worker knows of its request: not made, served, verified.
Unrequested(w) ==
    \/ pc[w] \in {"none", "spawned", "start"}
    \/ pc[w] \in {"begin", "work"} /\ at[w] <= RESTART
    \/ pc[w] = "complete" /\ at[w] < RESTART

Served(w) ==
    \/ pc[w] \in {"begin", "work"} /\ at[w] > RESTART
    \/ pc[w] = "complete" /\ at[w] >= RESTART

Verified(w) ==
    \/ pc[w] = "complete" /\ at[w] = VERIFY
    \/ pc[w] \in {"begin", "work"} /\ at[w] = CONFIRM

RequestFollows(w) ==
    /\ Unrequested(w) => exec[w] = "idle"
    /\ Served(w) => exec[w] = "applied"
    /\ Verified(w) => Holds(w)

MarksHold ==
    /\ \A op \in Ops : Marked(row[op]) => Holds(op)
    /\ \A t \in Threads : Marked(obj[t]) => Holds(OpOf(t))

ConfirmInv ==
    /\ OnlyNewestIsActive
    /\ \A r \in Requests : CreatesTheNewest(r)
    /\ ServedInOrder
    /\ \A w \in Ops : RequestFollows(w)
    /\ MarksHold

LEMMA StageNumbers ==
    /\ Stages = 1..7 /\ REVIEW = 1 /\ BACKUP_VERIFY = 2 /\ PREPARE = 3 /\ RESTART = 4
    /\ HEALTH_WAIT = 5 /\ VERIFY = 6 /\ CONFIRM = 7
BY DEF Stages, REVIEW, BACKUP_VERIFY, PREPARE, RESTART, HEALTH_WAIT, VERIFY, CONFIRM

\* No operation without a row has been requested.
LEMMA RequestedHasRow ==
    ASSUME IInv, NEW op \in Ops, exec[op] # "idle"
    PROVE  row[op].state # "none"
BY DEF IInv, WorkerFits, ReviewFits

\* What a step does to the executor and to the value an operation asks for.
LEMMA StepMovesExecutor ==
    ASSUME IInv, ConfirmInv, [Next]_vars
    PROVE  /\ \A op \in Ops : row[op].state # "none" => want'[op] = want[op]
           /\ \/ UNCHANGED <<exec, effective>>
              \/ \E op \in Ops : CallExecutor(op) /\ exec[op] = "idle"
              \/ \E op \in Ops : ExecutorApplies(op) \/ ExecutorRefuses(op)
<1>0. want \in [Ops -> Values \cup {Invalid}]
    BY DEF IInv, TypeInv, TypeOK
<1> DEFINE Wanted == \A op \in Ops : row[op].state # "none" => want'[op] = want[op]
           Moved == \/ UNCHANGED <<exec, effective>>
                    \/ \E op \in Ops : CallExecutor(op) /\ exec[op] = "idle"
                    \/ \E op \in Ops : ExecutorApplies(op) \/ ExecutorRefuses(op)
<1> USE DEF worldVars
<1>1. ASSUME NEW w \in Ops, WorkerStep(w) PROVE Wanted /\ Moved
    <2>1. CASE CallExecutor(w)
        <3>1. exec[w] = "idle"
            BY <2>1, StageNumbers DEF CallExecutor, Working, ConfirmInv, RequestFollows, Unrequested
        <3> QED BY <2>1, <3>1 DEF CallExecutor
    <2>2. CASE ~CallExecutor(w)
        BY <1>1, <2>2 DEF WorkerStep, Enter, StartOperation, Begin, Skip, Complete, ReviewRejects, ReviewAccepts,
           Prepared, PrepareRaises, ExecutorReturns, ExecutorRaises, HealthPoll, HealthTimeout,
           VerifyMatches, VerifyDiverges, VerifyFails, SaveConfirmed, WriteRaises, HandleTerminal,
           HandleError, HandlerRaises, Leave
    <2> QED BY <2>1, <2>2
<1>2. ASSUME NEW t \in Threads, TerminalStep(t) PROVE Wanted /\ Moved
    BY <1>2 DEF TerminalStep, Reconcile, SaveTerminal, Publish, AuditTerminal
<1>3. ASSUME NEW r \in Requests, RequestStep(r) \/ NewRequest(r) PROVE Wanted /\ Moved
    <2>1. ASSUME NEW v, Accept(r, v) PROVE Wanted /\ Moved
        <3>1. PICK op \in Ops : NextOp(op) /\ want' = [want EXCEPT ![op] = v]
            BY <2>1 DEF Accept
        <3>2. row[op].state = "none"
            BY <3>1, ThreadFacts DEF NextOp
        <3> QED BY <1>0, <2>1, <3>1, <3>2 DEF Accept
    <2>2. CASE CreateOrReject(r) \/ RetryOperation(r)
        BY <2>1, <2>2 DEF CreateOrReject, RetryOperation
    <2>3. CASE ~CreateOrReject(r) /\ ~RetryOperation(r)
        BY <1>3, <2>3 DEF RequestStep, NewRequest, SaveCreated, Spawn, Recheck, RequestRaises,
           Respond, ReclaimAbandoned, ReclaimStalled, Observe
    <2> QED BY <2>2, <2>3
<1>4. CASE BootStep \/ Crash \/ UNCHANGED vars
    BY <1>4 DEF BootStep, BootReclaims, ReclaimStalled, BootServes, BootRaises, Crash, Restart, vars
<1>5. ASSUME NEW op \in Ops, Environment(op) PROVE Wanted /\ Moved
    BY <1>5 DEF Environment, ExecutorApplies, ExecutorRefuses, Tick
<1> QED BY <1>1, <1>2, <1>3, <1>4, <1>5 DEF Next

\* What is served stays served.
LEMMA AppliedStays ==
    ASSUME IInv, ConfirmInv, [Next]_vars, NEW op \in Ops, exec[op] = "applied"
    PROVE  exec'[op] = "applied" /\ want'[op] = want[op]
<1>0. exec \in [Ops -> {"idle", "requested", "applied", "refused"}]
    BY DEF IInv, TypeInv, TypeOK
<1>1. want'[op] = want[op]
    BY RequestedHasRow, StepMovesExecutor
<1>2. exec'[op] = "applied"
    BY <1>0, StepMovesExecutor DEF CallExecutor, ExecutorApplies, ExecutorRefuses
<1> QED BY <1>1, <1>2

\* What a confirmed operation says stays true, whatever is served late.
LEMMA HoldsKept ==
    ASSUME IInv, ConfirmInv, [Next]_vars, NEW op \in Ops, Holds(op)
    PROVE  Holds(op)'
<1>0. /\ exec \in [Ops -> {"idle", "requested", "applied", "refused"}]
      /\ \A v \in (op + 1)..NumOps : v \in Ops
      /\ \A v \in Ops : v > op => v \in (op + 1)..NumOps
      /\ NumOps \in Nat /\ \A v \in Ops : v \in Nat
    BY NumOpsAssumption, ThreadFacts DEF IInv, TypeInv, TypeOK, Ops
<1>1. exec'[op] = "applied" /\ want'[op] = want[op]
    BY AppliedStays DEF Holds
<1>2. SUFFICES ASSUME \A later \in (op + 1)..NumOps : exec'[later] # "applied"
               PROVE  effective' = want'[op]
    BY <1>1 DEF Holds
<1>3. \A later \in (op + 1)..NumOps : exec[later] # "applied"
    BY <1>0, <1>2, AppliedStays
<1>4. effective = want[op]
    BY <1>3 DEF Holds
<1>5. ASSUME NEW v \in Ops, ExecutorApplies(v) PROVE FALSE
    <2>1. exec[v] = "requested" /\ exec'[v] = "applied"
        BY <1>0, <1>5 DEF ExecutorApplies
    <2>2. v # op
        BY <2>1 DEF Holds
    <2>3. ~(v > op)
        BY <1>0, <1>2, <2>1
    <2>4. ~(v < op)
        BY <2>1 DEF ConfirmInv, ServedInOrder, Holds
    <2> QED BY <1>0, <2>2, <2>3, <2>4
<1>6. effective' = effective
    BY <1>5, StepMovesExecutor DEF CallExecutor, ExecutorRefuses
<1> QED BY <1>1, <1>4, <1>6

\* The executor goes on in the order of the operations: only the newest can ask.
LEMMA ServedInOrderKept ==
    ASSUME IInv, ConfirmInv, [Next]_vars
    PROVE  ServedInOrder'
<1>0. exec \in [Ops -> {"idle", "requested", "applied", "refused"}] /\ \A v \in Ops : v \in Nat
    BY ThreadFacts DEF IInv, TypeInv, TypeOK
<1>1. ServedInOrder
    BY DEF ConfirmInv
<1>2. CASE UNCHANGED <<exec, effective>>
    BY <1>1, <1>2 DEF ServedInOrder
<1>3. ASSUME NEW op \in Ops, CallExecutor(op) PROVE ServedInOrder'
    <2>1. Active(op)
        BY <1>3 DEF CallExecutor, Working, IInv, WorkerFits, Active, ActiveStates
    <2>2. \A b \in Ops : op < b => exec[b] = "idle"
        BY <2>1, RequestedHasRow DEF ConfirmInv, OnlyNewestIsActive
    <2>3. exec' = [exec EXCEPT ![op] = "requested"]
        BY <1>3 DEF CallExecutor
    <2> QED BY <1>0, <1>1, <2>2, <2>3 DEF ServedInOrder
<1>4. ASSUME NEW op \in Ops, ExecutorApplies(op) PROVE ServedInOrder'
    <2>1. \A a \in Ops : a < op => exec[a] # "requested"
        BY <1>0, <1>4, NumOpsAssumption DEF ExecutorApplies, Ops
    <2>2. exec' = [exec EXCEPT ![op] = "applied"]
        BY <1>4 DEF ExecutorApplies
    <2> QED BY <1>0, <1>1, <2>1, <2>2 DEF ServedInOrder
<1>5. ASSUME NEW op \in Ops, ExecutorRefuses(op) PROVE ServedInOrder'
    <2>1. exec' = [exec EXCEPT ![op] = "refused"]
        BY <1>5 DEF ExecutorRefuses
    <2> QED BY <1>0, <1>1, <2>1 DEF ServedInOrder
<1> QED BY <1>2, <1>3, <1>4, <1>5, StepMovesExecutor

\* An older operation is never active again.
LEMMA OnlyNewestIsActiveKept ==
    ASSUME IInv, ConfirmInv, [Next]_vars
    PROVE  OnlyNewestIsActive'
<1> SUFFICES ASSUME NEW a \in Ops, NEW b \in Ops, a < b, row'[b].state # "none", Active(a)'
             PROVE  FALSE
    BY DEF OnlyNewestIsActive
<1>0. a \in Nat /\ b \in Nat /\ a # b
    BY ThreadFacts
<1>1. row[b].state # "none" => ~Active(a)
    BY DEF ConfirmInv, OnlyNewestIsActive
<1>2. CASE \A v \in Ops : row'[v] = row[v]
    BY <1>1, <1>2 DEF Active
<1>3. ASSUME NEW op \in Ops, \A v \in Ops : v # op => row'[v] = row[v],
             NoActive, NEW r \in Requests, pc[r] = "create", target[r] = op
      PROVE  FALSE
    <2>1. \A v \in Ops : v >= op => row[v].state = "none"
        BY <1>3 DEF ConfirmInv, CreatesTheNewest
    <2>2. a = op
        BY <1>3 DEF NoActive, Active
    <2>3. row'[b] = row[b]
        BY <1>0, <1>3, <2>2
    <2> QED BY <1>0, <2>1, <2>2, <2>3
<1>4. ASSUME NEW op \in Ops, \A v \in Ops : v # op => row'[v] = row[v],
             Active(op) \/ (row[op].state \in RetryableStates /\ Terminal(row'[op]))
      PROVE  FALSE
    <2>1. row[op].state # "none"
        BY <1>4 DEF Active, ActiveStates, RetryableStates
    <2>2. row[b].state # "none"
        BY <1>4, <2>1
    <2>3. ~Active(a)
        BY <1>1, <2>2
    <2>4. a = op
        BY <1>4, <2>3 DEF Active
    <2> QED BY <1>4, <2>3, <2>4 DEF Active, ActiveStates, Terminal, TerminalStates
<1> QED BY <1>2, <1>3, <1>4, StepMovesRows DEF RowMoves

\* The transitions complete CONFIRM only by confirming.
LEMMA MarkFacts ==
    ASSUME NEW o \in Record, NEW s \in Stages
    PROVE  /\ Marked(Start(o)) => Marked(o)
           /\ Marked(BeginStage(o, s)) => Marked(o)
           /\ s # CONFIRM /\ Marked(CompleteStage(o, s)) => Marked(o)
           /\ Marked(SkipStage(o, s)) => Marked(o)
           /\ Marked(FailStage(o, s)) => Marked(o)
           /\ Marked(Diverge(o)) => Marked(o)
BY StageNumbers DEF Record, Marked, Start, BeginStage, CompleteStage, SkipStage, FailStage, Diverge

LEMMA FreshUnmarked == ~Marked(Fresh("none")) /\ ~Marked(Fresh("pending"))
BY StageNumbers DEF Fresh, Marked

LEMMA WrittenMarked ==
    ASSUME IInv, ConfirmInv, NEW w \in Ops, Marked(Written(w))
    PROVE  Holds(w)
<1>1. /\ obj[w] \in Record /\ at[w] \in Stages /\ (pc[w] = "complete" => at[w] # CONFIRM)
      /\ w \in Threads
    BY ThreadFacts DEF IInv, TypeInv, TypeOK, StagesFit
<1>2. Marked(obj[w]) \/ (pc[w] = "work" /\ at[w] = CONFIRM)
    BY <1>1, MarkFacts DEF Written
<1>3. CASE Marked(obj[w])
    BY <1>1, <1>3 DEF ConfirmInv, MarksHold, OpOf
<1>4. CASE pc[w] = "work" /\ at[w] = CONFIRM
    BY <1>4 DEF ConfirmInv, RequestFollows, Verified
<1> QED BY <1>2, <1>3, <1>4

\* What a worker completes CONFIRM with holds.
LEMMA WorkerMarksHold ==
    ASSUME IInv, ConfirmInv, NEW w \in Ops, WorkerStep(w) \/ TerminalStep(w)
    PROVE  /\ Marked(row'[w]) => Holds(w)
           /\ Marked(obj'[w]) => Holds(w)
<1> DEFINE Goal == (Marked(row'[w]) => Holds(w)) /\ (Marked(obj'[w]) => Holds(w))
<1>0. /\ TypeOK /\ w \in Threads /\ obj[w] \in Record /\ row[w] \in Record /\ at[w] \in Stages
      /\ OpOf(w) = w
      /\ Marked(row[w]) => Holds(w)
      /\ Marked(obj[w]) => Holds(w)
      /\ obj \in [Threads -> Record] /\ row \in [Ops -> Record]
    BY ThreadFacts DEF IInv, TypeInv, TypeOK, ConfirmInv, MarksHold, OpOf
<1>1. ASSUME row' = row, obj' = obj PROVE Goal
    BY <1>0, <1>1
<1>2. ASSUME NEW next, SaveOperation(w, next) PROVE Goal
    <2>1. row'[w] = Written(w) /\ obj'[w] = Written(w)
        BY <1>0, <1>2 DEF SaveOperation, Save
    <2> QED BY <2>1, WrittenMarked
<1>3. ASSUME NEW next, WriteStage(w, next) PROVE Goal
    <2>1. /\ obj'[w] = Written(w)
          /\ row'[w] = [row[w] EXCEPT !.state = Written(w).state,
                                      !.stages[at[w]] = Written(w).stages[at[w]],
                                      !.recon = Written(w).recon]
        BY <1>0, <1>3 DEF WriteStage, UpdateStage, Save
    <2>2. Marked(row'[w]) => Marked(row[w]) \/ Marked(Written(w))
        BY <1>0, <2>1, StageNumbers DEF Marked, Record
    <2> QED BY <1>0, <2>1, <2>2, WrittenMarked
<1>4. ASSUME NEW s \in Stages, Fail(w, obj[w], s), row' = row PROVE Goal
    <2>1. obj'[w] = FailStage(obj[w], s)
        BY <1>0, <1>4 DEF Fail
    <2> QED BY <1>0, <1>4, <2>1, MarkFacts
<1>5. CASE Enter(w)
    BY <1>1, <1>5 DEF Enter
<1>6. CASE StartOperation(w) \/ ReviewAccepts(w) \/ SaveConfirmed(w)
    BY <1>2, <1>6 DEF StartOperation, ReviewAccepts, SaveConfirmed
<1>7. CASE Begin(w) \/ Skip(w) \/ Complete(w) \/ HealthPoll(w)
    BY <1>3, <1>7 DEF Begin, Skip, Complete, HealthPoll
<1>8. CASE ReviewRejects(w) \/ PrepareRaises(w) \/ ExecutorRaises(w) \/ HealthTimeout(w) \/ VerifyFails(w)
    BY <1>4, <1>8, StageNumbers DEF ReviewRejects, PrepareRaises, ExecutorRaises, HealthTimeout, VerifyFails
<1>9. CASE Prepared(w) \/ CallExecutor(w) \/ ExecutorReturns(w) \/ VerifyMatches(w) \/ HandleTerminal(w)
    BY <1>1, <1>9 DEF Prepared, CallExecutor, ExecutorReturns, VerifyMatches, HandleTerminal
<1>10. CASE VerifyDiverges(w)
    <2>1. row' = row /\ obj'[w] = Diverge(obj[w])
        BY <1>0, <1>10 DEF VerifyDiverges
    <2> QED BY <1>0, <2>1, MarkFacts, StageNumbers
<1>11. CASE WriteRaises(w)
    <2>1. row' = row /\ obj'[w] = Written(w)
        BY <1>0, <1>11 DEF WriteRaises
    <2> QED BY <1>0, <2>1, WrittenMarked
<1>12. CASE HandleError(w) \/ HandlerRaises(w)
    <2> DEFINE o == FailStage(obj[w], ChargedStage(obj[w]))
    <2>1. Marked(o) => Marked(obj[w])
        BY <1>0, ChargedStageIsStage, MarkFacts
    <2>2. obj' = [obj EXCEPT ![w] = o] /\ (row'[w] = row[w] \/ row'[w] = o)
        BY <1>0, <1>12 DEF HandleError, HandlerRaises, Save
    <2> HIDE DEF o
    <2> QED BY <1>0, <2>1, <2>2
<1>13. CASE Leave(w)
    <2>1. row' = row /\ obj'[w] = Fresh("none")
        BY <1>0, <1>13 DEF Leave
    <2> QED BY <1>0, <2>1, FreshUnmarked
<1>14. CASE Reconcile(w)
    <2>1. row' = row /\ obj'[w].stages = obj[w].stages
        BY <1>0, <1>14 DEF Reconcile, Record
    <2> QED BY <1>0, <2>1 DEF Marked
<1>15. CASE SaveTerminal(w)
    <2>1. row'[w] = obj[w] /\ obj' = obj
        BY <1>0, <1>15 DEF SaveTerminal, Save
    <2> QED BY <1>0, <2>1
<1>16. CASE Publish(w) \/ AuditTerminal(w)
    BY <1>1, <1>16 DEF Publish, AuditTerminal
<1> QED
    BY <1>5, <1>6, <1>7, <1>8, <1>9, <1>10, <1>11, <1>12, <1>13, <1>14, <1>15, <1>16
       DEF WorkerStep, TerminalStep

\* ... and the phases of a worker follow its request.
LEMMA WorkerFollows ==
    ASSUME IInv, ConfirmInv, NEW w \in Ops, WorkerStep(w) \/ TerminalStep(w)
    PROVE  /\ Unrequested(w)' => Unrequested(w) /\ exec'[w] = exec[w]
           /\ Served(w)' => exec[w] = "applied"
           /\ Verified(w)' => Holds(w)
<1> USE StageNumbers DEF Unrequested, Served, Verified, worldVars, Goto, Working
<1>0. /\ pc \in [Threads -> Labels] /\ at \in [Ops -> 1..7] /\ w \in Threads
      /\ Served(w) => exec[w] = "applied"
      /\ Verified(w) => Holds(w)
      /\ pc[w] = "await" => at[w] = RESTART
      /\ pc[w] = "complete" => at[w] # CONFIRM
      /\ pc[w] = "start" => at[w] = REVIEW
    BY ThreadFacts DEF IInv, TypeInv, TypeOK, StagesFit, ReviewFits, ConfirmInv, RequestFollows
<1>1. ASSUME NEW next \in Labels \ {"none", "spawned", "start", "begin", "work", "complete"},
             pc' = [pc EXCEPT ![w] = next]
      PROVE  ~Unrequested(w)' /\ ~Served(w)' /\ ~Verified(w)'
    BY <1>0, <1>1
<1>2. CASE Enter(w)
    BY <1>0, <1>2 DEF Enter
<1>3. CASE StartOperation(w)
    BY <1>0, <1>3 DEF StartOperation, SaveOperation
<1>4. CASE Begin(w)
    BY <1>0, <1>4 DEF Begin, WriteStage
<1>5. CASE Skip(w)
    BY <1>0, <1>5 DEF Skip, WriteStage
<1>6. CASE Complete(w)
    <2>1. at'[w] = at[w] + 1 /\ pc[w] = "complete" /\ pc'[w] = "begin" /\ exec' = exec
        BY <1>0, <1>6 DEF Complete, WriteStage
    <2> QED BY <1>0, <2>1
<1>7. CASE ReviewAccepts(w)
    BY <1>0, <1>7 DEF ReviewAccepts, SaveOperation
<1>8. CASE Prepared(w)
    BY <1>0, <1>8 DEF Prepared
<1>9. CASE ExecutorReturns(w)
    BY <1>0, <1>9 DEF ExecutorReturns
<1>10. CASE HealthPoll(w)
    BY <1>0, <1>10 DEF HealthPoll, WriteStage
<1>11. CASE VerifyMatches(w)
    BY <1>0, <1>11 DEF VerifyMatches, Matches, Holds
<1>12. CASE \E next \in Labels \ {"none", "spawned", "start", "begin", "work", "complete"} :
               pc' = [pc EXCEPT ![w] = next]
    BY <1>1, <1>12
<1>13. CASE ReviewRejects(w) \/ PrepareRaises(w) \/ ExecutorRaises(w) \/ HealthTimeout(w) \/ VerifyFails(w)
    <2>1. \E next \in {"save", "reconcile"} : pc' = [pc EXCEPT ![w] = next]
        BY <1>13 DEF ReviewRejects, PrepareRaises, ExecutorRaises, HealthTimeout, VerifyFails, Fail
    <2> QED BY <1>12, <2>1 DEF Labels
<1>14. CASE CallExecutor(w) \/ VerifyDiverges(w) \/ SaveConfirmed(w) \/ WriteRaises(w) \/ HandleTerminal(w)
            \/ HandleError(w) \/ HandlerRaises(w) \/ Leave(w)
    <2>1. \E next \in {"await", "save", "publish", "except", "finally", "report", "done"} :
             pc' = [pc EXCEPT ![w] = next]
        BY <1>14 DEF CallExecutor, VerifyDiverges, SaveConfirmed, SaveOperation, WriteRaises, HandleTerminal,
                     HandleError, HandlerRaises, Leave
    <2> QED BY <1>12, <2>1 DEF Labels
<1>15. CASE TerminalStep(w)
    <2>1. \E next \in {"save", "publish", "audit", "finally"} : pc' = [pc EXCEPT ![w] = next]
        BY <1>15 DEF TerminalStep, Reconcile, SaveTerminal, Publish, AuditTerminal
    <2> QED BY <1>12, <2>1 DEF Labels
<1> QED
    BY <1>2, <1>3, <1>4, <1>5, <1>6, <1>7, <1>8, <1>9, <1>10, <1>11, <1>13, <1>14, <1>15
       DEF WorkerStep

\* A claimant ends a record that was never confirmed anew.
LEMMA ClaimantMarksHold ==
    ASSUME IInv, ConfirmInv, NEW t \in Claimants, TerminalStep(t)
    PROVE  /\ \A op \in Ops : Marked(row'[op]) => Holds(op)
           /\ \A u \in Threads : Marked(obj'[u]) => Holds(OpOf(u))
           /\ target' = target
           /\ \A r \in Requests : CreatesTheNewest(r)'
<1>0. /\ TypeOK /\ t \in Threads /\ t \notin Ops /\ OpOf(t) = target[t]
      /\ \A op \in Ops : Marked(row[op]) => Holds(op)
      /\ \A u \in Threads : Marked(obj[u]) => Holds(OpOf(u))
      /\ \A r \in Requests : CreatesTheNewest(r)
      /\ Requests \subseteq Threads
      /\ pc \in [Threads -> Labels] /\ obj \in [Threads -> Record]
    BY ClaimantFacts, ThreadFacts DEF ConfirmInv, MarksHold, TypeOK
<1>1. /\ \A u \in Threads : u # t => pc'[u] = pc[u] /\ obj'[u] = obj[u]
      /\ pc'[t] \notin {"create", "idle"}
      /\ Marked(obj'[t]) => Marked(obj[t])
      /\ target' = target
    <2>1. CASE Reconcile(t)
        <3>1. obj'[t].stages = obj[t].stages /\ \A u \in Threads : u # t => obj'[u] = obj[u]
            BY <1>0, <2>1 DEF Reconcile, Record
        <3> QED BY <1>0, <2>1, <3>1 DEF Reconcile, Goto, Marked
    <2>2. CASE SaveTerminal(t) \/ Publish(t) \/ AuditTerminal(t)
        BY <1>0, <2>2 DEF SaveTerminal, Publish, AuditTerminal, Goto
    <2> QED BY <2>1, <2>2 DEF TerminalStep
<1>2. /\ \A op \in Ops : Marked(row'[op]) => Holds(op)
      /\ \A op \in Ops : row[op].state = "none" => row'[op].state = "none"
    <2>1. CASE SaveTerminal(t)
        <3>1. /\ target[t] \in Ops /\ Active(target[t])
              /\ row' = [row EXCEPT ![target[t]] = obj[t]]
            BY <1>0, <2>1, ClaimantFacts DEF SaveTerminal, Save, ReclaimIsSafe
        <3> QED BY <1>0, <3>1 DEF Active, ActiveStates, TypeOK
    <2>2. CASE ~SaveTerminal(t)
        BY <1>0, <2>2 DEF TerminalStep, Reconcile, Publish, AuditTerminal
    <2> QED BY <2>1, <2>2
<1>3. \A r \in Requests : CreatesTheNewest(r)'
    BY <1>0, <1>1, <1>2 DEF CreatesTheNewest
<1> QED BY <1>0, <1>1, <1>2, <1>3

\* A row a worker writes is not a new one.
LEMMA WorkerCreatesNothing ==
    ASSUME IInv, ConfirmInv, NEW w \in Ops, WorkerMoves(w), NEW r \in Requests
    PROVE  CreatesTheNewest(r)'
<1>1. /\ r # w /\ r \in Threads /\ target' = target /\ pc'[r] = pc[r] /\ obj'[r] = obj[r]
      /\ \A v \in Ops : row[v].state = "none" => row'[v] = row[v]
    BY ThreadFacts DEF WorkerMoves, Active, ActiveStates
<1> QED BY <1>1 DEF ConfirmInv, CreatesTheNewest

LEMMA ReclaimMarksHold ==
    ASSUME IInv, ConfirmInv, NEW t \in Claimants, NEW op \in Ops, ReclaimStalled(t, op)
    PROVE  /\ row' = row /\ target'[t] = op
           /\ Marked(obj'[t]) => Holds(op)
           /\ pc'[t] \in {"save", "reconcile"}
           /\ \A u \in Threads : u # t => pc'[u] = pc[u] /\ obj'[u] = obj[u]
           /\ \A u \in Claimants : u # t => target'[u] = target[u]
<1>0. /\ TypeOK /\ t \in Threads /\ obj \in [Threads -> Record] /\ row[op] \in Record
      /\ pc \in [Threads -> Labels]
      /\ target \in [Claimants -> 0..NumOps]
    BY ClaimantFacts DEF TypeOK, Claimants
<1>1. obj' = [obj EXCEPT ![t] = FailStage(row[op], ChargedStage(row[op]))]
    BY DEF ReclaimStalled, Fail
<1>2. Marked(FailStage(row[op], ChargedStage(row[op]))) => Marked(row[op])
    BY <1>0, ChargedStageIsStage, MarkFacts
<1> QED BY <1>0, <1>1, <1>2 DEF ReclaimStalled, Fail, Goto, ConfirmInv, MarksHold

MarksAreKept ==
    /\ \A op \in Ops : Marked(row'[op]) => Holds(op)
    /\ \A t \in Threads : Marked(obj'[t]) =>
          \E op \in Ops : Holds(op) /\ op = (IF t \in Ops THEN t ELSE target'[t])
    /\ \A r \in Requests : CreatesTheNewest(r)'

\* The requests.
LEMMA RequestMarksHold ==
    ASSUME IInv, ConfirmInv, NEW r \in Requests, RequestStep(r) \/ NewRequest(r)
    PROVE  MarksAreKept
<1>0. /\ TypeOK /\ r \in Threads /\ r \in Claimants /\ r \notin Ops /\ r # NoThread
      /\ RequestFits(r)
      /\ pc[r] \in {"create", "spawn", "recheck"} => target[r] \in Ops
      /\ Ops \subseteq Threads /\ Requests \subseteq Threads /\ Requests \subseteq Claimants
      /\ obj \in [Threads -> Record] /\ row \in [Ops -> Record] /\ pc \in [Threads -> Labels]
      /\ target \in [Claimants -> 0..NumOps]
      /\ \A t \in Threads : t \in Ops \/ t \in Claimants
      /\ \A q \in Requests : q \notin Ops /\ (pc[q] = "create" => lock = q)
    BY RequestFacts, ThreadFacts DEF Claimants, Threads, IInv, RequestFits, TypeOK
<1>a. /\ \A op \in Ops : Marked(row[op]) => Holds(op)
      /\ \A t \in Threads : Marked(obj[t]) => OpOf(t) \in Ops /\ Holds(OpOf(t))
      /\ \A q \in Requests : CreatesTheNewest(q)
    BY DEF ConfirmInv, MarksHold, Holds
<1> DEFINE Others == /\ \A t \in Threads : t # r => pc'[t] = pc[t] /\ obj'[t] = obj[t]
                     /\ \A t \in Claimants : t # r => target'[t] = target[t]
\* r changes, and the rows it writes are not new
<1>1. ASSUME Others,
             \A op \in Ops : row'[op].state # "none" => row[op].state # "none" ,
             \A op \in Ops : Marked(row'[op]) => Holds(op),
             Marked(obj'[r]) => target'[r] \in Ops /\ Holds(target'[r]),
             CreatesTheNewest(r)'
      PROVE  MarksAreKept
    <2>1. \A q \in Requests : CreatesTheNewest(q)'
        BY <1>0, <1>1, <1>a DEF CreatesTheNewest
    <2>2. \A t \in Threads : Marked(obj'[t]) =>
              \E op \in Ops : Holds(op) /\ op = (IF t \in Ops THEN t ELSE target'[t])
        BY <1>0, <1>1, <1>a DEF OpOf
    <2> QED BY <1>1, <2>1, <2>2 DEF MarksAreKept
<1>2. ASSUME NEW v, Accept(r, v) PROVE MarksAreKept
    <2>1. PICK op \in Ops : NextOp(op) /\ target' = [target EXCEPT ![r] = op]
        BY <1>2 DEF Accept
    <2>2. Others /\ row' = row /\ obj'[r] = Fresh("pending") /\ pc'[r] = "create" /\ target'[r] = op
        BY <1>0, <1>2, <2>1 DEF Accept, Goto
    <2>3. CreatesTheNewest(r)'
        BY <2>1, <2>2, FreshUnmarked DEF CreatesTheNewest, NextOp
    <2> QED BY <1>1, <1>a, <2>2, <2>3, FreshUnmarked
<1>3. CASE CreateOrReject(r) \/ RetryOperation(r)
    BY <1>2, <1>3 DEF CreateOrReject, RetryOperation
<1>4. CASE SaveCreated(r)
    <2>1. /\ pc[r] = "create" /\ lock = r /\ ~Marked(obj[r])
          /\ \A t \in Threads : t # r => pc'[t] = pc[t]
          /\ pc'[r] = "spawn"
          /\ obj' = obj /\ target' = target
          /\ row' = [row EXCEPT ![target[r]] = obj[r]]
        BY <1>0, <1>a, <1>4 DEF SaveCreated, Save, Goto, CreatesTheNewest
    <2>2. \A q \in Requests : CreatesTheNewest(q)'
        BY <1>0, <1>a, <2>1 DEF CreatesTheNewest
    <2>3. \A op \in Ops : Marked(row'[op]) => Holds(op)
        BY <1>0, <1>a, <2>1
    <2>4. \A t \in Threads : Marked(obj'[t]) =>
              \E op \in Ops : Holds(op) /\ op = (IF t \in Ops THEN t ELSE target'[t])
        BY <1>0, <1>a, <2>1 DEF OpOf
    <2> QED BY <2>2, <2>3, <2>4 DEF MarksAreKept
<1>5. CASE Spawn(r)
    <2>1. /\ pc[r] = "spawn" /\ row' = row /\ target[r] \in Ops
          /\ \A t \in Threads : t # r /\ t # target[r] => pc'[t] = pc[t] /\ obj'[t] = obj[t]
          /\ obj'[target[r]] = obj[r] /\ obj'[r] = Fresh("none")
          /\ \A t \in Claimants : t # r => target'[t] = target[t]
          /\ pc'[r] = "idle"
        BY <1>0, <1>5 DEF Spawn
    <2>2. \A q \in Requests : CreatesTheNewest(q)'
        BY <1>0, <1>a, <2>1, FreshUnmarked DEF CreatesTheNewest
    <2>3. Marked(obj[r]) => Holds(target[r])
        BY <1>0, <1>a DEF OpOf
    <2>4. \A t \in Threads : Marked(obj'[t]) =>
              \E op \in Ops : Holds(op) /\ op = (IF t \in Ops THEN t ELSE target'[t])
        BY <1>0, <1>a, <2>1, <2>3, FreshUnmarked DEF OpOf
    <2> QED BY <1>a, <2>1, <2>2, <2>4 DEF MarksAreKept
<1>6. CASE Recheck(r)
    <2>1. PICK o \in Reobserved(target[r], row[target[r]], seen[r]) :
             obj' = [obj EXCEPT ![r] = o] /\ Save(target[r], o)
        BY <1>6 DEF Recheck
    <2>2. /\ target[r] \in Ops /\ row[target[r]] \in Record /\ row[target[r]].state # "none"
          /\ pc[r] = "recheck"
        BY <1>0, <1>6 DEF Recheck, RequestFits, Terminal, TerminalStates
    <2>3. o.stages = row[target[r]].stages
        BY <2>1, <2>2 DEF Reobserved, Record
    <2>4. row' = [row EXCEPT ![target[r]] = o] /\ target' = target /\ pc' = [pc EXCEPT ![r] = "report"]
        BY <1>6, <2>1 DEF Recheck, Save, Goto
    <2>5. Marked(o) => Holds(target[r])
        BY <1>a, <2>2, <2>3 DEF Marked
    <2>6. Others /\ obj'[r] = o /\ CreatesTheNewest(r)'
        BY <1>0, <2>1, <2>4 DEF CreatesTheNewest
    <2>7. \A op \in Ops : Marked(row'[op]) => Holds(op)
        BY <1>0, <1>a, <2>4, <2>5
    <2>8. \A op \in Ops : row'[op].state # "none" => row[op].state # "none"
        BY <1>0, <2>2, <2>4
    <2> QED BY <1>1, <2>2, <2>4, <2>5, <2>6, <2>7, <2>8
<1>7. CASE RequestRaises(r) \/ Respond(r)
    <2>1. Finish(r) /\ row' = row
        BY <1>7 DEF RequestRaises, Respond
    <2>2. Others /\ obj'[r] = Fresh("none") /\ pc'[r] = "idle"
        BY <1>0, <2>1 DEF Finish, Goto
    <2>3. CreatesTheNewest(r)'
        BY <2>2, FreshUnmarked DEF CreatesTheNewest
    <2> QED BY <1>1, <1>a, <2>1, <2>2, <2>3, FreshUnmarked
<1>8. CASE ReclaimAbandoned(r)
    <2>1. PICK op \in Ops : ReclaimStalled(r, op)
        BY <1>8 DEF ReclaimAbandoned
    <2>2. Others /\ row' = row /\ CreatesTheNewest(r)' /\ (Marked(obj'[r]) => target'[r] \in Ops /\ Holds(target'[r]))
        BY <1>0, <2>1, ReclaimMarksHold DEF CreatesTheNewest
    <2> QED BY <1>1, <1>a, <2>2
<1>9. CASE Observe(r)
    <2>1. Others /\ row' = row /\ obj' = obj /\ pc'[r] = "recheck" /\ pc[r] = "idle"
        BY <1>0, <1>9 DEF Observe, Goto, Idle
    <2>2. CreatesTheNewest(r)' /\ ~Marked(obj'[r])
        BY <1>a, <2>1 DEF CreatesTheNewest
    <2> QED BY <1>1, <1>a, <2>1, <2>2
<1> QED BY <1>3, <1>4, <1>5, <1>6, <1>7, <1>8, <1>9 DEF RequestStep, NewRequest

\* The process: boot and crash.
LEMMA ProcessMarksHold ==
    ASSUME IInv, ConfirmInv, BootStep \/ Crash
    PROVE  MarksAreKept
<1>0. /\ TypeOK /\ Main \in Threads /\ Main \in Claimants /\ Main \notin Ops /\ Main \notin Requests
      /\ Requests \subseteq Threads /\ Requests \subseteq Claimants
      /\ obj \in [Threads -> Record] /\ row \in [Ops -> Record] /\ pc \in [Threads -> Labels]
      /\ target \in [Claimants -> 0..NumOps]
      /\ \A t \in Threads : t \in Ops \/ t \in Claimants
    BY ThreadFacts DEF Claimants, Threads, IInv, TypeInv, TypeOK
<1>a. /\ \A op \in Ops : Marked(row[op]) => Holds(op)
      /\ \A t \in Threads : Marked(obj[t]) => OpOf(t) \in Ops /\ Holds(OpOf(t))
      /\ \A q \in Requests : CreatesTheNewest(q)
    BY DEF ConfirmInv, MarksHold, Holds
<1>1. ASSUME \A t \in Threads : t # Main => pc'[t] = pc[t] /\ obj'[t] = obj[t],
             \A t \in Claimants : t # Main => target'[t] = target[t],
             row' = row,
             Marked(obj'[Main]) => target'[Main] \in Ops /\ Holds(target'[Main])
      PROVE  MarksAreKept
    <2>1. \A q \in Requests : CreatesTheNewest(q)'
        BY <1>0, <1>1, <1>a DEF CreatesTheNewest
    <2>2. \A t \in Threads : Marked(obj'[t]) =>
              \E op \in Ops : Holds(op) /\ op = (IF t \in Ops THEN t ELSE target'[t])
        BY <1>0, <1>1, <1>a DEF OpOf
    <2> QED BY <1>1, <1>a, <2>1, <2>2 DEF MarksAreKept
<1>2. CASE BootReclaims
    <2>1. PICK op \in Ops : ReclaimStalled(Main, op)
        BY <1>2 DEF BootReclaims
    <2> QED BY <1>0, <1>1, <2>1, ReclaimMarksHold
<1>3. CASE BootServes
    <2>1. /\ obj' = [obj EXCEPT ![Main] = Fresh("none")] /\ row' = row
          /\ target' = [target EXCEPT ![Main] = 0] /\ pc' = [pc EXCEPT ![Main] = "serving"]
        BY <1>3 DEF BootServes, Goto
    <2> QED BY <1>0, <1>1, <2>1, FreshUnmarked
<1>4. CASE Restart
    <2>1. row' = row /\ \A t \in Threads : obj'[t] = Fresh("none")
        BY <1>4 DEF Restart
    <2>2. \A q \in Requests : pc'[q] = "idle"
        BY <1>0, <1>4 DEF Restart
    <2> QED BY <1>0, <1>a, <2>1, <2>2, FreshUnmarked DEF MarksAreKept, CreatesTheNewest
<1> QED BY <1>2, <1>3, <1>4 DEF BootStep, BootRaises, Crash

LEMMA StepMarksHold ==
    ASSUME IInv, ConfirmInv, [Next]_vars
    PROVE  MarksAreKept
<1>0. /\ \A op \in Ops : Marked(row[op]) => Holds(op)
      /\ \A t \in Threads : Marked(obj[t]) => OpOf(t) \in Ops /\ Holds(OpOf(t))
      /\ \A q \in Requests : CreatesTheNewest(q)
    BY DEF ConfirmInv, MarksHold, Holds
<1>1. ASSUME NEW w \in Ops, WorkerStep(w) \/ TerminalStep(w) PROVE MarksAreKept
    <2>1. WorkerMoves(w)
        BY <1>1, WorkerStepMoves
    <2>2. \A r \in Requests : CreatesTheNewest(r)'
        BY <2>1, WorkerCreatesNothing
    <2>3. \A op \in Ops : Marked(row'[op]) => Holds(op)
        BY <1>0, <1>1, <2>1, WorkerMarksHold DEF WorkerMoves
    <2>4. \A t \in Threads : Marked(obj'[t]) =>
              \E op \in Ops : Holds(op) /\ op = (IF t \in Ops THEN t ELSE target'[t])
        BY <1>0, <1>1, <2>1, WorkerMarksHold DEF WorkerMoves, OpOf
    <2> QED BY <2>2, <2>3, <2>4 DEF MarksAreKept
<1>2. ASSUME NEW t \in Claimants, TerminalStep(t) PROVE MarksAreKept
    <2>1. \A u \in Threads : Marked(obj'[u]) => OpOf(u) \in Ops /\ Holds(OpOf(u))
        BY <1>2, ClaimantMarksHold DEF Holds
    <2> QED BY <1>2, <2>1, ClaimantMarksHold DEF MarksAreKept, OpOf
<1>3. ASSUME NEW op \in Ops, Environment(op) PROVE MarksAreKept
    <2>1. UNCHANGED <<row, obj, target, pc>>
        BY <1>3 DEF Environment, ExecutorApplies, ExecutorRefuses, Tick, threadVars
    <2> QED BY <1>0, <2>1 DEF MarksAreKept, OpOf, CreatesTheNewest
<1>4. CASE UNCHANGED vars
    BY <1>0, <1>4 DEF vars, threadVars, MarksAreKept, OpOf, CreatesTheNewest
<1>5. \A t \in Threads : t \in Ops \/ t \in Claimants
    BY DEF Threads, Claimants
<1> QED BY <1>1, <1>2, <1>3, <1>4, <1>5, RequestMarksHold, ProcessMarksHold DEF Next

\* What other threads do leaves the phase and the request of a worker alone.
LEMMA RequestFollowsKept ==
    ASSUME IInv, ConfirmInv, [Next]_vars, NEW w \in Ops
    PROVE  RequestFollows(w)'
<1>0. /\ TypeOK /\ w \in Threads /\ RequestFollows(w)
      /\ exec \in [Ops -> {"idle", "requested", "applied", "refused"}]
      /\ pc \in [Threads -> Labels] /\ at \in [Ops -> Stages]
      /\ pc[w] = "none" => exec[w] = "idle" /\ at[w] = REVIEW
      /\ \A t \in Claimants : t # w
    BY ThreadFacts DEF IInv, TypeInv, TypeOK, ConfirmInv, ReviewFits, Claimants
<1>1. Holds(w) => Holds(w)'
    BY HoldsKept
<1>2. exec[w] = "applied" => exec'[w] = "applied"
    BY AppliedStays
<1>3. ASSUME Unrequested(w)' => Unrequested(w) /\ exec'[w] = exec[w],
             Served(w)' => exec[w] = "applied", Verified(w)' => Holds(w)
      PROVE  RequestFollows(w)'
    BY <1>0, <1>1, <1>2, <1>3 DEF RequestFollows
<1>4. ASSUME pc'[w] = pc[w], at'[w] = at[w], exec'[w] = exec[w] PROVE RequestFollows(w)'
    <2>1. Unrequested(w)' => Unrequested(w)
        BY <1>4 DEF Unrequested
    <2>2. (Served(w)' => Served(w)) /\ (Verified(w)' => Verified(w))
        BY <1>4 DEF Served, Verified
    <2> QED BY <1>0, <1>3, <1>4, <2>1, <2>2 DEF RequestFollows
<1>5. CASE WorkerStep(w) \/ TerminalStep(w)
    BY <1>3, <1>5, WorkerFollows
<1>6. ASSUME NEW v \in Ops, v # w, WorkerStep(v) \/ TerminalStep(v) PROVE RequestFollows(w)'
    BY <1>0, <1>4, <1>6, WorkerStepMoves DEF WorkerMoves
<1>7. ASSUME NEW t \in Claimants, TerminalStep(t) PROVE RequestFollows(w)'
    <2>1. UNCHANGED <<at, exec>> /\ \E next \in Labels : pc' = [pc EXCEPT ![t] = next]
        BY <1>7 DEF TerminalStep, Reconcile, SaveTerminal, Publish, AuditTerminal, Goto, Labels, worldVars
    <2> QED BY <1>0, <1>4, <1>7, <2>1
<1>8. ASSUME NEW r \in Requests, RequestStep(r) \/ NewRequest(r) PROVE RequestFollows(w)'
    <2>0. r # w /\ UNCHANGED <<at, exec>>
        BY <1>0, <1>8 DEF RequestStep, NewRequest, SaveCreated, Spawn, Recheck, RequestRaises, Respond,
           CreateOrReject, RetryOperation, Accept, ReclaimAbandoned, ReclaimStalled, Observe, worldVars, Claimants
    <2>1. CASE Spawn(r) /\ target[r] = w
        <3>1. pc[w] = "none" /\ pc'[w] = "spawned"
            BY <1>0, <2>0, <2>1, RequestFacts DEF Spawn, RequestFits
        <3> QED BY <1>0, <1>3, <2>0, <3>1, StageNumbers DEF Unrequested, Served, Verified
    <2>2. CASE ~(Spawn(r) /\ target[r] = w)
        <3>1. pc'[w] = pc[w]
            BY <1>0, <1>8, <2>0, <2>2
               DEF RequestStep, NewRequest, SaveCreated, Spawn, Recheck, RequestRaises, Respond, Finish, Fail,
                   CreateOrReject, RetryOperation, Accept, ReclaimAbandoned, ReclaimStalled, Observe, Goto
        <3> QED BY <1>4, <2>0, <3>1
    <2> QED BY <2>1, <2>2
<1>9. CASE BootReclaims \/ BootServes
    <2>1. UNCHANGED <<at, exec>> /\ \E next \in Labels : pc' = [pc EXCEPT ![Main] = next]
        BY <1>9 DEF BootReclaims, BootServes, ReclaimStalled, Fail, Goto, Labels, worldVars
    <2> QED BY <1>0, <1>4, <2>1, ThreadFacts DEF Claimants
<1>10. CASE Restart
    <2>1. pc'[w] \in {"none", "done"} /\ (pc'[w] = "none" => pc[w] = "none") /\ exec' = exec
        BY <1>0, <1>10 DEF Restart, worldVars, Claimants
    <2>2. ~Served(w)' /\ ~Verified(w)'
        BY <2>1 DEF Served, Verified
    <2>3. Unrequested(w)' => Unrequested(w)
        BY <2>1 DEF Unrequested
    <2> QED BY <1>3, <2>1, <2>2, <2>3
<1>11. ASSUME NEW op \in Ops, Environment(op) PROVE RequestFollows(w)'
    <2>1. UNCHANGED <<pc, at>>
        BY <1>11 DEF Environment, ExecutorApplies, ExecutorRefuses, Tick, threadVars
    <2>2. exec'[w] = exec[w] \/ exec[w] = "requested"
        BY <1>0, <1>11 DEF Environment, ExecutorApplies, ExecutorRefuses, Tick, worldVars
    <2>3. CASE exec[w] = "requested"
        <3>1. ~Unrequested(w) /\ ~Served(w)
            BY <1>0, <2>3 DEF RequestFollows
        <3>2. ~Verified(w)
            BY <1>0, <2>3 DEF RequestFollows, Holds
        <3> QED BY <1>3, <2>1, <3>1, <3>2 DEF Unrequested, Served, Verified
    <2> QED BY <1>4, <2>1, <2>2, <2>3
<1>12. CASE UNCHANGED vars
    BY <1>4, <1>12 DEF vars, threadVars, worldVars
<1>13. \A t \in Threads : t \in Ops \/ t \in Claimants
    BY DEF Threads, Claimants
<1>14. ASSUME NEW v \in Ops, WorkerStep(v) \/ Environment(v) PROVE RequestFollows(w)'
    BY <1>5, <1>6, <1>11, <1>14
<1>15. ASSUME NEW t \in Threads, TerminalStep(t) PROVE RequestFollows(w)'
    BY <1>5, <1>6, <1>7, <1>13, <1>15
<1>16. CASE BootStep \/ Crash
    BY <1>9, <1>10, <1>16 DEF BootStep, BootRaises, Crash
<1> QED BY <1>8, <1>12, <1>14, <1>15, <1>16 DEF Next

LEMMA ConfirmInit == Init => ConfirmInv
<1> SUFFICES ASSUME Init PROVE ConfirmInv
    OBVIOUS
<1>1. /\ \A op \in Ops : pc[op] = "none" /\ exec[op] = "idle" /\ row[op] = Fresh("none")
      /\ \A r \in Requests : pc[r] = "idle"
      /\ \A t \in Threads : obj[t] = Fresh("none")
      /\ Requests \subseteq Threads
    BY ThreadFacts DEF Init
<1>2. \A op \in Ops : ~Marked(row[op]) /\ row[op].state = "none"
    BY <1>1, FreshUnmarked DEF Fresh
<1>3. OnlyNewestIsActive /\ ServedInOrder
    BY <1>1, <1>2 DEF OnlyNewestIsActive, ServedInOrder
<1>4. \A r \in Requests : CreatesTheNewest(r)
    BY <1>1, FreshUnmarked DEF CreatesTheNewest
<1>5. \A w \in Ops : RequestFollows(w)
    BY <1>1 DEF RequestFollows, Unrequested, Served, Verified
<1>6. MarksHold
    BY <1>1, <1>2, FreshUnmarked DEF MarksHold
<1> QED BY <1>3, <1>4, <1>5, <1>6 DEF ConfirmInv

LEMMA ConfirmStep == IInv /\ ConfirmInv /\ [Next]_vars => ConfirmInv'
<1> SUFFICES ASSUME IInv, ConfirmInv, [Next]_vars PROVE ConfirmInv'
    OBVIOUS
<1>1. MarksAreKept
    BY StepMarksHold
<1>2. \A op \in Ops : Holds(op) => Holds(op)'
    BY HoldsKept
<1>3. \A op \in Ops : Marked(row[op])' => Holds(op)'
    BY <1>1, <1>2 DEF MarksAreKept, Marked
<1>4. ASSUME NEW t \in Threads, Marked(obj[t])' PROVE Holds(OpOf(t))'
    <2>1. PICK op \in Ops : Holds(op) /\ op = (IF t \in Ops THEN t ELSE target'[t])
        BY <1>1, <1>4 DEF MarksAreKept, Marked
    <2>2. Holds(op)'
        BY <1>2, <2>1
    <2> QED BY <2>1, <2>2 DEF OpOf, Holds
<1>5. MarksHold'
    BY <1>3, <1>4 DEF MarksHold
<1> QED
    BY <1>1, <1>5, OnlyNewestIsActiveKept, ServedInOrderKept, RequestFollowsKept DEF ConfirmInv, MarksAreKept

\* A confirmed operation names the value Bedrock runs with until a later one is
\* served, for any number of crashes, failing writes and requests served late.
THEOREM ConfirmedOperationsAreEffective == Spec => []ConfirmedIsEffective
<1>1. Init => IInv /\ ConfirmInv
    BY InvariantInit, ConfirmInit
<1>2. IInv /\ ConfirmInv /\ [Next]_vars => (IInv /\ ConfirmInv)'
    BY InvariantStep, ConfirmStep
<1>3. ConfirmInv => ConfirmedIsEffective
    BY DEF ConfirmInv, MarksHold, Marked, Holds, ConfirmedIsEffective
<1> QED BY <1>1, <1>2, <1>3, PTL DEF Spec

-----------------------------------------------------------------------------
(* What a failed operation says of its change, while nothing interrupts a  *)
(* thread: no crash and no write that raises.                              *)

Smooth == crashes = 0 /\ faults = 0

Observed(o) ==
    o.state \in RetryableStates =>
        o.stages[PREPARE] = "pending" \/ o.recon # "none" \/ o.stages[VERIFY] = "completed"

\* The worker has not touched disk or container.
Untouched(w) ==
    \/ pc[w] \in {"spawned", "start"}
    \/ pc[w] \in {"begin", "work", "complete"} /\ at[w] \in {REVIEW, BACKUP_VERIFY}
    \/ pc[w] = "begin" /\ at[w] = PREPARE

WorkerObserves(w) ==
    /\ Untouched(w) => obj[w].stages[PREPARE] = "pending"
    /\ pc[w] = "save" => Observed(obj[w])
    /\ pc[w] # "except"

\* Some thread is going to end an active operation, so nobody reclaims it.
Attended(w) ==
    Active(w) => \/ pc[w] \in {"spawned", "start", "begin", "work", "complete", "await", "reconcile", "save"}
                 \/ \E r \in Requests : pc[r] = "spawn" /\ target[r] = w

ObservedInv ==
    Smooth =>
        /\ \A op \in Ops : Observed(row[op]) /\ WorkerObserves(op) /\ Attended(op)
        /\ \A r \in Requests : pc[r] \in {"create", "spawn"} => obj[r].stages[PREPARE] = "pending"
        /\ \A t \in Claimants : pc[t] \notin {"reconcile", "save"}

LEMMA AttendedIsNotReclaimed ==
    ASSUME IInv, ObservedInv, Smooth, NEW op \in Ops, NEW threshold \in {ORPHAN, ABANDONED},
           Reclaimable(op, threshold)
    PROVE  FALSE
<1>1. Active(op) /\ op \notin live /\ age[op] # FRESH
    BY DEF Reclaimable, GetActive, FRESH, ORPHAN, ABANDONED
<1>2. Attended(op) /\ WorkerFits(op) /\ \A r \in Requests : RequestFits(r)
    BY DEF ObservedInv, IInv
<1> QED BY <1>1, <1>2 DEF Attended, WorkerFits, RequestFits

\* A worker saves a failed record after REVIEW only with its observation.
LEMMA WorkerStepObserves ==
    ASSUME IInv, ObservedInv, Smooth, Smooth', NEW w \in Ops, WorkerStep(w) \/ TerminalStep(w)
    PROVE  Observed(row'[w]) /\ WorkerObserves(w)'
<1> DEFINE Goal == Observed(row'[w]) /\ WorkerObserves(w)'
<1> USE StageNumbers DEF Goto, Working
<1>0. /\ TypeOK /\ w \in Threads /\ obj[w] \in Record /\ row[w] \in Record /\ at[w] \in 1..7
      /\ Observed(row[w]) /\ WorkerObserves(w) /\ WorkerFits(w)
      /\ obj \in [Threads -> Record] /\ row \in [Ops -> Record]
      /\ pc \in [Threads -> Labels] /\ at \in [Ops -> 1..7]
      /\ OpOf(w) = w
      /\ pc[w] = "start" => at[w] = REVIEW
      /\ crashes \in Nat /\ faults \in Nat
    BY ThreadFacts, BoundsAssumption DEF IInv, TypeInv, TypeOK, ObservedInv, OpOf, ReviewFits
\* The row keeps its record or takes one that is not a failure.
<1>1. ASSUME row'[w] = row[w] \/ row'[w].state \in {"running", "confirmed"},
             Untouched(w)' => obj'[w].stages[PREPARE] = "pending",
             pc'[w] = "save" => Observed(obj'[w]),
             pc'[w] # "except"
      PROVE  Goal
    BY <1>0, <1>1 DEF WorkerObserves, Observed, RetryableStates
<1>2. ASSUME NEW s \in 1..7, Fail(w, obj[w], s), row' = row,
             s = REVIEW => obj[w].stages[PREPARE] = "pending"
      PROVE  Goal
    <2>1. obj'[w] = FailStage(obj[w], s) /\ pc'[w] = (IF s = REVIEW THEN "save" ELSE "reconcile")
        BY <1>0, <1>2 DEF Fail
    <2>2. s = REVIEW => FailStage(obj[w], s).stages[PREPARE] = "pending"
        BY <1>0, <1>2 DEF FailStage, Record
    <2>3. ~Untouched(w)'
        BY <2>1 DEF Untouched
    <2> QED BY <1>1, <1>2, <2>1, <2>2, <2>3 DEF Observed
<1>3. Written(w) \in Record
    BY <1>0, WrittenFits
<1>4. ASSUME NEW next, SaveOperation(w, next)
      PROVE  row'[w] = Written(w) /\ obj'[w] = Written(w) /\ pc'[w] = next
    BY <1>0, <1>4 DEF SaveOperation, Save
<1>5. ASSUME NEW next, WriteStage(w, next)
      PROVE  row'[w].state = Written(w).state /\ obj'[w] = Written(w) /\ pc'[w] = next
    BY <1>0, <1>3, <1>5 DEF WriteStage, UpdateStage, Save, Record
<1>6. Untouched(w) => Written(w).stages[PREPARE] = "pending" \/ (pc[w] = "begin" /\ at[w] = PREPARE)
    <2>1. Untouched(w) => obj[w].stages[PREPARE] = "pending"
        BY <1>0 DEF WorkerObserves
    <2>2. ASSUME NEW s \in Stages, s # PREPARE
          PROVE  /\ SkipStage(obj[w], s).stages[PREPARE] = obj[w].stages[PREPARE]
                 /\ BeginStage(obj[w], s).stages[PREPARE] = obj[w].stages[PREPARE]
                 /\ CompleteStage(obj[w], s).stages[PREPARE] = obj[w].stages[PREPARE]
        BY <1>0, <2>2 DEF SkipStage, BeginStage, CompleteStage, Record
    <2>3. Start(obj[w]).stages[PREPARE] = obj[w].stages[PREPARE]
        BY <1>0 DEF Start, Record
    <2>4. CASE pc[w] \in {"spawned", "start"}
        BY <2>1, <2>3, <2>4 DEF Written, Untouched
    <2>5. CASE pc[w] = "begin" /\ at[w] # PREPARE
        BY <1>0, <2>1, <2>2, <2>5 DEF Written, Untouched
    <2>6. CASE pc[w] = "work"
        BY <1>0, <2>1, <2>6 DEF Written, Untouched
    <2>7. CASE pc[w] = "complete"
        BY <1>0, <2>1, <2>2, <2>7 DEF Written, Untouched
    <2> QED BY <2>4, <2>5, <2>6, <2>7 DEF Untouched
<1>7. CASE Enter(w)
    <2>1. row' = row /\ obj' = obj /\ pc'[w] = "start" /\ pc[w] = "spawned"
        BY <1>0, <1>7 DEF Enter
    <2> QED BY <1>0, <1>1, <2>1 DEF WorkerObserves, Untouched
<1>8. CASE StartOperation(w)
    <2>1. row'[w].state = "running" /\ obj'[w] = Written(w) /\ pc'[w] = "begin" /\ pc[w] = "start"
        BY <1>0, <1>4, <1>8, TransitionStates DEF StartOperation, Written
    <2> QED BY <1>1, <1>6, <2>1 DEF Untouched
<1>9. CASE Begin(w) \/ Skip(w) \/ Complete(w) \/ HealthPoll(w)
    <2>1. Written(w).state = "running"
        BY <1>0, <1>9, TransitionStates DEF Begin, Skip, Complete, HealthPoll, Written, WorkerFits, Active
    <2>2. /\ row'[w].state = "running" /\ obj'[w] = Written(w)
          /\ pc'[w] \in {"begin", "work", "complete"}
        BY <1>5, <1>9, <2>1 DEF Begin, Skip, Complete, HealthPoll
    <2>3. Untouched(w)' => Untouched(w) /\ ~(pc[w] = "begin" /\ at[w] = PREPARE)
        <3>1. CASE Begin(w)
            BY <1>0, <1>5, <3>1 DEF Begin, Untouched
        <3>2. CASE Skip(w)
            BY <1>0, <1>5, <3>2 DEF Skip, Untouched
        <3>3. CASE Complete(w)
            <4>1. at'[w] = at[w] + 1 /\ pc[w] = "complete" /\ pc'[w] = "begin"
                BY <1>0, <1>5, <3>3 DEF Complete
            <4> QED BY <1>0, <4>1 DEF Untouched
        <3>4. CASE HealthPoll(w)
            BY <1>0, <1>5, <3>4 DEF HealthPoll, Untouched
        <3> QED BY <1>9, <3>1, <3>2, <3>3, <3>4
    <2> QED BY <1>1, <1>6, <2>2, <2>3
<1>10. CASE ReviewRejects(w)
    <2>1. obj[w].stages[PREPARE] = "pending"
        BY <1>0, <1>10 DEF ReviewRejects, WorkerObserves, Untouched
    <2> QED BY <1>2, <1>10, <2>1 DEF ReviewRejects
<1>11. CASE ReviewAccepts(w)
    <2>1. Written(w) = obj[w] /\ Untouched(w)
        BY <1>11 DEF ReviewAccepts, Written, Untouched
    <2>2. row'[w] = obj[w] /\ obj'[w] = obj[w] /\ pc'[w] = "complete" /\ obj[w].state = "running"
        BY <1>0, <1>4, <1>11, <2>1 DEF ReviewAccepts, WorkerFits
    <2> QED BY <1>0, <1>1, <2>1, <2>2 DEF WorkerObserves
<1>12. CASE PrepareRaises(w) \/ ExecutorRaises(w) \/ HealthTimeout(w) \/ VerifyFails(w)
    BY <1>2, <1>12 DEF PrepareRaises, ExecutorRaises, HealthTimeout, VerifyFails
<1>13. CASE Prepared(w) \/ CallExecutor(w) \/ ExecutorReturns(w) \/ VerifyMatches(w)
    <2>1. row' = row /\ obj' = obj /\ pc'[w] \in {"complete", "await"} /\ at'[w] = at[w]
        BY <1>0, <1>13 DEF Prepared, CallExecutor, ExecutorReturns, VerifyMatches
    <2>2. at[w] \notin {REVIEW, BACKUP_VERIFY}
        <3>1. pc[w] = "await" => at[w] = RESTART
            BY DEF IInv, TypeInv, StagesFit
        <3> QED BY <1>13, <3>1 DEF Prepared, CallExecutor, ExecutorReturns, VerifyMatches
    <2> QED BY <1>1, <2>1, <2>2 DEF Untouched
<1>14. CASE VerifyDiverges(w)
    <2>1. row' = row /\ obj'[w] = Diverge(obj[w]) /\ pc'[w] = "save"
        BY <1>0, <1>14 DEF VerifyDiverges
    <2>2. Diverge(obj[w]).stages[VERIFY] = "completed"
        BY <1>0 DEF Diverge, Record
    <2> QED BY <1>1, <2>1, <2>2 DEF Observed, Untouched
<1>15. CASE SaveConfirmed(w)
    <2>1. row'[w].state = "confirmed" /\ pc'[w] = "publish"
        BY <1>0, <1>4, <1>15, TransitionStates DEF SaveConfirmed, Written
    <2> QED BY <1>1, <2>1 DEF Untouched
<1>16. CASE WriteRaises(w) \/ HandlerRaises(w)
    BY <1>0, <1>16 DEF WriteRaises, HandlerRaises, Smooth
<1>17. CASE HandleTerminal(w) \/ HandleError(w)
    BY <1>0, <1>17 DEF HandleTerminal, HandleError, WorkerObserves
<1>18. CASE Leave(w)
    <2>1. row' = row /\ pc'[w] = "done"
        BY <1>0, <1>18 DEF Leave
    <2> QED BY <1>1, <2>1 DEF Untouched
<1>19. CASE Reconcile(w)
    <2>1. row' = row /\ obj'[w].recon # "none" /\ pc'[w] = "save"
        BY <1>0, <1>19 DEF Reconcile, Record
    <2> QED BY <1>1, <2>1 DEF Observed, Untouched
<1>20. CASE SaveTerminal(w)
    <2>1. row'[w] = obj[w] /\ pc'[w] = "publish" /\ Observed(obj[w])
        BY <1>0, <1>20 DEF SaveTerminal, Save, WorkerObserves
    <2> QED BY <2>1 DEF WorkerObserves, Untouched
<1>21. CASE Publish(w) \/ AuditTerminal(w)
    <2>1. row' = row /\ pc'[w] \in {"audit", "finally"}
        BY <1>0, <1>21 DEF Publish, AuditTerminal
    <2> QED BY <1>1, <2>1 DEF Untouched
<1> QED
    BY <1>7, <1>8, <1>9, <1>10, <1>11, <1>12, <1>13, <1>14, <1>15, <1>16, <1>17, <1>18, <1>19, <1>20, <1>21
       DEF WorkerStep, TerminalStep

LEMMA WorkerStepAttends ==
    ASSUME IInv, ObservedInv, Smooth, Smooth', NEW w \in Ops, WorkerStep(w) \/ TerminalStep(w)
    PROVE  Attended(w)'
<1> DEFINE Ours == {"spawned", "start", "begin", "work", "complete", "await", "reconcile", "save"}
<1>0. /\ WorkerFits(w) /\ Attended(w) /\ w \in Threads /\ TypeOK
      /\ pc \in [Threads -> Labels] /\ obj \in [Threads -> Record]
      /\ row \in [Ops -> Record]
      /\ pc[w] # "except" /\ OpOf(w) = w
      /\ \A r \in Requests : pc[r] = "spawn" => target[r] # w \/ pc[w] = "none"
      /\ crashes \in Nat /\ faults \in Nat
    BY ThreadFacts, BoundsAssumption
       DEF IInv, TypeInv, TypeOK, ObservedInv, RequestFits, WorkerObserves, OpOf
<1>1. SUFFICES ASSUME Active(w)' PROVE pc'[w] \in Ours
    BY DEF Attended
<1> USE DEF Goto
<1>2. CASE \E next \in Ours : pc' = [pc EXCEPT ![w] = next]
    BY <1>0, <1>2
<1>3. CASE Enter(w) \/ StartOperation(w) \/ Begin(w) \/ Skip(w) \/ Complete(w) \/ ReviewRejects(w)
           \/ ReviewAccepts(w) \/ Prepared(w) \/ PrepareRaises(w) \/ CallExecutor(w) \/ ExecutorReturns(w)
           \/ ExecutorRaises(w) \/ HealthPoll(w) \/ HealthTimeout(w) \/ VerifyMatches(w) \/ VerifyDiverges(w)
           \/ VerifyFails(w) \/ Reconcile(w)
    BY <1>2, <1>3
       DEF Enter, StartOperation, Begin, Skip, Complete, ReviewRejects, ReviewAccepts, Prepared, PrepareRaises,
           CallExecutor, ExecutorReturns, ExecutorRaises, HealthPoll, HealthTimeout, VerifyMatches,
           VerifyDiverges, VerifyFails, Reconcile, SaveOperation, WriteStage, Fail
<1>4. CASE SaveConfirmed(w)
    <2>1. row'[w].state = "confirmed"
        BY <1>4, SaveOperationEffect, WrittenStates, <1>0 DEF SaveConfirmed, Working, IInv
    <2> QED BY <1>1, <2>1 DEF Active, ActiveStates
<1>5. CASE SaveTerminal(w)
    <2>1. row'[w] = obj[w] /\ Terminal(obj[w])
        BY <1>0, <1>5 DEF SaveTerminal, Save, WorkerFits
    <2> QED BY <1>1, <2>1 DEF Active, ActiveStates, Terminal, TerminalStates
<1>6. CASE Publish(w) \/ AuditTerminal(w) \/ Leave(w)
    <2>1. row' = row /\ pc[w] \in {"publish", "report", "audit", "finally"}
        BY <1>6 DEF Publish, AuditTerminal, Leave
    <2>2. Active(w)
        BY <1>1, <2>1 DEF Active
    <2> QED BY <1>0, <2>1, <2>2 DEF Attended
<1>7. CASE WriteRaises(w) \/ HandlerRaises(w)
    BY <1>0, <1>7 DEF WriteRaises, HandlerRaises, Smooth
<1>8. CASE HandleTerminal(w) \/ HandleError(w)
    BY <1>0, <1>8 DEF HandleTerminal, HandleError
<1> QED BY <1>3, <1>4, <1>5, <1>6, <1>7, <1>8 DEF WorkerStep, TerminalStep

\* A thread other than w leaves w as it is, and the requests too.
LEMMA WorkersStay ==
    ASSUME IInv, ObservedInv, Smooth, NEW w \in Ops,
           row'[w] = row[w], pc'[w] = pc[w], at'[w] = at[w], obj'[w] = obj[w],
           \A r \in Requests : pc[r] = "spawn" /\ target[r] = w => pc'[r] = "spawn" /\ target'[r] = w
    PROVE  Observed(row[w])' /\ WorkerObserves(w)' /\ Attended(w)'
<1>1. Observed(row[w]) /\ WorkerObserves(w) /\ Attended(w)
    BY DEF ObservedInv
<1>2. Observed(row[w])'
    BY <1>1 DEF Observed
<1>3. WorkerObserves(w)'
    BY <1>1 DEF WorkerObserves, Untouched, Observed
<1>4. Attended(w)'
    BY <1>1 DEF Attended, Active
<1> QED BY <1>2, <1>3, <1>4

LEMMA ObservedWorkerStep ==
    ASSUME IInv, ObservedInv, Smooth, Smooth', NEW w \in Ops, WorkerStep(w) \/ TerminalStep(w)
    PROVE  ObservedInv'
<1>1. WorkerMoves(w)
    BY WorkerStepMoves
<1>2. \A r \in Claimants : r \in Threads /\ r # w
    BY ThreadFacts DEF Claimants
<1>3. \A t \in Claimants : pc'[t] = pc[t] /\ obj'[t] = obj[t]
    BY <1>1, <1>2 DEF WorkerMoves
<1>4. ASSUME NEW v \in Ops PROVE Observed(row[v])' /\ WorkerObserves(v)' /\ Attended(v)'
    <2>1. CASE v = w
        <3>1. Observed(row[w])'
            BY WorkerStepObserves DEF Observed
        <3> QED BY <2>1, <3>1, WorkerStepObserves, WorkerStepAttends
    <2>2. CASE v # w
        BY <1>1, <1>3, <2>2, WorkersStay, ThreadFacts DEF WorkerMoves, Claimants
    <2> QED BY <2>1, <2>2
<1> QED BY <1>3, <1>4 DEF ObservedInv, Claimants

LEMMA ObservedClaimantStep ==
    ASSUME IInv, ObservedInv, Smooth, NEW t \in Claimants, TerminalStep(t)
    PROVE  ObservedInv'
<1>1. pc[t] \notin {"reconcile", "save"} /\ t \in Threads /\ t \notin Ops /\ pc \in [Threads -> Labels]
    BY ClaimantFacts DEF ObservedInv, TypeOK
<1>2. /\ UNCHANGED <<row, obj, at, target>>
      /\ \E next \in {"audit", "finally"} : pc' = [pc EXCEPT ![t] = next]
      /\ pc[t] \in {"publish", "report", "audit"}
    BY <1>1 DEF TerminalStep, Reconcile, SaveTerminal, Publish, AuditTerminal, Goto
<1>3. \A v \in Ops : Observed(row[v])' /\ WorkerObserves(v)' /\ Attended(v)'
    BY <1>1, <1>2, WorkersStay, ThreadFacts
<1>4. \A u \in Claimants : pc'[u] \in {"reconcile", "save", "create", "spawn"} => pc'[u] = pc[u]
    BY <1>1, <1>2, ClaimantFacts
<1> QED BY <1>2, <1>3, <1>4 DEF ObservedInv, Claimants

LEMMA ObservedRequestStep ==
    ASSUME IInv, ObservedInv, Smooth, Smooth', NEW r \in Requests, RequestStep(r) \/ NewRequest(r)
    PROVE  ObservedInv'
<1>0. /\ TypeOK /\ r \in Threads /\ r \in Claimants /\ r \notin Ops /\ RequestFits(r)
      /\ pc[r] \in {"create", "spawn", "recheck"} => target[r] \in Ops
      /\ Ops \subseteq Threads /\ Claimants \subseteq Threads /\ Requests \subseteq Claimants
      /\ \A t \in Claimants : t \notin Ops
      /\ obj \in [Threads -> Record] /\ row \in [Ops -> Record] /\ pc \in [Threads -> Labels]
      /\ target \in [Claimants -> 0..NumOps]
      /\ crashes \in Nat /\ faults \in Nat
      /\ \A w \in Ops : Observed(row[w]) /\ WorkerObserves(w) /\ Attended(w) /\ WorkerFits(w)
      /\ \A q \in Requests : pc[q] \in {"create", "spawn"} => obj[q].stages[PREPARE] = "pending"
      /\ \A t \in Claimants : pc[t] \notin {"reconcile", "save"}
    <2>1. /\ TypeOK /\ r \in Threads /\ r \in Claimants /\ r \notin Ops /\ RequestFits(r)
          /\ pc[r] \in {"create", "spawn", "recheck"} => target[r] \in Ops
          /\ Ops \subseteq Threads
        BY RequestFacts
    <2>2. /\ Claimants \subseteq Threads /\ Requests \subseteq Claimants
          /\ \A t \in Claimants : t \notin Ops
        BY ThreadFacts DEF Claimants
    <2>3. /\ obj \in [Threads -> Record] /\ row \in [Ops -> Record] /\ pc \in [Threads -> Labels]
          /\ target \in [Claimants -> 0..NumOps] /\ crashes \in Nat /\ faults \in Nat
        BY <2>1, BoundsAssumption DEF TypeOK, Claimants
    <2> QED BY <2>1, <2>2, <2>3 DEF ObservedInv, IInv
<1> DEFINE Others == /\ \A t \in Threads : t # r => pc'[t] = pc[t] /\ obj'[t] = obj[t]
                     /\ \A t \in Claimants : t # r => target'[t] = target[t]
                     /\ at' = at
<1> USE StageNumbers DEF Goto
<1>1. ASSUME Others, row' = row, pc[r] # "spawn", pc'[r] \notin {"reconcile", "save"},
             pc'[r] \in {"create", "spawn"} => obj'[r].stages[PREPARE] = "pending"
      PROVE  ObservedInv'
    <2>1. \A v \in Ops : Observed(row[v])' /\ WorkerObserves(v)' /\ Attended(v)'
        BY <1>0, <1>1, WorkersStay
    <2> QED BY <1>0, <1>1, <2>1 DEF ObservedInv
<1>2. CASE CreateOrReject(r) \/ RetryOperation(r)
    <2>1. PICK v : Accept(r, v) /\ pc[r] = "idle"
        BY <1>2 DEF CreateOrReject, RetryOperation, Idle
    <2>2. Others /\ row' = row /\ obj'[r] = Fresh("pending") /\ pc'[r] = "create"
        BY <1>0, <2>1 DEF Accept
    <2>3. obj'[r].stages[PREPARE] = "pending"
        BY <2>2 DEF Fresh
    <2> QED BY <1>1, <2>1, <2>2, <2>3
<1>3. CASE SaveCreated(r)
    <2>1. /\ pc[r] = "create" /\ obj' = obj /\ target' = target /\ at' = at
          /\ pc' = [pc EXCEPT ![r] = "spawn"]
          /\ row' = [row EXCEPT ![target[r]] = obj[r]]
        BY <1>3 DEF SaveCreated, Save
    <2>2. \A v \in Ops : v # target[r] => Observed(row[v])' /\ WorkerObserves(v)' /\ Attended(v)'
        BY <1>0, <2>1, WorkersStay
    <2>3. Observed(row[target[r]])'
        BY <1>0, <2>1 DEF RequestFits, Observed, RetryableStates
    <2>4. WorkerObserves(target[r])'
        BY <1>0, <2>1 DEF WorkerObserves, Untouched, Observed
    <2>5. Attended(target[r])'
        BY <1>0, <2>1 DEF Attended
    <2> QED BY <1>0, <2>1, <2>2, <2>3, <2>4, <2>5 DEF ObservedInv
<1>4. CASE Spawn(r)
    <2>1. /\ pc[r] = "spawn" /\ row' = row /\ at' = at
          /\ \A t \in Threads : t # r /\ t # target[r] => pc'[t] = pc[t] /\ obj'[t] = obj[t]
          /\ obj'[target[r]] = obj[r] /\ pc'[target[r]] = "spawned" /\ pc'[r] = "idle"
          /\ \A t \in Claimants : t # r => target'[t] = target[t]
        BY <1>0, <1>4 DEF Spawn
    <2>2. \A v \in Ops : v # target[r] => Observed(row[v])' /\ WorkerObserves(v)' /\ Attended(v)'
        BY <1>0, <2>1, WorkersStay
    <2>3. PICK op \in Ops : op = target[r]
        BY <1>0, <2>1
    <2>4. Observed(row[op])'
        BY <1>0, <2>1 DEF Observed
    <2>5. WorkerObserves(op)' /\ Attended(op)'
        BY <1>0, <2>1, <2>3 DEF WorkerObserves, Attended
    <2>6. \A t \in Claimants : t # r => pc'[t] = pc[t] /\ obj'[t] = obj[t]
        BY <1>0, <2>1
    <2> QED BY <1>0, <2>1, <2>2, <2>3, <2>4, <2>5, <2>6 DEF ObservedInv
<1>5. CASE Recheck(r)
    <2>1. PICK o \in Reobserved(target[r], row[target[r]], seen[r]) :
             obj' = [obj EXCEPT ![r] = o] /\ Save(target[r], o)
        BY <1>5 DEF Recheck
    <2>2. /\ target[r] \in Ops /\ row[target[r]] \in Record /\ Terminal(row[target[r]])
          /\ Observed(row[target[r]]) /\ pc[r] = "recheck"
        BY <1>0, <1>5 DEF Recheck, RequestFits
    <2>3. Observed(o) /\ Terminal(o)
        <3>1. CASE row[target[r]].state \notin RetryableStates
            BY <2>1, <2>2, <3>1 DEF Reobserved
        <3>2. CASE row[target[r]].state \in RetryableStates
            <4>1. Terminal(o)
                BY <2>1, <2>2, <3>2, ReobservedIsTerminal
            <4>2. o.stages = row[target[r]].stages /\ (o.recon # "none" \/ o.recon = row[target[r]].recon)
                BY <2>1, <2>2 DEF Reobserved, Record
            <4> QED BY <2>2, <3>2, <4>1, <4>2 DEF Observed
        <3> QED BY <3>1, <3>2
    <2>4. /\ row' = [row EXCEPT ![target[r]] = o] /\ target' = target /\ at' = at
          /\ pc' = [pc EXCEPT ![r] = "report"]
        BY <1>5, <2>1 DEF Recheck, Save
    <2>5. \A v \in Ops : v # target[r] => Observed(row[v])' /\ WorkerObserves(v)' /\ Attended(v)'
        BY <1>0, <2>1, <2>2, <2>4, WorkersStay
    <2>6. Observed(row[target[r]])' /\ WorkerObserves(target[r])'
        BY <1>0, <2>1, <2>2, <2>3, <2>4 DEF WorkerObserves, Untouched, Observed
    <2>7. Attended(target[r])'
        BY <1>0, <2>2, <2>3, <2>4 DEF Attended, Active, ActiveStates, Terminal, TerminalStates
    <2> QED BY <1>0, <2>1, <2>2, <2>4, <2>5, <2>6, <2>7 DEF ObservedInv
<1>6. CASE RequestRaises(r)
    BY <1>0, <1>6 DEF RequestRaises, Smooth
<1>7. CASE Respond(r)
    <2>1. Others /\ row' = row /\ pc'[r] = "idle" /\ pc[r] = "finally"
        BY <1>0, <1>7 DEF Respond, Finish
    <2> QED BY <1>1, <2>1
<1>8. CASE ReclaimAbandoned(r)
    BY <1>8, AttendedIsNotReclaimed DEF ReclaimAbandoned
<1>9. CASE Observe(r)
    <2>1. Others /\ row' = row /\ pc'[r] = "recheck" /\ pc[r] = "idle"
        BY <1>0, <1>9 DEF Observe, Idle
    <2> QED BY <1>1, <2>1
<1> QED BY <1>2, <1>3, <1>4, <1>5, <1>6, <1>7, <1>8, <1>9 DEF RequestStep, NewRequest

LEMMA ObservedInit == Init => ObservedInv
<1> SUFFICES ASSUME Init PROVE ObservedInv
    OBVIOUS
<1>1. /\ \A op \in Ops : pc[op] = "none" /\ row[op].state = "none"
      /\ \A r \in Requests : pc[r] = "idle"
      /\ pc[Main] = "boot"
    BY ThreadFacts DEF Init, Fresh
<1> QED BY <1>1 DEF ObservedInv, Observed, WorkerObserves, Untouched, Attended, Active, ActiveStates,
                    RetryableStates, Claimants

\* What was interrupted once stays interrupted.
LEMMA SmoothBefore ==
    ASSUME IInv, [Next]_vars, Smooth'
    PROVE  Smooth /\ ~Crash /\ ~BootRaises
<1>0. crashes \in Nat /\ faults \in Nat
    BY BoundsAssumption DEF IInv, TypeInv, TypeOK
<1>1. crashes' \in {crashes, crashes + 1} /\ faults' \in {faults, faults + 1}
    <2>1. ASSUME NEW w \in Ops, WorkerStep(w) \/ Environment(w)
          PROVE  crashes' = crashes /\ faults' \in {faults, faults + 1}
        BY <2>1 DEF WorkerStep, Enter, StartOperation, Begin, Skip, Complete, WriteStage, Emit, ReviewRejects,
           ReviewAccepts, Prepared, PrepareRaises, CallExecutor, ExecutorReturns, ExecutorRaises, HealthPoll, HealthTimeout,
           VerifyMatches, VerifyDiverges, VerifyFails, SaveConfirmed, WriteRaises, HandleTerminal,
           HandleError, HandlerRaises, Leave, Environment, ExecutorApplies, ExecutorRefuses, Tick, countVars
    <2>2. ASSUME NEW t \in Threads, TerminalStep(t)
          PROVE  crashes' = crashes /\ faults' \in {faults, faults + 1}
        BY <2>2 DEF TerminalStep, Reconcile, SaveTerminal, Publish, Emit, AuditTerminal, countVars
    <2>3. ASSUME NEW r \in Requests, RequestStep(r) \/ NewRequest(r)
          PROVE  crashes' = crashes /\ faults' \in {faults, faults + 1}
        BY <2>3 DEF RequestStep, NewRequest, SaveCreated, Spawn, Recheck, RequestRaises, Respond,
           CreateOrReject, RetryOperation, Accept, ReclaimAbandoned, ReclaimStalled, Observe, countVars
    <2>4. CASE BootStep \/ Crash \/ UNCHANGED vars
        BY <2>4 DEF BootStep, BootReclaims, ReclaimStalled, BootServes, BootRaises, Crash, countVars, vars
    <2> QED BY <2>1, <2>2, <2>3, <2>4 DEF Next
<1>2. Smooth
    BY <1>0, <1>1 DEF Smooth
<1> QED BY <1>0, <1>2 DEF Smooth, Crash, BootRaises

LEMMA ObservedStep == IInv /\ ObservedInv /\ [Next]_vars => ObservedInv'
<1> SUFFICES ASSUME IInv, ObservedInv, [Next]_vars, Smooth' PROVE ObservedInv'
    BY DEF ObservedInv
<1>0. Smooth /\ ~Crash /\ ~BootRaises
    BY SmoothBefore
<1>1. ASSUME UNCHANGED <<row, obj, at, target, pc>> PROVE ObservedInv'
    <2>1. \A v \in Ops : Observed(row[v])' /\ WorkerObserves(v)' /\ Attended(v)'
        BY <1>0, <1>1, WorkersStay
    <2> QED BY <1>0, <1>1, <2>1 DEF ObservedInv
<1>2. ASSUME NEW op \in Ops, Environment(op) PROVE ObservedInv'
    BY <1>1, <1>2 DEF Environment, ExecutorApplies, ExecutorRefuses, Tick, threadVars
<1>3. CASE UNCHANGED vars
    BY <1>1, <1>3 DEF vars, threadVars
<1>4. ASSUME NEW w \in Ops, WorkerStep(w) \/ TerminalStep(w) PROVE ObservedInv'
    BY <1>0, <1>4, ObservedWorkerStep
<1>5. ASSUME NEW t \in Claimants, TerminalStep(t) PROVE ObservedInv'
    BY <1>0, <1>5, ObservedClaimantStep
<1>6. ASSUME NEW r \in Requests, RequestStep(r) \/ NewRequest(r) PROVE ObservedInv'
    BY <1>0, <1>6, ObservedRequestStep
<1>7. CASE BootReclaims
    BY <1>0, <1>7, AttendedIsNotReclaimed DEF BootReclaims
<1>8. CASE BootServes
    <2>1. /\ row' = row /\ at' = at
          /\ \A t \in Threads : t # Main => pc'[t] = pc[t] /\ obj'[t] = obj[t]
          /\ \A t \in Claimants : t # Main => target'[t] = target[t]
          /\ pc'[Main] = "serving"
        BY <1>8, ThreadFacts DEF BootServes, Goto, IInv, TypeInv, TypeOK, Claimants
    <2>2. \A v \in Ops : Observed(row[v])' /\ WorkerObserves(v)' /\ Attended(v)'
        BY <1>0, <2>1, WorkersStay, ThreadFacts DEF Claimants
    <2> QED BY <1>0, <2>1, <2>2, ThreadFacts DEF ObservedInv, Claimants
<1>9. \A t \in Threads : t \in Ops \/ t \in Claimants
    BY DEF Threads, Claimants
<1> QED BY <1>0, <1>2, <1>3, <1>4, <1>5, <1>6, <1>7, <1>8, <1>9 DEF Next, BootStep

\* As long as neither the process dies nor a write raises, every operation that
\* failed after REVIEW carries the observation that says whether it was applied.
THEOREM FailuresAreObserved ==
    ASSUME MaxCrashes = 0, MaxFaults = 0
    PROVE  Spec => []FailureIsObserved
<1>1. Init => IInv /\ ObservedInv
    BY InvariantInit, ObservedInit
<1>2. IInv /\ ObservedInv /\ [Next]_vars => (IInv /\ ObservedInv)'
    BY InvariantStep, ObservedStep
<1>3. IInv /\ ObservedInv => FailureIsObserved
    <2>1. IInv => Smooth
        BY DEF IInv, TypeInv, TypeOK, Smooth
    <2> QED BY <2>1 DEF ObservedInv, Observed, Ran, FailureIsObserved, RetryableStates
<1> QED BY <1>1, <1>2, <1>3, PTL DEF Spec
=============================================================================
