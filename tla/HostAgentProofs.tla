-------------------------- MODULE HostAgentProofs --------------------------
(***************************************************************************)
(* Proofs about HostAgent for every number of operations and workers, every *)
(* queue size, and any number of restarts and SQLite calls that fail.      *)
(***************************************************************************)
EXTENDS HostAgent, SequenceTheorems, TLAPS

HandlerLabels == {"idle", "create", "enqueue", "reject", "delete", "body"}
WorkerLabels == {"idle", "prepare", "write", "restart", "restarting", "health",
                 "finish", "fields", "save"}
OwnerLabels == {"create", "enqueue", "prepare", "write", "restart", "restarting",
                "health", "finish", "fields"}

\* What TypeOK needs to be inductive: where each kind of thread can be, and that
\* it is about an operation there.
ThreadsFit ==
    /\ pc[Handler] \in HandlerLabels
    /\ pc[Handler] # "idle" => job[Handler] \in Ops
    /\ \A w \in Workers :
          /\ pc[w] \in WorkerLabels
          /\ pc[w] # "idle" => job[w] \in Ops
          /\ pc[w] = "idle" => job[w] = NoOp

TypeInv == TypeOK /\ ThreadsFit

\* A thread that is going to change the record or the row of its operation.
WorksOn(t, op) == job[t] = op /\ pc[t] \in OwnerLabels \cup {"reject", "save"}

\* Who owns an unfinished record, and what the record says meanwhile.
OwnersFit ==
    /\ \A op \in Ops :
          mem[op] \in {"running", "undecided"} => Queued(op) \/ \E t \in Threads : Owns(t, op)
    /\ \A op \in Ops : Queued(op) => mem[op] = "running"
    /\ \A t \in Threads, op \in Ops :
          Owns(t, op) => mem[op] = IF pc[t] = "fields" THEN "undecided" ELSE "running"
    /\ \A t \in Threads, op \in Ops : Owns(t, op) => ~Queued(op)
    /\ \A t, u \in Threads, op \in Ops : WorksOn(t, op) /\ WorksOn(u, op) => t = u
    /\ \A i, j \in 1..Len(queue) : queue[i] = queue[j] => i = j

\* A finished record stays as it is while its row is written, and the handler
\* is the only one to take records away.
RecordsStay ==
    /\ \A op \in Ops : mem[op] \in {"running", "undecided"} => op \notin old
    /\ \A t \in Threads, op \in Ops :
          WorksOn(t, op) /\ pc[t] \in {"reject", "save"} =>
              op \notin old /\ mem[op] = IF t = Handler THEN "error" ELSE result[t]
    /\ dropped # {} => pc[Handler] = "delete"
    /\ \A op \in dropped : mem[op] = "absent"

OwnerInv == TypeInv /\ OwnersFit /\ RecordsStay

\* While no SQLite call has failed: a row follows its record, and only the
\* thread that works on the operation is between the two.
RowFollows(op) ==
    /\ mem[op] = "absent" /\ op \notin dropped => db[op] = "absent"
    /\ mem[op] \in {"running", "undecided"} =>
          db[op] = "running" \/ (pc[Handler] = "create" /\ job[Handler] = op)
    /\ mem[op] \in Decided =>
          \/ db[op] = mem[op]
          \/ \E t \in Threads : WorksOn(t, op) /\ pc[t] \in {"reject", "save"}
    /\ \A t \in Threads : WorksOn(t, op) /\ pc[t] # "create" => db[op] = "running"

\* ... and an operation that was executed cannot be taken again.
RanIsKnown(op) ==
    op \in ran =>
        /\ mem[op] # "absent"
        /\ ~Queued(op)
        /\ ~(job[Handler] = op /\ pc[Handler] \in {"create", "enqueue", "reject"})

\* The operation will be reported as ok, or its restart has come back.
Settled(op) ==
    \/ mem[op] = "ok" \/ db[op] = "ok"
    \/ \E w \in Workers :
          /\ job[w] = op
          /\ \/ pc[w] = "restarting" /\ op \notin reboot
             \/ pc[w] = "health"
             \/ pc[w] \in {"finish", "fields", "save"} /\ result[w] = "ok"

DurableInv ==
    faults = 0 =>
        /\ conn
        /\ \A op \in Ops : RowFollows(op)
        /\ \A op \in Ops : RanIsKnown(op)
        /\ \A op \in Ops : Settled(op) /\ props = op => loaded = op

IInv == OwnerInv /\ DurableInv

-----------------------------------------------------------------------------
(* Type correctness.                                                       *)

LEMMA ThreadFacts ==
    /\ Handler \in Threads /\ Workers \subseteq Threads
    /\ \A t \in Threads : t # Handler => t \in Workers
    /\ \A w \in Workers : w # Handler
    /\ NoOp \notin Ops /\ Torn \notin Ops /\ Torn # NoOp
BY NamesAssumption DEF Threads

LEMMA PersistFits ==
    ASSUME TypeOK, NEW op \in Ops, NEW r \in Rows, Persist(op, r)
    PROVE  db' \in [Ops -> Rows] /\ faults' \in 0..MaxFaults
BY BoundsAssumption DEF TypeOK, Persist

LEMMA TypeInit == Init => TypeInv
BY ThreadFacts, BoundsAssumption
   DEF Init, TypeInv, TypeOK, ThreadsFit, Labels, Records, Rows, Decided, HandlerLabels, WorkerLabels

\* What a thread writes with Persist is a row: its record is not "undecided".
LEMMA WrittenIsRow ==
    ASSUME OwnerInv, NEW t \in Threads,
           pc[t] \in {"prepare", "restart", "restarting", "reject", "save"}
    PROVE  job[t] \in Ops /\ mem[job[t]] \in Rows
<1>1. job[t] \in Ops
  <2>1. CASE t = Handler
    BY <2>1 DEF OwnerInv, TypeInv, ThreadsFit
  <2>2. CASE t \in Workers
    BY <2>2 DEF OwnerInv, TypeInv, ThreadsFit
  <2> QED
    BY <2>1, <2>2, ThreadFacts
<1>2. CASE pc[t] \in {"prepare", "restart", "restarting"}
  <2>1. Owns(t, job[t])
    BY <1>2 DEF Owns
  <2> QED
    BY <1>1, <1>2, <2>1 DEF OwnerInv, OwnersFit, Rows
<1>3. CASE pc[t] \in {"reject", "save"}
  <2>1. WorksOn(t, job[t])
    BY <1>3 DEF WorksOn
  <2>2. t # Handler => result[t] \in Decided
    BY ThreadFacts DEF OwnerInv, TypeInv, TypeOK
  <2> QED
    BY <1>1, <1>3, <2>1, <2>2 DEF OwnerInv, RecordsStay, Rows, Decided
<1> QED
  BY <1>2, <1>3

LEMMA QueueGrows ==
    ASSUME queue \in Seq(Ops), NEW op \in Ops, queue' = Append(queue, op)
    PROVE  \A o : Queued(o)' <=> Queued(o) \/ o = op
BY DEF Queued

LEMMA QueueShrinks ==
    ASSUME queue \in Seq(Ops), queue # <<>>, queue' = Tail(queue),
           \A i, j \in 1..Len(queue) : queue[i] = queue[j] => i = j
    PROVE  /\ Head(queue) \in Ops /\ Queued(Head(queue)) /\ queue' \in Seq(Ops)
           /\ \A o : Queued(o)' <=> Queued(o) /\ o # Head(queue)
           /\ \A i, j \in 1..Len(queue') : queue'[i] = queue'[j] => i = j
<1>1. /\ Len(queue) \in Nat \ {0} /\ Head(queue) = queue[1] /\ Head(queue) \in Ops
      /\ queue' \in Seq(Ops) /\ Len(queue') = Len(queue) - 1
      /\ \A i \in 1..Len(queue') : queue'[i] = queue[i + 1]
  BY HeadTailProperties
<1>2. Queued(Head(queue))
  BY <1>1 DEF Queued
<1>3. ASSUME NEW o, Queued(o), o # Head(queue)
      PROVE  Queued(o)'
  <2>1. PICK i \in 1..Len(queue) : queue[i] = o
    BY <1>3 DEF Queued
  <2>2. i - 1 \in 1..Len(queue') /\ (i - 1) + 1 = i
    BY <1>1, <1>3, <2>1
  <2> QED
    BY <1>1, <2>1, <2>2 DEF Queued
<1>4. ASSUME NEW o, Queued(o)'
      PROVE  Queued(o) /\ o # Head(queue)
  <2>1. PICK i \in 1..Len(queue') : queue'[i] = o
    BY <1>4 DEF Queued
  <2>2. i + 1 \in 1..Len(queue) /\ i + 1 # 1 /\ 1 \in 1..Len(queue) /\ queue[i + 1] = o
    BY <1>1, <2>1
  <2> QED
    BY <1>1, <2>2 DEF Queued
<1>5. ASSUME NEW i \in 1..Len(queue'), NEW j \in 1..Len(queue'), queue'[i] = queue'[j]
      PROVE  i = j
  <2>1. i + 1 \in 1..Len(queue) /\ j + 1 \in 1..Len(queue) /\ queue[i + 1] = queue[j + 1]
    BY <1>1, <1>5
  <2>2. i + 1 = j + 1
    BY <2>1
  <2> QED
    BY <1>1, <2>2
<1> QED
  BY <1>1, <1>2, <1>3, <1>4, <1>5

\* A type-correct step may be proved for each action; only the actions that
\* write a row need to know more than the types.
LEMMA TypeStep == OwnerInv /\ [Next]_vars => TypeInv'
<1> SUFFICES ASSUME OwnerInv, [Next]_vars
             PROVE  TypeInv'
  OBVIOUS
<1> USE ThreadFacts
<1>0. TypeInv /\ TypeOK /\ ThreadsFit
  BY DEF OwnerInv, TypeInv
<1>a. /\ Rows \subseteq Records /\ Decided \subseteq Rows /\ "absent" \in Rows
      /\ "running" \in Rows /\ "error" \in Decided /\ "undecided" \in Records
  BY DEF Records, Rows, Decided
<1>b. ASSUME NEW t \in Threads,
             pc[t] \in {"prepare", "restart", "restarting", "reject", "save"},
             Persist(job[t], mem[job[t]])
      PROVE  db' \in [Ops -> Rows] /\ faults' \in 0..MaxFaults
  BY <1>0, <1>b, WrittenIsRow, PersistFits
<1> USE DEF TypeInv, TypeOK, ThreadsFit, Labels, HandlerLabels, WorkerLabels,
            storeVars, threadVars, bedrockVars, Goto, HandlerDone, HandlerIdle, At, End
<1>1. ASSUME NEW op \in Ops, Duplicate(op) PROVE TypeInv'
  BY <1>0, <1>1, <1>a DEF Duplicate
<1>2. ASSUME NEW op \in Ops, Create(op) PROVE TypeInv'
  BY <1>0, <1>2, <1>a DEF Create
<1>3. ASSUME NEW op \in Ops, Evict(op) PROVE TypeInv'
  BY <1>0, <1>3, <1>a DEF Evict, Expired
<1>4. CASE Created
  <2>1. db' \in [Ops -> Rows] /\ faults' \in 0..MaxFaults
    BY <1>0, <1>4, <1>a, PersistFits DEF Created, SaveCreated
  <2> QED
    BY <1>0, <1>4, <2>1 DEF Created
<1>5. CASE Enqueue
  BY <1>0, <1>5 DEF Enqueue
<1>6. CASE QueueFull
  BY <1>0, <1>6, <1>a DEF QueueFull, MarkRejected
<1>7. CASE SaveRejected
  <2>1. db' \in [Ops -> Rows] /\ faults' \in 0..MaxFaults
    BY <1>7, <1>b DEF SaveRejected
  <2> QED
    BY <1>0, <1>7, <2>1 DEF SaveRejected
<1>8. ASSUME NEW op \in Ops, DeleteRow(op) PROVE TypeInv'
  <2>1. db' \in [Ops -> Rows] /\ faults' \in 0..MaxFaults
    BY <1>0, <1>8, <1>a, PersistFits DEF DeleteRow, DropRow
  <2> QED
    BY <1>0, <1>8, <2>1 DEF DeleteRow
<1>9. CASE ReadStatus
  BY <1>0, <1>9, <1>a DEF ReadStatus
<1>10. CASE ReadBody
  BY <1>0, <1>10, <1>a DEF ReadBody
<1>11. ASSUME NEW w \in Workers, Take(w) PROVE TypeInv'
  <2>1. Head(queue) \in Ops /\ Tail(queue) \in Seq(Ops)
    BY <1>0, <1>11 DEF Take
  <2> QED
    BY <1>0, <1>11, <2>1 DEF Take
<1>12. ASSUME NEW w \in Workers, Prepare(w) PROVE TypeInv'
  <2>1. db' \in [Ops -> Rows] /\ faults' \in 0..MaxFaults
    BY <1>12, <1>b DEF Prepare, BeginStage
  <2> QED
    BY <1>0, <1>12, <2>1 DEF Prepare
<1>13. ASSUME NEW w \in Workers, Written(w) PROVE TypeInv'
  BY <1>0, <1>13 DEF Written
<1>14. ASSUME NEW w \in Workers, PrepareFails(w) PROVE TypeInv'
  BY <1>0, <1>14, <1>a DEF PrepareFails
<1>15. ASSUME NEW w \in Workers, Restart(w) PROVE TypeInv'
  <2>1. db' \in [Ops -> Rows] /\ faults' \in 0..MaxFaults
    BY <1>15, <1>b DEF Restart, BeginStage
  <2> QED
    BY <1>0, <1>15, <2>1 DEF Restart
<1>16. ASSUME NEW w \in Workers, RestartReturns(w) PROVE TypeInv'
  <2>1. db' \in [Ops -> Rows] /\ faults' \in 0..MaxFaults
    BY <1>16, <1>b DEF RestartReturns, BeginStage
  <2> QED
    BY <1>0, <1>16, <2>1 DEF RestartReturns
<1>17. ASSUME NEW w \in Workers, RestartFails(w) PROVE TypeInv'
  BY <1>0, <1>17, <1>a DEF RestartFails
<1>18. ASSUME NEW w \in Workers, HealthWait(w) PROVE TypeInv'
  BY <1>0, <1>18 DEF HealthWait
<1>19. ASSUME NEW w \in Workers, SetStatus(w) PROVE TypeInv'
  BY <1>0, <1>19, <1>a DEF SetStatus
<1>20. ASSUME NEW w \in Workers, SetFields(w) PROVE TypeInv'
  BY <1>0, <1>20, <1>a DEF SetFields
<1>21. ASSUME NEW w \in Workers, SaveDone(w) PROVE TypeInv'
  <2>1. db' \in [Ops -> Rows] /\ faults' \in 0..MaxFaults
    BY <1>21, <1>b DEF SaveDone
  <2> QED
    BY <1>0, <1>21, <1>a, <2>1 DEF SaveDone
<1>22. ASSUME NEW op \in Ops, DaemonRestarts(op) PROVE TypeInv'
  BY <1>0, <1>22 DEF DaemonRestarts
<1>23. ASSUME NEW op \in Ops, Expire(op) PROVE TypeInv'
  BY <1>0, <1>23 DEF Expire
<1>24. CASE Crash
  <2>1. mem' \in [Ops -> Records] /\ db' \in [Ops -> Rows] /\ conn' \in BOOLEAN /\ faults' \in 0..MaxFaults
    <3>1. \A op \in Ops : Recovered(db[op]) \in Rows
      BY <1>0, <1>a DEF Recovered
    <3>2. CASE LoadAndRecover
      BY <1>0, <1>a, <3>1, <3>2, BoundsAssumption DEF LoadAndRecover
    <3>3. CASE InMemoryOnly
      <4>1. mem' \in [Ops -> Records] /\ db' \in [Ops -> Rows] /\ conn' \in BOOLEAN
        BY <1>0, <1>a, <3>3 DEF InMemoryOnly
      <4>2. faults' \in 0..MaxFaults
        BY <1>0, <3>3, BoundsAssumption DEF InMemoryOnly
      <4> QED
        BY <4>1, <4>2
    <3> QED
      BY <1>24, <3>2, <3>3 DEF Crash
  <2> QED
    BY <1>0, <1>24, <1>a, <2>1, BoundsAssumption DEF Crash
<1>25. CASE UNCHANGED vars
  BY <1>0, <1>25 DEF vars
<1> HIDE DEF TypeInv, TypeOK, ThreadsFit, Labels, HandlerLabels, WorkerLabels,
             storeVars, threadVars, bedrockVars, Goto, HandlerDone, HandlerIdle, At, End
<1> QED
  BY <1>1, <1>2, <1>3, <1>4, <1>5, <1>6, <1>7, <1>8, <1>9, <1>10, <1>11, <1>12, <1>13,
     <1>14, <1>15, <1>16, <1>17, <1>18, <1>19, <1>20, <1>21, <1>22, <1>23, <1>24, <1>25
     DEF Next, Request, HandlerStep, WorkerStep

-----------------------------------------------------------------------------
(* Ownership.                                                              *)

LEMMA OwnerWorks ==
    \A t, op : Owns(t, op) <=> WorksOn(t, op) /\ pc[t] \in OwnerLabels
BY DEF Owns, WorksOn, OwnerLabels

\* A step that changes no record and gives nobody something new to work on.
LEMMA OwnersKept ==
    ASSUME OwnerInv, mem' = mem, queue' = queue, old' = old, dropped' \subseteq dropped,
           dropped' # {} => pc'[Handler] = "delete",
           \A t \in Threads, op \in Ops : Owns(t, op)' <=> Owns(t, op),
           \A t \in Threads, op \in Ops : WorksOn(t, op)' =>
               /\ WorksOn(t, op)
               /\ pc'[t] = "fields" <=> pc[t] = "fields"
               /\ pc'[t] \in {"reject", "save"} =>
                     pc'[t] = pc[t] /\ (t # Handler => result'[t] = result[t])
    PROVE  OwnersFit' /\ RecordsStay'
<1>1. \A op : Queued(op)' <=> Queued(op)
  BY DEF Queued
<1>2. OwnersFit'
  <2>1. ASSUME NEW t \in Threads, NEW op \in Ops, Owns(t, op)
        PROVE  mem'[op] = IF pc'[t] = "fields" THEN "undecided" ELSE "running"
    <3>1. WorksOn(t, op)'
      BY <2>1, OwnerWorks DEF Owns, WorksOn, OwnerLabels
    <3> QED
      BY <2>1, <3>1 DEF OwnerInv, OwnersFit
  <2> QED
    BY <1>1, <2>1 DEF OwnerInv, OwnersFit
<1>3. RecordsStay'
  BY DEF OwnerInv, RecordsStay
<1> QED
  BY <1>2, <1>3

\* A thread that moves on with the operation it owns.
LEMMA MoveKeeps ==
    ASSUME OwnerInv, NEW t \in Threads, TypeInv',
           pc[t] \in OwnerLabels \ {"fields"}, pc'[t] \in OwnerLabels \ {"fields"},
           \A u \in Threads \ {t} : pc'[u] = pc[u],
           \A u \in Workers \ {t} : result'[u] = result[u],
           mem' = mem, queue' = queue, old' = old, dropped' = dropped, job' = job
    PROVE  OwnersFit' /\ RecordsStay'
<1>1. ASSUME NEW u \in Threads, NEW op \in Ops
      PROVE  Owns(u, op)' <=> Owns(u, op)
  <2>1. CASE u = t
    BY <2>1 DEF Owns, OwnerLabels
  <2>2. CASE u # t
    BY <2>2 DEF Owns
  <2> QED
    BY <2>1, <2>2
<1>2. ASSUME NEW u \in Threads, NEW op \in Ops, WorksOn(u, op)'
      PROVE  /\ WorksOn(u, op)
             /\ pc'[u] = "fields" <=> pc[u] = "fields"
             /\ pc'[u] \in {"reject", "save"} =>
                   pc'[u] = pc[u] /\ (u # Handler => result'[u] = result[u])
  <2>1. CASE u = t
    BY <1>2, <2>1 DEF WorksOn, OwnerLabels
  <2>2. CASE u # t
    BY <1>2, <2>2, ThreadFacts DEF WorksOn
  <2> QED
    BY <2>1, <2>2
<1>3. dropped' # {} => pc'[Handler] = "delete"
  BY ThreadFacts DEF OwnerInv, RecordsStay, OwnerLabels
<1> QED
  BY <1>1, <1>2, <1>3, OwnersKept

\* The handler, done with an operation it does not own.
LEMMA HandlerKeeps ==
    ASSUME OwnerInv, pc[Handler] \notin OwnerLabels,
           pc'[Handler] \in {"idle", "delete", "body"},
           \A w \in Workers : pc'[w] = pc[w] /\ job'[w] = job[w],
           mem' = mem, queue' = queue, old' = old, result' = result,
           dropped' \subseteq dropped, dropped' # {} => pc'[Handler] = "delete"
    PROVE  OwnersFit' /\ RecordsStay'
<1>1. \A t \in Threads, op \in Ops : Owns(t, op)' <=> Owns(t, op)
  BY ThreadFacts DEF Owns, OwnerLabels
<1>2. ASSUME NEW t \in Threads, NEW op \in Ops, WorksOn(t, op)'
      PROVE  /\ WorksOn(t, op)
             /\ pc'[t] = "fields" <=> pc[t] = "fields"
             /\ pc'[t] \in {"reject", "save"} =>
                   pc'[t] = pc[t] /\ (t # Handler => result'[t] = result[t])
  <2>1. t # Handler
    BY <1>2 DEF WorksOn, OwnerLabels
  <2>2. t \in Workers
    BY <2>1, ThreadFacts
  <2> QED
    BY <1>2, <2>1, <2>2 DEF WorksOn
<1> QED
  BY <1>1, <1>2, OwnersKept

\* Nobody has anything to do with an operation that has no record.
LEMMA AbsentIsFree ==
    ASSUME OwnerInv, NEW op \in Ops, mem[op] = "absent"
    PROVE  ~Queued(op) /\ \A t \in Threads : ~WorksOn(t, op)
<1>1. ~Queued(op)
  BY DEF OwnerInv, OwnersFit
<1>2. ASSUME NEW t \in Threads, WorksOn(t, op)
      PROVE  FALSE
  <2>1. ~Owns(t, op)
    BY DEF OwnerInv, OwnersFit
  <2>2. pc[t] \in {"reject", "save"}
    BY <1>2, <2>1, OwnerWorks DEF WorksOn
  <2>3. mem[op] = IF t = Handler THEN "error" ELSE result[t]
    BY <1>2, <2>2 DEF OwnerInv, RecordsStay
  <2> QED
    BY <2>3, ThreadFacts DEF OwnerInv, TypeInv, TypeOK, Decided
<1> QED
  BY <1>1, <1>2

LEMMA CreateKeeps ==
    ASSUME OwnerInv, TypeInv', NEW op \in Ops, Create(op)
    PROVE  OwnersFit' /\ RecordsStay'
<1> USE ThreadFacts
<1>1. TypeInv /\ TypeOK /\ ThreadsFit /\ OwnersFit /\ RecordsStay
  BY DEF OwnerInv, TypeInv
<1>2. ~Queued(op) /\ (\A t \in Threads : ~WorksOn(t, op)) /\ mem[op] = "absent"
  BY AbsentIsFree DEF Create, Known
<1>3. ASSUME NEW t \in Threads, NEW o \in Ops
      PROVE  /\ WorksOn(t, o)' <=> WorksOn(t, o) \/ (t = Handler /\ o = op)
             /\ Owns(t, o)' <=> Owns(t, o) \/ (t = Handler /\ o = op)
  BY <1>1 DEF Create, Goto, HandlerIdle, Owns, WorksOn, OwnerLabels, TypeOK
<1>4. /\ \A o : Queued(o)' <=> Queued(o)
      /\ pc' = [pc EXCEPT ![Handler] = "create"] /\ pc' \in [Threads -> Labels]
      /\ mem' = [mem EXCEPT ![op] = "running"] /\ mem \in [Ops -> Records]
      /\ old' = old \ {op} /\ queue' = queue /\ result' = result
      /\ dropped = {} /\ dropped' = dropped /\ pc \in [Threads -> Labels]
  BY <1>1 DEF Create, Goto, HandlerIdle, Queued, storeVars, TypeInv, TypeOK, RecordsStay
<1>5. OwnersFit'
  <2>1. \A o \in Ops : mem'[o] \in {"running", "undecided"} => Queued(o)' \/ \E t \in Threads : Owns(t, o)'
    BY <1>1, <1>3, <1>4 DEF OwnersFit
  <2>2. \A o \in Ops : Queued(o)' => mem'[o] = "running"
    BY <1>1, <1>2, <1>4 DEF OwnersFit
  <2>3. ASSUME NEW t \in Threads, NEW o \in Ops, Owns(t, o)'
        PROVE  ~Queued(o)' /\ mem'[o] = IF pc'[t] = "fields" THEN "undecided" ELSE "running"
    <3>1. CASE t = Handler /\ o = op
      BY <1>2, <1>4, <3>1
    <3>2. CASE Owns(t, o)
      <4>1. o # op /\ t # Handler
        BY <1>2, <3>2, OwnerWorks DEF Create, HandlerIdle, Owns
      <4> QED
        BY <1>1, <1>4, <3>2, <4>1 DEF OwnersFit
    <3> QED
      BY <1>3, <2>3, <3>1, <3>2
  <2>4. \A t, u \in Threads, o \in Ops : WorksOn(t, o)' /\ WorksOn(u, o)' => t = u
    BY <1>1, <1>2, <1>3 DEF OwnersFit
  <2> QED
    BY <1>1, <1>4, <2>1, <2>2, <2>3, <2>4 DEF OwnersFit
<1>6. RecordsStay'
  <2>1. ASSUME NEW t \in Threads, NEW o \in Ops, WorksOn(t, o)', pc'[t] \in {"reject", "save"}
        PROVE  o \notin old' /\ mem'[o] = IF t = Handler THEN "error" ELSE result'[t]
    <3>1. t # Handler
      BY <1>4, <2>1
    <3>2. WorksOn(t, o) /\ o # op /\ pc'[t] = pc[t]
      BY <1>2, <1>3, <1>4, <2>1, <3>1
    <3> QED
      BY <1>1, <1>4, <2>1, <3>2 DEF RecordsStay
  <2> QED
    BY <1>1, <1>4, <2>1 DEF RecordsStay
<1> QED
  BY <1>5, <1>6

LEMMA EnqueueKeeps ==
    ASSUME OwnerInv, TypeInv', Enqueue
    PROVE  OwnersFit' /\ RecordsStay'
<1> DEFINE op == job[Handler]
<1> USE ThreadFacts
<1>1. TypeInv /\ TypeOK /\ ThreadsFit /\ OwnersFit /\ RecordsStay
  BY DEF OwnerInv, TypeInv
<1>2. op \in Ops /\ Owns(Handler, op) /\ WorksOn(Handler, op) /\ mem[op] = "running" /\ ~Queued(op)
  BY <1>1 DEF Enqueue, ThreadsFit, OwnersFit, Owns, WorksOn, OwnerLabels
<1>3. ASSUME NEW t \in Threads, NEW o \in Ops
      PROVE  /\ WorksOn(t, o)' <=> WorksOn(t, o) /\ t # Handler
             /\ Owns(t, o)' <=> Owns(t, o) /\ t # Handler
             /\ t # Handler => pc'[t] = pc[t]
  BY <1>1 DEF Enqueue, HandlerDone, Goto, Owns, WorksOn, OwnerLabels, TypeOK
<1>4. \A o : Queued(o)' <=> Queued(o) \/ o = op
  BY <1>1, <1>2, QueueGrows DEF Enqueue, TypeOK
<1>5. /\ mem' = mem /\ old' = old /\ dropped' = dropped /\ dropped = {} /\ result' = result
  BY <1>1 DEF Enqueue, storeVars, RecordsStay
<1>6. \A t \in Threads : Owns(t, op) => t = Handler
  BY <1>1, <1>2, OwnerWorks DEF OwnersFit
<1>7. \A i, j \in 1..Len(queue') : queue'[i] = queue'[j] => i = j
  <2>1. queue \in Seq(Ops) /\ queue' = Append(queue, op)
    BY <1>1 DEF Enqueue, TypeOK
  <2>2. /\ Len(queue') = Len(queue) + 1 /\ queue'[Len(queue) + 1] = op /\ Len(queue) \in Nat
        /\ \A i \in 1..Len(queue) : queue'[i] = queue[i] /\ queue[i] # op
    BY <1>2, <2>1 DEF Queued
  <2> QED
    BY <1>1, <2>2 DEF OwnersFit
<1>8. OwnersFit'
  <2>1. ASSUME NEW o \in Ops, mem'[o] \in {"running", "undecided"}
        PROVE  Queued(o)' \/ \E t \in Threads : Owns(t, o)'
    <3>1. Queued(o) \/ \E t \in Threads : Owns(t, o)
      BY <1>1, <1>5, <2>1 DEF OwnersFit
    <3>2. Owns(Handler, o) => o = op
      BY DEF Owns
    <3> QED
      BY <1>3, <1>4, <3>1, <3>2
  <2>2. \A o \in Ops : Queued(o)' => mem'[o] = "running"
    BY <1>1, <1>2, <1>4, <1>5 DEF OwnersFit
  <2>3. ASSUME NEW t \in Threads, NEW o \in Ops, Owns(t, o)'
        PROVE  ~Queued(o)' /\ mem'[o] = IF pc'[t] = "fields" THEN "undecided" ELSE "running"
    BY <1>1, <1>3, <1>4, <1>5, <1>6, <2>3 DEF OwnersFit
  <2>4. \A t, u \in Threads, o \in Ops : WorksOn(t, o)' /\ WorksOn(u, o)' => t = u
    BY <1>1, <1>3 DEF OwnersFit
  <2> QED
    BY <1>7, <2>1, <2>2, <2>3, <2>4 DEF OwnersFit
<1>9. RecordsStay'
  BY <1>1, <1>3, <1>5 DEF RecordsStay
<1> QED
  BY <1>8, <1>9

LEMMA QueueFullKeeps ==
    ASSUME OwnerInv, TypeInv', QueueFull
    PROVE  OwnersFit' /\ RecordsStay'
<1> DEFINE op == job[Handler]
<1> USE ThreadFacts
<1>1. TypeInv /\ TypeOK /\ ThreadsFit /\ OwnersFit /\ RecordsStay
  BY DEF OwnerInv, TypeInv
<1>2. op \in Ops /\ Owns(Handler, op) /\ WorksOn(Handler, op) /\ mem[op] = "running" /\ ~Queued(op)
  BY <1>1 DEF QueueFull, ThreadsFit, OwnersFit, Owns, WorksOn, OwnerLabels
<1>3. ASSUME NEW t \in Threads, NEW o \in Ops
      PROVE  /\ WorksOn(t, o)' <=> WorksOn(t, o)
             /\ Owns(t, o)' <=> Owns(t, o) /\ t # Handler
             /\ t # Handler => pc'[t] = pc[t]
  BY <1>1 DEF QueueFull, Goto, Owns, WorksOn, OwnerLabels, TypeOK
<1>4. \A o : Queued(o)' <=> Queued(o)
  BY DEF QueueFull, Queued
<1>5. /\ mem' = [mem EXCEPT ![op] = "error"] /\ mem \in [Ops -> Records]
      /\ old' = old /\ dropped' = dropped /\ dropped = {} /\ result' = result /\ queue' = queue
  BY <1>1 DEF QueueFull, MarkRejected, RecordsStay, TypeOK
<1>6. \A t \in Threads : WorksOn(t, op) => t = Handler
  BY <1>1, <1>2 DEF OwnersFit
<1>7. OwnersFit'
  <2>1. ASSUME NEW o \in Ops, mem'[o] \in {"running", "undecided"}
        PROVE  Queued(o)' \/ \E t \in Threads : Owns(t, o)'
    <3>1. o # op /\ mem[o] = mem'[o]
      BY <1>5, <2>1
    <3>2. ~Owns(Handler, o)
      BY <3>1 DEF Owns
    <3> QED
      BY <1>1, <1>3, <1>4, <2>1, <3>1, <3>2 DEF OwnersFit
  <2>2. \A o \in Ops : Queued(o)' => mem'[o] = "running"
    BY <1>1, <1>2, <1>4, <1>5 DEF OwnersFit
  <2>3. ASSUME NEW t \in Threads, NEW o \in Ops, Owns(t, o)'
        PROVE  ~Queued(o)' /\ mem'[o] = IF pc'[t] = "fields" THEN "undecided" ELSE "running"
    <3>1. Owns(t, o) /\ t # Handler /\ o # op
      BY <1>3, <1>6, <2>3, OwnerWorks
    <3> QED
      BY <1>1, <1>3, <1>4, <1>5, <3>1 DEF OwnersFit
  <2>4. \A t, u \in Threads, o \in Ops : WorksOn(t, o)' /\ WorksOn(u, o)' => t = u
    BY <1>1, <1>3 DEF OwnersFit
  <2> QED
    BY <1>1, <1>5, <2>1, <2>2, <2>3, <2>4 DEF OwnersFit
<1>8. RecordsStay'
  <2>1. op \notin old
    BY <1>1, <1>2 DEF RecordsStay
  <2>2. \A o \in Ops : mem'[o] \in {"running", "undecided"} => o \notin old'
    BY <1>1, <1>5 DEF RecordsStay
  <2>3. ASSUME NEW t \in Threads, NEW o \in Ops, WorksOn(t, o)', pc'[t] \in {"reject", "save"}
        PROVE  o \notin old' /\ mem'[o] = IF t = Handler THEN "error" ELSE result'[t]
    <3>1. CASE t = Handler
      <4>1. o = op
        BY <1>3, <2>3, <3>1 DEF WorksOn
      <4> QED
        BY <1>5, <2>1, <3>1, <4>1
    <3>2. CASE t # Handler
      <4>1. o # op /\ WorksOn(t, o) /\ pc'[t] = pc[t]
        BY <1>3, <1>6, <2>3, <3>2
      <4> QED
        BY <1>1, <1>5, <2>3, <4>1 DEF RecordsStay
    <3> QED
      BY <3>1, <3>2
  <2> QED
    BY <1>5, <2>2, <2>3 DEF RecordsStay
<1> QED
  BY <1>7, <1>8

LEMMA EvictKeeps ==
    ASSUME OwnerInv, TypeInv', NEW op \in Ops, Evict(op)
    PROVE  OwnersFit' /\ RecordsStay'
<1> USE ThreadFacts
<1>1. TypeInv /\ TypeOK /\ ThreadsFit /\ OwnersFit /\ RecordsStay
  BY DEF OwnerInv, TypeInv
<1>2. ASSUME NEW t \in Threads, NEW o \in Ops
      PROVE  /\ WorksOn(t, o)' <=> WorksOn(t, o)
             /\ Owns(t, o)' <=> Owns(t, o)
             /\ WorksOn(t, o) => t # Handler /\ pc'[t] = pc[t]
  BY <1>1 DEF Evict, HandlerIdle, Goto, Owns, WorksOn, OwnerLabels, TypeOK
<1>3. \A o : Queued(o)' <=> Queued(o)
  BY DEF Evict, Queued
<1>4. /\ mem' = [o \in Ops |-> IF o \in Expired THEN "absent" ELSE mem[o]]
      /\ dropped' = Expired /\ old' = old /\ result' = result /\ queue' = queue
      /\ pc'[Handler] = "delete"
  BY <1>1 DEF Evict, Goto, TypeOK
<1>5. \A o \in Ops : mem[o] \in {"running", "undecided"} => o \notin Expired
  BY DEF Expired, Decided
<1>6. \A t \in Threads, o \in Ops : WorksOn(t, o) => o \notin Expired
  BY <1>1, <1>5, OwnerWorks DEF OwnersFit, RecordsStay, Expired, WorksOn
<1>7. OwnersFit'
  <2>1. \A o \in Ops : mem'[o] \in {"running", "undecided"} => Queued(o)' \/ \E t \in Threads : Owns(t, o)'
    BY <1>1, <1>2, <1>3, <1>4 DEF OwnersFit
  <2>2. \A o \in Ops : Queued(o)' => mem'[o] = "running"
    BY <1>1, <1>3, <1>4, <1>5 DEF OwnersFit
  <2>3. ASSUME NEW t \in Threads, NEW o \in Ops, Owns(t, o)'
        PROVE  ~Queued(o)' /\ mem'[o] = IF pc'[t] = "fields" THEN "undecided" ELSE "running"
    <3>1. Owns(t, o) /\ WorksOn(t, o) /\ o \notin Expired /\ pc'[t] = pc[t]
      BY <1>2, <1>6, <2>3, OwnerWorks
    <3> QED
      BY <1>1, <1>3, <1>4, <3>1 DEF OwnersFit
  <2>4. \A t, u \in Threads, o \in Ops : WorksOn(t, o)' /\ WorksOn(u, o)' => t = u
    BY <1>1, <1>2 DEF OwnersFit
  <2> QED
    BY <1>1, <1>4, <2>1, <2>2, <2>3, <2>4 DEF OwnersFit
<1>8. RecordsStay'
  <2>1. ASSUME NEW t \in Threads, NEW o \in Ops, WorksOn(t, o)', pc'[t] \in {"reject", "save"}
        PROVE  o \notin old' /\ mem'[o] = IF t = Handler THEN "error" ELSE result'[t]
    <3>1. WorksOn(t, o) /\ o \notin Expired /\ pc'[t] = pc[t]
      BY <1>2, <1>6, <2>1
    <3> QED
      BY <1>1, <1>4, <2>1, <3>1 DEF RecordsStay
  <2>2. \A o \in Ops : mem'[o] \in {"running", "undecided"} => o \notin old'
    BY <1>1, <1>4 DEF RecordsStay
  <2>3. \A o \in dropped' : mem'[o] = "absent"
    BY <1>1, <1>4 DEF TypeOK, Expired
  <2> QED
    BY <1>4, <2>1, <2>2, <2>3 DEF RecordsStay
<1> QED
  BY <1>7, <1>8

LEMMA TakeKeeps ==
    ASSUME OwnerInv, TypeInv', NEW w \in Workers, Take(w)
    PROVE  OwnersFit' /\ RecordsStay'
<1> DEFINE op == Head(queue)
<1> USE ThreadFacts
<1>1. TypeInv /\ TypeOK /\ ThreadsFit /\ OwnersFit /\ RecordsStay
  BY DEF OwnerInv, TypeInv
<1>2. /\ op \in Ops /\ Queued(op) /\ mem[op] = "running"
      /\ \A o : Queued(o)' <=> Queued(o) /\ o # op
      /\ \A i, j \in 1..Len(queue') : queue'[i] = queue'[j] => i = j
  BY <1>1, QueueShrinks DEF Take, TypeOK, OwnersFit
<1>3. \A t \in Threads : ~WorksOn(t, op)
  <2>1. \A t \in Threads : ~Owns(t, op)
    BY <1>1, <1>2 DEF OwnersFit
  <2>2. ASSUME NEW t \in Threads, WorksOn(t, op), pc[t] \in {"reject", "save"}
        PROVE  FALSE
    BY <1>1, <1>2, <2>2 DEF RecordsStay, TypeOK, Decided
  <2> QED
    BY <2>1, <2>2, OwnerWorks DEF WorksOn
<1>4. ASSUME NEW t \in Threads, NEW o \in Ops
      PROVE  /\ WorksOn(t, o)' <=> WorksOn(t, o) \/ (t = w /\ o = op)
             /\ Owns(t, o)' <=> Owns(t, o) \/ (t = w /\ o = op)
             /\ t # w => pc'[t] = pc[t]
             /\ WorksOn(t, o) => t # w
  BY <1>1 DEF Take, At, Goto, Owns, WorksOn, OwnerLabels, TypeOK
<1>5. /\ mem' = mem /\ old' = old /\ dropped' = dropped /\ result' = result
      /\ pc'[w] = "prepare" /\ pc'[Handler] = pc[Handler]
  BY <1>1 DEF Take, Goto, storeVars, TypeOK
<1>6. OwnersFit'
  <2>1. \A o \in Ops : mem'[o] \in {"running", "undecided"} => Queued(o)' \/ \E t \in Threads : Owns(t, o)'
    BY <1>1, <1>2, <1>4, <1>5 DEF OwnersFit
  <2>2. \A o \in Ops : Queued(o)' => mem'[o] = "running"
    BY <1>1, <1>2, <1>5 DEF OwnersFit
  <2>3. ASSUME NEW t \in Threads, NEW o \in Ops, Owns(t, o)'
        PROVE  ~Queued(o)' /\ mem'[o] = IF pc'[t] = "fields" THEN "undecided" ELSE "running"
    <3>1. CASE t = w /\ o = op
      BY <1>2, <1>5, <3>1
    <3>2. CASE Owns(t, o)
      <4>1. t # w
        BY <1>4, <3>2, OwnerWorks
      <4> QED
        BY <1>1, <1>2, <1>4, <1>5, <3>2, <4>1 DEF OwnersFit
    <3> QED
      BY <1>4, <2>3, <3>1, <3>2
  <2>4. \A t, u \in Threads, o \in Ops : WorksOn(t, o)' /\ WorksOn(u, o)' => t = u
    BY <1>1, <1>3, <1>4 DEF OwnersFit
  <2> QED
    BY <1>2, <2>1, <2>2, <2>3, <2>4 DEF OwnersFit
<1>7. RecordsStay'
  <2>1. ASSUME NEW t \in Threads, NEW o \in Ops, WorksOn(t, o)', pc'[t] \in {"reject", "save"}
        PROVE  o \notin old' /\ mem'[o] = IF t = Handler THEN "error" ELSE result'[t]
    <3>1. t # w /\ WorksOn(t, o) /\ pc'[t] = pc[t]
      BY <1>4, <1>5, <2>1
    <3> QED
      BY <1>1, <1>5, <2>1, <3>1 DEF RecordsStay
  <2> QED
    BY <1>1, <1>5, <2>1 DEF RecordsStay
<1> QED
  BY <1>6, <1>7

LEMMA SetStatusKeeps ==
    ASSUME OwnerInv, TypeInv', NEW w \in Workers, SetStatus(w)
    PROVE  OwnersFit' /\ RecordsStay'
<1> DEFINE op == job[w]
<1> USE ThreadFacts
<1>1. TypeInv /\ TypeOK /\ ThreadsFit /\ OwnersFit /\ RecordsStay
  BY DEF OwnerInv, TypeInv
<1>2. op \in Ops /\ WorksOn(w, op) /\ Owns(w, op)
  BY <1>1 DEF SetStatus, At, ThreadsFit, WorksOn, Owns, OwnerLabels
<1>3. ASSUME NEW t \in Threads, NEW o \in Ops
      PROVE  /\ WorksOn(t, o)' <=> WorksOn(t, o)
             /\ Owns(t, o)' <=> Owns(t, o)
             /\ t # w => pc'[t] = pc[t]
             /\ WorksOn(t, op) => t = w
             /\ WorksOn(w, o) => o = op
  BY <1>1, <1>2 DEF SetStatus, At, Goto, Owns, WorksOn, OwnerLabels, TypeOK, OwnersFit
<1>4. /\ mem' = [mem EXCEPT ![op] = "undecided"] /\ mem \in [Ops -> Records]
      /\ old' = old /\ dropped' = dropped /\ result' = result /\ queue' = queue
      /\ pc'[w] = "fields" /\ pc'[Handler] = pc[Handler]
  BY <1>1 DEF SetStatus, Goto, TypeOK
<1>5. (\A o : Queued(o)' <=> Queued(o)) /\ ~Queued(op) /\ mem[op] \in {"running", "undecided"}
  BY <1>1, <1>2 DEF SetStatus, Queued, OwnersFit
<1>6. OwnersFit'
  <2>1. \A o \in Ops : mem'[o] \in {"running", "undecided"} => Queued(o)' \/ \E t \in Threads : Owns(t, o)'
    BY <1>1, <1>2, <1>3, <1>4, <1>5 DEF OwnersFit
  <2>2. \A o \in Ops : Queued(o)' => mem'[o] = "running"
    BY <1>1, <1>4, <1>5 DEF OwnersFit
  <2>3. ASSUME NEW t \in Threads, NEW o \in Ops, Owns(t, o)'
        PROVE  ~Queued(o)' /\ mem'[o] = IF pc'[t] = "fields" THEN "undecided" ELSE "running"
    <3>1. CASE t = w
      BY <1>3, <1>4, <1>5, <2>3, <3>1, OwnerWorks
    <3>2. CASE t # w
      <4>1. o # op
        BY <1>3, <2>3, <3>2, OwnerWorks
      <4> QED
        BY <1>1, <1>3, <1>4, <1>5, <2>3, <3>2, <4>1 DEF OwnersFit
    <3> QED
      BY <3>1, <3>2
  <2>4. \A t, u \in Threads, o \in Ops : WorksOn(t, o)' /\ WorksOn(u, o)' => t = u
    BY <1>1, <1>3 DEF OwnersFit
  <2> QED
    BY <1>1, <1>4, <2>1, <2>2, <2>3, <2>4 DEF OwnersFit
<1>7. RecordsStay'
  <2>1. ASSUME NEW t \in Threads, NEW o \in Ops, WorksOn(t, o)', pc'[t] \in {"reject", "save"}
        PROVE  o \notin old' /\ mem'[o] = IF t = Handler THEN "error" ELSE result'[t]
    <3>1. t # w
      BY <1>4, <2>1
    <3>2. o # op /\ WorksOn(t, o) /\ pc'[t] = pc[t]
      BY <1>3, <2>1, <3>1
    <3> QED
      BY <1>1, <1>4, <2>1, <3>2 DEF RecordsStay
  <2>2. \A o \in Ops : mem'[o] \in {"running", "undecided"} => o \notin old'
    BY <1>1, <1>4, <1>5 DEF RecordsStay
  <2>3. \A o \in dropped' : mem'[o] = "absent"
    BY <1>1, <1>4, <1>5 DEF RecordsStay
  <2> QED
    BY <1>1, <1>4, <2>1, <2>2, <2>3 DEF RecordsStay
<1> QED
  BY <1>6, <1>7

LEMMA SetFieldsKeeps ==
    ASSUME OwnerInv, TypeInv', NEW w \in Workers, SetFields(w)
    PROVE  OwnersFit' /\ RecordsStay'
<1> DEFINE op == job[w]
<1> USE ThreadFacts
<1>1. TypeInv /\ TypeOK /\ ThreadsFit /\ OwnersFit /\ RecordsStay
  BY DEF OwnerInv, TypeInv
<1>2. op \in Ops /\ WorksOn(w, op) /\ Owns(w, op) /\ result[w] \in Decided
  BY <1>1 DEF SetFields, At, ThreadsFit, WorksOn, Owns, OwnerLabels, TypeOK
<1>3. ASSUME NEW t \in Threads, NEW o \in Ops
      PROVE  /\ WorksOn(t, o)' <=> WorksOn(t, o)
             /\ Owns(t, o)' <=> Owns(t, o) /\ t # w
             /\ t # w => pc'[t] = pc[t]
             /\ WorksOn(t, op) => t = w
             /\ WorksOn(w, o) => o = op
  BY <1>1, <1>2 DEF SetFields, At, Goto, Owns, WorksOn, OwnerLabels, TypeOK, OwnersFit
<1>4. /\ mem' = [mem EXCEPT ![op] = result[w]] /\ mem \in [Ops -> Records]
      /\ old' = old /\ dropped' = dropped /\ result' = result /\ queue' = queue
      /\ pc'[w] = "save" /\ pc'[Handler] = pc[Handler]
  BY <1>1 DEF SetFields, Goto, TypeOK
<1>5. /\ \A o : Queued(o)' <=> Queued(o)
      /\ ~Queued(op) /\ mem[op] = "undecided" /\ op \notin old
  BY <1>1, <1>2 DEF SetFields, At, Queued, OwnersFit, RecordsStay
<1>6. OwnersFit'
  <2>1. ASSUME NEW o \in Ops, mem'[o] \in {"running", "undecided"}
        PROVE  Queued(o)' \/ \E t \in Threads : Owns(t, o)'
    <3>1. o # op /\ mem[o] = mem'[o] /\ ~Owns(w, o)
      BY <1>2, <1>3, <1>4, <2>1, OwnerWorks DEF Decided
    <3> QED
      BY <1>1, <1>3, <1>5, <2>1, <3>1 DEF OwnersFit
  <2>2. \A o \in Ops : Queued(o)' => mem'[o] = "running"
    BY <1>1, <1>4, <1>5 DEF OwnersFit
  <2>3. ASSUME NEW t \in Threads, NEW o \in Ops, Owns(t, o)'
        PROVE  ~Queued(o)' /\ mem'[o] = IF pc'[t] = "fields" THEN "undecided" ELSE "running"
    <3>1. t # w /\ Owns(t, o) /\ o # op
      BY <1>3, <2>3, OwnerWorks
    <3> QED
      BY <1>1, <1>3, <1>4, <1>5, <3>1 DEF OwnersFit
  <2>4. \A t, u \in Threads, o \in Ops : WorksOn(t, o)' /\ WorksOn(u, o)' => t = u
    BY <1>1, <1>3 DEF OwnersFit
  <2> QED
    BY <1>1, <1>4, <2>1, <2>2, <2>3, <2>4 DEF OwnersFit
<1>7. RecordsStay'
  <2>1. ASSUME NEW t \in Threads, NEW o \in Ops, WorksOn(t, o)', pc'[t] \in {"reject", "save"}
        PROVE  o \notin old' /\ mem'[o] = IF t = Handler THEN "error" ELSE result'[t]
    <3>1. CASE t = w
      BY <1>3, <1>4, <1>5, <2>1, <3>1
    <3>2. CASE t # w
      <4>1. o # op /\ WorksOn(t, o) /\ pc'[t] = pc[t]
        BY <1>3, <2>1, <3>2
      <4> QED
        BY <1>1, <1>4, <2>1, <4>1 DEF RecordsStay
    <3> QED
      BY <3>1, <3>2
  <2>2. \A o \in Ops : mem'[o] \in {"running", "undecided"} => o \notin old'
    BY <1>1, <1>4, <1>5 DEF RecordsStay
  <2>3. \A o \in dropped' : mem'[o] = "absent"
    BY <1>1, <1>4, <1>5 DEF RecordsStay
  <2> QED
    BY <1>1, <1>4, <2>1, <2>2, <2>3 DEF RecordsStay
<1> QED
  BY <1>6, <1>7

LEMMA SaveDoneKeeps ==
    ASSUME OwnerInv, TypeInv', NEW w \in Workers, SaveDone(w)
    PROVE  OwnersFit' /\ RecordsStay'
<1> USE ThreadFacts
<1>1. TypeInv /\ TypeOK /\ RecordsStay
  BY DEF OwnerInv, TypeInv
<1>2. \A t \in Threads, op \in Ops : Owns(t, op)' <=> Owns(t, op)
  BY <1>1 DEF SaveDone, At, Goto, Owns, TypeOK
<1>3. ASSUME NEW t \in Threads, NEW op \in Ops, WorksOn(t, op)'
      PROVE  /\ WorksOn(t, op)
             /\ pc'[t] = "fields" <=> pc[t] = "fields"
             /\ pc'[t] \in {"reject", "save"} =>
                   pc'[t] = pc[t] /\ (t # Handler => result'[t] = result[t])
  BY <1>1, <1>3 DEF SaveDone, At, Goto, WorksOn, OwnerLabels, TypeOK
<1>4. /\ mem' = mem /\ queue' = queue /\ old' = old /\ dropped' = dropped
      /\ dropped' # {} => pc'[Handler] = "delete"
  BY <1>1 DEF SaveDone, Goto, TypeOK, RecordsStay
<1> QED
  BY <1>2, <1>3, <1>4, OwnersKept

LEMMA ExpireKeeps ==
    ASSUME OwnerInv, TypeInv', NEW op \in Ops, Expire(op)
    PROVE  OwnersFit' /\ RecordsStay'
<1>1. TypeInv /\ TypeOK /\ OwnersFit /\ RecordsStay
  BY DEF OwnerInv, TypeInv
<1>2. /\ mem' = mem /\ queue' = queue /\ pc' = pc /\ job' = job /\ result' = result
      /\ dropped' = dropped /\ old' = old \cup {op} /\ mem[op] \in Decided
  BY DEF Expire, threadVars
<1>3. /\ \A o : Queued(o)' <=> Queued(o)
      /\ \A t, o : (Owns(t, o)' <=> Owns(t, o)) /\ (WorksOn(t, o)' <=> WorksOn(t, o))
  BY <1>2 DEF Queued, Owns, WorksOn
<1>4. \A t \in Threads : ~WorksOn(t, op)
  BY DEF Expire, WorksOn, OwnerLabels
<1>5. OwnersFit'
  BY <1>1, <1>2, <1>3 DEF OwnersFit
<1>6. RecordsStay'
  BY <1>1, <1>2, <1>3, <1>4 DEF RecordsStay, Decided
<1> QED
  BY <1>5, <1>6

\* A restart leaves finished records only, and nobody at work.
LEMMA CrashKeeps ==
    ASSUME OwnerInv, TypeInv', Crash
    PROVE  OwnersFit' /\ RecordsStay'
<1>1. \A op \in Ops : mem'[op] \notin {"running", "undecided"}
  <2>1. CASE LoadAndRecover
    <3>1. \A op \in Ops : db[op] \in Rows
      BY DEF OwnerInv, TypeInv, TypeOK
    <3> QED
      BY <2>1, <3>1 DEF LoadAndRecover, Recovered, Rows, Decided
  <2>2. CASE InMemoryOnly
    BY <2>2 DEF InMemoryOnly
  <2> QED
    BY <2>1, <2>2 DEF Crash
<1>2. /\ \A o : ~Queued(o)'
      /\ \A t \in Threads, o \in Ops : ~Owns(t, o)' /\ ~WorksOn(t, o)'
      /\ dropped' = {} /\ queue' = <<>>
  BY DEF Crash, Queued, Owns, WorksOn, OwnerLabels
<1>3. OwnersFit'
  BY <1>1, <1>2 DEF OwnersFit
<1>4. RecordsStay'
  BY <1>1, <1>2 DEF RecordsStay
<1> QED
  BY <1>3, <1>4

LEMMA OwnerStep == OwnerInv /\ [Next]_vars => OwnerInv'
<1> SUFFICES ASSUME OwnerInv, [Next]_vars
             PROVE  OwnersFit' /\ RecordsStay'
  BY TypeStep DEF OwnerInv
<1>0. TypeInv' /\ TypeInv /\ TypeOK /\ ThreadsFit /\ RecordsStay
  BY TypeStep DEF OwnerInv, TypeInv
<1> USE ThreadFacts DEF storeVars, threadVars, bedrockVars, Goto, HandlerDone, HandlerIdle, At, End
<1>1. ASSUME NEW op \in Ops, Duplicate(op) PROVE OwnersFit' /\ RecordsStay'
  BY <1>0, <1>1, HandlerKeeps DEF Duplicate, OwnerLabels, RecordsStay
<1>2. ASSUME NEW op \in Ops, Create(op) PROVE OwnersFit' /\ RecordsStay'
  BY <1>0, <1>2, CreateKeeps
<1>3. ASSUME NEW op \in Ops, Evict(op) PROVE OwnersFit' /\ RecordsStay'
  BY <1>0, <1>3, EvictKeeps
<1>4. CASE Created
  BY <1>0, <1>4, MoveKeeps DEF Created, OwnerLabels, TypeOK
<1>5. CASE Enqueue
  BY <1>0, <1>5, EnqueueKeeps
<1>6. CASE QueueFull
  BY <1>0, <1>6, QueueFullKeeps
<1>7. CASE SaveRejected
  BY <1>0, <1>7, HandlerKeeps DEF SaveRejected, OwnerLabels, RecordsStay, TypeOK
<1>8. ASSUME NEW op \in Ops, DeleteRow(op) PROVE OwnersFit' /\ RecordsStay'
  BY <1>0, <1>8, HandlerKeeps DEF DeleteRow, OwnerLabels
<1>9. CASE ReadStatus
  BY <1>0, <1>9, HandlerKeeps DEF ReadStatus, OwnerLabels, TypeOK
<1>10. CASE ReadBody
  BY <1>0, <1>10, HandlerKeeps DEF ReadBody, OwnerLabels, RecordsStay, TypeOK
<1>11. ASSUME NEW w \in Workers, Take(w) PROVE OwnersFit' /\ RecordsStay'
  BY <1>0, <1>11, TakeKeeps
<1>12. ASSUME NEW w \in Workers, Prepare(w) PROVE OwnersFit' /\ RecordsStay'
  BY <1>0, <1>12, MoveKeeps DEF Prepare, OwnerLabels, TypeOK
<1>13. ASSUME NEW w \in Workers, Written(w) PROVE OwnersFit' /\ RecordsStay'
  BY <1>0, <1>13, MoveKeeps DEF Written, OwnerLabels, TypeOK
<1>14. ASSUME NEW w \in Workers, PrepareFails(w) PROVE OwnersFit' /\ RecordsStay'
  BY <1>0, <1>14, MoveKeeps DEF PrepareFails, OwnerLabels, TypeOK
<1>15. ASSUME NEW w \in Workers, Restart(w) PROVE OwnersFit' /\ RecordsStay'
  BY <1>0, <1>15, MoveKeeps DEF Restart, OwnerLabels, TypeOK
<1>16. ASSUME NEW w \in Workers, RestartReturns(w) PROVE OwnersFit' /\ RecordsStay'
  BY <1>0, <1>16, MoveKeeps DEF RestartReturns, OwnerLabels, TypeOK
<1>17. ASSUME NEW w \in Workers, RestartFails(w) PROVE OwnersFit' /\ RecordsStay'
  BY <1>0, <1>17, MoveKeeps DEF RestartFails, OwnerLabels, TypeOK
<1>18. ASSUME NEW w \in Workers, HealthWait(w) PROVE OwnersFit' /\ RecordsStay'
  BY <1>0, <1>18, MoveKeeps DEF HealthWait, OwnerLabels, TypeOK
<1>19. ASSUME NEW w \in Workers, SetStatus(w) PROVE OwnersFit' /\ RecordsStay'
  BY <1>0, <1>19, SetStatusKeeps
<1>20. ASSUME NEW w \in Workers, SetFields(w) PROVE OwnersFit' /\ RecordsStay'
  BY <1>0, <1>20, SetFieldsKeeps
<1>21. ASSUME NEW w \in Workers, SaveDone(w) PROVE OwnersFit' /\ RecordsStay'
  BY <1>0, <1>21, SaveDoneKeeps
<1>22. ASSUME NEW op \in Ops, Expire(op) PROVE OwnersFit' /\ RecordsStay'
  BY <1>0, <1>22, ExpireKeeps
<1>23. CASE Crash
  BY <1>0, <1>23, CrashKeeps
<1>24. ASSUME UNCHANGED <<storeVars, threadVars>> PROVE OwnersFit' /\ RecordsStay'
  <2>1. \A t \in Threads, op \in Ops :
           /\ Owns(t, op)' <=> Owns(t, op)
           /\ WorksOn(t, op)' <=> WorksOn(t, op)
    BY <1>24 DEF Owns, WorksOn
  <2> QED
    BY <1>0, <1>24, <2>1, OwnersKept DEF RecordsStay
<1> HIDE DEF storeVars, threadVars, bedrockVars, Goto, HandlerDone, HandlerIdle, At, End
<1>25. \A op \in Ops : DaemonRestarts(op) => UNCHANGED <<storeVars, threadVars>>
  BY DEF DaemonRestarts
<1>26. UNCHANGED vars => UNCHANGED <<storeVars, threadVars>>
  BY DEF vars
<1> QED
  BY <1>1, <1>2, <1>3, <1>4, <1>5, <1>6, <1>7, <1>8, <1>9, <1>10, <1>11, <1>12, <1>13,
     <1>14, <1>15, <1>16, <1>17, <1>18, <1>19, <1>20, <1>21, <1>22, <1>23, <1>24, <1>25, <1>26
     DEF Next, Request, HandlerStep, WorkerStep

LEMMA OwnerInit == Init => OwnerInv
<1> SUFFICES ASSUME Init
             PROVE  OwnersFit /\ RecordsStay
  BY TypeInit DEF OwnerInv
<1>1. /\ \A op \in Ops : ~Queued(op) /\ mem[op] = "absent"
      /\ \A t \in Threads : \A op : ~WorksOn(t, op) /\ ~Owns(t, op)
  BY ThreadFacts DEF Init, Queued, WorksOn, Owns, OwnerLabels
<1> QED
  BY <1>1 DEF Init, OwnersFit, RecordsStay

-----------------------------------------------------------------------------
(* Rows, while no SQLite call has failed.                                  *)

\* A failure is never forgotten, so a state without one follows from another.
LEMMA FaultsStay == OwnerInv /\ [Next]_vars /\ faults' = 0 => faults = 0
<1> SUFFICES ASSUME OwnerInv, [Next]_vars, faults' = 0
             PROVE  faults = 0
  OBVIOUS
<1>1. faults \in Nat
  BY BoundsAssumption DEF OwnerInv, TypeInv, TypeOK
<1>2. \A op, r : Persist(op, r) => faults' = faults \/ faults' = faults + 1
  BY DEF Persist
<1>3. [Next]_vars => faults' = faults \/ faults' = faults + 1
  BY <1>2 DEF Next, Request, HandlerStep, WorkerStep, Duplicate, Create, Evict, Created, SaveCreated,
     Enqueue, QueueFull, SaveRejected, DeleteRow, DropRow, ReadStatus, ReadBody, Take, Prepare, Written,
     PrepareFails, Restart, RestartReturns, RestartFails, HealthWait, SetStatus, SetFields, SaveDone,
     BeginStage, DaemonRestarts, Expire, Crash, LoadAndRecover, InMemoryOnly, vars
<1> QED
  BY <1>1, <1>3

LEMMA Persisted ==
    ASSUME DurableInv, faults = 0, faults' = 0, NEW op, NEW r, Persist(op, r)
    PROVE  db' = [db EXCEPT ![op] = r]
BY DEF DurableInv, Persist

\* What is known of an operation while a thread works on it.
LEMMA AtWork ==
    ASSUME OwnerInv, DurableInv, faults = 0,
           NEW t \in Threads, pc[t] \in OwnerLabels \cup {"reject", "save"}
    PROVE  /\ job[t] \in Ops /\ WorksOn(t, job[t]) /\ ~Queued(job[t])
           /\ \A u \in Threads : WorksOn(u, job[t]) => u = t
           /\ pc[t] # "create" => db[job[t]] = "running"
           /\ pc[t] \in OwnerLabels \ {"fields"} => mem[job[t]] = "running"
           /\ pc[t] = "fields" => mem[job[t]] = "undecided"
           /\ pc[t] \in {"reject", "save"} => mem[job[t]] = IF t = Handler THEN "error" ELSE result[t]
<1> DEFINE op == job[t]
<1>1. TypeOK /\ ThreadsFit /\ OwnersFit /\ RecordsStay
  BY DEF OwnerInv, TypeInv
<1>2. op \in Ops
  BY <1>1, ThreadFacts DEF ThreadsFit, OwnerLabels
<1>3. WorksOn(t, op)
  BY DEF WorksOn
<1>4. \A u \in Threads : WorksOn(u, op) => u = t
  BY <1>1, <1>2, <1>3 DEF OwnersFit
<1>5. pc[t] # "create" => db[op] = "running"
  BY <1>2, <1>3 DEF DurableInv, RowFollows
<1>6. CASE pc[t] \in OwnerLabels
  <2>1. Owns(t, op)
    BY <1>3, <1>6, OwnerWorks
  <2> QED
    BY <1>1, <1>2, <1>3, <1>4, <1>5, <1>6, <2>1 DEF OwnersFit, OwnerLabels
<1>7. CASE pc[t] \in {"reject", "save"}
  <2>1. mem[op] = IF t = Handler THEN "error" ELSE result[t]
    BY <1>1, <1>2, <1>3, <1>7 DEF RecordsStay
  <2>2. mem[op] \in Decided
    BY <1>1, <2>1, ThreadFacts DEF TypeOK, Decided
  <2>3. ~Queued(op)
    BY <1>1, <1>2, <2>2 DEF OwnersFit, Decided
  <2> QED
    BY <1>2, <1>3, <1>4, <1>5, <1>7, <2>1, <2>3 DEF OwnerLabels
<1> QED
  BY <1>6, <1>7

\* A stage begins by writing what the row already says.
LEMMA StageKeepsRows ==
    ASSUME OwnerInv, DurableInv, faults = 0, faults' = 0, NEW w \in Workers,
           pc[w] \in {"prepare", "restart", "restarting"}, BeginStage(w)
    PROVE  db' = db
<1>1. job[w] \in Ops /\ db[job[w]] = "running" /\ mem[job[w]] = "running"
  BY AtWork, ThreadFacts DEF OwnerLabels
<1>2. db' = [db EXCEPT ![job[w]] = mem[job[w]]]
  BY Persisted DEF BeginStage
<1> QED
  BY <1>1, <1>2 DEF OwnerInv, TypeInv, TypeOK

\* A step that touches neither the record nor the row, and starts no work on them.
LEMMA RowKept ==
    ASSUME NEW o \in Ops, RowFollows(o), mem'[o] = mem[o], db'[o] = db[o], o \in dropped => o \in dropped',
           pc[Handler] = "create" /\ job[Handler] = o => pc'[Handler] = "create" /\ job'[Handler] = o,
           \A t \in Threads : WorksOn(t, o) /\ pc[t] \in {"reject", "save"} =>
                                 WorksOn(t, o)' /\ pc'[t] \in {"reject", "save"},
           \A t \in Threads : WorksOn(t, o)' /\ pc'[t] # "create" => WorksOn(t, o) /\ pc[t] # "create"
    PROVE  RowFollows(o)'
BY DEF RowFollows

\* Rows follow the records, step by step.
LEMMA RowStep ==
    ASSUME OwnerInv, OwnerInv', DurableInv, [Next]_vars, faults' = 0, NEW o \in Ops
    PROVE  RowFollows(o)'
<1> USE ThreadFacts
<1>0. /\ TypeOK /\ ThreadsFit /\ OwnersFit /\ RecordsStay
      /\ TypeOK' /\ ThreadsFit' /\ OwnersFit' /\ RecordsStay'
  BY DEF OwnerInv, TypeInv
<1>a. faults = 0 /\ RowFollows(o)
  BY FaultsStay DEF DurableInv
\* A worker that moves on with its operation; the handler that only looks.
<1>b. ASSUME NEW w \in Workers, pc[w] \in OwnerLabels, NEW l \in OwnerLabels \ {"create"},
             Goto(w, l), UNCHANGED <<job, db, dropped>>, mem'[o] = mem[o]
      PROVE  RowFollows(o)'
  <2>1. /\ pc'[w] = l /\ \A t \in Threads \ {w} : pc'[t] = pc[t]
    BY <1>0, <1>b DEF Goto, TypeOK
  <2>2. pc[w] # "create"
    BY <1>0, <1>b DEF ThreadsFit, WorkerLabels
  <2> QED
    BY <1>a, <1>b, <2>1, <2>2, RowKept DEF WorksOn, OwnerLabels
<1>c. ASSUME pc[Handler] \notin OwnerLabels \cup {"reject"}, pc'[Handler] \notin OwnerLabels \cup {"reject", "save"},
             \A w \in Workers : pc'[w] = pc[w] /\ job'[w] = job[w],
             mem'[o] = mem[o], db'[o] = db[o], o \in dropped => o \in dropped'
      PROVE  RowFollows(o)'
  <2>1. /\ pc[Handler] # "save" /\ pc[Handler] # "create"
    BY <1>0, <1>c DEF ThreadsFit, HandlerLabels, OwnerLabels
  <2>2. \A t \in Threads : (WorksOn(t, o) \/ WorksOn(t, o)') => t # Handler /\ t \in Workers
    BY <1>c, <2>1 DEF WorksOn
  <2> QED
    BY <1>a, <1>c, <2>1, <2>2, RowKept DEF WorksOn
<1>d. ASSUME UNCHANGED <<mem, db, dropped, pc, job>>
      PROVE  RowFollows(o)'
  BY <1>a, <1>d, RowKept DEF WorksOn
<1>1. ASSUME NEW op \in Ops, Duplicate(op) PROVE RowFollows(o)'
  BY <1>1, <1>d DEF Duplicate, storeVars, threadVars
<1>2. ASSUME NEW op \in Ops, Create(op) PROVE RowFollows(o)'
  <2>1. /\ pc'[Handler] = "create" /\ job'[Handler] = op
        /\ \A w \in Workers : pc'[w] = pc[w] /\ job'[w] = job[w]
    BY <1>0, <1>2 DEF Create, Goto, TypeOK
  <2>2. CASE o = op
    <3>1. mem'[o] = "running" /\ \A t \in Threads : WorksOn(t, o) => FALSE
      BY <1>0, <1>2, <2>2, AbsentIsFree DEF Create, Known, TypeOK
    <3> QED
      BY <2>1, <2>2, <3>1 DEF RowFollows, WorksOn, Decided
  <2>3. CASE o # op
    <3>1. mem'[o] = mem[o] /\ db'[o] = db[o] /\ dropped' = dropped /\ pc[Handler] = "idle"
      BY <1>0, <1>2, <2>3 DEF Create, HandlerIdle, TypeOK
    <3> QED
      BY <1>a, <2>1, <2>3, <3>1, RowKept DEF WorksOn, OwnerLabels
  <2> QED
    BY <2>2, <2>3
<1>3. ASSUME NEW op \in Ops, Evict(op) PROVE RowFollows(o)'
  <2>1. /\ pc'[Handler] = "delete" /\ pc[Handler] = "idle" /\ dropped = {}
        /\ \A w \in Workers : pc'[w] = pc[w] /\ job'[w] = job[w]
    BY <1>0, <1>3 DEF Evict, HandlerIdle, Goto, TypeOK, RecordsStay
  <2>2. CASE o \in Expired
    <3>1. /\ mem'[o] = "absent" /\ o \in dropped'
          /\ \A t \in Threads : WorksOn(t, o)' => WorksOn(t, o) /\ pc[t] = pc'[t]
          /\ db' = db
      BY <1>3, <2>1, <2>2 DEF Evict, WorksOn, OwnerLabels
    <3> QED
      BY <1>a, <3>1 DEF RowFollows, Decided
  <2>3. CASE o \notin Expired
    BY <1>c, <1>3, <2>1, <2>3 DEF Evict, OwnerLabels
  <2> QED
    BY <2>2, <2>3
<1>4. CASE Created
  <2> DEFINE op == job[Handler]
  <2>1. /\ op \in Ops /\ mem[op] = "running" /\ db' = [db EXCEPT ![op] = "running"]
        /\ \A u \in Threads : WorksOn(u, op) => u = Handler
    BY <1>4, <1>a, AtWork, Persisted DEF Created, SaveCreated, OwnerLabels
  <2>2. /\ pc'[Handler] = "enqueue" /\ mem' = mem /\ dropped' = dropped /\ job' = job
        /\ \A w \in Workers : pc'[w] = pc[w]
    BY <1>0, <1>4 DEF Created, Goto, TypeOK
  <2>3. CASE o = op
    BY <1>0, <2>1, <2>2, <2>3 DEF RowFollows, Decided, TypeOK
  <2>4. CASE o # op
    BY <1>0, <1>a, <2>1, <2>2, <2>4, RowKept DEF WorksOn, TypeOK
  <2> QED
    BY <2>3, <2>4
<1>5. CASE Enqueue
  <2>1. /\ pc[Handler] = "enqueue" /\ pc'[Handler] = "idle" /\ mem' = mem /\ db' = db /\ dropped' = dropped
        /\ \A w \in Workers : pc'[w] = pc[w] /\ job'[w] = job[w]
    BY <1>0, <1>5 DEF Enqueue, HandlerDone, Goto, storeVars, TypeOK
  <2> QED
    BY <1>a, <2>1, RowKept DEF WorksOn, OwnerLabels
<1>6. CASE QueueFull
  <2> DEFINE op == job[Handler]
  <2>1. /\ op \in Ops /\ db[op] = "running" /\ WorksOn(Handler, op) /\ pc[Handler] = "enqueue"
    BY <1>6, <1>a, AtWork DEF QueueFull, OwnerLabels
  <2>2. /\ pc'[Handler] = "reject" /\ db' = db /\ dropped' = dropped /\ job' = job
        /\ \A w \in Workers : pc'[w] = pc[w]
        /\ mem' = [mem EXCEPT ![op] = "error"]
    BY <1>0, <1>6 DEF QueueFull, MarkRejected, Goto, TypeOK
  <2>3. CASE o = op
    <3>1. mem'[o] = "error" /\ WorksOn(Handler, o)'
      BY <1>0, <2>1, <2>2, <2>3 DEF WorksOn, TypeOK
    <3> QED
      BY <2>1, <2>2, <2>3, <3>1 DEF RowFollows
  <2>4. CASE o # op
    BY <1>0, <1>a, <2>1, <2>2, <2>4, RowKept DEF WorksOn, TypeOK
  <2> QED
    BY <2>3, <2>4
\* The last row of an operation: the thread that wrote it is done with it.
<1>e. ASSUME NEW t \in Threads, pc[t] \in {"reject", "save"}, Persist(job[t], mem[job[t]]),
             pc' = [pc EXCEPT ![t] = "idle"], job' = [job EXCEPT ![t] = NoOp], UNCHANGED <<mem, dropped>>
      PROVE  RowFollows(o)'
  <2> DEFINE op == job[t]
  <2>1. /\ op \in Ops /\ mem[op] \in Decided
        /\ \A u \in Threads : WorksOn(u, op) => u = t
    BY <1>0, <1>a, <1>e, AtWork DEF Decided, TypeOK
  <2>2. db' = [db EXCEPT ![op] = mem[op]]
    BY <1>a, <1>e, Persisted
  <2>3. /\ pc'[t] = "idle" /\ \A u \in Threads \ {t} : pc'[u] = pc[u] /\ job'[u] = job[u]
    BY <1>0, <1>e DEF TypeOK
  <2>4. CASE o = op
    <3>1. db'[o] = mem'[o] /\ mem'[o] \in Decided /\ \A u \in Threads : ~WorksOn(u, o)'
      BY <1>0, <1>e, <2>1, <2>2, <2>3, <2>4 DEF WorksOn, OwnerLabels, TypeOK
    <3> QED
      BY <3>1 DEF RowFollows, Decided
  <2>5. CASE o # op
    BY <1>0, <1>a, <1>e, <2>1, <2>2, <2>3, <2>5, RowKept DEF WorksOn, OwnerLabels, TypeOK
  <2> QED
    BY <2>4, <2>5
<1>7. CASE SaveRejected
  BY <1>7, <1>e DEF SaveRejected, HandlerDone, Goto
<1>8. ASSUME NEW op \in Ops, DeleteRow(op) PROVE RowFollows(o)'
  <2>1. /\ db' = [db EXCEPT ![op] = "absent"] /\ mem[op] = "absent"
        /\ mem' = mem /\ pc' = pc /\ job' = job /\ dropped' = dropped \ {op}
    BY <1>0, <1>8, <1>a, Persisted DEF DeleteRow, DropRow, threadVars, RecordsStay
  <2>2. CASE o = op
    <3>1. mem'[o] = "absent" /\ db'[o] = "absent" /\ \A t \in Threads : ~WorksOn(t, o)'
      BY <1>0, <2>1, <2>2, AbsentIsFree DEF WorksOn, TypeOK
    <3> QED
      BY <3>1 DEF RowFollows, Decided
  <2>3. CASE o # op
    BY <1>0, <1>a, <2>1, <2>3, RowKept DEF WorksOn, TypeOK
  <2> QED
    BY <2>2, <2>3
<1>9. CASE ReadStatus
  BY <1>0, <1>9, <1>c DEF ReadStatus, HandlerDone, Goto, storeVars, OwnerLabels, TypeOK
<1>10. CASE ReadBody
  BY <1>0, <1>10, <1>c DEF ReadBody, HandlerDone, Goto, storeVars, OwnerLabels, TypeOK
<1>11. ASSUME NEW w \in Workers, Take(w) PROVE RowFollows(o)'
  <2> DEFINE op == Head(queue)
  <2>1. op \in Ops /\ Queued(op)
    BY <1>0, <1>11, QueueShrinks DEF Take, TypeOK, OwnersFit
  <2>2. mem[op] = "running" /\ db[op] = "running"
    <3>1. ~(pc[Handler] = "create" /\ job[Handler] = op)
      BY <1>0, <2>1 DEF OwnersFit, Owns
    <3> QED
      BY <1>0, <1>a, <2>1, <3>1 DEF OwnersFit, DurableInv, RowFollows
  <2>3. /\ pc[w] = "idle" /\ pc'[w] = "prepare" /\ job'[w] = op /\ UNCHANGED <<mem, db, dropped>>
        /\ \A t \in Threads \ {w} : pc'[t] = pc[t] /\ job'[t] = job[t]
    BY <1>0, <1>11 DEF Take, At, Goto, storeVars, TypeOK
  <2>4. CASE o = op
    BY <2>2, <2>3, <2>4 DEF RowFollows, Decided
  <2>5. CASE o # op
    BY <1>a, <2>3, <2>5, RowKept DEF WorksOn, OwnerLabels
  <2> QED
    BY <2>4, <2>5
<1>12. ASSUME NEW w \in Workers, Prepare(w) PROVE RowFollows(o)'
  BY <1>12, <1>a, <1>b, StageKeepsRows DEF Prepare, At, OwnerLabels
<1>13. ASSUME NEW w \in Workers, Written(w) PROVE RowFollows(o)'
  BY <1>13, <1>b DEF Written, At, OwnerLabels, storeVars
<1>14. ASSUME NEW w \in Workers, PrepareFails(w) PROVE RowFollows(o)'
  BY <1>14, <1>b DEF PrepareFails, End, OwnerLabels, storeVars
<1>15. ASSUME NEW w \in Workers, Restart(w) PROVE RowFollows(o)'
  BY <1>15, <1>a, <1>b, StageKeepsRows DEF Restart, At, OwnerLabels
<1>16. ASSUME NEW w \in Workers, RestartReturns(w) PROVE RowFollows(o)'
  BY <1>16, <1>a, <1>b, StageKeepsRows DEF RestartReturns, At, OwnerLabels
<1>17. ASSUME NEW w \in Workers, RestartFails(w) PROVE RowFollows(o)'
  BY <1>17, <1>b DEF RestartFails, At, End, OwnerLabels, storeVars
<1>18. ASSUME NEW w \in Workers, HealthWait(w) PROVE RowFollows(o)'
  BY <1>18, <1>b DEF HealthWait, At, End, OwnerLabels, storeVars
\* The last update of the record, while its row still says "running".
<1>f. ASSUME NEW w \in Workers, pc[w] \in {"finish", "fields"}, NEW l \in {"fields", "save"},
             Goto(w, l), NEW r \in {"undecided"} \cup Decided,
             mem' = [mem EXCEPT ![job[w]] = r], r \in Decided => l = "save",
             UNCHANGED <<job, db, dropped>>
      PROVE  RowFollows(o)'
  <2> DEFINE op == job[w]
  <2>1. op \in Ops /\ db[op] = "running" /\ WorksOn(w, op)
    BY <1>a, <1>f, AtWork DEF OwnerLabels
  <2>2. /\ pc'[w] = l /\ \A t \in Threads \ {w} : pc'[t] = pc[t]
    BY <1>0, <1>f DEF Goto, TypeOK
  <2>3. CASE o = op
    <3>1. mem'[o] = r /\ (r \in Decided => WorksOn(w, o)' /\ pc'[w] = "save")
      BY <1>0, <1>f, <2>1, <2>2, <2>3 DEF WorksOn, TypeOK
    <3>2. db'[o] = "running" /\ r # "absent"
      BY <1>f, <2>1, <2>3 DEF Decided
    <3> QED
      BY <3>1, <3>2 DEF RowFollows
  <2>4. CASE o # op
    BY <1>0, <1>a, <1>f, <2>1, <2>2, <2>4, RowKept DEF WorksOn, TypeOK
  <2> QED
    BY <2>3, <2>4
<1>19. ASSUME NEW w \in Workers, SetStatus(w) PROVE RowFollows(o)'
  BY <1>19, <1>f DEF SetStatus, At, Decided
<1>20. ASSUME NEW w \in Workers, SetFields(w) PROVE RowFollows(o)'
  BY <1>0, <1>20, <1>f DEF SetFields, At, TypeOK
<1>21. ASSUME NEW w \in Workers, SaveDone(w) PROVE RowFollows(o)'
  BY <1>21, <1>e DEF SaveDone, At, Goto
<1>22. ASSUME NEW op \in Ops, DaemonRestarts(op) PROVE RowFollows(o)'
  BY <1>22, <1>d DEF DaemonRestarts, storeVars, threadVars
<1>23. ASSUME NEW op \in Ops, Expire(op) PROVE RowFollows(o)'
  BY <1>23, <1>d DEF Expire, threadVars
<1>24. CASE Crash
  <2>1. db' = mem' /\ mem'[o] = Recovered(db[o])
    BY <1>0, <1>24, <1>a DEF Crash, LoadAndRecover, InMemoryOnly
  <2>2. db[o] \in Rows /\ dropped' = {} /\ \A t \in Threads : ~WorksOn(t, o)'
    BY <1>0, <1>24 DEF Crash, WorksOn, OwnerLabels, TypeOK
  <2>3. mem'[o] \in {"absent"} \cup Decided
    BY <2>1, <2>2 DEF Recovered, Rows, Decided
  <2> QED
    BY <2>1, <2>2, <2>3 DEF RowFollows, Decided
<1>25. CASE UNCHANGED vars
  BY <1>25, <1>d DEF vars, storeVars, threadVars
<1> QED
  BY <1>1, <1>2, <1>3, <1>4, <1>5, <1>6, <1>7, <1>8, <1>9, <1>10, <1>11, <1>12, <1>13,
     <1>14, <1>15, <1>16, <1>17, <1>18, <1>19, <1>20, <1>21, <1>22, <1>23, <1>24, <1>25
     DEF Next, Request, HandlerStep, WorkerStep

\* An operation that was executed is known until it is evicted.
LEMMA RanStep ==
    ASSUME OwnerInv, OwnerInv', DurableInv, [Next]_vars, faults' = 0, NEW o \in Ops
    PROVE  RanIsKnown(o)'
<1> USE ThreadFacts
<1>0. /\ TypeOK /\ ThreadsFit /\ OwnersFit /\ RecordsStay
      /\ TypeOK' /\ ThreadsFit' /\ OwnersFit' /\ RecordsStay'
  BY DEF OwnerInv, TypeInv
<1>a. faults = 0 /\ RanIsKnown(o) /\ RowFollows(o)
  BY FaultsStay DEF DurableInv
<1> DEFINE Creating == job[Handler] = o /\ pc[Handler] \in {"create", "enqueue", "reject"}
\* Most steps execute nothing, queue nothing and forget nothing.
<1>b. ASSUME o \in ran' => o \in ran, mem[o] # "absent" => mem'[o] # "absent",
             UNCHANGED queue, Creating' => Creating
      PROVE  RanIsKnown(o)'
  BY <1>a, <1>b DEF RanIsKnown, Queued
<1>c. ASSUME NEW w \in Workers, NEW l, Goto(w, l), UNCHANGED <<mem, ran, queue, job>>
      PROVE  RanIsKnown(o)'
  BY <1>0, <1>b, <1>c DEF Goto, TypeOK
<1>d. ASSUME NEW w \in Workers, pc[w] \in {"finish", "fields"}, NEW l, Goto(w, l),
             NEW r \in {"undecided"} \cup Decided,
             mem' = [mem EXCEPT ![job[w]] = r], UNCHANGED <<ran, queue, job>>
      PROVE  RanIsKnown(o)'
  <2>1. mem[o] # "absent" => mem'[o] # "absent"
    BY <1>0, <1>d DEF TypeOK, Decided
  <2> QED
    BY <1>0, <1>b, <1>d, <2>1 DEF Goto, TypeOK
<1>1. ASSUME NEW op \in Ops, Duplicate(op) PROVE RanIsKnown(o)'
  BY <1>1, <1>b DEF Duplicate, storeVars, threadVars
<1>2. ASSUME NEW op \in Ops, Create(op) PROVE RanIsKnown(o)'
  <2>1. mem[op] = "absent" /\ mem' = [mem EXCEPT ![op] = "running"] /\ ran' = ran /\ queue' = queue
    BY <1>2 DEF Create, Known
  <2>2. CASE o = op
    BY <1>a, <2>1, <2>2 DEF RanIsKnown
  <2>3. CASE o # op
    BY <1>0, <1>2, <1>b, <2>1, <2>3 DEF Create, TypeOK
  <2> QED
    BY <2>2, <2>3
<1>3. ASSUME NEW op \in Ops, Evict(op) PROVE RanIsKnown(o)'
  <2>1. pc'[Handler] = "delete" /\ ran' = ran \ Expired /\ queue' = queue
        /\ mem' = [x \in Ops |-> IF x \in Expired THEN "absent" ELSE mem[x]]
    BY <1>0, <1>3 DEF Evict, Goto, TypeOK
  <2> QED
    BY <1>a, <2>1 DEF RanIsKnown, Queued
<1>4. CASE Created
  BY <1>0, <1>4, <1>b DEF Created, Goto, TypeOK
<1>5. CASE Enqueue
  <2> DEFINE op == job[Handler]
  <2>1. /\ pc[Handler] = "enqueue" /\ pc'[Handler] = "idle" /\ mem' = mem /\ ran' = ran
    BY <1>0, <1>5 DEF Enqueue, HandlerDone, Goto, storeVars, TypeOK
  <2>2. Queued(o)' <=> Queued(o) \/ o = op
    BY <1>0, <1>5, <1>a, AtWork, QueueGrows DEF Enqueue, OwnerLabels, TypeOK
  <2> QED
    BY <1>a, <2>1, <2>2 DEF RanIsKnown
<1>6. CASE QueueFull
  <2>1. mem[o] # "absent" => mem'[o] # "absent"
    BY <1>0, <1>6 DEF QueueFull, MarkRejected, TypeOK
  <2> QED
    BY <1>0, <1>6, <1>b, <2>1 DEF QueueFull, Goto, TypeOK
<1>7. CASE SaveRejected
  BY <1>0, <1>7, <1>b DEF SaveRejected, HandlerDone, Goto, TypeOK
<1>8. ASSUME NEW op \in Ops, DeleteRow(op) PROVE RanIsKnown(o)'
  BY <1>8, <1>b DEF DeleteRow, threadVars
<1>9. CASE ReadStatus
  BY <1>0, <1>9, <1>b DEF ReadStatus, HandlerDone, Goto, storeVars, TypeOK
<1>10. CASE ReadBody
  BY <1>0, <1>10, <1>b DEF ReadBody, HandlerDone, Goto, storeVars, TypeOK
<1>11. ASSUME NEW w \in Workers, Take(w) PROVE RanIsKnown(o)'
  <2> DEFINE op == Head(queue)
  <2>1. op \in Ops /\ Queued(op) /\ \A x : Queued(x)' <=> Queued(x) /\ x # op
    BY <1>0, <1>11, QueueShrinks DEF Take, TypeOK, OwnersFit
  <2>2. mem[op] = "running" /\ \A t \in Threads : ~Owns(t, op)
    BY <1>0, <2>1 DEF OwnersFit
  <2>3. ~(job[Handler] = op /\ pc[Handler] \in {"create", "enqueue", "reject"})
    BY <1>0, <2>1, <2>2 DEF Owns, RecordsStay, WorksOn
  <2>4. mem' = mem /\ ran' = ran \cup {op} /\ job'[Handler] = job[Handler] /\ pc'[Handler] = pc[Handler]
    BY <1>0, <1>11 DEF Take, Goto, storeVars, TypeOK
  <2> QED
    BY <1>a, <2>1, <2>2, <2>3, <2>4 DEF RanIsKnown
<1>12. ASSUME NEW w \in Workers, Prepare(w) PROVE RanIsKnown(o)'
  BY <1>12, <1>c DEF Prepare
<1>13. ASSUME NEW w \in Workers, Written(w) PROVE RanIsKnown(o)'
  BY <1>13, <1>c DEF Written, storeVars
<1>14. ASSUME NEW w \in Workers, PrepareFails(w) PROVE RanIsKnown(o)'
  BY <1>14, <1>c DEF PrepareFails, End, storeVars
<1>15. ASSUME NEW w \in Workers, Restart(w) PROVE RanIsKnown(o)'
  BY <1>15, <1>c DEF Restart
<1>16. ASSUME NEW w \in Workers, RestartReturns(w) PROVE RanIsKnown(o)'
  BY <1>16, <1>c DEF RestartReturns
<1>17. ASSUME NEW w \in Workers, RestartFails(w) PROVE RanIsKnown(o)'
  BY <1>17, <1>c DEF RestartFails, End, storeVars
<1>18. ASSUME NEW w \in Workers, HealthWait(w) PROVE RanIsKnown(o)'
  BY <1>18, <1>c DEF HealthWait, End, storeVars
<1>19. ASSUME NEW w \in Workers, SetStatus(w) PROVE RanIsKnown(o)'
  BY <1>19, <1>d DEF SetStatus, At
<1>20. ASSUME NEW w \in Workers, SetFields(w) PROVE RanIsKnown(o)'
  BY <1>0, <1>20, <1>d DEF SetFields, At, TypeOK
<1>21. ASSUME NEW w \in Workers, SaveDone(w) PROVE RanIsKnown(o)'
  BY <1>0, <1>21, <1>b DEF SaveDone, Goto, TypeOK
<1>22. ASSUME NEW op \in Ops, DaemonRestarts(op) PROVE RanIsKnown(o)'
  BY <1>22, <1>b DEF DaemonRestarts, storeVars, threadVars
<1>23. ASSUME NEW op \in Ops, Expire(op) PROVE RanIsKnown(o)'
  BY <1>23, <1>b DEF Expire, threadVars
<1>24. CASE Crash
  <2>1. mem'[o] = Recovered(db[o]) /\ ran' = ran
    BY <1>0, <1>24, <1>a DEF Crash, LoadAndRecover, InMemoryOnly
  <2>2. /\ ~Queued(o)' /\ pc'[Handler] = "idle"
    BY <1>24 DEF Crash, Queued
  <2>3. o \in ran => db[o] # "absent"
    BY <1>0, <1>a DEF RanIsKnown, RowFollows, TypeOK, Records, Rows, Decided
  <2>4. o \in ran => mem'[o] # "absent"
    BY <2>1, <2>3 DEF Recovered
  <2> QED
    BY <2>1, <2>2, <2>4 DEF RanIsKnown
<1>25. CASE UNCHANGED vars
  BY <1>25, <1>b DEF vars, storeVars, threadVars
<1> QED
  BY <1>1, <1>2, <1>3, <1>4, <1>5, <1>6, <1>7, <1>8, <1>9, <1>10, <1>11, <1>12, <1>13,
     <1>14, <1>15, <1>16, <1>17, <1>18, <1>19, <1>20, <1>21, <1>22, <1>23, <1>24, <1>25
     DEF Next, Request, HandlerStep, WorkerStep

\* What was settled stays so: nothing but a restart of Bedrock, or a write that
\* returns, changes what is loaded or what server.properties holds.
LEMMA SettledStep ==
    ASSUME OwnerInv, OwnerInv', DurableInv, [Next]_vars, faults' = 0, NEW o \in Ops,
           Settled(o)', props' = o
    PROVE  loaded' = o
<1> USE ThreadFacts
<1>0. /\ TypeOK /\ ThreadsFit /\ OwnersFit /\ RecordsStay
      /\ TypeOK' /\ ThreadsFit' /\ OwnersFit' /\ RecordsStay'
  BY DEF OwnerInv, TypeInv
<1>a. faults = 0 /\ RowFollows(o) /\ (Settled(o) /\ props = o => loaded = o)
  BY FaultsStay DEF DurableInv
\* A worker works on o only where it is past its restart, or is to report ok
<1> DEFINE Past(w) == \/ pc[w] = "restarting" /\ o \notin reboot
                      \/ pc[w] = "health"
                      \/ pc[w] \in {"finish", "fields", "save"} /\ result[w] = "ok"
<1>b. ASSUME mem'[o] = "ok" => mem[o] = "ok", db'[o] = "ok" => mem[o] = "ok" \/ db[o] = "ok",
             \A w \in Workers : job'[w] = o /\ Past(w)' => Settled(o), UNCHANGED <<props, loaded>>
      PROVE  loaded' = o
  BY <1>a, <1>b DEF Settled
<1>c. ASSUME \A w \in Workers : pc'[w] = pc[w] /\ job'[w] = job[w], UNCHANGED <<result, bedrockVars>>,
             mem'[o] = "ok" => mem[o] = "ok", db'[o] = "ok" => mem[o] = "ok" \/ db[o] = "ok"
      PROVE  loaded' = o
  BY <1>b, <1>c DEF Settled, bedrockVars
\* A worker that ends with an error, or moves past its restart
<1>d. ASSUME NEW w \in Workers, pc[w] \in OwnerLabels, UNCHANGED <<mem, db, job, props, loaded>>,
             NEW l, Goto(w, l), \A u \in Workers \ {w} : result'[u] = result[u],
             reboot' \in {reboot, reboot \ {job[w]}},
             job[w] = o => Past(w) \/ ~Past(w)'
      PROVE  loaded' = o
  <2>1. \A u \in Workers \ {w} : pc'[u] = pc[u]
    BY <1>0, <1>d DEF Goto, TypeOK
  <2>2. ASSUME NEW u \in Workers, job[u] = o, Past(u)'
        PROVE  Settled(o)
    <3>1. CASE u = w
      BY <1>d, <2>2, <3>1 DEF Settled
    <3>2. CASE u # w
      <4>1. pc[u] = pc'[u] /\ result'[u] = result[u]
        BY <1>d, <2>1, <3>2
      <4>2. WorksOn(u, o) /\ (WorksOn(w, o) => FALSE)
        BY <1>0, <2>2, <3>2, <4>1 DEF OwnersFit, WorksOn, OwnerLabels
      <4>3. job[w] # o
        BY <1>d, <4>2 DEF WorksOn
      <4> QED
        BY <1>d, <2>2, <4>1, <4>3 DEF Settled
    <3> QED
      BY <3>1, <3>2
  <2> QED
    BY <1>b, <1>d, <2>2
<1>1. ASSUME NEW op \in Ops, Duplicate(op) PROVE loaded' = o
  BY <1>1, <1>c DEF Duplicate, storeVars, threadVars
<1>2. ASSUME NEW op \in Ops, Create(op) PROVE loaded' = o
  BY <1>0, <1>2, <1>c DEF Create, Goto, TypeOK
<1>3. ASSUME NEW op \in Ops, Evict(op) PROVE loaded' = o
  BY <1>0, <1>3, <1>c DEF Evict, Goto, TypeOK
<1>4. CASE Created
  <2>1. job[Handler] \in Ops /\ db' = [db EXCEPT ![job[Handler]] = "running"]
    BY <1>4, <1>a, AtWork, Persisted DEF Created, SaveCreated, OwnerLabels
  <2> QED
    BY <1>0, <1>4, <1>c, <2>1 DEF Created, Goto, TypeOK
<1>5. CASE Enqueue
  BY <1>0, <1>5, <1>c DEF Enqueue, HandlerDone, Goto, storeVars, TypeOK
<1>6. CASE QueueFull
  BY <1>0, <1>6, <1>c DEF QueueFull, MarkRejected, Goto, TypeOK
<1>7. CASE SaveRejected
  <2>1. job[Handler] \in Ops /\ db' = [db EXCEPT ![job[Handler]] = mem[job[Handler]]]
    BY <1>7, <1>a, AtWork, Persisted DEF SaveRejected
  <2> QED
    BY <1>0, <1>7, <1>c, <2>1 DEF SaveRejected, HandlerDone, Goto, TypeOK
<1>8. ASSUME NEW op \in Ops, DeleteRow(op) PROVE loaded' = o
  <2>1. db' = [db EXCEPT ![op] = "absent"]
    BY <1>8, <1>a, Persisted DEF DeleteRow, DropRow
  <2> QED
    BY <1>0, <1>8, <1>c, <2>1 DEF DeleteRow, threadVars, TypeOK
<1>9. CASE ReadStatus
  BY <1>0, <1>9, <1>c DEF ReadStatus, HandlerDone, Goto, storeVars, TypeOK
<1>10. CASE ReadBody
  BY <1>0, <1>10, <1>c DEF ReadBody, HandlerDone, Goto, storeVars, TypeOK
<1>11. ASSUME NEW w \in Workers, Take(w) PROVE loaded' = o
  <2>1. /\ pc'[w] = "prepare" /\ UNCHANGED <<mem, db, result, props, loaded, reboot>>
        /\ \A u \in Workers \ {w} : pc'[u] = pc[u] /\ job'[u] = job[u]
    BY <1>0, <1>11 DEF Take, Goto, storeVars, bedrockVars, TypeOK
  <2> QED
    BY <1>b, <2>1 DEF Settled
<1>12. ASSUME NEW w \in Workers, Prepare(w) PROVE loaded' = o
  BY <1>12 DEF Prepare
\* Nobody is past the restart of the operation that has just been written
<1>13. ASSUME NEW w \in Workers, Written(w) PROVE loaded' = o
  <2>1. /\ pc[w] = "write" /\ job[w] = o /\ pc'[w] = "restart"
        /\ \A u \in Workers \ {w} : pc'[u] = pc[u]
        /\ UNCHANGED <<mem, db, job, result>>
    BY <1>0, <1>13 DEF Written, At, Goto, storeVars, TypeOK
  <2>2. /\ mem[o] = "running" /\ db[o] = "running" /\ \A u \in Threads : WorksOn(u, o) => u = w
    BY <1>a, <2>1, AtWork DEF OwnerLabels
  <2>3. \A u \in Workers : job'[u] = o => ~Past(u)'
    BY <2>1, <2>2 DEF WorksOn, OwnerLabels
  <2> QED
    BY <2>1, <2>2, <2>3 DEF Settled
<1>14. ASSUME NEW w \in Workers, PrepareFails(w) PROVE loaded' = o
  BY <1>0, <1>14, <1>d DEF PrepareFails, End, Goto, storeVars, bedrockVars, OwnerLabels, TypeOK
<1>15. ASSUME NEW w \in Workers, Restart(w) PROVE loaded' = o
  <2>1. /\ pc[w] = "restart" /\ pc'[w] = "restarting" /\ UNCHANGED <<mem, db, job, result, props, loaded>>
        /\ reboot' = reboot \cup {job[w]}
        /\ \A u \in Workers \ {w} : pc'[u] = pc[u]
    BY <1>0, <1>15, <1>a, StageKeepsRows DEF Restart, At, Goto, TypeOK
  <2> QED
    BY <1>b, <2>1 DEF Settled
<1>16. ASSUME NEW w \in Workers, RestartReturns(w) PROVE loaded' = o
  BY <1>0, <1>16, <1>a, <1>d, StageKeepsRows
     DEF RestartReturns, RestartReturned, At, bedrockVars, OwnerLabels, TypeOK
<1>17. ASSUME NEW w \in Workers, RestartFails(w) PROVE loaded' = o
  BY <1>0, <1>17, <1>d DEF RestartFails, At, End, Goto, storeVars, OwnerLabels, TypeOK
<1>18. ASSUME NEW w \in Workers, HealthWait(w) PROVE loaded' = o
  BY <1>0, <1>18, <1>d DEF HealthWait, At, End, storeVars, bedrockVars, OwnerLabels, TypeOK
\* The worker that reports ok
<1>e. ASSUME NEW w \in Workers, pc[w] \in {"finish", "fields"}, NEW l \in {"fields", "save"}, Goto(w, l),
             UNCHANGED <<db, job, result, bedrockVars>>, mem'[o] = "ok" => Settled(o)
      PROVE  loaded' = o
  <2>1. /\ pc'[w] = l /\ \A u \in Workers \ {w} : pc'[u] = pc[u]
    BY <1>0, <1>e DEF Goto, TypeOK
  <2>2. ASSUME NEW u \in Workers, job[u] = o, Past(u)'
        PROVE  Past(u)
    BY <1>e, <2>1, <2>2 DEF bedrockVars
  <2>3. Settled(o)
    BY <1>e, <2>2 DEF Settled, bedrockVars
  <2> QED
    BY <1>a, <1>e, <2>3 DEF bedrockVars
<1>19. ASSUME NEW w \in Workers, SetStatus(w) PROVE loaded' = o
  <2>1. mem'[o] = "ok" => Settled(o)
    BY <1>0, <1>19 DEF SetStatus, Settled, TypeOK
  <2> QED
    BY <1>19, <1>e, <2>1 DEF SetStatus, At
<1>20. ASSUME NEW w \in Workers, SetFields(w) PROVE loaded' = o
  <2>1. mem'[o] = "ok" => Settled(o)
    BY <1>0, <1>20 DEF SetFields, At, Settled, TypeOK
  <2> QED
    BY <1>20, <1>e, <2>1 DEF SetFields, At
<1>21. ASSUME NEW w \in Workers, SaveDone(w) PROVE loaded' = o
  <2>1. job[w] \in Ops /\ db' = [db EXCEPT ![job[w]] = mem[job[w]]]
    BY <1>21, <1>a, AtWork, Persisted DEF SaveDone, At
  <2>2. /\ pc'[w] = "idle" /\ UNCHANGED <<mem, props, loaded, reboot>>
        /\ \A u \in Workers \ {w} : pc'[u] = pc[u] /\ job'[u] = job[u] /\ result'[u] = result[u]
    BY <1>0, <1>21 DEF SaveDone, Goto, bedrockVars, TypeOK
  <2>3. db'[o] = "ok" => mem[o] = "ok" \/ db[o] = "ok"
    BY <1>0, <2>1 DEF TypeOK
  <2> QED
    BY <1>b, <2>2, <2>3 DEF Settled
<1>22. ASSUME NEW op \in Ops, DaemonRestarts(op) PROVE loaded' = o
  BY <1>22 DEF DaemonRestarts
<1>23. ASSUME NEW op \in Ops, Expire(op) PROVE loaded' = o
  BY <1>23, <1>c DEF Expire, threadVars
<1>24. CASE Crash
  <2>1. /\ mem'[o] = Recovered(db[o]) /\ db' = mem' /\ UNCHANGED <<props, loaded>>
        /\ \A w \in Workers : pc'[w] = "idle"
    BY <1>0, <1>24, <1>a DEF Crash, LoadAndRecover, InMemoryOnly, bedrockVars
  <2>2. db[o] = "ok"
    BY <2>1 DEF Settled, Recovered
  <2> QED
    BY <1>a, <2>1, <2>2 DEF Settled
<1>25. CASE UNCHANGED vars
  BY <1>25, <1>c DEF vars, storeVars, threadVars
<1> QED
  BY <1>1, <1>2, <1>3, <1>4, <1>5, <1>6, <1>7, <1>8, <1>9, <1>10, <1>11, <1>12, <1>13,
     <1>14, <1>15, <1>16, <1>17, <1>18, <1>19, <1>20, <1>21, <1>22, <1>23, <1>24, <1>25
     DEF Next, Request, HandlerStep, WorkerStep

LEMMA DurableStep == OwnerInv /\ OwnerInv' /\ DurableInv /\ [Next]_vars => DurableInv'
<1> SUFFICES ASSUME OwnerInv, OwnerInv', DurableInv, [Next]_vars, faults' = 0
             PROVE  /\ conn'
                    /\ \A op \in Ops : RowFollows(op)'
                    /\ \A op \in Ops : RanIsKnown(op)'
                    /\ \A op \in Ops : Settled(op)' /\ props' = op => loaded' = op
  BY DEF DurableInv
<1>1. conn'
  <2>1. faults = 0 /\ conn
    BY FaultsStay DEF DurableInv
  <2>2. Crash => conn'
    BY <2>1 DEF Crash, LoadAndRecover, InMemoryOnly
  <2>3. [Next]_vars /\ ~Crash => UNCHANGED conn
    BY DEF Next, Request, HandlerStep, WorkerStep, Duplicate, Create, Evict, Created, Enqueue, QueueFull,
       SaveRejected, DeleteRow, ReadStatus, ReadBody, Take, Prepare, Written, PrepareFails, Restart,
       RestartReturns, RestartFails, HealthWait, SetStatus, SetFields, SaveDone, DaemonRestarts, Expire,
       storeVars, vars
  <2> QED
    BY <2>1, <2>2, <2>3
<1> QED
  BY <1>1, RowStep, RanStep, SettledStep

LEMMA DurableInit == Init => DurableInv
<1> SUFFICES ASSUME Init
             PROVE  \A op \in Ops : RowFollows(op) /\ RanIsKnown(op) /\ ~Settled(op)
  BY DEF DurableInv, Init
<1>1. \A t \in Threads : pc[t] = "idle"
  BY DEF Init
<1> QED
  BY <1>1, ThreadFacts DEF Init, RowFollows, RanIsKnown, Settled, WorksOn, OwnerLabels, Decided

LEMMA Inductive ==
    /\ Init => IInv
    /\ IInv /\ [Next]_vars => IInv'
BY OwnerInit, OwnerStep, DurableInit, DurableStep DEF IInv

-----------------------------------------------------------------------------
(* The theorems.                                                           *)

\* The agent's data keep their types, however its threads interleave.
THEOREM TypeCorrect == Spec => []TypeOK
<1>1. IInv => TypeOK
  BY DEF IInv, OwnerInv, TypeInv
<1> QED
  BY <1>1, Inductive, PTL DEF Spec

\* Every unfinished record has exactly one owner, whatever restarts and failed
\* writes there are and however many workers and operations.
THEOREM EachHasOneOwner == Spec => []OneOwner
<1>1. IInv => OneOwner
  <2> SUFFICES ASSUME IInv
               PROVE  OneOwner
    OBVIOUS
  <2>1. OwnersFit
    BY DEF IInv, OwnerInv
  <2>2. ASSUME NEW op \in Ops, Queued(op) \/ \E t \in Threads : Owns(t, op)
        PROVE  mem[op] \in {"running", "undecided"}
    BY <2>1, <2>2 DEF OwnersFit
  <2>3. ASSUME NEW t \in Threads, NEW op \in Ops, Owns(t, op)
        PROVE  ~Queued(op) /\ \A u \in Threads : Owns(u, op) => u = t
    BY <2>1, <2>3, OwnerWorks DEF OwnersFit
  <2> QED
    BY <2>1, <2>2, <2>3 DEF OwnersFit, OneOwner
<1> QED
  BY <1>1, Inductive, PTL DEF Spec

\* An operation whose outcome is ok was loaded by Bedrock, for every number of
\* workers, restarts of the agent and restarts the daemon makes late.
THEOREM OkWasLoaded == Spec => []OkIsLoaded
<1>1. IInv => OkIsLoaded
  BY DEF IInv, DurableInv, OkIsLoaded, Settled
<1> QED
  BY <1>1, Inductive, PTL DEF Spec

\* What is queued or in a worker's hands has a row that says "running", so that a
\* restart of the agent cannot forget it.
THEOREM BegunIsInSQLite == Spec => []BegunIsRecoverable
<1>1. IInv => BegunIsRecoverable
  <2> SUFFICES ASSUME IInv, faults = 0, NEW op \in Ops,
                      Queued(op) \/ \E w \in Workers : job[w] = op
               PROVE  db[op] = "running"
    BY DEF BegunIsRecoverable
  <2>1. OwnerInv /\ OwnersFit /\ ThreadsFit /\ RowFollows(op)
    BY DEF IInv, OwnerInv, TypeInv, DurableInv
  <2>2. CASE Queued(op)
    <3>1. ~(pc[Handler] = "create" /\ job[Handler] = op)
      BY <2>1, <2>2, ThreadFacts DEF OwnersFit, Owns
    <3> QED
      BY <2>1, <2>2, <3>1 DEF OwnersFit, RowFollows
  <2>3. ASSUME NEW w \in Workers, job[w] = op
        PROVE  db[op] = "running"
    <3>1. pc[w] \in WorkerLabels \ {"idle"}
      BY <2>1, <2>3, ThreadFacts DEF ThreadsFit
    <3> QED
      BY <2>1, <2>3, <3>1, ThreadFacts DEF RowFollows, WorksOn, WorkerLabels, OwnerLabels
  <2> QED
    BY <2>2, <2>3
<1> QED
  BY <1>1, Inductive, PTL DEF Spec

\* Memory and SQLite agree on every operation nobody works on.
THEOREM RowsAgree == Spec => []RowAgrees
<1>1. IInv => RowAgrees
  <2> SUFFICES ASSUME IInv, faults = 0, NEW op \in Ops,
                      \A t \in Threads : job[t] # op, op \notin dropped
               PROVE  db[op] = mem[op]
    BY DEF RowAgrees
  <2>1. TypeOK /\ OwnersFit /\ RowFollows(op)
    BY DEF IInv, OwnerInv, TypeInv, DurableInv
  <2>2. \A t \in Threads : ~Owns(t, op) /\ ~WorksOn(t, op)
    BY DEF Owns, WorksOn
  <2>3. CASE mem[op] \in {"running", "undecided"}
    <3>1. mem[op] = "running" /\ db[op] = "running"
      BY <2>1, <2>2, <2>3, ThreadFacts DEF OwnersFit, RowFollows
    <3> QED
      BY <3>1
  <2>4. CASE mem[op] \in {"absent"} \cup Decided
    BY <2>1, <2>2, <2>4 DEF RowFollows
  <2> QED
    BY <2>1, <2>3, <2>4 DEF TypeOK, Records, Rows
<1> QED
  BY <1>1, Inductive, PTL DEF Spec

\* No operation is executed twice before its record is evicted.
THEOREM ExecutedAtMostOnce == Spec => AtMostOnce
<1>1. ASSUME IInv, IInv', [Next]_vars, NEW w \in Workers, faults = 0, job'[w] # job[w]
      PROVE  job'[w] \notin ran
  <2>1. TypeOK /\ TypeOK' /\ OwnersFit /\ \A op \in Ops : RanIsKnown(op)
    BY <1>1 DEF IInv, OwnerInv, TypeInv, DurableInv
  <2>2. NoOp \notin ran
    BY <2>1, ThreadFacts DEF TypeOK
  <2>3. ASSUME NEW u \in Workers, Take(u)
        PROVE  job'[w] \notin ran
    <3>1. job'[w] = Head(queue)
      BY <1>1, <2>1, <2>3, ThreadFacts DEF Take, TypeOK
    <3>2. Head(queue) \in Ops /\ Queued(Head(queue))
      BY <2>1, <2>3, QueueShrinks DEF Take, TypeOK, OwnersFit
    <3> QED
      BY <2>1, <3>1, <3>2 DEF RanIsKnown
  <2>4. ASSUME NEW u \in Workers, SaveDone(u)
        PROVE  job'[w] \notin ran
    BY <1>1, <2>1, <2>2, <2>4, ThreadFacts DEF SaveDone, TypeOK
  <2>5. CASE Crash
    BY <2>2, <2>5, ThreadFacts DEF Crash
  <2>6. (\E u \in Workers : Take(u) \/ SaveDone(u)) \/ Crash
    <3>1. \A t \in Workers : t # Handler
      BY ThreadFacts
    <3>2. [Next]_vars => (\E u \in Workers : Take(u) \/ SaveDone(u)) \/ Crash \/ job'[w] = job[w]
      BY <2>1, <3>1, ThreadFacts
         DEF Next, Request, HandlerStep, WorkerStep, Duplicate, Create, Evict, Created, Enqueue, QueueFull,
             SaveRejected, DeleteRow, ReadStatus, ReadBody, Prepare, Written, PrepareFails, Restart,
             RestartReturns, RestartFails, HealthWait, SetStatus, SetFields, DaemonRestarts, Expire,
             HandlerDone, threadVars, vars, TypeOK
    <3> QED
      BY <1>1, <3>2
  <2> QED
    BY <2>3, <2>4, <2>5, <2>6
<1>2. IInv /\ IInv' /\ [Next]_vars =>
         [\A w \in Workers : faults = 0 /\ job'[w] # job[w] => job'[w] \notin ran]_vars
  BY <1>1
<1> QED
  BY <1>2, Inductive, PTL DEF Spec, AtMostOnce

\* A record goes only when its retention has ended, or in a restart before its
\* first row was written.
THEOREM ForgottenInTime == Spec => ForgottenOnlyWhenExpired
<1>1. ASSUME IInv, IInv', [Next]_vars, NEW op \in Ops,
             faults' = 0, mem[op] # "absent", mem'[op] = "absent"
      PROVE  op \in old \/ (pc[Handler] = "create" /\ job[Handler] = op)
  <2>1. /\ TypeOK /\ OwnersFit /\ RecordsStay /\ faults = 0 /\ RowFollows(op)
        /\ \A w \in Workers : result[w] \in Decided
    BY <1>1, FaultsStay DEF IInv, OwnerInv, TypeInv, DurableInv, TypeOK
  <2>2. ASSUME NEW o \in Ops, Evict(o)
        PROVE  op \in old
    BY <1>1, <2>2 DEF Evict, Expired
  <2>3. CASE Crash
    <3>1. db[op] = "absent"
      BY <1>1, <2>1, <2>3 DEF Crash, LoadAndRecover, InMemoryOnly, Recovered
    <3>2. mem[op] \notin Decided
      BY <2>1, <3>1 DEF RowFollows, WorksOn, Decided
    <3> QED
      BY <1>1, <2>1, <3>1, <3>2 DEF RowFollows, TypeOK, Records, Rows
  <2>4. (\E o \in Ops : Evict(o)) \/ Crash
    <3>1. ASSUME NEW o \in Ops, Create(o)
          PROVE  mem'[op] # "absent"
      BY <1>1, <2>1, <3>1 DEF Create, TypeOK
    <3>2. QueueFull => mem'[op] # "absent"
      BY <1>1, <2>1 DEF QueueFull, MarkRejected, TypeOK
    <3>3. ASSUME NEW w \in Workers, SetStatus(w)
          PROVE  mem'[op] # "absent"
      BY <1>1, <2>1, <3>3 DEF SetStatus, TypeOK
    <3>4. ASSUME NEW w \in Workers, SetFields(w)
          PROVE  mem'[op] # "absent"
      BY <1>1, <2>1, <3>4 DEF SetFields, TypeOK, Decided
    <3>5. [Next]_vars => \/ \E o \in Ops : Evict(o) \/ Create(o)
                         \/ Crash \/ QueueFull \/ mem' = mem
                         \/ \E w \in Workers : SetStatus(w) \/ SetFields(w)
      BY DEF Next, Request, HandlerStep, WorkerStep, Duplicate, Created, Enqueue, SaveRejected, DeleteRow,
             ReadStatus, ReadBody, Take, Prepare, Written, PrepareFails, Restart, RestartReturns, RestartFails,
             HealthWait, SaveDone, DaemonRestarts, Expire, storeVars, vars
    <3> QED
      BY <1>1, <3>1, <3>2, <3>3, <3>4, <3>5
  <2> QED
    BY <2>2, <2>3, <2>4
<1>2. IInv /\ IInv' /\ [Next]_vars =>
         [\A op \in Ops :
             faults' = 0 /\ mem[op] # "absent" /\ mem'[op] = "absent" =>
                 op \in old \/ (pc[Handler] = "create" /\ job[Handler] = op)]_vars
  BY <1>1
<1> QED
  BY <1>2, Inductive, PTL DEF Spec, ForgottenOnlyWhenExpired
=============================================================================
