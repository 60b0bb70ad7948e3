------------------------- MODULE AgentClientProofs -------------------------
(***************************************************************************)
(* Proofs about the host agent and the adapter that calls it, for every    *)
(* number of operations, workers, restarts and failing calls: together     *)
(* they implement Executor.                                                *)
(***************************************************************************)
EXTENDS AgentClient, HostAgentProofs

Places == {"idle", "post", "posted", "poll", "polled", "recover", "recovered"}
AwaitsAnswer == {"posted", "polled", "recovered"}

ClientTypeOK ==
    /\ caller \in {"adapter", "any"}
    /\ call \in Ops \cup {NoOp}
    /\ at \in Places
    /\ tries \in Nat
    /\ asked \in Seq(Ops)
    /\ verdict \in [Ops -> {"none", "ok"} \cup Failures]
    /\ wire \in Seq(Requests)
    /\ serving \in Requests \cup {NoRequest}
    /\ succeeded \in SUBSET Ops

\* With any client, execute is not called.
NobodyCalls ==
    /\ call = NoOp /\ at = "idle" /\ asked = <<>> /\ verdict = [op \in Ops |-> "none"]
    /\ wire = <<>> /\ serving = NoRequest /\ answer = "none" /\ succeeded = {}

\* Operations are asked for once, and execute is called for the last one asked.
CallFits ==
    /\ \A i, j \in 1..Len(asked) : asked[i] = asked[j] => i = j
    /\ at = "idle" <=> call = NoOp
    /\ at # "idle" => asked # <<>> /\ call = asked[Len(asked)] /\ verdict[call] = "none"
    /\ \A op \in Ops : verdict[op] # "none" => op \in Asked

\* Only the request that execute waits for is live, and it is of its kind.
IsAwaited(r) ==
    r.live => /\ at \in AwaitsAnswer /\ r.op = call
              /\ r.kind = IF at = "posted" THEN "execute" ELSE "status"
LiveFits ==
    /\ \A i \in 1..Len(wire) : IsAwaited(wire[i])
    /\ serving # NoRequest => IsAwaited(serving)
    /\ answer # "none" => at \in AwaitsAnswer

\* What the handler serves, and what waits for it.
ServiceFits ==
    /\ serving = NoRequest => pc[Handler] = "idle"
    /\ serving # NoRequest =>
          /\ job[Handler] = serving.op /\ serving.op \in Asked
          /\ pc[Handler] \in IF serving.kind = "execute" THEN {"create", "enqueue", "reject"}
                             ELSE {"delete", "body"}
    /\ \A i \in 1..Len(wire) : wire[i].op \in Asked
    /\ \A i, j \in 1..Len(wire) :
          wire[i].kind = "execute" /\ wire[j].kind = "execute" /\ wire[i].op = wire[j].op => i = j

\* An operation the agent has not begun to create has left no trace there.
Unknown(op) == op \notin Asked \/ Posting(op) \/ OnWire(op)
UnknownIsAbsent ==
    \A op \in Ops :
        /\ Unknown(op) => mem[op] = "absent" /\ db[op] = "absent"
        /\ Posting(op) => ~OnWire(op)

\* What the agent has told of an operation that ended.
EndsAreFinal ==
    /\ pc[Handler] = "body" => Final(job[Handler])
    /\ answer \in Done \cup Refused => Final(call)
    /\ FailedIsFinal

\* Whatever says "ok" says it of an operation that has succeeded.
OkIsTrue ==
    /\ \A op \in Ops : mem[op] = "ok" \/ db[op] = "ok" \/ verdict[op] = "ok" => op \in succeeded
    /\ answer = "ok" => call \in succeeded
    /\ \A op \in succeeded : op \in Asked /\ ~Waiting(op) /\ ~Begun(op)

\* On the way from the caller to the workers nobody overtakes.
Before(x, y) == \E i, j \in 1..Len(asked) : i < j /\ asked[i] = x /\ asked[j] = y
InOrder ==
    \A x, y \in Ops : Before(x, y) =>
        /\ Begun(y) => ~Waiting(x)
        /\ Queued(y) => ~OnWire(x) /\ ~AtHandler(x)
        /\ AtHandler(y) => ~OnWire(x)
        /\ \A i, j \in 1..Len(queue) : queue[i] = x /\ queue[j] = y => i < j
        /\ \A i, j \in 1..Len(wire) :
              wire[i].kind = "execute" /\ wire[i].op = x /\ wire[j].kind = "execute" /\ wire[j].op = y => i < j

\* Bedrock has been restarted for the operation.
Restarted(op) ==
    \/ op \in succeeded
    \/ \E w \in Workers :
          /\ job[w] = op
          /\ \/ pc[w] = "restarting" /\ op \notin reboot
             \/ pc[w] = "health"
             \/ pc[w] \in {"finish", "fields"} /\ result[w] = "ok"
RestartedIsLoaded == \A op \in Ops : Restarted(op) /\ props = op => loaded = op

AdapterInv ==
    /\ CallFits /\ LiveFits /\ ServiceFits /\ UnknownIsAbsent
    /\ EndsAreFinal /\ OkIsTrue /\ InOrder /\ RestartedIsLoaded

ClientInv ==
    /\ OwnerInv /\ ClientTypeOK
    /\ caller = "any" => NobodyCalls
    /\ caller = "adapter" => AdapterInv

-----------------------------------------------------------------------------
(* What the steps of the agent do, whoever calls.                          *)

LEMMA AgentFacts ==
    ASSUME OwnerInv
    PROVE  /\ mem \in [Ops -> Records] /\ db \in [Ops -> Rows] /\ queue \in Seq(Ops)
           /\ pc \in [Threads -> Labels] /\ job \in [Threads -> Ops \cup {NoOp}]
           /\ result \in [Workers -> Decided] /\ reboot \in SUBSET Ops
           /\ pc[Handler] \in HandlerLabels
           /\ pc[Handler] # "idle" => job[Handler] \in Ops
           /\ \A w \in Workers : pc[w] \in WorkerLabels
           /\ \A w \in Workers : pc[w] # "idle" => job[w] \in Ops
           /\ \A w \in Workers : pc[w] = "idle" => job[w] = NoOp
BY DEF OwnerInv, TypeInv, TypeOK, ThreadsFit

\* A worker moves only itself, and begins nothing but what it takes.
LEMMA WorkerMoves ==
    ASSUME OwnerInv, NEW w \in Workers, WorkerStep(w)
    PROVE  /\ \A t \in Threads \ {w} : pc'[t] = pc[t] /\ job'[t] = job[t]
           /\ ~Take(w) => queue' = queue /\ \A op : Owns(w, op)' => Owns(w, op)
           /\ told' = told
<1> USE ThreadFacts, AgentFacts DEF Goto, At, End, storeVars, threadVars, bedrockVars
<1>1. CASE Take(w)
  BY <1>1 DEF Take
<1>2. CASE Prepare(w) \/ Written(w) \/ PrepareFails(w)
  BY <1>2 DEF Prepare, Written, PrepareFails, Owns, Take
<1>3. CASE Restart(w) \/ RestartReturns(w) \/ RestartFails(w)
  BY <1>3 DEF Restart, RestartReturns, RestartFails, Owns, Take
<1>4. CASE HealthWait(w)
  BY <1>4 DEF HealthWait, Owns, Take
<1>5. CASE SetStatus(w) \/ SetFields(w) \/ SaveDone(w)
  BY <1>5 DEF SetStatus, SetFields, SaveDone, Owns, Take
<1> QED
  BY <1>1, <1>2, <1>3, <1>4, <1>5 DEF WorkerStep

\* A record says "running" anew only when it is created.
LEMMA RunningComes ==
    ASSUME OwnerInv, [Next]_vars, NEW op \in Ops, mem'[op] = "running"
    PROVE  mem[op] = "running" \/ Create(op)
<1> USE ThreadFacts, AgentFacts DEF storeVars, threadVars, bedrockVars
<1>1. ASSUME NEW o \in Ops, Request(o)
      PROVE  mem[op] = "running" \/ Create(op)
  BY <1>1 DEF Request, Duplicate, Create, Evict
<1>2. ASSUME NEW o \in Ops, DaemonRestarts(o) \/ Expire(o)
      PROVE  mem[op] = "running"
  BY <1>2 DEF DaemonRestarts, Expire
<1>3. ASSUME HandlerStep
      PROVE  mem[op] = "running"
  BY <1>3 DEF HandlerStep, Created, Enqueue, QueueFull, MarkRejected, SaveRejected, DeleteRow, ReadStatus, ReadBody
<1>4. ASSUME NEW w \in Workers, WorkerStep(w)
      PROVE  mem[op] = "running"
  <2>1. CASE SetStatus(w) \/ SetFields(w)
    BY <1>4, <2>1 DEF SetStatus, SetFields, Decided, At
  <2>2. CASE ~(SetStatus(w) \/ SetFields(w))
    <3>1. mem' = mem
      BY <1>4, <2>2 DEF WorkerStep, Take, Prepare, Written, PrepareFails, Restart, RestartReturns,
                       RestartFails, HealthWait, SaveDone
    <3> QED
      BY <3>1
  <2> QED
    BY <2>1, <2>2
<1>5. ASSUME Crash
      PROVE  FALSE
  BY <1>5 DEF Crash, LoadAndRecover, InMemoryOnly, Recovered, Rows, Decided
<1>6. ASSUME UNCHANGED vars
      PROVE  mem[op] = "running"
  BY <1>6 DEF vars
<1> QED
  BY <1>1, <1>2, <1>3, <1>4, <1>5, <1>6 DEF Next

\* What has left no trace leaves none until it is created.
LEMMA AbsentStays ==
    ASSUME OwnerInv, [Next]_vars, NEW op \in Ops, mem[op] = "absent", db[op] = "absent", ~Create(op)
    PROVE  mem'[op] = "absent" /\ db'[op] = "absent"
<1> USE ThreadFacts, AgentFacts DEF storeVars, threadVars, bedrockVars, At
<1>0. \A t \in Threads : ~WorksOn(t, op)
  BY AbsentIsFree
<1>1. ASSUME NEW o \in Ops, Request(o)
      PROVE  mem'[op] = "absent" /\ db'[op] = "absent"
  BY <1>1 DEF Request, Duplicate, Create, Evict
<1>2. ASSUME NEW o \in Ops, DaemonRestarts(o) \/ Expire(o)
      PROVE  mem'[op] = "absent" /\ db'[op] = "absent"
  BY <1>2 DEF DaemonRestarts, Expire
<1>3. ASSUME HandlerStep
      PROVE  mem'[op] = "absent" /\ db'[op] = "absent"
  <2>1. pc[Handler] \in {"create", "enqueue", "reject"} => job[Handler] # op
    BY <1>0 DEF WorksOn, OwnerLabels
  <2> QED
    BY <1>3, <2>1 DEF HandlerStep, Created, SaveCreated, Enqueue, QueueFull, MarkRejected, SaveRejected,
                      DeleteRow, DropRow, ReadStatus, ReadBody, Persist
<1>4. ASSUME NEW w \in Workers, WorkerStep(w)
      PROVE  mem'[op] = "absent" /\ db'[op] = "absent"
  <2>1. pc[w] # "idle" => job[w] # op
    BY <1>0 DEF WorksOn, OwnerLabels, WorkerLabels
  <2> QED
    BY <1>4, <2>1 DEF WorkerStep, Take, Prepare, Written, PrepareFails, Restart, RestartReturns,
                      RestartFails, HealthWait, SetStatus, SetFields, SaveDone, BeginStage, Persist
<1>5. ASSUME Crash
      PROVE  mem'[op] = "absent" /\ db'[op] = "absent"
  BY <1>5 DEF Crash, LoadAndRecover, InMemoryOnly, Recovered
<1>6. ASSUME UNCHANGED vars
      PROVE  mem'[op] = "absent" /\ db'[op] = "absent"
  BY <1>6 DEF vars
<1> QED
  BY <1>1, <1>2, <1>3, <1>4, <1>5, <1>6 DEF Next

\* "ok" comes from a worker whose health check has passed, and is copied from
\* then on between memory and SQLite.
LEMMA OkComes ==
    ASSUME OwnerInv, [Next]_vars, NEW op \in Ops
    PROVE  /\ mem'[op] = "ok" =>
                 \/ mem[op] = "ok" \/ db[op] = "ok"
                 \/ \E w \in Workers : SetFields(w) /\ job[w] = op /\ result[w] = "ok"
           /\ db'[op] = "ok" => mem[op] = "ok" \/ db[op] = "ok"
<1> DEFINE Comes ==
       /\ mem'[op] = "ok" =>
             \/ mem[op] = "ok" \/ db[op] = "ok"
             \/ \E w \in Workers : SetFields(w) /\ job[w] = op /\ result[w] = "ok"
       /\ db'[op] = "ok" => mem[op] = "ok" \/ db[op] = "ok"
<1> USE ThreadFacts, AgentFacts DEF storeVars, threadVars, bedrockVars, At
<1>1. ASSUME NEW o \in Ops, Request(o)
      PROVE  Comes
  BY <1>1 DEF Request, Duplicate, Create, Evict
<1>2. ASSUME NEW o \in Ops, DaemonRestarts(o) \/ Expire(o)
      PROVE  Comes
  BY <1>2 DEF DaemonRestarts, Expire
<1>3. ASSUME HandlerStep
      PROVE  Comes
  BY <1>3 DEF HandlerStep, Created, SaveCreated, Enqueue, QueueFull, MarkRejected, SaveRejected,
              DeleteRow, DropRow, ReadStatus, ReadBody, Persist
<1>4. ASSUME NEW w \in Workers, WorkerStep(w)
      PROVE  Comes
  <2>1. CASE SetFields(w)
    BY <2>1 DEF SetFields
  <2>2. CASE ~SetFields(w)
    BY <1>4, <2>2 DEF WorkerStep, Take, Prepare, Written, PrepareFails, Restart, RestartReturns,
                      RestartFails, HealthWait, SetStatus, SaveDone, BeginStage, Persist
  <2> QED
    BY <2>1, <2>2
<1>5. ASSUME Crash
      PROVE  Comes
  BY <1>5 DEF Crash, LoadAndRecover, InMemoryOnly, Recovered
<1>6. ASSUME UNCHANGED vars
      PROVE  Comes
  BY <1>6 DEF vars
<1> QED
  BY <1>1, <1>2, <1>3, <1>4, <1>5, <1>6 DEF Next

-----------------------------------------------------------------------------
(* What the steps of the client do.                                        *)

Silent ==
    /\ \A i \in 1..Len(wire) : ~wire[i].live
    /\ serving # NoRequest => ~serving.live
    /\ answer = "none"

\* The requests and the one being served stay what they are, live or not.
SameRequests ==
    /\ Len(wire') = Len(wire)
    /\ \A i \in 1..Len(wire) : wire'[i].kind = wire[i].kind /\ wire'[i].op = wire[i].op
    /\ serving' = NoRequest <=> serving = NoRequest
    /\ serving # NoRequest => serving'.kind = serving.kind /\ serving'.op = serving.op

LEMMA StaleFits ==
    ASSUME NEW r \in Requests
    PROVE  /\ Stale(r) \in Requests /\ ~Stale(r).live
           /\ Stale(r).kind = r.kind /\ Stale(r).op = r.op
           /\ Stale(r) # NoRequest
BY ClientAssumption DEF Stale, Requests

LEMMA HangUpFits ==
    ASSUME wire \in Seq(Requests), serving \in Requests \cup {NoRequest}, HangUp
    PROVE  /\ wire' \in Seq(Requests) /\ serving' \in Requests \cup {NoRequest}
           /\ SameRequests /\ Silent'
<1>1. Len(wire) \in Nat /\ \A i \in 1..Len(wire) : wire[i] \in Requests
  OBVIOUS
<1>2. \A i \in 1..Len(wire) : Stale(wire[i]) \in Requests
  BY <1>1, StaleFits
<1>3. wire' \in [1..Len(wire) -> Requests]
  BY <1>2 DEF HangUp
<1>4. wire' \in Seq(Requests) /\ Len(wire') = Len(wire)
  BY <1>1, <1>3
<1>5. \A i \in 1..Len(wire) : wire'[i] = Stale(wire[i])
  BY DEF HangUp
<1>6. /\ \A i \in 1..Len(wire) : wire'[i].kind = wire[i].kind /\ wire'[i].op = wire[i].op
      /\ \A i \in 1..Len(wire) : ~wire'[i].live
  BY <1>1, <1>5, StaleFits
<1>7. CASE serving = NoRequest
  BY <1>4, <1>6, <1>7 DEF HangUp, SameRequests, Silent
<1>8. CASE serving # NoRequest
  <2>1. serving \in Requests /\ serving' = Stale(serving)
    BY <1>8 DEF HangUp
  <2> QED
    BY <1>4, <1>6, <1>8, <2>1, StaleFits DEF HangUp, SameRequests, Silent
<1> QED
  BY <1>7, <1>8

LEMMA SilentUnlessAwaited ==
    ASSUME LiveFits, at \notin AwaitsAnswer
    PROVE  Silent
BY DEF LiveFits, IsAwaited, Silent

\* execute moves on without a request of its own at the agent.
MovesOn ==
    /\ at \notin {"idle", "post"} /\ at' \in {"poll", "recover"}
    /\ UNCHANGED <<call, asked, verdict>>

\* ... or ends, with what it was told.
Ends(outcome) ==
    /\ at # "idle" /\ outcome \in {"ok"} \cup Failures
    /\ at' = "idle" /\ call' = NoOp /\ asked' = asked
    /\ verdict' = [verdict EXCEPT ![call] = outcome]
    /\ outcome = "ok" => answer = "ok"
    /\ outcome = "failed" => answer \in Done \cup Refused

\* ... or asks for the status.
AsksStatus ==
    /\ at \in {"poll", "recover"} /\ at' \in AwaitsAnswer \ {"posted"}
    /\ UNCHANGED <<call, asked, verdict>>
    /\ Deliver("status")

LEMMA TriesFit ==
    ASSUME tries \in Nat
    PROVE  (tries' = tries \/ tries' = 0 \/ tries' = tries + 1) => tries' \in Nat
OBVIOUS

LEMMA ClientMoves ==
    ASSUME ClientTypeOK, LiveFits, ClientStep \/ CallerDies
    PROVE  /\ tries' \in Nat
           /\ \/ Post
              \/ AsksStatus
              \/ /\ MovesOn \/ \E outcome \in {"ok"} \cup Failures : Ends(outcome)
                 /\ wire' \in Seq(Requests) /\ serving' \in Requests \cup {NoRequest}
                 /\ SameRequests /\ Silent'
<1> DEFINE Quiet ==
       /\ wire' \in Seq(Requests) /\ serving' \in Requests \cup {NoRequest}
       /\ SameRequests /\ Silent'
<1> DEFINE Goes == MovesOn \/ \E outcome \in {"ok"} \cup Failures : Ends(outcome)
<1>1. HangUp => Quiet
  BY HangUpFits DEF ClientTypeOK
<1>2. UNCHANGED netVars /\ at \notin AwaitsAnswer => Quiet
  BY SilentUnlessAwaited DEF ClientTypeOK, netVars, SameRequests, Silent
<1>3. /\ {"failed", "ambiguous", "unavailable", "interrupted"} = Failures
      /\ tries \in Nat /\ 0 \in Nat /\ tries + 1 \in Nat
  BY DEF Failures, ClientTypeOK
<1>4. ASSUME NEW o \in Failures \ {"failed"}, at # "idle", Leave(o)
      PROVE  Goes /\ tries' \in Nat
  <2>1. Ends(o)
    BY <1>3, <1>4 DEF Leave, Ends
  <2> QED
    BY <1>3, <1>4, <2>1 DEF Leave
<1>5. ASSUME at \notin {"idle", "post"}, EnterRecovery \/ NextTry \/ TooLate
      PROVE  Goes /\ tries' \in Nat
  <2>1. CASE Leave("ambiguous")
    BY <1>3, <1>4, <1>5, <2>1
  <2>2. CASE Step("recover") /\ tries' \in Nat
    BY <1>5, <2>2 DEF Step, MovesOn
  <2> QED
    BY <1>3, <1>5, <2>1, <2>2 DEF EnterRecovery, NextTry, TooLate
<1>6. ASSUME answer \in Done, at # "idle", Leave(Outcome(answer))
      PROVE  Goes /\ tries' \in Nat
  <2>1. Outcome(answer) \in {"ok", "failed"} /\ (Outcome(answer) = "ok" => answer = "ok")
    BY DEF Outcome
  <2>2. Ends(Outcome(answer))
    BY <1>3, <1>6, <2>1 DEF Leave, Ends
  <2> QED
    BY <1>3, <1>6, <2>1, <2>2 DEF Leave
<1>7. ASSUME at \notin {"idle", "post"}, Step("poll"), tries' \in Nat
      PROVE  Goes /\ tries' \in Nat
  BY <1>7 DEF Step, MovesOn
<1>8. CASE Post
  BY <1>3, <1>8 DEF Post
<1>9. CASE Poll \/ Recover
  <2>1. CASE Deliver("status") /\ UNCHANGED tries /\ (Step("polled") \/ Step("recovered"))
    <3>1. AsksStatus
      BY <1>9, <2>1 DEF AsksStatus, Poll, Recover, Step, AwaitsAnswer
    <3> QED
      BY <1>3, <2>1, <3>1
  <2>2. CASE UNCHANGED netVars /\ (EnterRecovery \/ NextTry \/ TooLate)
    <3>1. at \in {"poll", "recover"}
      BY <1>9 DEF Poll, Recover
    <3> QED
      BY <1>2, <1>5, <2>2, <3>1 DEF AwaitsAnswer
  <2> QED
    BY <1>9, <2>1, <2>2 DEF Poll, Recover
<1>10. CASE PostFails
  <2>1. Leave("unavailable") /\ at = "post" /\ UNCHANGED netVars
    BY <1>10 DEF PostFails
  <2> QED
    BY <1>2, <1>3, <1>4, <2>1 DEF AwaitsAnswer
<1>11. CASE PostUnanswered \/ CallerDies
  <2>1. HangUp /\ at # "idle" /\ (Leave("unavailable") \/ Leave("interrupted"))
    BY <1>11 DEF PostUnanswered, CallerDies
  <2> QED
    BY <1>1, <1>3, <1>4, <2>1
<1>12. CASE PostBodyLost \/ PollUnanswered \/ RecoverUnanswered
  <2>1. HangUp /\ at \notin {"idle", "post"} /\ (EnterRecovery \/ NextTry)
    BY <1>12 DEF PostBodyLost, PollUnanswered, RecoverUnanswered
  <2> QED
    BY <1>1, <1>5, <2>1
<1>13. CASE PostAnswered
  <2>1. HangUp /\ at = "posted"
    BY <1>13 DEF PostAnswered
  <2>2. CASE answer \in Refused
    <3>1. Leave("failed")
      BY <1>13, <2>2 DEF PostAnswered, Refused
    <3>2. Ends("failed")
      BY <1>3, <2>1, <2>2, <3>1 DEF Leave, Ends
    <3> QED
      BY <1>1, <1>3, <2>1, <3>1, <3>2 DEF Leave
  <2>3. CASE answer = "accepted"
    BY <1>1, <1>3, <1>7, <1>13, <2>1, <2>3 DEF PostAnswered, Refused
  <2>4. CASE answer \notin Refused \cup {"accepted"}
    BY <1>1, <1>5, <1>13, <2>1, <2>4 DEF PostAnswered, Refused
  <2> QED
    BY <2>2, <2>3, <2>4
<1>14. CASE PollAnswered
  <2>1. HangUp /\ at = "polled"
    BY <1>14 DEF PollAnswered
  <2>2. CASE answer = "running"
    BY <1>1, <1>3, <1>7, <1>14, <2>1, <2>2 DEF PollAnswered, Done
  <2>3. CASE answer \in Done
    <3>1. Leave(Outcome(answer))
      BY <1>14, <2>3 DEF PollAnswered, Done, Records, Rows, Decided
    <3> QED
      BY <1>1, <1>6, <2>1, <2>3, <3>1
  <2>4. CASE answer = "unknown"
    <3>1. Leave("ambiguous")
      BY <1>14, <2>4 DEF PollAnswered, Done, Records, Rows, Decided
    <3> QED
      BY <1>1, <1>3, <1>4, <2>1, <3>1
  <2>5. CASE answer \notin Done \cup {"running", "unknown"}
    BY <1>1, <1>5, <1>14, <2>1, <2>5 DEF PollAnswered
  <2> QED
    BY <2>2, <2>3, <2>4, <2>5
<1>15. CASE RecoverAnswered
  <2>1. HangUp /\ at = "recovered"
    BY <1>15 DEF RecoverAnswered
  <2>2. CASE answer = "running"
    BY <1>1, <1>3, <1>7, <1>15, <2>1, <2>2 DEF RecoverAnswered, Done
  <2>3. CASE answer \in Done
    <3>1. Leave(Outcome(answer))
      BY <1>15, <2>3 DEF RecoverAnswered, Done, Records, Rows, Decided
    <3> QED
      BY <1>1, <1>6, <2>1, <2>3, <3>1
  <2>4. CASE answer \notin Done \cup {"running"}
    BY <1>1, <1>5, <1>15, <2>1, <2>4 DEF RecoverAnswered
  <2> QED
    BY <2>2, <2>3, <2>4
<1> QED
  BY <1>8, <1>9, <1>10, <1>11, <1>12, <1>13, <1>14, <1>15 DEF ClientStep

-----------------------------------------------------------------------------
(* The client's steps preserve the invariant.                              *)

LEMMA AgentRests ==
    ASSUME UNCHANGED agentVars
    PROVE  /\ mem' = mem /\ db' = db /\ queue' = queue /\ pc' = pc /\ job' = job /\ result' = result
           /\ props' = props /\ loaded' = loaded /\ reboot' = reboot /\ told' = told
           /\ \A op : Queued(op)' <=> Queued(op)
           /\ \A t, op : Owns(t, op)' <=> Owns(t, op)
           /\ \A op : Begun(op)' <=> Begun(op)
BY DEF agentVars, vars, storeVars, threadVars, bedrockVars, Queued, Owns, Begun

LEMMA RequestsRest ==
    ASSUME UNCHANGED agentVars, wire \in Seq(Requests), wire' \in Seq(Requests), SameRequests
    PROVE  \A op : (OnWire(op)' <=> OnWire(op)) /\ (AtHandler(op)' <=> AtHandler(op))
BY AgentRests DEF SameRequests, OnWire, AtHandler

\* What waits or has begun has a record, unless its request has not been read.
LEMMA PlacesFit ==
    ASSUME OwnerInv, ServiceFits, NEW op \in Ops
    PROVE  /\ AtHandler(op) \/ Queued(op) => mem[op] = "running"
           /\ Begun(op) => mem[op] \in {"running", "undecided"}
           /\ AtHandler(op) \/ OnWire(op) => op \in Asked
<1>1. AtHandler(op) => Owns(Handler, op) /\ pc[Handler] # "fields"
  BY DEF AtHandler, Owns
<1>2. Owns(Handler, op) /\ pc[Handler] # "fields" => mem[op] = "running"
  BY ThreadFacts DEF OwnerInv, OwnersFit
<1>3. Queued(op) => mem[op] = "running"
  BY DEF OwnerInv, OwnersFit
<1>4. Begun(op) => mem[op] \in {"running", "undecided"}
  BY ThreadFacts DEF OwnerInv, OwnersFit, Begun
<1>5. AtHandler(op) \/ OnWire(op) => op \in Asked
  BY DEF ServiceFits, AtHandler, OnWire
<1> QED
  BY <1>1, <1>2, <1>3, <1>4, <1>5

LEMMA LastIsLast ==
    ASSUME ClientTypeOK, CallFits, at # "idle"
    PROVE  call \in Ops /\ call \in Asked /\ \A y : ~Before(call, y)
<1>1. Len(asked) \in Nat \ {0} /\ call = asked[Len(asked)] /\ call \in Ops
  BY DEF ClientTypeOK, CallFits
<1>2. call \in Asked
  BY <1>1 DEF Asked
<1>3. ASSUME NEW i \in 1..Len(asked), NEW j \in 1..Len(asked), i < j, asked[i] = call
      PROVE  FALSE
  BY <1>1, <1>3 DEF CallFits
<1> QED
  BY <1>1, <1>2, <1>3 DEF Before

LEMMA CallKeeps ==
    ASSUME OwnerInv, ClientTypeOK, AdapterInv, Call, UNCHANGED <<agentVars, succeeded, caller>>
    PROVE  ClientTypeOK' /\ AdapterInv'
<1> USE DEF AdapterInv
<1>1. PICK op \in Ops : op \notin Asked /\ call' = op /\ asked' = Append(asked, op)
  BY DEF Call
<1>2. /\ at = "idle" /\ at' = "post" /\ tries' = tries /\ verdict' = verdict
      /\ wire' = wire /\ serving' = serving /\ answer' = answer /\ succeeded' = succeeded
  BY DEF Call, netVars
<1>3. /\ Len(asked) \in Nat /\ Len(asked') = Len(asked) + 1 /\ asked'[Len(asked) + 1] = op
      /\ \A i \in 1..Len(asked) : asked'[i] = asked[i] /\ asked[i] \in Asked
      /\ asked' \in Seq(Ops)
  BY <1>1 DEF ClientTypeOK, Asked
<1>4. Asked' = Asked \cup {op}
  BY <1>3 DEF Asked
<1>5. ASSUME NEW x, NEW y
      PROVE  Before(x, y)' => x \in Asked /\ (Before(x, y) \/ y = op)
  <2> SUFFICES ASSUME NEW i \in 1..Len(asked'), NEW j \in 1..Len(asked'), i < j, asked'[i] = x, asked'[j] = y
               PROVE  x \in Asked /\ (Before(x, y) \/ y = op)
    BY DEF Before
  <2>1. i \in 1..Len(asked) /\ (j \in 1..Len(asked) \/ j = Len(asked) + 1)
    BY <1>3
  <2> QED
    BY <1>3, <2>1 DEF Before
<1>6. ClientTypeOK'
  BY <1>1, <1>2, <1>3 DEF ClientTypeOK, Places
<1>7. /\ \A o : OnWire(o)' <=> OnWire(o)
      /\ \A o : AtHandler(o)' <=> AtHandler(o)
      /\ \A o : Posting(o)' <=> o = op
      /\ \A o : ~Posting(o)
  BY <1>1, <1>2, AgentRests DEF OnWire, AtHandler, Posting
<1>8. mem[op] = "absent" /\ db[op] = "absent"
  BY <1>1 DEF UnknownIsAbsent, Unknown
<1>9. ~OnWire(op) /\ ~AtHandler(op) /\ ~Queued(op) /\ ~Begun(op)
  BY <1>1, <1>8, PlacesFit
<1>10. CallFits'
  <2>1. at' # "idle" /\ call' # NoOp /\ asked' # <<>> /\ call' = asked'[Len(asked')] /\ verdict'[call'] = "none"
    BY <1>1, <1>2, <1>3, ThreadFacts DEF CallFits, ClientTypeOK
  <2>2. ASSUME NEW i \in 1..Len(asked'), NEW j \in 1..Len(asked'), asked'[i] = asked'[j]
        PROVE  i = j
    BY <1>1, <1>3, <2>2 DEF CallFits
  <2> QED
    BY <1>2, <1>4, <2>1, <2>2 DEF CallFits
<1>11. LiveFits'
  BY <1>2, SilentUnlessAwaited DEF LiveFits, IsAwaited, Silent, AwaitsAnswer
<1>12. ServiceFits'
  BY <1>2, <1>4, AgentRests DEF ServiceFits
<1>13. UnknownIsAbsent'
  BY <1>4, <1>7, <1>8, <1>9, AgentRests DEF UnknownIsAbsent, Unknown
<1>14. \A o \in Ops : o # op => (Waiting(o)' <=> Waiting(o)) /\ (Final(o)' <=> Final(o))
  BY <1>7, AgentRests DEF Waiting, Final
<1>15. EndsAreFinal'
  <2>1. pc[Handler] = "body" => job[Handler] \in Asked
    BY DEF ServiceFits
  <2>2. pc[Handler] = "body" => job[Handler] \in Ops
    BY AgentFacts
  <2>3. answer = "none" /\ "none" \notin Done \cup Refused
    BY <1>2 DEF LiveFits, AwaitsAnswer, Done, Refused, Records, Rows, Decided
  <2>4. \A o \in Ops : verdict[o] = "failed" => o \in Asked
    BY DEF CallFits
  <2> QED
    BY <1>1, <1>2, <1>14, <2>1, <2>2, <2>3, <2>4, AgentRests DEF EndsAreFinal, FailedIsFinal
<1>16. OkIsTrue'
  BY <1>1, <1>2, <1>4, <1>14, AgentRests DEF OkIsTrue, LiveFits, AwaitsAnswer, ClientTypeOK
<1>17. InOrder'
  <2> SUFFICES ASSUME NEW x \in Ops, NEW y \in Ops, Before(x, y)'
               PROVE  /\ Begun(y)' => ~Waiting(x)'
                      /\ Queued(y)' => ~OnWire(x)' /\ ~AtHandler(x)'
                      /\ AtHandler(y)' => ~OnWire(x)'
                      /\ \A i, j \in 1..Len(queue) : queue[i] = x /\ queue[j] = y => i < j
                      /\ \A i, j \in 1..Len(wire) :
                            wire[i].kind = "execute" /\ wire[i].op = x /\ wire[j].kind = "execute" /\ wire[j].op = y
                                => i < j
    BY <1>2, AgentRests DEF InOrder
  <2>1. x # op /\ (Before(x, y) \/ y = op)
    BY <1>1, <1>5
  <2>2. CASE y = op
    BY <1>7, <1>9, <2>2, AgentRests DEF Queued, OnWire
  <2>3. CASE Before(x, y)
    BY <1>7, <1>14, <2>1, <2>3, AgentRests DEF InOrder
  <2> QED
    BY <2>1, <2>2, <2>3
<1>18. RestartedIsLoaded'
  BY <1>2, AgentRests DEF RestartedIsLoaded, Restarted
<1> QED
  BY <1>6, <1>10, <1>11, <1>12, <1>13, <1>15, <1>16, <1>17, <1>18

LEMMA DeliverFits ==
    ASSUME wire \in Seq(Requests), call \in Ops, NEW kind \in {"execute", "status"}, Deliver(kind)
    PROVE  /\ wire' \in Seq(Requests) /\ Len(wire) \in Nat /\ Len(wire') = Len(wire) + 1
           /\ \A i \in 1..Len(wire) : wire'[i] = wire[i]
           /\ wire'[Len(wire) + 1] = [kind |-> kind, op |-> call, live |-> TRUE]
           /\ serving' = serving /\ answer' = answer
           /\ \A op : OnWire(op)' <=> OnWire(op) \/ (kind = "execute" /\ op = call)
<1>1. [kind |-> kind, op |-> call, live |-> TRUE] \in Requests
  BY DEF Requests
<1>2. /\ wire' \in Seq(Requests) /\ Len(wire) \in Nat /\ Len(wire') = Len(wire) + 1
      /\ \A i \in 1..Len(wire) : wire'[i] = wire[i]
      /\ wire'[Len(wire) + 1] = [kind |-> kind, op |-> call, live |-> TRUE]
      /\ serving' = serving /\ answer' = answer
  BY <1>1 DEF Deliver
<1>3. ASSUME NEW op, OnWire(op)
      PROVE  OnWire(op)'
  <2>1. PICK i \in 1..Len(wire) : wire[i].kind = "execute" /\ wire[i].op = op
    BY <1>3 DEF OnWire
  <2>2. i \in 1..Len(wire') /\ wire'[i] = wire[i]
    BY <1>2
  <2> QED
    BY <2>1, <2>2 DEF OnWire
<1>4. ASSUME NEW op, kind = "execute", op = call
      PROVE  OnWire(op)'
  <2>1. Len(wire) + 1 \in 1..Len(wire')
    BY <1>2
  <2> QED
    BY <1>2, <1>4, <2>1 DEF OnWire
<1>5. ASSUME NEW op, OnWire(op)'
      PROVE  OnWire(op) \/ (kind = "execute" /\ op = call)
  <2>1. PICK i \in 1..Len(wire') : wire'[i].kind = "execute" /\ wire'[i].op = op
    BY <1>5 DEF OnWire
  <2>2. i \in 1..Len(wire) \/ i = Len(wire) + 1
    BY <1>2
  <2> QED
    BY <1>2, <2>1, <2>2 DEF OnWire
<1> QED
  BY <1>2, <1>3, <1>4, <1>5

LEMMA PostKeeps ==
    ASSUME OwnerInv, ClientTypeOK, AdapterInv, Post, UNCHANGED <<agentVars, succeeded, caller>>
    PROVE  ClientTypeOK' /\ AdapterInv'
<1> USE DEF AdapterInv
<1>1. /\ at = "post" /\ at' = "posted" /\ tries' = tries /\ verdict' = verdict /\ call' = call
      /\ asked' = asked /\ succeeded' = succeeded /\ caller' = caller
  BY DEF Post, Step
<1>2. /\ call \in Ops /\ call \in Asked /\ \A y : ~Before(call, y)
      /\ \A x, y : Before(x, y)' <=> Before(x, y)
      /\ Asked' = Asked
  BY <1>1, LastIsLast DEF Before, Asked
<1> DEFINE r == [kind |-> "execute", op |-> call, live |-> TRUE]
<1>3. /\ wire' \in Seq(Requests) /\ Len(wire) \in Nat /\ Len(wire') = Len(wire) + 1
      /\ \A i \in 1..Len(wire) : wire'[i] = wire[i]
      /\ wire'[Len(wire) + 1] = r
      /\ serving' = serving /\ answer' = answer
      /\ \A op : OnWire(op)' <=> OnWire(op) \/ op = call
  BY <1>2, DeliverFits DEF Post, ClientTypeOK
<1>4. ClientTypeOK'
  BY <1>1, <1>3 DEF ClientTypeOK, Places
<1>5. /\ \A op : AtHandler(op)' <=> AtHandler(op)
      /\ \A op : ~Posting(op)'
      /\ \A op : Posting(op) <=> op = call
      /\ \A op : Waiting(op)' <=> Waiting(op)
      /\ \A op : Final(op)' <=> Final(op)
  BY <1>1, <1>3, AgentRests DEF AtHandler, Posting, Waiting, Final
<1>6. /\ \A i \in 1..Len(wire') : i \in 1..Len(wire) \/ i = Len(wire) + 1
      /\ \A i \in 1..Len(wire) : ~(i = Len(wire) + 1)
      /\ ~OnWire(call)
      /\ r.kind = "execute" /\ r.op = call /\ r.live
  BY <1>2, <1>3, <1>5 DEF UnknownIsAbsent
<1>7. CallFits'
  BY <1>1, <1>2 DEF CallFits
<1>8. LiveFits'
  <2>1. Silent
    BY <1>1, SilentUnlessAwaited DEF AwaitsAnswer
  <2> QED
    BY <1>1, <1>3, <1>6, <2>1 DEF LiveFits, IsAwaited, Silent, AwaitsAnswer
<1>9. ServiceFits'
  <2>1. \A i \in 1..Len(wire') : wire'[i].op \in Asked
    BY <1>2, <1>3, <1>6 DEF ServiceFits
  <2>2. ASSUME NEW i \in 1..Len(wire'), NEW j \in 1..Len(wire'),
               wire'[i].kind = "execute", wire'[j].kind = "execute", wire'[i].op = wire'[j].op
        PROVE  i = j
    BY <1>3, <1>6, <2>2 DEF ServiceFits, OnWire
  <2> QED
    BY <1>2, <1>3, <2>1, <2>2, AgentRests DEF ServiceFits
<1>10. UnknownIsAbsent'
  BY <1>2, <1>3, <1>5, AgentRests DEF UnknownIsAbsent, Unknown
<1>11. EndsAreFinal'
  BY <1>1, <1>3, <1>5, AgentRests DEF EndsAreFinal, FailedIsFinal
<1>12. OkIsTrue'
  BY <1>1, <1>2, <1>3, <1>5, AgentRests DEF OkIsTrue
<1>13. InOrder'
  <2> SUFFICES ASSUME NEW x \in Ops, NEW y \in Ops, Before(x, y)
               PROVE  /\ Begun(y) => ~Waiting(x)'
                      /\ Queued(y) => ~OnWire(x)' /\ ~AtHandler(x)'
                      /\ AtHandler(y)' => ~OnWire(x)'
                      /\ \A i, j \in 1..Len(queue) : queue[i] = x /\ queue[j] = y => i < j
                      /\ \A i, j \in 1..Len(wire') :
                            wire'[i].kind = "execute" /\ wire'[i].op = x /\ wire'[j].kind = "execute" /\ wire'[j].op = y
                                => i < j
    BY <1>2, AgentRests DEF InOrder
  <2>1. x # call
    BY <1>2
  <2>2. ASSUME NEW i \in 1..Len(wire'), NEW j \in 1..Len(wire'),
               wire'[i].kind = "execute", wire'[i].op = x, wire'[j].kind = "execute", wire'[j].op = y
        PROVE  i < j
    <3>1. i \in 1..Len(wire)
      BY <1>3, <1>6, <2>1, <2>2
    <3>2. CASE j \in 1..Len(wire)
      BY <1>3, <2>2, <3>1, <3>2 DEF InOrder
    <3>3. CASE j = Len(wire) + 1
      BY <1>3, <3>1, <3>3
    <3> QED
      BY <1>6, <3>2, <3>3
  <2> QED
    BY <1>3, <1>5, <2>1, <2>2 DEF InOrder
<1>14. RestartedIsLoaded'
  BY <1>1, AgentRests DEF RestartedIsLoaded, Restarted
<1> QED
  BY <1>4, <1>7, <1>8, <1>9, <1>10, <1>11, <1>12, <1>13, <1>14

LEMMA AsksStatusKeeps ==
    ASSUME OwnerInv, ClientTypeOK, AdapterInv, AsksStatus, tries' \in Nat, UNCHANGED <<agentVars, succeeded, caller>>
    PROVE  ClientTypeOK' /\ AdapterInv'
<1> USE DEF AdapterInv
<1>1. /\ at \in {"poll", "recover"} /\ at' \in {"polled", "recovered"} /\ verdict' = verdict /\ call' = call
      /\ asked' = asked /\ succeeded' = succeeded /\ caller' = caller
  BY DEF AsksStatus, AwaitsAnswer
<1>2. /\ call \in Ops /\ call \in Asked
      /\ \A x, y : Before(x, y)' <=> Before(x, y)
      /\ Asked' = Asked
  BY <1>1, LastIsLast DEF Before, Asked
<1> DEFINE r == [kind |-> "status", op |-> call, live |-> TRUE]
<1>3. /\ wire' \in Seq(Requests) /\ Len(wire) \in Nat /\ Len(wire') = Len(wire) + 1
      /\ \A i \in 1..Len(wire) : wire'[i] = wire[i]
      /\ wire'[Len(wire) + 1] = r
      /\ serving' = serving /\ answer' = answer
      /\ \A op : OnWire(op)' <=> OnWire(op)
  BY <1>2, DeliverFits DEF AsksStatus, ClientTypeOK
<1>4. ClientTypeOK'
  BY <1>1, <1>3 DEF ClientTypeOK, Places
<1>5. /\ \A op : AtHandler(op)' <=> AtHandler(op)
      /\ \A op : ~Posting(op)' /\ ~Posting(op)
      /\ \A op : Waiting(op)' <=> Waiting(op)
      /\ \A op : Final(op)' <=> Final(op)
  BY <1>1, <1>3, AgentRests DEF AtHandler, Posting, Waiting, Final
<1>6. /\ \A i \in 1..Len(wire') : i \in 1..Len(wire) \/ i = Len(wire) + 1
      /\ r.kind = "status" /\ r.op = call /\ r.live
  BY <1>3
<1>7. CallFits'
  BY <1>1, <1>2 DEF CallFits
<1>8. LiveFits'
  <2>1. Silent
    BY <1>1, SilentUnlessAwaited DEF AwaitsAnswer
  <2> QED
    BY <1>1, <1>3, <1>6, <2>1 DEF LiveFits, IsAwaited, Silent, AwaitsAnswer
<1>9. ServiceFits'
  BY <1>2, <1>3, <1>6, AgentRests DEF ServiceFits
<1>10. UnknownIsAbsent'
  BY <1>2, <1>3, <1>5, AgentRests DEF UnknownIsAbsent, Unknown
<1>11. EndsAreFinal'
  BY <1>1, <1>3, <1>5, AgentRests DEF EndsAreFinal, FailedIsFinal
<1>12. OkIsTrue'
  BY <1>1, <1>2, <1>3, <1>5, AgentRests DEF OkIsTrue
<1>13. InOrder'
  <2>1. ASSUME NEW i \in 1..Len(wire'), wire'[i].kind = "execute"
        PROVE  i \in 1..Len(wire) /\ wire'[i] = wire[i]
    BY <1>3, <1>6, <2>1
  <2> QED
    BY <1>2, <1>3, <1>5, <2>1, AgentRests DEF InOrder
<1>14. RestartedIsLoaded'
  BY <1>1, AgentRests DEF RestartedIsLoaded, Restarted
<1> QED
  BY <1>4, <1>7, <1>8, <1>9, <1>10, <1>11, <1>12, <1>13, <1>14

LEMMA QuietKeeps ==
    ASSUME OwnerInv, ClientTypeOK, AdapterInv, UNCHANGED <<agentVars, succeeded, caller>>,
           MovesOn \/ \E outcome \in {"ok"} \cup Failures : Ends(outcome),
           wire' \in Seq(Requests), serving' \in Requests \cup {NoRequest}, tries' \in Nat,
           SameRequests, Silent'
    PROVE  ClientTypeOK' /\ AdapterInv'
<1> USE DEF AdapterInv
<1>1. /\ at # "idle" /\ at' \in {"idle", "poll", "recover"} /\ asked' = asked /\ succeeded' = succeeded /\ caller' = caller
      /\ at' = "idle" => call' = NoOp
      /\ at' # "idle" => call' = call /\ verdict' = verdict
  BY DEF MovesOn, Ends
<1>2. /\ call \in Ops /\ call \in Asked
      /\ \A x, y : Before(x, y)' <=> Before(x, y)
      /\ Asked' = Asked
  BY <1>1, LastIsLast DEF Before, Asked
<1>3. /\ \A op \in Ops : op # call => verdict'[op] = verdict[op]
      /\ verdict' \in [Ops -> {"none", "ok"} \cup Failures]
      /\ verdict'[call] # verdict[call] =>
             /\ verdict'[call] = "ok" => answer = "ok"
             /\ verdict'[call] = "failed" => answer \in Done \cup Refused
  BY <1>2 DEF MovesOn, Ends, ClientTypeOK
<1>4. ClientTypeOK'
  BY <1>1, <1>2, <1>3 DEF ClientTypeOK, Places
<1>5. /\ \A op : OnWire(op)' <=> OnWire(op)
      /\ \A op : AtHandler(op)' <=> AtHandler(op)
  BY RequestsRest DEF ClientTypeOK
<1>6. /\ \A op : ~Posting(op)'
      /\ \A op : Waiting(op)' => Waiting(op)
      /\ \A op : Final(op) => Final(op)'
  BY <1>1, <1>5, AgentRests DEF Posting, Waiting, Final
<1>7. CallFits'
  <2>1. at' # "idle" => verdict'[call'] = "none" /\ call' # NoOp
    BY <1>1, <1>2, ThreadFacts DEF CallFits
  <2> QED
    BY <1>1, <1>2, <1>3, <2>1 DEF CallFits
<1>8. LiveFits'
  BY DEF LiveFits, IsAwaited, Silent
<1>9. ServiceFits'
  <2>1. Len(wire') = Len(wire)
    BY DEF SameRequests
  <2> QED
    BY <1>2, <2>1, AgentRests DEF ServiceFits, SameRequests
<1>10. UnknownIsAbsent'
  BY <1>2, <1>5, <1>6, AgentRests DEF UnknownIsAbsent, Unknown
<1>11. EndsAreFinal'
  <2>1. answer' = "none" /\ "none" \notin Done \cup Refused
    BY DEF Silent, Done, Refused, Records, Rows, Decided
  <2>2. ASSUME NEW op \in Ops, verdict'[op] = "failed"
        PROVE  Final(op)'
    <3>1. CASE verdict[op] = "failed"
      BY <1>6, <3>1 DEF EndsAreFinal, FailedIsFinal
    <3>2. CASE verdict[op] # "failed"
      <4>1. op = call /\ answer \in Done \cup Refused
        BY <1>3, <2>2, <3>2
      <4> QED
        BY <1>6, <4>1 DEF EndsAreFinal
    <3> QED
      BY <3>1, <3>2
  <2>3. (pc[Handler] = "body" => Final(job[Handler]))'
    BY <1>6, AgentRests DEF EndsAreFinal
  <2> QED
    BY <2>1, <2>2, <2>3 DEF EndsAreFinal, FailedIsFinal
<1>12. OkIsTrue'
  <2>1. answer' # "ok"
    BY DEF Silent
  <2>2. ASSUME NEW op \in Ops, verdict'[op] = "ok"
        PROVE  op \in succeeded
    BY <1>3, <2>2 DEF OkIsTrue
  <2> QED
    BY <1>1, <1>2, <1>6, <2>1, <2>2, AgentRests DEF OkIsTrue
<1>13. InOrder'
  <2>1. Len(wire') = Len(wire)
    BY DEF SameRequests
  <2> QED
    BY SMTT(30), <1>2, <1>5, <1>6, <2>1, AgentRests DEF InOrder, SameRequests
<1>14. RestartedIsLoaded'
  BY <1>1, AgentRests DEF RestartedIsLoaded, Restarted
<1> QED
  BY <1>4, <1>7, <1>8, <1>9, <1>10, <1>11, <1>12, <1>13, <1>14

-----------------------------------------------------------------------------
(* How operations move on at the agent.                                    *)

\* What is left on the wire, in the order in which it was.
Remains == wire' = wire \/ (wire # <<>> /\ wire' = Tail(wire)) \/ wire' = <<>>

\* The handler reads a request, ...
Reads ==
    /\ wire # <<>> /\ wire' = Tail(wire) /\ Head(wire).kind = "execute"
    /\ queue' = queue
    /\ \A op : ~AtHandler(op)
    /\ \A op : AtHandler(op)' => op = Head(wire).op
    /\ \A op : Begun(op)' => Begun(op)

\* ... queues its operation, ...
Queues ==
    /\ wire' = wire
    /\ AtHandler(job[Handler]) /\ job[Handler] \in Ops
    /\ queue' = Append(queue, job[Handler])
    /\ \A op : ~AtHandler(op)'
    /\ \A op : Begun(op)' => Begun(op)

\* ... a worker takes it, ...
Takes ==
    /\ wire' = wire
    /\ queue # <<>> /\ queue' = Tail(queue)
    /\ \A op : AtHandler(op)' <=> AtHandler(op)
    /\ \A op : Begun(op)' <=> Begun(op) \/ op = Head(queue)

\* ... or something is lost or ends, or nothing moves.
Loses ==
    /\ Remains
    /\ queue' = queue \/ queue' = <<>>
    /\ \A op : AtHandler(op)' => AtHandler(op)
    /\ \A op : Begun(op)' => Begun(op)

Handles == Serve \/ ServeStep \/ ServeRejects \/ AgentDies \/ AgentRuns

LEMMA HandlesIsNext ==
    ASSUME ClientTypeOK, Handles
    PROVE  [Next]_vars /\ UNCHANGED clientVars
<1>1. CASE Serve
  <2>1. Head(wire) \in Requests
    BY <1>1 DEF Serve, ClientTypeOK
  <2>2. Head(wire).op \in Ops
    BY <2>1 DEF Requests
  <2> QED
    BY <1>1, <2>2 DEF Serve, Next, Request
<1>2. CASE ServeStep
  BY <1>2 DEF ServeStep, Next
<1>3. CASE ServeRejects
  BY <1>3 DEF ServeRejects, agentVars
<1>4. CASE AgentDies
  BY <1>4 DEF AgentDies, Next
<1>5. CASE AgentRuns
  BY <1>5 DEF AgentRuns, Next
<1> QED
  BY <1>1, <1>2, <1>3, <1>4, <1>5 DEF Handles

\* The handler begins nothing, and queues only what it enqueues.
LEMMA HandlerMoves ==
    ASSUME OwnerInv, HandlerStep \/ \E op \in Ops : Create(op) \/ Evict(op)
    PROVE  /\ \A w \in Workers : pc'[w] = pc[w] /\ job'[w] = job[w]
           /\ result' = result
           /\ \A op : Begun(op)' <=> Begun(op)
           /\ ~Enqueue => queue' = queue
           /\ UNCHANGED bedrockVars
<1> USE ThreadFacts, AgentFacts DEF Goto, HandlerDone, storeVars, threadVars
<1>1. /\ \A w \in Workers : pc'[w] = pc[w] /\ job'[w] = job[w]
      /\ result' = result
      /\ ~Enqueue => queue' = queue
      /\ UNCHANGED bedrockVars
  <2>1. CASE HandlerStep
    BY <2>1 DEF HandlerStep, Created, Enqueue, QueueFull, SaveRejected, DeleteRow, ReadStatus, ReadBody, bedrockVars
  <2>2. ASSUME NEW op \in Ops, Create(op) \/ Evict(op)
        PROVE <1>1
    BY <2>2 DEF Create, Evict, bedrockVars
  <2> QED
    BY <2>1, <2>2
<1> QED
  BY <1>1 DEF Begun, Owns

LEMMA StepHands ==
    ASSUME OwnerInv, ClientTypeOK, ServiceFits, Handles
    PROVE  Reads \/ Queues \/ Takes \/ Loses
<1> USE ThreadFacts, AgentFacts
<1>1. CASE Serve
  <2> DEFINE r == Head(wire)
  <2>1. r \in Requests /\ r.op \in Ops /\ r # NoRequest
    <3>1. r \in Requests
      BY <1>1 DEF Serve, ClientTypeOK
    <3> QED
      BY <3>1, ClientAssumption DEF Requests
  <2>2. CASE r.kind = "execute"
    <3>1. Create(r.op)
      BY <1>1, <2>2 DEF Serve
    <3>2. \A op : AtHandler(op)' => op = r.op
      BY <3>1 DEF Create, AtHandler
    <3> QED
      BY <1>1, <2>1, <2>2, <3>1, <3>2, HandlerMoves DEF Serve, Reads, AtHandler, Create, Enqueue, HandlerIdle
  <2>3. CASE r.kind # "execute"
    <3>1. Evict(r.op)
      BY <1>1, <2>3 DEF Serve
    <3>2. \A op : ~AtHandler(op)'
      BY <3>1 DEF Evict, AtHandler, Goto
    <3> QED
      BY <1>1, <2>1, <3>1, <3>2, HandlerMoves DEF Serve, Loses, Remains, Evict, Enqueue, HandlerIdle
  <2> QED
    BY <2>2, <2>3
<1>2. CASE ServeStep
  <2>1. wire' = wire /\ HandlerStep /\ serving # NoRequest
    BY <1>2 DEF ServeStep
  <2>2. CASE Enqueue
    <3>1. AtHandler(job[Handler]) /\ job[Handler] \in Ops /\ queue' = Append(queue, job[Handler])
      BY <2>1, <2>2 DEF Enqueue, AtHandler
    <3>2. \A op : ~AtHandler(op)'
      BY <2>2 DEF Enqueue, AtHandler, HandlerDone, Goto
    <3> QED
      BY <2>1, <3>1, <3>2, HandlerMoves DEF Queues
  <2>3. CASE ~Enqueue
    <3>1. \A op : AtHandler(op)' => AtHandler(op)
      BY <2>1, <2>3 DEF HandlerStep, AtHandler, HandlerDone, Goto, Created, QueueFull, SaveRejected,
                        DeleteRow, ReadStatus, ReadBody, threadVars
    <3> QED
      BY <2>1, <2>3, <3>1, HandlerMoves DEF Loses, Remains
  <2> QED
    BY <2>2, <2>3
<1>3. CASE ServeRejects
  BY <1>3, AgentRests DEF ServeRejects, Loses, Remains, AtHandler
<1>4. CASE AgentDies
  <2>1. queue' = <<>> /\ wire' = <<>> /\ \A t \in Threads : pc'[t] = "idle"
    BY <1>4 DEF AgentDies, Crash
  <2> QED
    BY <2>1 DEF Loses, Remains, AtHandler, Begun, Owns
<1>5. CASE AgentRuns
  <2>1. wire' = wire /\ serving' = serving
    BY <1>5 DEF AgentRuns, netVars
  <2>2. ASSUME NEW w \in Workers, WorkerStep(w)
        PROVE  Takes \/ Loses
    <3>1. \A t \in Threads \ {w} : pc'[t] = pc[t] /\ job'[t] = job[t]
      BY <2>2, WorkerMoves
    <3>2. /\ \A op : AtHandler(op)' <=> AtHandler(op)
          /\ \A v \in Workers \ {w} : \A op : Owns(v, op)' <=> Owns(v, op)
      BY <2>1, <3>1 DEF AtHandler, Owns
    <3>3. CASE Take(w)
      <4>1. /\ queue # <<>> /\ queue' = Tail(queue)
            /\ pc[w] = "idle" /\ pc'[w] = "prepare" /\ job'[w] = Head(queue)
        BY <3>3 DEF Take, At, Goto
      <4>2. \A op : Owns(w, op)' <=> op = Head(queue)
        BY <4>1 DEF Owns
      <4>3. \A op : ~Owns(w, op)
        BY <4>1 DEF Owns
      <4>4. \A op : Begun(op)' <=> Begun(op) \/ op = Head(queue)
        BY <3>2, <4>2, <4>3 DEF Begun
      <4> QED
        BY <2>1, <3>2, <4>1, <4>4 DEF Takes
    <3>4. CASE ~Take(w)
      <4>1. queue' = queue /\ \A op : Owns(w, op)' => Owns(w, op)
        BY <2>2, <3>4, WorkerMoves
      <4>2. \A op : Begun(op)' => Begun(op)
        BY <3>2, <4>1 DEF Begun
      <4> QED
        BY <2>1, <3>2, <4>1, <4>2 DEF Loses, Remains
    <3> QED
      BY <3>3, <3>4
  <2>3. ASSUME NEW op \in Ops, DaemonRestarts(op)
        PROVE  Loses
    BY <2>1, <2>3 DEF DaemonRestarts, threadVars, Loses, Remains, AtHandler, Begun, Owns
  <2> QED
    BY <1>5, <2>2, <2>3 DEF AgentRuns
<1> QED
  BY <1>1, <1>2, <1>3, <1>4, <1>5 DEF Handles

LEMMA WireShrinks ==
    ASSUME wire \in Seq(Requests), Remains
    PROVE  /\ wire' \in Seq(Requests)
           /\ \E n \in {0, 1} : \A i \in 1..Len(wire') : i + n \in 1..Len(wire) /\ wire'[i] = wire[i + n]
           /\ \A op : OnWire(op)' => OnWire(op)
<1>1. /\ wire' \in Seq(Requests)
      /\ \E n \in {0, 1} : \A i \in 1..Len(wire') : i + n \in 1..Len(wire) /\ wire'[i] = wire[i + n]
  <2>1. CASE wire' = wire
    BY <2>1
  <2>2. CASE wire # <<>> /\ wire' = Tail(wire)
    <3>1. wire' \in Seq(Requests) /\ Len(wire') = Len(wire) - 1 /\ \A i \in 1..Len(wire') : wire'[i] = wire[i + 1]
      BY <2>2, HeadTailProperties
    <3> QED
      BY <3>1
  <2>3. CASE wire' = <<>>
    BY <2>3
  <2> QED
    BY <2>1, <2>2, <2>3 DEF Remains
<1> QED
  BY <1>1 DEF OnWire

\* The request that is read is not on the wire any more.
LEMMA HeadLeaves ==
    ASSUME wire \in Seq(Requests), wire # <<>>, wire' = Tail(wire), ServiceFits
    PROVE  /\ Head(wire) \in Requests /\ Head(wire) = wire[1] /\ 1 \in 1..Len(wire)
           /\ Head(wire).kind = "execute" => OnWire(Head(wire).op) /\ \A op : op = Head(wire).op => ~OnWire(op)'
<1>1. /\ Head(wire) \in Requests /\ Head(wire) = wire[1] /\ 1 \in 1..Len(wire) /\ Len(wire) \in Nat
      /\ Len(wire') = Len(wire) - 1 /\ \A i \in 1..Len(wire') : wire'[i] = wire[i + 1]
  BY HeadTailProperties
<1>2. Head(wire).kind = "execute" => OnWire(Head(wire).op)
  BY <1>1 DEF OnWire
<1>3. ASSUME Head(wire).kind = "execute", NEW i \in 1..Len(wire'),
             wire'[i].kind = "execute", wire'[i].op = Head(wire).op
      PROVE  FALSE
  <2>1. i + 1 \in 1..Len(wire) /\ i + 1 # 1 /\ wire[i + 1] = wire'[i]
    BY <1>1
  <2> QED
    BY <1>1, <1>3, <2>1 DEF ServiceFits
<1> QED
  BY <1>1, <1>2, <1>3 DEF OnWire

\* However they move, nobody overtakes and nothing comes to wait.
LEMMA OrderKept ==
    ASSUME OwnerInv, ClientTypeOK, AdapterInv, UNCHANGED clientVars,
           Reads \/ Queues \/ Takes \/ Loses
    PROVE  /\ InOrder'
           /\ \A op : Posting(op)' <=> Posting(op)
           /\ \A op : OnWire(op)' => OnWire(op)
           /\ \A op \in Ops : Waiting(op)' => Waiting(op)
<1> USE DEF AdapterInv
<1>1. /\ \A x, y : Before(x, y)' <=> Before(x, y)
      /\ \A op : Posting(op)' <=> Posting(op)
  BY DEF clientVars, Before, Posting
<1>2. /\ wire \in Seq(Requests) /\ queue \in Seq(Ops) /\ ServiceFits
  BY AgentFacts DEF ClientTypeOK
<1>3. Remains
  BY DEF Reads, Queues, Takes, Loses, Remains
<1>4. PICK n \in {0, 1} : \A i \in 1..Len(wire') : i + n \in 1..Len(wire) /\ wire'[i] = wire[i + n]
  BY <1>2, <1>3, WireShrinks
<1>5. ASSUME NEW x \in Ops, NEW y \in Ops, Before(x, y), NEW i \in 1..Len(wire'), NEW j \in 1..Len(wire'),
             wire'[i].kind = "execute", wire'[i].op = x, wire'[j].kind = "execute", wire'[j].op = y
      PROVE  i < j
  <2>1. i + n \in 1..Len(wire) /\ wire'[i] = wire[i + n] /\ j + n \in 1..Len(wire) /\ wire'[j] = wire[j + n]
    BY <1>4
  <2>2. i + n < j + n
    BY <1>5, <2>1 DEF InOrder
  <2> QED
    BY <2>2
<1>6. \A op : OnWire(op)' => OnWire(op)
  BY <1>2, <1>3, WireShrinks
<1>7. CASE Reads
  <2> DEFINE o == Head(wire).op
  <2>1. OnWire(o) /\ \A op : op = o => ~OnWire(op)'
    BY <1>2, <1>7, HeadLeaves DEF Reads
  <2>2. \A op : AtHandler(op)' => op = o
    BY <1>7 DEF Reads
  <2>3. \A op : (Queued(op)' <=> Queued(op)) /\ (Begun(op)' => Begun(op))
    BY <1>7 DEF Reads, Queued
  <2>4. \A op \in Ops : Waiting(op)' => Waiting(op)
    BY <1>1, <1>6, <2>1, <2>2, <2>3 DEF Waiting
  <2>5. ASSUME NEW x \in Ops, Before(x, o), o \in Ops
        PROVE  ~OnWire(x)'
    <3> SUFFICES ASSUME NEW i \in 1..Len(wire'), wire'[i].kind = "execute", wire'[i].op = x
                 PROVE  FALSE
      BY DEF OnWire
    <3>1. /\ Head(wire) = wire[1] /\ 1 \in 1..Len(wire) /\ Head(wire).kind = "execute"
          /\ Len(wire) \in Nat /\ Len(wire') = Len(wire) - 1 /\ wire'[i] = wire[i + 1] /\ i + 1 \in 1..Len(wire)
      BY <1>2, <1>7, HeadTailProperties DEF Reads
    <3>2. i + 1 < 1
      BY <2>5, <3>1 DEF InOrder
    <3> QED
      BY <3>2
  <2>6. \A x, y \in Ops : Before(x, y) =>
           /\ Begun(y)' => ~Waiting(x)'
           /\ Queued(y)' => ~OnWire(x)' /\ ~AtHandler(x)'
           /\ AtHandler(y)' => ~OnWire(x)'
    BY <1>6, <2>1, <2>2, <2>3, <2>4, <2>5 DEF InOrder
  <2>7. queue' = queue
    BY <1>7 DEF Reads
  <2>8. InOrder'
    BY <1>1, <1>5, <2>6, <2>7 DEF InOrder
  <2> QED
    BY <1>1, <1>6, <2>4, <2>8
<1>8. CASE Queues
  <2> DEFINE o == job[Handler]
  <2>1. /\ o \in Ops /\ AtHandler(o) /\ queue' = Append(queue, o) /\ wire' = wire
        /\ \A op : ~AtHandler(op)' /\ (Begun(op)' => Begun(op))
    BY <1>8 DEF Queues
  <2>2. \A op : (OnWire(op)' <=> OnWire(op)) /\ (Queued(op)' <=> Queued(op) \/ op = o)
    BY <1>2, <2>1, QueueGrows DEF OnWire
  <2>3. \A op \in Ops : Waiting(op)' => Waiting(op)
    BY <1>1, <2>1, <2>2 DEF Waiting
  <2>4. \A x, y \in Ops : Before(x, y) =>
           /\ Begun(y)' => ~Waiting(x)'
           /\ Queued(y)' => ~OnWire(x)' /\ ~AtHandler(x)'
           /\ AtHandler(y)' => ~OnWire(x)'
    BY <2>1, <2>2, <2>3 DEF InOrder
  <2>5. /\ Len(queue') = Len(queue) + 1 /\ queue'[Len(queue) + 1] = o /\ Len(queue) \in Nat
        /\ \A i \in 1..Len(queue) : queue'[i] = queue[i]
    BY <1>2, <2>1
  <2>6. ASSUME NEW x \in Ops, NEW y \in Ops, Before(x, y), NEW i \in 1..Len(queue'), NEW j \in 1..Len(queue'),
               queue'[i] = x, queue'[j] = y
        PROVE  i < j
    <3>1. CASE i = Len(queue) + 1 /\ j = Len(queue) + 1
      <4>1. x = o /\ y = o
        BY <2>5, <2>6, <3>1
      <4>2. Before(o, o)
        BY <2>6, <4>1
      <4>3. \A k, l \in 1..Len(asked) : asked[k] = asked[l] => k = l
        BY DEF CallFits
      <4> QED
        BY <4>2, <4>3 DEF Before
    <3>2. CASE i = Len(queue) + 1 /\ j \in 1..Len(queue)
      <4>1. AtHandler(x) /\ Queued(y)
        BY <2>1, <2>5, <2>6, <3>2 DEF Queued
      <4> QED
        BY <2>6, <4>1 DEF InOrder
    <3>3. CASE i \in 1..Len(queue) /\ j = Len(queue) + 1
      BY <2>5, <3>3
    <3>4. CASE i \in 1..Len(queue) /\ j \in 1..Len(queue)
      BY <2>5, <2>6, <3>4 DEF InOrder
    <3> QED
      BY <2>5, <2>6, <3>1, <3>2, <3>3, <3>4
  <2>7. InOrder'
    BY <1>1, <1>5, <2>4, <2>6 DEF InOrder
  <2> QED
    BY <1>1, <1>6, <2>3, <2>7
<1>9. CASE Takes
  <2> DEFINE o == Head(queue)
  <2>1. /\ queue # <<>> /\ queue' = Tail(queue) /\ wire' = wire
        /\ \A op : AtHandler(op)' <=> AtHandler(op)
        /\ \A op : Begun(op)' <=> Begun(op) \/ op = o
    BY <1>9 DEF Takes
  <2>2. /\ o \in Ops /\ Queued(o)
        /\ \A op : Queued(op)' <=> Queued(op) /\ op # o
    BY <1>2, <2>1, QueueShrinks DEF OwnerInv, OwnersFit
  <2>3. /\ o = queue[1] /\ 1 \in 1..Len(queue) /\ Len(queue) \in Nat
        /\ Len(queue') = Len(queue) - 1 /\ \A i \in 1..Len(queue') : queue'[i] = queue[i + 1] /\ i + 1 \in 1..Len(queue)
    BY <1>2, <2>1, HeadTailProperties
  <2>4. \A op : OnWire(op)' <=> OnWire(op)
    BY <2>1 DEF OnWire
  <2>5. \A op \in Ops : Waiting(op)' => Waiting(op)
    BY <1>1, <2>1, <2>2, <2>4 DEF Waiting
  <2>6. ASSUME NEW x \in Ops, Before(x, o)
        PROVE  ~Waiting(x)'
    <3>1. ~OnWire(x) /\ ~AtHandler(x)
      BY <2>2, <2>6 DEF InOrder
    <3>2. ~Queued(x)
      <4> SUFFICES ASSUME NEW i \in 1..Len(queue), queue[i] = x
                   PROVE  FALSE
        BY DEF Queued
      <4>1. i < 1
        BY <2>2, <2>3, <2>6 DEF InOrder
      <4> QED
        BY <2>3, <4>1
    <3>3. ~Posting(x)
      BY <2>6, LastIsLast DEF Posting
    <3> QED
      BY <1>1, <2>1, <2>2, <2>4, <3>1, <3>2, <3>3 DEF Waiting
  <2>7. \A x, y \in Ops : Before(x, y) =>
           /\ Begun(y)' => ~Waiting(x)'
           /\ Queued(y)' => ~OnWire(x)' /\ ~AtHandler(x)'
           /\ AtHandler(y)' => ~OnWire(x)'
    BY <2>1, <2>2, <2>4, <2>5, <2>6 DEF InOrder
  <2>8. ASSUME NEW x \in Ops, NEW y \in Ops, Before(x, y), NEW i \in 1..Len(queue'), NEW j \in 1..Len(queue'),
               queue'[i] = x, queue'[j] = y
        PROVE  i < j
    <3>1. i + 1 < j + 1
      BY <2>3, <2>8 DEF InOrder
    <3> QED
      BY <3>1
  <2>9. InOrder'
    BY <1>1, <1>5, <2>7, <2>8 DEF InOrder
  <2> QED
    BY <1>1, <1>6, <2>5, <2>9
<1>10. CASE Loses
  <2>1. /\ queue' = queue \/ queue' = <<>>
        /\ \A op : (AtHandler(op)' => AtHandler(op)) /\ (Begun(op)' => Begun(op))
    BY <1>10 DEF Loses
  <2>2. /\ \A op : Queued(op)' => Queued(op)
        /\ \A i \in 1..Len(queue') : i \in 1..Len(queue) /\ queue'[i] = queue[i]
    BY <2>1 DEF Queued
  <2>3. \A op \in Ops : Waiting(op)' => Waiting(op)
    BY <1>1, <1>6, <2>1, <2>2 DEF Waiting
  <2>4. \A x, y \in Ops : Before(x, y) =>
           /\ Begun(y)' => ~Waiting(x)'
           /\ Queued(y)' => ~OnWire(x)' /\ ~AtHandler(x)'
           /\ AtHandler(y)' => ~OnWire(x)'
    BY <1>6, <2>1, <2>2, <2>3 DEF InOrder
  <2>5. InOrder'
    BY <1>1, <1>5, <2>2, <2>4 DEF InOrder
  <2> QED
    BY <1>1, <1>6, <2>3, <2>5
<1> QED
  BY <1>7, <1>8, <1>9, <1>10

-----------------------------------------------------------------------------
(* The agent's steps preserve the invariant.                               *)

LEMMA ServingTypes ==
    ASSUME ClientTypeOK, Handles
    PROVE  wire' \in Seq(Requests) /\ serving' \in Requests \cup {NoRequest}
<1>1. CASE Serve
  <2>1. Head(wire) \in Requests /\ Tail(wire) \in Seq(Requests)
    BY <1>1, HeadTailProperties DEF Serve, ClientTypeOK
  <2> QED
    BY <1>1, <2>1 DEF Serve
<1>2. CASE ServeRejects
  <2>1. Tail(wire) \in Seq(Requests)
    BY <1>2, HeadTailProperties DEF ServeRejects, ClientTypeOK
  <2> QED
    BY <1>2, <2>1 DEF ServeRejects, ClientTypeOK
<1>3. CASE ServeStep
  BY <1>3 DEF ServeStep, ClientTypeOK
<1>4. CASE AgentDies
  BY <1>4 DEF AgentDies
<1>5. CASE AgentRuns
  BY <1>5 DEF AgentRuns, netVars, ClientTypeOK
<1> QED
  BY <1>1, <1>2, <1>3, <1>4, <1>5 DEF Handles

\* Of the steps of the agent, only reading a request creates a record.
LEMMA CreatedFromWire ==
    ASSUME OwnerInv, ClientTypeOK, ServiceFits, Handles, NEW op \in Ops, Create(op)
    PROVE  Reads /\ op = Head(wire).op /\ OnWire(op) /\ ~OnWire(op)'
<1> USE ThreadFacts, AgentFacts
<1>1. pc[Handler] = "idle" /\ pc'[Handler] = "create" /\ job'[Handler] = op
  BY DEF Create, HandlerIdle, Goto
<1>2. Serve
  <2>1. ~ServeStep
    BY <1>1 DEF ServeStep, ServiceFits
  <2>2. ~ServeRejects
    BY <1>1, AgentRests DEF ServeRejects
  <2>3. ~AgentDies
    BY <1>1 DEF AgentDies, Crash
  <2>4. ~AgentRuns
    <3>1. ASSUME NEW w \in Workers, WorkerStep(w)
          PROVE  FALSE
      BY <1>1, <3>1, WorkerMoves
    <3>2. ASSUME NEW o \in Ops, DaemonRestarts(o)
          PROVE  FALSE
      BY <1>1, <3>2 DEF DaemonRestarts, threadVars
    <3> QED
      BY <3>1, <3>2 DEF AgentRuns
  <2> QED
    BY <2>1, <2>2, <2>3, <2>4 DEF Handles
<1>3. wire # <<>> /\ wire' = Tail(wire) /\ serving = NoRequest
  BY <1>2 DEF Serve
<1>4. Head(wire).kind = "execute"
  <2>1. Head(wire).kind # "execute" => pc'[Handler] = "delete"
    BY <1>2 DEF Serve, Evict, Goto
  <2> QED
    BY <1>1, <2>1
<1>5. op = Head(wire).op
  BY <1>1, <1>2, <1>4 DEF Serve, Create
<1>6. OnWire(op) /\ ~OnWire(op)'
  BY <1>3, <1>4, <1>5, HeadLeaves DEF ClientTypeOK
<1>7. Reads
  <2>1. \A o : AtHandler(o)' => o = op
    BY <1>1 DEF AtHandler
  <2>2. /\ \A o : Begun(o)' => Begun(o)
        /\ queue' = queue
    BY <1>1, HandlerMoves DEF Enqueue
  <2> QED
    BY <1>3, <1>4, <1>5, <2>1, <2>2 DEF Reads, AtHandler
<1> QED
  BY <1>5, <1>6, <1>7

LEMMA ServiceKept ==
    ASSUME OwnerInv, ClientTypeOK, ServiceFits, Handles
    PROVE  ServiceFits'
<1> USE ThreadFacts, AgentFacts
<1>0. Asked' = Asked
  BY HandlesIsNext DEF clientVars, Asked
<1>1. Remains
  BY StepHands DEF Reads, Queues, Takes, Loses, Remains
<1>2. PICK n \in {0, 1} : \A i \in 1..Len(wire') : i + n \in 1..Len(wire) /\ wire'[i] = wire[i + n]
  BY <1>1, WireShrinks DEF ClientTypeOK
<1>3. \A i \in 1..Len(wire') : wire'[i].op \in Asked
  BY <1>2 DEF ServiceFits
<1>4. ASSUME NEW i \in 1..Len(wire'), NEW j \in 1..Len(wire'),
             wire'[i].kind = "execute", wire'[j].kind = "execute", wire'[i].op = wire'[j].op
      PROVE  i = j
  <2>1. PICK a, b : a = i + n /\ b = j + n
    OBVIOUS
  <2>2. a \in 1..Len(wire) /\ b \in 1..Len(wire) /\ wire'[i] = wire[a] /\ wire'[j] = wire[b]
    BY <1>2, <2>1
  <2>3. a = b
    BY <1>4, <2>2 DEF ServiceFits
  <2> QED
    BY <2>1, <2>3
<1> DEFINE Served ==
       /\ serving' = NoRequest => pc'[Handler] = "idle"
       /\ serving' # NoRequest =>
             /\ job'[Handler] = serving'.op /\ serving'.op \in Asked
             /\ pc'[Handler] \in IF serving'.kind = "execute" THEN {"create", "enqueue", "reject"}
                                 ELSE {"delete", "body"}
<1>5. ASSUME Serve PROVE Served
  <2>1. /\ Head(wire) \in Requests /\ Head(wire) = wire[1] /\ 1 \in 1..Len(wire)
        /\ serving' = Head(wire)
    BY <1>5, HeadLeaves DEF Serve, ClientTypeOK
  <2>2. Head(wire) # NoRequest /\ Head(wire).op \in Asked
    BY <2>1, ClientAssumption DEF ServiceFits
  <2>3. CASE Head(wire).kind = "execute"
    BY <1>5, <2>1, <2>2, <2>3 DEF Serve, Create, Goto
  <2>4. CASE Head(wire).kind # "execute"
    BY <1>5, <2>1, <2>2, <2>4 DEF Serve, Evict, Goto
  <2> QED
    BY <2>3, <2>4
<1>6. ASSUME ServeStep PROVE Served
  <2>1. CASE pc'[Handler] = "idle"
    BY <1>6, <2>1 DEF ServeStep
  <2>2. CASE pc'[Handler] # "idle"
    <3>1. serving' = serving /\ HandlerStep /\ serving # NoRequest
      BY <1>6, <2>2 DEF ServeStep
    <3>2. /\ job'[Handler] = job[Handler]
          /\ pc[Handler] = "create" => pc'[Handler] = "enqueue"
          /\ pc[Handler] = "enqueue" => pc'[Handler] = "reject"
          /\ pc[Handler] = "reject" => FALSE
          /\ pc[Handler] = "delete" => pc'[Handler] \in {"delete", "body"}
          /\ pc[Handler] = "body" => FALSE
      BY <2>2, <3>1 DEF HandlerStep, HandlerDone, Goto, Created, Enqueue, QueueFull, SaveRejected, DeleteRow,
                        ReadStatus, ReadBody, threadVars
    <3> QED
      BY <3>1, <3>2 DEF ServiceFits
  <2> QED
    BY <2>1, <2>2
<1>7. ASSUME ServeRejects PROVE Served
  BY <1>7, AgentRests DEF ServeRejects, ServiceFits
<1>8. ASSUME AgentDies PROVE Served
  BY <1>8 DEF AgentDies, Crash
<1>9. ASSUME AgentRuns PROVE Served
  <2>1. pc'[Handler] = pc[Handler] /\ job'[Handler] = job[Handler]
    <3>1. ASSUME NEW w \in Workers, WorkerStep(w)
          PROVE  <2>1
      BY <3>1, WorkerMoves
    <3>2. ASSUME NEW o \in Ops, DaemonRestarts(o)
          PROVE  <2>1
      BY <3>2 DEF DaemonRestarts, threadVars
    <3> QED
      BY <1>9, <3>1, <3>2 DEF AgentRuns
  <2> QED
    BY <1>9, <2>1 DEF AgentRuns, netVars, ServiceFits
<1>10. Served
  BY <1>5, <1>6, <1>7, <1>8, <1>9 DEF Handles
<1> QED
  BY <1>0, <1>3, <1>4, <1>10 DEF ServiceFits

\* Who waits for an answer gets one about the operation it is called for.
LEMMA AnswerComes ==
    ASSUME OwnerInv, ClientTypeOK, ServiceFits, LiveFits, Handles
    PROVE  \/ answer' = answer
           \/ /\ at \in AwaitsAnswer
              /\ \/ answer' \in {"accepted", "full", "unknown", "running"}
                 \/ answer' = mem[call] /\ pc[Handler] = "body" /\ job[Handler] = call
                 \/ /\ answer' = "rejected" /\ OnWire(call) /\ at = "posted"
                    /\ UNCHANGED agentVars /\ serving = NoRequest /\ serving' = NoRequest
                    /\ \A op : op = call => ~OnWire(op)'
<1> USE ThreadFacts, AgentFacts
<1>1. CASE ServeStep
  <2>1. CASE pc'[Handler] = "idle" /\ serving.live
    <3>1. answer' = told' /\ HandlerStep /\ serving # NoRequest
      BY <1>1, <2>1 DEF ServeStep, Reply
    <3>2. at \in AwaitsAnswer /\ job[Handler] = call
      BY <2>1, <3>1 DEF LiveFits, IsAwaited, ServiceFits
    <3>3. CASE ReadBody
      BY <3>1, <3>2, <3>3 DEF ReadBody
    <3>4. CASE ~ReadBody
      <4>1. told' \in {"accepted", "full", "unknown", "running"}
        BY <2>1, <3>1, <3>4 DEF HandlerStep, HandlerDone, Goto, Created, Enqueue, QueueFull, SaveRejected, DeleteRow,
                                ReadStatus, threadVars
      <4> QED
        BY <3>1, <3>2, <4>1
    <3> QED
      BY <3>3, <3>4
  <2>2. CASE ~(pc'[Handler] = "idle" /\ serving.live)
    BY <1>1, <2>2 DEF ServeStep, Reply
  <2> QED
    BY <2>1, <2>2
<1>2. CASE ServeRejects /\ Head(wire).live
  <2>1. /\ wire # <<>> /\ wire' = Tail(wire) /\ answer' = "rejected" /\ Head(wire).kind = "execute"
        /\ UNCHANGED agentVars /\ serving = NoRequest /\ serving' = NoRequest
    BY <1>2 DEF ServeRejects
  <2>2. /\ Head(wire) = wire[1] /\ 1 \in 1..Len(wire) /\ OnWire(Head(wire).op)
        /\ \A op : op = Head(wire).op => ~OnWire(op)'
    BY <2>1, HeadLeaves DEF ClientTypeOK
  <2>3. /\ Head(wire).op = call /\ at \in AwaitsAnswer
        /\ Head(wire).kind = IF at = "posted" THEN "execute" ELSE "status"
    BY <1>2, <2>2 DEF LiveFits, IsAwaited
  <2> QED
    BY <2>1, <2>2, <2>3
<1>3. CASE ~ServeStep /\ ~(ServeRejects /\ Head(wire).live)
  BY <1>3 DEF Handles, Serve, ServeRejects, AgentDies, AgentRuns, netVars
<1> QED
  BY <1>1, <1>2, <1>3

LEMMA LiveKept ==
    ASSUME OwnerInv, ClientTypeOK, ServiceFits, LiveFits, Handles
    PROVE  LiveFits'
<1>1. UNCHANGED <<call, at>>
  BY HandlesIsNext DEF clientVars
<1>2. Remains
  BY StepHands DEF Reads, Queues, Takes, Loses, Remains
<1>3. PICK n \in {0, 1} : \A i \in 1..Len(wire') : i + n \in 1..Len(wire) /\ wire'[i] = wire[i + n]
  BY <1>2, WireShrinks DEF ClientTypeOK
<1>4. \A i \in 1..Len(wire') : IsAwaited(wire[i + n])
  BY <1>3 DEF LiveFits
<1>5. serving' = NoRequest \/ serving' = serving \/ (wire # <<>> /\ serving' = wire[1] /\ 1 \in 1..Len(wire))
  <2>1. CASE Serve
    <3>1. wire # <<>> /\ serving' = Head(wire)
      BY <2>1 DEF Serve
    <3> QED
      BY <3>1, HeadTailProperties DEF ClientTypeOK
  <2>2. CASE ~Serve
    BY <2>2 DEF Handles, ServeStep, ServeRejects, AgentDies, AgentRuns, netVars
  <2> QED
    BY <2>1, <2>2
<1>6. answer' # "none" => at \in AwaitsAnswer
  BY AnswerComes DEF LiveFits
<1> QED
  BY <1>1, <1>3, <1>4, <1>5, <1>6 DEF LiveFits, IsAwaited

LEMMA UnknownKept ==
    ASSUME OwnerInv, ClientTypeOK, AdapterInv, Handles
    PROVE  UnknownIsAbsent'
<1> USE DEF AdapterInv
<1>1. UNCHANGED clientVars /\ [Next]_vars
  BY HandlesIsNext
<1>2. /\ \A op : Posting(op)' <=> Posting(op)
      /\ \A op : OnWire(op)' => OnWire(op)
      /\ Asked' = Asked
  BY <1>1, StepHands, OrderKept DEF clientVars, Asked
<1>3. ASSUME NEW op \in Ops, Unknown(op)'
      PROVE  mem'[op] = "absent" /\ db'[op] = "absent"
  <2>1. Unknown(op) /\ mem[op] = "absent" /\ db[op] = "absent"
    BY <1>2, <1>3 DEF Unknown, UnknownIsAbsent
  <2>2. ~Create(op)
    <3> SUFFICES ASSUME Create(op)
                 PROVE  FALSE
      OBVIOUS
    <3>1. OnWire(op) /\ ~OnWire(op)'
      BY CreatedFromWire
    <3>2. op \in Asked
      BY <3>1, PlacesFit
    <3>3. ~Posting(op)
      BY <3>1 DEF UnknownIsAbsent
    <3> QED
      BY <1>2, <1>3, <3>1, <3>2, <3>3 DEF Unknown
  <2> QED
    BY <1>1, <2>1, <2>2, AbsentStays
<1>4. \A op \in Ops : Posting(op)' => ~OnWire(op)'
  BY <1>2 DEF UnknownIsAbsent
<1> QED
  BY <1>3, <1>4 DEF UnknownIsAbsent

\* What has ended stays so.
LEMMA FinalStays ==
    ASSUME OwnerInv, ClientTypeOK, AdapterInv, Handles, NEW op \in Ops, Final(op)
    PROVE  Final(op)'
<1> USE DEF AdapterInv
<1>1. UNCHANGED clientVars /\ [Next]_vars
  BY HandlesIsNext
<1>2. ~Waiting(op)'
  BY <1>1, StepHands, OrderKept DEF Final
<1>3. ~Create(op)
  BY CreatedFromWire DEF Final, Waiting
<1>4. mem'[op] # "running"
  BY <1>1, <1>3, RunningComes DEF Final
<1> QED
  BY <1>2, <1>4 DEF Final

LEMMA EndsKept ==
    ASSUME OwnerInv, ClientTypeOK, AdapterInv, Handles
    PROVE  EndsAreFinal'
<1> USE ThreadFacts, AgentFacts DEF AdapterInv
<1>1. UNCHANGED clientVars
  BY HandlesIsNext
<1>2. \A op \in Ops : Final(op) => Final(op)'
  BY FinalStays
<1>3. FailedIsFinal'
  BY <1>1, <1>2 DEF EndsAreFinal, FailedIsFinal, clientVars
<1>4. ASSUME NEW op, op = job'[Handler], pc'[Handler] = "body"
      PROVE  Final(op)'
  <2>1. pc[Handler] \in {"delete", "body"} /\ job'[Handler] = job[Handler]
    <3>1. CASE Serve
      <4>1. pc'[Handler] \in {"create", "delete"}
        BY <3>1 DEF Serve, Create, Evict, Goto
      <4> QED
        BY <1>4, <4>1
    <3>2. CASE ServeStep
      BY <1>4, <3>2 DEF ServeStep, HandlerStep, HandlerDone, Goto, Created, Enqueue, QueueFull, SaveRejected,
                        DeleteRow, ReadStatus, ReadBody, threadVars
    <3>3. CASE ServeRejects
      BY <1>4, <3>3, AgentRests DEF ServeRejects
    <3>4. CASE AgentDies
      BY <1>4, <3>4 DEF AgentDies, Crash
    <3>5. CASE AgentRuns
      <4>1. ASSUME NEW w \in Workers, WorkerStep(w)
            PROVE  pc'[Handler] = pc[Handler] /\ job'[Handler] = job[Handler]
        BY <4>1, WorkerMoves
      <4>2. ASSUME NEW o \in Ops, DaemonRestarts(o)
            PROVE  pc'[Handler] = pc[Handler] /\ job'[Handler] = job[Handler]
        BY <4>2 DEF DaemonRestarts, threadVars
      <4> QED
        BY <1>4, <3>5, <4>1, <4>2 DEF AgentRuns
    <3> QED
      BY <3>1, <3>2, <3>3, <3>4, <3>5 DEF Handles
  <2>2. op \in Ops /\ op = job[Handler]
    BY <1>4, <2>1
  <2>3. CASE pc[Handler] = "body"
    BY <1>2, <2>2, <2>3 DEF EndsAreFinal
  <2>4. CASE pc[Handler] = "delete"
    <3>1. ReadStatus
      <4>1. ServeStep
        <5>1. ~Serve
          BY <2>4 DEF Serve, ServiceFits
        <5>2. ~ServeRejects
          BY <1>4, <2>4, AgentRests DEF ServeRejects
        <5>3. ~AgentDies
          BY <1>4 DEF AgentDies, Crash
        <5>4. ~AgentRuns
          <6>1. ASSUME NEW w \in Workers, WorkerStep(w)
                PROVE  pc'[Handler] = pc[Handler]
            BY <6>1, WorkerMoves
          <6>2. ASSUME NEW o \in Ops, DaemonRestarts(o)
                PROVE  pc'[Handler] = pc[Handler]
            BY <6>2 DEF DaemonRestarts, threadVars
          <6> QED
            BY <1>4, <2>4, <6>1, <6>2 DEF AgentRuns
        <5> QED
          BY <5>1, <5>2, <5>3, <5>4 DEF Handles
      <4> QED
        BY <1>4, <2>4, <4>1 DEF ServeStep, HandlerStep, HandlerDone, Goto, Created, Enqueue, QueueFull, SaveRejected,
                        DeleteRow, ReadBody, threadVars
    <3>2. mem[op] \notin {"absent", "running"}
      BY <1>4, <2>2, <3>1 DEF ReadStatus, HandlerDone, Goto
    <3>3. Final(op)
      <4>1. ~Posting(op) /\ ~OnWire(op)
        BY <2>2, <3>2 DEF UnknownIsAbsent, Unknown
      <4>2. ~AtHandler(op) /\ ~Queued(op)
        BY <2>2, <3>2, PlacesFit
      <4> QED
        BY <3>2, <4>1, <4>2 DEF Final, Waiting
    <3> QED
      BY <1>2, <2>2, <3>3
  <2> QED
    BY <2>1, <2>3, <2>4
<1>5. ASSUME answer' \in Done \cup Refused
      PROVE  call \in Ops /\ \A op : op = call => Final(op)'
  <2>1. \A s \in {"none", "accepted", "full", "unknown", "running"} : s \notin Done \cup Refused
    BY DEF Done, Refused, Records, Rows, Decided
  <2>2. at \in AwaitsAnswer /\ call \in Ops
    <3>1. answer' # "none"
      BY <1>5, <2>1
    <3>2. at \in AwaitsAnswer
      BY <3>1, AnswerComes DEF LiveFits
    <3> QED
      BY <3>2, LastIsLast DEF AwaitsAnswer
  <2>3. CASE answer' = answer
    BY <1>2, <1>5, <2>2, <2>3 DEF EndsAreFinal
  <2>4. CASE answer' = mem[call] /\ pc[Handler] = "body" /\ job[Handler] = call
    BY <1>2, <2>2, <2>4 DEF EndsAreFinal
  <2>5. CASE /\ answer' = "rejected" /\ OnWire(call) /\ at = "posted"
             /\ UNCHANGED agentVars /\ serving = NoRequest /\ serving' = NoRequest
             /\ \A op : op = call => ~OnWire(op)'
    <3>1. mem[call] = "absent"
      BY <2>2, <2>5 DEF UnknownIsAbsent, Unknown
    <3>2. ~AtHandler(call) /\ ~Queued(call)
      BY <2>2, <3>1, PlacesFit
    <3>3. ASSUME NEW op, op = call
          PROVE  ~Posting(op)' /\ ~OnWire(op)' /\ ~AtHandler(op)' /\ ~Queued(op)' /\ mem'[op] # "running"
      BY <1>1, <2>5, <3>1, <3>2, <3>3, AgentRests DEF Posting, AtHandler, clientVars
    <3> QED
      BY <2>2, <3>3 DEF Final, Waiting
  <2> QED
    BY <1>5, <2>1, <2>3, <2>4, <2>5, AnswerComes
<1>6. call' = call
  BY <1>1 DEF clientVars
<1> QED
  BY <1>3, <1>4, <1>5, <1>6 DEF EndsAreFinal

LEMMA OkKept ==
    ASSUME OwnerInv, OwnerInv', ClientTypeOK, AdapterInv, Handles, Succeed
    PROVE  OkIsTrue'
<1> USE ThreadFacts, AgentFacts DEF AdapterInv
<1>1. UNCHANGED clientVars /\ [Next]_vars /\ Asked' = Asked
  BY HandlesIsNext DEF clientVars, Asked
<1>2. /\ \A op \in Ops : op \in succeeded => op \in succeeded'
      /\ \A op \in Ops : mem'[op] = "ok" => op \in succeeded'
      /\ \A op \in succeeded' : op \in Ops /\ (op \in succeeded \/ mem'[op] = "ok")
  BY DEF Succeed, ClientTypeOK
<1>3. ASSUME NEW op \in Ops, mem'[op] = "ok" \/ db'[op] = "ok" \/ verdict'[op] = "ok"
      PROVE  op \in succeeded'
  BY <1>1, <1>2, <1>3, OkComes DEF OkIsTrue, clientVars
<1>4. ASSUME answer' = "ok"
      PROVE  \A op : op = call' => op \in succeeded'
  <2>1. at \in AwaitsAnswer
    BY <1>4, AnswerComes DEF LiveFits
  <2>2. call \in Ops /\ call' = call
    BY <1>1, <2>1, LastIsLast DEF AwaitsAnswer, clientVars
  <2>3. answer = "ok" \/ mem[call] = "ok"
    BY <1>4, AnswerComes
  <2> QED
    BY <1>2, <2>2, <2>3 DEF OkIsTrue
<1>5. ASSUME NEW op \in succeeded'
      PROVE  op \in Asked' /\ ~Waiting(op)' /\ ~Begun(op)'
  <2>1. CASE op \in succeeded
    <3>1. op \in Asked /\ ~Waiting(op) /\ ~Begun(op) /\ op \in Ops
      BY <2>1 DEF OkIsTrue, ClientTypeOK
    <3>2. ~Waiting(op)'
      BY <1>1, <3>1, StepHands, OrderKept
    <3>3. ~Begun(op)'
      <4>1. Takes => op # Head(queue)
        <5>1. Takes => Queued(Head(queue))
          BY QueueShrinks DEF Takes, OwnerInv, OwnersFit
        <5> QED
          BY <3>1, <5>1 DEF Waiting
      <4> QED
        BY <3>1, <4>1, StepHands DEF Reads, Queues, Takes, Loses
    <3> QED
      BY <1>1, <3>1, <3>2, <3>3
  <2>2. CASE op \notin succeeded
    <3>1. mem'[op] = "ok" /\ op \in Ops
      BY <1>2, <2>2
    <3>2. PICK w \in Workers : SetFields(w) /\ job[w] = op
      BY <1>1, <2>2, <3>1, OkComes DEF OkIsTrue
    <3>3. Begun(op) /\ mem[op] # "absent"
      <4>1. Owns(w, op)
        BY <3>2 DEF Owns, SetFields, At
      <4>2. Begun(op)
        BY <4>1 DEF Begun
      <4> QED
        BY <3>1, <4>2, PlacesFit
    <3>4. ~Unknown(op)
      BY <3>1, <3>3 DEF UnknownIsAbsent
    <3>5. /\ ~Queued(op)' /\ \A t \in Threads : ~Owns(t, op)'
      BY <3>1 DEF OwnerInv, OwnersFit
    <3>6. ~AtHandler(op)' /\ ~Begun(op)'
      BY <3>5 DEF AtHandler, Begun, Owns
    <3>7. ~Posting(op)' /\ ~OnWire(op)'
      BY <1>1, <3>4, StepHands, OrderKept DEF Unknown
    <3> QED
      BY <1>1, <3>4, <3>5, <3>6, <3>7 DEF Unknown, Waiting
  <2> QED
    BY <2>1, <2>2
<1> QED
  BY <1>3, <1>4, <1>5 DEF OkIsTrue

LEMMA LoadedKept ==
    ASSUME OwnerInv, ClientTypeOK, AdapterInv, Handles, Succeed
    PROVE  RestartedIsLoaded'
<1> USE ThreadFacts, AgentFacts DEF AdapterInv
<1>1. [Next]_vars
  BY HandlesIsNext
\* What was restarted before keeps that, unless the file or what is loaded changes.
<1>2. ASSUME NEW op \in Ops, op \in succeeded', op \notin succeeded
      PROVE  Restarted(op)
  <2>1. mem'[op] = "ok"
    BY <1>2 DEF Succeed
  <2>2. PICK w \in Workers : SetFields(w) /\ job[w] = op /\ result[w] = "ok"
    BY <1>1, <1>2, <2>1, OkComes DEF OkIsTrue
  <2> QED
    BY <2>2 DEF Restarted, SetFields, At
<1>3. ASSUME UNCHANGED <<props, loaded>>, \A op \in Ops : Restarted(op)' => Restarted(op)
      PROVE  RestartedIsLoaded'
  BY <1>3 DEF RestartedIsLoaded
<1>4. ASSUME \A w \in Workers : pc'[w] = pc[w] /\ job'[w] = job[w], result' = result, UNCHANGED bedrockVars
      PROVE  RestartedIsLoaded'
  <2>1. \A op \in Ops : Restarted(op)' => Restarted(op)
    BY <1>2, <1>4 DEF Restarted, bedrockVars
  <2> QED
    BY <1>3, <1>4, <2>1 DEF bedrockVars
<1>5. CASE Serve
  <2>1. Head(wire) \in Requests
    BY <1>5, HeadLeaves DEF Serve, ClientTypeOK
  <2>2. Head(wire).op \in Ops
    BY <2>1 DEF Requests
  <2>3. \E op \in Ops : Create(op) \/ Evict(op)
    BY <1>5, <2>2 DEF Serve
  <2> QED
    BY <1>4, <2>3, HandlerMoves
<1>6. CASE ServeStep
  BY <1>4, <1>6, HandlerMoves DEF ServeStep
<1>7. CASE ServeRejects
  BY <1>4, <1>7, AgentRests DEF ServeRejects, bedrockVars
<1>8. CASE AgentDies
  <2>1. UNCHANGED bedrockVars /\ \A w \in Workers : pc'[w] = "idle"
    BY <1>8 DEF AgentDies, Crash
  <2> QED
    BY <1>2, <1>3, <2>1 DEF Restarted, bedrockVars
<1>9. ASSUME NEW op \in Ops, DaemonRestarts(op)
      PROVE  RestartedIsLoaded'
  BY <1>9 DEF DaemonRestarts, RestartedIsLoaded
<1>10. ASSUME NEW w \in Workers, WorkerStep(w)
       PROVE  RestartedIsLoaded'
  <2>1. \A v \in Workers \ {w} : pc'[v] = pc[v] /\ job'[v] = job[v]
    BY <1>10, WorkerMoves
  <2>2. \A v \in Workers \ {w} : result'[v] = result[v]
    BY <1>10 DEF WorkerStep, Take, Prepare, Written, PrepareFails, Restart, RestartReturns, RestartFails,
                 HealthWait, SetStatus, SetFields, SaveDone, End, threadVars
  <2> DEFINE Back(op) ==
         /\ job[w] = op
         /\ \/ pc[w] = "restarting" /\ op \notin reboot
            \/ pc[w] = "health"
            \/ pc[w] \in {"finish", "fields"} /\ result[w] = "ok"
  <2>3. ASSUME UNCHANGED <<props, loaded>>,
               \A op \in Ops : Back(op)' => Restarted(op),
               \A op \in Ops : op \notin reboot' => op \notin reboot \/ op = job[w]
        PROVE  RestartedIsLoaded'
    <3>1. ASSUME NEW v \in Workers \ {w}, NEW op \in Ops, job'[v] = op, pc'[v] = "restarting", op \notin reboot'
          PROVE  op \notin reboot
      <4>1. WorksOn(v, op)
        BY <2>1, <3>1 DEF WorksOn, OwnerLabels
      <4>2. pc[w] # "idle" /\ job[w] = op => WorksOn(w, op)
        BY DEF WorksOn, WorkerLabels, OwnerLabels
      <4>3. job[w] # op
        BY <4>1, <4>2 DEF OwnerInv, OwnersFit
      <4> QED
        BY <2>3, <3>1, <4>3
    <3>2. \A op \in Ops : Restarted(op)' => Restarted(op)
      BY <1>2, <2>1, <2>2, <2>3, <3>1 DEF Restarted
    <3> QED
      BY <1>3, <2>3, <3>2
  <2>4. CASE Take(w)
    BY <2>3, <2>4 DEF Take, Goto, bedrockVars
  <2>5. CASE Prepare(w)
    BY <2>5 DEF Prepare, RestartedIsLoaded
  <2>6. CASE Written(w)
    <3>1. PICK o \in Ops : o = job[w]
      BY <2>6 DEF Written, At
    <3>2. Owns(w, o) /\ WorksOn(w, o)
      BY <2>6, <3>1 DEF Written, At, Owns, WorksOn, OwnerLabels
    <3>3. o \notin succeeded
      BY <3>2 DEF OkIsTrue, Begun
    <3>4. \A v \in Workers \ {w} : ~WorksOn(v, o)
      BY <3>2 DEF OwnerInv, OwnersFit
    <3>5. ~Restarted(o)'
      <4>1. pc'[w] = "restart" /\ job' = job /\ result' = result /\ mem' = mem
        BY <2>6 DEF Written, Goto, storeVars
      <4>2. o \notin succeeded'
        BY <3>2, <3>3, <4>1 DEF Succeed, OkIsTrue
      <4> QED
        BY <2>1, <3>4, <4>1, <4>2 DEF Restarted, WorksOn, OwnerLabels
    <3>6. props' = o
      BY <2>6, <3>1 DEF Written
    <3> QED
      BY <3>1, <3>5, <3>6, ThreadFacts DEF RestartedIsLoaded
  <2>7. CASE PrepareFails(w)
    BY <2>3, <2>7 DEF PrepareFails, End, Goto, bedrockVars
  <2>8. CASE Restart(w)
    BY <2>3, <2>8 DEF Restart, Goto
  <2>9. CASE RestartReturns(w)
    <3>1. \A op \in Ops : Back(op)' => Restarted(op)
      BY <2>9 DEF RestartReturns, RestartReturned, At, Goto, Restarted
    <3> QED
      BY <2>3, <2>9, <3>1 DEF RestartReturns, bedrockVars
  <2>10. CASE RestartFails(w)
    BY <2>3, <2>10 DEF RestartFails, End, Goto
  <2>11. CASE HealthWait(w)
    <3>1. \A op \in Ops : Back(op)' => Restarted(op)
      BY <2>11 DEF HealthWait, At, End, Goto, Restarted
    <3> QED
      BY <2>3, <2>11, <3>1 DEF HealthWait, bedrockVars
  <2>12. CASE SetStatus(w)
    <3>1. \A op \in Ops : Back(op)' => Restarted(op)
      BY <2>12 DEF SetStatus, At, Goto, Restarted
    <3> QED
      BY <2>3, <2>12, <3>1 DEF SetStatus, bedrockVars
  <2>13. CASE SetFields(w)
    BY <2>3, <2>13 DEF SetFields, Goto, bedrockVars
  <2>14. CASE SaveDone(w)
    BY <2>3, <2>14 DEF SaveDone, Goto, bedrockVars
  <2> QED
    BY <1>10, <2>4, <2>5, <2>6, <2>7, <2>8, <2>9, <2>10, <2>11, <2>12, <2>13, <2>14 DEF WorkerStep
<1> QED
  BY <1>5, <1>6, <1>7, <1>8, <1>9, <1>10 DEF Handles, AgentRuns

LEMMA AgentKeeps ==
    ASSUME OwnerInv, OwnerInv', ClientTypeOK, AdapterInv, Handles, Succeed, UNCHANGED caller
    PROVE  ClientTypeOK' /\ AdapterInv'
<1>1. UNCHANGED clientVars
  BY HandlesIsNext
<1>2. ClientTypeOK'
  <2>1. wire' \in Seq(Requests) /\ serving' \in Requests \cup {NoRequest}
    BY ServingTypes
  <2>2. succeeded' \in SUBSET Ops
    BY DEF Succeed, ClientTypeOK
  <2> QED
    BY <1>1, <2>1, <2>2 DEF ClientTypeOK, clientVars
<1>3. CallFits'
  BY <1>1 DEF AdapterInv, CallFits, clientVars, Asked
<1>4. ServiceFits' /\ LiveFits' /\ UnknownIsAbsent' /\ EndsAreFinal' /\ OkIsTrue' /\ RestartedIsLoaded'
  BY ServiceKept, LiveKept, UnknownKept, EndsKept, OkKept, LoadedKept DEF AdapterInv
<1>5. InOrder'
  BY <1>1, StepHands, OrderKept DEF AdapterInv
<1> QED
  BY <1>2, <1>3, <1>4, <1>5 DEF AdapterInv

LEMMA AdapterKeeps ==
    ASSUME OwnerInv, OwnerInv', ClientTypeOK, AdapterInv, AdapterNext, UNCHANGED caller
    PROVE  ClientTypeOK' /\ AdapterInv'
<1>1. CASE Call /\ UNCHANGED <<agentVars, succeeded>>
  BY <1>1, CallKeeps
<1>2. CASE (ClientStep \/ CallerDies) /\ UNCHANGED <<agentVars, succeeded>>
  <2>1. LiveFits
    BY DEF AdapterInv
  <2>2. CASE Post
    BY <1>2, <2>2, PostKeeps
  <2>3. CASE AsksStatus
    BY <1>2, <2>1, <2>3, ClientMoves, AsksStatusKeeps
  <2>4. CASE ~Post /\ ~AsksStatus
    BY <1>2, <2>1, <2>4, ClientMoves, QuietKeeps
  <2> QED
    BY <2>2, <2>3, <2>4
<1>3. CASE Handles /\ Succeed
  BY <1>3, AgentKeeps
<1> QED
  BY <1>1, <1>2, <1>3 DEF AdapterNext, Handles

-----------------------------------------------------------------------------
(* Every behaviour of agent and client.                                    *)

LEMMA ClientStart == ClientInit => ClientInv
<1> SUFFICES ASSUME ClientInit
             PROVE  ClientInv
  OBVIOUS
<1>1. OwnerInv
  BY OwnerInit DEF ClientInit
<1>2. ClientTypeOK
  BY ClientAssumption DEF ClientInit, ClientTypeOK, Places
<1>3. NobodyCalls
  BY DEF ClientInit, NobodyCalls
<1>4. /\ queue = <<>> /\ pc = [t \in Threads |-> "idle"] /\ job = [t \in Threads |-> NoOp]
      /\ mem = [op \in Ops |-> "absent"] /\ db = [op \in Ops |-> "absent"] /\ props = NoOp
  BY DEF ClientInit, Init
<1>5. AdapterInv
  <2>1. Asked = {} /\ Len(asked) = 0 /\ Len(wire) = 0 /\ \A x, y : ~Before(x, y)
    BY <1>3 DEF NobodyCalls, Asked, Before
  <2>2. \A op : ~OnWire(op) /\ ~AtHandler(op)
    <3>1. serving = NoRequest /\ \A i \in 1..Len(wire) : FALSE
      BY <1>3, <2>1 DEF NobodyCalls
    <3> QED
      BY <3>1 DEF OnWire, AtHandler
  <2>3. CallFits /\ LiveFits /\ ServiceFits /\ InOrder
    BY <1>3, <1>4, <2>1, ThreadFacts DEF NobodyCalls, CallFits, LiveFits, ServiceFits, InOrder
  <2>4. UnknownIsAbsent
    BY <1>4, <2>2 DEF UnknownIsAbsent, Unknown
  <2>5. EndsAreFinal
    BY <1>3, <1>4, ThreadFacts DEF NobodyCalls, EndsAreFinal, FailedIsFinal, Done, Refused, Records, Rows, Decided
  <2>6. OkIsTrue
    BY <1>3, <1>4 DEF NobodyCalls, OkIsTrue
  <2>7. RestartedIsLoaded
    BY <1>4, ThreadFacts DEF RestartedIsLoaded
  <2> QED
    BY <2>3, <2>4, <2>5, <2>6, <2>7 DEF AdapterInv
<1> QED
  BY <1>1, <1>2, <1>3, <1>5 DEF ClientInv

\* With the adapter as its client, the agent does what it may do with any client.
LEMMA AgentSteps == ClientTypeOK /\ [NextWithClient]_allVars => [Next]_vars
<1> SUFFICES ASSUME ClientTypeOK, [NextWithClient]_allVars
             PROVE  [Next]_vars
  OBVIOUS
<1>1. CASE caller = "adapter" /\ AdapterNext
  <2>1. UNCHANGED agentVars \/ Handles
    BY <1>1 DEF AdapterNext, Handles
  <2> QED
    BY <2>1, HandlesIsNext DEF agentVars
<1>2. CASE Next
  BY <1>2
<1>3. CASE UNCHANGED allVars
  BY <1>3 DEF allVars, agentVars
<1> QED
  BY <1>1, <1>2, <1>3 DEF NextWithClient

LEMMA ClientStepKeeps == ClientInv /\ [NextWithClient]_allVars => ClientInv'
<1> SUFFICES ASSUME ClientInv, [NextWithClient]_allVars
             PROVE  ClientInv'
  OBVIOUS
<1>1. OwnerInv /\ ClientTypeOK /\ OwnerInv'
  BY AgentSteps, OwnerStep DEF ClientInv
<1>2. CASE UNCHANGED allVars
  <2>1. /\ UNCHANGED <<caller, clientVars, netVars, succeeded>> /\ UNCHANGED agentVars
    BY <1>2 DEF allVars
  <2>2. /\ \A x, y : Before(x, y)' <=> Before(x, y)
        /\ Asked' = Asked
        /\ \A op : OnWire(op)' <=> OnWire(op)
        /\ \A op : AtHandler(op)' <=> AtHandler(op)
        /\ \A op : Posting(op)' <=> Posting(op)
        /\ \A op : Waiting(op)' <=> Waiting(op)
        /\ \A op : Final(op)' <=> Final(op)
        /\ \A op : Restarted(op)' <=> Restarted(op)
    BY <2>1, AgentRests DEF clientVars, netVars, Before, Asked, OnWire, AtHandler, Posting, Waiting, Final, Restarted
  <2>3. ClientTypeOK' /\ (NobodyCalls => NobodyCalls')
    BY <1>1, <2>1 DEF ClientTypeOK, NobodyCalls, clientVars, netVars
  <2>4. ASSUME AdapterInv PROVE CallFits' /\ LiveFits' /\ ServiceFits'
    BY <2>1, <2>2, <2>4, AgentRests DEF AdapterInv, CallFits, LiveFits, IsAwaited, ServiceFits, clientVars, netVars
  <2>5. ASSUME AdapterInv PROVE UnknownIsAbsent' /\ EndsAreFinal' /\ OkIsTrue'
    BY <2>1, <2>2, <2>5, AgentRests
       DEF AdapterInv, UnknownIsAbsent, Unknown, EndsAreFinal, FailedIsFinal, OkIsTrue, clientVars, netVars
  <2>6. ASSUME AdapterInv PROVE InOrder' /\ RestartedIsLoaded'
    BY <2>1, <2>2, <2>6, AgentRests DEF AdapterInv, InOrder, RestartedIsLoaded, netVars
  <2> QED
    BY <1>1, <2>1, <2>3, <2>4, <2>5, <2>6 DEF ClientInv, AdapterInv
<1>3. CASE caller = "any" /\ UNCHANGED <<caller, clientVars, netVars, succeeded>>
  <2>1. ClientTypeOK' /\ NobodyCalls'
    BY <1>1, <1>3 DEF ClientInv, ClientTypeOK, NobodyCalls, clientVars, netVars
  <2> QED
    BY <1>1, <1>3, <2>1 DEF ClientInv
<1>4. CASE caller = "adapter" /\ AdapterNext /\ UNCHANGED caller
  BY <1>1, <1>4, AdapterKeeps DEF ClientInv
<1> QED
  BY <1>2, <1>3, <1>4 DEF NextWithClient

LEMMA ClientInductive == SpecWithClient => []ClientInv
BY ClientStart, ClientStepKeeps, PTL DEF SpecWithClient

-----------------------------------------------------------------------------
(* Theorems.                                                               *)

\* Behind its socket the agent behaves as it does with any client: what is
\* proved of HostAgent holds here.
THEOREM AnyClient == SpecWithClient => Spec
<1>1. ClientInit => Init
  BY DEF ClientInit
<1>2. ClientInv /\ [NextWithClient]_allVars => [Next]_vars
  BY AgentSteps DEF ClientInv
<1> QED
  BY <1>1, <1>2, ClientInductive, PTL DEF SpecWithClient, Spec

\* Only an operation that runs writes server.properties or asks for a restart.
LEMMA OnlyRunningActs ==
    ASSUME OwnerInv, [Next]_vars, NEW op \in Ops, mem[op] # "running"
    PROVE  (props' = op => props = op) /\ (op \in reboot' => op \in reboot)
<1> USE ThreadFacts, AgentFacts DEF storeVars, threadVars, bedrockVars
<1>1. \A w \in Workers : pc[w] \in {"write", "restart"} => job[w] # op
  BY DEF OwnerInv, OwnersFit, Owns
<1>2. CASE UNCHANGED vars
  BY <1>2 DEF vars
<1>3. ASSUME NEW w \in Workers, WorkerStep(w)
      PROVE  (props' = op => props = op) /\ (op \in reboot' => op \in reboot)
  <2>1. CASE Prepare(w)
    BY <2>1, NamesAssumption DEF Prepare
  <2>4. CASE Written(w)
    BY <1>1, <2>4 DEF Written, At
  <2>5. CASE Restart(w)
    BY <1>1, <2>5 DEF Restart, At
  <2>2. CASE Take(w) \/ PrepareFails(w) \/ RestartReturns(w) \/ RestartFails(w) \/ HealthWait(w)
    BY <2>2 DEF Take, PrepareFails, RestartReturns, RestartFails, HealthWait
  <2>3. CASE SetStatus(w) \/ SetFields(w) \/ SaveDone(w)
    BY <2>3 DEF SetStatus, SetFields, SaveDone
  <2> QED
    BY <1>3, <2>1, <2>2, <2>3, <2>4, <2>5 DEF WorkerStep
<1>4. ASSUME NEW o \in Ops, Request(o) \/ DaemonRestarts(o) \/ Expire(o)
      PROVE  (props' = op => props = op) /\ (op \in reboot' => op \in reboot)
  BY <1>4 DEF Request, Duplicate, Create, Evict, DaemonRestarts, Expire
<1>5. CASE HandlerStep
  BY <1>5 DEF HandlerStep, Created, Enqueue, QueueFull, SaveRejected, DeleteRow, ReadStatus, ReadBody
<1>6. CASE Crash
  BY <1>6 DEF Crash
<1> QED
  BY <1>2, <1>3, <1>4, <1>5, <1>6 DEF Next

LEMMA ClientFails == ClientInv => FailedIsFinal
<1> SUFFICES ASSUME ClientInv
             PROVE  FailedIsFinal
  OBVIOUS
<1>1. caller \in {"adapter", "any"}
  BY DEF ClientInv, ClientTypeOK
<1>2. CASE caller = "adapter"
  BY <1>2 DEF ClientInv, AdapterInv, EndsAreFinal
<1>3. CASE caller = "any"
  BY <1>3 DEF ClientInv, NobodyCalls, FailedIsFinal
<1> QED
  BY <1>1, <1>2, <1>3

LEMMA FailedRests ==
    ASSUME ClientInv, [NextWithClient]_allVars, NEW op \in Ops, verdict'[op] = "failed"
    PROVE  (props' = op => props = op) /\ (op \in reboot' => op \in reboot)
<1>1. OwnerInv /\ ClientTypeOK
  BY DEF ClientInv
<1>2. CASE UNCHANGED agentVars
  BY <1>2 DEF agentVars, vars, bedrockVars
<1>3. CASE verdict' = verdict
  <2>1. mem[op] # "running"
    BY <1>3, ClientFails DEF FailedIsFinal, Final
  <2> QED
    BY <1>1, <2>1, AgentSteps, OnlyRunningActs
<1>4. UNCHANGED agentVars \/ verdict' = verdict
  <2>1. CASE UNCHANGED allVars
    BY <2>1 DEF allVars
  <2>2. CASE UNCHANGED clientVars
    BY <2>2 DEF clientVars
  <2>3. CASE AdapterNext /\ ~UNCHANGED agentVars
    <3>1. Handles
      BY <2>3 DEF AdapterNext, Handles
    <3> QED
      BY <1>1, <3>1, HandlesIsNext DEF clientVars
  <2> QED
    BY <2>1, <2>2, <2>3 DEF NextWithClient
<1> QED
  BY <1>2, <1>3, <1>4

\* When execute fails because the agent said so, the operation neither waits
\* anywhere on its way nor runs, now or later, and from then on it writes no
\* properties and asks for no restart: only one that was asked for before may
\* still be made.
THEOREM FailuresAreFinal == SpecWithClient => FailedIsFinished
<1>1. ClientInv /\ ClientInv' /\ [NextWithClient]_allVars =>
        [/\ FailedIsFinal'
         /\ \A op \in Ops : verdict'[op] = "failed" =>
               (props' = op => props = op) /\ (op \in reboot' => op \in reboot)]_allVars
  <2>1. ClientInv' => FailedIsFinal'
    BY ClientFails, PTL
  <2> QED
    BY <2>1, FailedRests
<1> QED
  BY <1>1, ClientInductive, PTL DEF SpecWithClient, FailedIsFinished

\* When execute returns, Bedrock has been started on what the operation wrote,
\* also if SQLite calls failed and the agent was restarted on the way.
THEOREM ReturnedWasLoaded == SpecWithClient => []ReturnedIsLoaded
<1>1. ClientInv => ReturnedIsLoaded
  <2> SUFFICES ASSUME ClientInv, NEW op \in Ops, verdict[op] = "ok", props = op
               PROVE  loaded = op
    BY DEF ReturnedIsLoaded
  <2>1. caller \in {"adapter", "any"}
    BY DEF ClientInv, ClientTypeOK
  <2>2. CASE caller = "adapter"
    <3>1. op \in succeeded
      BY <2>2 DEF ClientInv, AdapterInv, OkIsTrue
    <3> QED
      BY <2>2, <3>1 DEF ClientInv, AdapterInv, RestartedIsLoaded, Restarted
  <2>3. CASE caller = "any"
    BY <2>3 DEF ClientInv, NobodyCalls
  <2> QED
    BY <2>1, <2>2, <2>3
<1> QED
  BY <1>1, ClientInductive, PTL

-----------------------------------------------------------------------------
(* Agent and client implement Executor.                                    *)

\* What Executor's variables stand for
Waits == {op \in Asked : Waiting(op)}
Began == {op \in Asked : Begun(op)}
Heard == [op \in Ops |-> IF verdict[op] \in Failures THEN "failed" ELSE verdict[op]]

LEMMA CallAsks ==
    ASSUME OwnerInv, ClientTypeOK, AdapterInv, Call, UNCHANGED <<agentVars, succeeded>>
    PROVE  \E op \in Ops : Contract!Ask(op)
<1> USE DEF AdapterInv
<1>1. PICK op \in Ops : op \notin Asked /\ call' = op /\ asked' = Append(asked, op)
  BY DEF Call
<1>2. /\ at = "idle" /\ at' = "post" /\ verdict' = verdict
      /\ wire' = wire /\ serving' = serving /\ succeeded' = succeeded
  BY DEF Call, netVars
<1>3. Asked' = Asked \cup {op}
  <2>1. /\ Len(asked) \in Nat /\ Len(asked') = Len(asked) + 1 /\ asked'[Len(asked) + 1] = op
        /\ \A i \in 1..Len(asked) : asked'[i] = asked[i]
    BY <1>1 DEF ClientTypeOK
  <2> QED
    BY <2>1 DEF Asked
<1>4. ~Begun(op)
  <2>1. mem[op] = "absent"
    BY <1>1 DEF UnknownIsAbsent, Unknown
  <2> QED
    BY <1>1, <2>1, PlacesFit
<1>5. \A o : Waiting(o)' <=> Waiting(o) \/ o = op
  BY <1>1, <1>2, AgentRests DEF Waiting, Posting, OnWire, AtHandler
<1>6. Waits' = Waits \cup {op}
  BY <1>3, <1>5 DEF Waits
<1>7. Began' = Began
  BY <1>3, <1>4, AgentRests DEF Began
<1>8. ~Contract!Asked(op)
  BY <1>1 DEF Contract!Asked, Asked
<1> QED
  BY <1>1, <1>2, <1>6, <1>7, <1>8 DEF Contract!Ask, Waits, Began

LEMMA ClientTells ==
    ASSUME OwnerInv, ClientTypeOK, AdapterInv, ClientStep \/ CallerDies, UNCHANGED <<agentVars, succeeded>>
    PROVE  Contract!Next \/ UNCHANGED Contract!vars
<1> USE DEF AdapterInv
<1>1. Began' = Began /\ asked' = asked /\ Asked' = Asked
  <2>1. asked' = asked
    BY ClientMoves DEF Post, Step, AsksStatus, MovesOn, Ends
  <2> QED
    BY <2>1, AgentRests DEF Began, Asked
<1>2. ASSUME \A op \in Asked : Waiting(op)' <=> Waiting(op), verdict' = verdict
      PROVE  UNCHANGED Contract!vars
  BY <1>1, <1>2 DEF Contract!vars, Waits, Began
<1>3. CASE Post
  <2>1. at = "post" /\ call \in Ops /\ call' = call /\ at' = "posted" /\ verdict' = verdict
    BY <1>3, LastIsLast DEF Post, Step
  <2>2. serving' = serving /\ \A op : OnWire(op)' <=> OnWire(op) \/ op = call
    BY <1>3, <2>1, DeliverFits DEF Post, ClientTypeOK
  <2> QED
    BY <1>2, <2>1, <2>2, AgentRests DEF Waiting, Posting, AtHandler
<1>4. CASE AsksStatus
  <2>1. at \in {"poll", "recover"} /\ call \in Ops /\ call' = call /\ at' # "post" /\ verdict' = verdict
    BY <1>4, LastIsLast DEF AsksStatus, AwaitsAnswer
  <2>2. serving' = serving /\ \A op : OnWire(op)' <=> OnWire(op)
    BY <1>4, <2>1, DeliverFits DEF AsksStatus, ClientTypeOK
  <2> QED
    BY <1>2, <2>1, <2>2, AgentRests DEF Waiting, Posting, AtHandler
<1>5. CASE ~Post /\ ~AsksStatus
  <2>1. /\ MovesOn \/ \E outcome \in {"ok"} \cup Failures : Ends(outcome)
        /\ wire' \in Seq(Requests) /\ SameRequests
    BY <1>5, ClientMoves
  <2>2. \A op : (OnWire(op)' <=> OnWire(op)) /\ (AtHandler(op)' <=> AtHandler(op))
    BY <2>1, RequestsRest DEF ClientTypeOK
  <2>3. CASE MovesOn
    BY <1>2, <2>2, <2>3, AgentRests DEF MovesOn, Waiting, Posting
  <2>4. ASSUME NEW outcome \in {"ok"} \cup Failures, Ends(outcome)
        PROVE  \E op \in Ops : Contract!Tell(op, "ok") \/ Contract!Tell(op, "failed")
    <3> DEFINE word == IF outcome = "ok" THEN "ok" ELSE "failed"
    <3>1. /\ at # "idle" /\ at' = "idle" /\ call \in Ops /\ call \in Asked /\ verdict[call] = "none"
          /\ verdict' = [verdict EXCEPT ![call] = outcome]
      BY <2>4, LastIsLast DEF Ends, CallFits
    <3>2. Heard[call] = "none" /\ Heard' = [Heard EXCEPT ![call] = word]
      BY <3>1 DEF Heard, Failures, ClientTypeOK
    <3>3. outcome = "ok" => call \in succeeded
      BY <2>4 DEF Ends, OkIsTrue
    <3>4. Waits' \in {Waits, Waits \ {call}}
      <4>1. \A op : op # call => (Waiting(op)' <=> Waiting(op))
        BY <2>2, <3>1, AgentRests DEF Waiting, Posting
      <4>2. Waits' \ {call} = Waits \ {call}
        BY <1>1, <4>1 DEF Waits
      <4>3. call \in Waits' => call \in Waits
        <5> SUFFICES ASSUME NEW op \in Asked, op = call, Waiting(op)'
                     PROVE  Waiting(op)
          BY <1>1, <3>1 DEF Waits
        <5> QED
          BY <2>2, <3>1, AgentRests DEF Waiting, Posting
      <4> QED
        BY <4>2, <4>3
    <3>5. Contract!Asked(call)
      BY <3>1 DEF Contract!Asked, Asked
    <3>6. Contract!Tell(call, word)
      BY <1>1, <3>2, <3>3, <3>4, <3>5 DEF Contract!Tell, Waits, Began, Heard
    <3> QED
      BY <3>1, <3>6
  <2> QED
    BY <2>1, <2>3, <2>4 DEF Contract!Next
<1> QED
  BY <1>3, <1>4, <1>5

\* The worker that decides an outcome is the only one to move.
LEMMA DecidesAlone ==
    ASSUME OwnerInv, ClientTypeOK, ServiceFits, Handles, NEW w \in Workers, SetFields(w)
    PROVE  AgentRuns
<1> USE ThreadFacts, AgentFacts
<1>1. pc[w] = "fields" /\ pc'[w] = "save"
  BY DEF SetFields, At, Goto
<1>2. ~Serve
  <2>1. ASSUME Serve
        PROVE  \E op \in Ops : Create(op) \/ Evict(op)
    <3>1. Head(wire) \in Requests
      BY <2>1, HeadLeaves DEF Serve, ClientTypeOK
    <3>2. Head(wire).op \in Ops
      BY <3>1 DEF Requests
    <3> QED
      BY <2>1, <3>2 DEF Serve
  <2> QED
    BY <1>1, <2>1, HandlerMoves
<1>3. ~ServeStep
  BY <1>1, HandlerMoves DEF ServeStep
<1>4. ~ServeRejects
  BY <1>1, AgentRests DEF ServeRejects
<1>5. ~AgentDies
  BY <1>1 DEF AgentDies, Crash
<1> QED
  BY <1>2, <1>3, <1>4, <1>5 DEF Handles

LEMMA AgentExecutes ==
    ASSUME OwnerInv, OwnerInv', ClientTypeOK, AdapterInv, OkIsTrue', Handles, Succeed
    PROVE  Contract!Next \/ UNCHANGED Contract!vars
<1> USE DEF AdapterInv
<1>1. UNCHANGED clientVars /\ [Next]_vars /\ asked' = asked /\ Asked' = Asked /\ Heard' = Heard
  BY HandlesIsNext DEF clientVars, Asked, Heard
<1>2. \A op \in Asked : op \in Ops
  BY DEF Asked, ClientTypeOK
<1>3. Reads \/ Queues \/ Takes \/ Loses
  BY StepHands
<1>4. /\ \A op \in Ops : Waiting(op)' => Waiting(op)
      /\ \A op : Posting(op)' <=> Posting(op)
  BY <1>1, <1>3, OrderKept
<1>5. CASE succeeded' = succeeded /\ ~Takes
  <2>1. Waits' \subseteq Waits
    BY <1>1, <1>2, <1>4 DEF Waits
  <2>2. \A op : Begun(op)' => Begun(op)
    BY <1>3, <1>5 DEF Reads, Queues, Loses
  <2>3. Began' \subseteq Began
    BY <1>1, <2>2 DEF Began
  <2>4. Contract!Lose
    BY <1>1, <1>5, <2>1, <2>3 DEF Contract!Lose, Waits, Began, Heard
  <2> QED
    BY <2>4 DEF Contract!Next
<1>6. CASE succeeded' = succeeded /\ Takes
  <2>1. PICK op \in Ops : op = Head(queue) /\ Queued(op) /\ \A o : Queued(o)' <=> Queued(o) /\ o # op
    BY <1>6, QueueShrinks, AgentFacts DEF Takes, OwnerInv, OwnersFit
  <2>2. mem[op] = "running" /\ ~AtHandler(op)
    BY <2>1, ThreadFacts DEF OwnerInv, OwnersFit, AtHandler, Owns
  <2>3. op \in Asked /\ ~Posting(op) /\ ~OnWire(op)
    BY <2>2 DEF UnknownIsAbsent, Unknown
  <2>4. /\ \A o : OnWire(o)' <=> OnWire(o)
        /\ \A o : AtHandler(o)' <=> AtHandler(o)
        /\ \A o : Begun(o)' <=> Begun(o) \/ o = op
    BY <1>6, <2>1 DEF Takes, OnWire
  <2>5. \A o : Waiting(o)' <=> Waiting(o) /\ o # op
    BY <1>4, <2>1, <2>2, <2>3, <2>4 DEF Waiting
  <2>6. Waits' = Waits \ {op} /\ Began' = Began \cup {op} /\ op \in Waits
    BY <1>1, <2>1, <2>3, <2>4, <2>5 DEF Waits, Began, Waiting
  <2>7. PICK i \in 1..Len(asked) : asked[i] = op
    BY <2>3 DEF Asked
  <2>8. ASSUME NEW j \in 1..(i - 1), asked[j] \in Waits
        PROVE  FALSE
    <3> DEFINE earlier == asked[j]
    <3>1. j \in 1..Len(asked) /\ j < i /\ earlier \in Ops
      BY <2>7 DEF ClientTypeOK
    <3>2. Before(earlier, op)
      BY <2>7, <3>1 DEF Before
    <3>3. ~OnWire(earlier) /\ ~AtHandler(earlier)
      BY <2>1, <3>1, <3>2 DEF InOrder
    <3>4. ~Posting(earlier)
      <4>1. CASE at = "post"
        <5>1. asked # <<>> /\ call = asked[Len(asked)]
          BY <4>1 DEF CallFits
        <5>2. Len(asked) \in 1..Len(asked) /\ j # Len(asked)
          BY <2>7, <3>1 DEF ClientTypeOK
        <5> QED
          BY <3>1, <5>1, <5>2 DEF CallFits, Posting
      <4> QED
        BY <4>1 DEF Posting
    <3>5. ~Queued(earlier)
      <4> SUFFICES ASSUME NEW k \in 1..Len(queue), queue[k] = earlier
                   PROVE  FALSE
        BY DEF Queued
      <4>1. queue # <<>> /\ 1 \in 1..Len(queue) /\ queue[1] = op
        BY <1>6, <2>1, AgentFacts DEF Takes
      <4>2. k < 1
        BY <2>1, <3>1, <3>2, <4>1 DEF InOrder
      <4> QED
        BY <4>2
    <3> QED
      BY <2>8, <3>3, <3>4, <3>5 DEF Waits, Waiting
  <2>9. Contract!Begin(i)
    BY <1>1, <1>6, <2>6, <2>7, <2>8 DEF Contract!Begin, Waits, Began, Heard
  <2> QED
    BY <2>9 DEF Contract!Next
<1>7. CASE succeeded' # succeeded
  <2>1. PICK op \in Ops : op \notin succeeded /\ mem'[op] = "ok"
    BY <1>7 DEF Succeed
  <2>2. PICK w \in Workers : SetFields(w) /\ job[w] = op /\ result[w] = "ok"
    BY <1>1, <2>1, OkComes DEF OkIsTrue
  <2>3. AgentRuns
    BY <2>2, DecidesAlone
  <2>4. /\ pc' = [pc EXCEPT ![w] = "save"] /\ pc[w] = "fields" /\ job' = job /\ queue' = queue
        /\ mem' = [mem EXCEPT ![op] = "ok"]
        /\ wire' = wire /\ serving' = serving
    BY <2>2, <2>3 DEF SetFields, At, Goto, AgentRuns, netVars
  <2>5. pc'[w] = "save" /\ \A t \in Threads \ {w} : pc'[t] = pc[t]
    BY <2>4, AgentFacts, ThreadFacts
  <2>6. \A o : Waiting(o)' <=> Waiting(o)
    BY <1>4, <2>4, <2>5, ThreadFacts DEF Waiting, OnWire, AtHandler, Queued
  <2>7. Owns(w, op) /\ WorksOn(w, op) /\ Begun(op)
    BY <2>2, <2>4 DEF Owns, WorksOn, OwnerLabels, Begun
  <2>8. op \in Asked
    BY <2>7, PlacesFit DEF UnknownIsAbsent, Unknown
  <2>9. \A o : Begun(o)' <=> Begun(o) /\ o # op
    <3>1. \A v \in Workers \ {w} : \A o : Owns(v, o)' <=> Owns(v, o)
      BY <2>4, <2>5, ThreadFacts DEF Owns
    <3>2. \A o : ~Owns(w, o)' /\ (Owns(w, o) => o = op)
      BY <2>2, <2>5 DEF Owns
    <3>3. \A v \in Workers \ {w} : ~Owns(v, op)
      BY <2>7, ThreadFacts DEF OwnerInv, OwnersFit, Owns, WorksOn, OwnerLabels
    <3> QED
      BY <3>1, <3>2, <3>3 DEF Begun
  <2>10. Waits' = Waits /\ Began' = Began \ {op} /\ op \in Began
    BY <1>1, <2>6, <2>7, <2>8, <2>9 DEF Waits, Began
  <2>11. succeeded' = succeeded \cup {op}
    BY <2>1, <2>4, AgentFacts DEF Succeed, OkIsTrue
  <2>12. Contract!Succeed(op)
    BY <1>1, <2>10, <2>11 DEF Contract!Succeed, Waits, Began, Heard
  <2> QED
    BY <2>12 DEF Contract!Next
<1> QED
  BY <1>5, <1>6, <1>7

LEMMA ExecutorStep ==
    ClientInv /\ ClientInv' /\ [NextWithClient]_allVars => [Contract!Next]_Contract!vars
<1> SUFFICES ASSUME ClientInv, ClientInv', [NextWithClient]_allVars
             PROVE  Contract!Next \/ UNCHANGED Contract!vars
  OBVIOUS
<1>1. OwnerInv /\ ClientTypeOK /\ OwnerInv'
  BY DEF ClientInv
<1>2. CASE UNCHANGED allVars
  <2>1. UNCHANGED <<clientVars, netVars, succeeded>> /\ UNCHANGED agentVars
    BY <1>2 DEF allVars
  <2>2. /\ Asked' = Asked
        /\ \A op : Waiting(op)' <=> Waiting(op)
        /\ \A op : Begun(op)' <=> Begun(op)
    BY <2>1, AgentRests DEF clientVars, netVars, Asked, OnWire, AtHandler, Posting, Waiting
  <2> QED
    BY <2>1, <2>2 DEF Contract!vars, clientVars
<1>3. CASE caller = "any" /\ UNCHANGED <<caller, clientVars, netVars, succeeded>>
  <2>1. asked = <<>> /\ UNCHANGED <<asked, verdict, succeeded>>
    BY <1>3 DEF ClientInv, NobodyCalls, clientVars
  <2>2. Asked = {} /\ Asked' = {}
    BY <2>1 DEF Asked
  <2> QED
    BY <2>1, <2>2 DEF Contract!vars
<1>4. CASE caller = "adapter" /\ AdapterNext /\ UNCHANGED caller
  <2>1. AdapterInv /\ AdapterInv'
    BY <1>4 DEF ClientInv
  <2>2. CASE Call /\ UNCHANGED <<agentVars, succeeded>>
    BY <1>1, <2>1, <2>2, CallAsks DEF Contract!Next
  <2>3. CASE (ClientStep \/ CallerDies) /\ UNCHANGED <<agentVars, succeeded>>
    BY <1>1, <2>1, <2>3, ClientTells
  <2>4. CASE Handles /\ Succeed
    BY <1>1, <2>1, <2>4, AgentExecutes DEF AdapterInv
  <2> QED
    BY <1>4, <2>2, <2>3, <2>4 DEF AdapterNext, Handles
<1> QED
  BY <1>2, <1>3, <1>4 DEF NextWithClient

\* The host agent and the adapter are an executor as the control plane expects
\* one: an operation is begun once and in the order of the calls, also when its
\* caller gave up, and execute returns only if it succeeded.
THEOREM Executes == SpecWithClient => ImplementsExecutor
<1>1. ClientInit => Contract!Init
  <2> SUFFICES ASSUME ClientInit
               PROVE  Contract!Init
    OBVIOUS
  <2>1. Asked = {}
    BY DEF ClientInit, Asked
  <2>2. Heard = [op \in Ops |-> "none"]
    BY DEF Heard, Failures, ClientInit
  <2> QED
    BY <2>1, <2>2 DEF Contract!Init, ClientInit, Heard
<1>2. ClientInv /\ ClientInv' /\ [NextWithClient]_allVars => [Contract!Next]_Contract!vars
  BY ExecutorStep
<1> QED
  BY <1>1, <1>2, ClientInductive, PTL DEF SpecWithClient, ImplementsExecutor, Contract!Spec
=============================================================================
