---------------------------- MODULE AgentClient ----------------------------
(***************************************************************************)
(* HostAgentContainerOperations (server/host_agent.py) calls the host      *)
(* agent: execute posts the operation and polls its status until it knows  *)
(* how it ended.  Composed with HostAgent, whose handler serves one        *)
(* connection after the other; requests wait in the listen backlog, also   *)
(* those whose caller has given up.  Every operation id is posted once.    *)
(*                                                                         *)
(* A behaviour has either this client or, as in HostAgent, any client that *)
(* posts and polls what it likes, also again and after the retention.      *)
(***************************************************************************)
EXTENDS HostAgent

CONSTANTS
    NoRequest,   \* the handler serves nobody
    Backlog,     \* bound: connections waiting to be served
    RetryCount   \* _POST_DELIVERY_RETRY_COUNT

\* A request on its way; somebody waits for the answer while it is live
Requests == [kind : {"execute", "status"}, op : Ops, live : BOOLEAN]

ASSUME ClientAssumption ==
    Backlog \in Nat \ {0} /\ RetryCount \in Nat \ {0} /\ NoRequest \notin Requests

VARIABLES
    caller,    \* "adapter", or "any" client
    call,      \* the operation execute is called for
    at,        \* where execute is
    tries,     \* attempts _poll_with_recovery has made
    asked,     \* the operations execute was called for, in order
    verdict,   \* operation |-> how execute returned or raised
    wire,      \* requests delivered and not yet read
    serving,   \* the request the handler serves
    answer,    \* the answer on its way to execute
    succeeded  \* history: operations whose outcome has been ok

clientVars == <<call, at, tries, asked, verdict>>
netVars == <<wire, serving, answer>>
agentVars == vars
allVars == <<caller, agentVars, clientVars, netVars, succeeded>>

Failures == {"failed", "ambiguous", "unavailable", "interrupted"}

ClientInit ==
    /\ Init
    /\ caller \in {"adapter", "any"}
    /\ call = NoOp
    /\ at = "idle"
    /\ tries = 0
    /\ asked = <<>>
    /\ verdict = [op \in Ops |-> "none"]
    /\ wire = <<>>
    /\ serving = NoRequest
    /\ answer = "none"
    /\ succeeded = {}

Asked == {asked[i] : i \in 1..Len(asked)}

-----------------------------------------------------------------------------
(* The connection.                                                         *)

Stale(r) == [r EXCEPT !.live = FALSE]

\* Nobody reads the answer to what was asked before
HangUp ==
    /\ wire' = [i \in 1..Len(wire) |-> Stale(wire[i])]
    /\ serving' = IF serving = NoRequest THEN NoRequest ELSE Stale(serving)
    /\ answer' = "none"

Deliver_First(kind) ==   \* mutant: the connection that came last is served first
    /\ Len(wire) < Backlog
    /\ wire' = <<[kind |-> kind, op |-> call, live |-> TRUE]>> \o wire
    /\ UNCHANGED <<serving, answer>>

Deliver(kind) ==
    /\ Len(wire) < Backlog
    /\ wire' = Append(wire, [kind |-> kind, op |-> call, live |-> TRUE])
    /\ UNCHANGED <<serving, answer>>

-----------------------------------------------------------------------------
(* execute.                                                                *)

Call ==
    /\ at = "idle"
    /\ \E op \in Ops \ Asked : call' = op /\ asked' = Append(asked, op)
    /\ at' = "post"
    /\ UNCHANGED <<tries, verdict, netVars>>

\* execute returns or raises
Leave(outcome) ==
    /\ verdict' = [verdict EXCEPT ![call] = outcome]
    /\ call' = NoOp
    /\ at' = "idle"
    /\ tries' = 0
    /\ UNCHANGED asked

Step(label) == at' = label /\ UNCHANGED <<call, asked, verdict>>

\* The deadline or the last attempt has passed.  It may at every point where it
\* is looked at, and ends the call there
TooLate == Leave("ambiguous")

\* _poll_with_recovery looks at the deadline before it begins
EnterRecovery == TooLate \/ (Step("recover") /\ tries' = 0)

\* The connection is refused, or is not established in time
PostFails ==
    /\ at = "post"
    /\ Leave("unavailable")
    /\ UNCHANGED netVars

Post ==
    /\ at = "post"
    /\ Deliver("execute")
    /\ Step("posted")
    /\ UNCHANGED tries

\* No status line arrives: urlopen raises the TimeoutError or the connection
\* error of getresponse as it is, and execute takes it for a failed connection
PostUnanswered ==
    /\ at = "posted"
    /\ HangUp
    /\ Leave("unavailable")

\* The body of the answer does not arrive: ReadTimeoutError
PostBodyLost ==
    /\ at = "posted"
    /\ answer # "none"
    /\ HangUp
    /\ EnterRecovery

Refused == {"conflict", "rejected"}   \* 409, 401 and 400

PostAnswered ==
    /\ at = "posted"
    /\ answer # "none"
    /\ HangUp
    /\ CASE answer \in Refused -> Leave("failed")
         [] answer = "accepted" -> Step("poll") /\ UNCHANGED tries
         [] OTHER -> EnterRecovery

Done_Any == Records \ {"absent"}   \* mutant: a running operation passes for a finished one
Done == Records \ {"absent", "running"}

\* _handle_terminal_result raises on every outcome but ok, None included
Outcome_NotError(body) == IF body = "error" THEN "failed" ELSE "ok"  \* mutant: None passes
Outcome(body) == IF body = "ok" THEN "ok" ELSE "failed"

Poll ==
    /\ at = "poll"
    /\ \/ Deliver("status") /\ Step("polled") /\ UNCHANGED tries
       \/ (TooLate \/ EnterRecovery) /\ UNCHANGED netVars

\* a transport error: the answer is lost or never comes
PollUnanswered ==
    /\ at = "polled"
    /\ HangUp
    /\ EnterRecovery

PollAnswered ==
    /\ at = "polled"
    /\ answer # "none"
    /\ HangUp
    /\ CASE answer = "running" -> Step("poll") /\ UNCHANGED tries
         [] answer \in Done -> Leave(Outcome(answer))
         [] answer = "unknown" -> Leave("ambiguous")
         [] OTHER -> EnterRecovery

\* One attempt of _poll_with_recovery has told nothing
NextTry ==
    IF tries + 1 < RetryCount
    THEN Step("recover") /\ tries' = tries + 1
    ELSE Leave("ambiguous")

Recover ==
    /\ at = "recover"
    /\ \/ Deliver("status") /\ Step("recovered") /\ UNCHANGED tries
       \/ NextTry /\ UNCHANGED netVars

RecoverUnanswered ==
    /\ at = "recovered"
    /\ HangUp
    /\ NextTry

RecoverAnswered ==
    /\ at = "recovered"
    /\ answer # "none"
    /\ HangUp
    /\ CASE answer \in Done -> Leave(Outcome(answer))
         [] answer = "running" -> Step("poll") /\ tries' = 0
         [] OTHER -> NextTry

\* The control plane restarts; its boot fails the operation
CallerDies ==
    /\ at # "idle"
    /\ HangUp
    /\ Leave("interrupted")

ClientStep ==
    \/ PostFails \/ Post \/ PostUnanswered \/ PostBodyLost \/ PostAnswered
    \/ Poll \/ PollUnanswered \/ PollAnswered
    \/ Recover \/ RecoverUnanswered \/ RecoverAnswered

-----------------------------------------------------------------------------
(* The agent behind its socket.                                            *)

\* The request at the head of the backlog begins
Serve ==
    /\ serving = NoRequest
    /\ wire # <<>>
    /\ LET r == Head(wire)
       IN  /\ IF r.kind = "execute" THEN Create(r.op) ELSE Evict(r.op)
           /\ serving' = r
    /\ wire' = Tail(wire)
    /\ UNCHANGED <<answer, clientVars>>

Reply(body) == answer' = IF serving.live THEN body ELSE answer

ServeStep ==
    /\ serving # NoRequest
    /\ HandlerStep
    /\ IF pc'[Handler] = "idle"
       THEN serving' = NoRequest /\ Reply(told')
       ELSE UNCHANGED <<serving, answer>>
    /\ UNCHANGED <<wire, clientVars>>

\* The token or the body is not what the agent expects: 401, 400
ServeRejects ==
    /\ serving = NoRequest
    /\ wire # <<>>
    /\ Head(wire).kind = "execute"
    /\ answer' = IF Head(wire).live THEN "rejected" ELSE answer
    /\ wire' = Tail(wire)
    /\ UNCHANGED <<agentVars, serving, clientVars>>

\* The sockets of the old process are gone
AgentDies ==
    /\ Crash
    /\ wire' = <<>>
    /\ serving' = NoRequest
    /\ UNCHANGED <<answer, clientVars>>

AgentRuns ==
    /\ (\E w \in Workers : WorkerStep(w)) \/ (\E op \in Ops : DaemonRestarts(op))
    /\ UNCHANGED <<clientVars, netVars>>

Succeed == succeeded' = succeeded \cup {op \in Ops : mem'[op] = "ok"}

AdapterNext ==
    \/ /\ Call \/ ClientStep \/ CallerDies
       /\ UNCHANGED <<agentVars, succeeded>>
    \/ /\ Serve \/ ServeStep \/ ServeRejects \/ AgentDies \/ AgentRuns
       /\ Succeed

NextWithClient ==
    /\ UNCHANGED caller
    /\ \/ caller = "adapter" /\ AdapterNext
       \/ caller = "any" /\ Next /\ UNCHANGED <<clientVars, netVars, succeeded>>

SpecWithClient == ClientInit /\ [][NextWithClient]_allVars

-----------------------------------------------------------------------------
(* Properties.                                                             *)

\* When execute returns, Bedrock has been started on what the operation wrote:
\* whatever was lost, retried, polled or restarted on the way, the answer that
\* ended the call was about this operation and was true.
ReturnedIsLoaded == \A op \in Ops : verdict[op] = "ok" /\ props = op => loaded = op

\* A request is on its way to the queue, and has not begun
Posting(op) == call = op /\ at = "post"
OnWire(op) == \E i \in 1..Len(wire) : wire[i].kind = "execute" /\ wire[i].op = op
AtHandler(op) == serving # NoRequest /\ job[Handler] = op /\ pc[Handler] \in {"create", "enqueue"}
Waiting(op) == Posting(op) \/ OnWire(op) \/ AtHandler(op) \/ Queued(op)

\* A failure the agent itself reported is final: the operation neither waits nor
\* runs any more, writes no properties and asks for no restart.  What may still
\* come is the restart the daemon was told to make before the command was killed;
\* ambiguous, unavailable and interrupted calls may do all of it later.
Final(op) == ~Waiting(op) /\ mem[op] # "running"
FailedIsFinal == \A op \in Ops : verdict[op] = "failed" => Final(op)
FailedIsFinished ==
    [][/\ FailedIsFinal'
       /\ \A op \in Ops : verdict'[op] = "failed" =>
             (props' = op => props = op) /\ (op \in reboot' => op \in reboot)]_allVars

Begun(op) == \E w \in Workers : Owns(w, op)

Contract == INSTANCE Executor WITH
    waiting <- {op \in Asked : Waiting(op)},
    begun <- {op \in Asked : Begun(op)},
    verdict <- [op \in Ops |-> IF verdict[op] \in Failures THEN "failed" ELSE verdict[op]]

\* Client and agent together are an executor: an operation is begun at most
\* once and in the order of the calls, also when its caller gave up (none begins
\* while an earlier one still may), and execute returns only if it succeeded.
ImplementsExecutor == Contract!Spec

-----------------------------------------------------------------------------
(* What the documents say and the code does not do.                        *)

\* "Pre-delivery failures ... never delivered": a call that fails as unavailable
\* has left nothing at the agent.
UnavailableIsUndelivered ==
    \A op \in Ops : verdict[op] = "unavailable" => ~Waiting(op) /\ mem[op] = "absent"
=============================================================================
