--------------------------- MODULE Reconciliation ---------------------------
(***************************************************************************)
(* ReconciliationService (runtime/reconciliation.py) with the callers that *)
(* ask it for work: EventRuntime (runtime/supervisor.py) and the manager's *)
(* set_gamerule (runtime/manager.py).                                      *)
(*                                                                         *)
(* One lock serialises three kinds of refresh: the full one, which does    *)
(* not wait but leaves a deferred request behind, and the workers of the   *)
(* world and of the gamerules, which wait.  Requests for a worker that     *)
(* runs are coalesced into what is pending.  Of the state a refresh reads  *)
(* and stores, the model keeps the gamerules.                              *)
(***************************************************************************)
EXTENDS Naturals, FiniteSets

CONSTANTS
    Rules,        \* gamerules
    Setters,      \* requests that set a gamerule
    WorldThreads, \* names for world-refresh threads
    RuleThreads,  \* names for gamerule-refresh threads
    MaxStarting,  \* bound: refresh threads waiting to run, beside a deferred one
    MaxEdits,     \* bound: changes of a gamerule
    MaxFaults,    \* bound: calls that raise or answer in part
    MaxCrashes    \* bound: deaths of the process

ASSUME BoundsAssumption ==
    /\ MaxStarting \in Nat \ {0} /\ MaxEdits \in Nat
    /\ MaxFaults \in Nat /\ MaxCrashes \in Nat

VARIABLES
    lock,         \* _refresh_lock: "free", or the kind of refresh that holds it
    deferred,     \* _pending_full_reason is not None
    refreshing,   \* _refreshing
    starting,     \* refresh threads started and not yet at the lock
    full,         \* where the full refresh that holds the lock is
    worldPending, \* _pending_world_reason is not None
    worldRunning, \* _world_worker_running
    world,        \* world thread |-> where it is
    rulesPending, \* _pending_rules
    rulesRunning, \* _gamerule_worker_running
    rule,         \* gamerule thread |-> where it is
    taken,        \* gamerule thread |-> the rules it works on
    answer,       \* rule |-> value, as the holder of the lock read it
    setter,       \* request |-> the rules and values it has sent and not stored
    cached,       \* gamerules in the repository
    actual,       \* gamerules in Bedrock
    log,          \* rules that unread lines of the Bedrock log mention
    edits,
    faults,
    crashes

fullVars == <<deferred, starting, full>>
worldVars == <<worldPending, worldRunning, world>>
ruleVars == <<rulesPending, rulesRunning, rule, taken>>
bedrock == <<actual, log, edits>>
vars == <<lock, refreshing, fullVars, worldVars, ruleVars, answer, setter, cached, bedrock, faults, crashes>>

Values == 0 .. MaxEdits
Nothing == [r \in {} |-> 0]
Readings == UNION {[R -> Values] : R \in SUBSET Rules}

InWorldLoop == {"take", "lock", "refresh", "end"}
InRuleLock == {"query", "store", "raised", "leave"}
InRuleLoop == {"sleep", "lock", "end"} \cup InRuleLock

TypeOK ==
    /\ lock \in {"free", "full", "world", "rules"}
    /\ deferred \in BOOLEAN /\ refreshing \in BOOLEAN
    /\ starting \in 0 .. MaxStarting + 1
    /\ full \in {"idle", "query", "store", "leave"}
    /\ worldPending \in BOOLEAN /\ worldRunning \in BOOLEAN
    /\ world \in [WorldThreads -> InWorldLoop \cup {"idle", "restart"}]
    /\ rulesPending \subseteq Rules /\ rulesRunning \in BOOLEAN
    /\ rule \in [RuleThreads -> InRuleLoop \cup {"idle", "restart"}]
    /\ taken \in [RuleThreads -> SUBSET Rules]
    /\ answer \in Readings
    /\ setter \in [Setters -> Readings]
    /\ cached \in [Rules -> Values]
    /\ actual \in [Rules -> Values]
    /\ log \subseteq Rules
    /\ edits \in 0 .. MaxEdits /\ faults \in 0 .. MaxFaults /\ crashes \in 0 .. MaxCrashes

\* initialize(): the runtime starts and a first refresh is requested
Idle ==
    [worlds |-> [w \in WorldThreads |-> "idle"],
     rules |-> [g \in RuleThreads |-> "idle"],
     taken |-> [g \in RuleThreads |-> {}],
     setters |-> [s \in Setters |-> Nothing]]

Init ==
    /\ lock = "free" /\ deferred = FALSE /\ refreshing = FALSE
    /\ starting = 1 /\ full = "idle"
    /\ worldPending = FALSE /\ worldRunning = FALSE /\ world = Idle.worlds
    /\ rulesPending = {} /\ rulesRunning = FALSE
    /\ rule = Idle.rules /\ taken = Idle.taken
    /\ answer = Nothing
    /\ setter = Idle.setters
    /\ cached = [r \in Rules |-> 0]
    /\ actual = [r \in Rules |-> 0]
    /\ log = {} /\ edits = 0 /\ faults = 0 /\ crashes = 0

Fault == faults < MaxFaults /\ faults' = faults + 1

\* A console query of rules R: the answered ones at their present values, and
\* log lines about some of them that the log thread has still to read
Query(R) ==
    \E answered \in SUBSET R, echo \in SUBSET R :
        /\ answer' = [r \in answered |-> actual[r]]
        /\ log' = log \cup echo
        /\ IF answered = R THEN UNCHANGED faults ELSE Fault
        /\ UNCHANGED <<actual, edits>>

\* the repository with the values of a reading in it
Stored(reading) == [r \in Rules |-> IF r \in DOMAIN reading THEN reading[r] ELSE cached[r]]
StoreAnswer == cached' = Stored(answer) /\ answer' = Nothing

-----------------------------------------------------------------------------
(* The full refresh                                                        *)

\* refresh_async from the timers, the Docker events and the refresh button
RequestFull ==
    /\ starting < MaxStarting
    /\ starting' = starting + 1
    /\ UNCHANGED <<lock, refreshing, deferred, full, worldVars, ruleVars, answer, setter, cached, bedrock, faults, crashes>>

FullAcquire ==
    /\ starting > 0 /\ lock = "free"
    /\ starting' = starting - 1
    /\ lock' = "full" /\ refreshing' = TRUE /\ full' = "query"
    /\ UNCHANGED <<deferred, worldVars, ruleVars, answer, setter, cached, bedrock, faults, crashes>>

FullDefer ==
    /\ starting > 0 /\ lock # "free"
    /\ starting' = starting - 1
    /\ deferred' = TRUE
    /\ UNCHANGED <<lock, refreshing, full, worldVars, ruleVars, answer, setter, cached, bedrock, faults, crashes>>

\* the settings are read and stored first, then the console is queried
FullQuery ==
    /\ full = "query"
    /\ Query(Rules)
    /\ full' = "store"
    /\ UNCHANGED <<lock, refreshing, deferred, starting, worldVars, ruleVars, setter, cached, crashes>>

\* gamerules, then players, permissions and the rest
FullStore ==
    /\ full = "store"
    /\ StoreAnswer
    /\ full' = "leave"
    /\ UNCHANGED <<lock, refreshing, deferred, starting, worldVars, ruleVars, setter, bedrock, faults, crashes>>

\* mutant: a failure leaves without its finally clause
FullFails_Stuck ==
    /\ full \in {"query", "store"}
    /\ Fault
    /\ full' = "idle"
    /\ UNCHANGED <<lock, refreshing, deferred, starting, worldVars, ruleVars, answer, setter, cached, bedrock, crashes>>

\* any of these calls raises: the finally clause is next
FullFails ==
    /\ full \in {"query", "store"}
    /\ Fault
    /\ full' = "leave"
    /\ UNCHANGED <<lock, refreshing, deferred, starting, worldVars, ruleVars, answer, setter, cached, bedrock, crashes>>

\* mutant: the deferred refresh is cleared and not started
ReleaseRefreshLock_Dropped ==
    /\ lock' = "free"
    /\ deferred' = FALSE
    /\ answer' = Nothing
    /\ UNCHANGED starting

\* _release_refresh_lock: the lock is free and a deferred refresh is started
ReleaseRefreshLock ==
    /\ lock' = "free"
    /\ deferred' = FALSE
    /\ starting' = IF deferred THEN starting + 1 ELSE starting
    /\ answer' = Nothing

FullLeave ==
    /\ full = "leave"
    /\ refreshing' = FALSE /\ full' = "idle"
    /\ ReleaseRefreshLock
    /\ UNCHANGED <<worldVars, ruleVars, setter, cached, bedrock, faults, crashes>>

-----------------------------------------------------------------------------
(* The world worker                                                        *)

\* refresh_world_async: thread w is started unless a worker runs
StartWorld(w) ==
    /\ worldPending' = TRUE
    /\ IF worldRunning
       THEN UNCHANGED <<worldRunning, world>>
       ELSE worldRunning' = TRUE /\ world' = [world EXCEPT ![w] = "take"]

RequestWorld(w) ==
    /\ worldRunning \/ world[w] = "idle"
    /\ StartWorld(w)
    /\ UNCHANGED <<lock, refreshing, fullVars, ruleVars, answer, setter, cached, bedrock, faults, crashes>>

WorldTake(w) ==
    /\ world[w] = "take"
    /\ world' = [world EXCEPT ![w] = IF worldPending THEN "lock" ELSE "end"]
    /\ worldPending' = FALSE
    /\ UNCHANGED <<lock, refreshing, fullVars, worldRunning, ruleVars, answer, setter, cached, bedrock, faults, crashes>>

LockIsFree == lock = "free"

WorldLock(w) ==
    /\ world[w] = "lock" /\ LockIsFree
    /\ lock' = "world"
    /\ world' = [world EXCEPT ![w] = "refresh"]
    /\ UNCHANGED <<refreshing, fullVars, worldPending, worldRunning, ruleVars, answer, setter, cached, bedrock, faults, crashes>>

\* the world is queried and stored; a call that raises is reported and passed
\* over.  Then the next round; or, when the report itself raised, the finally clause
WorldRelease(w) ==
    /\ world[w] = "refresh"
    /\ ReleaseRefreshLock
    /\ \/ world' = [world EXCEPT ![w] = "take"] /\ UNCHANGED faults
       \/ world' = [world EXCEPT ![w] = "end"] /\ Fault
    /\ UNCHANGED <<refreshing, full, worldPending, worldRunning, ruleVars, setter, cached, bedrock, crashes>>

\* mutant: no look at what became pending meanwhile
WorldEnd_Blind(w) ==
    /\ world[w] = "end"
    /\ worldRunning' = FALSE
    /\ world' = [world EXCEPT ![w] = "idle"]
    /\ UNCHANGED <<lock, refreshing, fullVars, worldPending, ruleVars, answer, setter, cached, bedrock, faults, crashes>>

\* under the lock of the pending request: is there another to serve?
WorldEnd(w) ==
    /\ world[w] = "end"
    /\ worldRunning' = FALSE
    /\ world' = [world EXCEPT ![w] = IF worldPending THEN "restart" ELSE "idle"]
    /\ UNCHANGED <<lock, refreshing, fullVars, worldPending, ruleVars, answer, setter, cached, bedrock, faults, crashes>>

\* the thread ends with this call; the one it starts takes its name
WorldRestart(w) ==
    /\ world[w] = "restart"
    /\ worldPending' = TRUE
    /\ world' = [world EXCEPT ![w] = IF worldRunning THEN "idle" ELSE "take"]
    /\ worldRunning' = TRUE
    /\ UNCHANGED <<lock, refreshing, fullVars, ruleVars, answer, setter, cached, bedrock, faults, crashes>>

-----------------------------------------------------------------------------
(* The gamerule worker                                                     *)

\* the log thread reads a line about r: dropped while a refresh makes such
\* lines itself, else refresh_gamerules_async({r})
HandleLog(r, g) ==
    /\ r \in log /\ log' = log \ {r}
    /\ IF refreshing
       THEN UNCHANGED ruleVars
       ELSE /\ rulesRunning \/ rule[g] = "idle"
            /\ rulesPending' = rulesPending \cup {r}
            /\ rulesRunning' = TRUE
            /\ rule' = IF rulesRunning THEN rule ELSE [rule EXCEPT ![g] = "sleep"]
            /\ UNCHANGED taken
    /\ UNCHANGED <<lock, refreshing, fullVars, worldVars, answer, setter, cached, actual, edits, faults, crashes>>

RuleTake(g) ==
    /\ rule[g] = "sleep"
    /\ taken' = [taken EXCEPT ![g] = rulesPending]
    /\ rulesPending' = {}
    /\ rule' = [rule EXCEPT ![g] = IF rulesPending = {} THEN "end" ELSE "lock"]
    /\ UNCHANGED <<lock, refreshing, fullVars, worldVars, rulesRunning, answer, setter, cached, bedrock, faults, crashes>>

RuleLock(g) ==
    /\ rule[g] = "lock" /\ LockIsFree
    /\ lock' = "rules" /\ refreshing' = TRUE
    /\ rule' = [rule EXCEPT ![g] = "query"]
    /\ UNCHANGED <<fullVars, worldVars, rulesPending, rulesRunning, taken, answer, setter, cached, bedrock, faults, crashes>>

RuleQuery(g) ==
    /\ rule[g] = "query"
    /\ Query(taken[g])
    /\ rule' = [rule EXCEPT ![g] = "store"]
    /\ UNCHANGED <<lock, refreshing, fullVars, worldVars, rulesPending, rulesRunning, taken, setter, cached, crashes>>

RuleStore(g) ==
    /\ rule[g] = "store"
    /\ StoreAnswer
    /\ rule' = [rule EXCEPT ![g] = "leave"]
    /\ UNCHANGED <<lock, refreshing, fullVars, worldVars, rulesPending, rulesRunning, taken, setter, bedrock, faults, crashes>>

\* mutant: no except clause
RuleFails_Dropped(g) ==
    /\ rule[g] \in {"query", "store"}
    /\ Fault
    /\ rule' = [rule EXCEPT ![g] = "raised"]
    /\ UNCHANGED <<lock, refreshing, fullVars, worldVars, rulesPending, rulesRunning, taken, answer, setter, cached, bedrock, crashes>>

\* the query or the write raises: the rules are pending again
RuleFails(g) ==
    /\ rule[g] \in {"query", "store"}
    /\ Fault
    /\ rulesPending' = rulesPending \cup taken[g]
    /\ rule' = [rule EXCEPT ![g] = "raised"]
    /\ UNCHANGED <<lock, refreshing, fullVars, worldVars, rulesRunning, taken, answer, setter, cached, bedrock, crashes>>

\* mutant: the flag is only cleared after success
RuleLeave_Flagged(g) ==
    /\ rule[g] \in {"raised", "leave"}
    /\ refreshing' = (rule[g] = "raised") /\ lock' = "free"
    /\ taken' = [taken EXCEPT ![g] = {}]
    /\ rule' = [rule EXCEPT ![g] = IF @ = "raised" THEN "end" ELSE "sleep"]
    /\ answer' = Nothing
    /\ UNCHANGED <<fullVars, worldVars, rulesPending, rulesRunning, setter, cached, bedrock, faults, crashes>>

\* both finally clauses of the critical section.  The lock is released by its
\* with statement, not by _release_refresh_lock: what is deferred stays so
RuleLeave(g) ==
    /\ rule[g] \in {"raised", "leave"}
    /\ refreshing' = FALSE /\ lock' = "free"
    /\ taken' = [taken EXCEPT ![g] = {}]
    /\ rule' = [rule EXCEPT ![g] = IF @ = "raised" THEN "end" ELSE "sleep"]
    /\ answer' = Nothing
    /\ UNCHANGED <<fullVars, worldVars, rulesPending, rulesRunning, setter, cached, bedrock, faults, crashes>>

RuleEnd(g) ==
    /\ rule[g] = "end"
    /\ rulesRunning' = FALSE
    /\ rule' = [rule EXCEPT ![g] = IF rulesPending # {} THEN "restart" ELSE "idle"]
    /\ UNCHANGED <<lock, refreshing, fullVars, worldVars, rulesPending, taken, answer, setter, cached, bedrock, faults, crashes>>

RuleRestart(g) ==
    /\ rule[g] = "restart"
    /\ rule' = [rule EXCEPT ![g] = IF rulesRunning THEN "idle" ELSE "sleep"]
    /\ rulesRunning' = TRUE
    /\ UNCHANGED <<lock, refreshing, fullVars, worldVars, rulesPending, taken, answer, setter, cached, bedrock, faults, crashes>>

-----------------------------------------------------------------------------
(* Who changes Bedrock, and the process                                    *)

\* a rule changes; the log may have a line about it
Change(r) ==
    /\ edits < MaxEdits
    /\ edits' = edits + 1
    /\ actual' = [actual EXCEPT ![r] = edits + 1]
    /\ \E echo \in SUBSET {r} : log' = log \cup echo

\* set_gamerule: the command is sent, then its value is stored, with no lock
SetSend(s, r) ==
    /\ setter[s] = Nothing
    /\ Change(r)
    /\ setter' = [setter EXCEPT ![s] = [x \in {r} |-> edits + 1]]
    /\ UNCHANGED <<lock, refreshing, fullVars, worldVars, ruleVars, answer, cached, faults, crashes>>

SetStore(s) ==
    /\ setter[s] # Nothing
    /\ \/ cached' = Stored(setter[s]) /\ UNCHANGED faults
       \/ UNCHANGED cached /\ Fault
    /\ setter' = [setter EXCEPT ![s] = Nothing]
    /\ UNCHANGED <<lock, refreshing, fullVars, worldVars, ruleVars, answer, bedrock, crashes>>

\* an operator in the game or at the console
ChangedElsewhere(r) ==
    /\ Change(r)
    /\ UNCHANGED <<lock, refreshing, fullVars, worldVars, ruleVars, answer, setter, cached, faults, crashes>>

\* the process dies and is started again; the log is followed from now on
Crash ==
    /\ crashes < MaxCrashes
    /\ crashes' = crashes + 1
    /\ lock' = "free" /\ deferred' = FALSE /\ refreshing' = FALSE
    /\ starting' = 1 /\ full' = "idle"
    /\ worldPending' = FALSE /\ worldRunning' = FALSE /\ world' = Idle.worlds
    /\ rulesPending' = {} /\ rulesRunning' = FALSE
    /\ rule' = Idle.rules /\ taken' = Idle.taken
    /\ answer' = Nothing
    /\ setter' = Idle.setters
    /\ log' \in SUBSET log
    /\ UNCHANGED <<cached, actual, edits, faults>>

-----------------------------------------------------------------------------
FullStep == FullQuery \/ FullStore \/ FullFails \/ FullLeave
WorldStep(w) ==
    \/ WorldTake(w) \/ WorldRelease(w) \/ WorldEnd(w) \/ WorldRestart(w)
RuleStep(g) ==
    \/ RuleTake(g) \/ RuleQuery(g) \/ RuleStore(g) \/ RuleFails(g)
    \/ RuleLeave(g) \/ RuleEnd(g) \/ RuleRestart(g)
WorldTimer == \E w \in WorldThreads : RequestWorld(w)
ReadLog == \E r \in Rules, g \in RuleThreads : HandleLog(r, g)

Next ==
    \/ RequestFull \/ FullAcquire \/ FullDefer \/ FullStep
    \/ WorldTimer \/ \E w \in WorldThreads : WorldLock(w) \/ WorldStep(w)
    \/ ReadLog \/ \E g \in RuleThreads : RuleLock(g) \/ RuleStep(g)
    \/ \E s \in Setters : SetStore(s) \/ \E r \in Rules : SetSend(s, r)
    \/ \E r \in Rules : ChangedElsewhere(r)
    \/ Crash

Spec == Init /\ [][Next]_vars

\* Threads go on.  The gamerule worker sleeps for two seconds between two holds
\* of the lock, so that a thread which keeps asking for it gets it in the end;
\* the world timer fires every 45 seconds
FairSpec ==
    /\ Spec
    /\ SF_vars(FullAcquire) /\ WF_vars(FullAcquire \/ FullDefer) /\ WF_vars(FullStep)
    /\ WF_vars(WorldTimer)
    /\ \A w \in WorldThreads : SF_vars(WorldLock(w)) /\ WF_vars(WorldStep(w))
    /\ \A g \in RuleThreads : SF_vars(RuleLock(g)) /\ WF_vars(RuleStep(g))
    /\ \A s \in Setters : WF_vars(SetStore(s))

-----------------------------------------------------------------------------
\* The lock is held by exactly the one thread that is in its critical section,
\* on every path through failures, and the flag that makes the log thread drop
\* lines is up exactly while gamerules are queried (the finally clauses of
\* refresh, refresh_world and the gamerule worker)
LockIsOwned ==
    LET inWorld == {w \in WorldThreads : world[w] = "refresh"}
        inRules == {g \in RuleThreads : rule[g] \in InRuleLock}
    IN  /\ lock = "full" <=> full # "idle"
        /\ lock = "world" <=> inWorld # {}
        /\ lock = "rules" <=> inRules # {}
        /\ Cardinality(inWorld) <= 1 /\ Cardinality(inRules) <= 1
        /\ refreshing <=> lock \in {"full", "rules"}

\* No request is left with nobody to serve it: each kind has one worker while
\* its flag is up and none otherwise, and what is pending has a worker or a
\* thread about to start one (refresh_world_async, refresh_gamerules_async)
NoRequestIsStranded ==
    LET worldWorkers == {w \in WorldThreads : world[w] \in InWorldLoop}
        ruleWorkers == {g \in RuleThreads : rule[g] \in InRuleLoop}
    IN  /\ Cardinality(worldWorkers) = IF worldRunning THEN 1 ELSE 0
        /\ Cardinality(ruleWorkers) = IF rulesRunning THEN 1 ELSE 0
        /\ worldPending => worldRunning \/ \E w \in WorldThreads : world[w] = "restart"
        /\ rulesPending # {} => rulesRunning \/ \E g \in RuleThreads : rule[g] = "restart"

\* A rule that was asked for is only let go by a worker whose query and write
\* came through (the except clause of the gamerule worker)
Wanted == rulesPending \cup UNION {taken[g] : g \in RuleThreads}
FailedRulesAreRequeued ==
    [][crashes' = crashes =>
          \A r \in Wanted \ Wanted' : \E g \in RuleThreads :
              r \in taken[g] /\ rule[g] = "leave" /\ rule'[g] = "sleep"]_vars

\* A full refresh that found the lock taken runs in the end, whoever held it
\* and although the gamerule worker does not start it (refresh,
\* _release_refresh_lock; docs/architecture.md:118)
DeferredIsServed == deferred ~> lock = "full"

\* With the safety timer, the repository has Bedrock's gamerules in the end,
\* whatever stale answer or late write got into it before
\* (README.md:176, EventRuntime._periodic)
EventuallyFresh == WF_vars(RequestFull) => <>[](cached = actual)
=============================================================================
