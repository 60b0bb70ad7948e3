------------------------------ MODULE Executor ------------------------------
(***************************************************************************)
(* What the control plane may expect of whatever restarts Bedrock for it:  *)
(* requests are begun in the order in which they were made, at most once,  *)
(* perhaps after their caller gave up: once a later one has begun, earlier *)
(* ones that have not are lost.  A caller is told of success only if the   *)
(* request succeeded, and may be told of failure at any time.              *)
(***************************************************************************)
EXTENDS Naturals, Sequences

CONSTANT Ops

VARIABLES
    asked,      \* the operations, in the order of their requests
    waiting,    \* those not yet begun
    begun,      \* those begun and not ended
    succeeded,  \* those that have succeeded
    verdict     \* operation |-> what its caller was told: "none", "ok" or "failed"

vars == <<asked, waiting, begun, succeeded, verdict>>

Init ==
    /\ asked = <<>>
    /\ waiting = {} /\ begun = {} /\ succeeded = {}
    /\ verdict = [op \in Ops |-> "none"]

Asked(op) == \E i \in 1..Len(asked) : asked[i] = op

Ask(op) ==
    /\ asked' = Append(asked, op)
    /\ ~Asked(op)
    /\ waiting' = waiting \cup {op}
    /\ UNCHANGED <<begun, succeeded, verdict>>

Begin(i) ==
    /\ asked[i] \in waiting
    /\ \A j \in 1..(i - 1) : asked[j] \notin waiting
    /\ waiting' = waiting \ {asked[i]}
    /\ begun' = begun \cup {asked[i]}
    /\ UNCHANGED <<asked, succeeded, verdict>>

Succeed(op) ==
    /\ op \in begun
    /\ begun' = begun \ {op}
    /\ succeeded' = succeeded \cup {op}
    /\ UNCHANGED <<asked, waiting, verdict>>

\* Requests that fail, are refused, lost or interrupted are not taken up again
Lose ==
    /\ UNCHANGED <<asked, succeeded, verdict>>
    /\ waiting' \subseteq waiting
    /\ begun' \subseteq begun

\* A caller that gives up before its request has left takes it along
Tell(op, outcome) ==
    /\ verdict[op] = "none"
    /\ verdict' = [verdict EXCEPT ![op] = outcome]
    /\ Asked(op)
    /\ outcome = "ok" => op \in succeeded
    /\ waiting' \in {waiting, waiting \ {op}}
    /\ UNCHANGED <<asked, begun, succeeded>>

Next ==
    \/ Lose
    \/ \E op \in Ops : Ask(op) \/ Succeed(op) \/ Tell(op, "ok") \/ Tell(op, "failed")
    \/ \E i \in 1..Len(asked) : Begin(i)

Spec == Init /\ [][Next]_vars
=============================================================================
