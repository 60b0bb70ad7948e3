------------------------- MODULE OperationContract -------------------------
(***************************************************************************)
(* What the control plane promises about server operations, whatever its   *)
(* threads, crashes and database errors do: one operation is active at a   *)
(* time, an operation starts at most once, it ends once, and a failed or   *)
(* divergent outcome is only ever revised to another outcome.              *)
(***************************************************************************)
CONSTANT Ops

VARIABLE state   \* operation |-> OperationState, "none" before it is accepted

ActiveStates == {"pending", "running"}
TerminalStates == {"confirmed", "failed", "divergent"}
RevisableStates == {"failed", "divergent"}

Init == state = [op \in Ops |-> "none"]

Become(op, s) == state' = [state EXCEPT ![op] = s]

Accept(op) ==
    /\ state[op] = "none"
    /\ \A other \in Ops : state[other] \notin ActiveStates
    /\ Become(op, "pending")

Start(op) ==
    /\ state[op] = "pending"
    /\ Become(op, "running")

End(op) ==
    /\ state[op] \in ActiveStates
    /\ \E s \in TerminalStates : Become(op, s)

Revise(op) ==
    /\ state[op] \in RevisableStates
    /\ \E s \in TerminalStates : Become(op, s)

Next == \E op \in Ops : Accept(op) \/ Start(op) \/ End(op) \/ Revise(op)

Spec == Init /\ [][Next]_state
=============================================================================
