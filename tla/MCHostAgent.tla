---------------------------- MODULE MCHostAgent ----------------------------
EXTENDS AgentClient, TLC
Symmetry == Permutations(Ops)
\* Calls to SQLite fail for the adapter's operations only: any client's are
\* explored with a store that works
FaultsOfTheAdapter == caller = "any" => faults = 0
=============================================================================
