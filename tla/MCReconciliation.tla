-------------------------- MODULE MCReconciliation --------------------------
EXTENDS Reconciliation, TLC
Symmetry == Permutations(WorldThreads) \cup Permutations(RuleThreads) \cup Permutations(Rules)
=============================================================================
