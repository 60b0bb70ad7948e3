--------------------------- MODULE MCEventBroker ---------------------------
EXTENDS EventBroker, TLC
Symmetry == Permutations(Publishers)
=============================================================================
