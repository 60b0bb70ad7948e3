------------------------- MODULE MCServerOperation -------------------------
EXTENDS ServerOperation, TLC
Symmetry == Permutations(Values)
=============================================================================
