CONSTANTS
  Rules = {pvp, tnt}
  Setters = {}
  WorldThreads = {w1, w2}
  RuleThreads = {g1, g2}
  MaxStarting = 1
  MaxEdits = 1
  MaxFaults = 1
  MaxCrashes = 1
SYMMETRY Symmetry
SPECIFICATION Spec
INVARIANTS LockIsOwned NoRequestIsStranded
PROPERTIES FailedRulesAreRequeued
