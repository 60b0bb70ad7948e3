CONSTANTS
  Rules = {pvp}
  Setters = {s1, s2}
  WorldThreads = {w1}
  RuleThreads = {g1}
  MaxStarting = 1
  MaxEdits = 2
  MaxFaults = 1
  MaxCrashes = 0
SPECIFICATION FairSpec
PROPERTIES DeferredIsServed EventuallyFresh
