CONSTANTS
  NumOps = 1
  Requests = {r1, r2}
  Reobservers = {r2}
  Main = main
  NoThread = noThread
  Values = {v1, v2}
  Invalid = invalid
  Failing = {3, 4, 5, 6}
  MaxCrashes = 1
  MaxFaults = 2
SPECIFICATION FairSpec
INVARIANT TerminalEventIsCommitted
PROPERTIES OnlyReobservationRevises EveryOperationEnds LockIsReleased OutcomeIsShown
CHECK_DEADLOCK FALSE
