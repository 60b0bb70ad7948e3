CONSTANTS
  NumOps = 1
  Requests = {r1}
  Reobservers = {}
  Main = main
  NoThread = noThread
  Values = {v1, v2}
  Invalid = invalid
  Failing = {4}
  MaxCrashes = 1
  MaxFaults = 0
SPECIFICATION SpecWithReload
INVARIANT ReloadSparesRestart
CHECK_DEADLOCK FALSE
