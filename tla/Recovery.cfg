CONSTANTS
  NumOps = 2
  Requests = {r1, r2}
  Reobservers = {}
  Main = main
  NoThread = noThread
  Values = {v1, v2}
  Invalid = invalid
  Failing = {4}
  MaxCrashes = 1
  MaxFaults = 1
SPECIFICATION Spec
SYMMETRY Symmetry
INVARIANTS AtMostOneActive WorkerOwnsItsRow
PROPERTIES ImplementsContract
CHECK_DEADLOCK FALSE
