CONSTANTS
  NumOps = 2
  Requests = {r1, r2}
  Reobservers = {r2}
  Main = main
  NoThread = noThread
  Values = {v1, v2}
  Invalid = invalid
  Failing = {4}
  MaxCrashes = 0
  MaxFaults = 0
SPECIFICATION Spec
SYMMETRY Symmetry
INVARIANTS TypeOK OnlyReviewedIsApplied ConfirmedIsEffective FailureIsObserved
CHECK_DEADLOCK FALSE
