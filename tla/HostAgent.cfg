CONSTANTS
  Ops = {o1, o2}
  Workers = {w1}
  Handler = handler
  NoOp = noOp
  Torn = torn
  NoRequest = noRequest
  QueueSize = 1
  Backlog = 2
  RetryCount = 2
  MaxCrashes = 1
  MaxFaults = 1
SPECIFICATION SpecWithClient
SYMMETRY Symmetry
CONSTRAINT FaultsOfTheAdapter
INVARIANTS TypeOK OneOwner OkIsLoaded BegunIsRecoverable RowAgrees ReturnedIsLoaded
PROPERTIES FailedIsFinished AtMostOnce ForgottenOnlyWhenExpired ImplementsExecutor
CHECK_DEADLOCK FALSE
