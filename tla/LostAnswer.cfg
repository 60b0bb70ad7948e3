CONSTANTS
  Ops = {o1, o2}
  Workers = {w1}
  Handler = handler
  NoOp = noOp
  Torn = torn
  NoRequest = noRequest
  QueueSize = 1
  Backlog = 1
  RetryCount = 2
  MaxCrashes = 1
  MaxFaults = 1
SPECIFICATION SpecWithClient
INVARIANT UnavailableIsUndelivered
CHECK_DEADLOCK FALSE
