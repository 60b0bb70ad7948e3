CONSTANTS
  Seen = {alex}
  MaxBlocks = 1
  MaxModes = 1
  MaxSyncs = 1
  MaxKills = 0
  MaxOutages = 0
  MaxCrashes = 0
SPECIFICATION TelemetrySpec
INVARIANT GapMeansLoss
CHECK_DEADLOCK FALSE
