CONSTANTS
  Players = {p1, p2}
  Codes = {c1, c2}
  Sessions = {s1, s2}
  Requests = {r1, r2}
  Nobody = nobody
  Creators = {k1, k2}
  Sets = {b1, b2}
  Nowhere = nowhere
  MaxWrites = 1
  MaxRestores = 1
  Seen = {alex}
  MaxBlocks = 1
  MaxModes = 1
  MaxSyncs = 1
  MaxKills = 1
  MaxOutages = 1
  MaxCrashes = 1
  Xuids = {x1}
  Names = {n1, n2}
  Unknown = unknown
  MaxJoins = 2
  MaxRenames = 1
  MaxRefreshes = 1
  MaxBreaks = 1
  MaxDeaths = 1
  Processes = {server, old}
  Older = {old}
  Latest = 2
  MaxStarts = 3
  MaxFailures = 1
SPECIFICATION Spec
CONSTRAINT Bound
SYMMETRY Symmetry
INVARIANTS TypeOK LiveSessionsAreActive SavesResume ArchiveIsConsistent NothingIsLost HealthyMirrorsPack EverySessionIsCounted SessionMatchesPresence ServesOnItsSchema
PROPERTIES LastOwnerRemains
CHECK_DEADLOCK FALSE
