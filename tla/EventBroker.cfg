CONSTANTS
  Publishers = {p1, p2}
  Streams = {s1, s2, s3}
  MaxStreams = 2
  QueueSize = 1
  Page = 1
  Retain = 2
  MaxEvents = 2
SYMMETRY Symmetry
SPECIFICATION FairSpec
INVARIANTS NothingLeaks LiveIsExactlyOnce
PROPERTIES SlotComesBack
