SPECIFICATION FairSpec
CONSTANTS
  MaxPosts = 3
  MaxFaults = 3
  Faults <- BrokenConnections
  Absent = Absent
INVARIANTS
  HonestHeader
  LogIsPrefix
PROPERTIES
  CatchesUp
  MirrorsThread
