SPECIFICATION Spec
CONSTANTS
  MaxPosts = 3
  MaxFaults = 3
  Faults <- AllFaults
  Absent = Absent
INVARIANTS
  TypeOK
  SizeKnown
  DatMatchesSjis
  UpdateKeepsLog
  PartStored
  ArchiveWins
