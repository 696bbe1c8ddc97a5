SPECIFICATION Spec
CONSTANTS
  MaxPosts = 2
  MaxFaults = 1
  Faults <- BrokenConnections
  Absent = Absent
INVARIANT NotEmptiedBy302
