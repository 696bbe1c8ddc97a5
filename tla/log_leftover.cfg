SPECIFICATION Spec
CONSTANTS
  MaxPosts = 2
  MaxFaults = 1
  Faults <- Kills
  Absent = Absent
INVARIANT UpdatedPartAdded
