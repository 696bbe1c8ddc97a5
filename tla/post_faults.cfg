SPECIFICATION FairSpec
CONSTANTS
  m1 = m1
  m2 = m2
  Messages = {m1, m2}
  Faults <- AnyFault
  MaxFaults = 3
  MaxTerms = 2
INVARIANTS
  TypeOK
  NoDoublePost
PROPERTIES
  TermsSeenOrKilled
  ConsentKept
  Posted
CHECK_DEADLOCK FALSE
