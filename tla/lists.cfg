SPECIFICATION FairSpec
CONSTANTS
  a = a
  b = b
  ta = ta
  tb = tb
  Boards = {a, b}
  Threads = {ta, tb}
  BoardOf <- Home
  Subjects <- Lists
  Full = 4
  Read = {ta}
  Faults = {"timeout", "busy", "kill"}
  MaxFaults = 2
  Absent = Absent
INVARIANTS
  TypeOK
PROPERTIES
  DropMeansGone
  ComparedWithScreen
  PlusMeansNews
  ListSeen
  NewsNoticed
