SPECIFICATION Spec
SYMMETRY Interchangeable
CONSTANTS
  a = a
  b = b
  Threads = {a, b}
  Titles = {a, b}
  TitleOf <- OwnTitle
  Blank = Blank
  NoTitle = NoTitle
  Uses <- OneByOne
  MaxPages = 2
  MaxReloads = 2
  MenuSize = 2
INVARIANTS
  TabsKnown
  ClosedTabsRecorded
  ReplyTargetRight
PROPERTIES
  SessionRestored
