SPECIFICATION Spec
CONSTANTS
  a = a
  b = b
  Threads = {a, b}
  Titles = {a, b}
  TitleOf <- OwnTitle
  Blank = Blank
  NoTitle = NoTitle
  Uses <- Bulks
  MaxPages = 2
  MaxReloads = 1
  MenuSize = 2
INVARIANT ClosedTabsRecorded
