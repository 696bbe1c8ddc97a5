SPECIFICATION Spec
SYMMETRY Interchangeable
CONSTANTS
  a = a
  b = b
  Threads = {a, b}
  Titles = {a, b}
  TitleOf <- OwnTitle
  Blank = Blank
  NoTitle = NoTitle
  Uses <- ManyTabs
  MaxPages = 3
  MaxReloads = 0
  MenuSize = 1
INVARIANTS
  TypeOK
  PageShowsItsThread
  TreeFresh
  BulkCloseExact
