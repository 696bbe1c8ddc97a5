SPECIFICATION Spec
CONSTANTS
  a = a
  b = b
  Threads = {a, b}
  Titles = {a, b}
  TitleOf <- OwnTitle
  Blank = Blank
  NoTitle = NoTitle
  Uses <- Replies
  MaxPages = 2
  MaxReloads = 1
  MenuSize = 2
INVARIANT PageShowsItsThread
