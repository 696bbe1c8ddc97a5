SPECIFICATION FairSpec
CONSTANTS
  news = news
  newsMoved = newsMoved
  live = live
  game = game
  own = own
  newsName = newsName
  liveName = liveName
  gameName = gameName
  ownName = ownName
  c1 = c1
  c2 = c2
  other = other
  Boards <- AllBoards
  Names <- AllNames
  NameOf <- Named
  Categories = {c1, c2, other}
  Excluded = {other}
  Menus <- TwoMenus
  OutsideRows <- OwnRow
  Keywords <- TwoKeywords
  Faults <- AllFaults
  MaxFaults = 2
  MaxOutside = 1
  Absent = Absent
  Blank = Blank
INVARIANTS
  TypeOK
  TreeOpensBoards
  DateMatchesPage
  NoHalfList
PROPERTIES
  SearchFindsCategories
  BoardsCatchUp
