SPECIFICATION WindowSpec
CONSTANTS
  h1 = h1
  h2 = h2
  f = f
  Hrefs = {h1, h2, f}
  Ftp = {f}
  Grow = 1
  Shrink = 1
  MaxClicks = 3
  MaxPages = 3
  MaxKills = 1
  MaxRes = 3
  ErrorLine = ErrorLine
  NoLog = NoLog
  NoEnd = NoEnd
  Logs <- ThreadLogs
INVARIANTS
  WindowTypeOK
  PictureStands
  OnlyFtpRowsLackFiles
  PopupShowsResponses
PROPERTY SelectionKept
