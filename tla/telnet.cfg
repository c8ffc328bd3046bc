SPECIFICATION CFairSpec
CONSTANTS
  NoSql = NoSql
  Ele <- MCEle
  Before <- MCBefore
  f = f
  c1 = c1
  c2 = c2
  Client = {c1, c2}
  Letter = {f}
  Fresh = f
  Blank = Blank
  Enter = Enter
  Erase = Erase
  MaxRead = 2
  MaxLine = 2
INVARIANTS LoadedRight RowsOfOwnQuery ResultFreed OwnLine
PROPERTY LoadEnds
CHECK_DEADLOCK FALSE
