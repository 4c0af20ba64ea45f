SPECIFICATION AccountsSpec
CONSTANTS
  Slots = {s1, s2}
  Workers = {w1}
  Tokens = {t1, t2}
  Passwords = {p0, p1, p2}
  First = p0
  Second = 2
  TTL = 2
  CacheMax = 1
  HistoryLimit = 1
  MaxRows = 2
  MaxTime = 3
  None = None
SYMMETRY Symmetric
INVARIANTS SpentStaysSpent CacheIsSound OldSessionsAreLate HistoryIsRecentPast
