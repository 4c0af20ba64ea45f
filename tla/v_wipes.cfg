SPECIFICATION BootstrapSpec
CONSTANTS
  Slots = {s1}
  Ids = {1, 2}
  Callers = {1, 2}
  Tokens = {k1, k2}
  Rows = {r1}
  Needed = 1
  NoUser = NoUser
  NoRow = NoRow
  NoToken = NoToken
  NoId = NoId
  Workers = {w1}
  MaxBoots = 0
  NoWorker = NoWorker
INVARIANT OneWipePerWindow
