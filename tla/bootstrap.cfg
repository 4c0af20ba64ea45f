SPECIFICATION MCSpec
CONSTANTS
  Slots = {s1, s2}
  Ids = {1, 2, 3}
  Callers = {1, 2}
  Tokens = {k1}
  Rows = {r1}
  Needed = 1
  NoUser = NoUser
  NoRow = NoRow
  NoToken = NoToken
  NoId = NoId
  Workers = {w1, w2}
  MaxBoots = 2
  NoWorker = NoWorker
SYMMETRY Symmetric
INVARIANTS
  OneUsePerToken
  NoRowWithoutUser
  AdminRemains
  BootsSucceed
PROPERTY ResetKeepsCaller
CHECK_DEADLOCK FALSE
