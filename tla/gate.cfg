SPECIFICATION GateSpec
CONSTANTS
  Slots = {s1, s2, s3}
  Workers = {w1, w2}
  Users = {u}
  Anonymous = Anonymous
  Keys = {k}
  MaxHits = 1
  Window = 3
  Quota = 1
  PoolMax = 4
  RlPoolMax = 1
  Patience = 1
  MaxTime = 4
  NoSlot = NoSlot
SYMMETRY Symmetric
INVARIANTS QuotaIsInFlight CallerTakesAtMost WindowHolds
