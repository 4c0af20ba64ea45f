SPECIFICATION TeachingSpec
CONSTANTS
  Users = {"tutor", "mum"}
  Matches = {"m"}
  TutorUser <- MCTutorUser
  ParentUser <- MCParentUser
  SessionIds = {1}
  Fields = {"hours", "homework"}
  Values = {4, 1005}
  MaxEdits = 1
  NoRow = NoRow
  NoSlot = NoSlot
  NoReview = NoReview
  Task = Task
  Off = Off
  Returning = Returning
  Slots = {s1, s2}
  Writers = {w1, w2}
  Types = {"parent_to_tutor"}
  Axes = {1}
  LockDays = 1
  MaxDay = 2
SYMMETRY Symmetric
INVARIANTS EditTrail SeenIsCurrent JudgedAsWritten ReviewedMatchEnded
PROPERTIES LockedIsFinal ChangedUnderLock
CHECK_DEADLOCK FALSE
