SPECIFICATION FairReviewSpec
CONSTANTS
  Users = {"tutor", "mum"}
  Matches = {"m"}
  TutorUser <- MCTutorUser
  ParentUser <- MCParentUser
  SessionIds = {1}
  Fields = {"homework"}
  Values = {0}
  MaxEdits = 0
  NoRow = NoRow
  NoSlot = NoSlot
  NoReview = NoReview
  Task = Task
  Off = Off
  Returning = Returning
  Slots = {s1}
  Writers = {w1}
  Types = {"parent_to_tutor"}
  Axes = {1}
  LockDays = 1
  MaxDay = 2
PROPERTIES ExpiredGetsLocked
CHECK_DEADLOCK FALSE
