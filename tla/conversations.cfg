SPECIFICATION FairConversationsSpec
CONSTANTS
  Slots = {s1, s2}
  ConvIds = {c1, c2}
  MaxMessages = 3
  PageSize = 2
  MaxTime = 2
  None = None
INVARIANTS OneConversation WalkIsWhole
PROPERTIES ContactsAnswered
