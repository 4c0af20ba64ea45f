SPECIFICATION CatalogueSpec
CONSTANTS
  Slots = {s1, s2}
  StudentIds = {1, 2, 3}
  MaxStudents = 1
  ExamIds = {e1}
  NoExam = NoExam
  NoSlot = NoSlot
  Tables = {"subjects", "hours"}
  Writers = {w1, w2}
  Items = {1, 2}
  MaxLists = 3
  MaxItems = 2
  NoTable = NoTable
  Tutors = {1, 2, 3}
  Rates = {0, 1}
  Ratings = {0, 1}
  PerPage = 2
  MaxMoves = 1
INVARIANTS
  CapNearlyKept
  NothingOrphaned
  ListsAreWhole
  OneListUnlessCrossed
  WalkShowsEach
CHECK_DEADLOCK FALSE
