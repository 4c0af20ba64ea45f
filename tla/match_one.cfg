SPECIFICATION FairSpec
CONSTANTS
  Users = {"tutor", "mum"}
  Admins = {}
  Tutors = {"t"}
  Students = {"c1"}
  Subjects = {"maths"}
  UserOf <- MCUserOf
  ParentOf <- MCParentOf
  Teaches <- MCTeaches
  MatchIds = {1}
  TutorOf <- MCTutorOf
  StudentOf <- MCStudentOf
  SubjectOf <- MCSubjectOf
  Capacities = {1, 2}
  Asked = {"cancel", "reject", "accept", "confirm_trial", "reject_trial", "pause", "resume", "terminate", "agree_terminate", "disagree_terminate"}
  NoUser = NoUser
  NoMatch = NoMatch
  Slots = {s1, s2}
INVARIANTS TypeOK SeenIsCurrent
PROPERTIES AtomicLifecycle EndedByAnother RequestsFinish
