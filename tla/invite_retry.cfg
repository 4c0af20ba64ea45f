SPECIFICATION InvitationSpec
CONSTANTS
  Users = {"tutor", "mum", "dad"}
  Admins = {}
  Tutors = {"t"}
  Students = {"c1", "c2"}
  Subjects = {"maths"}
  UserOf <- MCUserOf
  ParentOf <- MCParentOf
  Teaches <- MCTeaches
  MatchIds = {1, 2}
  TutorOf <- MCTutorOf
  StudentOf <- MCStudentOf
  SubjectOf <- MCSubjectOf
  Capacities = {1}
  NoUser = NoUser
  Attempts = {a1, a2}
  IdemKeys = {"k"}
  Lifetime = 1
  MaxHour = 1
  Nothing = Nothing
SYMMETRY Symmetric
INVARIANTS ReplaysAgree ReplayIsOwn
