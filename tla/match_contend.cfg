SPECIFICATION Spec
CONSTANTS
  Users = {"tutor", "mum", "dad", "admin"}
  Admins = {"admin"}
  Tutors = {"t"}
  Students = {"c1", "c2"}
  Subjects = {"maths"}
  UserOf <- MCUserOf
  ParentOf <- MCParentOf
  Teaches <- MCTeaches
  MatchIds = {1, 2, 3}
  TutorOf <- MCTutorOf
  StudentOf <- MCStudentOf
  SubjectOf <- MCSubjectOf
  Capacities = {1, 2}
  Asked = {"cancel", "accept"}
  NoUser = NoUser
  NoMatch = NoMatch
  Slots = {s1, s2}
SYMMETRY Symmetric
INVARIANTS LockOrder OneLiveMatch IndexNeverFires AuditIsTrue
PROPERTIES SeatTakenWithinCapacity
CONSTRAINT FewAdminWrites
