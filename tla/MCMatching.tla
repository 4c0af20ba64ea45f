----------------------------- MODULE MCMatching -----------------------------
(* Small instances of Matching: one or two tutors, two children of two       *)
(* parents.  Ids 1 and 2 are two invitations for the same target, so that a  *)
(* second one can follow, or race with, the end of the first.                *)
EXTENDS Matching, TLC

MCUserOf == [t \in Tutors |-> "tutor"]
MCParentOf == [c \in Students |-> IF c = "c1" THEN "mum" ELSE "dad"]
MCTeaches == Tutors \X Subjects
MCTutorOf == [m \in MatchIds |-> "t"]
MCStudentOf == [m \in MatchIds |-> IF m \in {1, 2} THEN "c1" ELSE "c2"]
MCSubjectOf == [m \in MatchIds |-> "maths"]

Symmetric == Permutations(Slots)

\* Bound: behaviours go on until admins have committed two different transitions.
FewAdminWrites == Cardinality(adminWrites) < 2
=============================================================================
