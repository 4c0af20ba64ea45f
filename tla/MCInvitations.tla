---------------------------- MODULE MCInvitations ---------------------------
(* Small instances of Invitations: one tutor; ids 1 and 2 are two invitations *)
(* of mum for the same target, id 3 is one of dad.                            *)
EXTENDS Invitations, TLC

MCUserOf == [t \in Tutors |-> "tutor"]
MCParentOf == [c \in Students |-> IF c = "c1" THEN "mum" ELSE "dad"]
MCTeaches == Tutors \X Subjects
MCTutorOf == [m \in MatchIds |-> "t"]
MCStudentOf == [m \in MatchIds |-> IF m \in {1, 2} THEN "c1" ELSE "c2"]
MCSubjectOf == [m \in MatchIds |-> "maths"]

Symmetric == Permutations(Attempts)
=============================================================================
