------------------------------ MODULE Students ------------------------------
(***************************************************************************)
(* The children of one parent and their exam records                       *)
(* (catalog/api/student_router.py, teaching's exams), beside the matches   *)
(* one tutor has with the children in one subject.                         *)
(***************************************************************************)
EXTENDS Naturals, FiniteSets

CONSTANTS
  Slots,         \* requests in flight at once
  StudentIds,    \* ids the sequence may hand out
  MaxStudents,   \* _MAX_STUDENTS_PER_PARENT
  ExamIds,
  NoExam, NoSlot

ASSUME StudentsAssumption ==
  /\ MaxStudents \in Nat /\ IsFiniteSet(Slots) /\ IsFiniteSet(StudentIds)
  /\ Slots # {} /\ NoSlot \notin Slots

VARIABLES
  students,      \* committed rows of students
  match,         \* of each child: "none", "open" (pending or paused), "live"
                 \* (active or trial) or "over" (the other four)
  exams,         \* committed rows of exams
  examLock,      \* owner of each exam row's lock
  pc, req

studentVars == <<students, match, exams, examLock, pc, req>>

-----------------------------------------------------------------------------
Roles == {"parent", "tutor"}

NoReq == [op |-> "none", as |-> "parent", student |-> NoSlot, exam |-> NoSlot,
          visible |-> FALSE, shown |-> {}]

Goto(s, where) == pc' = [pc EXCEPT ![s] = where]

Leave(s) ==
  /\ Goto(s, "idle")
  /\ req' = [req EXCEPT ![s] = NoReq]
  /\ examLock' = [e \in ExamIds |-> IF examLock[e] = s THEN NoSlot ELSE examLock[e]]

Ask(s, where, r) == Goto(s, where) /\ req' = [req EXCEPT ![s] = r] /\ UNCHANGED examLock

ExamsOf(i) == {e \in ExamIds : exams[e] # NoExam /\ exams[e].student = i}

\* list_by_student for the parent and an administrator,
\* list_by_student_for_tutor for the tutor.
Listed(as, i) ==
  {e \in ExamsOf(i) : /\ as = "parent" => exams[e].visible
                     /\ as = "tutor" => match[i] = "live"}

-----------------------------------------------------------------------------
StudentsInit ==
  /\ students = {}
  /\ match = [i \in StudentIds |-> "none"]
  /\ exams = [e \in ExamIds |-> NoExam]
  /\ examLock = [e \in ExamIds |-> NoSlot]
  /\ pc = [s \in Slots |-> "idle"]
  /\ req = [s \in Slots |-> NoReq]

\* Mutant of CountStudents: off by one.
CountStudentsLate(s) ==
  /\ pc[s] = "idle"
  /\ Cardinality(students) <= MaxStudents
  /\ Ask(s, "add", NoReq)
  /\ UNCHANGED <<students, match, exams>>

\* add_student: the cap is checked in one statement ...
CountStudents(s) ==
  /\ pc[s] = "idle"
  /\ Cardinality(students) < MaxStudents
  /\ Ask(s, "add", NoReq)
  /\ UNCHANGED <<students, match, exams>>

\* ... and the row inserted in another.
AddStudent(s) ==
  /\ pc[s] = "add"
  /\ \E i \in StudentIds \ students : students' = students \cup {i}
  /\ Leave(s)
  /\ UNCHANGED <<match, exams>>

\* delete_student finds the parent's row ...
FindStudent(s, i) ==
  /\ pc[s] = "idle" /\ i \in students
  /\ Ask(s, "remove", [NoReq EXCEPT !.op = "remove", !.student = i])
  /\ UNCHANGED <<students, match, exams>>

\* Mutant of DeleteStudent: the exams' foreign key does not cascade.
DeleteStudentOnly(s) ==
  /\ pc[s] = "remove"
  /\ match[req[s].student] = "none"
  /\ students' = students \ {req[s].student}
  /\ Leave(s)
  /\ UNCHANGED <<match, exams>>

\* ... and deletes it: a match forbids that (RESTRICT), exams go with it
\* (CASCADE), after whoever holds one of them.
DeleteStudent(s) ==
  /\ pc[s] = "remove"
  /\ LET i == req[s].student
     IN \/ match[i] # "none" /\ UNCHANGED <<students, exams>>
        \/ /\ match[i] = "none"
           /\ \A e \in ExamsOf(i) : examLock[e] = NoSlot
           /\ students' = students \ {i}
           /\ exams' = [e \in ExamIds |-> IF e \in ExamsOf(i) THEN NoExam ELSE exams[e]]
  /\ Leave(s)
  /\ UNCHANGED match

-----------------------------------------------------------------------------
\* create_exam: the child is read, then a tutor's match in the subject.
CheckExam(s, as, i, v) ==
  /\ pc[s] = "idle" /\ i \in students
  /\ as = "tutor" => match[i] = "live"
  /\ Ask(s, "exam", [NoReq EXCEPT !.op = "exam", !.as = as, !.student = i, !.visible = v])
  /\ UNCHANGED <<students, match, exams>>

\* INSERT: refused by the foreign key when the child is gone.
CreateExam(s) ==
  /\ pc[s] = "exam"
  /\ \/ req[s].student \notin students /\ UNCHANGED exams
     \/ /\ req[s].student \in students
        /\ \E e \in {x \in ExamIds : exams[x] = NoExam} :
             exams' = [exams EXCEPT ![e] =
                         [student |-> req[s].student, by |-> req[s].as,
                          visible |-> req[s].visible]]
  /\ Leave(s)
  /\ UNCHANGED <<students, match>>

\* update_exam and delete_exam: the row under its lock, its author only.
LockExam(s, as, e, op, v) ==
  /\ pc[s] = "idle"
  /\ exams[e] # NoExam /\ examLock[e] = NoSlot /\ exams[e].by = as
  /\ examLock' = [examLock EXCEPT ![e] = s]
  /\ req' = [req EXCEPT ![s] =
               [NoReq EXCEPT !.op = op, !.as = as, !.exam = e, !.visible = v]]
  /\ Goto(s, "write")
  /\ UNCHANGED <<students, match, exams>>

WriteExam(s) ==
  /\ pc[s] = "write"
  /\ \/ /\ req[s].op = "update"
        /\ exams' = [exams EXCEPT ![req[s].exam].visible = req[s].visible]
     \/ /\ req[s].op = "delete"
        /\ exams' = [exams EXCEPT ![req[s].exam] = NoExam]
  /\ Leave(s)
  /\ UNCHANGED <<students, match>>

\* list_exams: leave to look, then the list.
CheckReader(s, as, i) ==
  /\ pc[s] = "idle" /\ i \in students
  /\ as = "tutor" => match[i] = "live"
  /\ Ask(s, "list", [NoReq EXCEPT !.op = "list", !.as = as, !.student = i])
  /\ UNCHANGED <<students, match, exams>>

ListExams(s) ==
  /\ pc[s] = "list"
  /\ Ask(s, "shown", [req[s] EXCEPT !.shown = Listed(req[s].as, req[s].student)])
  /\ UNCHANGED <<students, match, exams>>

Answer(s) ==
  /\ pc[s] = "shown"
  /\ Leave(s)
  /\ UNCHANGED <<students, match, exams>>

-----------------------------------------------------------------------------
\* Matching: a match with a child is made, is agreed or resumed, and ends.
MakeMatch(i) ==
  /\ i \in students /\ match[i] = "none"
  /\ match' = [match EXCEPT ![i] = "open"]
  /\ UNCHANGED <<students, exams, examLock, pc, req>>

MoveMatch(i) ==
  /\ \/ match[i] = "open" /\ match' = [match EXCEPT ![i] = "live"]
     \/ match[i] \in {"open", "live"} /\ match' = [match EXCEPT ![i] = "over"]
  /\ UNCHANGED <<students, exams, examLock, pc, req>>

StudentsNext ==
  \/ \E s \in Slots :
       \/ CountStudents(s) \/ AddStudent(s) \/ DeleteStudent(s)
       \/ CreateExam(s) \/ WriteExam(s) \/ ListExams(s) \/ Answer(s)
       \/ \E i \in StudentIds :
            \/ FindStudent(s, i)
            \/ \E as \in Roles \cup {"admin"} : CheckReader(s, as, i)
            \/ \E as \in Roles, v \in BOOLEAN : CheckExam(s, as, i, v)
       \/ \E e \in ExamIds, as \in Roles, op \in {"update", "delete"}, v \in BOOLEAN :
            LockExam(s, as, e, op, v)
  \/ \E i \in StudentIds : MakeMatch(i) \/ MoveMatch(i)

StudentsSpec == StudentsInit /\ [][StudentsNext]_studentVars

-----------------------------------------------------------------------------
\* The cap on a parent's children, counted and then used in two statements,
\* is passed by no more than the other requests in flight
\* (student_router.py:52-59).
CapNearlyKept == Cardinality(students) <= MaxStudents + Cardinality(Slots) - 1

\* No exam and no match is left without its child, whatever was deleted
\* between a check and its INSERT (init_db.py:120-201).
NothingOrphaned ==
  /\ \A e \in ExamIds : exams[e] # NoExam => exams[e].student \in students
  /\ \A i \in StudentIds : match[i] # "none" => i \in students
=============================================================================
