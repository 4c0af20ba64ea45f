------------------------- MODULE CatalogueProofs --------------------------
(***************************************************************************)
(* Proofs about modules Students, TutorLists and TutorSearch, for every    *)
(* number of requests, children, exams, lists and tutors.                  *)
(***************************************************************************)
EXTENDS Students, TutorLists, TutorSearch, FiniteSetTheorems, SequenceTheorems, TLAPS

-----------------------------------------------------------------------------
(***************************************************************************)
(* Module Students: the cap on children, and that nothing is orphaned.      *)
(***************************************************************************)

-----------------------------------------------------------------------------
(* The invariant *)

ExamRow == [student : StudentIds, by : Roles, visible : BOOLEAN]

\* The requests that have counted the children and not yet inserted one.
Adding == {s \in Slots : pc[s] = "add"}

Asked ==
  [op : {"none", "remove", "exam", "update", "delete", "list"},
   as : Roles \cup {"admin"}, student : StudentIds \cup {NoSlot},
   exam : ExamIds \cup {NoSlot}, visible : BOOLEAN, shown : SUBSET ExamIds]

\* Rows have their types, and requests name a child and an exam that exist or
\* existed.
ChildrenOK ==
  /\ students \subseteq StudentIds
  /\ match \in [StudentIds -> {"none", "open", "live", "over"}]
  /\ exams \in [ExamIds -> ExamRow \cup {NoExam}]
  /\ examLock \in [ExamIds -> Slots \cup {NoSlot}]
  /\ pc \in [Slots -> {"idle", "add", "remove", "exam", "write", "list", "shown"}]
  /\ req \in [Slots -> Asked]

\* What a request under way knows: an insertion has its author, and a write its row, under lock.
RequestsOK ==
  \A s \in Slots :
    /\ pc[s] = "exam" => req[s].as \in Roles
    /\ pc[s] = "remove" => req[s].student \in StudentIds
    /\ pc[s] = "write" =>
         /\ req[s].exam \in ExamIds
         /\ examLock[req[s].exam] = s
         /\ exams[req[s].exam] # NoExam

\* Every child counted below the cap leaves room for itself.
RoomLeft ==
  Cardinality(students) + Cardinality(Adding) <= MaxStudents + Cardinality(Slots) - 1

ChildrenInv == ChildrenOK /\ RequestsOK /\ NothingOrphaned /\ RoomLeft

LEMMA NoReqAsked == NoReq \in Asked /\ NoReq.as = "parent"
BY DEF NoReq, Asked, Roles

\* Slots and children are few enough to count, whoever is being added.
LEMMA Countable ==
  ASSUME ChildrenOK
  PROVE  /\ IsFiniteSet(students) /\ Cardinality(students) \in Nat
         /\ IsFiniteSet(Adding) /\ Cardinality(Adding) \in Nat
         /\ Cardinality(Slots) \in Nat /\ Cardinality(Adding) <= Cardinality(Slots)
         /\ Cardinality(Slots) # 0
<1>1. students \in SUBSET StudentIds /\ Adding \in SUBSET Slots
  BY DEF ChildrenOK, Adding
<1>2. QED
  BY <1>1, StudentsAssumption, FS_Subset, FS_CardinalityType, FS_EmptySet

LEMMA InitChildrenInv == StudentsInit => ChildrenInv
<1> SUFFICES ASSUME StudentsInit PROVE ChildrenInv
  OBVIOUS
<1> USE StudentsAssumption DEF StudentsInit
<1>1. ChildrenOK
  BY NoReqAsked DEF ChildrenOK
<1>2. RequestsOK /\ NothingOrphaned
  BY DEF RequestsOK, NothingOrphaned
<1>3. RoomLeft
  <2>1. Adding = {}
    BY DEF Adding
  <2>2. QED BY <1>1, <2>1, Countable, FS_EmptySet DEF RoomLeft
<1>4. QED BY <1>1, <1>2, <1>3 DEF ChildrenInv

-----------------------------------------------------------------------------
(* The steps *)

\* A request that leaves gives up its locks, and nobody else's.
LEMMA LeaveKeeps ==
  ASSUME ChildrenOK, RequestsOK, NEW s \in Slots, Leave(s)
  PROVE  /\ examLock' \in [ExamIds -> Slots \cup {NoSlot}]
         /\ req' \in [Slots -> Asked]
         /\ pc' \in [Slots -> {"idle", "add", "remove", "exam", "write", "list", "shown"}]
         /\ Adding' = Adding \ {s}
         /\ \A o \in Slots : o # s => req'[o] = req[o] /\ pc'[o] = pc[o]
         /\ pc'[s] = "idle"
         /\ \A e \in ExamIds : examLock[e] # s => examLock'[e] = examLock[e]
BY NoReqAsked DEF Leave, Goto, ChildrenOK, Adding

LEMMA CountStudentsKeeps ==
  ASSUME ChildrenInv, NEW s \in Slots, CountStudents(s)
  PROVE  ChildrenInv'
<1> USE StudentsAssumption DEF ChildrenInv, CountStudents, Ask, Goto
<1>1. ChildrenOK'
  BY NoReqAsked DEF ChildrenOK
<1>2. RequestsOK'
  BY DEF RequestsOK, ChildrenOK
<1>3. NothingOrphaned'
  BY DEF NothingOrphaned
<1>4. RoomLeft'
  <2>1. Adding' = Adding \cup {s} /\ s \notin Adding
    BY DEF Adding, ChildrenOK
  <2>2. Cardinality(Adding') = Cardinality(Adding) + 1
    BY <2>1, Countable, FS_AddElement
  <2>3. Cardinality(Adding') <= Cardinality(Slots)
    <3>1. Adding' \in SUBSET Slots
      BY DEF Adding
    <3>2. QED BY <3>1, FS_Subset
  <2>4. QED BY <2>2, <2>3, Countable DEF RoomLeft
<1>5. QED BY <1>1, <1>2, <1>3, <1>4

LEMMA AddStudentKeeps ==
  ASSUME ChildrenInv, NEW s \in Slots, AddStudent(s)
  PROVE  ChildrenInv'
<1> USE StudentsAssumption DEF ChildrenInv, AddStudent
<1>1. PICK i \in StudentIds \ students : students' = students \cup {i}
  OBVIOUS
<1>2. ChildrenOK'
  BY <1>1, LeaveKeeps DEF ChildrenOK
<1>3. RequestsOK'
  BY LeaveKeeps DEF RequestsOK, ChildrenOK
<1>4. NothingOrphaned'
  BY <1>1 DEF NothingOrphaned
<1>5. RoomLeft'
  <2>1. Adding' = Adding \ {s} /\ s \in Adding
    BY LeaveKeeps DEF Adding
  <2>2. Cardinality(Adding') = Cardinality(Adding) - 1
    BY <2>1, Countable, FS_RemoveElement
  <2>3. Cardinality(students') = Cardinality(students) + 1
    BY <1>1, Countable, FS_AddElement
  <2>4. QED BY <2>2, <2>3, Countable DEF RoomLeft
<1>6. QED BY <1>2, <1>3, <1>4, <1>5

\* A step of a request that adds no child leaves the others' room alone.
LEMMA RoomKept ==
  ASSUME ChildrenOK, RoomLeft, Adding' = Adding, students' \subseteq students
  PROVE  RoomLeft'
<1>1. students' \in SUBSET students
  OBVIOUS
<1>2. Cardinality(students') <= Cardinality(students) /\ Cardinality(students') \in Nat
  BY <1>1, Countable, FS_Subset, FS_CardinalityType
<1>3. QED BY <1>2, Countable, StudentsAssumption DEF RoomLeft

LEMMA FindStudentKeeps ==
  ASSUME ChildrenInv, NEW s \in Slots, NEW i \in StudentIds, FindStudent(s, i)
  PROVE  ChildrenInv'
<1> DEFINE r == [NoReq EXCEPT !.op = "remove", !.student = i]
<1> USE DEF ChildrenInv, FindStudent, Ask, Goto
<1>1. r \in Asked /\ r.student = i
  BY NoReqAsked DEF Asked
<1> HIDE DEF r
<1>2. ChildrenOK'
  BY <1>1 DEF ChildrenOK, r
<1>3. RequestsOK'
  BY <1>1 DEF RequestsOK, ChildrenOK, r
<1>4. NothingOrphaned'
  BY DEF NothingOrphaned
<1>5. Adding' = Adding
  BY DEF Adding, ChildrenOK
<1>6. QED BY <1>2, <1>3, <1>4, <1>5, RoomKept

LEMMA DeleteStudentKeeps ==
  ASSUME ChildrenInv, NEW s \in Slots, DeleteStudent(s)
  PROVE  ChildrenInv'
<1> DEFINE i == req[s].student
<1> USE StudentsAssumption DEF ChildrenInv
<1>0. Leave(s) /\ pc[s] = "remove" /\ match' = match /\ i \in StudentIds
  BY DEF DeleteStudent, RequestsOK
<1>1. Adding' = Adding /\ students' \subseteq students
  BY <1>0, LeaveKeeps DEF DeleteStudent, Adding
<1>2. CASE match[i] # "none" /\ UNCHANGED <<students, exams>>
  <2>1. ChildrenOK'
    BY <1>0, <1>2, LeaveKeeps DEF ChildrenOK
  <2>2. RequestsOK'
    BY <1>0, <1>2, LeaveKeeps DEF RequestsOK, ChildrenOK
  <2>3. NothingOrphaned'
    BY <1>0, <1>2 DEF NothingOrphaned
  <2>4. QED BY <1>1, <2>1, <2>2, <2>3, RoomKept
<1>3. CASE /\ match[i] = "none"
           /\ \A e \in ExamsOf(i) : examLock[e] = NoSlot
           /\ students' = students \ {i}
           /\ exams' = [e \in ExamIds |-> IF e \in ExamsOf(i) THEN NoExam ELSE exams[e]]
  <2>1. ChildrenOK'
    BY <1>0, <1>3, LeaveKeeps DEF ChildrenOK
  <2>2. RequestsOK'
    <3> SUFFICES ASSUME NEW o \in Slots, o # s,
                        pc[o] = "write"
                 PROVE  /\ examLock'[req[o].exam] = o
                        /\ exams'[req[o].exam] # NoExam
      BY <1>0, LeaveKeeps DEF RequestsOK
    <3>1. req[o].exam \in ExamIds /\ examLock[req[o].exam] = o /\ exams[req[o].exam] # NoExam
      BY DEF RequestsOK
    <3>2. req[o].exam \notin ExamsOf(i)
      BY <1>3, <3>1
    <3>3. QED BY <1>0, <1>3, <3>1, <3>2, LeaveKeeps
  <2>3. NothingOrphaned'
    BY <1>0, <1>3 DEF NothingOrphaned, ExamsOf, ChildrenOK
  <2>4. QED BY <1>1, <2>1, <2>2, <2>3, RoomKept
<1>4. QED BY <1>2, <1>3 DEF DeleteStudent

LEMMA CheckExamKeeps ==
  ASSUME ChildrenInv, NEW s \in Slots, NEW i \in StudentIds, NEW as \in Roles,
         NEW v \in BOOLEAN, CheckExam(s, as, i, v)
  PROVE  ChildrenInv'
<1> DEFINE r == [NoReq EXCEPT !.op = "exam", !.as = as, !.student = i, !.visible = v]
<1> USE DEF ChildrenInv, CheckExam, Ask, Goto
<1>1. r \in Asked /\ r.student = i /\ r.as = as
  BY NoReqAsked DEF Asked
<1> HIDE DEF r
<1>2. ChildrenOK'
  BY <1>1 DEF ChildrenOK, r
<1>3. RequestsOK'
  BY <1>1 DEF RequestsOK, ChildrenOK, r
<1>4. NothingOrphaned'
  BY DEF NothingOrphaned
<1>5. Adding' = Adding
  BY DEF Adding, ChildrenOK
<1>6. QED BY <1>2, <1>3, <1>4, <1>5, RoomKept

LEMMA CreateExamKeeps ==
  ASSUME ChildrenInv, NEW s \in Slots, CreateExam(s)
  PROVE  ChildrenInv'
<1> USE StudentsAssumption DEF ChildrenInv
<1>0. Leave(s) /\ pc[s] = "exam" /\ UNCHANGED <<students, match>> /\ req[s] \in Asked
  BY DEF CreateExam, ChildrenOK
<1>1. Adding' = Adding
  BY <1>0, LeaveKeeps DEF Adding
<1>2. CASE UNCHANGED exams
  <2>1. ChildrenOK'
    BY <1>0, <1>2, LeaveKeeps DEF ChildrenOK
  <2>2. RequestsOK'
    BY <1>0, <1>2, LeaveKeeps DEF RequestsOK, ChildrenOK
  <2>3. NothingOrphaned'
    BY <1>0, <1>2 DEF NothingOrphaned
  <2>4. QED BY <1>0, <1>1, <2>1, <2>2, <2>3, RoomKept
<1>3. ASSUME req[s].student \in students, NEW e \in ExamIds, exams[e] = NoExam,
             exams' = [exams EXCEPT ![e] = [student |-> req[s].student, by |-> req[s].as,
                                            visible |-> req[s].visible]]
      PROVE  ChildrenInv'
  <2> DEFINE row == [student |-> req[s].student, by |-> req[s].as, visible |-> req[s].visible]
  <2>1. row \in ExamRow /\ row.student \in students
    <3>1. req[s].as \in Roles /\ req[s].visible \in BOOLEAN /\ req[s].student \in StudentIds
      BY <1>0, <1>3 DEF RequestsOK, Asked, ChildrenOK
    <3>2. QED BY <1>3, <3>1 DEF ExamRow
  <2> HIDE DEF row
  <2>2. exams' = [exams EXCEPT ![e] = row]
    BY <1>3 DEF row
  <2>3. ChildrenOK'
    BY <1>0, <2>1, <2>2, LeaveKeeps DEF ChildrenOK
  <2>4. RequestsOK'
    <3> SUFFICES ASSUME NEW o \in Slots, o # s, pc[o] = "write"
                 PROVE  /\ examLock'[req[o].exam] = o
                        /\ exams'[req[o].exam] # NoExam
      BY <1>0, LeaveKeeps DEF RequestsOK
    <3>1. /\ req[o].exam \in ExamIds /\ examLock[req[o].exam] = o
          /\ exams[req[o].exam] # NoExam /\ exams \in [ExamIds -> ExamRow \cup {NoExam}]
      BY DEF RequestsOK, ChildrenOK
    <3>2. req[o].exam # e
      BY <1>3, <3>1
    <3>3. QED BY <1>0, <2>2, <3>1, <3>2, LeaveKeeps
  <2>5. NothingOrphaned'
    BY <1>0, <2>1, <2>2 DEF NothingOrphaned, ChildrenOK
  <2>6. QED BY <1>0, <1>1, <2>3, <2>4, <2>5, RoomKept
<1>4. QED BY <1>2, <1>3 DEF CreateExam

LEMMA LockExamKeeps ==
  ASSUME ChildrenInv, NEW s \in Slots, NEW e \in ExamIds, NEW as \in Roles,
         NEW op \in {"update", "delete"}, NEW v \in BOOLEAN, LockExam(s, as, e, op, v)
  PROVE  ChildrenInv'
<1> DEFINE r == [NoReq EXCEPT !.op = op, !.as = as, !.exam = e, !.visible = v]
<1> USE StudentsAssumption DEF ChildrenInv, LockExam, Goto
<1>1. r \in Asked /\ r.exam = e
  BY NoReqAsked DEF Asked
<1> HIDE DEF r
<1>2. ChildrenOK'
  BY <1>1 DEF ChildrenOK, r
<1>3. RequestsOK'
  BY <1>1 DEF RequestsOK, ChildrenOK, r
<1>4. NothingOrphaned'
  BY DEF NothingOrphaned
<1>5. Adding' = Adding
  BY DEF Adding, ChildrenOK
<1>6. QED BY <1>2, <1>3, <1>4, <1>5, RoomKept

LEMMA WriteExamKeeps ==
  ASSUME ChildrenInv, NEW s \in Slots, WriteExam(s)
  PROVE  ChildrenInv'
<1> DEFINE e == req[s].exam
<1> USE StudentsAssumption DEF ChildrenInv
<1>0. /\ Leave(s) /\ pc[s] = "write" /\ UNCHANGED <<students, match>>
      /\ req[s] \in Asked /\ e \in ExamIds /\ examLock[e] = s
      /\ exams[e] \in ExamRow /\ exams[e] # NoExam
  <2>1. Leave(s) /\ pc[s] = "write" /\ UNCHANGED <<students, match>>
    BY DEF WriteExam
  <2>2. req[s] \in Asked
    BY DEF ChildrenOK
  <2>3. e \in ExamIds /\ examLock[e] = s /\ exams[e] # NoExam
    BY <2>1 DEF RequestsOK
  <2>4. QED BY <2>1, <2>2, <2>3 DEF ChildrenOK
<1>1. Adding' = Adding
  BY <1>0, LeaveKeeps DEF Adding
<1>2. /\ exams' \in [ExamIds -> ExamRow \cup {NoExam}]
      /\ exams'[e] # NoExam => exams'[e].student = exams[e].student
      /\ \A x \in ExamIds : x # e => exams'[x] = exams[x]
  <2>1. CASE exams' = [exams EXCEPT ![e] = NoExam]
    BY <1>0, <2>1 DEF ChildrenOK
  <2>2. CASE exams' = [exams EXCEPT ![e].visible = req[s].visible]
    <3>1. req[s].visible \in BOOLEAN
      BY <1>0 DEF Asked
    <3>2. [exams[e] EXCEPT !.visible = req[s].visible] \in ExamRow
      BY <1>0, <3>1 DEF ExamRow
    <3>3. [exams[e] EXCEPT !.visible = req[s].visible].student = exams[e].student
      BY <1>0 DEF ExamRow
    <3>4. QED BY <1>0, <2>2, <3>2, <3>3 DEF ChildrenOK
  <2>3. QED BY <2>1, <2>2 DEF WriteExam
<1>3. ChildrenOK'
  BY <1>0, <1>2, LeaveKeeps DEF ChildrenOK
<1>4. RequestsOK'
  <2> SUFFICES ASSUME NEW o \in Slots, o # s, pc[o] = "write"
               PROVE  /\ examLock'[req[o].exam] = o
                      /\ exams'[req[o].exam] # NoExam
    BY <1>0, LeaveKeeps DEF RequestsOK
  <2>1. /\ req[o].exam \in ExamIds /\ examLock[req[o].exam] = o
        /\ exams[req[o].exam] # NoExam
    BY DEF RequestsOK
  <2>2. QED BY <1>0, <1>2, <2>1, LeaveKeeps
<1>5. NothingOrphaned'
  BY <1>0, <1>2 DEF NothingOrphaned, ChildrenOK
<1>6. QED BY <1>0, <1>1, <1>3, <1>4, <1>5, RoomKept

LEMMA CheckReaderKeeps ==
  ASSUME ChildrenInv, NEW s \in Slots, NEW i \in StudentIds,
         NEW as \in Roles \cup {"admin"}, CheckReader(s, as, i)
  PROVE  ChildrenInv'
<1> DEFINE r == [NoReq EXCEPT !.op = "list", !.as = as, !.student = i]
<1> USE DEF ChildrenInv, CheckReader, Ask, Goto
<1>1. r \in Asked
  BY NoReqAsked DEF Asked
<1> HIDE DEF r
<1>2. ChildrenOK'
  BY <1>1 DEF ChildrenOK, r
<1>3. RequestsOK' /\ NothingOrphaned'
  BY DEF RequestsOK, ChildrenOK, NothingOrphaned
<1>5. Adding' = Adding
  BY DEF Adding, ChildrenOK
<1>6. QED BY <1>2, <1>3, <1>5, RoomKept

LEMMA ListExamsKeeps ==
  ASSUME ChildrenInv, NEW s \in Slots, ListExams(s)
  PROVE  ChildrenInv'
<1> DEFINE seen == Listed(req[s].as, req[s].student)
           r == [req[s] EXCEPT !.shown = seen]
<1> USE DEF ChildrenInv, ListExams, Ask, Goto
<1>1. r \in Asked
  <2>1. seen \in SUBSET ExamIds /\ req[s] \in Asked
    BY DEF Listed, ExamsOf, ChildrenOK
  <2> HIDE DEF seen
  <2>2. QED BY <2>1 DEF Asked
<1> HIDE DEF r
<1>2. ChildrenOK'
  BY <1>1 DEF ChildrenOK, r
<1>3. RequestsOK' /\ NothingOrphaned'
  BY DEF RequestsOK, ChildrenOK, NothingOrphaned
<1>5. Adding' = Adding
  BY DEF Adding, ChildrenOK
<1>6. QED BY <1>2, <1>3, <1>5, RoomKept

LEMMA AnswerKeeps ==
  ASSUME ChildrenInv, NEW s \in Slots, Answer(s)
  PROVE  ChildrenInv'
<1> USE DEF ChildrenInv, Answer
<1>1. ChildrenOK'
  BY LeaveKeeps DEF ChildrenOK
<1>2. RequestsOK'
  BY LeaveKeeps DEF RequestsOK, ChildrenOK
<1>3. NothingOrphaned'
  BY DEF NothingOrphaned
<1>4. Adding' = Adding
  BY LeaveKeeps DEF Adding
<1>5. QED BY <1>1, <1>2, <1>3, <1>4, RoomKept

\* Matches are made with children that exist, and the view is only read.
LEMMA OthersKeep ==
  ASSUME ChildrenInv, UNCHANGED <<students, exams, examLock, pc, req>>,
         \/ \E i \in StudentIds : MakeMatch(i) \/ MoveMatch(i)
         \/ match' = match
  PROVE  ChildrenInv'
<1> USE DEF ChildrenInv
<1>1. ChildrenOK' /\ NothingOrphaned'
  BY DEF ChildrenOK, NothingOrphaned, MakeMatch, MoveMatch
<1>2. RequestsOK'
  BY DEF RequestsOK
<1>3. Adding' = Adding
  BY DEF Adding
<1>4. QED BY <1>1, <1>2, <1>3, RoomKept

\* The invariant holds throughout, whatever checks and writes interleave.
THEOREM ChildrenInvariant == StudentsSpec => []ChildrenInv
<1>1. ASSUME ChildrenInv, [StudentsNext]_studentVars
      PROVE  ChildrenInv'
  <2>1. CASE UNCHANGED studentVars
    BY <1>1, <2>1, OthersKeep DEF studentVars
  <2>2. ASSUME NEW s \in Slots,
               \/ CountStudents(s) \/ AddStudent(s) \/ DeleteStudent(s)
               \/ CreateExam(s) \/ WriteExam(s) \/ ListExams(s) \/ Answer(s)
        PROVE  ChildrenInv'
    BY <1>1, <2>2, CountStudentsKeeps, AddStudentKeeps, DeleteStudentKeeps,
       CreateExamKeeps, WriteExamKeeps, ListExamsKeeps, AnswerKeeps
  <2>3. ASSUME NEW s \in Slots, NEW i \in StudentIds,
               \/ FindStudent(s, i)
               \/ \E as \in Roles \cup {"admin"} : CheckReader(s, as, i)
               \/ \E as \in Roles, v \in BOOLEAN : CheckExam(s, as, i, v)
        PROVE  ChildrenInv'
    BY <1>1, <2>3, FindStudentKeeps, CheckReaderKeeps, CheckExamKeeps
  <2>4. ASSUME NEW s \in Slots, NEW e \in ExamIds, NEW as \in Roles,
               NEW op \in {"update", "delete"}, NEW v \in BOOLEAN, LockExam(s, as, e, op, v)
        PROVE  ChildrenInv'
    BY <1>1, <2>4, LockExamKeeps
  <2>5. ASSUME NEW i \in StudentIds, MakeMatch(i) \/ MoveMatch(i)
        PROVE  ChildrenInv'
    BY <1>1, <2>5, OthersKeep DEF MakeMatch, MoveMatch
  <2>6. QED BY <1>1, <2>1, <2>2, <2>3, <2>4, <2>5 DEF StudentsNext
<1>2. QED BY <1>1, InitChildrenInv, PTL DEF StudentsSpec

\* The cap on a parent's children, counted in one statement and used in
\* another, is passed by at most the other requests in flight (CapNearlyKept),
\* for every cap and every number of requests.
THEOREM CapKept == StudentsSpec => []CapNearlyKept
<1>1. ChildrenInv => CapNearlyKept
  BY Countable, StudentsAssumption DEF ChildrenInv, RoomLeft, CapNearlyKept
<1>2. QED BY <1>1, ChildrenInvariant, PTL

\* No exam and no match outlives its child (NothingOrphaned).
THEOREM NoOrphans == StudentsSpec => []NothingOrphaned
<1>1. ChildrenInv => NothingOrphaned
  BY DEF ChildrenInv
<1>2. QED BY <1>1, ChildrenInvariant, PTL

-----------------------------------------------------------------------------
(***************************************************************************)
(* Proofs about module TutorLists, for every number of writers, lists and  *)
(* items: lists are stored whole, rows never share their key, and          *)
(* replacements that did not overlap leave one list.                       *)
(***************************************************************************)

-----------------------------------------------------------------------------
(* The invariant *)

\* The rows of a list.
Whole(l) == [list : {l}, nth : DOMAIN submitted[l]]

Known(r) == r \in Row /\ r.list \in DOMAIN submitted /\ r.nth \in DOMAIN submitted[r.list]

\* Rows are known ones, and come with the rest of their list.
Closed(rs) == \A r \in rs : Known(r) /\ Whole(r.list) \subseteq rs

ListsOK ==
  /\ submitted \in Seq(Lists) /\ Len(submitted) <= MaxLists
  /\ crossed \in [Tables -> BOOLEAN]
  /\ rows \in [Tables -> SUBSET Row]
  /\ \A t \in Tables : Closed(rows[t])

Transactions ==
  [at : {"idle", "delete", "scan", "insert"}, table : Tables \cup {NoTable},
   list : Nat, seen : SUBSET Row, doomed : SUBSET Row, put : Nat]

Busy(w) == work[w].at # "idle"

\* What a transaction may be: one in flight works on a list submitted, its
\* snapshot holds whole lists, and so does what it has deleted in the end.
Sound(m) ==
  /\ m.at # "idle" <=> m.table \in Tables
  /\ m.at # "idle" => m.list \in DOMAIN submitted /\ m.put <= Len(submitted[m.list])
  /\ m.at # "insert" => m.put = 0
  /\ m.at \in {"idle", "delete"} => m.doomed = {}
  /\ Closed(m.seen) /\ m.doomed \subseteq m.seen
  /\ m.at = "insert" => Closed(m.doomed)

\* Every transaction has a list of its own.
WorkOK ==
  /\ work \in [Writers -> Transactions]
  /\ \A w \in Writers : Sound(work[w])
  /\ \A w, o \in Writers : Busy(w) /\ Busy(o) /\ work[w].list = work[o].list => w = o

\* What is deleted is committed still, and nobody else deletes it.
DoomedApart ==
  \A w \in Writers, t \in Tables : Running(w, t) =>
    /\ work[w].doomed \subseteq rows[t]
    /\ \A o \in Writers \ {w} : Running(o, t) => work[w].doomed \cap work[o].doomed = {}

\* Until two replacements of a table overlap, one sees and deletes all it holds.
AloneOrCrossed ==
  \A w \in Writers, t \in Tables : Running(w, t) /\ ~crossed[t] =>
    /\ \A o \in Writers : Running(o, t) => o = w
    /\ work[w].at = "scan" => work[w].seen = rows[t]
    /\ work[w].at = "insert" => work[w].doomed = rows[t]

OneList == \A t \in Tables : ~crossed[t] => \A r, q \in rows[t] : r.list = q.list

\* No two rows of a key, whether committed or about to be.
KeysApart ==
  \A t \in Tables :
    /\ \A r, q \in rows[t] : Item(r) = Item(q) => r = q
    /\ \A w \in Writers : Running(w, t) =>
         /\ \A r \in rows[t] \ work[w].doomed : \A q \in Put(w) : Item(r) # Item(q)
         /\ \A o \in Writers : Running(o, t) =>
              \A r \in Put(w) : \A q \in Put(o) : Item(r) = Item(q) => r = q

ListsInv ==
  ListsOK /\ WorkOK /\ DoomedApart /\ AloneOrCrossed /\ OneList /\ KeysApart

LEMMA InitListsInv == ListsInit => ListsInv
<1> SUFFICES ASSUME ListsInit PROVE ListsInv
  OBVIOUS
<1> USE TutorListsAssumption DEF ListsInit
<1>1. ListsOK
  BY DEF ListsOK, Closed
<1>2. WorkOK
  BY DEF WorkOK, Sound, Transactions, Busy, Idle, Closed
<1>3. DoomedApart /\ AloneOrCrossed /\ OneList /\ KeysApart
  BY DEF DoomedApart, AloneOrCrossed, OneList, KeysApart, Running, Idle
<1>4. QED BY <1>1, <1>2, <1>3 DEF ListsInv

-----------------------------------------------------------------------------
(* The steps *)

LEMMA SubmitKeeps ==
  ASSUME ListsInv, NEW w \in Writers, NEW t \in Tables, NEW l \in Lists, Submit(w, t, l)
  PROVE  ListsInv'
<1> USE TutorListsAssumption DEF ListsInv
<1> DEFINE n == Len(submitted)
           mine == [at |-> "delete", table |-> t, list |-> n + 1,
                    seen |-> {}, doomed |-> {}, put |-> 0]
<1>1. /\ submitted' = Append(submitted, l) /\ n \in Nat /\ n < MaxLists
      /\ submitted' \in Seq(Lists) /\ Len(submitted') = n + 1
      /\ DOMAIN submitted = 1 .. n /\ DOMAIN submitted' = 1 .. n + 1
      /\ \A k \in 1 .. n : submitted'[k] = submitted[k]
      /\ submitted'[n + 1] = l /\ Len(l) \in Nat
  BY DEF Submit, ListsOK, Lists
<1>2. ASSUME NEW r, Known(r)
      PROVE  Known(r)' /\ Whole(r.list)' = Whole(r.list) /\ Item(r)' = Item(r)
  <2>1. submitted'[r.list] = submitted[r.list] /\ r.list \in DOMAIN submitted'
    BY <1>1, <1>2 DEF Known
  <2>2. r \in Row'
    BY <1>2 DEF Known, Row
  <2>3. QED BY <1>2, <2>1, <2>2 DEF Known, Whole, Item
<1>3. ASSUME NEW rs, Closed(rs)
      PROVE  \A r \in rs : Known(r)' /\ Whole(r.list)' \subseteq rs
  BY <1>2, <1>3 DEF Closed
<1>4. /\ rows' = rows /\ work[w].at = "idle"
      /\ crossed' = [crossed EXCEPT ![t] = @ \/ \E o \in Writers : Running(o, t)]
      /\ work' = [work EXCEPT ![w] = mine]
  BY DEF Submit
<1>5. mine \in Transactions
  BY <1>1 DEF Transactions
<1> HIDE DEF mine
<1>6. work'[w] = mine /\ \A o \in Writers \ {w} : work'[o] = work[o]
  BY <1>4 DEF WorkOK
<1> USE DEF mine
<1>7. ListsOK'
  BY <1>1, <1>3, <1>4 DEF ListsOK, Closed
<1>8. WorkOK'
  <2>1. work' \in [Writers -> Transactions]
    BY <1>4, <1>5 DEF WorkOK
  <2>2. ASSUME NEW o \in Writers
        PROVE  Sound(work[o])'
    <3>1. CASE o = w
      BY <1>1, <1>6, <3>1 DEF Sound, Closed
    <3>2. CASE o # w
      <4>1. Sound(work[o]) /\ work'[o] = work[o]
        BY <1>6, <3>2 DEF WorkOK
      <4>2. Closed(work[o].seen)'
        BY <1>3, <4>1 DEF Sound, Closed
      <4>3. Closed(work[o].doomed) => Closed(work[o].doomed)'
        BY <1>3, <4>1 DEF Closed
      <4>4. QED BY <1>1, <4>1, <4>2, <4>3 DEF Sound
    <3>3. QED BY <3>1, <3>2
  <2>3. ASSUME NEW v \in Writers, NEW o \in Writers, Busy(v)', Busy(o)',
               work'[v].list = work'[o].list
        PROVE  v = o
    <3>1. \A x \in Writers \ {w} : Busy(x)' => Busy(x) /\ work'[x].list \in 1 .. n
      BY <1>1, <1>6 DEF Busy, WorkOK, Sound
    <3>2. work'[w].list \notin 1 .. n
      BY <1>1, <1>6
    <3>3. QED BY <2>3, <1>6, <3>1, <3>2 DEF WorkOK
  <2>4. QED BY <2>1, <2>2, <2>3 DEF WorkOK
<1>9. \A o \in Writers, x \in Tables :
        Running(o, x)' <=> (IF o = w THEN x = t ELSE Running(o, x))
  BY <1>6 DEF Running
<1>10. \A x \in Tables : ~crossed'[x] =>
         ~crossed[x] /\ (x = t => \A o \in Writers : ~Running(o, t))
  BY <1>4 DEF ListsOK
<1>11. AloneOrCrossed'
  <2> SUFFICES ASSUME NEW o \in Writers, NEW x \in Tables, Running(o, x)', ~crossed'[x]
               PROVE  /\ \A v \in Writers : Running(v, x)' => v = o
                      /\ work'[o].at = "scan" => work'[o].seen = rows'[x]
                      /\ work'[o].at = "insert" => work'[o].doomed = rows'[x]
    BY DEF AloneOrCrossed
  <2>1. CASE x = t
    BY <1>6, <1>9, <1>10, <2>1
  <2>2. CASE x # t
    BY <1>4, <1>6, <1>9, <1>10, <2>2 DEF AloneOrCrossed
  <2>3. QED BY <2>1, <2>2
<1>12. OneList'
  BY <1>4, <1>10 DEF OneList
<1>13. KeysApart'
  <2>1. \A x \in Tables : \A r \in rows[x] : Item(r)' = Item(r)
    BY <1>2 DEF ListsOK, Closed
  <2>2. \A o \in Writers : \A r : r \in Put(o)' => o # w /\ r \in Put(o)
    BY <1>6 DEF Put
  <2>3. \A o \in Writers \ {w} : Running(o, t) \/ Busy(o) =>
          \A r \in Put(o) : Item(r)' = Item(r)
    BY <1>1 DEF Put, Item, WorkOK, Sound, Running, Busy
  <2>4. \A o \in Writers, x \in Tables : Running(o, x) => Busy(o)
    BY TutorListsAssumption DEF WorkOK, Sound, Running, Busy
  <2>5. QED BY <1>4, <1>6, <1>9, <2>1, <2>2, <2>3, <2>4 DEF KeysApart
<1>14. DoomedApart'
  BY <1>4, <1>6, <1>9 DEF DoomedApart
<1>15. QED BY <1>7, <1>8, <1>11, <1>12, <1>13, <1>14

\* What a row means when no list is submitted.
LEMMA SameLists ==
  ASSUME submitted' = submitted
  PROVE  /\ \A r : Item(r)' = Item(r)
         /\ \A rs : Closed(rs)' <=> Closed(rs)
<1>1. ASSUME NEW r PROVE Item(r)' = Item(r)
  BY DEF Item
<1>2. ASSUME NEW r PROVE Known(r)' <=> Known(r)
  BY DEF Known, Row
<1>3. ASSUME NEW k PROVE Whole(k)' = Whole(k)
  BY DEF Whole
<1>4. ASSUME NEW rs PROVE Closed(rs)' <=> Closed(rs)
  BY <1>2, <1>3 DEF Closed
<1>5. QED BY <1>1, <1>4

\* A step that moves one transaction on, along its list, or ends it.
LEMMA OneMoves ==
  ASSUME ListsInv, submitted' = submitted, NEW w \in Writers, NEW m \in Transactions,
         work' = [work EXCEPT ![w] = m], Sound(m),
         m.at # "idle" => Busy(w) /\ m.list = work[w].list
  PROVE  /\ WorkOK'
         /\ work'[w] = m /\ \A o \in Writers \ {w} : work'[o] = work[o]
<1> USE DEF ListsInv
<1>1. work'[w] = m /\ \A o \in Writers \ {w} : work'[o] = work[o]
  BY DEF WorkOK
<1>2. work' \in [Writers -> Transactions]
  BY DEF WorkOK
<1>3. Transactions' = Transactions
  BY DEF Transactions, Row
<1>4. ASSUME NEW o \in Writers
      PROVE  Sound(work[o])'
  <2>1. Sound(work'[o])
    BY <1>1 DEF WorkOK
  <2>2. \A rs : Closed(rs)' <=> Closed(rs)
    BY SameLists
  <2>3. QED BY <2>1, <2>2 DEF Sound
<1>5. ASSUME NEW v \in Writers, NEW o \in Writers, Busy(v)', Busy(o)',
             work'[v].list = work'[o].list
      PROVE  v = o
  BY <1>1, <1>5 DEF WorkOK, Busy
<1>6. QED BY <1>1, <1>2, <1>3, <1>4, <1>5 DEF WorkOK

\* A step of the DELETE, which inserts nothing.
LEMMA DeletionMoves ==
  ASSUME ListsInv, UNCHANGED <<rows, crossed, submitted>>,
         NEW w \in Writers, NEW m \in Transactions,
         work' = [work EXCEPT ![w] = m], Sound(m), Busy(w), m.at # "idle",
         m.table = work[w].table, m.list = work[w].list, m.put = 0
  PROVE  /\ ListsOK' /\ WorkOK' /\ OneList' /\ KeysApart'
         /\ work'[w] = m /\ \A o \in Writers \ {w} : work'[o] = work[o]
         /\ \A o \in Writers, x \in Tables : Running(o, x)' <=> Running(o, x)
<1> USE DEF ListsInv
<1>1. rows' = rows /\ crossed' = crossed /\ submitted' = submitted
  OBVIOUS
<1>2. WorkOK' /\ work'[w] = m /\ \A o \in Writers \ {w} : work'[o] = work[o]
  BY <1>1, OneMoves
<1>3. ListsOK'
  BY <1>1, SameLists DEF ListsOK, Row
<1>4. \A o \in Writers, x \in Tables : Running(o, x)' <=> Running(o, x)
  BY <1>2 DEF Running
<1>5. OneList'
  BY <1>1 DEF OneList
<1>6. KeysApart'
  <2>1. Put(w)' = {}
    BY <1>2 DEF Put
  <2>2. \A o \in Writers \ {w} : Put(o)' = Put(o)
    BY <1>2 DEF Put
  <2>3. \A r : Item(r)' = Item(r)
    BY <1>1, SameLists
  <2>4. QED BY <1>1, <1>2, <1>4, <2>1, <2>2, <2>3 DEF KeysApart
<1>7. QED BY <1>2, <1>3, <1>4, <1>5, <1>6

LEMMA DeleteKeeps ==
  ASSUME ListsInv, NEW w \in Writers, Delete(w)
  PROVE  ListsInv'
<1> USE DEF ListsInv
<1> DEFINE t == work[w].table
           mine == [work[w] EXCEPT !.at = "scan", !.seen = rows[t]]
<1>1. /\ UNCHANGED <<rows, crossed, submitted>>
      /\ work' = [work EXCEPT ![w] = mine] /\ work[w].at = "delete"
  BY DEF Delete
<1>2. work[w] \in Transactions /\ Sound(work[w]) /\ Busy(w)
  BY <1>1 DEF WorkOK, Busy
<1>3. /\ t \in Tables /\ rows[t] \in SUBSET Row /\ Closed(rows[t])
      /\ work[w].put = 0 /\ work[w].doomed = {}
  BY <1>1, <1>2 DEF Sound, ListsOK, Busy
<1>4. mine \in Transactions
  BY <1>2, <1>3 DEF Transactions
<1>5. /\ mine.at = "scan" /\ mine.seen = rows[t] /\ mine.doomed = {}
      /\ mine.table = t /\ mine.list = work[w].list /\ mine.put = 0
  BY <1>2, <1>3 DEF Transactions
<1> HIDE DEF mine
<1>6. Sound(mine)
  BY <1>1, <1>2, <1>3, <1>5 DEF Sound
<1>7. /\ ListsOK' /\ WorkOK' /\ OneList' /\ KeysApart'
      /\ work'[w] = mine /\ \A o \in Writers \ {w} : work'[o] = work[o]
      /\ \A o \in Writers, x \in Tables : Running(o, x)' <=> Running(o, x)
  BY <1>1, <1>2, <1>4, <1>5, <1>6, DeletionMoves
<1>8. AloneOrCrossed'
  <2> SUFFICES ASSUME NEW o \in Writers, NEW x \in Tables, Running(o, x)', ~crossed'[x]
               PROVE  /\ \A v \in Writers : Running(v, x)' => v = o
                      /\ work'[o].at = "scan" => work'[o].seen = rows'[x]
                      /\ work'[o].at = "insert" => work'[o].doomed = rows'[x]
    BY DEF AloneOrCrossed
  <2>1. CASE o = w
    BY <1>1, <1>5, <1>7, <2>1 DEF AloneOrCrossed, Running
  <2>2. CASE o # w
    BY <1>1, <1>7, <2>2 DEF AloneOrCrossed
  <2>3. QED BY <2>1, <2>2
<1>9. DoomedApart'
  BY <1>1, <1>3, <1>5, <1>7 DEF DoomedApart
<1>10. QED BY <1>7, <1>8, <1>9

LEMMA DeleteRowKeeps ==
  ASSUME ListsInv, NEW w \in Writers, NEW r, DeleteRow(w, r)
  PROVE  ListsInv'
<1> USE DEF ListsInv
<1> DEFINE t == work[w].table
           mine == [work[w] EXCEPT !.doomed = @ \cup {r}]
<1>1. /\ UNCHANGED <<rows, crossed, submitted>>
      /\ work' = [work EXCEPT ![w] = mine] /\ work[w].at = "scan"
      /\ r \in work[w].seen /\ r \in rows[t]
      /\ \A o \in Writers : Running(o, t) => r \notin work[o].doomed
  BY DEF DeleteRow, Remaining
<1>2. work[w] \in Transactions /\ Sound(work[w]) /\ Busy(w)
  BY <1>1 DEF WorkOK, Busy
<1>3. t \in Tables /\ work[w].put = 0 /\ r \in Row
  BY <1>1, <1>2 DEF Sound, Busy, Transactions
<1>4. mine \in Transactions
  BY <1>2, <1>3 DEF Transactions
<1>5. /\ mine.at = "scan" /\ mine.seen = work[w].seen
      /\ mine.doomed = work[w].doomed \cup {r}
      /\ mine.table = t /\ mine.list = work[w].list /\ mine.put = 0
  BY <1>1, <1>2, <1>3 DEF Transactions
<1> HIDE DEF mine
<1>6. Sound(mine)
  BY <1>1, <1>2, <1>3, <1>5 DEF Sound
<1>7. /\ ListsOK' /\ WorkOK' /\ OneList' /\ KeysApart'
      /\ work'[w] = mine /\ \A o \in Writers \ {w} : work'[o] = work[o]
      /\ \A o \in Writers, x \in Tables : Running(o, x)' <=> Running(o, x)
  BY <1>1, <1>2, <1>4, <1>5, <1>6, DeletionMoves
<1>8. AloneOrCrossed'
  BY <1>1, <1>5, <1>7 DEF AloneOrCrossed
<1>9. DoomedApart'
  <2> SUFFICES ASSUME NEW v \in Writers, NEW x \in Tables, Running(v, x)
               PROVE  /\ work'[v].doomed \subseteq rows[x]
                      /\ \A o \in Writers \ {v} : Running(o, x) =>
                           work'[v].doomed \cap work'[o].doomed = {}
    BY <1>1, <1>7 DEF DoomedApart
  <2>1. x = t \/ \A o \in Writers : Running(o, x) => o # w
    BY DEF Running
  <2>2. CASE x # t
    BY <1>7, <2>1, <2>2 DEF DoomedApart
  <2>3. CASE x = t
    BY <1>1, <1>5, <1>7, <2>3 DEF DoomedApart
  <2>4. QED BY <2>2, <2>3
<1>10. QED BY <1>7, <1>8, <1>9

\* What two sets of whole lists have in common is whole.
LEMMA ClosedMeet ==
  ASSUME NEW rs, NEW qs, Closed(rs), Closed(qs)
  PROVE  Closed(rs \cap qs)
BY DEF Closed

LEMMA DeletedKeeps ==
  ASSUME ListsInv, NEW w \in Writers, Deleted(w)
  PROVE  ListsInv'
<1> USE DEF ListsInv
<1> DEFINE t == work[w].table
           mine == [work[w] EXCEPT !.at = "insert"]
<1>1. /\ UNCHANGED <<rows, crossed, submitted>>
      /\ work' = [work EXCEPT ![w] = mine] /\ work[w].at = "scan"
      /\ work[w].seen \cap rows[t] \subseteq work[w].doomed
  BY DEF Deleted, Remaining
<1>2. work[w] \in Transactions /\ Sound(work[w]) /\ Busy(w)
  BY <1>1 DEF WorkOK, Busy
<1>3. t \in Tables /\ Running(w, t) /\ work[w].put = 0 /\ Closed(rows[t])
  BY <1>1, <1>2 DEF Sound, Busy, ListsOK, Running
<1>4. work[w].doomed = work[w].seen \cap rows[t]
  BY <1>1, <1>2, <1>3 DEF Sound, DoomedApart
<1>5. Closed(work[w].doomed)
  BY <1>2, <1>3, <1>4, ClosedMeet DEF Sound
<1>6. mine \in Transactions
  BY <1>2 DEF Transactions
<1>7. /\ mine.at = "insert" /\ mine.seen = work[w].seen /\ mine.doomed = work[w].doomed
      /\ mine.table = t /\ mine.list = work[w].list /\ mine.put = 0
  BY <1>2, <1>3 DEF Transactions
<1> HIDE DEF mine
<1>8. Sound(mine)
  BY <1>1, <1>2, <1>3, <1>5, <1>7 DEF Sound
<1>9. /\ ListsOK' /\ WorkOK' /\ OneList' /\ KeysApart'
      /\ work'[w] = mine /\ \A o \in Writers \ {w} : work'[o] = work[o]
      /\ \A o \in Writers, x \in Tables : Running(o, x)' <=> Running(o, x)
  BY <1>1, <1>2, <1>6, <1>7, <1>8, DeletionMoves
<1>10. ~crossed[t] => work[w].doomed = rows[t]
  BY <1>1, <1>3, <1>4 DEF AloneOrCrossed
<1>11. AloneOrCrossed'
  <2> SUFFICES ASSUME NEW o \in Writers, NEW x \in Tables, Running(o, x), ~crossed[x]
               PROVE  /\ \A v \in Writers : Running(v, x) => v = o
                      /\ work'[o].at = "scan" => work'[o].seen = rows[x]
                      /\ work'[o].at = "insert" => work'[o].doomed = rows[x]
    BY <1>1, <1>9 DEF AloneOrCrossed
  <2>1. CASE o = w
    BY <1>7, <1>9, <1>10, <2>1 DEF AloneOrCrossed, Running
  <2>2. CASE o # w
    BY <1>9, <2>2 DEF AloneOrCrossed
  <2>3. QED BY <2>1, <2>2
<1>12. \A o \in Writers : work'[o].doomed = work[o].doomed
  BY <1>7, <1>9
<1>13. DoomedApart'
  BY <1>1, <1>9, <1>12 DEF DoomedApart
<1>14. QED BY <1>9, <1>11, <1>13

LEMMA InsertKeeps ==
  ASSUME ListsInv, NEW w \in Writers, Insert(w)
  PROVE  ListsInv'
<1> USE DEF ListsInv
<1> DEFINE t == work[w].table
           q == NextRow(w)
           mine == [work[w] EXCEPT !.put = @ + 1]
<1>1. /\ rows' = rows /\ crossed' = crossed /\ submitted' = submitted
      /\ work' = [work EXCEPT ![w] = mine] /\ work[w].at = "insert"
      /\ Pending(w) /\ \A r \in Met(w) : Item(r) # Item(q)
  BY DEF Insert
<1>2. work[w] \in Transactions /\ Sound(work[w]) /\ Busy(w)
  BY <1>1 DEF WorkOK, Busy
<1>3. t \in Tables /\ work[w].list \in DOMAIN submitted /\ work[w].put \in Nat
  BY <1>2 DEF Sound, Busy, Transactions
<1>4. mine \in Transactions
  BY <1>2 DEF Transactions
<1>5. /\ mine.at = "insert" /\ mine.seen = work[w].seen /\ mine.doomed = work[w].doomed
      /\ mine.table = t /\ mine.list = work[w].list /\ mine.put = work[w].put + 1
  BY <1>1, <1>2 DEF Transactions
<1> HIDE DEF mine
<1>6. Sound(mine)
  <2>1. submitted[work[w].list] \in Lists
    BY <1>3 DEF ListsOK
  <2>2. Len(submitted[work[w].list]) \in Nat
    BY <2>1, TutorListsAssumption DEF Lists
  <2>3. work[w].put + 1 <= Len(submitted[work[w].list])
    BY <1>1, <1>3, <2>2 DEF Pending
  <2>4. QED BY <1>1, <1>2, <1>3, <1>5, <2>3 DEF Sound
<1>7. WorkOK' /\ work'[w] = mine /\ \A o \in Writers \ {w} : work'[o] = work[o]
  BY <1>1, <1>2, <1>4, <1>5, <1>6, OneMoves
<1>8. ListsOK'
  BY <1>1, SameLists DEF ListsOK, Row
<1>9. \A o \in Writers, x \in Tables : Running(o, x)' <=> Running(o, x)
  BY <1>5, <1>7 DEF Running
<1>10. \A o \in Writers : work'[o].doomed = work[o].doomed
  BY <1>5, <1>7
<1>11. AloneOrCrossed'
  <2> SUFFICES ASSUME NEW o \in Writers, NEW x \in Tables, Running(o, x)', ~crossed'[x]
               PROVE  /\ \A v \in Writers : Running(v, x)' => v = o
                      /\ work'[o].at = "scan" => work'[o].seen = rows'[x]
                      /\ work'[o].at = "insert" => work'[o].doomed = rows'[x]
    BY DEF AloneOrCrossed
  <2>1. work'[o].at = work[o].at /\ work'[o].seen = work[o].seen
    BY <1>1, <1>5, <1>7
  <2>2. QED BY <1>1, <1>9, <1>10, <2>1 DEF AloneOrCrossed
<1>12. OneList'
  BY <1>1 DEF OneList
<1>13. KeysApart'
  <2>1. Put(w)' \subseteq Put(w) \cup {q}
    <3> SUFFICES ASSUME NEW r \in Put(w)', r \notin Put(w)
                 PROVE  r = q
      OBVIOUS
    <3>1. r \in [list : {work[w].list}, nth : 1 .. work[w].put + 1]
      BY <1>5, <1>7 DEF Put
    <3>2. r.nth = work[w].put + 1
      BY <1>3, <3>1 DEF Put
    <3>3. QED BY <3>1, <3>2 DEF NextRow
  <2>2. \A o \in Writers \ {w} : Put(o)' = Put(o)
    BY <1>7 DEF Put
  <2>3. \A r : Item(r)' = Item(r)
    BY <1>1, SameLists
  <2>4. Running(w, t)
    BY DEF Running
  <2>5. /\ \A r \in rows[t] \ work[w].doomed : Item(r) # Item(q)
        /\ \A o \in Writers : Running(o, t) => \A r \in Put(o) : Item(r) # Item(q)
    BY <1>1 DEF Met
  <2>6. \A o \in Writers, x \in Tables : Running(o, x) =>
          \A r \in rows[x] \ work[o].doomed : \A p \in Put(o)' : Item(r) # Item(p)
    BY <2>1, <2>2, <2>4, <2>5 DEF KeysApart, Running
  <2>7. ASSUME NEW v \in Writers, NEW o \in Writers, NEW x \in Tables,
               Running(v, x), Running(o, x), NEW r \in Put(v)', NEW p \in Put(o)',
               Item(r) = Item(p)
        PROVE  r = p
    <3>1. CASE r \in Put(v) /\ p \in Put(o)
      BY <2>7, <3>1 DEF KeysApart
    <3>2. CASE r \notin Put(v)
      <4>1. v = w /\ r = q /\ x = t
        BY <2>1, <2>2, <2>7, <3>2 DEF Running
      <4>2. p \notin Put(o)
        BY <2>5, <2>7, <4>1
      <4>3. QED BY <2>1, <2>2, <4>1, <4>2
    <3>3. CASE p \notin Put(o)
      <4>1. o = w /\ p = q /\ x = t
        BY <2>1, <2>2, <2>7, <3>3 DEF Running
      <4>2. r \notin Put(v)
        BY <2>5, <2>7, <4>1
      <4>3. QED BY <2>1, <2>2, <4>1, <4>2
    <3>4. QED BY <3>1, <3>2, <3>3
  <2>8. \A x \in Tables : \A r, p \in rows[x] : Item(r) = Item(p) => r = p
    BY DEF KeysApart
  <2>9. QED BY <1>1, <1>9, <1>10, <2>3, <2>6, <2>7, <2>8 DEF KeysApart
<1>14. DoomedApart'
  BY <1>1, <1>9, <1>10 DEF DoomedApart
<1>15. QED BY <1>7, <1>8, <1>11, <1>12, <1>13, <1>14

\* A transaction that ends has nothing left.
LEMMA EndsIdle ==
  ASSUME ListsInv, submitted' = submitted, NEW w \in Writers,
         work' = [work EXCEPT ![w] = Idle]
  PROVE  /\ WorkOK'
         /\ work'[w] = Idle /\ \A o \in Writers \ {w} : work'[o] = work[o]
         /\ \A x \in Tables : ~Running(w, x)'
         /\ \A o \in Writers \ {w} : Put(o)' = Put(o)
         /\ \A o \in Writers \ {w}, x \in Tables : Running(o, x)' <=> Running(o, x)
<1>1. Idle \in Transactions
  BY TutorListsAssumption DEF Transactions, Idle
<1>2. Sound(Idle)
  BY TutorListsAssumption DEF Sound, Idle, Closed
<1>3. Idle.at = "idle" /\ Idle.table \notin Tables
  BY TutorListsAssumption DEF Idle
<1>4. WorkOK' /\ work'[w] = Idle /\ \A o \in Writers \ {w} : work'[o] = work[o]
  BY <1>1, <1>2, <1>3, OneMoves
<1>5. QED BY <1>3, <1>4 DEF Running, Put

LEMMA FailKeeps ==
  ASSUME ListsInv, NEW w \in Writers, Fail(w)
  PROVE  ListsInv'
<1> USE DEF ListsInv
<1>1. /\ rows' = rows /\ crossed' = crossed /\ submitted' = submitted
      /\ work' = [work EXCEPT ![w] = Idle]
  BY DEF Fail
<1>2. /\ WorkOK'
      /\ work'[w] = Idle /\ \A o \in Writers \ {w} : work'[o] = work[o]
      /\ \A x \in Tables : ~Running(w, x)'
      /\ \A o \in Writers \ {w} : Put(o)' = Put(o)
      /\ \A o \in Writers \ {w}, x \in Tables : Running(o, x)' <=> Running(o, x)
  BY <1>1, EndsIdle
<1>3. ListsOK'
  BY <1>1, SameLists DEF ListsOK, Row
<1>4. AloneOrCrossed'
  BY <1>1, <1>2 DEF AloneOrCrossed
<1>5. OneList'
  BY <1>1 DEF OneList
<1>6. \A r : Item(r)' = Item(r)
  BY <1>1, SameLists
<1>7. KeysApart'
  BY <1>1, <1>2, <1>6 DEF KeysApart
<1>8. DoomedApart'
  BY <1>1, <1>2 DEF DoomedApart
<1>9. QED BY <1>2, <1>3, <1>4, <1>5, <1>7, <1>8

LEMMA CommitKeeps ==
  ASSUME ListsInv, NEW w \in Writers, Commit(w)
  PROVE  ListsInv'
<1> USE DEF ListsInv
<1> DEFINE t == work[w].table
           k == work[w].list
           gone == work[w].doomed
<1>1. /\ crossed' = crossed /\ submitted' = submitted /\ work[w].at = "insert"
      /\ work' = [work EXCEPT ![w] = Idle] /\ ~Pending(w)
      /\ rows' = [rows EXCEPT ![t] = (rows[t] \ gone) \cup Put(w)]
  BY DEF Commit, Replaced
<1>2. /\ WorkOK'
      /\ work'[w] = Idle /\ \A o \in Writers \ {w} : work'[o] = work[o]
      /\ \A x \in Tables : ~Running(w, x)'
      /\ \A o \in Writers \ {w} : Put(o)' = Put(o)
      /\ \A o \in Writers \ {w}, x \in Tables : Running(o, x)' <=> Running(o, x)
  BY <1>1, EndsIdle
<1>3. work[w] \in Transactions /\ Sound(work[w]) /\ Busy(w)
  BY <1>1 DEF WorkOK, Busy
<1>4. t \in Tables /\ k \in DOMAIN submitted /\ Running(w, t) /\ Closed(gone)
  BY <1>1, <1>3 DEF Sound, Busy, Running
<1>5. /\ rows'[t] = (rows[t] \ gone) \cup Put(w)
      /\ \A x \in Tables \ {t} : rows'[x] = rows[x]
  BY <1>1, <1>4 DEF ListsOK
<1>6. Put(w) = Whole(k) /\ \A r \in Put(w) : Known(r) /\ r.list = k
  <2>1. submitted[k] \in Lists /\ k \in 1 .. MaxLists
    BY <1>4, TutorListsAssumption DEF ListsOK
  <2>2. PICK n \in 0 .. MaxItems : submitted[k] \in [1 .. n -> Items]
    BY <2>1 DEF Lists
  <2>3. Len(submitted[k]) = n /\ DOMAIN submitted[k] = 1 .. n
    BY <2>2, TutorListsAssumption
  <2>4. work[w].put \in Nat /\ work[w].put <= n
    BY <1>3, <2>3 DEF Transactions, Sound, Busy
  <2>5. work[w].put = n
    BY <1>1, <2>2, <2>3, <2>4, TutorListsAssumption DEF Pending
  <2>6. Put(w) = Whole(k)
    BY <2>3, <2>5 DEF Put, Whole
  <2>7. \A r \in Put(w) : r \in Row /\ r.list = k /\ r.nth \in 1 .. n
    BY <2>1, <2>2, <2>5, TutorListsAssumption DEF Put, Row
  <2>8. QED BY <1>4, <2>3, <2>6, <2>7 DEF Known
<1>7. Closed(rows'[t])
  <2>1. ASSUME NEW r \in rows[t] \ gone
        PROVE  Known(r) /\ Whole(r.list) \subseteq rows[t] \ gone
    <3>1. Known(r) /\ Whole(r.list) \subseteq rows[t]
      BY <1>4 DEF ListsOK, Closed
    <3>2. r \in Whole(r.list)
      BY <3>1 DEF Known, Whole, Row
    <3>3. ASSUME NEW q \in Whole(r.list), q \in gone
          PROVE  FALSE
      <4>1. q.list = r.list
        BY DEF Whole
      <4>2. Whole(q.list) \subseteq gone
        BY <1>4, <3>3 DEF Closed
      <4>3. QED BY <3>2, <4>1, <4>2
    <3>4. QED BY <3>1, <3>3
  <2>2. QED BY <1>5, <1>6, <2>1 DEF Closed
<1>8. ListsOK'
  <2>1. rows'[t] \in SUBSET Row
    BY <1>7 DEF Closed, Known
  <2>2. rows' \in [Tables -> SUBSET Row]
    BY <1>1, <1>4, <1>5, <2>1 DEF ListsOK
  <2>3. \A x \in Tables : Closed(rows'[x])
    BY <1>5, <1>7 DEF ListsOK
  <2>4. \A x \in Tables : Closed(rows[x])'
    BY <1>1, <2>3, SameLists
  <2>5. QED BY <1>1, <2>2, <2>4 DEF ListsOK, Row
<1>9. ~crossed[t] => gone = rows[t] /\ \A o \in Writers : Running(o, t) => o = w
  BY <1>1, <1>4 DEF AloneOrCrossed
<1>10. AloneOrCrossed'
  <2> SUFFICES ASSUME NEW o \in Writers, NEW x \in Tables, Running(o, x)', ~crossed'[x]
               PROVE  /\ \A v \in Writers : Running(v, x)' => v = o
                      /\ work'[o].at = "scan" => work'[o].seen = rows'[x]
                      /\ work'[o].at = "insert" => work'[o].doomed = rows'[x]
    BY DEF AloneOrCrossed
  <2>1. o # w /\ Running(o, x) /\ ~crossed[x]
    BY <1>1, <1>2
  <2>2. x # t
    BY <1>9, <2>1
  <2>3. QED BY <1>2, <1>5, <2>1, <2>2 DEF AloneOrCrossed
<1>11. OneList'
  <2>1. ~crossed[t] => \A r, q \in rows'[t] : r.list = q.list
    BY <1>5, <1>6, <1>9
  <2>2. QED BY <1>1, <1>5, <2>1 DEF OneList
<1>12. KeysApart'
  <2>1. \A r : Item(r)' = Item(r)
    BY <1>1, SameLists
  <2>2. \A r, q \in rows'[t] : Item(r) = Item(q) => r = q
    BY <1>4, <1>5 DEF KeysApart
  <2>3. ASSUME NEW o \in Writers \ {w}, Running(o, t), NEW r \in Put(w), NEW q \in Put(o)
        PROVE  Item(r) # Item(q)
    <3>1. work[o].list # k
      BY <1>3, <1>4, <2>3, TutorListsAssumption DEF WorkOK, Sound, Busy, Running
    <3>2. r.list = k /\ q.list = work[o].list
      BY DEF Put
    <3>3. QED BY <1>4, <2>3, <3>1, <3>2 DEF KeysApart
  <2>4. ASSUME NEW o \in Writers \ {w}, NEW x \in Tables, Running(o, x)
        PROVE  \A r \in rows'[x] \ work[o].doomed : \A q \in Put(o) : Item(r) # Item(q)
    <3>1. CASE x = t
      BY <1>5, <2>3, <2>4, <3>1 DEF KeysApart
    <3>2. CASE x # t
      BY <1>5, <2>4, <3>2 DEF KeysApart
    <3>3. QED BY <3>1, <3>2
  <2>5. \A x \in Tables : \A r, q \in rows'[x] : Item(r) = Item(q) => r = q
    BY <1>5, <2>2 DEF KeysApart
  <2>6. \A v, o \in Writers \ {w}, x \in Tables : Running(v, x) /\ Running(o, x) =>
          \A r \in Put(v) : \A q \in Put(o) : Item(r) = Item(q) => r = q
    BY DEF KeysApart
  <2>7. QED BY <1>2, <2>1, <2>4, <2>5, <2>6 DEF KeysApart
<1>13. DoomedApart'
  <2> SUFFICES ASSUME NEW v \in Writers \ {w}, NEW x \in Tables, Running(v, x)
               PROVE  work[v].doomed \subseteq rows'[x]
    BY <1>2 DEF DoomedApart
  <2>1. work[v].doomed \subseteq rows[x]
    BY DEF DoomedApart
  <2>2. x = t => work[v].doomed \cap gone = {}
    BY <1>4 DEF DoomedApart
  <2>3. QED BY <1>5, <2>1, <2>2
<1>14. QED BY <1>2, <1>8, <1>10, <1>11, <1>12, <1>13

-----------------------------------------------------------------------------
(* The theorems *)

LEMMA StutterKeeps ==
  ASSUME ListsInv, UNCHANGED listVars
  PROVE  ListsInv'
<1> USE DEF ListsInv
<1>1. rows' = rows /\ submitted' = submitted /\ crossed' = crossed /\ work' = work
  BY DEF listVars
<1>2. \A rs : Closed(rs)' <=> Closed(rs)
  BY <1>1, SameLists
<1>3. \A r : Item(r)' = Item(r)
  BY <1>1, SameLists
<1>4. ListsOK'
  BY <1>1, <1>2 DEF ListsOK, Row
<1>5. \A w \in Writers : Sound(work[w])'
  BY <1>1, <1>2 DEF WorkOK, Sound
<1>6. WorkOK'
  BY <1>1, <1>5 DEF WorkOK, Busy, Transactions, Row
<1>7. DoomedApart' /\ AloneOrCrossed' /\ OneList'
  BY <1>1 DEF DoomedApart, AloneOrCrossed, OneList, Running
<1>8. KeysApart'
  BY <1>1, <1>3 DEF KeysApart, Running, Put
<1>9. QED BY <1>4, <1>6, <1>7, <1>8

\* The invariant holds throughout, whatever replacements overlap or fail.
THEOREM ListsInvariant == ListsSpec => []ListsInv
<1>1. ASSUME ListsInv, [ListsNext]_listVars
      PROVE  ListsInv'
  <2>1. CASE UNCHANGED listVars
    BY <1>1, <2>1, StutterKeeps
  <2>2. ASSUME NEW w \in Writers, NEW t \in Tables, NEW l \in Lists, Submit(w, t, l)
        PROVE  ListsInv'
    BY <1>1, <2>2, SubmitKeeps
  <2>3. ASSUME NEW w \in Writers, Delete(w)
        PROVE  ListsInv'
    BY <1>1, <2>3, DeleteKeeps
  <2>4. ASSUME NEW w \in Writers, NEW r, DeleteRow(w, r)
        PROVE  ListsInv'
    BY <1>1, <2>4, DeleteRowKeeps
  <2>5. ASSUME NEW w \in Writers, Deleted(w)
        PROVE  ListsInv'
    BY <1>1, <2>5, DeletedKeeps
  <2>6. ASSUME NEW w \in Writers, Insert(w)
        PROVE  ListsInv'
    BY <1>1, <2>6, InsertKeeps
  <2>7. ASSUME NEW w \in Writers, Fail(w)
        PROVE  ListsInv'
    BY <1>1, <2>7, FailKeeps
  <2>8. ASSUME NEW w \in Writers, Commit(w)
        PROVE  ListsInv'
    BY <1>1, <2>8, CommitKeeps
  <2>9. QED BY <1>1, <2>1, <2>2, <2>3, <2>4, <2>5, <2>6, <2>7, <2>8 DEF ListsNext
<1>2. QED BY <1>1, InitListsInv, PTL DEF ListsSpec

\* Every row is an item of a submitted list.
THEOREM ListsTypeCorrect == ListsSpec => []ListsTypeOK
<1>1. ListsInv => ListsTypeOK
  BY DEF ListsInv, ListsOK, Closed, Known, ListsTypeOK
<1>2. QED BY <1>1, ListsInvariant, PTL

\* A list is stored whole or not at all (ListsAreWhole), for every number of
\* requests in flight, lists and items.
THEOREM ListsStoredWhole == ListsSpec => []ListsAreWhole
<1>1. ListsInv => ListsAreWhole
  BY DEF ListsInv, ListsOK, Closed, Whole, ListsAreWhole
<1>2. QED BY <1>1, ListsInvariant, PTL

\* Replacements that never overlapped leave one list, and overlapping ones
\* never two rows of one key (OneListUnlessCrossed).
THEOREM OneListKept == ListsSpec => []OneListUnlessCrossed
<1>1. ListsInv => OneListUnlessCrossed
  BY DEF ListsInv, OneList, KeysApart, OneListUnlessCrossed
<1>2. QED BY <1>1, ListsInvariant, PTL

-----------------------------------------------------------------------------
(***************************************************************************)
(* Module TutorSearch: the walk over the pages of a search.                 *)
(***************************************************************************)

LEMMA MatchingIsFinite ==
  Matching \in SUBSET Tutors /\ IsFiniteSet(Matching) /\ Cardinality(Matching) \in Nat
BY TutorSearchAssumption, FS_Subset, FS_CardinalityType DEF Matching

\* Any two tutors have an order, the id at the end sees to it.
LEMMA BeforeTotal ==
  ASSUME table \in [Tutors -> TutorRows], asked \in Queries,
         NEW t \in Tutors, NEW u \in Tutors, t # u
  PROVE  Before(t, u) \/ Before(u, t)
<1>1. /\ t \in Nat /\ u \in Nat
      /\ table[t].rate \in Nat /\ table[u].rate \in Nat
      /\ table[t].rating \in Nat /\ table[u].rating \in Nat
  BY TutorSearchAssumption DEF TutorRows
<1>2. asked.by \in Orders
  BY DEF Queries
<1>3. CASE asked.by = "rating"
  BY <1>1, <1>3 DEF Before
<1>4. CASE asked.by = "rate_asc"
  BY <1>1, <1>4 DEF Before
<1>5. CASE asked.by = "newest"
  BY <1>1, <1>5 DEF Before
<1>6. QED BY <1>2, <1>3, <1>4, <1>5 DEF Orders

\* No tutor comes before itself.
LEMMA NotBeforeItself ==
  ASSUME table \in [Tutors -> TutorRows], NEW t \in Tutors
  PROVE  ~Before(t, t)
<1>1. t \in Nat /\ table[t].rate \in Nat /\ table[t].rating \in Nat
  BY TutorSearchAssumption DEF TutorRows
<1>2. QED BY <1>1 DEF Before

\* A reply lists every tutor that matches, and as many come before one as its
\* place says.
LEMMA PlaceIsCount ==
  ASSUME table \in [Tutors -> TutorRows], asked \in Queries, NEW q \in Sorted
  PROVE  /\ q \in Seq(Tutors) /\ Len(q) = Cardinality(Matching)
         /\ \A t \in Matching : \E j \in 1 .. Len(q) : q[j] = t
         /\ \A j \in 1 .. Len(q) :
              /\ q[j] \in Matching
              /\ Cardinality({t \in Matching : Before(t, q[j])}) = j - 1
<1> DEFINE N == Cardinality(Matching)
<1>1. Matching \in SUBSET Tutors /\ IsFiniteSet(Matching) /\ N \in Nat
  BY MatchingIsFinite
<1>2. /\ q \in [1 .. N -> Matching] /\ \A i, j \in 1 .. N : i # j => q[i] # q[j]
      /\ \A j \in 1 .. Len(q) : \A i \in 1 .. j - 1 : ~Before(q[j], q[i])
  BY DEF Sorted, SetToSeqs
<1> HIDE DEF N
<1>3. q \in Seq(Tutors) /\ Len(q) = N
  BY <1>1, <1>2
<1>4. \A t \in Matching : \E j \in 1 .. N : q[j] = t
  <2>1. q \in Injection(1 .. N, Matching)
    BY <1>2 DEF Injection, IsInjective
  <2>2. Cardinality(1 .. N) = N /\ IsFiniteSet(1 .. N)
    BY <1>1, FS_Interval
  <2>3. q \in Surjection(1 .. N, Matching)
    BY <1>1, <2>1, <2>2, FS_Injection DEF N
  <2>4. QED BY <2>3 DEF Surjection
<1>5. ASSUME NEW j \in 1 .. N
      PROVE  Cardinality({t \in Matching : Before(t, q[j])}) = j - 1
  <2> DEFINE those == {t \in Matching : Before(t, q[j])}
             first == [i \in 1 .. j - 1 |-> q[i]]
  <2>1. ASSUME NEW i \in 1 .. j - 1 PROVE q[i] \in those /\ i \in 1 .. N
    <3>1. i \in 1 .. N /\ i # j
      BY <1>1
    <3>2. q[i] \in Tutors /\ q[j] \in Tutors /\ q[i] # q[j] /\ ~Before(q[j], q[i])
      BY <1>1, <1>2, <1>3, <3>1
    <3>3. Before(q[i], q[j])
      BY <3>2, BeforeTotal
    <3>4. QED BY <1>2, <3>1, <3>3
  <2>2. ASSUME NEW t \in those PROVE \E i \in 1 .. j - 1 : q[i] = t
    <3>1. PICK i \in 1 .. N : q[i] = t
      BY <1>4
    <3>2. i # j
      BY <1>1, <1>2, <3>1, NotBeforeItself
    <3>3. ~(i > j)
      <4> SUFFICES ASSUME i > j PROVE FALSE
        OBVIOUS
      <4>1. j \in 1 .. i - 1
        BY <1>1
      <4>2. QED BY <1>2, <1>3, <3>1, <4>1
    <3>4. i \in 1 .. j - 1
      BY <1>1, <3>2, <3>3
    <3>5. QED BY <3>1, <3>4
  <2>3. first \in Bijection(1 .. j - 1, those)
    <3> HIDE DEF those
    <3>1. first \in [1 .. j - 1 -> those]
      BY <2>1
    <3>2. \A a, b \in 1 .. j - 1 : first[a] = first[b] => a = b
      BY <1>2, <2>1
    <3>3. \A t \in those : \E i \in 1 .. j - 1 : first[i] = t
      BY <2>2
    <3>4. QED
      BY <3>1, <3>2, <3>3 DEF Bijection, Injection, Surjection, IsInjective
  <2>4. ExistsBijection(1 .. j - 1, those)
    BY <2>3 DEF ExistsBijection
  <2>5. j - 1 \in Nat /\ Cardinality(1 .. j - 1) = j - 1 /\ IsFiniteSet(1 .. j - 1)
    BY <1>1, FS_Interval
  <2> HIDE DEF those
  <2>6. Cardinality(those) = j - 1
    BY <2>4, <2>5, FS_Bijection
  <2>7. QED BY <2>6 DEF those
<1>6. QED
  BY <1>2, <1>3, <1>4, <1>5 DEF N

\* However tutors tie, a table has one order.
LEMMA OneOrder ==
  ASSUME table \in [Tutors -> TutorRows], asked \in Queries,
         NEW q \in Sorted, NEW r \in Sorted
  PROVE  q = r
<1>1. /\ q \in Seq(Tutors) /\ r \in Seq(Tutors) /\ Len(q) = Len(r)
      /\ \A j \in 1 .. Len(q) :
           /\ q[j] \in Matching
           /\ Cardinality({t \in Matching : Before(t, q[j])}) = j - 1
      /\ \A t \in Matching : \E j \in 1 .. Len(r) : r[j] = t
      /\ \A j \in 1 .. Len(r) : Cardinality({t \in Matching : Before(t, r[j])}) = j - 1
  BY PlaceIsCount
<1>2. ASSUME NEW j \in 1 .. Len(q) PROVE q[j] = r[j]
  <2>1. PICK k \in 1 .. Len(r) : r[k] = q[j]
    BY <1>1
  <2>2. k - 1 = j - 1
    BY <1>1, <2>1
  <2>3. k = j
    BY <1>1, <2>2
  <2>4. QED BY <2>1, <2>3
<1>3. QED
  BY <1>1, <1>2, SeqEqual

\* There is a next page where rows lie beyond this one.
LEMMA NextPage ==
  ASSUME NEW p \in Nat \ {0}, NEW n \in Nat, NEW size \in Nat \ {0}
  PROVE  p < (n + size - 1) \div size <=> p * size < n
<1>1. PICK last : last = (n + size - 1) \div size
  OBVIOUS
<1>2. /\ last \in Nat /\ last * size <= n + size - 1
      /\ n + size - 1 < last * size + size
  BY <1>1
<1>3. ASSUME p < last PROVE p * size < n
  <2>1. (p + 1) * size <= last * size
    BY <1>2, <1>3
  <2>2. (p + 1) * size = p * size + size
    OBVIOUS
  <2>3. p * size \in Nat /\ last * size \in Nat
    BY <1>2
  <2>4. QED BY <1>2, <2>1, <2>2, <2>3
<1>4. ASSUME ~(p < last) PROVE ~(p * size < n)
  <2>1. last * size <= p * size
    BY <1>2, <1>4
  <2>2. p * size \in Nat /\ last * size \in Nat
    BY <1>2
  <2>3. QED BY <1>2, <2>1, <2>2
<1>5. QED BY <1>1, <1>3, <1>4

-----------------------------------------------------------------------------
(* The invariant *)

SearchTypes ==
  /\ table \in [Tutors -> TutorRows] /\ asked \in Queries
  /\ at \in {"rest", "count", "fetch"} /\ page \in Nat \ {0} /\ total \in Nat

\* While the table rests, the pages shown are the reply's beginning, and the
\* count is its length.
WalkSoFar ==
  /\ fresh /\ at = "fetch" => total = Cardinality(Matching)
  /\ fresh /\ at # "rest" =>
       \A q \in Sorted :
         /\ (page - 1) * PerPage <= Len(q)
         /\ shown = SubSeq(q, 1, (page - 1) * PerPage)

SearchInv == SearchTypes /\ WalkSoFar /\ WalkShowsEach

LEMMA FetchKeepsWalk ==
  ASSUME SearchInv, Fetch
  PROVE  SearchInv'
<1>1. /\ SearchTypes /\ WalkSoFar
      /\ at = "fetch"
      /\ UNCHANGED <<table, moves, asked, total, fresh>>
      /\ PerPage \in Nat \ {0}
  BY TutorSearchAssumption DEF SearchInv, Fetch
<1>2. PICK q \in Sorted : shown' = shown \o PageOf(q)
  BY DEF Fetch
<1>3. Sorted' = Sorted /\ Matching' = Matching
  BY <1>1 DEF Sorted, Matching, Before
<1>4. SearchTypes'
  <2>1. at' \in {"rest", "count"} /\ page' \in Nat \ {0}
    <3>1. page' = page \/ page' = page + 1
      BY DEF Fetch
    <3>2. page' \in Nat \ {0}
      BY <1>1, <3>1 DEF SearchTypes
    <3>3. QED BY <3>2 DEF Fetch
  <2>2. QED BY <1>1, <2>1 DEF SearchTypes
<1>5. CASE ~fresh
  BY <1>1, <1>4, <1>5 DEF SearchInv, WalkSoFar, WalkShowsEach
<1>6. CASE fresh
  <2>1. PICK before \in Nat : before = (page - 1) * PerPage
    BY <1>1 DEF SearchTypes
  <2>2. PICK end \in Nat : end = page * PerPage
    BY <1>1 DEF SearchTypes
  <2>3. end = before + PerPage
    BY <1>1, <2>1, <2>2 DEF SearchTypes
  <2>4. /\ q \in Seq(Tutors) /\ Len(q) = total /\ total \in Nat
        /\ before <= Len(q) /\ shown = SubSeq(q, 1, before)
        /\ \A r \in Sorted : r = q
    BY <1>1, <1>2, <1>6, <2>1, PlaceIsCount, OneOrder DEF SearchTypes, WalkSoFar
  <2>5. PICK upto \in Nat : /\ upto = (IF end < Len(q) THEN end ELSE Len(q))
                            /\ before <= upto /\ upto <= Len(q)
    BY <1>1, <2>3, <2>4
  <2>6. PageOf(q) = SubSeq(q, before + 1, upto)
    <3>1. Min({end, Len(q)}) = upto
      BY <2>2, <2>4, <2>5 DEF Min
    <3>2. QED BY <2>1, <2>2, <3>1 DEF PageOf
  <2>7. shown' = SubSeq(q, 1, upto)
    <3>1. /\ 1 \in 1 .. Len(q) + 1 /\ before \in 1 - 1 .. Len(q)
          /\ upto \in before .. Len(q)
      BY <2>4, <2>5
    <3>2. QED BY <1>2, <2>4, <2>6, <3>1, ConcatAdjacentSubSeq
  <2>8. page < TotalPages <=> end < Len(q)
    <3>1. CASE total = 0
      BY <1>1, <2>2, <2>4, <3>1 DEF TotalPages, SearchTypes
    <3>2. CASE total # 0
      <4>1. page < (total + PerPage - 1) \div PerPage <=> page * PerPage < total
        BY <1>1, <2>4, NextPage DEF SearchTypes
      <4>2. QED BY <2>2, <2>4, <3>2, <4>1 DEF TotalPages
    <3>3. QED BY <3>1, <3>2
  <2>9. CASE end < Len(q)
    <3>1. at' = "count" /\ page' = page + 1
      BY <2>8, <2>9 DEF Fetch
    <3>2. (page' - 1) * PerPage = end /\ upto = end
      BY <1>1, <2>2, <2>5, <2>9, <3>1 DEF SearchTypes
    <3>3. WalkSoFar' /\ WalkShowsEach'
      BY <1>3, <2>4, <2>5, <2>7, <3>1, <3>2 DEF WalkSoFar, WalkShowsEach
    <3>4. QED BY <1>4, <3>3 DEF SearchInv
  <2>10. CASE ~(end < Len(q))
    <3>1. at' = "rest"
      BY <2>8, <2>10 DEF Fetch
    <3>2. shown' = q
      BY <2>4, <2>5, <2>7, <2>10, SubSeqFull
    <3>3. WalkSoFar' /\ WalkShowsEach'
      BY <1>2, <1>3, <3>1, <3>2 DEF WalkSoFar, WalkShowsEach
    <3>4. QED BY <1>4, <3>3 DEF SearchInv
  <2>11. QED BY <2>9, <2>10
<1>7. QED BY <1>5, <1>6

LEMMA SearchKept == SearchInv /\ [SearchNext]_searchVars => SearchInv'
<1> SUFFICES ASSUME SearchInv, [SearchNext]_searchVars PROVE SearchInv'
  OBVIOUS
<1> USE DEF SearchTypes
<1>0. SearchTypes /\ WalkSoFar /\ WalkShowsEach /\ PerPage \in Nat \ {0}
  BY TutorSearchAssumption DEF SearchInv
<1>1. ASSUME NEW wish \in Queries, Search(wish) PROVE SearchInv'
  <2>1. /\ at' = "count" /\ asked' = wish /\ page' = 1 /\ shown' = <<>>
        /\ table' = table /\ total' = total
    BY <1>1 DEF Search
  <2>2. SearchTypes'
    BY <1>0, <2>1
  <2>3. ASSUME NEW q \in Sorted'
        PROVE  (1 - 1) * PerPage <= Len(q) /\ <<>> = SubSeq(q, 1, (1 - 1) * PerPage)
    <3>1. (1 - 1) * PerPage = 0
      BY <1>0
    <3>2. SubSeq(q, 1, 0) = <<>>
      BY SubSeqEmpty
    <3>3. Len(q) \in Nat
      <4>1. q \in SetToSeqs(Matching')
        BY <2>3 DEF Sorted
      <4>2. Cardinality(Matching') \in Nat
        BY TutorSearchAssumption, FS_Subset, FS_CardinalityType DEF Matching
      <4>3. QED BY <4>1, <4>2 DEF SetToSeqs
    <3>4. QED BY <3>1, <3>2, <3>3
  <2>4. WalkSoFar' /\ WalkShowsEach'
    BY <2>1, <2>3 DEF WalkSoFar, WalkShowsEach
  <2>5. QED BY <2>2, <2>4 DEF SearchInv
<1>2. CASE Count
  <2>1. /\ at = "count" /\ at' = "fetch" /\ total' = Cardinality(Matching)
        /\ UNCHANGED <<table, asked, page, shown, fresh>>
    BY <1>2 DEF Count
  <2>2. Sorted' = Sorted /\ Matching' = Matching
    BY <2>1 DEF Sorted, Matching, Before
  <2>3. SearchTypes'
    BY <1>0, <2>1, MatchingIsFinite
  <2>4. WalkSoFar' /\ WalkShowsEach'
    BY <1>0, <2>1, <2>2 DEF WalkSoFar, WalkShowsEach
  <2>5. QED BY <2>3, <2>4 DEF SearchInv
<1>3. CASE Fetch
  BY <1>3, FetchKeepsWalk
<1>4. ASSUME NEW t \in Tutors, NEW row \in TutorRows, Move(t, row) PROVE SearchInv'
  BY <1>0, <1>4 DEF Move, SearchInv, WalkSoFar, WalkShowsEach
<1>5. CASE UNCHANGED searchVars
  BY <1>0, <1>5
  DEF searchVars, SearchInv, WalkSoFar, WalkShowsEach, Sorted, Matching, Before
<1>6. QED
  BY <1>1, <1>2, <1>3, <1>4, <1>5 DEF SearchNext

\* A walk over a table at rest shows every tutor that matches, once and in
\* order, whatever the page size (postgres_tutor_repo.py:29-33).
THEOREM WalkIsComplete == SearchSpec => []WalkShowsEach
<1>1. SearchInit => SearchInv
  BY DEF SearchInit, SearchInv, SearchTypes, WalkSoFar, WalkShowsEach
<1>2. SearchInv => WalkShowsEach
  BY DEF SearchInv
<1>3. QED
  BY <1>1, <1>2, SearchKept, PTL DEF SearchSpec
=============================================================================
