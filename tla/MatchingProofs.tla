------------------------- MODULE MatchingProofs ---------------------------
(***************************************************************************)
(* Theorems about module Matching, for every set of requests, matches,     *)
(* tutors, students and accounts: types, the row locks, what they protect, *)
(* and the refinement of MatchLifecycle.                                   *)
(***************************************************************************)
EXTENDS Matching, FiniteSetTheorems, TLAPS

-----------------------------------------------------------------------------
(* Type correctness: TypeOK with the facts that are local to a request *)

TypeInv == TypeOK /\ Called /\ Granted

LEMMA NoReqType == NoReq \notin Requests
BY DomainAssumption DEF NoReq, Requests

LEMMA RowTypes ==
  /\ Absent \in Row
  /\ \A trial \in BOOLEAN : Invited(trial) \in Row
BY DEF Absent, Invited, Row, Statuses, Live

\* The row a request was let past has a status of its own.
LEMMA TargetFrom ==
  ASSUME NEW row, NEW r, NEW new, Target(r, row, new)
  PROVE  row.status \in Live
BY DEF Target, Resolves, TRANSITIONS, Edge, Live

LEMMA InitTypeInv == Init => TypeInv
<1> SUFFICES ASSUME Init PROVE TypeInv
  OBVIOUS
<1>1. TypeOK
  BY RowTypes DEF Init, TypeOK
<1>2. Called /\ Granted
  BY DEF Init, Called, Granted, Inviting, NoReq
<1>3. QED
  BY <1>1, <1>2 DEF TypeInv

LEMMA TypeInvStep == TypeInv /\ [Next]_vars => TypeInv'
<1> SUFFICES ASSUME TypeInv, [Next]_vars PROVE TypeInv'
  OBVIOUS
<1> USE DomainAssumption, SlotAssumption, NoReqType, RowTypes
    DEF TypeInv, TypeOK, Called, TableUnchanged, Inviting, Goto
<1>1. ASSUME NEW s \in Slots, NEW m \in MatchIds, NEW u \in Users,
             NEW trial \in BOOLEAN, BeginInvite(s, m, u, trial)
      PROVE  TypeInv'
  <2> DEFINE r == [action |-> "invite", m |-> m, user |-> u,
                   trial |-> trial, terms |-> FALSE]
  <2>0. r \in Requests /\ r # NoReq /\ r.action = "invite"
    <3>1. r \in Requests
      BY DEF Requests
    <3>2. QED BY <3>1, NoReqType
  <2> HIDE DEF r
  <2>1. TypeOK' /\ Called'
    BY <1>1, <2>0 DEF BeginInvite, r
  <2>2. Granted'
    BY <1>1 DEF BeginInvite, Granted
  <2>3. QED BY <2>1, <2>2
<1>2. ASSUME NEW s \in Slots, NEW m \in MatchIds, NEW u \in Users,
             NEW action \in Asked, NEW terms \in BOOLEAN,
             BeginUpdate(s, m, u, action, terms)
      PROVE  TypeInv'
  <2> DEFINE r == [action |-> action, m |-> m, user |-> u,
                   trial |-> FALSE, terms |-> terms]
  <2>0. r \in Requests /\ r # NoReq /\ r.action # "invite"
    <3>1. action \in Actions /\ action # "invite"
      BY DEF Actions
    <3>2. r \in Requests
      BY <3>1 DEF Requests
    <3>3. QED BY <3>1, <3>2, NoReqType
  <2> HIDE DEF r
  <2>1. TypeOK' /\ Called'
    BY <1>2, <2>0 DEF BeginUpdate, r
  <2>2. Granted'
    BY <1>2 DEF BeginUpdate, Granted
  <2>3. QED BY <2>1, <2>2
<1>3. ASSUME NEW s \in Slots, Leave(s), TableUnchanged
      PROVE  TypeInv'
  <2>1. TypeOK' /\ Called'
    BY <1>3 DEF Leave, Unlock, Forget
  <2>2. Granted'
    BY <1>3 DEF Leave, Unlock, Forget, Granted
  <2>3. QED BY <2>1, <2>2
<1>4. ASSUME NEW s \in Slots, LockStudent(s)
      PROVE  TypeInv'
  <2>1. CASE Leave(s) /\ TableUnchanged
    BY <1>3, <2>1
  <2>2. CASE Lock(s, StudentRow(s)) /\ Goto(s, "tutor") /\ UNCHANGED <<req, seen>>
    <3>1. TypeOK' /\ Called'
      BY <1>4, <2>2 DEF LockStudent, Lock, StudentRow, Rows, Id, Requests
    <3>2. Granted'
      BY <1>4, <2>2 DEF LockStudent, Granted
    <3>3. QED BY <3>1, <3>2
  <2>3. QED
    BY <1>4, <2>1, <2>2 DEF LockStudent
<1>5. ASSUME NEW s \in Slots, LockTutor(s)
      PROVE  TypeInv'
  <2>1. TypeOK' /\ Called'
    BY <1>5 DEF LockTutor, Lock, TutorRow, Rows, Id, Requests
  <2>2. Granted'
    BY <1>5 DEF LockTutor, Granted
  <2>3. QED BY <2>1, <2>2
<1>6. ASSUME NEW s \in Slots, CheckDuplicate(s)
      PROVE  TypeInv'
  <2>1. CASE Leave(s) /\ TableUnchanged
    BY <1>3, <2>1
  <2>2. CASE Goto(s, "seat") /\ UNCHANGED <<req, seen, held>>
    BY <1>6, <2>2 DEF CheckDuplicate, Granted
  <2>3. QED
    BY <1>6, <2>1, <2>2 DEF CheckDuplicate
<1>7. ASSUME NEW s \in Slots, CheckSeat(s)
      PROVE  TypeInv'
  <2>1. TypeOK' /\ Called'
    BY <1>7 DEF CheckSeat, Unlock
  <2>2. ~Inviting(s) => \E new \in Statuses : Target(req[s], seen[s], new)
    BY <1>7 DEF CheckSeat, Granted, NeedsSeat, Statuses, Live
  <2>3. Granted'
    BY <1>7, <2>2 DEF CheckSeat, Granted
  <2>4. QED BY <2>1, <2>3
<1>8. ASSUME NEW s \in Slots, InsertMatch(s)
      PROVE  TypeInv'
  <2>1. TypeOK' /\ Called'
    BY <1>8 DEF InsertMatch, Leave, Unlock, Forget, Id, Requests
  <2>2. Granted'
    BY <1>8 DEF InsertMatch, Leave, Unlock, Forget, Granted
  <2>3. QED BY <2>1, <2>2
<1>9. ASSUME NEW s \in Slots, LockMatch(s)
      PROVE  TypeInv'
  <2>1. CASE Leave(s) /\ TableUnchanged
    BY <1>3, <2>1
  <2>2. CASE /\ \E new \in Statuses : Target(req[s], match[Id(s)], new)
             /\ Lock(s, MatchRow(s))
             /\ seen' = [seen EXCEPT ![s] = match[Id(s)]]
             /\ Goto(s, IF NeedsSeat(req[s], match[Id(s)]) THEN "tutor" ELSE "write")
             /\ UNCHANGED req
    <3>1. req[s] \in Requests /\ Id(s) \in MatchIds
      BY <1>9 DEF LockMatch, Id, Requests
    <3>2. TypeOK' /\ Called'
      BY <1>9, <2>2, <3>1 DEF LockMatch, Lock, MatchRow, Rows
    <3>3. Granted'
      BY <1>9, <2>2, <3>1 DEF LockMatch, Granted
    <3>4. QED BY <3>2, <3>3
  <2>3. QED
    BY <1>9, <2>1, <2>2 DEF LockMatch
<1>10. ASSUME NEW s \in Slots, WriteMatch(s)
       PROVE  TypeInv'
  <2>1. req[s] \in Requests /\ Id(s) \in MatchIds /\ req[s].action \in Actions
    BY <1>10 DEF WriteMatch, Id, Requests
  <2>2. PICK new \in Statuses :
          /\ Target(req[s], seen[s], new)
          /\ IF req[s].terms /\ match[Id(s)].status # "trial"
             THEN Leave(s) /\ UNCHANGED <<match, adminWrites>>
             ELSE /\ match' = Written(s, new)
                  /\ Unlock(s)
                  /\ IF IsAdmin(req[s].user)
                     THEN /\ adminWrites' = adminWrites \cup {Entry(s, new)}
                          /\ Goto(s, "audit")
                          /\ UNCHANGED <<req, seen>>
                     ELSE /\ Goto(s, "idle")
                          /\ Forget(s)
                          /\ UNCHANGED adminWrites
    BY <1>10 DEF WriteMatch
  <2>3. CASE Leave(s) /\ UNCHANGED <<match, adminWrites>>
    BY <1>10, <1>3, <2>3 DEF WriteMatch
  <2>4. CASE match' = Written(s, new) /\ Unlock(s)
    <3>1. Written(s, new) \in [MatchIds -> Row]
      <4>1. seen[s].status \in PreTermination \/ req[s].action # "terminate"
        BY <2>2 DEF Target, Resolves, TRANSITIONS, Edge, PreTermination
      <4>2. match[Id(s)] \in Row /\ req[s].user \in Users
        BY <2>1 DEF Requests
      <4>3. CASE req[s].action = "terminate"
        <5>1. seen[s].status \in PreTermination
          BY <4>1, <4>3
        <5>2. [match[Id(s)] EXCEPT !.status = new, !.by = req[s].user,
                                   !.prev = seen[s].status] \in Row
          BY <4>2, <5>1 DEF Row
        <5>3. QED BY <2>1, <4>2, <4>3, <5>2 DEF Written
      <4>4. CASE req[s].action = "disagree_terminate"
        <5>1. [match[Id(s)] EXCEPT !.status = new, !.by = NoUser,
                                   !.prev = "none"] \in Row
          BY <4>2 DEF Row
        <5>2. QED BY <2>1, <4>2, <4>4, <5>1 DEF Written
      <4>5. CASE req[s].action \notin {"terminate", "disagree_terminate"}
        <5>1. [match[Id(s)] EXCEPT !.status = new] \in Row
          BY <4>2 DEF Row
        <5>2. QED BY <2>1, <4>2, <4>5, <5>1 DEF Written
      <4>6. QED BY <4>3, <4>4, <4>5
    <3>2. Entry(s, new) \in Entries
      <4>1. seen[s].status \in Statuses
        BY <2>2, TargetFrom DEF Statuses
      <4>2. QED
        BY <2>1, <4>1 DEF Entry, Entries, Requests
    <3>3. TypeOK' /\ Called'
      BY <1>10, <2>1, <2>2, <2>4, <3>1, <3>2 DEF WriteMatch, Unlock, Forget, Leave
    <3>4. Granted'
      BY <1>10, <2>1, <2>2, <2>4 DEF WriteMatch, Granted, Unlock, Forget, Leave
    <3>5. QED BY <3>3, <3>4
  <2>5. QED
    BY <2>2, <2>3, <2>4
<1>11. ASSUME NEW s \in Slots, WriteAudit(s)
       PROVE  TypeInv'
  <2>1. audit' \subseteq Entries
    <3>1. req[s] \in Requests /\ Id(s) \in MatchIds /\ req[s].action \in Actions
      BY <1>11 DEF WriteAudit, Id, Requests
    <3>2. ASSUME NEW new \in Statuses, Target(req[s], seen[s], new)
          PROVE  Entry(s, new) \in Entries
      <4>1. seen[s].status \in Statuses
        BY <3>2, TargetFrom DEF Statuses
      <4>2. QED
        BY <3>1, <4>1 DEF Entry, Entries, Requests
    <3>3. QED
      BY <1>11, <3>2 DEF WriteAudit
  <2>2. TypeOK' /\ Called'
    BY <1>11, <2>1 DEF WriteAudit, Leave, Unlock, Forget
  <2>3. Granted'
    BY <1>11 DEF WriteAudit, Leave, Unlock, Forget, Granted
  <2>4. QED BY <2>2, <2>3
<1>12. ASSUME NEW t \in Tutors, NEW n \in Capacities, SetCapacity(t, n)
       PROVE  TypeInv'
  BY <1>12 DEF SetCapacity, Granted
<1>13. CASE UNCHANGED vars
  BY <1>13 DEF vars, Granted
<1>14. QED
  BY <1>1, <1>2, <1>3, <1>4, <1>5, <1>6, <1>7, <1>8, <1>9, <1>10, <1>11, <1>12,
     <1>13
  DEF Next, Begin, TakeLock, Compute, AnswerFull, Crash

\* Every variable keeps its type, and every statement belongs to the handler
\* it is part of, whatever requests run at once.
THEOREM TypeCorrect == Spec => []TypeOK
<1>1. TypeInv => TypeOK
  BY DEF TypeInv
<1>2. QED
  BY InitTypeInv, TypeInvStep, <1>1, PTL DEF Spec

-----------------------------------------------------------------------------
(***************************************************************************)
(* The row locks of module Matching: who holds which before each           *)
(* statement, and that the order in which they are taken rules out a       *)
(* circle of waiting transactions, for any number of requests.             *)
(***************************************************************************)

LockInv == LocksHeld /\ Exclusive

-----------------------------------------------------------------------------
(* A request that does not move keeps its locks *)

LEMMA LocksOfFrame ==
  ASSUME NEW o \in Slots,
         pc'[o] = pc[o], req'[o] = req[o], seen'[o] = seen[o]
  PROVE  LocksOf(o)' = LocksOf(o)
BY DEF LocksOf, StudentRow, MatchRow, TutorRow, Id, Inviting

\* The step of one request: its new locks are those of its new statement, and
\* it gained only rows nobody had.
LEMMA OneRequestLocks ==
  ASSUME LockInv, NEW s \in Slots,
         \A o \in Slots \ {s} : /\ pc'[o] = pc[o] /\ req'[o] = req[o]
                                /\ seen'[o] = seen[o] /\ held'[o] = held[o],
         held'[s] = LocksOf(s)',
         \A row \in held'[s] : row \in held[s] \/ Free(row)
  PROVE  LockInv'
<1>1. LocksHeld'
  <2>1. ASSUME NEW o \in Slots PROVE held'[o] = LocksOf(o)'
    <3>1. CASE o = s
      BY <3>1
    <3>2. CASE o # s
      BY <3>2, LocksOfFrame DEF LockInv, LocksHeld
    <3>3. QED BY <3>1, <3>2
  <2>2. QED BY <2>1 DEF LocksHeld
<1>2. Exclusive'
  BY DEF LockInv, Exclusive, Free
<1>3. QED BY <1>1, <1>2 DEF LockInv

\* A request that gives up or commits holds nothing.
LEMMA LeaveLocks ==
  ASSUME TypeInv, LockInv, NEW s \in Slots, Leave(s)
  PROVE  LockInv'
<1>1. \A o \in Slots \ {s} : /\ pc'[o] = pc[o] /\ req'[o] = req[o]
                             /\ seen'[o] = seen[o] /\ held'[o] = held[o]
  BY DEF Leave, Goto, Unlock, Forget, TypeInv, TypeOK
<1>2. held'[s] = {} /\ pc'[s] = "idle"
  BY DEF Leave, Goto, Unlock, TypeInv, TypeOK
<1>3. held'[s] = LocksOf(s)'
  BY <1>2 DEF LocksOf
<1>4. QED BY <1>1, <1>2, <1>3, OneRequestLocks

-----------------------------------------------------------------------------
LEMMA InitLockInv == Init => LockInv
BY DEF Init, LockInv, LocksHeld, Exclusive, LocksOf

LEMMA LockInvStep == TypeInv /\ LockInv /\ [Next]_vars => LockInv'
<1> SUFFICES ASSUME TypeInv, LockInv, [Next]_vars PROVE LockInv'
  OBVIOUS
<1> DEFINE Others(s) ==
      \A o \in Slots \ {s} : /\ pc'[o] = pc[o] /\ req'[o] = req[o]
                             /\ seen'[o] = seen[o] /\ held'[o] = held[o]
<1> USE DEF TypeInv, TypeOK
<1>1. ASSUME NEW s \in Slots, NEW m \in MatchIds, NEW u \in Users,
             NEW trial \in BOOLEAN, BeginInvite(s, m, u, trial)
      PROVE  LockInv'
  <2>1. Others(s) /\ held' = held /\ pc[s] = "idle" /\ pc'[s] = "student"
    BY <1>1 DEF BeginInvite, Goto
  <2>2. held[s] = {}
    BY <2>1 DEF LockInv, LocksHeld, LocksOf
  <2>3. held'[s] = LocksOf(s)'
    BY <2>1, <2>2 DEF LocksOf
  <2>4. QED BY <2>1, <2>3, OneRequestLocks
<1>2. ASSUME NEW s \in Slots, NEW m \in MatchIds, NEW u \in Users,
             NEW action \in Asked, NEW terms \in BOOLEAN,
             BeginUpdate(s, m, u, action, terms)
      PROVE  LockInv'
  <2>1. Others(s) /\ held' = held /\ pc[s] = "idle" /\ pc'[s] = "match"
    BY <1>2 DEF BeginUpdate, Goto
  <2>2. held[s] = {}
    BY <2>1 DEF LockInv, LocksHeld, LocksOf
  <2>3. held'[s] = LocksOf(s)'
    BY <2>1, <2>2 DEF LocksOf
  <2>4. QED BY <2>1, <2>3, OneRequestLocks
<1>3. ASSUME NEW s \in Slots, LockStudent(s)
      PROVE  LockInv'
  <2>1. CASE Leave(s)
    BY <2>1, LeaveLocks
  <2>2. CASE Lock(s, StudentRow(s)) /\ Goto(s, "tutor") /\ UNCHANGED <<req, seen>>
    <3>1. Others(s) /\ pc[s] = "student" /\ pc'[s] = "tutor" /\ req' = req
      BY <1>3, <2>2 DEF LockStudent, Lock, Goto
    <3>2. Inviting(s)
      BY <3>1 DEF Called
    <3>3. held[s] = {}
      BY <3>1 DEF LockInv, LocksHeld, LocksOf
    <3>4. held'[s] = {StudentRow(s)} /\ Free(StudentRow(s))
      BY <2>2, <3>3 DEF Lock
    <3>5. held'[s] = LocksOf(s)'
      BY <3>1, <3>2, <3>4 DEF LocksOf, StudentRow, Id, Inviting
    <3>6. QED BY <3>1, <3>4, <3>5, OneRequestLocks
  <2>3. QED
    BY <1>3, <2>1, <2>2 DEF LockStudent
<1>4. ASSUME NEW s \in Slots, LockTutor(s)
      PROVE  LockInv'
  <2>1. Others(s) /\ pc[s] = "tutor" /\ req' = req /\ seen' = seen
    BY <1>4 DEF LockTutor, Lock, Goto
  <2>2. held'[s] = held[s] \cup {TutorRow(s)} /\ Free(TutorRow(s))
    BY <1>4 DEF LockTutor, Lock
  <2>3. CASE Inviting(s)
    <3>1. held[s] = {StudentRow(s)} /\ pc'[s] = "duplicate"
      BY <1>4, <2>1, <2>3 DEF LockInv, LocksHeld, LocksOf, LockTutor, Goto
    <3>2. held'[s] = LocksOf(s)'
      BY <2>1, <2>2, <3>1 DEF LocksOf, StudentRow, TutorRow, Id
    <3>3. QED BY <2>1, <2>2, <3>2, OneRequestLocks
  <2>4. CASE ~Inviting(s)
    <3>1. held[s] = {MatchRow(s)} /\ pc'[s] = "seat"
      BY <1>4, <2>1, <2>4 DEF LockInv, LocksHeld, LocksOf, LockTutor, Goto
    <3>2. held'[s] = LocksOf(s)'
      BY <2>1, <2>2, <2>4, <3>1 DEF LocksOf, MatchRow, TutorRow, Id, Inviting
    <3>3. QED BY <2>1, <2>2, <3>2, OneRequestLocks
  <2>5. QED BY <2>3, <2>4
<1>5. ASSUME NEW s \in Slots, CheckDuplicate(s)
      PROVE  LockInv'
  <2>1. CASE Leave(s)
    BY <2>1, LeaveLocks
  <2>2. CASE Goto(s, "seat") /\ UNCHANGED <<req, seen, held>>
    <3>1. /\ Others(s) /\ pc[s] = "duplicate" /\ pc'[s] = "seat"
          /\ req' = req /\ held' = held
      BY <1>5, <2>2 DEF CheckDuplicate, Goto
    <3>2. Inviting(s)
      BY <3>1 DEF Called
    <3>3. held[s] = {StudentRow(s), TutorRow(s)}
      BY <3>1 DEF LockInv, LocksHeld, LocksOf
    <3>4. held'[s] = LocksOf(s)'
      BY <3>1, <3>2, <3>3 DEF LocksOf, StudentRow, TutorRow, Id, Inviting
    <3>5. QED BY <3>1, <3>4, OneRequestLocks
  <2>3. QED
    BY <1>5, <2>1, <2>2 DEF CheckDuplicate
<1>6. ASSUME NEW s \in Slots, CheckSeat(s)
      PROVE  LockInv'
  <2>1. Others(s) /\ pc[s] = "seat" /\ req' = req /\ seen' = seen
    BY <1>6 DEF CheckSeat, Goto, Unlock
  <2>2. CASE Goto(s, "full") /\ Unlock(s)
    <3>1. pc'[s] = "full" /\ held'[s] = {}
      BY <2>2 DEF Goto, Unlock
    <3>2. held'[s] = LocksOf(s)'
      BY <3>1 DEF LocksOf
    <3>3. QED BY <2>1, <3>1, <3>2, OneRequestLocks
  <2>3. CASE Goto(s, IF Inviting(s) THEN "insert" ELSE "write") /\ UNCHANGED held
    <3>1. held' = held
      BY <2>3
    <3>2. CASE Inviting(s)
      <4>1. held[s] = {StudentRow(s), TutorRow(s)} /\ pc'[s] = "insert"
        BY <2>1, <2>3, <3>2 DEF LockInv, LocksHeld, LocksOf, Goto
      <4>2. held'[s] = LocksOf(s)'
        BY <2>1, <3>1, <4>1 DEF LocksOf, StudentRow, TutorRow, Id
      <4>3. QED BY <2>1, <3>1, <4>2, OneRequestLocks
    <3>3. CASE ~Inviting(s)
      <4>1. held[s] = {MatchRow(s), TutorRow(s)} /\ pc'[s] = "write"
        BY <2>1, <2>3, <3>3 DEF LockInv, LocksHeld, LocksOf, Goto
      <4>2. NeedsSeat(req[s], seen[s])
        BY <2>1, <3>3 DEF Granted
      <4>3. held'[s] = LocksOf(s)'
        BY <2>1, <3>1, <4>1, <4>2 DEF LocksOf, MatchRow, TutorRow, Id
      <4>4. QED BY <2>1, <3>1, <4>3, OneRequestLocks
    <3>4. QED BY <3>2, <3>3
  <2>4. QED
    BY <1>6, <2>2, <2>3 DEF CheckSeat
<1>7. ASSUME NEW s \in Slots, InsertMatch(s)
      PROVE  LockInv'
  BY <1>7, LeaveLocks DEF InsertMatch
<1>8. ASSUME NEW s \in Slots, LockMatch(s)
      PROVE  LockInv'
  <2>1. CASE Leave(s)
    BY <2>1, LeaveLocks
  <2>2. CASE /\ Lock(s, MatchRow(s))
             /\ seen' = [seen EXCEPT ![s] = match[Id(s)]]
             /\ Goto(s, IF NeedsSeat(req[s], match[Id(s)]) THEN "tutor" ELSE "write")
             /\ UNCHANGED req
    <3>1. /\ Others(s) /\ pc[s] = "match" /\ req' = req
          /\ seen'[s] = match[Id(s)]
          /\ pc'[s] = IF NeedsSeat(req[s], match[Id(s)]) THEN "tutor" ELSE "write"
      BY <1>8, <2>2 DEF LockMatch, Lock, Goto
    <3>2. ~Inviting(s)
      BY <3>1 DEF Called
    <3>3. held[s] = {}
      BY <3>1 DEF LockInv, LocksHeld, LocksOf
    <3>4. held'[s] = {MatchRow(s)} /\ Free(MatchRow(s))
      BY <2>2, <3>3 DEF Lock
    <3>5. held'[s] = LocksOf(s)'
      <4>1. CASE NeedsSeat(req[s], match[Id(s)])
        BY <3>1, <3>2, <3>4, <4>1 DEF LocksOf, MatchRow, Id, Inviting
      <4>2. CASE ~NeedsSeat(req[s], match[Id(s)])
        BY <3>1, <3>2, <3>4, <4>2 DEF LocksOf, MatchRow, Id, Inviting
      <4>3. QED BY <4>1, <4>2
    <3>6. QED BY <3>1, <3>4, <3>5, OneRequestLocks
  <2>3. QED
    BY <1>8, <2>1, <2>2 DEF LockMatch
<1>9. ASSUME NEW s \in Slots, WriteMatch(s)
      PROVE  LockInv'
  <2>1. CASE Leave(s)
    BY <2>1, LeaveLocks
  <2>2. CASE /\ Unlock(s)
             /\ \/ Goto(s, "audit") /\ UNCHANGED <<req, seen>>
                \/ Goto(s, "idle") /\ Forget(s)
    <3>1. Others(s) /\ held'[s] = {} /\ pc'[s] \in {"audit", "idle"}
      BY <2>2 DEF Unlock, Goto, Forget
    <3>2. held'[s] = LocksOf(s)'
      BY <3>1 DEF LocksOf
    <3>3. QED BY <3>1, <3>2, OneRequestLocks
  <2>3. QED
    BY <1>9, <2>1, <2>2 DEF WriteMatch
<1>10. ASSUME NEW s \in Slots, WriteAudit(s) \/ AnswerFull(s) \/ Crash(s)
       PROVE  LockInv'
  BY <1>10, LeaveLocks DEF WriteAudit, AnswerFull, Crash
<1>11. ASSUME NEW t \in Tutors, NEW n \in Capacities, SetCapacity(t, n)
       PROVE  LockInv'
  BY <1>11, LocksOfFrame DEF SetCapacity, LockInv, LocksHeld, Exclusive
<1>12. CASE UNCHANGED vars
  BY <1>12, LocksOfFrame DEF vars, LockInv, LocksHeld, Exclusive
<1>13. QED
  BY <1>1, <1>2, <1>3, <1>4, <1>5, <1>6, <1>7, <1>8, <1>9, <1>10, <1>11, <1>12
  DEF Next, Begin, TakeLock, Compute

-----------------------------------------------------------------------------
LEMMA LockOrderFollows == TypeInv /\ LockInv => LockOrder
<1> SUFFICES ASSUME TypeInv, LockInv PROVE LockOrder
  OBVIOUS
<1>1. \A s, o \in Slots : s # o => held[s] \cap held[o] = {}
  BY DEF LockInv, Exclusive
<1>2. ASSUME NEW s \in Slots, NEW row \in Rows, WaitsFor(s, row), NEW r \in held[s]
      PROVE  Rank(r) < Rank(row)
  <2>1. pc[s] = "tutor" /\ row = TutorRow(s)
    BY <1>2 DEF WaitsFor, LockInv, LocksHeld, LocksOf
  <2>2. r = StudentRow(s) \/ r = MatchRow(s)
    BY <1>2, <2>1 DEF LockInv, LocksHeld, LocksOf
  <2>3. QED
    BY <2>1, <2>2 DEF Rank, StudentRow, MatchRow, TutorRow
<1>3. QED BY <1>1, <1>2 DEF LockOrder

\* create_match and update_status lock rows in one order and never share one:
\* whatever requests run at once, no circle of waiting transactions can form.
THEOREM LocksInOrder == Spec => []LockOrder
BY InitTypeInv, TypeInvStep, InitLockInv, LockInvStep, LockOrderFollows, PTL
DEF Spec

-----------------------------------------------------------------------------
(***************************************************************************)
(* What the row locks of module Matching protect: the row a transaction    *)
(* read, the target and the seat it found free.  The argument is always    *)
(* the same: a write by another request would need a row lock this one     *)
(* holds, or it can only make live matches fewer.                          *)
(***************************************************************************)

\* The facts about one request.
Protected(s) ==
  /\ ~Inviting(s) /\ pc[s] \in {"tutor", "seat", "write"} => seen[s] = match[Id(s)]
  /\ Inviting(s) /\ pc[s] \in {"seat", "insert"}
       => /\ ~Duplicate(match, Id(s))
          /\ <<TutorOf[Id(s)], SubjectOf[Id(s)]>> \in Teaches
  /\ pc[s] = "insert" \/ (pc[s] = "write" /\ NeedsSeat(req[s], seen[s]))
       => HasSeat(match, maxStudents, TutorOf[Id(s)])

DataInv == Reserved /\ OneLiveMatch /\ \A s \in Slots : Protected(s)

LEMMA DataInvParts ==
  ASSUME DataInv, Called
  PROVE  SeenIsCurrent /\ TargetStaysFree /\ SeatStaysFree /\ IndexNeverFires
         /\ OneLiveMatch
BY DEF DataInv, Protected, SeenIsCurrent, TargetStaysFree, SeatStaysFree,
       IndexNeverFires, Called

-----------------------------------------------------------------------------
(* Counting *)

\* Fewer live matches leave a seat free.
LEMMA SeatKept ==
  ASSUME NEW f, NEW g, NEW t \in Tutors, NEW seats, seats[t] \in Nat,
         LiveMatches(f, t) \subseteq LiveMatches(g, t),
         HasSeat(g, seats, t)
  PROVE  HasSeat(f, seats, t)
<1>1. IsFiniteSet(LiveMatches(g, t))
  BY DomainAssumption, FS_Subset DEF LiveMatches
<1>2. Cardinality(LiveMatches(f, t)) <= Cardinality(LiveMatches(g, t))
  BY <1>1, FS_Subset
<1>3. /\ Cardinality(LiveMatches(f, t)) \in Nat
      /\ Cardinality(LiveMatches(g, t)) \in Nat
  BY <1>1, FS_Subset, FS_CardinalityType
<1>4. QED
  BY <1>2, <1>3 DEF HasSeat

-----------------------------------------------------------------------------
(* Steps that leave the tables alone *)

LEMMA ProtectedFrame ==
  ASSUME NEW o \in Slots, Protected(o),
         pc'[o] = pc[o], req'[o] = req[o], seen'[o] = seen[o],
         match' = match, maxStudents' = maxStudents
  PROVE  Protected(o)'
BY DEF Protected, Inviting, Id

LEMMA OneRequestData ==
  ASSUME DataInv, NEW s \in Slots,
         \A o \in Slots \ {s} :
           pc'[o] = pc[o] /\ req'[o] = req[o] /\ seen'[o] = seen[o],
         match' = match, maxStudents' = maxStudents,
         req'[s] = req[s] \/ req'[s].action # "invite",
         Protected(s)'
  PROVE  DataInv'
<1>1. \A o \in Slots : Protected(o)'
  <2>1. ASSUME NEW o \in Slots, o # s PROVE Protected(o)'
    BY <2>1, ProtectedFrame DEF DataInv
  <2>2. QED BY <2>1
<1>2. Reserved'
  BY DEF DataInv, Reserved, Inviting, Id
<1>3. OneLiveMatch'
  BY DEF DataInv, OneLiveMatch
<1>4. QED BY <1>1, <1>2, <1>3 DEF DataInv

\* A request that gives up leaves everything protected.
LEMMA LeaveData ==
  ASSUME TypeInv, DataInv, NEW s \in Slots, Leave(s), TableUnchanged
  PROVE  DataInv'
<1>1. \A o \in Slots \ {s} :
        pc'[o] = pc[o] /\ req'[o] = req[o] /\ seen'[o] = seen[o]
  BY DEF Leave, Goto, Forget, TypeInv, TypeOK
<1>2. pc'[s] = "idle" /\ req'[s] = NoReq
  BY DEF Leave, Goto, Forget, TypeInv, TypeOK
<1>3. Protected(s)'
  BY <1>2 DEF Protected
<1>4. req'[s].action # "invite"
  BY <1>2 DEF NoReq
<1>5. QED
  BY <1>1, <1>3, <1>4, OneRequestData DEF TableUnchanged

-----------------------------------------------------------------------------
(* The two writes *)

LEMMA InsertData ==
  ASSUME TypeInv, LockInv, DataInv, NEW s \in Slots, InsertMatch(s)
  PROVE  DataInv'
<1> USE DEF TypeInv, TypeOK
<1> DEFINE i == Id(s)
<1>1. /\ pc[s] = "insert" /\ Inviting(s) /\ i \in MatchIds
      /\ held[s] = {StudentRow(s), TutorRow(s)}
  BY DEF InsertMatch, Called, LockInv, LocksHeld, LocksOf, Inviting, NoReq, Requests, Id
<1>2. ~Duplicate(match, i) /\ match[i] = Absent
  BY <1>1 DEF DataInv, Protected, Reserved
<1>3. match' = [match EXCEPT ![i] = Invited(req[s].trial)] /\ maxStudents' = maxStudents
  BY <1>2 DEF InsertMatch
<1>4. /\ \A o \in Slots \ {s} :
           pc'[o] = pc[o] /\ req'[o] = req[o] /\ seen'[o] = seen[o]
      /\ pc'[s] = "idle" /\ req'[s] = NoReq
  BY DEF InsertMatch, Leave, Goto, Forget
<1>5. \A n \in MatchIds \ {i} : match'[n] = match[n]
  BY <1>3
<1>6. Reserved'
  BY <1>1, <1>4, <1>5 DEF DataInv, Reserved, Inviting, Id, NoReq, Requests
<1>7. OneLiveMatch'
  BY <1>1, <1>2, <1>5 DEF DataInv, OneLiveMatch, Duplicate, SameTarget
<1>8. ASSUME NEW o \in Slots, o # s PROVE Protected(o)'
  <2>1. /\ pc'[o] = pc[o] /\ req'[o] = req[o] /\ seen'[o] = seen[o]
        /\ Id(o)' = Id(o) /\ Inviting(o)' = Inviting(o)
    BY <1>4, <1>8 DEF Id, Inviting
  <2>2. Protected(o)
    BY DEF DataInv
  <2>3. pc[o] # "idle" => Id(o) \in MatchIds
    BY DEF Called, Requests, Id
  <2>4. ASSUME ~Inviting(o), pc[o] \in {"tutor", "seat", "write"}
        PROVE  seen'[o] = match'[Id(o)]
    <3>1. seen[o] = match[Id(o)]
      BY <2>2, <2>4 DEF Protected
    <3>2. seen[o].status \in Live
      BY <2>4, TargetFrom DEF Granted, NeedsSeat
    <3>3. Id(o) # i
      BY <1>2, <3>1, <3>2 DEF Absent, Live
    <3>4. QED BY <2>1, <2>3, <2>4, <3>1, <3>3, <1>5
  <2>5. ASSUME Inviting(o), pc[o] \in {"seat", "insert"}
        PROVE  /\ ~Duplicate(match', Id(o))
               /\ <<TutorOf[Id(o)], SubjectOf[Id(o)]>> \in Teaches
    <3>1. StudentRow(o) \in held[o]
      BY <2>5 DEF LockInv, LocksHeld, LocksOf
    <3>2. StudentOf[Id(o)] # StudentOf[i]
      BY <1>1, <1>8, <3>1 DEF LockInv, Exclusive, StudentRow
    <3>3. QED
      BY <2>2, <2>5, <3>2, <1>5 DEF Protected, Duplicate, SameTarget
  <2>6. ASSUME pc[o] = "insert" \/ (pc[o] = "write" /\ NeedsSeat(req[o], seen[o]))
        PROVE  HasSeat(match', maxStudents', TutorOf[Id(o)])
    <3>1. TutorRow(o) \in held[o]
      BY <2>6 DEF LockInv, LocksHeld, LocksOf
    <3>2. TutorOf[Id(o)] # TutorOf[i]
      BY <1>1, <1>8, <3>1 DEF LockInv, Exclusive, TutorRow
    <3>3. LiveMatches(match', TutorOf[Id(o)]) = LiveMatches(match, TutorOf[Id(o)])
      BY <1>5, <3>2 DEF LiveMatches
    <3>4. QED
      BY <2>2, <2>6, <3>3, <1>3 DEF Protected, HasSeat
  <2>7. QED BY <2>1, <2>4, <2>5, <2>6 DEF Protected
<1>9. Protected(s)'
  BY <1>4 DEF Protected
<1>10. QED BY <1>6, <1>7, <1>8, <1>9 DEF DataInv

LEMMA WriteData ==
  ASSUME TypeInv, LockInv, DataInv, NEW s \in Slots, WriteMatch(s)
  PROVE  DataInv'
<1> USE DEF TypeInv, TypeOK
<1> DEFINE i == Id(s)
<1>1. pc[s] = "write" /\ ~Inviting(s) /\ i \in MatchIds
  BY DEF WriteMatch, Called, Requests, Id
<1>2. MatchRow(s) \in held[s]
  BY <1>1 DEF LockInv, LocksHeld, LocksOf
<1>3. match[i] = seen[s] /\ match[i].status \in Live
  <2>1. match[i] = seen[s]
    BY <1>1 DEF DataInv, Protected
  <2>2. QED BY <1>1, <2>1, TargetFrom DEF Granted
<1>4. /\ \A n \in MatchIds \ {i} : match'[n] = match[n]
      /\ maxStudents' = maxStudents
  BY <1>1 DEF WriteMatch, Written
<1>5. /\ \A o \in Slots \ {s} :
           pc'[o] = pc[o] /\ req'[o] = req[o] /\ seen'[o] = seen[o]
      /\ pc'[s] \in {"idle", "audit"}
      /\ req'[s] = req[s] \/ req'[s] = NoReq
  BY DEF WriteMatch, Leave, Goto, Forget
<1>6. \A n \in MatchIds : match'[n].status \in Live => match[n].status \in Live
  BY <1>3, <1>4
<1>7. Reserved'
  <2>1. ASSUME NEW o \in Slots, Inviting(o)'
        PROVE  o # s /\ Inviting(o) /\ Id(o) # i
    BY <2>1, <1>1, <1>3, <1>5
    DEF Inviting, NoReq, DataInv, Reserved, Id, Absent, Live
  <2>2. \A o \in Slots : Inviting(o) => Id(o) \in MatchIds
    BY DEF Inviting, Id, NoReq, Requests
  <2>3. QED
    BY <2>1, <2>2, <1>4, <1>5 DEF DataInv, Reserved, Inviting, Id
<1>8. OneLiveMatch'
  BY <1>6 DEF DataInv, OneLiveMatch
<1>9. ASSUME NEW o \in Slots, o # s PROVE Protected(o)'
  <2>1. /\ pc'[o] = pc[o] /\ req'[o] = req[o] /\ seen'[o] = seen[o]
        /\ Id(o)' = Id(o) /\ Inviting(o)' = Inviting(o)
    BY <1>5, <1>9 DEF Id, Inviting
  <2>2. Protected(o)
    BY DEF DataInv
  <2>3. pc[o] # "idle" => Id(o) \in MatchIds
    BY DEF Called, Requests, Id
  <2>4. ASSUME ~Inviting(o), pc[o] \in {"tutor", "seat", "write"}
        PROVE  seen'[o] = match'[Id(o)]
    <3>1. MatchRow(o) \in held[o]
      BY <2>4 DEF LockInv, LocksHeld, LocksOf
    <3>2. Id(o) # i
      BY <1>2, <1>9, <3>1 DEF LockInv, Exclusive, MatchRow
    <3>3. QED BY <2>1, <2>2, <2>3, <2>4, <3>2, <1>4 DEF Protected
  <2>5. ASSUME Inviting(o), pc[o] \in {"seat", "insert"}
        PROVE  /\ ~Duplicate(match', Id(o))
               /\ <<TutorOf[Id(o)], SubjectOf[Id(o)]>> \in Teaches
    BY <2>2, <2>5, <1>6 DEF Protected, Duplicate
  <2>6. ASSUME pc[o] = "insert" \/ (pc[o] = "write" /\ NeedsSeat(req[o], seen[o]))
        PROVE  HasSeat(match', maxStudents', TutorOf[Id(o)])
    <3> DEFINE t == TutorOf[Id(o)]
    <3>1. t \in Tutors /\ maxStudents[t] \in Nat
      BY <2>3, <2>6, DomainAssumption
    <3>2. LiveMatches(match', t) \subseteq LiveMatches(match, t)
      BY <1>6 DEF LiveMatches
    <3>3. HasSeat(match, maxStudents, t)
      BY <2>2, <2>6 DEF Protected
    <3>4. QED
      BY <3>1, <3>2, <3>3, <1>4, SeatKept
  <2>7. QED BY <2>1, <2>4, <2>5, <2>6 DEF Protected
<1>10. Protected(s)'
  BY <1>5 DEF Protected
<1>11. QED BY <1>7, <1>8, <1>9, <1>10 DEF DataInv

-----------------------------------------------------------------------------
LEMMA InitDataInv == Init => DataInv
BY DEF Init, DataInv, Reserved, OneLiveMatch, Protected, Inviting, NoReq, Absent, Live

LEMMA DataInvStep == TypeInv /\ LockInv /\ DataInv /\ [Next]_vars => DataInv'
<1> SUFFICES ASSUME TypeInv, LockInv, DataInv, [Next]_vars PROVE DataInv'
  OBVIOUS
<1> USE DEF TypeInv, TypeOK
<1> DEFINE Others(s) ==
      \A o \in Slots \ {s} :
        pc'[o] = pc[o] /\ req'[o] = req[o] /\ seen'[o] = seen[o]
<1>1. ASSUME NEW s \in Slots, NEW m \in MatchIds, NEW u \in Users,
             NEW trial \in BOOLEAN, BeginInvite(s, m, u, trial)
      PROVE  DataInv'
  <2>1. /\ Others(s) /\ pc'[s] = "student"
        /\ match' = match /\ maxStudents' = maxStudents
        /\ req'[s].m = m
    BY <1>1 DEF BeginInvite, Goto, TableUnchanged
  <2>2. Reserved'
    BY <1>1, <2>1 DEF BeginInvite, DataInv, Reserved, Inviting, Id
  <2>3. ASSUME NEW o \in Slots PROVE Protected(o)'
    <3>1. CASE o = s
      BY <3>1, <2>1 DEF Protected
    <3>2. CASE o # s
      BY <3>2, <2>1, ProtectedFrame DEF DataInv
    <3>3. QED BY <3>1, <3>2
  <2>4. OneLiveMatch'
    BY <2>1 DEF DataInv, OneLiveMatch
  <2>5. QED BY <2>2, <2>3, <2>4 DEF DataInv
<1>2. ASSUME NEW s \in Slots, NEW m \in MatchIds, NEW u \in Users,
             NEW action \in Asked, NEW terms \in BOOLEAN,
             BeginUpdate(s, m, u, action, terms)
      PROVE  DataInv'
  <2>1. /\ Others(s) /\ pc'[s] = "match"
        /\ match' = match /\ maxStudents' = maxStudents
        /\ req'[s].action = action
    BY <1>2 DEF BeginUpdate, Goto, TableUnchanged
  <2>2. req'[s].action # "invite"
    BY <2>1, SlotAssumption DEF Actions
  <2>3. Protected(s)'
    BY <2>1 DEF Protected
  <2>4. QED BY <2>1, <2>2, <2>3, OneRequestData
<1>3. ASSUME NEW s \in Slots, LockStudent(s)
      PROVE  DataInv'
  <2>1. CASE Leave(s)
    BY <1>3, <2>1, LeaveData DEF LockStudent
  <2>2. CASE Goto(s, "tutor") /\ UNCHANGED <<req, seen>>
    <3>1. /\ Others(s) /\ pc'[s] = "tutor" /\ req'[s] = req[s]
          /\ match' = match /\ maxStudents' = maxStudents
      BY <1>3, <2>2 DEF LockStudent, Goto, TableUnchanged
    <3>2. Inviting(s)'
      BY <1>3, <3>1 DEF LockStudent, Called, Inviting
    <3>3. Protected(s)'
      BY <3>1, <3>2 DEF Protected
    <3>4. QED BY <3>1, <3>3, OneRequestData
  <2>3. QED
    BY <1>3, <2>1, <2>2 DEF LockStudent
<1>4. ASSUME NEW s \in Slots, LockTutor(s)
      PROVE  DataInv'
  <2>1. /\ Others(s) /\ pc[s] = "tutor"
        /\ pc'[s] = IF Inviting(s) THEN "duplicate" ELSE "seat"
        /\ req'[s] = req[s] /\ seen'[s] = seen[s]
        /\ match' = match /\ maxStudents' = maxStudents
    BY <1>4 DEF LockTutor, Goto, TableUnchanged
  <2>2. Protected(s)
    BY DEF DataInv
  <2>3. Protected(s)'
    BY <2>1, <2>2 DEF Protected, Inviting, Id
  <2>4. QED BY <2>1, <2>3, OneRequestData
<1>5. ASSUME NEW s \in Slots, CheckDuplicate(s)
      PROVE  DataInv'
  <2>1. CASE Leave(s)
    BY <1>5, <2>1, LeaveData DEF CheckDuplicate
  <2>2. CASE /\ ~Duplicate(match, Id(s))
             /\ <<TutorOf[Id(s)], SubjectOf[Id(s)]>> \in Teaches
             /\ Goto(s, "seat") /\ UNCHANGED <<req, seen, held>>
    <3>1. /\ Others(s) /\ pc[s] = "duplicate" /\ pc'[s] = "seat"
          /\ req'[s] = req[s]
          /\ match' = match /\ maxStudents' = maxStudents
      BY <1>5, <2>2 DEF CheckDuplicate, Goto, TableUnchanged
    <3>2. Inviting(s)
      BY <3>1 DEF Called
    <3>3. Protected(s)'
      BY <3>1, <3>2, <2>2 DEF Protected, Inviting, Id
    <3>4. QED BY <3>1, <3>3, OneRequestData
  <2>3. QED
    BY <1>5, <2>1, <2>2 DEF CheckDuplicate
<1>6. ASSUME NEW s \in Slots, CheckSeat(s)
      PROVE  DataInv'
  <2>1. /\ Others(s) /\ pc[s] = "seat"
        /\ req'[s] = req[s] /\ seen'[s] = seen[s]
        /\ match' = match /\ maxStudents' = maxStudents
    BY <1>6 DEF CheckSeat, Goto, TableUnchanged
  <2>2. \/ pc'[s] = "full"
        \/ /\ pc'[s] = IF Inviting(s) THEN "insert" ELSE "write"
           /\ HasSeat(match, maxStudents, TutorOf[Id(s)])
    BY <1>6 DEF CheckSeat, Goto
  <2>3. Protected(s)
    BY DEF DataInv
  <2>4. Protected(s)'
    BY <2>1, <2>2, <2>3 DEF Protected, Inviting, Id
  <2>5. QED BY <2>1, <2>4, OneRequestData
<1>7. ASSUME NEW s \in Slots, LockMatch(s)
      PROVE  DataInv'
  <2>1. CASE Leave(s)
    BY <1>7, <2>1, LeaveData DEF LockMatch
  <2>2. CASE /\ seen' = [seen EXCEPT ![s] = match[Id(s)]]
             /\ Goto(s, IF NeedsSeat(req[s], match[Id(s)]) THEN "tutor" ELSE "write")
             /\ UNCHANGED req
    <3>1. /\ Others(s) /\ req'[s] = req[s] /\ seen'[s] = match[Id(s)]
          /\ pc[s] = "match"
          /\ pc'[s] = IF NeedsSeat(req[s], match[Id(s)]) THEN "tutor" ELSE "write"
          /\ match' = match /\ maxStudents' = maxStudents
      BY <1>7, <2>2 DEF LockMatch, Goto, TableUnchanged
    <3>2. ~Inviting(s)
      BY <3>1 DEF Called
    <3>3. Protected(s)'
      BY <3>1, <3>2 DEF Protected, Inviting, Id
    <3>4. QED BY <3>1, <3>3, OneRequestData
  <2>3. QED
    BY <1>7, <2>1, <2>2 DEF LockMatch
<1>8. ASSUME NEW s \in Slots, WriteAudit(s)
      PROVE  DataInv'
  <2>1. /\ Others(s) /\ pc'[s] = "idle" /\ req'[s] = NoReq
        /\ match' = match /\ maxStudents' = maxStudents
    BY <1>8 DEF WriteAudit, Leave, Goto, Forget
  <2>2. Protected(s)' /\ req'[s].action # "invite"
    BY <2>1 DEF Protected, NoReq
  <2>3. QED BY <2>1, <2>2, OneRequestData
<1>9. ASSUME NEW s \in Slots, AnswerFull(s) \/ Crash(s)
      PROVE  DataInv'
  BY <1>9, LeaveData DEF AnswerFull, Crash
<1>10. ASSUME NEW t \in Tutors, NEW n \in Capacities, SetCapacity(t, n)
       PROVE  DataInv'
  <2>1. ASSUME NEW o \in Slots PROVE Protected(o)'
    <3>1. Protected(o)
      BY DEF DataInv
    <3>2. ASSUME pc[o] = "insert" \/ (pc[o] = "write" /\ NeedsSeat(req[o], seen[o]))
          PROVE  maxStudents'[TutorOf[Id(o)]] = maxStudents[TutorOf[Id(o)]]
      <4>1. TutorRow(o) \in held[o]
        BY <3>2 DEF LockInv, LocksHeld, LocksOf
      <4>2. TutorOf[Id(o)] # t
        BY <1>10, <4>1 DEF SetCapacity, Free, TutorRow
      <4>3. TutorOf[Id(o)] \in Tutors
        BY <3>2, DomainAssumption DEF Called, Requests, Id
      <4>4. QED BY <1>10, <4>2, <4>3 DEF SetCapacity
    <3>3. QED
      BY <1>10, <3>1, <3>2 DEF SetCapacity, Protected, HasSeat, Inviting, Id
  <2>2. Reserved' /\ OneLiveMatch'
    BY <1>10 DEF SetCapacity, DataInv, Reserved, OneLiveMatch, Inviting, Id
  <2>3. QED BY <2>1, <2>2 DEF DataInv
<1>11. CASE UNCHANGED vars
  <2>1. ASSUME NEW o \in Slots PROVE Protected(o)'
    BY <1>11, ProtectedFrame DEF vars, DataInv
  <2>2. Reserved' /\ OneLiveMatch'
    BY <1>11 DEF vars, DataInv, Reserved, OneLiveMatch, Inviting, Id
  <2>3. QED BY <2>1, <2>2 DEF DataInv
<1>12. QED
  BY <1>1, <1>2, <1>3, <1>4, <1>5, <1>6, <1>7, <1>8, <1>9, <1>10, <1>11,
     InsertData, WriteData
  DEF Next, Begin, TakeLock, Compute

-----------------------------------------------------------------------------
LEMMA Invariants == Spec => [](TypeInv /\ LockInv /\ DataInv)
BY InitTypeInv, TypeInvStep, InitLockInv, LockInvStep, InitDataInv, DataInvStep, PTL
DEF Spec

\* No request overwrites what another wrote after it read: between its locked
\* read and its UPDATE the row does not change.
THEOREM ReadsStayCurrent == Spec => []SeenIsCurrent
<1>1. TypeInv /\ DataInv => SeenIsCurrent
  BY DataInvParts DEF TypeInv
<1>2. QED BY <1>1, Invariants, PTL

\* However invitations race, a student never has two live matches with one
\* tutor for one subject.
THEOREM AtMostOneLive == Spec => []OneLiveMatch
<1>1. TypeInv /\ DataInv => OneLiveMatch
  BY DataInvParts DEF TypeInv
<1>2. QED BY <1>1, Invariants, PTL

\* The lock on the student row is enough: the unique index is only a second
\* line of defence.
THEOREM IndexIsRedundant == Spec => []IndexNeverFires
<1>1. TypeInv /\ DataInv => IndexNeverFires
  BY DataInvParts DEF TypeInv
<1>2. QED BY <1>1, Invariants, PTL

-----------------------------------------------------------------------------
(***************************************************************************)
(* The interleaved requests of module Matching implement the one-step      *)
(* requests of MatchLifecycle, for every set of requests, matches, tutors, *)
(* students and accounts; what no step may do; and what audit_log says.    *)
(***************************************************************************)

Inv == TypeInv /\ LockInv /\ DataInv

-----------------------------------------------------------------------------
(* The table of transitions *)

LEMMA TerminateTarget ==
  ASSUME NEW row, NEW u, NEW m, NEW new, Resolves(row, "terminate", u, m, new)
  PROVE  new = "terminating"
BY DEF Resolves, TRANSITIONS, Edge

\* Only an agreement ends a match, and the one who agrees did not start it.
LEMMA EndedTarget ==
  ASSUME NEW r, NEW row, Target(r, row, "ended")
  PROVE  row.status = "terminating" /\ r.user # row.by
<1>1. r.action # "disagree_terminate"
  BY DEF Target, PreTermination
<1>2. Resolves(row, r.action, r.user, r.m, "ended")
  BY <1>1 DEF Target
<1>3. PICK t \in TRANSITIONS :
        /\ t.from = row.status /\ t.action = r.action
        /\ Permitted(t.actor, r.user, r.m, row.by)
        /\ "ended" = IF r.action = "accept"
                     THEN IF row.trial THEN "trial" ELSE "active"
                     ELSE t.to
  BY <1>2 DEF Resolves
<1>4. t.from = "terminating" /\ t.actor = "OTHER_PARTY"
  BY <1>3 DEF TRANSITIONS, Edge
<1>5. QED
  BY <1>3, <1>4 DEF Permitted

\* From one status an action leads to one status.
LEMMA TargetUnique ==
  ASSUME NEW r, NEW row, NEW a, NEW b, Target(r, row, a), Target(r, row, b)
  PROVE  a = b
<1>1. CASE r.action = "disagree_terminate"
  BY <1>1 DEF Target
<1>2. CASE r.action = "accept"
  BY <1>2 DEF Target, Resolves
<1>3. CASE r.action \notin {"disagree_terminate", "accept"}
  <2>1. PICK t \in TRANSITIONS : t.from = row.status /\ t.action = r.action /\ a = t.to
    BY <1>3 DEF Target, Resolves
  <2>2. PICK v \in TRANSITIONS : v.from = row.status /\ v.action = r.action /\ b = v.to
    BY <1>3 DEF Target, Resolves
  <2>3. t.to = v.to
    BY <2>1, <2>2 DEF TRANSITIONS, Edge
  <2>4. QED BY <2>1, <2>2, <2>3
<1>4. QED BY <1>1, <1>2, <1>3

-----------------------------------------------------------------------------
(* The steps that write matches *)

\* An INSERT adds the one row it checked for.
LEMMA InsertWrites ==
  ASSUME Inv, NEW s \in Slots, InsertMatch(s)
  PROVE  /\ Id(s) \in MatchIds /\ req[s].trial \in BOOLEAN
         /\ match[Id(s)] = Absent /\ ~Duplicate(match, Id(s))
         /\ <<TutorOf[Id(s)], SubjectOf[Id(s)]>> \in Teaches
         /\ HasSeat(match, maxStudents, TutorOf[Id(s)])
         /\ match' = [match EXCEPT ![Id(s)] = Invited(req[s].trial)]
         /\ maxStudents' = maxStudents
<1> USE DEF Inv, TypeInv, TypeOK
<1>1. pc[s] = "insert" /\ Inviting(s)
  BY DEF InsertMatch, Called
<1>2. Id(s) \in MatchIds /\ req[s].trial \in BOOLEAN
  BY <1>1 DEF Called, Id, Requests
<1>3. /\ ~Duplicate(match, Id(s)) /\ match[Id(s)] = Absent
      /\ <<TutorOf[Id(s)], SubjectOf[Id(s)]>> \in Teaches
      /\ HasSeat(match, maxStudents, TutorOf[Id(s)])
  BY <1>1 DEF DataInv, Protected, Reserved
<1>4. QED
  BY <1>2, <1>3 DEF InsertMatch

\* An UPDATE writes what the row, as it still is, allows.
LEMMA UpdateWrites ==
  ASSUME Inv, NEW s \in Slots, WriteMatch(s)
  PROVE  /\ pc[s] = "write" /\ Id(s) \in MatchIds /\ req[s].user \in Users
         /\ req[s].action \in Actions
         /\ seen[s] = match[Id(s)] /\ match[Id(s)].status \in Live
         /\ maxStudents' = maxStudents
         /\ \/ match' = match /\ adminWrites' = adminWrites
            \/ \E new \in Statuses :
                 /\ Target(req[s], match[Id(s)], new)
                 /\ match' = Written(s, new)
                 /\ NeedsSeat(req[s], match[Id(s)])
                      => HasSeat(match, maxStudents, TutorOf[Id(s)])
<1> USE DEF Inv, TypeInv, TypeOK
<1>1. pc[s] = "write" /\ ~Inviting(s)
  BY DEF WriteMatch, Called
<1>2. Id(s) \in MatchIds /\ req[s].user \in Users /\ req[s].action \in Actions
  BY <1>1 DEF Called, Id, Requests, Inviting
<1>3. seen[s] = match[Id(s)]
  BY <1>1 DEF DataInv, Protected
<1>4. match[Id(s)].status \in Live
  BY <1>1, <1>3, TargetFrom DEF Granted
<1>5. NeedsSeat(req[s], match[Id(s)]) => HasSeat(match, maxStudents, TutorOf[Id(s)])
  BY <1>1, <1>3 DEF DataInv, Protected
<1>6. QED
  BY <1>1, <1>2, <1>3, <1>4, <1>5 DEF WriteMatch

\* Every other step leaves matches alone.
LEMMA OtherSteps ==
  ASSUME [Next]_vars,
         ~\E s \in Slots : InsertMatch(s) \/ WriteMatch(s)
  PROVE  /\ match' = match
         /\ \/ maxStudents' = maxStudents
            \/ \E t \in Tutors, n \in Capacities :
                 maxStudents' = [maxStudents EXCEPT ![t] = n]
<1>1. ASSUME NEW s \in Slots, Begin(s) \/ TakeLock(s)
      PROVE  match' = match /\ maxStudents' = maxStudents
  BY <1>1 DEF Begin, BeginInvite, BeginUpdate, TakeLock, LockStudent, LockTutor,
              LockMatch, TableUnchanged
<1>2. ASSUME NEW s \in Slots,
             \/ CheckDuplicate(s) \/ CheckSeat(s) \/ AnswerFull(s)
             \/ WriteAudit(s) \/ Crash(s)
      PROVE  match' = match /\ maxStudents' = maxStudents
  BY <1>2 DEF CheckDuplicate, CheckSeat, AnswerFull, WriteAudit, Crash, TableUnchanged
<1>3. ASSUME NEW t \in Tutors, NEW n \in Capacities, SetCapacity(t, n)
      PROVE  /\ match' = match
             /\ maxStudents' = [maxStudents EXCEPT ![t] = n]
  BY <1>3 DEF SetCapacity
<1>4. CASE UNCHANGED vars
  BY <1>4 DEF vars
<1>5. QED
  BY <1>1, <1>2, <1>3, <1>4 DEF Next, Compute

-----------------------------------------------------------------------------
(* The rules that MatchLifecycle reads are the rules of Matching. *)

LEMMA SameRules ==
  /\ Lifecycle!Statuses = Statuses /\ Lifecycle!Actions = Actions
  /\ Lifecycle!Absent = Absent
  /\ \A trial : Lifecycle!Invited(trial) = Invited(trial)
  /\ \A f, m : Lifecycle!Duplicate(f, m) <=> Duplicate(f, m)
  /\ \A f, g, t : Lifecycle!HasSeat(f, g, t) <=> HasSeat(f, g, t)
  /\ \A row, a, u, m, new :
       Lifecycle!Resolves(row, a, u, m, new) <=> Resolves(row, a, u, m, new)
<1>1. /\ Lifecycle!Live = Live /\ Lifecycle!Statuses = Statuses
      /\ Lifecycle!Actions = Actions /\ Lifecycle!Absent = Absent
  BY DEF Lifecycle!Live, Live, Lifecycle!Terminal, Terminal, Lifecycle!Statuses,
         Statuses, Lifecycle!Actions, Actions, Lifecycle!Absent, Absent
<1>2. \A trial : Lifecycle!Invited(trial) = Invited(trial)
  BY DEF Lifecycle!Invited, Invited
<1>3. \A f, m : Lifecycle!Duplicate(f, m) <=> Duplicate(f, m)
  BY <1>1 DEF Lifecycle!Duplicate, Duplicate, Lifecycle!SameTarget, SameTarget
<1>4. \A f, g, t : Lifecycle!HasSeat(f, g, t) <=> HasSeat(f, g, t)
  <2>1. ASSUME NEW f, NEW g, NEW t
        PROVE  Lifecycle!HasSeat(f, g, t) <=> HasSeat(f, g, t)
    <3>1. Lifecycle!LiveMatches(f, t) = LiveMatches(f, t)
      BY <1>1 DEF Lifecycle!LiveMatches, LiveMatches
    <3>2. \A S : Lifecycle!Cardinality(S) = Cardinality(S)
      BY DEF Lifecycle!Cardinality, Cardinality
    <3>3. QED
      BY <3>1, <3>2 DEF Lifecycle!HasSeat, HasSeat
  <2>2. QED
    BY <2>1
<1>5. \A row, a, u, m, new :
        Lifecycle!Resolves(row, a, u, m, new) <=> Resolves(row, a, u, m, new)
  <2>1. Lifecycle!TRANSITIONS = TRANSITIONS
    BY DEF Lifecycle!TRANSITIONS, TRANSITIONS, Lifecycle!Edge, Edge
  <2>2. \A a, u, m, by : Lifecycle!Permitted(a, u, m, by) <=> Permitted(a, u, m, by)
    BY DEF Lifecycle!Permitted, Permitted, Lifecycle!IsParent, IsParent,
           Lifecycle!IsTutor, IsTutor, Lifecycle!IsAdmin, IsAdmin
  <2>3. QED
    BY <2>1, <2>2 DEF Lifecycle!Resolves, Resolves
<1>6. QED BY <1>1, <1>2, <1>3, <1>4, <1>5

LEMMA StepRefines == Inv /\ [Next]_vars => [Lifecycle!Next]_(Lifecycle!vars)
<1> SUFFICES ASSUME Inv, [Next]_vars PROVE [Lifecycle!Next]_(Lifecycle!vars)
  OBVIOUS
<1>1. ASSUME NEW s \in Slots, InsertMatch(s)
      PROVE  Lifecycle!Next
  <2>1. Lifecycle!Invite(Id(s), req[s].trial)
    BY <1>1, InsertWrites, SameRules DEF Lifecycle!Invite
  <2>2. QED
    BY <1>1, <2>1, InsertWrites DEF Lifecycle!Next
<1>2. ASSUME NEW s \in Slots, WriteMatch(s)
      PROVE  Lifecycle!Next \/ UNCHANGED Lifecycle!vars
  <2> DEFINE i == Id(s)
             u == req[s].user
  <2>1. /\ i \in MatchIds /\ u \in Users /\ req[s].action \in Actions
        /\ seen[s] = match[i] /\ maxStudents' = maxStudents
    BY <1>2, UpdateWrites
  <2>2. CASE match' = match
    BY <2>1, <2>2 DEF Lifecycle!vars
  <2>3. ASSUME NEW new \in Statuses, Target(req[s], match[i], new),
               match' = Written(s, new),
               NeedsSeat(req[s], match[i]) => HasSeat(match, maxStudents, TutorOf[i])
        PROVE  Lifecycle!Next
    <3>1. CASE req[s].action = "terminate"
      <4>1. Resolves(match[i], "terminate", u, i, new)
        BY <2>3, <3>1 DEF Target, Id
      <4>2. new = "terminating"
        BY <4>1, TerminateTarget
      <4>3. Lifecycle!Terminate(i, u)
        BY <2>1, <2>3, <3>1, <4>1, <4>2, SameRules
        DEF Lifecycle!Terminate, Written
      <4>4. QED
        BY <2>1, <4>3 DEF Lifecycle!Next
    <3>2. CASE req[s].action = "disagree_terminate"
      <4>1. match[i].status = "terminating" /\ new = match[i].prev
        BY <2>3, <3>2 DEF Target
      <4>2. Lifecycle!Participant(u, i)
        BY <2>3 DEF Target, Id, Participant, IsParent, IsTutor, IsAdmin,
                    Lifecycle!Participant, Lifecycle!IsParent,
                    Lifecycle!IsTutor, Lifecycle!IsAdmin
      <4>3. Lifecycle!Contest(i, u)
        BY <2>1, <2>3, <3>2, <4>1, <4>2 DEF Lifecycle!Contest, Written
      <4>4. QED
        BY <2>1, <4>3 DEF Lifecycle!Next
    <3>3. CASE req[s].action \notin {"terminate", "disagree_terminate"}
      <4>1. Resolves(match[i], req[s].action, u, i, new)
        BY <2>3, <3>3 DEF Target, Id
      <4>2. new = "active" => HasSeat(match, maxStudents, TutorOf[i])
        BY <2>3, <3>3 DEF NeedsSeat
      <4>3. match' = [match EXCEPT ![i].status = new]
        BY <2>3, <3>3 DEF Written
      <4>4. Lifecycle!Move(i, new)
        BY <2>1, <3>3, <4>1, <4>2, <4>3, SameRules DEF Lifecycle!Move
      <4>5. QED
        BY <2>1, <4>4, SameRules DEF Lifecycle!Next
    <3>4. QED BY <3>1, <3>2, <3>3
  <2>4. QED
    BY <1>2, <2>2, <2>3, UpdateWrites
<1>3. CASE ~\E s \in Slots : InsertMatch(s) \/ WriteMatch(s)
  BY <1>3, OtherSteps
  DEF Lifecycle!Next, Lifecycle!SetCapacity, Lifecycle!vars
<1>4. QED BY <1>1, <1>2, <1>3

LEMMA InitRefines == Init => Lifecycle!Init
BY SameRules DEF Init, Lifecycle!Init

\* The service behaves as if each request were executed at once: no interleaving
\* of statements shows in the tables.
THEOREM Implements == Spec => AtomicLifecycle
<1>1. Spec => []Inv
  BY Invariants DEF Inv
<1>2. QED
  BY <1>1, InitRefines, StepRefines, PTL DEF Spec, AtomicLifecycle, Lifecycle!Spec

-----------------------------------------------------------------------------
(* What no step may do *)

LEMMA EndedStep ==
  ASSUME Inv, [Next]_vars, NEW m \in MatchIds,
         match[m].status # "ended", match'[m].status = "ended"
  PROVE  /\ match[m].status = "terminating"
         /\ \E s \in Slots : /\ pc[s] = "write" /\ Id(s) = m
                            /\ req[s].user # match[m].by
<1> USE DEF Inv, TypeInv, TypeOK
<1>1. PICK s \in Slots : InsertMatch(s) \/ WriteMatch(s)
  BY OtherSteps
<1>2. WriteMatch(s)
  <2>1. CASE InsertMatch(s)
    <3>1. /\ Id(s) \in MatchIds
          /\ match' = [match EXCEPT ![Id(s)] = Invited(req[s].trial)]
      BY <2>1, InsertWrites
    <3>2. QED BY <3>1 DEF Invited
  <2>2. QED BY <1>1, <2>1
<1>3. /\ pc[s] = "write" /\ Id(s) \in MatchIds
      /\ \/ match' = match
         \/ \E new \in Statuses :
              Target(req[s], match[Id(s)], new) /\ match' = Written(s, new)
  BY <1>2, UpdateWrites
<1>4. PICK new \in Statuses :
        Target(req[s], match[Id(s)], new) /\ match' = Written(s, new)
  BY <1>3
<1>5. /\ \A n \in MatchIds \ {Id(s)} : match'[n] = match[n]
      /\ match'[Id(s)].status = new
  <2>1. match[Id(s)] \in Row
    BY <1>3
  <2>2. CASE req[s].action = "terminate"
    BY <1>3, <1>4, <2>1, <2>2 DEF Written, Row
  <2>3. CASE req[s].action = "disagree_terminate"
    BY <1>3, <1>4, <2>1, <2>3 DEF Written, Row
  <2>4. CASE req[s].action \notin {"terminate", "disagree_terminate"}
    BY <1>3, <1>4, <2>1, <2>4 DEF Written, Row
  <2>5. QED BY <2>2, <2>3, <2>4
<1>6. m = Id(s) /\ new = "ended"
  BY <1>5
<1>7. QED
  BY <1>3, <1>4, <1>6, EndedTarget

\* No account ends a match alone: the one who agrees is not the one who asked.
THEOREM NeverEndedAlone == Spec => EndedByAnother
<1>1. Spec => []Inv
  BY Invariants DEF Inv
<1>2. Inv /\ [Next]_vars =>
        [\A m \in MatchIds :
           match[m].status # "ended" /\ match'[m].status = "ended"
             => /\ match[m].status = "terminating"
                /\ \E s \in Slots : /\ pc[s] = "write" /\ Id(s) = m
                                   /\ req[s].user # match[m].by]_vars
  BY EndedStep
<1>3. QED
  BY <1>1, <1>2, PTL DEF Spec, EndedByAnother

LEMMA SeatStep ==
  ASSUME Inv, [Next]_vars, NEW t \in Tutors,
         ~(LiveMatches(match', t) \subseteq LiveMatches(match, t))
  PROVE  Cardinality(LiveMatches(match', t)) <= maxStudents'[t]
<1> USE DEF Inv, TypeInv, TypeOK
<1>1. PICK s \in Slots : InsertMatch(s) \/ WriteMatch(s)
  BY OtherSteps DEF LiveMatches
<1>2. CASE InsertMatch(s)
  <2>1. /\ Id(s) \in MatchIds
        /\ match' = [match EXCEPT ![Id(s)] = Invited(req[s].trial)]
        /\ maxStudents' = maxStudents
        /\ HasSeat(match, maxStudents, TutorOf[Id(s)])
    BY <1>2, InsertWrites
  <2>2. /\ TutorOf[Id(s)] = t
        /\ LiveMatches(match', t) \subseteq LiveMatches(match, t) \cup {Id(s)}
    BY <2>1 DEF LiveMatches
  <2>3. IsFiniteSet(LiveMatches(match, t))
    BY DomainAssumption, FS_Subset DEF LiveMatches
  <2>4. /\ IsFiniteSet(LiveMatches(match, t) \cup {Id(s)})
        /\ Cardinality(LiveMatches(match, t) \cup {Id(s)})
             <= Cardinality(LiveMatches(match, t)) + 1
    <3>1. Cardinality(LiveMatches(match, t)) \in Nat
      BY <2>3, FS_CardinalityType
    <3>2. /\ IsFiniteSet(LiveMatches(match, t) \cup {Id(s)})
          /\ \/ Cardinality(LiveMatches(match, t) \cup {Id(s)})
                  = Cardinality(LiveMatches(match, t))
             \/ Cardinality(LiveMatches(match, t) \cup {Id(s)})
                  = Cardinality(LiveMatches(match, t)) + 1
      BY <2>3, FS_AddElement
    <3>3. QED BY <3>1, <3>2
  <2>5. Cardinality(LiveMatches(match', t))
          <= Cardinality(LiveMatches(match, t) \cup {Id(s)})
    BY <2>2, <2>4, FS_Subset
  <2>6. /\ Cardinality(LiveMatches(match', t)) \in Nat
        /\ Cardinality(LiveMatches(match, t)) \in Nat
        /\ Cardinality(LiveMatches(match, t) \cup {Id(s)}) \in Nat
        /\ maxStudents[t] \in Nat
    BY <2>2, <2>3, <2>4, FS_Subset, FS_CardinalityType, DomainAssumption
  <2>7. Cardinality(LiveMatches(match, t)) < maxStudents[t]
    BY <2>1, <2>2 DEF HasSeat
  <2>8. QED
    BY <2>1, <2>4, <2>5, <2>6, <2>7
<1>3. CASE WriteMatch(s)
  <2>1. Id(s) \in MatchIds /\ match[Id(s)].status \in Live
    BY <1>3, UpdateWrites
  <2>2. \A n \in MatchIds \ {Id(s)} : match'[n] = match[n]
    BY <1>3, <2>1 DEF WriteMatch, Written
  <2>3. QED
    BY <2>1, <2>2 DEF LiveMatches
<1>4. QED BY <1>1, <1>2, <1>3

\* Invitations that race for a tutor's last seat never overfill it.
THEOREM SeatsNeverOverfilled == Spec => SeatTakenWithinCapacity
<1>1. Spec => []Inv
  BY Invariants DEF Inv
<1>2. Inv /\ [Next]_vars =>
        [\A t \in Tutors :
           ~(LiveMatches(match', t) \subseteq LiveMatches(match, t))
             => Cardinality(LiveMatches(match', t)) <= maxStudents'[t]]_vars
  BY SeatStep
<1>3. QED
  BY <1>1, <1>2, PTL DEF Spec, SeatTakenWithinCapacity

-----------------------------------------------------------------------------
(* audit_log *)

AuditInv == AuditAhead /\ AuditIsTrue

LEMMA InitAuditInv == Init => AuditInv
BY DEF Init, AuditInv, AuditAhead, AuditIsTrue

\* A request that stays where it is, or goes anywhere but to its audit row,
\* keeps the invariant.
LEMMA AuditFrame ==
  ASSUME TypeInv, AuditInv, NEW s \in Slots,
         \A o \in Slots \ {s} :
           pc'[o] = pc[o] /\ req'[o] = req[o] /\ seen'[o] = seen[o],
         pc'[s] # "audit",
         adminWrites \subseteq adminWrites', audit' \subseteq adminWrites'
  PROVE  AuditInv'
BY DEF AuditInv, AuditAhead, AuditIsTrue, Entry, Id

LEMMA AuditInvStep == Inv /\ AuditInv /\ [Next]_vars => AuditInv'
<1> SUFFICES ASSUME Inv, AuditInv, [Next]_vars PROVE AuditInv'
  OBVIOUS
<1> USE DEF Inv, TypeInv, TypeOK
<1>1. ASSUME NEW s \in Slots, Leave(s), adminWrites' = adminWrites,
             audit' \subseteq adminWrites
      PROVE  AuditInv'
  BY <1>1, AuditFrame DEF Leave, Goto, Forget
<1>2. ASSUME NEW s \in Slots, WriteMatch(s)
      PROVE  AuditInv'
  <2>1. PICK new \in Statuses :
          /\ Target(req[s], seen[s], new)
          /\ \/ Leave(s) /\ adminWrites' = adminWrites
             \/ /\ adminWrites' = adminWrites \cup {Entry(s, new)}
                /\ Goto(s, "audit") /\ UNCHANGED <<req, seen>>
             \/ Goto(s, "idle") /\ Forget(s) /\ UNCHANGED adminWrites
    BY <1>2 DEF WriteMatch
  <2>2. audit' = audit /\ audit \subseteq adminWrites
    BY <1>2 DEF WriteMatch, AuditInv, AuditIsTrue
  <2>3. CASE Leave(s) /\ adminWrites' = adminWrites
    BY <1>1, <2>2, <2>3
  <2>4. CASE Goto(s, "idle") /\ Forget(s) /\ UNCHANGED adminWrites
    BY <2>2, <2>4, AuditFrame DEF Goto, Forget
  <2>5. CASE /\ adminWrites' = adminWrites \cup {Entry(s, new)}
             /\ Goto(s, "audit") /\ UNCHANGED <<req, seen>>
    <3>1. ASSUME NEW o \in Slots, NEW st \in Statuses,
                 pc'[o] = "audit", Target(req'[o], seen'[o], st)
          PROVE  Entry(o, st)' \in adminWrites'
      <4>1. Target(req[o], seen[o], st) /\ Entry(o, st)' = Entry(o, st)
        BY <2>5, <3>1 DEF Entry, Id
      <4>2. CASE o = s
        BY <2>1, <2>5, <4>1, <4>2, TargetUnique
      <4>3. CASE o # s
        BY <2>5, <3>1, <4>1, <4>3 DEF Goto, AuditInv, AuditAhead
      <4>4. QED BY <4>2, <4>3
    <3>2. AuditAhead'
      BY <3>1 DEF AuditAhead
    <3>3. QED BY <2>2, <2>5, <3>2 DEF AuditInv, AuditIsTrue
  <2>6. QED BY <2>1, <2>3, <2>4, <2>5
<1>3. ASSUME NEW s \in Slots, WriteAudit(s)
      PROVE  AuditInv'
  <2>1. audit' \subseteq adminWrites
    BY <1>3 DEF WriteAudit, AuditInv, AuditAhead, AuditIsTrue
  <2>2. Leave(s) /\ adminWrites' = adminWrites
    BY <1>3 DEF WriteAudit
  <2>3. QED BY <1>1, <2>1, <2>2
<1>4. ASSUME NEW s \in Slots, InsertMatch(s)
      PROVE  AuditInv'
  BY <1>4, <1>1 DEF InsertMatch, AuditInv, AuditIsTrue
<1>5. ASSUME NEW s \in Slots,
             \A o \in Slots \ {s} :
               pc'[o] = pc[o] /\ req'[o] = req[o] /\ seen'[o] = seen[o],
             pc'[s] # "audit", TableUnchanged
      PROVE  AuditInv'
  BY <1>5, AuditFrame DEF TableUnchanged, AuditInv, AuditIsTrue
<1>6. ASSUME NEW s \in Slots, Begin(s)
      PROVE  AuditInv'
  BY <1>6, <1>5 DEF Begin, BeginInvite, BeginUpdate, Goto
<1>7. ASSUME NEW s \in Slots, TakeLock(s)
      PROVE  AuditInv'
  BY <1>7, <1>5
  DEF TakeLock, LockStudent, LockTutor, LockMatch, Lock, Leave, Goto, Forget
<1>8. ASSUME NEW s \in Slots,
             CheckDuplicate(s) \/ CheckSeat(s) \/ AnswerFull(s) \/ Crash(s)
      PROVE  AuditInv'
  BY <1>8, <1>5 DEF CheckDuplicate, CheckSeat, AnswerFull, Crash, Leave, Goto, Forget
<1>9. ASSUME NEW t \in Tutors, NEW n \in Capacities, SetCapacity(t, n)
      PROVE  AuditInv'
  BY <1>9 DEF SetCapacity, AuditInv, AuditAhead, AuditIsTrue, Entry, Id
<1>10. CASE UNCHANGED vars
  BY <1>10 DEF vars, AuditInv, AuditAhead, AuditIsTrue, Entry, Id
<1>11. QED
  BY <1>2, <1>3, <1>4, <1>6, <1>7, <1>8, <1>9, <1>10 DEF Next, Compute

\* audit_log never tells of a transition that did not happen.
THEOREM AuditNeverLies == Spec => []AuditIsTrue
<1>1. Spec => []Inv
  BY Invariants DEF Inv
<1>2. AuditInv => AuditIsTrue
  BY DEF AuditInv
<1>3. QED
  BY <1>1, <1>2, InitAuditInv, AuditInvStep, PTL DEF Spec

=============================================================================
