------------------------------ MODULE Matching ------------------------------
(***************************************************************************)
(* The matching service as it runs: MatchAppService.create_match and       *)
(* update_status executed by concurrent requests, each a PostgreSQL        *)
(* transaction at READ COMMITTED that takes row locks with SELECT ... FOR   *)
(* UPDATE, reads, computes and writes in separate statements.              *)
(*                                                                         *)
(* A request is a slot (one pooled connection, one handler thread).  A     *)
(* statement is a step.  What a transaction writes is its last statement   *)
(* before COMMIT, so writing and committing are one step; until then       *)
(* nothing of it is visible to the others.                                 *)
(***************************************************************************)
EXTENDS MatchStateMachine

CONSTANTS
  Slots,         \* requests in flight at once
  Asked,         \* the actions PATCH requests ask for (all, unless bounded)
  NoMatch

VARIABLES
  match,         \* committed rows of matches
  maxStudents,   \* committed tutors.max_students
  pc,            \* the statement each request is about to run
  req,           \* what each request was called with
  seen,          \* the match row a request read under its lock ("fresh")
  held,          \* row locks of each open transaction
  adminWrites,   \* history: transitions admins committed
  audit          \* rows of audit_log about matches

vars == <<match, maxStudents, pc, req, seen, held, adminWrites, audit>>

ASSUME SlotAssumption == NoMatch \notin MatchIds /\ Asked \subseteq Actions

-----------------------------------------------------------------------------
NoReq == [action |-> "none", m |-> NoMatch, user |-> NoUser,
          trial |-> FALSE, terms |-> FALSE]

Requests ==
  [ action : Actions \cup {"invite"}, m : MatchIds, user : Users,
    trial : BOOLEAN, terms : BOOLEAN ]

Inviting(s) == req[s].action = "invite"

Id(s) == req[s].m

\* Rows that FOR UPDATE can lock.
StudentRow(s) == <<"student", StudentOf[Id(s)]>>

TutorRow(s) == <<"tutor", TutorOf[Id(s)]>>

MatchRow(s) == <<"match", Id(s)>>

Rows == ({"student"} \X Students) \cup ({"tutor"} \X Tutors)
        \cup ({"match"} \X MatchIds)

Free(row) == \A s \in Slots : row \notin held[s]

\* What update_status computes from the locked row: the status request r moves
\* it to.  DISAGREE_TERMINATE does not consult the table.
Target(r, row, new) ==
  /\ Participant(r.user, r.m)
  /\ IF r.action = "disagree_terminate"
     THEN /\ row.status = "terminating"
          /\ row.prev \in PreTermination
          /\ new = row.prev
     ELSE Resolves(row, r.action, r.user, r.m, new)

\* The paths that lock the tutor and count before they write.
NeedsSeat(r, row) ==
  r.action # "disagree_terminate" /\ Target(r, row, "active")

Goto(s, where) == pc' = [pc EXCEPT ![s] = where]

\* Mutant of Lock: a SELECT without FOR UPDATE.
LockNothing(s, row) == Free(row) /\ UNCHANGED held

Lock(s, row) ==
  /\ Free(row)
  /\ held' = [held EXCEPT ![s] = @ \cup {row}]

\* Mutant of Unlock: a connection goes back to the pool in its transaction.
UnlockNothing(s) == held' = [held EXCEPT ![s] = @]

\* COMMIT and ROLLBACK release every lock of the transaction.
Unlock(s) == held' = [held EXCEPT ![s] = {}]

Forget(s) ==
  /\ req' = [req EXCEPT ![s] = NoReq]
  /\ seen' = [seen EXCEPT ![s] = Absent]

\* The transaction rolls back and the request answers.
Leave(s) == Goto(s, "idle") /\ Unlock(s) /\ Forget(s)

TableUnchanged == UNCHANGED <<match, maxStudents, adminWrites, audit>>

-----------------------------------------------------------------------------
Init ==
  /\ match = [m \in MatchIds |-> Absent]
  /\ maxStudents \in [Tutors -> Capacities]
  /\ pc = [s \in Slots |-> "idle"]
  /\ req = [s \in Slots |-> NoReq]
  /\ seen = [s \in Slots |-> Absent]
  /\ held = [s \in Slots |-> {}]
  /\ adminWrites = {}
  /\ audit = {}

(***************************************************************************)
(* create_match.  m is the id the sequence will give the INSERT: an id no  *)
(* other request is going to be given.                                     *)
(***************************************************************************)
BeginInvite(s, m, u, trial) ==
  /\ pc[s] = "idle"
  /\ match[m] = Absent
  /\ \A o \in Slots : ~(Inviting(o) /\ Id(o) = m)
  /\ u \in {ParentOf[c] : c \in Students}
  /\ req' = [req EXCEPT ![s] = [action |-> "invite", m |-> m, user |-> u,
                                trial |-> trial, terms |-> FALSE]]
  /\ Goto(s, "student")
  /\ UNCHANGED <<seen, held>> /\ TableUnchanged

\* get_student_owner_for_update, and StudentNotOwnedError.
LockStudent(s) ==
  /\ pc[s] = "student"
  /\ Free(StudentRow(s))
  /\ \/ /\ IsParent(req[s].user, Id(s))
        /\ Lock(s, StudentRow(s))
        /\ Goto(s, "tutor")
        /\ UNCHANGED <<req, seen>>
     \/ /\ ~IsParent(req[s].user, Id(s))
        /\ Leave(s)
  /\ TableUnchanged

\* Mutant of LockTutor: create_match goes back for the student afterwards.
LockTutorFirst(s) ==
  /\ pc[s] = "tutor"
  /\ Lock(s, TutorRow(s))
  /\ Goto(s, IF Inviting(s) THEN "student" ELSE "seat")
  /\ UNCHANGED <<req, seen>> /\ TableUnchanged

\* lock_tutor_for_update: create_match reaches it holding the student,
\* update_status holding the match.
LockTutor(s) ==
  /\ pc[s] = "tutor"
  /\ Lock(s, TutorRow(s))
  /\ Goto(s, IF Inviting(s) THEN "duplicate" ELSE "seat")
  /\ UNCHANGED <<req, seen>> /\ TableUnchanged

\* Mutant of CheckDuplicate: the index is trusted to find duplicates.
CheckSubjectOnly(s) ==
  /\ pc[s] = "duplicate"
  /\ LET refused == <<TutorOf[Id(s)], SubjectOf[Id(s)]>> \notin Teaches
     IN \/ refused /\ Leave(s)
        \/ ~refused /\ Goto(s, "seat") /\ UNCHANGED <<req, seen, held>>
  /\ TableUnchanged

\* tutor_teaches_subject and check_duplicate_active.
CheckDuplicate(s) ==
  /\ pc[s] = "duplicate"
  /\ LET refused == \/ <<TutorOf[Id(s)], SubjectOf[Id(s)]>> \notin Teaches
                    \/ Duplicate(match, Id(s))
     IN \/ refused /\ Leave(s)
        \/ ~refused /\ Goto(s, "seat") /\ UNCHANGED <<req, seen, held>>
  /\ TableUnchanged

\* get_active_student_count against get_max_students; "full" is the request
\* that answers CapacityExceededError.
CheckSeat(s) ==
  /\ pc[s] = "seat"
  /\ \/ /\ HasSeat(match, maxStudents, TutorOf[Id(s)])
        /\ Goto(s, IF Inviting(s) THEN "insert" ELSE "write")
        /\ UNCHANGED held
     \/ /\ ~HasSeat(match, maxStudents, TutorOf[Id(s)])
        /\ Goto(s, "full")
        /\ Unlock(s)
  /\ UNCHANGED <<req, seen>> /\ TableUnchanged

AnswerFull(s) ==
  /\ pc[s] = "full"
  /\ Leave(s) /\ TableUnchanged

\* INSERT and COMMIT; the partial unique index turns a second live match for
\* the same target into DuplicateMatchError.
InsertMatch(s) ==
  /\ pc[s] = "insert"
  /\ match' = IF Duplicate(match, Id(s)) THEN match
              ELSE [match EXCEPT ![Id(s)] = Invited(req[s].trial)]
  /\ Leave(s)
  /\ UNCHANGED <<maxStudents, adminWrites, audit>>

(***************************************************************************)
(* update_status.  The unlocked read in front of the transaction only      *)
(* decides whether the match exists and the caller belongs to it, which    *)
(* does not change afterwards; nothing it read is used later.              *)
(***************************************************************************)
BeginUpdate(s, m, u, action, terms) ==
  /\ pc[s] = "idle"
  /\ match[m] # Absent
  /\ Participant(u, m)
  /\ terms => action = "confirm_trial"
  /\ req' = [req EXCEPT ![s] = [action |-> action, m |-> m, user |-> u,
                                trial |-> FALSE, terms |-> terms]]
  /\ Goto(s, "match")
  /\ UNCHANGED <<seen, held>> /\ TableUnchanged

\* find_by_id_for_update, then the permission check and the state machine on
\* the row it returned, which touch nothing the others can see.
LockMatch(s) ==
  /\ pc[s] = "match"
  /\ Free(MatchRow(s))
  /\ LET row == match[Id(s)] IN
     \/ /\ \E new \in Statuses : Target(req[s], row, new)
        /\ Lock(s, MatchRow(s))
        /\ seen' = [seen EXCEPT ![s] = row]
        /\ Goto(s, IF NeedsSeat(req[s], row) THEN "tutor" ELSE "write")
        /\ UNCHANGED req
     \/ /\ \A new \in Statuses : ~Target(req[s], row, new)
        /\ Leave(s)
  /\ TableUnchanged

\* Mutant of Written: contesting a termination leaves terminated_by set.
WrittenStillBy(s, new) ==
  CASE req[s].action = "terminate" ->
         [match EXCEPT ![Id(s)].status = new,
                       ![Id(s)].by = req[s].user,
                       ![Id(s)].prev = seen[s].status]
    [] req[s].action = "disagree_terminate" ->
         [match EXCEPT ![Id(s)].status = new, ![Id(s)].prev = "none"]
    [] OTHER -> [match EXCEPT ![Id(s)].status = new]

\* set_terminating, clear_termination, or the UPDATE of the status alone
\* (update_status, confirm_trial_with_terms).
Written(s, new) ==
  CASE req[s].action = "terminate" ->
         [match EXCEPT ![Id(s)].status = new,
                       ![Id(s)].by = req[s].user,
                       ![Id(s)].prev = seen[s].status]
    [] req[s].action = "disagree_terminate" ->
         [match EXCEPT ![Id(s)].status = new,
                       ![Id(s)].by = NoUser,
                       ![Id(s)].prev = "none"]
    [] OTHER -> [match EXCEPT ![Id(s)].status = new]

\* The transition as audit_log records it.
Entries == [ m : MatchIds, user : Users, action : Actions,
             old : Statuses, new : Statuses ]

\* Mutant of Entry: the old status is read again after the commit.
EntryReread(s, new) ==
  [m |-> Id(s), user |-> req[s].user, action |-> req[s].action,
   old |-> match[Id(s)].status, new |-> new]

Entry(s, new) ==
  [m |-> Id(s), user |-> req[s].user, action |-> req[s].action,
   old |-> seen[s].status, new |-> new]

\* The UPDATE and COMMIT.  With contract terms the UPDATE carries
\* WHERE status = 'trial' and zero rows are an error.
WriteMatch(s) ==
  /\ pc[s] = "write"
  /\ \E new \in Statuses :
       /\ Target(req[s], seen[s], new)
       /\ IF req[s].terms /\ match[Id(s)].status # "trial"
          THEN Leave(s) /\ UNCHANGED <<match, adminWrites>>
          ELSE /\ match' = Written(s, new)
               /\ Unlock(s)
               /\ IF IsAdmin(req[s].user)
                  THEN /\ adminWrites' = adminWrites \cup {Entry(s, new)}
                       /\ Goto(s, "audit")
                       /\ UNCHANGED <<req, seen>>
                  ELSE /\ Goto(s, "idle")
                       /\ Forget(s)
                       /\ UNCHANGED adminWrites
  /\ UNCHANGED <<maxStudents, audit>>

\* _audit_admin_transition: a statement of its own after the commit, whose
\* failure is logged and swallowed.
WriteAudit(s) ==
  /\ pc[s] = "audit"
  /\ \/ \E new \in Statuses :
          Target(req[s], seen[s], new) /\ audit' = audit \cup {Entry(s, new)}
     \/ UNCHANGED audit
  /\ Leave(s)
  /\ UNCHANGED <<match, maxStudents, adminWrites>>

(***************************************************************************)
(* The rest of the world.                                                  *)
(***************************************************************************)
\* The worker dies or loses its connection: the server rolls back.
Crash(s) ==
  /\ pc[s] # "idle"
  /\ Leave(s) /\ TableUnchanged

\* PUT /api/tutors/profile: one UPDATE of the tutor row, which waits for a
\* lock on it and checks nothing else.
SetCapacity(t, n) ==
  /\ Free(<<"tutor", t>>)
  /\ n # maxStudents[t]
  /\ maxStudents' = [maxStudents EXCEPT ![t] = n]
  /\ UNCHANGED <<match, pc, req, seen, held, adminWrites, audit>>

Begin(s) ==
  \E m \in MatchIds, u \in Users :
    \/ \E trial \in BOOLEAN : BeginInvite(s, m, u, trial)
    \/ \E action \in Asked, terms \in BOOLEAN :
         BeginUpdate(s, m, u, action, terms)

TakeLock(s) == LockStudent(s) \/ LockTutor(s) \/ LockMatch(s)

Compute(s) ==
  \/ CheckDuplicate(s) \/ CheckSeat(s) \/ AnswerFull(s) \/ InsertMatch(s)
  \/ WriteMatch(s) \/ WriteAudit(s)

Next ==
  \/ \E s \in Slots : Begin(s) \/ TakeLock(s) \/ Compute(s) \/ Crash(s)
  \/ \E t \in Tutors, n \in Capacities : SetCapacity(t, n)

Spec == Init /\ [][Next]_vars

\* A handler thread keeps running, and PostgreSQL queues the waiters of a
\* row lock, so a request is not passed over for ever.
Fairness ==
  \A s \in Slots : WF_vars(Compute(s)) /\ SF_vars(TakeLock(s))

FairSpec == Spec /\ Fairness

-----------------------------------------------------------------------------
(* Properties *)

TypeOK ==
  /\ match \in [MatchIds -> Row]
  /\ maxStudents \in [Tutors -> Capacities]
  /\ pc \in [Slots -> {"idle", "student", "tutor", "duplicate", "seat", "full",
                       "insert", "match", "write", "audit"}]
  /\ req \in [Slots -> Requests \cup {NoReq}]
  /\ seen \in [Slots -> Row]
  /\ held \in [Slots -> SUBSET Rows]
  /\ adminWrites \subseteq Entries
  /\ audit \subseteq Entries

\* The row an open transaction read under its lock, and from which it computed
\* the new status and the status to fall back to, is still the row when it
\* writes: no concurrent request slips between the read and the UPDATE.
SeenIsCurrent ==
  \A s \in Slots :
    ~Inviting(s) /\ pc[s] \in {"tutor", "seat", "write"}
      => seen[s] = match[Id(s)]

\* A parent, a tutor and a subject never have two live matches at once, however
\* invitations race with each other and with the end of an earlier match.
OneLiveMatch ==
  \A m, n \in MatchIds :
    m # n /\ SameTarget(m, n)
      => ~(match[m].status \in Live /\ match[n].status \in Live)

\* The student lock alone keeps duplicates out: when create_match reaches its
\* INSERT the partial unique index has nothing to refuse.
IndexNeverFires ==
  \A s \in Slots : pc[s] = "insert" => ~Duplicate(match, Id(s))

\* A row lock has at most one owner, and a request that waits for a row holds
\* only rows that come before it in the order student, match, tutor; so no
\* circle of waiting transactions can form.
Rank(row) == CASE row[1] = "student" -> 1 [] row[1] = "match" -> 2
               [] row[1] = "tutor" -> 3

WaitsFor(s, row) ==
  \/ pc[s] = "student" /\ row = StudentRow(s)
  \/ pc[s] = "match" /\ row = MatchRow(s)
  \/ pc[s] = "tutor" /\ row = TutorRow(s)

LockOrder ==
  /\ \A s, o \in Slots : s # o => held[s] \cap held[o] = {}
  /\ \A s \in Slots, row \in Rows :
       WaitsFor(s, row) => \A r \in held[s] : Rank(r) < Rank(row)

\* Two invitations to one tutor never both take the last seat: a step that adds
\* a live match leaves the tutor within max_students as it is at that moment.
SeatTakenWithinCapacity ==
  [][\A t \in Tutors :
       ~(LiveMatches(match', t) \subseteq LiveMatches(match, t))
         => Cardinality(LiveMatches(match', t)) <= maxStudents'[t]]_vars

\* A match ends only when the termination one account started is agreed to by
\* another account; the initiator never ends it alone.
EndedByAnother ==
  [][\A m \in MatchIds :
       match[m].status # "ended" /\ match'[m].status = "ended"
         => /\ match[m].status = "terminating"
            /\ \E s \in Slots : /\ pc[s] = "write" /\ Id(s) = m
                               /\ req[s].user # match[m].by]_vars

\* Only the other party contests a termination: the initiator does not take it
\* back alone (docs/project-spec.md:622, test_match_state_machine.py:142).  The
\* code lets the initiator.
ContestedByAnother ==
  [][\A m \in MatchIds :
       match[m].status = "terminating" /\ match'[m].status \in PreTermination
         => \E s \in Slots : /\ pc[s] = "write" /\ Id(s) = m
                             /\ req[s].user # match[m].by]_vars

\* Executed one statement at a time, the requests do only what MatchLifecycle
\* allows them to do in one step each: every committed write starts from the
\* row as it is at the commit, and is an edge of the table taken by someone the
\* table entitles to it or, for disagree_terminate alone, by anybody of the
\* match (match_app_service.py:188-217 does not consult the table there).
Lifecycle == INSTANCE MatchLifecycle WITH match <- match,
                                          maxStudents <- maxStudents

AtomicLifecycle == Lifecycle!Spec

\* Every row of audit_log tells of a transition an admin really committed: a
\* refused or rolled back request leaves none.
AuditIsTrue == audit \subseteq adminWrites

\* Every request answers, also when several wait for the same rows.
RequestsFinish == \A s \in Slots : (pc[s] # "idle") ~> (pc[s] = "idle")

-----------------------------------------------------------------------------
(* The inductive invariant: what is true of a request at each statement *)

\* Which handler a statement belongs to.
Called ==
  \A s \in Slots :
    /\ pc[s] = "idle" <=> req[s] = NoReq
    /\ pc[s] \in {"student", "duplicate", "insert"} => Inviting(s)
    /\ pc[s] \in {"match", "write", "audit"} => ~Inviting(s)

\* update_status goes past the checks only with a status to move to.
Granted ==
  \A s \in Slots :
    /\ pc[s] \in {"tutor", "seat"} /\ ~Inviting(s) => NeedsSeat(req[s], seen[s])
    /\ pc[s] \in {"write", "audit"}
         => \E new \in Statuses : Target(req[s], seen[s], new)

\* The row locks a transaction holds before each of its statements.
LocksOf(s) ==
  CASE pc[s] = "tutor" /\ Inviting(s)        -> {StudentRow(s)}
    [] pc[s] = "tutor" /\ ~Inviting(s)       -> {MatchRow(s)}
    [] pc[s] = "seat" /\ ~Inviting(s)        -> {MatchRow(s), TutorRow(s)}
    [] pc[s] = "seat" /\ Inviting(s)         -> {StudentRow(s), TutorRow(s)}
    [] pc[s] \in {"duplicate", "insert"}      -> {StudentRow(s), TutorRow(s)}
    [] pc[s] = "write" /\ NeedsSeat(req[s], seen[s])  -> {MatchRow(s), TutorRow(s)}
    [] pc[s] = "write" /\ ~NeedsSeat(req[s], seen[s]) -> {MatchRow(s)}
    [] OTHER -> {}

LocksHeld == \A s \in Slots : held[s] = LocksOf(s)

Exclusive == \A s, o \in Slots : s # o => held[s] \cap held[o] = {}

\* The id of a coming INSERT is nobody else's.
Reserved ==
  \A s \in Slots :
    Inviting(s) => /\ match[Id(s)] = Absent
                   /\ \A o \in Slots : Inviting(o) /\ o # s => Id(o) # Id(s)

\* What create_match checked stays true until its INSERT.
TargetStaysFree ==
  \A s \in Slots :
    Inviting(s) /\ pc[s] \in {"seat", "insert"}
      => /\ ~Duplicate(match, Id(s))
         /\ <<TutorOf[Id(s)], SubjectOf[Id(s)]>> \in Teaches

\* The seat that was counted stays free until it is taken.
SeatStaysFree ==
  \A s \in Slots :
    pc[s] = "insert" \/ (pc[s] = "write" /\ NeedsSeat(req[s], seen[s]))
      => HasSeat(match, maxStudents, TutorOf[Id(s)])

\* Before its audit row is written an admin's transition is committed.
AuditAhead ==
  \A s \in Slots, new \in Statuses :
    pc[s] = "audit" /\ Target(req[s], seen[s], new) => Entry(s, new) \in adminWrites
=============================================================================
