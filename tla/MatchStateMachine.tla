------------------------- MODULE MatchStateMachine -------------------------
(***************************************************************************)
(* The rules of a match, without any database: its statuses, the table of  *)
(* transitions and who may take each of them                               *)
(* (matching/domain/state_machine.py), and the facts about a match that    *)
(* never change once it is created: its tutor, student and subject.        *)
(*                                                                         *)
(* Contract terms, names, messages and the wording of a reason are         *)
(* payload and are left out; of the reason column only the status stored   *)
(* in front of the "|" is kept, because the code computes with it.         *)
(***************************************************************************)
EXTENDS Naturals, FiniteSets

CONSTANTS
  Users, Admins,       \* accounts, and those whose role is admin
  Tutors, Students, Subjects,
  UserOf,              \* the account of a tutor
  ParentOf,            \* the account of a student's parent
  Teaches,             \* rows of tutor_subjects, <<tutor, subject>>
  MatchIds,            \* ids the match sequence may hand out
  TutorOf, StudentOf, SubjectOf,  \* the target an id is used for
  Capacities,          \* values max_students may take
  NoUser               \* SQL NULL in a user column

ASSUME DomainAssumption ==
  /\ Admins \subseteq Users
  /\ NoUser \notin Users
  /\ UserOf \in [Tutors -> Users]
  /\ ParentOf \in [Students -> Users]
  /\ Teaches \subseteq Tutors \X Subjects
  /\ TutorOf \in [MatchIds -> Tutors]
  /\ StudentOf \in [MatchIds -> Students]
  /\ SubjectOf \in [MatchIds -> Subjects]
  /\ IsFiniteSet(MatchIds)
  /\ Capacities \subseteq Nat

-----------------------------------------------------------------------------
Terminal == {"cancelled", "rejected", "ended"}

Live == {"pending", "trial", "active", "paused", "terminating"}

Statuses == Live \cup Terminal

\* What set_terminating accepts as the status to fall back to.
PreTermination == {"active", "paused"}

Edge(from, action, to, actor) ==
  [from |-> from, action |-> action, to |-> to, actor |-> actor]

\* "per_trial" and "revert" stand for new_status=None: the first is computed
\* from want_trial, the second from the stored termination payload.
TRANSITIONS ==
  { Edge("pending",     "cancel",             "cancelled",   "PARENT"),
    Edge("pending",     "reject",             "rejected",    "TUTOR"),
    Edge("pending",     "accept",             "per_trial",   "TUTOR"),
    Edge("trial",       "confirm_trial",      "active",      "EITHER"),
    Edge("trial",       "reject_trial",       "rejected",    "EITHER"),
    Edge("active",      "pause",              "paused",      "EITHER"),
    Edge("active",      "terminate",          "terminating", "EITHER"),
    Edge("paused",      "resume",             "active",      "EITHER"),
    Edge("paused",      "terminate",          "terminating", "EITHER"),
    Edge("terminating", "agree_terminate",    "ended",       "OTHER_PARTY"),
    Edge("terminating", "disagree_terminate", "revert",      "OTHER_PARTY") }

Actions == { "cancel", "reject", "accept", "confirm_trial", "reject_trial",
             "pause", "resume", "terminate", "agree_terminate",
             "disagree_terminate" }

-----------------------------------------------------------------------------
IsParent(u, m) == u = ParentOf[StudentOf[m]]

IsTutor(u, m) == u = UserOf[TutorOf[m]]

IsAdmin(u) == u \in Admins

\* The gate every handler puts in front of the table.
Participant(u, m) == IsParent(u, m) \/ IsTutor(u, m) \/ IsAdmin(u)

\* Mutant of Permitted: the initiator counts as the other party.
PermittedInitiator(allowed, u, m, by) ==
  \/ IsAdmin(u) /\ allowed # "OTHER_PARTY"
  \/ allowed = "PARENT" /\ IsParent(u, m)
  \/ allowed = "TUTOR" /\ IsTutor(u, m)
  \/ allowed = "EITHER" /\ (IsParent(u, m) \/ IsTutor(u, m))
  \/ allowed = "OTHER_PARTY" /\ by # NoUser

\* _check_permission: may user u take, on match m whose termination was
\* started by `by`, an edge reserved to `allowed`?
Permitted(allowed, u, m, by) ==
  \/ IsAdmin(u) /\ allowed # "OTHER_PARTY"
  \/ allowed = "PARENT" /\ IsParent(u, m)
  \/ allowed = "TUTOR" /\ IsTutor(u, m)
  \/ allowed = "EITHER" /\ (IsParent(u, m) \/ IsTutor(u, m))
  \/ allowed = "OTHER_PARTY" /\ by # NoUser /\ by # u

\* Mutant of Resolves: the status the match is in is not compared.
ResolvesAnywhere(row, action, u, m, new) ==
  \E t \in TRANSITIONS :
    /\ t.action = action
    /\ Permitted(t.actor, u, m, row.by)
    /\ new = IF action = "accept"
             THEN IF row.trial THEN "trial" ELSE "active"
             ELSE t.to

\* resolve_transition: u taking `action` on row moves it to status new.
Resolves(row, action, u, m, new) ==
  \E t \in TRANSITIONS :
    /\ t.from = row.status
    /\ t.action = action
    /\ Permitted(t.actor, u, m, row.by)
    /\ new = IF action = "accept"
             THEN IF row.trial THEN "trial" ELSE "active"
             ELSE t.to

\* A row of matches; an id the sequence has not handed out is Absent.
Row == [ status : Statuses \cup {"absent"},
         trial  : BOOLEAN,
         by     : Users \cup {NoUser},
         prev   : PreTermination \cup {"none"} ]

Absent == [status |-> "absent", trial |-> FALSE, by |-> NoUser, prev |-> "none"]

\* The row create writes.
Invited(trial) ==
  [status |-> "pending", trial |-> trial, by |-> NoUser, prev |-> "none"]

SameTarget(m, n) ==
  /\ TutorOf[m] = TutorOf[n]
  /\ StudentOf[m] = StudentOf[n]
  /\ SubjectOf[m] = SubjectOf[n]

\* get_active_student_count reads every match that is not over.
LiveMatches(match, t) ==
  {m \in MatchIds : TutorOf[m] = t /\ match[m].status \in Live}

\* Mutant of Duplicate: an invitation not answered yet is overlooked.
DuplicateAccepted(match, m) ==
  \E n \in MatchIds : SameTarget(m, n) /\ match[n].status \in Live \ {"pending"}

\* check_duplicate_active, and what the partial unique index forbids.
Duplicate(match, m) ==
  \E n \in MatchIds : SameTarget(m, n) /\ match[n].status \in Live

\* Mutant of HasSeat: one too many.
HasSeatAtMost(match, maxStudents, t) ==
  Cardinality(LiveMatches(match, t)) <= maxStudents[t]

\* get_active_student_count against get_max_students.
HasSeat(match, maxStudents, t) ==
  Cardinality(LiveMatches(match, t)) < maxStudents[t]
=============================================================================
