-------------------------- MODULE MatchLifecycle --------------------------
(***************************************************************************)
(* What the matching service promises, with every request executed in one  *)
(* step: no locks, no transactions, no snapshots.  Module Matching, where  *)
(* requests interleave statement by statement, implements it.              *)
(***************************************************************************)
EXTENDS MatchStateMachine

VARIABLES
  match,         \* matches: one row per id
  maxStudents    \* tutors.max_students

vars == <<match, maxStudents>>

Init ==
  /\ match = [m \in MatchIds |-> Absent]
  /\ maxStudents \in [Tutors -> Capacities]

\* A parent invites a tutor who teaches the subject, has a seat and has no
\* live match with this student for it.
Invite(m, trial) ==
  /\ match' = [match EXCEPT ![m] = Invited(trial)]
  /\ match[m] = Absent
  /\ <<TutorOf[m], SubjectOf[m]>> \in Teaches
  /\ ~Duplicate(match, m)
  /\ HasSeat(match, maxStudents, TutorOf[m])
  /\ UNCHANGED maxStudents

\* Someone entitled takes an edge of the table that only changes the status;
\* becoming active needs a seat.
Move(m, new) ==
  /\ match' = [match EXCEPT ![m].status = new]
  /\ \E u \in Users, action \in Actions \ {"terminate"} :
       Resolves(match[m], action, u, m, new)
  /\ new = "active" => HasSeat(match, maxStudents, TutorOf[m])
  /\ UNCHANGED maxStudents

\* Starting a termination remembers who did and where the match stood.
Terminate(m, u) ==
  /\ match' = [match EXCEPT ![m].status = "terminating",
                            ![m].by = u,
                            ![m].prev = match[m].status]
  /\ Resolves(match[m], "terminate", u, m, "terminating")
  /\ UNCHANGED maxStudents

\* Contesting it puts the match back exactly where it stood.  Whoever belongs
\* to the match may, the initiator included: update_status does not ask the
\* table, which reserves the edge to the other party.
Contest(m, u) ==
  /\ match' = [match EXCEPT ![m].status = match[m].prev,
                            ![m].by = NoUser,
                            ![m].prev = "none"]
  /\ match[m].status = "terminating"
  /\ Participant(u, m)
  /\ UNCHANGED maxStudents

SetCapacity(t, n) ==
  /\ maxStudents' = [maxStudents EXCEPT ![t] = n]
  /\ UNCHANGED match

Next ==
  \/ \E m \in MatchIds, trial \in BOOLEAN : Invite(m, trial)
  \/ \E m \in MatchIds, new \in Statuses : Move(m, new)
  \/ \E m \in MatchIds, u \in Users : Terminate(m, u) \/ Contest(m, u)
  \/ \E t \in Tutors, n \in Capacities : SetCapacity(t, n)

Spec == Init /\ [][Next]_vars
=============================================================================
