----------------------------- MODULE Invitations ----------------------------
(***************************************************************************)
(* POST /api/matches with an Idempotency-Key (matching/api/router.py and   *)
(* matching/infrastructure/postgres_idempotency_repo.py): a client tries,  *)
(* loses the answer or the worker, and tries again, on any worker.         *)
(*                                                                         *)
(* Looking the key up, taking a place in the rate bucket, creating the     *)
(* match and recording the key are separate transactions.  The creation    *)
(* is one step of module MatchLifecycle, which module Matching implements; *)
(* the other steps of a match's life go on beside it.  The bucket is a     *)
(* choice: it lets the attempt through or does not.                        *)
(***************************************************************************)
EXTENDS MatchLifecycle

CONSTANTS
  Attempts,      \* requests in flight at once
  IdemKeys,      \* values of the header
  Lifetime,      \* hours a recorded key is valid
  MaxHour,       \* bound on the clock
  Nothing

VARIABLES
  hour,          \* the clock
  stored,        \* idempotency_keys, per user and key
  step, call,    \* next statement of each attempt, and what it carries
  origin,        \* the user and key each match was created under (history)
  replayed       \* the matches a key's replays have named (history)

inviteVars == <<hour, stored, step, call, origin, replayed>>
allVars == <<vars, inviteVars>>

ASSUME InvitationAssumption ==
  /\ Lifetime \in Nat /\ MaxHour \in Nat
  /\ Nothing \notin MatchIds \cup (Users \X IdemKeys)

-----------------------------------------------------------------------------
\* What an invitation is for.
Target(m) == <<TutorOf[m], StudentOf[m], SubjectOf[m]>>
Targets == {Target(m) : m \in MatchIds}

\* PRIMARY KEY (user_id, idem_key)
Owners == Users \X IdemKeys

NoCall == [user |-> Nothing]

\* ... AND expires_at > NOW()
Valid(row) == row # Nothing /\ row.expires > hour

\* Mutant of FindMatch: the row is sought by the key alone.
FindByKeyAlone(u, key) ==
  {stored[o].match : o \in {p \in Owners : p[2] = key /\ Valid(stored[p])}}

\* find_match_id: the match recorded under the user's key, if any.
FindMatch(u, key) ==
  {stored[o].match : o \in {p \in Owners : p = <<u, key>> /\ Valid(stored[p])}}

Goto(a, where) == step' = [step EXCEPT ![a] = where]

\* The answer, lost or not, or the end of the worker.
Leave(a) ==
  /\ Goto(a, "idle")
  /\ call' = [call EXCEPT ![a] = NoCall]

-----------------------------------------------------------------------------
InvitationInit ==
  /\ Init
  /\ hour = 0
  /\ stored = [o \in Owners |-> Nothing]
  /\ step = [a \in Attempts |-> "idle"]
  /\ call = [a \in Attempts |-> NoCall]
  /\ origin = [m \in MatchIds |-> Nothing]
  /\ replayed = [o \in Owners |-> {}]

\* create_match: a key that is found is answered at once; otherwise the
\* attempt goes on to its bucket.
Arrive(a, u, key, target, trial) ==
  /\ step[a] = "idle"
  /\ u \in {ParentOf[c] : c \in Students}
  /\ \/ /\ FindMatch(u, key) # {}
        /\ replayed' = [replayed EXCEPT ![<<u, key>>] = @ \cup FindMatch(u, key)]
        /\ UNCHANGED <<step, call>>
     \/ /\ FindMatch(u, key) = {}
        /\ call' = [call EXCEPT ![a] =
                      [user |-> u, key |-> key, target |-> target,
                       trial |-> trial, match |-> Nothing]]
        /\ Goto(a, "bucket")
        /\ UNCHANGED replayed
  /\ UNCHANGED <<vars, hour, stored, origin>>

\* check_and_record_bucket, and TooManyRequestsError.
Bucket(a) ==
  /\ step[a] = "bucket"
  /\ (Goto(a, "create") /\ UNCHANGED call) \/ Leave(a)
  /\ UNCHANGED <<vars, hour, stored, origin, replayed>>

\* service.create_match would admit an invitation under this id.
Admits(m, u) ==
  /\ IsParent(u, m)
  /\ <<TutorOf[m], SubjectOf[m]>> \in Teaches
  /\ ~Duplicate(match, m)
  /\ HasSeat(match, maxStudents, TutorOf[m])

\* service.create_match, all of it, and its commit; or its refusal.
Create(a) ==
  /\ step[a] = "create"
  /\ \/ \E m \in MatchIds :
          /\ Target(m) = call[a].target /\ IsParent(call[a].user, m)
          /\ Invite(m, call[a].trial)
          /\ origin' = [origin EXCEPT ![m] = <<call[a].user, call[a].key>>]
          /\ call' = [call EXCEPT ![a].match = m]
          /\ Goto(a, "record")
     \/ /\ \A m \in MatchIds : Target(m) = call[a].target => ~Admits(m, call[a].user)
        /\ Leave(a)
        /\ UNCHANGED <<vars, origin>>
  /\ UNCHANGED <<hour, stored, replayed>>

\* Mutant of Keep: ON CONFLICT DO UPDATE.
Overwrite(old, new) == new

\* ON CONFLICT (user_id, idem_key) DO NOTHING
Keep(old, new) == IF old = Nothing THEN new ELSE old

\* Mutant of Expiry: days where hours are meant.
ExpiryInDays == hour + 24 * Lifetime

\* NOW() + INTERVAL '24 hours'
Expiry == hour + Lifetime

\* idem_repo.record, in a transaction of its own, and the answer.
Record(a) ==
  /\ step[a] = "record"
  /\ LET o == <<call[a].user, call[a].key>> IN
     stored' = [stored EXCEPT ![o] =
                  Keep(@, [match |-> call[a].match, expires |-> Expiry])]
  /\ Leave(a)
  /\ UNCHANGED <<vars, hour, origin, replayed>>

\* The worker dies, or a statement fails, between two transactions.
Crash(a) ==
  /\ step[a] # "idle"
  /\ Leave(a)
  /\ UNCHANGED <<vars, hour, stored, origin, replayed>>

Tick ==
  /\ hour < MaxHour
  /\ hour' = hour + 1
  /\ UNCHANGED <<vars, stored, step, call, origin, replayed>>

\* The matches that are there live on.
MatchesMove ==
  \/ \E m \in MatchIds, new \in Statuses : Move(m, new)
  \/ \E m \in MatchIds, u \in Users : Terminate(m, u)
  \/ \E m \in MatchIds, u \in Users : Contest(m, u)
  \/ \E t \in Tutors, n \in Capacities : SetCapacity(t, n)

InvitationNext ==
  \/ MatchesMove /\ UNCHANGED inviteVars
  \/ \E a \in Attempts : Bucket(a) \/ Create(a) \/ Record(a) \/ Crash(a)
  \/ \E a \in Attempts, u \in Users, key \in IdemKeys, target \in Targets,
        trial \in BOOLEAN : Arrive(a, u, key, target, trial)
  \/ Tick

InvitationSpec == InvitationInit /\ [][InvitationNext]_allVars

-----------------------------------------------------------------------------
(* Properties *)

CallRecords ==
  [user : Users, key : IdemKeys, target : Targets, trial : BOOLEAN,
   match : MatchIds \cup {Nothing}]

StoredRows == [match : MatchIds, expires : 0 .. MaxHour + Lifetime]

InvitationTypeOK ==
  /\ hour \in 0 .. MaxHour
  /\ stored \in [Owners -> StoredRows \cup {Nothing}]
  /\ step \in [Attempts -> {"idle", "bucket", "create", "record"}]
  /\ call \in [Attempts -> CallRecords \cup {NoCall}]
  /\ origin \in [MatchIds -> Owners \cup {Nothing}]
  /\ replayed \in [Owners -> SUBSET MatchIds]

\* All answers replayed from one user's key name one match, however many
\* attempts created matches under it and however often its record expired.
ReplaysAgree == \A o \in Owners : Cardinality(replayed[o]) <= 1

\* A replay names a match that this user created under this very key: never a
\* match of somebody who happens to send the same key.
ReplayIsOwn == \A o \in Owners : \A m \in replayed[o] : origin[m] = o
=============================================================================
