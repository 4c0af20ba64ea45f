----------------------------- MODULE SessionLog -----------------------------
(***************************************************************************)
(* Lesson records and their edit history: SessionAppService.create, update *)
(* and delete (teaching/application/session_service.py) run by concurrent  *)
(* requests, beside matches whose status moves under them.                 *)
(*                                                                         *)
(* An edit locks the session row, then reads the match without a lock,     *)
(* then writes the row and its log rows in one transaction.  A creation    *)
(* reads the match and inserts.  Values are numbers: a text stands for     *)
(* itself, hours are thousandths of an hour, because the column keeps two  *)
(* decimals and the request may carry more.                                *)
(***************************************************************************)
EXTENDS Naturals, Sequences

CONSTANTS
  Slots,         \* requests in flight at once
  Users,
  Matches,
  TutorUser,     \* the account of a match's tutor
  SessionIds,    \* ids the sequence may hand out
  Fields,        \* editable columns of sessions
  Values,        \* values requests carry
  MaxEdits,      \* bound on the log rows of one field
  NoRow, NoSlot

VARIABLES
  status,        \* committed matches.status
  session,       \* committed rows of sessions
  matchOf,       \* sessions.match_id
  issued,        \* ids handed out so far
  log,           \* session_edit_logs, per session and field, oldest first
  pc, req,       \* next statement of each request, and what it was called with
  seen,          \* the row an edit read under its lock ("fresh")
  lockedBy       \* owner of each session row's lock

vars == <<status, session, matchOf, issued, log, pc, req, seen, lockedBy>>

ASSUME SessionAssumption ==
  /\ TutorUser \in [Matches -> Users]
  /\ Values \subseteq Nat
  /\ NoRow \notin [Fields -> Nat]
  /\ NoSlot \notin Slots

-----------------------------------------------------------------------------
\* Statuses in which lessons are recorded.
Taught == {"active", "trial"}

Statuses == Taught \cup {"paused", "terminating", "ended", "rejected"}

\* The edges of TRANSITIONS between those statuses.
Moves ==
  { <<"trial", "active">>, <<"trial", "rejected">>, <<"active", "paused">>,
    <<"active", "terminating">>, <<"paused", "active">>,
    <<"paused", "terminating">>, <<"terminating", "active">>,
    <<"terminating", "paused">>, <<"terminating", "ended">> }

\* What the column gives back: hours are NUMERIC(10,2), rounded half up.
Stored(f, v) == IF f = "hours" THEN ((v + 5) \div 10) * 10 ELSE v

\* CHECK (hours > 0)
Storable(f, v) == f = "hours" => Stored(f, v) > 0

Rows == [Fields -> Nat]

\* model_dump(exclude_unset=True): any of the columns, only those sent.
Patches == UNION {[D -> Values] : D \in SUBSET Fields}

\* Mutant of Patched: the body replaces the row instead of patching it.
PatchedAlone(row, patch) == [f \in DOMAIN patch |-> Stored(f, patch[f])]

Patched(row, patch) ==
  [f \in Fields |-> IF f \in DOMAIN patch THEN Stored(f, patch[f]) ELSE row[f]]

Accepted(patch) == \A f \in DOMAIN patch : Storable(f, patch[f])

Exists(i) == session[i] # NoRow

NoReq == [op |-> "none", user |-> NoSlot, target |-> NoSlot, vals |-> <<>>]

Goto(s, where) == pc' = [pc EXCEPT ![s] = where]

\* Mutant of Lock: a SELECT without FOR UPDATE.
LockNothing(s, i) == lockedBy[i] = NoSlot /\ UNCHANGED lockedBy

Lock(s, i) ==
  /\ lockedBy[i] = NoSlot
  /\ lockedBy' = [lockedBy EXCEPT ![i] = s]

\* COMMIT or ROLLBACK, and the answer.
Leave(s) ==
  /\ Goto(s, "idle")
  /\ req' = [req EXCEPT ![s] = NoReq]
  /\ seen' = [seen EXCEPT ![s] = NoRow]
  /\ lockedBy' = [i \in SessionIds |->
                    IF lockedBy[i] = s THEN NoSlot ELSE lockedBy[i]]

TableUnchanged == UNCHANGED <<status, session, matchOf, issued, log>>

-----------------------------------------------------------------------------
Init ==
  /\ status \in [Matches -> {"active", "trial"}]
  /\ session = [i \in SessionIds |-> NoRow]
  /\ matchOf = [i \in SessionIds |-> NoRow]
  /\ issued = {}
  /\ log = [i \in SessionIds |-> [f \in Fields |-> <<>>]]
  /\ pc = [s \in Slots |-> "idle"]
  /\ req = [s \in Slots |-> NoReq]
  /\ seen = [s \in Slots |-> NoRow]
  /\ lockedBy = [i \in SessionIds |-> NoSlot]

\* create: the match is read without a lock and judged.
BeginCreate(s, m, u, row) ==
  /\ pc[s] = "idle"
  /\ u = TutorUser[m] /\ status[m] \in Taught
  /\ req' = [req EXCEPT ![s] =
               [op |-> "create", user |-> u, target |-> m, vals |-> row]]
  /\ Goto(s, "insert")
  /\ UNCHANGED <<seen, lockedBy>> /\ TableUnchanged

\* create: INSERT and COMMIT.
InsertSession(s) ==
  /\ pc[s] = "insert"
  /\ \/ /\ Accepted(req[s].vals)
        /\ \E i \in SessionIds \ issued :
             /\ session' = [session EXCEPT ![i] = Patched(req[s].vals, req[s].vals)]
             /\ matchOf' = [matchOf EXCEPT ![i] = req[s].target]
             /\ issued' = issued \cup {i}
     \/ ~Accepted(req[s].vals) /\ UNCHANGED <<session, matchOf, issued>>
  /\ Leave(s)
  /\ UNCHANGED <<status, log>>

\* A PUT with a nonempty body, or a DELETE, arrives.
BeginEdit(s, i, u, patch) ==
  /\ pc[s] = "idle"
  /\ i \in issued
  /\ DOMAIN patch # {}
  /\ \A f \in Fields : Len(log[i][f]) < MaxEdits
  /\ req' = [req EXCEPT ![s] =
               [op |-> "edit", user |-> u, target |-> i, vals |-> patch]]
  /\ Goto(s, "lock")
  /\ UNCHANGED <<seen, lockedBy>> /\ TableUnchanged

BeginDelete(s, i, u) ==
  /\ pc[s] = "idle"
  /\ i \in issued
  /\ req' = [req EXCEPT ![s] =
               [op |-> "delete", user |-> u, target |-> i, vals |-> <<>>]]
  /\ Goto(s, "lock")
  /\ UNCHANGED <<seen, lockedBy>> /\ TableUnchanged

\* get_by_id_for_update, and SessionNotFoundError.
LockSession(s) ==
  /\ pc[s] = "lock"
  /\ LET i == req[s].target IN
     \/ /\ Exists(i)
        /\ Lock(s, i)
        /\ seen' = [seen EXCEPT ![s] = session[i]]
        /\ Goto(s, "check")
        /\ UNCHANGED req
     \/ ~Exists(i) /\ lockedBy[i] = NoSlot /\ Leave(s)
  /\ TableUnchanged

\* get_match_for_create inside the transaction, without a lock.
CheckMatch(s) ==
  /\ pc[s] = "check"
  /\ LET m == matchOf[req[s].target]
         granted == req[s].user = TutorUser[m] /\ status[m] \in Taught
     IN \/ granted /\ Goto(s, "write") /\ UNCHANGED <<req, seen, lockedBy>>
        \/ ~granted /\ Leave(s)
  /\ TableUnchanged

\* The columns whose value differs from the one read under the lock.
Diffs(s) == {f \in DOMAIN req[s].vals : req[s].vals[f] # seen[s][f]}

\* One log row per differing column: the value read and the value sent.
Logged(s) ==
  [f \in Fields |->
     LET rows == log[req[s].target][f] IN
     IF f \in Diffs(s)
     THEN Append(rows, [old |-> seen[s][f], new |-> req[s].vals[f]])
     ELSE rows]

\* Mutant of WriteEdit: the log rows are not in the UPDATE's transaction.
WriteEditApart(s) ==
  /\ pc[s] = "write" /\ req[s].op = "edit"
  /\ LET i == req[s].target IN
     /\ log' = [log EXCEPT ![i] = Logged(s)]
     /\ session' = IF Accepted(req[s].vals)
                   THEN [session EXCEPT ![i] = Patched(session[i], req[s].vals)]
                   ELSE session
  /\ Leave(s)
  /\ UNCHANGED <<status, matchOf, issued>>

\* update: UPDATE, the log rows and COMMIT; nothing at all without a
\* difference, or when the row violates a CHECK.
WriteEdit(s) ==
  /\ pc[s] = "write" /\ req[s].op = "edit"
  /\ LET i == req[s].target IN
     IF Diffs(s) # {} /\ Accepted(req[s].vals)
     THEN /\ session' = [session EXCEPT ![i] = Patched(session[i], req[s].vals)]
          /\ log' = [log EXCEPT ![i] = Logged(s)]
     ELSE UNCHANGED <<session, log>>
  /\ Leave(s)
  /\ UNCHANGED <<status, matchOf, issued>>

\* delete: DELETE, which cascades to the log rows, and COMMIT.
WriteDelete(s) ==
  /\ pc[s] = "write" /\ req[s].op = "delete"
  /\ session' = [session EXCEPT ![req[s].target] = NoRow]
  /\ log' = [log EXCEPT ![req[s].target] = [f \in Fields |-> <<>>]]
  /\ Leave(s)
  /\ UNCHANGED <<status, matchOf, issued>>

\* The worker dies or a statement fails: the server rolls back.
Crash(s) ==
  /\ pc[s] # "idle"
  /\ Leave(s) /\ TableUnchanged

\* Module Matching moves the match.
MoveMatch(m) ==
  /\ \E to \in Statuses :
       <<status[m], to>> \in Moves /\ status' = [status EXCEPT ![m] = to]
  /\ UNCHANGED <<session, matchOf, issued, log, pc, req, seen, lockedBy>>

Begin(s) ==
  \E u \in Users :
    \/ \E m \in Matches, row \in [Fields -> Values] : BeginCreate(s, m, u, row)
    \/ \E i \in SessionIds :
         BeginDelete(s, i, u) \/ \E patch \in Patches : BeginEdit(s, i, u, patch)

Continue(s) ==
  \/ InsertSession(s) \/ LockSession(s) \/ CheckMatch(s)
  \/ WriteEdit(s) \/ WriteDelete(s)

Next ==
  \/ \E s \in Slots : Begin(s) \/ Continue(s) \/ Crash(s)
  \/ \E m \in Matches : MoveMatch(m)

Spec == Init /\ [][Next]_vars

-----------------------------------------------------------------------------
(* Properties *)

Requests ==
  [ op : {"create"}, user : Users, target : Matches, vals : [Fields -> Values] ]
  \cup [ op : {"edit"}, user : Users, target : SessionIds, vals : Patches ]
  \cup [ op : {"delete"}, user : Users, target : SessionIds, vals : {<<>>} ]

Entries == [old : Nat, new : Nat]

TypeOK ==
  /\ status \in [Matches -> Statuses]
  /\ session \in [SessionIds -> Rows \cup {NoRow}]
  /\ matchOf \in [SessionIds -> Matches \cup {NoRow}]
  /\ issued \subseteq SessionIds
  /\ log \in [SessionIds -> [Fields -> Seq(Entries)]]
  /\ pc \in [Slots -> {"idle", "insert", "lock", "check", "write"}]
  /\ req \in [Slots -> Requests \cup {NoReq}]
  /\ seen \in [Slots -> Rows \cup {NoRow}]
  /\ lockedBy \in [SessionIds -> Slots \cup {NoSlot}]

\* The edit history of a lesson is a trail: within a column each entry starts
\* from what the entry before it left in the column, and the last one left what
\* is there now, however many edits were in flight.  A deleted lesson has none.
Trail(rows, f, now) ==
  /\ \A k \in 1 .. Len(rows) - 1 : rows[k + 1].old = Stored(f, rows[k].new)
  /\ rows # <<>> => now = Stored(f, rows[Len(rows)].new)

EditTrail ==
  \A i \in SessionIds, f \in Fields :
    /\ Exists(i) => Trail(log[i][f], f, session[i][f])
    /\ ~Exists(i) => log[i][f] = <<>>

\* Between its locked read and its write the row an edit or a deletion works on
\* belongs to that request alone and does not change.
SeenIsCurrent ==
  \A s \in Slots :
    pc[s] \in {"check", "write"}
      => /\ lockedBy[req[s].target] = s
         /\ Exists(req[s].target)
         /\ seen[s] = session[req[s].target]
=============================================================================
