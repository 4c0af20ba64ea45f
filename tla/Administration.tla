--------------------------- MODULE Administration ---------------------------
(***************************************************************************)
(* What administrators do to the platform as a whole: wipe the database    *)
(* after a confirmation, import an archive over it, anonymise a user, and  *)
(* fill it with demonstration data (admin/api/router.py,                   *)
(* AdminImportService, TableAdminRepository, seed/generator.py).           *)
(*                                                                         *)
(* Every behaviour lies within the life of the callers' access tokens,     *)
(* which name the caller and are not looked up again, and within the seven *)
(* days of one caller's bucket.  Tables are abstracted to accounts,        *)
(* subjects and `rows`: live matches, each of a user, that refer to a      *)
(* subject; an archive holds subjects only.                                *)
(***************************************************************************)
EXTENDS Naturals, FiniteSets

CONSTANTS
  Slots,         \* requests in flight at once
  Ids,           \* user ids
  Callers,       \* ids with an administrator's access token
  Tokens,        \* reset tokens that may be minted
  Rows,          \* ids of matches
  Needed,        \* len(SEED_SUBJECTS)
  NoUser, NoRow, NoToken, NoId

ASSUME AdministrationAssumption ==
  /\ Callers \subseteq Ids /\ Callers # {} /\ IsFiniteSet(Ids) /\ Needed \in Nat \ {0}
  /\ NoId \notin Ids /\ NoToken \notin Tokens
  /\ NoUser \notin [boss : BOOLEAN, role : {"admin", "other"}, alive : BOOLEAN]

VARIABLES
  users,         \* committed accounts
  subjects,      \* number of committed subjects
  rows,          \* user of each committed match
  minted,        \* owner of each reset token, NoId when none was minted
  burnt,         \* tokens in refresh_token_blacklist
  hits,          \* callers whose bucket is full
  work,          \* the request of each slot and its transaction
  passed,        \* history variable: attempts of each token past its consumption
  wipes,         \* history variable: resets each caller has committed
  excused        \* history variable: two erasures overlapped, or an archive was
                 \* imported over the accounts

adminVars == <<users, subjects, rows, minted, burnt, hits, work, passed, wipes, excused>>

-----------------------------------------------------------------------------
\* boss: the username is ADMIN_USERNAME; alive: the hash is not 'ANONYMIZED'.
Account == [boss : BOOLEAN, role : {"admin", "other"}, alive : BOOLEAN]

Usable(u) == users[u] # NoUser /\ users[u].role = "admin" /\ users[u].alive

Owned(u) == {r \in Rows : rows[r] = u}

\* Rows a transaction holds (`held`) or has deleted but not committed.
Idle == [at |-> "idle", by |-> NoId, target |-> NoId, token |-> NoToken,
         held |-> {}, hits |-> {}, rows |-> {}, subjects |-> FALSE, users |-> {}]

\* Steps of confirm_reset under its lock, and those of every wipe.
Confirming == {"consume", "verify"}

Wiping == {"rows", "subjects", "users", "fill"}

Transacting == Confirming \cup Wiping \cup {"audit"}

Resetting(s) == work[s].token # NoToken

Goto(s, where) == work' = [work EXCEPT ![s].at = where]

Leave(s) == work' = [work EXCEPT ![s] = Idle]

\* No other transaction holds or has deleted any of these users' rows.
Free(s, us) ==
  \A o \in Slots \ {s} : us \cap (work[o].held \cup work[o].users) = {}

SubjectsGone == \E s \in Slots : work[s].subjects

TablesUnchanged == UNCHANGED <<users, subjects, rows, minted, burnt, hits>>

HistoryUnchanged == UNCHANGED <<passed, wipes, excused>>

-----------------------------------------------------------------------------
\* The callers are administrators, one of them ADMIN_USERNAME.
AdminInit ==
  /\ users = [u \in Ids |-> IF u \in Callers
                            THEN [boss |-> u = CHOOSE c \in Callers : TRUE,
                                  role |-> "admin", alive |-> TRUE]
                            ELSE NoUser]
  /\ subjects = Needed
  /\ rows = [r \in Rows |-> NoRow]
  /\ minted = [k \in Tokens |-> NoId]
  /\ burnt = {} /\ hits = {}
  /\ work = [s \in Slots |-> Idle]
  /\ passed = [k \in Tokens |-> 0]
  /\ wipes = [a \in Callers |-> 0]
  /\ excused = FALSE

\* POST /api/auth/register, under a username that is free.
Register(u, boss) ==
  /\ users[u] = NoUser /\ u \notin Callers
  /\ boss => \A v \in Ids : users[v] # NoUser => ~users[v].boss
  /\ users' = [users EXCEPT ![u] = [boss |-> boss, role |-> "other", alive |-> TRUE]]
  /\ UNCHANGED <<subjects, rows, minted, burnt, hits, work>> /\ HistoryUnchanged

\* Matching: a match of a user in some subject is made, and stays live.
MakeMatch(r, u) ==
  /\ rows[r] = NoRow /\ users[u] # NoUser /\ users[u].role = "other" /\ subjects > 0
  /\ ~SubjectsGone /\ Free(NoId, {u})
  /\ rows' = [rows EXCEPT ![r] = u]
  /\ UNCHANGED <<users, subjects, minted, burnt, hits, work>> /\ HistoryUnchanged

\* run_seed, in the router's transaction or the task's: nothing when there is
\* a user who is no administrator, and a rollback when subjects are missing,
\* for matches.subject_id is NOT NULL.
Seed(u, r) ==
  /\ \A v \in Ids : users[v] # NoUser => users[v].role = "admin"
  /\ users[u] = NoUser /\ u \notin Callers /\ rows[r] = NoRow
  /\ subjects = Needed /\ ~SubjectsGone
  /\ users' = [users EXCEPT ![u] = [boss |-> FALSE, role |-> "other", alive |-> TRUE]]
  /\ rows' = [rows EXCEPT ![r] = u]
  /\ UNCHANGED <<subjects, minted, burnt, hits, work>> /\ HistoryUnchanged

-----------------------------------------------------------------------------
(* POST /api/admin/reset and /reset/confirm.                               *)

RequestReset(a, k) ==
  /\ minted[k] = NoId
  /\ minted' = [minted EXCEPT ![k] = a]
  /\ UNCHANGED <<users, subjects, rows, burnt, hits, work>> /\ HistoryUnchanged

\* pg_try_advisory_xact_lock, or 409.
TryLock == \A o \in Slots : ~Resetting(o)

\* The caller's bucket, one attempt in seven days recorded at once, then the
\* lock.  A token nobody minted is refused as a burnt one is.
AskConfirm(s, a, k) ==
  /\ work[s].at = "idle" /\ a \notin hits /\ minted[k] # NoId
  /\ hits' = hits \cup {a}
  /\ IF TryLock
     THEN work' = [work EXCEPT ![s] =
                     [Idle EXCEPT !.at = "consume", !.by = a, !.token = k]]
     ELSE UNCHANGED work
  /\ UNCHANGED <<users, subjects, rows, minted, burnt>> /\ HistoryUnchanged

TokenHolds(s) == minted[work[s].token] = work[s].by /\ work[s].token \notin burnt

\* Mutant of Consume: burnt in the transaction, that a refusal rolls back.
ConsumeInside(s) ==
  /\ work[s].at = "consume"
  /\ IF TokenHolds(s)
     THEN /\ passed' = [passed EXCEPT ![work[s].token] = @ + 1]
          /\ Goto(s, "verify")
     ELSE Leave(s) /\ UNCHANGED passed
  /\ TablesUnchanged /\ UNCHANGED <<wipes, excused>>

\* The token is decoded, and burnt on a connection of its own.
Consume(s) ==
  /\ work[s].at = "consume"
  /\ IF TokenHolds(s)
     THEN /\ burnt' = burnt \cup {work[s].token}
          /\ passed' = [passed EXCEPT ![work[s].token] = @ + 1]
          /\ Goto(s, "verify")
     ELSE Leave(s) /\ UNCHANGED <<burnt, passed>>
  /\ UNCHANGED <<users, subjects, rows, minted, hits, wipes, excused>>

\* Mutant of Verify: the hash is read without FOR UPDATE.
VerifyUnlocked(s, right) ==
  /\ work[s].at = "verify"
  /\ IF Usable(work[s].by) /\ right THEN Goto(s, "rows") ELSE Leave(s)
  /\ TablesUnchanged /\ HistoryUnchanged

\* SELECT password_hash ... FOR UPDATE, and the password; then a backup, whose
\* failure is logged and the reset goes on.
Verify(s, right) ==
  /\ work[s].at = "verify" /\ Free(s, {work[s].by})
  /\ IF Usable(work[s].by) /\ right
     THEN work' = [work EXCEPT ![s].at = "rows", ![s].held = {work[s].by}]
     ELSE Leave(s)
  /\ TablesUnchanged /\ HistoryUnchanged

-----------------------------------------------------------------------------
(* reset_database and _reset_tables: DELETE_ORDER, table by table, each     *)
(* statement with a snapshot of its own.                                    *)

\* POST /api/admin/import-all with clear_first: no lock and no check.
AskImport(s, a) ==
  /\ work[s].at = "idle"
  /\ work' = [work EXCEPT ![s] = [Idle EXCEPT !.at = "rows", !.by = a]]
  /\ TablesUnchanged /\ HistoryUnchanged

\* rate_limit_hits comes first, and the bucket of the caller with it.
DeleteRows(s) ==
  /\ work[s].at = "rows"
  /\ \A o \in Slots \ {s} : work[o].rows = {}
  /\ work' = [work EXCEPT ![s].at = "subjects", ![s].hits = hits,
                          ![s].rows = {r \in Rows : rows[r] # NoRow}]
  /\ TablesUnchanged /\ HistoryUnchanged

\* Mutant of DeleteSubjects: matches.subject_id is no RESTRICT reference.
DeleteSubjectsAnyway(s) ==
  /\ work[s].at = "subjects"
  /\ work' = [work EXCEPT ![s].at = "users", ![s].subjects = TRUE]
  /\ TablesUnchanged /\ HistoryUnchanged

\* A match made since then forbids it: the whole wipe is rolled back.
DeleteSubjects(s) ==
  /\ work[s].at = "subjects"
  /\ \A o \in Slots \ {s} : ~work[o].subjects
  /\ IF \E r \in Rows \ work[s].rows : rows[r] # NoRow
     THEN Leave(s)
     ELSE work' = [work EXCEPT ![s].at = "users", ![s].subjects = TRUE]
  /\ TablesUnchanged /\ HistoryUnchanged

Others(s) == {u \in Ids \ {work[s].by} : users[u] # NoUser}

DeleteUsers(s) ==
  /\ work[s].at = "users" /\ Free(s, Others(s))
  /\ work' = [work EXCEPT ![s].at = "fill", ![s].users = Others(s)]
  /\ TablesUnchanged /\ HistoryUnchanged

\* COMMIT, after the archive's n subjects.
CommitWipe(s, n) ==
  /\ work[s].at = "fill"
  /\ Resetting(s) => n = 0
  /\ users' = [u \in Ids |-> IF u \in work[s].users THEN NoUser ELSE users[u]]
  /\ subjects' = n
  /\ rows' = [r \in Rows |-> IF r \in work[s].rows THEN NoRow ELSE rows[r]]
  /\ hits' = hits \ work[s].hits
  /\ Leave(s)
  /\ IF Resetting(s)
     THEN wipes' = [wipes EXCEPT ![work[s].by] = @ + 1] /\ UNCHANGED excused
     ELSE excused' = TRUE /\ UNCHANGED wipes
  /\ UNCHANGED <<minted, burnt, passed>>

-----------------------------------------------------------------------------
(* POST /api/admin/users/{user_id}/anonymize.                              *)

\* Mutant of AdminsLeft: rows that were anonymised count.
AdminsLeftOnPaper ==
  Cardinality({u \in Ids : users[u] # NoUser /\ users[u].role = "admin"}) > 1

\* count_admins() <= 1 refuses.
AdminsLeft == Cardinality({u \in Ids : Usable(u)}) > 1

Erasing(s) == work[s].at \in {"erase", "audit"}

CheckErasure(s, a, t) ==
  /\ work[s].at = "idle" /\ a # t /\ users[t] # NoUser
  /\ users[t].role = "admin" => AdminsLeft
  /\ work' = [work EXCEPT ![s] = [Idle EXCEPT !.at = "erase", !.by = a, !.target = t]]
  /\ excused' = (excused \/ \E o \in Slots : Erasing(o))
  /\ TablesUnchanged /\ UNCHANGED <<passed, wipes>>

\* No live match, then UPDATE users, which locks the row against references.
Erase(s) ==
  /\ work[s].at = "erase" /\ Free(s, {work[s].target})
  /\ IF users[work[s].target] = NoUser \/ Owned(work[s].target) # {}
     THEN Leave(s)
     ELSE work' = [work EXCEPT ![s].at = "audit", ![s].held = {work[s].target}]
  /\ TablesUnchanged /\ HistoryUnchanged

\* The audit row refers to the caller: it waits for whoever holds that row
\* and fails when the caller is gone.  Then COMMIT.
AuditErasure(s) ==
  /\ work[s].at = "audit" /\ Free(s, {work[s].by})
  /\ users' = IF users[work[s].by] = NoUser THEN users
              ELSE [users EXCEPT ![work[s].target].boss = FALSE,
                                 ![work[s].target].alive = FALSE]
  /\ Leave(s)
  /\ UNCHANGED <<subjects, rows, minted, burnt, hits>> /\ HistoryUnchanged

\* The victim of a deadlock, a failed statement or a worker's death: ROLLBACK.
Fail(s) ==
  /\ work[s].at \in Transacting
  /\ Leave(s)
  /\ TablesUnchanged /\ HistoryUnchanged

-----------------------------------------------------------------------------
\* Requests a worker that is up takes in, and the steps of those under way.
Arrivals ==
  \/ \E u \in Ids, boss \in BOOLEAN : Register(u, boss)
  \/ \E u \in Ids, r \in Rows : MakeMatch(r, u) \/ Seed(u, r)
  \/ \E a \in Callers, k \in Tokens : RequestReset(a, k)
  \/ \E s \in Slots, a \in Callers :
       \/ \E k \in Tokens : AskConfirm(s, a, k)
       \/ AskImport(s, a)
       \/ \E t \in Ids : CheckErasure(s, a, t)

Steps ==
  \E s \in Slots :
    \/ Consume(s)
    \/ \E right \in BOOLEAN : Verify(s, right)
    \/ DeleteRows(s) \/ DeleteSubjects(s) \/ DeleteUsers(s)
    \/ \E n \in 0 .. Needed : CommitWipe(s, n)
    \/ Erase(s) \/ AuditErasure(s) \/ Fail(s)

-----------------------------------------------------------------------------
\* A reset token gets one attempt past its consumption, whether that attempt
\* was refused, failed or wiped the database (router.py:239-250,
\* security.py:270-302).
OneUsePerToken == \A k \in Tokens : passed[k] <= 1

\* Every match has its user, whatever a wipe deleted table by table while
\* matches and accounts were being made (import_service.py:202-222,
\* init_db.py:120-148).
NoRowWithoutUser == \A r \in Rows : rows[r] # NoRow => users[rows[r]] # NoUser

\* A reset leaves its caller able to log in, though another administrator may
\* have been about to anonymise or delete the account (router.py:252-264,
\* import_service.py:203).
ResetKeepsCaller ==
  [][\A a \in Callers : wipes'[a] # wipes[a] => Usable(a)']_adminVars

\* Some administrator can log in, through any resets and any erasures one
\* after the other (router.py:319-330, table_admin_repo.py:181-188).
AdminRemains == excused \/ \E u \in Ids : Usable(u)

\* "a compromised admin account cannot execute more than one DB wipe per
\* 7-day window" (router.py:197-199).  The code does not keep this: the reset
\* deletes rate_limit_hits first, with the hit that was to stop the next one
\* (tables.py:7-13).
OneWipePerWindow == \A a \in Callers : wipes[a] <= 1
=============================================================================
