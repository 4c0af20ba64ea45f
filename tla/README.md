# A verified model of the tutor matching platform

TLA+ modules, TLC runs and TLAPS proofs about the back end in
`tutor-platform-api/app` (FastAPI, psycopg2, PostgreSQL at its default READ
COMMITTED, Huey workers). Paths below are relative to that directory unless they
start with `docs/` or `tests/`.

## 1. The system

Every HTTP request runs a synchronous handler on a pool thread with a
PostgreSQL connection of its own (`get_db`); several uvicorn workers and a Huey
worker share the database, never memory. A statement outside a transaction
commits at once (`BaseRepository.execute`); inside `with uow.begin()` nothing is
visible to others until the end of the block. So the interesting interleavings
are those of *statements of different requests*, and what protects them is row
locks (`SELECT ... FOR UPDATE`), unique indexes with `ON CONFLICT`, or nothing.

| Component | State | Operations | Hard part | What makes it correct |
|---|---|---|---|---|
| Matching (`matching/`) | `matches`, `audit_log`; reads `students`, `tutors`, `tutor_subjects` | create_match; update_status with ten actions; list, detail | concurrent parties, admin and capacity; two-step termination; audit after the commit | every write is an edge of the table from the row as it is; one live match per target; seats not overbooked; two accounts end a match; no deadlock |
| Invitation retries (`matching/api/router.py`, idempotency repo, match:create bucket) | `idempotency_keys`, rate bucket | find key, charge bucket, create, record key | crash or lost answer between two commits, retry, expiry, two workers | an answered retry names the match of the first attempt |
| The gate (`middleware/`, the pools of `shared/infrastructure/database.py`) | `rate_limit_hits` buckets, a quota counter per worker and user, two connection pools per worker | body limit, look the token up, enter and leave the quota, CSRF, check and record a hit, lease and release, clean up | two workers count one window; clocks read before waits; whatever ends a request must undo what let it in | never more than the limit in a window; counters return to the truth; what one caller can hold of a pool is bounded |
| Accounts and sessions (`identity/`, `shared/infrastructure/security.py`, `password_history.py`) | users, password history, refresh blacklist with a cache per worker, user revocations | register, login, refresh, logout, change password, admin reset | a cache that evicts and dies; check then act in refresh; times rounded to seconds; changes that overlap | what was spent or revoked stays refused; the history is the recent past |
| Lessons (`teaching/`) | `sessions`, `session_edit_logs` | create, update (with an edit log), delete, list | the match may change between the check and the INSERT | every change of a session has its log row |
| Reviews (`review/`, `tasks/scheduled.py`) | `reviews` | create, update, lock after seven days | the locking task races an edit, and may die holding its lock in huey's store | one review per match and direction; locked reviews do not change |
| Messaging (`messaging/`) | conversations, messages | get or create, send, poll with a cursor | two first messages at once; id order is not commit order | one conversation per pair; a walk back loses nothing |
| Catalogue and exams (`catalog/`, `teaching/application/exam_service.py`) | students, exams, tutors, subjects, availability | add and delete children and exams, replace lists, search page by page | count then insert; a child deleted under an exam; two replacements of one list; pages of a moving table | the cap, no orphans, lists whole, a walk shows each tutor once |
| Administration (`admin/`, `tasks/`, `seed/`) | every table | reset in two steps, import of archives, anonymise, seed, export | a wipe that deletes table by table while others write; tokens that survive a rollback | a token serves once; no orphans; an administrator remains |
| Start-up (`init_db.py`, `main.py`) | schema, seed rows, first administrator | advisory lock, create, seed, verify | several workers start at once, or beside an administrator | every worker comes up |
| Unit of work (`shared/infrastructure/database_tx.py`, `base_repository.py`) | `_tx_state` | transaction, execute | nesting, failure inside | all or nothing |
| Analytics (`analytics/`), web front end, scripts | read-only or UI state | | token refresh shared by concurrent calls in the browser | |

Interactions: handlers call their application service, which calls repositories
on the request's connection; `matching` reads the catalogue through
`CatalogQueryAdapter` inside its own transaction; rate limits lease connections
of a pool of their own, token checks a second one of the pool `get_db` leases from
(`security.py:30`), and both commit independently; tasks reach the same tables
from another process.

## 2. Plan

The order follows the weight of the behaviour. Each step is a module (or a few
that compose), its instance, and its proofs.

1. **Matching**: `MatchStateMachine` (rules), `MatchLifecycle` (abstract: a
   request is one step), `Matching` (a statement is a step, with row locks),
   which implements it; proofs.
2. **Lessons**: `SessionLog`, create, edit with its history, delete; proofs.
3. **Reviews**: `Reviews`, which composes with `SessionLog` (a review counts the
   lessons of its match), with the locking task and the clock; proofs.
4. **Invitation retries**: `Invitations`, which composes with `MatchLifecycle`
   (the creation is one of its steps; `Matching` implements it); proofs.
5. **The gate**: `Gate`, what a request passes before its handler runs; proofs.
6. **Accounts**: `Accounts`, one account, its passwords and its sessions; proofs.
7. **Messaging**: `Conversations`; proofs.
8. **Catalogue**: `Students`, `TutorLists`, `TutorSearch`; proofs.
9. **Administration and start-up**: `Administration`, and `Bootstrap`, which
   extends it: workers start beside administrators' requests; proofs of the two
   together.

Left:

* an abstract specification of a bucket (a count per window) that `Gate`
  refines, and of a session (valid or over) that `Accounts` refines;
* the dropping of a subject while an invitation in it is created (`TutorLists`
  beside `Matching`), the import task with its savepoints, the backup.

Modules to be proved about declare constants with named assumptions, have one
action per operation, and use no RECURSIVE operator.

## 3. Matching

### Modules

| Module | Models |
|---|---|
| `MatchStateMachine` | `state_machine.py`, the statuses and actions, who may act, and the queries for duplicates and seats. No variables. |
| `MatchLifecycle` | What the service promises: `Invite`, `Move`, `Terminate`, `Contest`, `SetCapacity`, each an atomic step on `match` and `maxStudents`. Each transition is taken by somebody the code lets take it; `Contest` asks only that the account belongs to the match or is an admin's, as `match_app_service.py:188` does. |
| `Matching` | `MatchAppService.create_match` and `update_status` run by requests in `Slots`, one SQL statement per step. |
| `MCMatching` | Small instances for TLC. |
| `MatchingProofs` | Theorems: types, locks, data, refinement, each part building on the one before. |

### State and code

* `match[m]`: the committed row of `matches`. Status, `want_trial`,
  `terminated_by` (`by`), and of `termination_reason` the status stored in front
  of the `|` (`prev`). Target columns never change and are constants of the id.
  Contract terms, names and the reason are payload.
* `pc`, `req`, `seen`: the statement a request is about to run, its arguments,
  and the row `find_by_id_for_update` returned (`fresh`).
* `held`: row locks of its transaction. `FOR UPDATE` waits until the row is
  free; COMMIT and ROLLBACK release all.
* `adminWrites`: a history variable, the transitions admins committed. `audit`:
  rows of `audit_log`.

A transaction of this service has exactly one write, its last statement, so the
write and the COMMIT are one step. The permission check and the state machine
run on the locked row and touch nothing shared, so they belong to the locking
step. The unlocked read in front of `update_status` decides only whether the
match exists and the caller belongs to it; both facts never change, and nothing
it read is used later, so it is a guard of `BeginUpdate`. Requests that are
refused before the transaction (an unknown action, an empty reason) change
nothing and are left out; a refusal for a malformed contract or an overlong
reason rolls back like `Crash`.

`MatchLifecycle` is the promise: `Lifecycle!Spec`, under the identity mapping of
`match` and `maxStudents`, is a property of `Matching` (`AtomicLifecycle`).

### Properties

| Property | In words |
|---|---|
| `SeenIsCurrent` | between its locked read and its write, an update's row does not change |
| `OneLiveMatch` | never two live matches for one tutor, student and subject |
| `IndexNeverFires` | the unique index behind it has nothing to refuse |
| `LockOrder` | one owner per row; rows are taken in the order student, match, tutor |
| `SeatTakenWithinCapacity` | a step that adds a live match leaves the tutor within `max_students` |
| `EndedByAnother` | only the account that did not start a termination ends the match |
| `AuditIsTrue` | the audit log tells only of committed transitions |
| `AtomicLifecycle` | the whole refines the one-step specification |
| `RequestsFinish` | every request answers |

Where a document says more than the code does, section 13 says so. One such
place has a run: `ContestedByAnother`, that only another account than the one
that started a termination takes it back, fails.

## 4. Lessons

`SessionLog` models `SessionAppService.create`, `update` and `delete`
(`teaching/application/session_service.py`), `MCTeaching` holds its instance and
that of `Reviews`, `TeachingProofs` the theorems of both.

* `session[i]`, `matchOf[i]`: the committed row. `issued`: ids the sequence has
  handed out; a deleted id does not come back. `log[i][f]`: the rows of
  `session_edit_logs` of one session and column in the order of their commits,
  deleted with the session (the foreign key cascades).
* `status[m]`: the committed status of the match, which moves along the edges of
  the state machine that leave from lessons' statuses.
* `pc`, `req`, `seen`, `lockedBy`: as in `Matching`.
* Values are numbers. A text stands for itself. Hours are thousandths, because
  the column is `NUMERIC(10,2)`: `Stored` rounds half up, `Storable` is
  `CHECK (hours > 0)` after rounding. The comparison that decides whether a
  column changed, and the log row, use the value *sent* (`Diffs`, `Logged`).

An edit is four steps (arrive, lock the row, read the match without a lock,
write and commit); a creation two (read the match, insert). The UPDATE and its
log rows are one step because they share a transaction, and a violated CHECK
refuses all of them.

| Property | In words |
|---|---|
| `EditTrail` | each log entry starts from what the one before left in the column, the last one left what is there now, and a deleted lesson has none |
| `SeenIsCurrent` | between its locked read and its write, an edit owns its lesson, which does not change |

## 5. Reviews

`Reviews` extends `SessionLog` with `ReviewAppService.create_review`,
`update_review` (`review/application/review_service.py`) and the daily task
`lock_expired_reviews` (`tasks/scheduled.py`). Their only contact with lessons is
`SessionCount`, and with matches the status; `ReviewSpec` interleaves both.

* `review[k]`: the row under (match, type). The unique index is on match,
  author and type, and the type names the author (`MayReview`), so this key is
  as fine as the index.
* `rowLock`, `at`, `call`: row locks and running requests. `task`: the cutoff of
  the running task, `Returning` when its body is over, or `Off`. `taskLock`:
  huey's lock of the task, in its SQLite store. `day`: the clock.
* Ratings are `none`, `low` (at most the threshold) or `fair`; comments `null`,
  `empty`, `short` or `said`: what the rules of `schemas.py` and of the service
  tell apart. `Bodies` and `Changes` are the bodies the schemas let through.

`create_review` is three steps: the read outside the block, the second count
inside it, the INSERT. The read outside the block already opens a transaction
of the driver, so `NOW()` in the INSERT is the time of that read
(`call.now`). It takes no lock, so everything may move in between.
`update_review` locks the row, judges the merged row, and writes the columns that
were sent, in the next step. The task starts only while `taskLock` is free
(`huey.lock_task`; otherwise `TaskLockedException` ends the run at once), waits
row by row (`TaskRow`), commits once, and gives the lock back whether its body
returned or raised (`TaskReturns`). A consumer that is killed does not
(`TaskKilled`): the lock stays in the store and every later run ends before it
began. Requests that are refused roll back at once and are left out.

| Property | In words |
|---|---|
| `JudgedAsWritten` | the row an edit overwrites is the one its rules were checked on |
| `LockedIsFinal` | after the task has locked a review nothing changes it, edits judged before included |
| `ChangedUnderLock` | a stored review is never replaced, and changes only for the holder of its row |
| `ReviewedMatchEnded` | only ended matches carry reviews, though the status is read once, early, without a lock |
| `ExpiredGetsLocked` | a review past its window is locked in the end, unless a killed consumer has left the lock of the task behind (`LockLeft`) |

## 6. Invitation retries

`Invitations` extends `MatchLifecycle` with `POST /api/matches` under an
`Idempotency-Key` (`matching/api/router.py`,
`matching/infrastructure/postgres_idempotency_repo.py`). An attempt looks the key
up (`Arrive`), takes a place in the rate bucket (`Bucket`, a choice), creates the
match (`Create`, a whole step of `MatchLifecycle`) and records the key
(`Record`): four commits, with a crash possible between any two. A lost answer
is no step: the client simply tries again.

* `stored[<<user, key>>]`: the row of `idempotency_keys`, found while
  `expires_at > NOW()`, never replaced (`ON CONFLICT DO NOTHING`) and never
  deleted by this code.
* `origin`, `replayed`: history, the user and key a match was created under and
  the matches a key's replays have named.

| Property | In words |
|---|---|
| `ReplaysAgree` | all replays of one key name one match, whatever expired, crashed or was created in between |
| `ReplayIsOwn` | a replay names a match this user created under this very key |

The web client never sends the header (`tutor-platform-web/src/api/matches.js`),
so today this path serves other clients only.

## 7. The gate

`Gate` follows requests from their arrival to their answer: the lookup of the
token, per-user quota, CSRF, limiter, handler and its connections, in the order
in which `main.py` stacks the middleware, each with its refusals, and every
refusal passing the `finally` of the quota on its way out (`LeaveQuota`). What
the body limit or the quota itself refuses has touched nothing.

* `counts[w][u]`: the counter in the memory of worker `w`
  (`UserConcurrencyQuotaMiddleware._counts`).
* `hits[k][t]`: committed rows of bucket `k` stamped `t`. `since`: the start of
  the window, computed in Python before the connection's first statement.
  `stamp`: `NOW()` of the limiter's transaction, fixed by its first statement.
  `bucketLock`: the advisory lock of the transaction. These are the three
  moments whose order `WindowHolds` depends on.
* Connections of the worker's pool are counted by the steps of those that hold
  them (`Leased`). A request may hold one while its token is looked up
  (`Identify`: on the event loop, so one request of a worker at a time, and
  before it is counted), one in its handler (`LeaseDb`: `get_db`'s, or that of a
  token check), and inside the latter a second one, of a function of
  `security.py` (`nested`: the refresh of a session looks its token up and spends
  it, the confirmation of a reset burns its token, while `get_db`'s connection is
  held). An exhausted pool refuses (`LeaseRefused`).
* `DbError` is any statement that fails, a COMMIT that took effect included;
  `LetThrough` is what the middleware then does, which depends on whether the
  path or method is sensitive (`closed`).
* `admitted` is history: what was let through on the limiter's word. A bucket's
  rows are counted as a set: `Rows` numbers those of one stamp, since only how
  many there are matters, and the proofs reason about cardinalities.

The worker's clock and the database's are one. A request spends at most
`Patience` ticks in the limiter, and `WindowHolds` speaks of spans shorter than
the window by as much: with waits that last longer the code can undercount.
The buckets a handler keeps itself (login, match creation, messages) use the
same functions and are not modelled a second time.

| Property | In words |
|---|---|
| `QuotaIsInFlight` | a worker's counter is the number of requests of that user it is serving, whatever became of each |
| `CallerTakesAtMost` | one account holds at most two connections of a worker's pool for each request the quota lets in, and one more |
| `WindowHolds` | no span of the window, less the wait, sees more admissions than the limit |

## 8. Accounts

`Accounts` is one account: login, refresh, logout (`identity/api/router.py`,
`identity/domain/services.py`), change of password, administrator's reset
(`admin/api/router.py`), and below them `security.py`'s blacklist, cache and
revocation and `password_history.py`.

* `token[j]`: what was issued under a `jti`: `iat` and `exp` in whole seconds
  (`Floor`), and the password it was opened with, which its successors inherit.
* `black`, `cache[w]`: the blacklist row (0 for none) and the worker's LRU, with
  its evictions and its loss in a restart. With one worker that restarts, an
  empty cache also stands for that of another worker.
* `revokedAt`: the one row of `user_token_revocations`, which carries the start
  of the transaction that wrote it.
* `history`, `rows`: rows of `password_history` and the ids handed out.
* `spent`, `past`, `changed`, `overlapped`: history variables.

A refresh is four steps: the token is presented, decoded (expiry and blacklist),
checked against the revocation, spent (a commit of its own), and another is
issued. A replayed token revokes all of them. A change of password is a
transaction of read, check, save and commit; the reset reads and checks outside
the transaction, then reads again inside.

| Property | In words |
|---|---|
| `SpentStaysSpent` | a token recorded as used is refused to every call that begins later |
| `CacheIsSound` | a cache never speaks of a token whose row failed to be written |
| `OldSessionsAreLate` | what survives of sessions under an earlier password was issued after the change began |
| `HistoryIsRecentPast` | unless changes overlapped, the history is exactly the last passwords |

Two refreshes of one token that overlap may both pass: `SpentStaysSpent` speaks
of calls that begin later, and `late` records which those are.

## 9. Messaging

`Conversations` is the pair of one tutor and one parent: the first contact
(look, insert, on a violation roll back and look again), sending (the check of
membership opens the transaction and fixes `sent_at`; the id is drawn later; the
row appears later still), and a reader who walks back page by page with
`before_id`. `conversation`, `messages`, `lastAt` are the rows, `lastId` the
sequence; `opened` is history, the ids answered to first contacts.

| Property | In words |
|---|---|
| `OneConversation` | all first contacts were given the same conversation, the only one |
| `WalkIsWhole` | a finished walk showed every message there was when it began, once and in order, if ids follow the stamps |
| `ContactsAnswered` | a first contact that meets another's uncommitted row is answered in the end |

## 10. Catalogue

Three modules, composed in `MCCatalogue`. They share no row that one of them
writes and no lock, so a behaviour is of one part only (`part`): TLC adds their
states up instead of multiplying them, and nothing is lost.

* `Students`: the children of one parent, counted in one statement and inserted
  in another; deletion, which the foreign key of a match forbids and that of an
  exam follows (RESTRICT, CASCADE); exams, created after a check of the child and
  its match, changed under a lock of the row, listed by role; and one tutor's matches
  with the children, moving.
* `TutorLists`: a tutor's subjects, and hours, each replaced by one DELETE and
  INSERTs in one transaction. A row is `[list, nth]`, the nth item of the list
  that wrote it. At READ COMMITTED the DELETE works through the snapshot it took
  when it began (`Delete`, `seen`), row by row (`DeleteRow`): it waits for a
  transaction that is deleting the next one, passes over rows that are gone when
  that has committed, and never meets the rows that were committed meanwhile, so
  two replacements of a list that is there can leave both new lists. An INSERT
  meets every row of its key, committed or not (`Met`): it waits for uncommitted
  ones and fails on committed ones.
* `TutorSearch`: `count_sql` and `page_sql` are two queries, and each page two
  more, over a table that may move. `Sorted` is the set of answers PostgreSQL may
  give: rows that tie come in either order.

| Property | In words |
|---|---|
| `CapNearlyKept` | the cap on children is passed by no more than the other requests in flight |
| `NothingOrphaned` | no exam and no match without its child |
| `ListsAreWhole` | a list is stored whole or not at all |
| `OneListUnlessCrossed` | replacements that did not overlap leave one list; overlapping ones never two rows of one key |
| `WalkShowsEach` | a walk over the pages of a table at rest shows every tutor once, in order |

## 11. Administration and start-up

`Administration`: reset in two requests (a token is minted; its confirmation is
limited by a bucket, takes an advisory lock or gives up, burns the token on a
connection of its own, checks the password under a row lock, then deletes table
by table), `import-all` with `clear_first` (the same deletions without lock or
check, then the archive), anonymisation (count the administrators, no live match,
update, audit row), seeding. Tables are abstracted to accounts, subjects and
`rows`: live matches, each of a user, that refer to a subject; an archive holds
subjects only. `work[s]` is the request of a slot with what its transaction
holds and has deleted; a statement sees what is committed when it begins, so
each deletion is a step of its own. A token nobody minted is refused like a burnt
one. The backup before a reset only reads, and its failure is ignored, so it is
part of `Verify`.

`Bootstrap` extends it with the workers' starts: lock, subjects, administrator,
verification, each a SELECT and then an INSERT that may collide.
`BootsSucceed` excuses `Meddling`: somebody registered under ADMIN_USERNAME, an
archive with too few subjects, or accounts or subjects replaced while a worker
was between its check and its INSERT. `AdminRemains` excuses two erasures that
overlap and an archive imported over the accounts. Section 13 lists what can
then happen.

| Property | In words |
|---|---|
| `OneUsePerToken` | a reset token gets one attempt, whether it was refused, failed or wiped the database |
| `NoRowWithoutUser` | no match without its user, whatever a wipe deleted meanwhile |
| `ResetKeepsCaller` | a reset leaves its caller able to log in |
| `AdminRemains` | some administrator can log in after any resets and erasures in turn |
| `BootsSucceed` | every worker that starts comes up |

## 12. Runs

| Run | Instance | Shows |
|---|---|---|
| `match_one` | 2 requests, 1 match, 2 accounts, all ten actions, capacity 1 or 2, fair | types, current reads, refinement and the two-account rule over a whole life, loops included; every request answers |
| `match_contend` | 2 requests, 2 students, 3 ids, two of them for one target, an admin, capacity 1 or 2, invite, accept and cancel | lock order, no duplicate, no overbooking and true audit rows under competition for seats and targets |
| `v_contest` | 2 requests, 1 match, 2 accounts, all ten actions | the account that started a termination takes it back (section 13) |
| `teaching` | either 2 requests on 1 lesson of 2 columns, values 4 and 1005 (thousandths, as hours); or 2 review requests and the task, days 0 to 2, a window of 1 day, beside 1 lesson and a request on it | current reads, and the history as a trail, with rounding, refusals and deletion; the safety of reviews while the match ends, the lesson comes and goes, and the task fails or is killed |
| `review_live` | 1 review request, the task and its lock, fair | expired reviews get locked, whatever fails, until a consumer is killed in the task |
| `invite_retry` | 2 attempts, 1 key used by two parents, 2 ids for one target, an hour of lifetime, hours 0 and 1 | replays agree and stay with their user, with retries, crashes and an expired record |
| `gate` | 3 requests, 2 workers, 1 account and anonymous callers, 1 bucket of 1 hit in a window of 3 ticks, a wait of 1, quota 1, a pool of 4, the limiter's of 1, clock to 4 | counters, pools and window at their limits, with errors and clean-up |
| `accounts` | 2 requests, 1 worker that restarts, 2 tokens, 3 passwords, cache and history of 1, a second of 2 ticks, clock to 3 | spent tokens, the cache, old sessions and the history |
| `conversations` | 2 requests, 2 ids, 3 messages, pages of 2, clock to 2, fair | one conversation, whole walks, every contact answered |
| `catalogue` | 2 requests, 3 children over a cap of 1, 1 exam; 2 writers, 3 lists of up to 2 items out of 2, both tables; 3 tutors, pages of 2, 1 move | the five properties of section 10 |
| `bootstrap` | 2 requests that overlap, or 1 beside 2 workers and 2 starts; 2 administrators, 3 ids, 1 token, 1 match, 1 subject | the five properties of section 11 |
| `v_wipes` | 1 request, 2 tokens, no starts | two wipes within one window (section 13) |

Bounds. Two requests are what a race needs. Two ids for one target make "again
after it ended" happen; capacities 1 and 2 with two students make the limit bite
and be lowered below the count. `match_one` has all ten actions; `Asked` narrows
them in `match_contend` to those that take a seat (accept) and give one back
(cancel), so that several ids stay within reach; with the others over several
matches the theorems of section 14 take over. Its behaviours end (`FewAdminWrites`)
once admins have committed two different transitions, since both histories of
them are sets that only grow. Requests are interchangeable, so
the safety runs use symmetry on them; the runs of liveness do not.

A behaviour of `teaching` is of one part, lessons or reviews (`part`), so that
TLC adds the two instances up. Among lessons an edit begins only while its
lesson's columns have fewer than `MaxEdits` = 1 log rows, so two that begin
together give a column two: the chain `EditTrail` speaks of. As hours 1005
rounds to 1010 and 4 to nothing, which the CHECK refuses; as texts both stand.
Among reviews a window of one day and a clock to two let a review be in time, at
the limit and past it, and an edit straddle the limit; one direction and one
axis are enough, since directions share nothing but the match. Lessons are
recorded and deleted there by one request, with one value and no edits, because
reviews only count them. In `invite_retry` an hour of lifetime and one tick make
a record expire between two attempts; ids are used up by creations, and an
attempt that finds none left can only crash. `LessonsUndisturbed` and
`InvitationsImplementLifecycle` (section 14) say that the compositions add
nothing to what they compose.

In `gate` a quota of one lets one account hold three connections (two of the
request it lets in, one of the next while that is identified), which a pool of
four lets happen, and others' requests then exhaust; a pool of one for the
limiter is exhausted by two requests of one worker, while those of two workers
race; a window of three ticks, a wait of one and a clock to four let hits
expire, be cleaned and be counted from a window that began before the wait, and
leave spans of two ticks to be judged. In `accounts` a cache and a history of
one evict at the second entry; a second of two ticks makes tokens of one second
fall on both sides of a revocation, and a life of two ticks lets a token, its
row and its cache entry expire. Symmetry covers tokens and the passwords other
than the first. In `conversations` three messages and pages of two need a second
page, and a clock of two stamps makes ids and stamps disagree. In `catalogue`
two requests add a child beyond a cap of one; three lists let a third
replacement meet what two that overlapped left behind; two items repeat or
collide; three tutors on pages of two put a tie across a page's edge. In
`bootstrap` the archive has 0 or `Needed` = 1 subjects; three ids leave one for
a registration, a seed or a new administrator; two starts let workers collide,
and one start again after another failed.

`teaching`, `review_live`, `catalogue` and `bootstrap` run without deadlock checking: once
every match is over and every lesson deleted, every list submitted and every move
made, or every start used up and nothing minted, nothing can happen any more; nor can it
in `review_live` once the clock is at its bound and a killed task has left its
lock.

Fairness. `FairSpec` (matching): weak fairness of a request's own computing
steps, because a handler thread keeps running; strong fairness of taking a lock,
because PostgreSQL queues the waiters of a row and wakes them in order, so one is
not passed over for ever. Nothing is assumed of requests arriving or crashing.
`FairReviewSpec`: weak fairness of a review request's next step; of `TaskBegin`,
because the scheduler's crontab calls the task every day and it starts when the
lock is free; of `TaskReturns`, the end of the wrapper around it; strong fairness
of the task's rows and of its commit, because row waiters are served in order and
the task, tried every day, is not stopped by a failure each time. Nothing is
assumed about a task whose lock was left: it never starts again.
`FairConversationsSpec`: weak fairness of a request's next step, strong fairness
of the INSERT that waits for the index, for the same reasons.

## 13. Where the code and its documents disagree

`v_contest` and `v_wipes` keep two of these as runs. `docs/project-spec.md:622`
gives the edge back from `terminating` to the other party only, and
`tests/test_match_state_machine.py:142` expects the initiator to be refused. The
test asks the transition table; `DISAGREE_TERMINATE` never consults it
(`match_app_service.py:188`) and checks only that the caller belongs to the match
or is an admin. In the run the initiator takes its own termination back.

`admin/api/router.py:197` says that one
administrator cannot wipe the database twice in seven days, whatever addresses
it uses. The bucket that is to stop the second wipe is a row of
`rate_limit_hits`, and the wipe begins by emptying that table
(`admin/domain/tables.py:7`), so the limit ends with the first wipe. The run
finds two.

Read off the code, and contained in the actions named where there are any; no run
is kept for them:

*Matching and its retries*

* `docs/project-spec.md:624`: an admin cannot finalise a termination.
  `OTHER_PARTY` only compares the caller with `terminated_by`
  (`state_machine.py:107`), so an admin passes.
* `docs/project-spec.md:652`: a retried request never creates a second match. The
  match and its key are separate commits (`matching/api/router.py:43-55`): a
  retry whose lookup comes between them creates again once the first match has
  ended.
* `match_app_service.py:348` wants capacity counted on any path to `active`;
  `Target` shows that contesting a termination restores `active` uncounted.
* `docs/database-schema.md:325` relates capacity to active students; `HasSeat`
  counts every live match, the one asking for the seat included, so a tutor with
  one seat cannot accept the only invitation there is.
* `postgres_match_repo.py:287` has the audit row commit with the status;
  `WriteAudit` is a later transaction whose failure is swallowed.
* A tutor may drop a subject between the check and the INSERT of an invitation
  in it (`match_app_service.py:63`).

*Lessons and reviews*

* `tests/test_sessions.py:63` says a paused match accepts no new sessions;
  `BeginCreate` reads the status without a lock (`session_service.py:72`), and
  `InsertSession` follows whatever happened since.
* `docs/project-spec.md:674` promises old and new value of each edited field;
  `Logged` keeps the value sent, the column the rounded one.
* `review_service.py:63`: the second count keeps a review off a match without
  lessons. No lock is on the lessons: a deletion may commit between the count and
  the INSERT.
* `review_service.py:112`: the merged comment must satisfy the floor. A null or
  empty comment is judged as not sent and written as sent (line 125).
* `review/api/schemas.py:26` wants ratings 3 and 4 together or not at all;
  `Changes` lets an edit of a tutor's review set one of them.

* `tasks/scheduled.py:16` locks expired reviews daily at three. A consumer killed
  in the task leaves huey's lock in the persisted store (`TaskKilled`), and
  `docker-compose.yml:138` starts the next one without `--flush-locks`: no later
  run gets past `lock_task`. `ExpiredGetsLocked` excuses it (`LockLeft`).

*Gate and accounts*

* `config.py:106` refuses a quota that is not below `db_pool_max`, for otherwise
  one user could exhaust the pool. A request may hold two connections, and one
  more is held by a request that is not counted yet, so twice the quota plus one
  would have to be below it (`CallerTakesAtMost`). The shipped 5 and 20 are; a
  quota of 10 and a pool of 20 pass the check and are not.
* A request that waits longer than the window's margin while rows are cleaned up
  may be undercounted; `WindowHolds` bounds the wait (`Patience`).
* The quota is validated against `db_pool_max` only (`config.py:106`), not
  against the limiter's own pool, which a burst can exhaust: requests that may
  fail open then go on unrecorded (`LeaseFails`).
* Two refreshes of one token that overlap both pass (`Decode`, `Spend`).
* A session opened with the old password between the start of a change and its
  commit survives the change when its second is later
  (`identity/api/router.py:250`); a login in the same second as a revocation is
  refused.
* A revocation may move back: the later commit may carry the earlier start
  (`security.py:337`).
* Overlapping changes may leave more rows than `_HISTORY_LIMIT` and lose a
  password from the history (`HistoryIsRecentPast` excuses them).

*Messaging and catalogue*

* Pages are sorted by `sent_at` and cut by `message_id`
  (`postgres_message_repo.py:22`): where the two orders differ a walk skips
  messages (`Chronological`). `last_message_at` may go backwards (`Deliver`).
* The cap of 20 children is passed by requests that add at once.
* Two replacements of one list that overlap can leave the union of both lists,
  whether there was a list before or not: a DELETE that waited for the other does
  not see what that inserted (`DeleteRow`).
* `init_db.py:376` keeps the rating of a tutor without reviews NULL so that it is not
  ranked below low scores; the search turns it into 0
  (`postgres_tutor_repo.py:87`), which is below them (`Before`).

*Administration and start-up*

* Two administrators who anonymise each other at once both pass the count and can
  leave none (`admin/api/router.py:326`).
* `table_admin_repo.py:196`: no password will ever match an anonymised account
  again. An administrator's password reset gives it one.
* `import-all` with `clear_first`, called on the token of an account that has been
  deleted, leaves no user at all; it takes no reset lock.
* The backup reads table after table while others write: what is written between
  the backup and the deletions is lost, and a failed backup does not stop the
  reset (`import_service.py:236`).
* After a reset the subjects are empty, and seeding fails on `NOT NULL` until a
  worker starts again.
* An archive with fewer subjects than the seed, or an account registered under
  ADMIN_USERNAME, makes every later start fail in `verify_bootstrap`.
* `initialize_database` runs the same steps without the lock (`TakeNothing` is
  what that does to `BootsSucceed`).

## 14. Proofs

Every invariant and every action property that a passing run checks is a theorem,
for any sets of accounts, tutors, students, requests, tokens and ids, any limits, windows
and page sizes, from the assumptions that the modules name: foreign keys point to
existing rows, the values that stand for "no row" and "nobody" are not rows or
requests, tables and requests are finitely many where they are counted, and
limits, clocks and windows are naturals, positive where `Settings` demands it.
Each run evaluates the assumptions of its modules.

| Theorems | Module |
|---|---|
| `TypeCorrect`: `[]TypeOK`; `LocksInOrder`: `[]LockOrder`; `ReadsStayCurrent`: `[]SeenIsCurrent`; `AtMostOneLive`: `[]OneLiveMatch`; `IndexIsRedundant`: `[]IndexNeverFires`; `Implements`: `Spec => AtomicLifecycle`; `NeverEndedAlone`: `EndedByAnother`; `SeatsNeverOverfilled`: `SeatTakenWithinCapacity`; `AuditNeverLies`: `[]AuditIsTrue` | `MatchingProofs` |
| `SessionTypeCorrect`: `[]TypeOK`; `LockedLessonStandsStill`: `[]SeenIsCurrent`; `HistoryIsATrail`: `[]EditTrail`; `ReviewTypeCorrect`: `[]ReviewTypeOK`; `EditsWrittenAsJudged`: `[]JudgedAsWritten`; `OnlyEndedReviewed`: `[]ReviewedMatchEnded`; `LockIsFinal`: `LockedIsFinal`; `NeverReplaced`: `ChangedUnderLock`; `LessonsUndisturbed`: `ReviewSpec => Spec` | `TeachingProofs` |
| `InvitationTypeCorrect`: `[]InvitationTypeOK`; `ReplaysAreOwn`: `[]ReplayIsOwn`; `ReplaysNameOne`: `[]ReplaysAgree`; `InvitationsImplementLifecycle`: `InvitationSpec => Spec` | `InvitationsProofs` |
| `CountersAreInFlight`: `[]QuotaIsInFlight`; `CallerIsBounded`: `[]CallerTakesAtMost`; `WindowIsKept`: `[]WindowHolds` | `GateProofs` |
| `UsedTokensRefused`: `[]SpentStaysSpent`; `CachesFollowTable`: `[]CacheIsSound`; `EarlierSessionsEnd`: `[]OldSessionsAreLate`; `HistoryFollowsPast`: `[]HistoryIsRecentPast` | `AccountsProofs` |
| `OneConversationOpened`: `[]OneConversation`; `WalksShowAll`: `[]WalkIsWhole` | `ConversationsProofs` |
| `CapKept`: `[]CapNearlyKept`; `NoOrphans`: `[]NothingOrphaned`; `ListsTypeCorrect`: `[]ListsTypeOK`; `ListsStoredWhole`: `[]ListsAreWhole`; `OneListKept`: `[]OneListUnlessCrossed`; `WalkIsComplete`: `[]WalkShowsEach` | `CatalogueProofs` |
| `TokenUsedOnce`: `[]OneUsePerToken`; `RowsKeepUsers`: `[]NoRowWithoutUser`; `AdministratorRemains`: `[]AdminRemains`; `CallerSpared`: `ResetKeepsCaller`; `StartsSucceed`: `[]BootsSucceed` | `BootstrapProofs` |

The invariants below were first checked by TLC on the runs' instances, and each
proof goes action by action.

**Matching.** The argument has three layers, because none of the invariants is
inductive alone.

1. `TypeInv`: types, and for each statement which handler it belongs to and that
   the table granted the request (`Called`, `Granted`).
2. `LockInv`: what a request holds is a function of the statement it is at
   (`LocksHeld`), and no two hold the same row (`Exclusive`). A step of one
   request leaves the others' locks alone (`OneRequestLocks`), so each action
   needs only its own case.
3. `DataInv`: the id of a coming INSERT is reserved, one live match per target,
   and for each request `Protected`: the row it read is current, the target it
   found free is free, the seat it counted is there. Another request's write
   cannot break these: an INSERT for the same target needs the same student row
   and one for the same tutor needs the same tutor row, which are held; an
   UPDATE of the same match needs the match row; any other UPDATE only makes
   live matches fewer, and a smaller finite set has no larger cardinality
   (`SeatKept`).

Given the three, every write is one abstract action (`InsertWrites`,
`UpdateWrites`, `StepRefines`) and every other step stutters. `SameRules` says
that the rules the instance `Lifecycle` reads are those of `Matching`.

**Lessons.** `SessionInv` strengthens `EditTrail` with what a request is called
with at each statement (`ReqFits`), that a lesson that is there was handed an id
(`Handed`), and `SeenIsCurrent`: an entry's old value is the one read under the
lock, and the lock is why that is still the column's value. `Settled` says that a
stored value is already rounded, so a column sent with the value it has, which is
not logged, does not change.

**Reviews.** `LessonsUndisturbed` makes every invariant of `SessionLog` one of the
composition. `ReviewInv` adds `CallFits` (each request's call matches its
statement, a coming INSERT is for a match that has ended, a coming UPDATE is on
a row the request holds and was judged on) and `TaskHolds`. That an ended match
stays ended is read off the edges: none leaves `ended`. The two action
properties follow from it: a locked row is nobody's to write, and a write goes to
the row held.

**Invitations.** `InvitationInv` says that a match that is absent has no origin
(`OriginCreated`), that an attempt about to record created the match it names
under its key (`CallFits`), and that the stored row names a match of its owner and
every replay named that very row (`RecordOwn`), which no second record replaces.

**The gate.** `QuotaInv`: a counter is the cardinality of the requests in flight
of that worker and user, so one step adds or removes one element, and it never
passes the quota. Requests that hold a connection in a handler are among those,
each holding at most two; whoever is being identified is one at a time
(`OneLookup`), which gives the bound of `CallerIsBounded`. The window needs
more, since a hit is stamped when its transaction begins, the window counted
from before that, and the answer later than both. `LimiterInv` has `TimeInv` (a
request is at most `Patience` past its start), `LockInv` (whoever has counted
holds the lock of the bucket), `FreshInv` (so its count still stands when it
commits) and `CoverInv`: for every time `x` not yet past its expiry, admissions
from `x + Patience` on are no more than the hits from `x` on. Clean-up takes
only hits past their expiry, so it keeps `CoverInv`; a commit finds fewer than
`MaxHits` hits since its window's start and adds one; and so no span shorter
than the window by the wait holds more admissions than hits, which are at most
`MaxHits` (`CommitHitKeeps`).

**Accounts.** `AccountInv`: the blacklist row of a used token lives at least as
long as the token (`TokensOK`; a token is issued for `TTL`, a row written for
`TTL` later), so the clean-up deletes rows of expired tokens only; caches hold
used tokens only (`CachesOK`); a request past its check holds a token that was
not used before it began (`Fine`); and revocations are never older than the last
change (`SessionsOK`). `HistoryInv` adds that, while no change was built on a
replaced password, the rows of the history correspond one to one and in order to
the last passwords (`Holds`), and that a change that saw no other commit still
works on the current password and on rows no newer than itself (`Undisturbed`).
Pruning is where the correspondence is needed: `NewerRows` counts how many rows
are newer than a given one, without induction, and `HistoryShifts` builds the
new correspondence when a change commits.

**Messaging.** `ConversationsInv`: one row of the pair is under way at most, and
only while none is committed (`OneRowUnderWay`), which gives `OneConversation`;
an id belongs to one message (`IdsAreDrawnOnce`); and what a reader holds are all
messages that were there from its cursor on, in order, if ids follow the stamps
(`WalkIsWholeSoFar`). Messages only grow, so if they are chronological after a
step they were before. What a page is (`PageFacts`) is proved from the rank of a
message, the number of later ones: ranks are a bijection to an initial segment of
the naturals (`RanksAreBijective`), so a page that leaves something out is full,
and holds with each message all later ones. `Newest` is a CHOOSE; the ranks also
show that what it chooses exists (`CanBeListed`).

**Children and exams.** `ChildrenInv`: children, plus the requests between count
and INSERT (`Adding`), stay within the cap plus the requests that may be under
way with another (`RoomLeft`); an exam is written under its row's lock and only
while the row is there (`RequestsOK`).

**A tutor's lists.** Neither property is inductive: what a transaction will leave
depends on what it has deleted. `ListsInv` says of the rows, of every snapshot
and, once a DELETE is done, of what it deleted that they are closed, a row comes
with the rest of its list (`Closed`). A DELETE that is done has deleted the rows
of its snapshot that are still there: all it deleted is still committed, since
nobody else deletes those rows (`DoomedApart`), and nothing that is left of the
snapshot is committed. Two closed sets meet in a closed set (`ClosedMeet`), and
taking one away from the other leaves one, so commits of others in mid-scan do no
harm. Further, transactions work on lists of their own (`WorkOK`); until two
replacements of a table overlap, the one under way sees and deletes all the table
holds (`AloneOrCrossed`); and no two rows share a key, whether committed or in the
making (`KeysApart`), which is what the INSERT's wait for the index keeps.

**Search.** `WalkSoFar`: while the table rests, the pages shown are a prefix of
the reply and the count is its length. That every page belongs to the same reply
is `OneOrder`: the order is total because of the id at its end (`BeforeTotal`),
so a tutor's place is the number of tutors before it (`PlaceIsCount`). `NextPage`
is the arithmetic of `total_pages`.

**Administration and start-up.** `AdminInv` says of each request what it has seen
or deleted and what it holds: a token past its consumption is burnt (`TokensOK`);
once a wipe has deleted the subjects, it has deleted every match there is
(`RowsTaken`), because the foreign key fails that deletion while another is left
and makes new ones wait after it; a reset holds its caller's row, and that row stays a
working administrator's (`CallerKept`); an erasure that no other overlapped
leaves an administrator or will fail (`Spares`); no row is locked twice
(`Apart`). `BootInv` adds that a worker that is starting has the lock, and that
what it saw still holds when it acts, unless somebody meddled.

Only model-checked: liveness (`RequestsFinish`, `ExpiredGetsLocked`,
`ContactsAnswered`), since liveness under fairness is beyond the
prover.

## 15. Not modelled

* Within matching: the list and detail views (reads), the contract's values,
  wording, and changes of `tutor_subjects` while an invitation is being created
  (`Teaches` is constant).
* Within lessons: the creation's rate limit, and the order of the history's
  listing, which sorts by the start of each edit's transaction.
* Within reviews: rows from before time zones were stored, and the private
  personality comment.
* Within the gate: leases outside requests (the views' refresh, tasks), which can
  only make others fail; the buckets handlers keep themselves, a worker's restart (its
  counters start at zero, and so do its requests), the sizes of bodies.
* Within accounts: key rotation; the expiry of a token and the lookup of its
  blacklist row are judged at one instant, as are the cache and the row; the
  access token stands or falls with the refresh token issued beside it. The
  profile update is one statement on one row.
* Within messaging: contents, and the list of conversations, a read that nothing
  builds on.
* Within the catalogue: the refresh of the two materialised views (`main.py:174`),
  which rereads everything each half minute. What it delays is the rating a search
  sorts by, which `TutorSearch` lets move at any time, and the count of active
  students, which `apply_visibility` (`catalog/domain/services.py:45`) takes out of
  what others are shown. The list of children, edits of a child, profile and
  visibility, the filters by maximal rate and school, the list of subjects:
  single statements on one row, or reads. Scores and dates of exams.
* Within administration: imports that add or merge rows (one transaction, a
  savepoint per row), the contents of archives, backups and exports, lists, the
  status page. Within start-up: the DDL, which repeats without effect, and the
  demonstration accounts of DEBUG.
* The nesting of units of work: `transaction` counts its depth on the
  connection, so that an inner block neither commits nor rolls back. One request
  nests one, the confirmation of a reset (`admin/api/router.py`), whose inner
  block is the wipe; the model has the one transaction that makes of it.
* Analytics and statistics (read-only SQL), scripts, the Vue front end's layout,
  HTTP headers, request ids and logging: no state that a property could relate.
