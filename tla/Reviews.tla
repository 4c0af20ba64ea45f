------------------------------ MODULE Reviews -------------------------------
(***************************************************************************)
(* Reviews of ended matches: ReviewAppService.create_review and            *)
(* update_review (review/application/review_service.py) run by concurrent  *)
(* requests, and the daily task lock_expired_reviews (tasks/scheduled.py), *)
(* beside the lessons of module SessionLog, which they count.              *)
(*                                                                         *)
(* The unique index allows one review per match, author and type, and the  *)
(* type names the author, so a review is found under (match, type).  A     *)
(* rating is none, low (at most LOW_RATING_THRESHOLD) or fair; a comment   *)
(* is null, empty, short (under LOW_RATING_MIN_COMMENT_LEN) or said.       *)
(* A refused request rolls back at once and is left out.                   *)
(***************************************************************************)
EXTENDS SessionLog, FiniteSets

CONSTANTS
  Writers,       \* review requests in flight at once
  ParentUser,    \* the account of a match's parent
  Types,         \* review types in use
  Axes,          \* rating columns in use, out of 1 .. 4
  LockDays,      \* settings.review_lock_days
  MaxDay,        \* bound on the clock
  Task,          \* the locking task as an owner of row locks
  NoReview,
  Off,           \* no task is running
  Returning      \* its body is over, huey's lock not yet given back

VARIABLES
  day,           \* the clock
  review,        \* committed rows of reviews
  rowLock,       \* owner of each review's row lock
  at, call,      \* next statement of each review request, and what it carries
  task,          \* the running task's day, from which it takes its cutoff
  taskLock       \* huey's "lock-expired-reviews" is in its store

reviewVars == <<day, review, rowLock, at, call, task, taskLock>>
allVars == <<vars, reviewVars>>

ASSUME ReviewAssumption ==
  /\ Types \subseteq {"parent_to_tutor", "tutor_to_parent", "tutor_to_student"}
  /\ Axes \subseteq 1 .. 4
  /\ ParentUser \in [Matches -> Users]
  /\ LockDays \in Nat /\ MaxDay \in Nat
  /\ Off \notin Nat /\ Returning \notin Nat /\ Off # Returning
  /\ Task \notin Writers /\ NoSlot \notin Writers /\ Task # NoSlot

-----------------------------------------------------------------------------
Keys == Matches \X Types
Ratings == {"none", "low", "fair"}
Comments == {"null", "empty", "short", "said"}

\* WrongReviewerRoleError and SelfReviewError.
MayReview(k, u) ==
  /\ u = IF k[2] = "parent_to_tutor" THEN ParentUser[k[1]] ELSE TutorUser[k[1]]
  /\ ParentUser[k[1]] # TutorUser[k[1]]

\* (SELECT COUNT(*) FROM sessions WHERE match_id = ...)
SessionCount(m) == Cardinality({i \in SessionIds : Exists(i) /\ matchOf[i] = m})

Low(ratings) == \E x \in DOMAIN ratings : ratings[x] = "low"

\* ReviewCreateBody: what a submission may say.
Bodies(type) ==
  { b \in [ratings : [Axes -> Ratings], comment : Comments] :
      /\ \A x \in Axes : (x \in {1, 2} \/ type = "parent_to_tutor") => b.ratings[x] # "none"
      /\ \A x, y \in Axes \cap {3, 4} : b.ratings[x] = "none" => b.ratings[y] = "none"
      /\ Low(b.ratings) => b.comment = "said" }

\* ReviewUpdate: some columns, no rating nulled, and a comment sent along with
\* a low rating must be long enough.
Changes ==
  { c \in [ratings : UNION {[D -> {"low", "fair"}] : D \in SUBSET Axes},
           comment : Comments \cup {"omitted"}] :
      /\ DOMAIN c.ratings # {} \/ c.comment # "omitted"
      /\ Low(c.ratings) => c.comment \notin {"empty", "short"} }

MergedRatings(row, c) ==
  [x \in Axes |-> IF x \in DOMAIN c.ratings THEN c.ratings[x] ELSE row.ratings[x]]

\* updates.get("comment") or review.get("comment"): a falsy comment counts as
\* not sent.
JudgedComment(row, c) ==
  IF c.comment \in {"short", "said"} THEN c.comment ELSE row.comment

\* MandatoryRatingAxisError and LowRatingCommentRequiredError.
Judged(k, row, c) ==
  LET ratings == MergedRatings(row, c) IN
  /\ k[2] = "parent_to_tutor" => \A x \in Axes : ratings[x] # "none"
  /\ Low(ratings) => JudgedComment(row, c) = "said"

\* Mutant of Changed: the columns that were not sent are lost.
ChangedWhole(row, c) == [row EXCEPT !.ratings = c.ratings, !.comment = c.comment]

\* UPDATE reviews SET ... : exactly the columns sent.
Changed(row, c) ==
  [row EXCEPT !.ratings = MergedRatings(row, c),
              !.comment = IF c.comment = "omitted" THEN row.comment ELSE c.comment]

\* created_at < cutoff, the cutoff being LockDays before now.
Expired(row, now) == row.created + LockDays < now

NoCall == [op |-> "none"]

Depart(t) ==
  /\ at' = [at EXCEPT ![t] = "idle"]
  /\ call' = [call EXCEPT ![t] = NoCall]
  /\ rowLock' = [k \in Keys |-> IF rowLock[k] = t THEN NoSlot ELSE rowLock[k]]

-----------------------------------------------------------------------------
ReviewInit ==
  /\ Init
  /\ day = 0
  /\ review = [k \in Keys |-> NoReview]
  /\ rowLock = [k \in Keys |-> NoSlot]
  /\ at = [t \in Writers |-> "idle"]
  /\ call = [t \in Writers |-> NoCall]
  /\ task = Off /\ taskLock = FALSE

\* Mutant of OuterRead: the status is not looked at.
OuterReadAnyStatus(t, k, u, body) ==
  /\ at[t] = "idle"
  /\ MayReview(k, u) /\ SessionCount(k[1]) > 0
  /\ at' = [at EXCEPT ![t] = "recount"]
  /\ call' = [call EXCEPT ![t] =
                [op |-> "create", key |-> k, by |-> u, body |-> body, now |-> day]]
  /\ UNCHANGED <<vars, day, review, rowLock, task, taskLock>>

\* create_review: the read outside the block, which opens the transaction, so
\* NOW() stands still from here on.
OuterRead(t, k, u, body) ==
  /\ at[t] = "idle"
  /\ MayReview(k, u) /\ status[k[1]] = "ended" /\ SessionCount(k[1]) > 0
  /\ at' = [at EXCEPT ![t] = "recount"]
  /\ call' = [call EXCEPT ![t] =
                [op |-> "create", key |-> k, by |-> u, body |-> body, now |-> day]]
  /\ UNCHANGED <<vars, day, review, rowLock, task, taskLock>>

\* create_review: the lessons are counted again inside the block.
Recount(t) ==
  /\ at[t] = "recount"
  /\ \/ /\ SessionCount(call[t].key[1]) > 0
        /\ at' = [at EXCEPT ![t] = "insert"]
        /\ UNCHANGED <<call, rowLock>>
     \/ SessionCount(call[t].key[1]) = 0 /\ Depart(t)
  /\ UNCHANGED <<vars, day, review, task, taskLock>>

\* idx_reviews_unique
Taken(k) == review[k] # NoReview

\* Mutant of InsertReview: no unique index, a second submission takes the place.
InsertTwice(t) ==
  /\ at[t] = "insert"
  /\ review' = [review EXCEPT ![call[t].key] =
                  [by |-> call[t].by, ratings |-> call[t].body.ratings,
                   comment |-> call[t].body.comment,
                   created |-> call[t].now, locked |-> FALSE]]
  /\ Depart(t)
  /\ UNCHANGED <<vars, day, task, taskLock>>

\* create_review: INSERT and COMMIT, or DuplicateReviewError.
InsertReview(t) ==
  /\ at[t] = "insert"
  /\ review' = IF Taken(call[t].key) THEN review
               ELSE [review EXCEPT ![call[t].key] =
                       [by |-> call[t].by, ratings |-> call[t].body.ratings,
                        comment |-> call[t].body.comment,
                        created |-> call[t].now, locked |-> FALSE]]
  /\ Depart(t)
  /\ UNCHANGED <<vars, day, task, taskLock>>

\* Mutant of Hold: the requests' SELECT without FOR UPDATE.
HoldByTaskOnly(t, k) ==
  /\ rowLock[k] = NoSlot
  /\ rowLock' = IF t = Task THEN [rowLock EXCEPT ![k] = t] ELSE rowLock

Hold(t, k) ==
  /\ rowLock[k] = NoSlot
  /\ rowLock' = [rowLock EXCEPT ![k] = t]

\* update_review: get_for_update and everything judged on what it read.
LockReview(t, k, u, change) ==
  /\ at[t] = "idle"
  /\ Taken(k) /\ review[k].by = u
  /\ ~review[k].locked /\ ~Expired(review[k], day)
  /\ Judged(k, review[k], change)
  /\ Hold(t, k)
  /\ at' = [at EXCEPT ![t] = "write"]
  /\ call' = [call EXCEPT ![t] = [op |-> "edit", key |-> k, change |-> change]]
  /\ UNCHANGED <<vars, day, review, task, taskLock>>

\* update_review: UPDATE and COMMIT.
WriteReview(t) ==
  /\ at[t] = "write"
  /\ review' = [review EXCEPT ![call[t].key] = Changed(@, call[t].change)]
  /\ Depart(t)
  /\ UNCHANGED <<vars, day, task, taskLock>>

\* The worker dies or a statement fails.
CrashReview(t) ==
  /\ at[t] # "idle"
  /\ Depart(t)
  /\ UNCHANGED <<vars, day, review, task, taskLock>>

\* lock_expired_reviews starts, and takes its cutoff: @huey.lock_task puts the
\* lock into huey's store and raises TaskLockedException, which ends the run
\* before it began, if it is there already.
TaskBegin ==
  /\ task = Off /\ ~taskLock
  /\ task' = day /\ taskLock' = TRUE
  /\ UNCHANGED <<vars, day, review, rowLock, at, call>>

TaskWorks == task \notin {Off, Returning}

Due(k) == Taken(k) /\ Expired(review[k], task) /\ ~review[k].locked

\* The UPDATE reaches a row, waiting for whoever holds it.
TaskRow(k) ==
  /\ TaskWorks /\ Due(k)
  /\ Hold(Task, k)
  /\ UNCHANGED <<vars, day, review, at, call, task, taskLock>>

\* The connection goes back to the pool.
TaskLeaves(where) ==
  /\ task' = where
  /\ rowLock' = [k \in Keys |-> IF rowLock[k] = Task THEN NoSlot ELSE rowLock[k]]
  /\ UNCHANGED taskLock

\* Mutant of Locked: the connection goes back to the pool without COMMIT.
NotCommitted(k) == review[k]

Locked(k) ==
  IF rowLock[k] = Task THEN [review[k] EXCEPT !.locked = TRUE] ELSE review[k]

\* conn.commit()
TaskCommit ==
  /\ TaskWorks
  /\ \A k \in Keys : Due(k) => rowLock[k] = Task
  /\ review' = [k \in Keys |-> Locked(k)]
  /\ TaskLeaves(Returning)
  /\ UNCHANGED <<vars, day, at, call>>

\* A statement fails: the exception leaves the body.
TaskFails ==
  /\ TaskWorks
  /\ TaskLeaves(Returning)
  /\ UNCHANGED <<vars, day, review, at, call>>

\* lock_task's wrapper takes the lock out of the store, whatever the body did.
TaskReturns ==
  /\ task = Returning
  /\ task' = Off /\ taskLock' = FALSE
  /\ UNCHANGED <<vars, day, review, rowLock, at, call>>

\* The consumer is killed: the server rolls back, the store keeps the lock.
TaskKilled ==
  /\ task # Off
  /\ TaskLeaves(Off)
  /\ UNCHANGED <<vars, day, review, at, call>>

Tick ==
  /\ day < MaxDay
  /\ day' = day + 1
  /\ UNCHANGED <<vars, review, rowLock, at, call, task, taskLock>>

BeginReview(t) ==
  \E k \in Keys, u \in Users :
    \/ \E body \in Bodies(k[2]) : OuterRead(t, k, u, body)
    \/ \E change \in Changes : LockReview(t, k, u, change)

ContinueReview(t) == Recount(t) \/ InsertReview(t) \/ WriteReview(t)

TaskStep ==
  \/ TaskBegin \/ TaskCommit \/ TaskFails \/ TaskReturns \/ TaskKilled
  \/ \E k \in Keys : TaskRow(k)

ReviewStep ==
  \/ \E t \in Writers : BeginReview(t) \/ ContinueReview(t) \/ CrashReview(t)
  \/ TaskStep \/ Tick

ReviewNext ==
  \/ Next /\ UNCHANGED reviewVars
  \/ ReviewStep

ReviewSpec == ReviewInit /\ [][ReviewNext]_allVars

\* Requests run on; the scheduler calls the task every day, which starts while
\* huey's lock is free and gives it back when its body is over; a task that is
\* started again and again does not fail each time.
Fairness ==
  /\ \A t \in Writers : WF_allVars(ContinueReview(t))
  /\ WF_allVars(TaskBegin) /\ WF_allVars(TaskReturns) /\ SF_allVars(TaskCommit)
  /\ \A k \in Keys : SF_allVars(TaskRow(k))

FairReviewSpec == ReviewSpec /\ Fairness

-----------------------------------------------------------------------------
(* Properties *)

ReviewRows ==
  [by : Users, ratings : [Axes -> Ratings], comment : Comments,
   created : 0 .. MaxDay, locked : BOOLEAN]

\* The absence of a row is not a row.
ASSUME RowAssumption == NoReview \notin ReviewRows

Calls ==
  [op : {"create"}, key : Keys, by : Users,
   body : [ratings : [Axes -> Ratings], comment : Comments], now : 0 .. MaxDay]
  \cup [op : {"edit"}, key : Keys, change : Changes]

ReviewTypeOK ==
  /\ day \in 0 .. MaxDay
  /\ review \in [Keys -> ReviewRows \cup {NoReview}]
  /\ rowLock \in [Keys -> Writers \cup {Task, NoSlot}]
  /\ at \in [Writers -> {"idle", "recount", "insert", "write"}]
  /\ call \in [Writers -> Calls \cup {NoCall}]
  /\ task \in 0 .. MaxDay \cup {Off, Returning}
  /\ taskLock \in BOOLEAN

\* Once the task has locked a review nothing changes it any more, an edit that
\* was judged before the lock included.
LockedIsFinal ==
  [][\A k \in Keys : Taken(k) /\ review[k].locked => review'[k] = review[k]]_allVars

\* A stored review is never replaced: its author and its moment of creation
\* stay, and it changes only for the holder of its row.
ChangedUnderLock ==
  [][\A k \in Keys : Taken(k) /\ review'[k] # review[k]
       => /\ rowLock[k] # NoSlot
          /\ review'[k].by = review[k].by
          /\ review'[k].created = review[k].created]_allVars

\* An edit is written into the row it was judged on, so what the rules were
\* checked against is what is there.
JudgedAsWritten ==
  \A t \in Writers : at[t] = "write"
    => LET k == call[t].key IN
       /\ Taken(k) /\ ~review[k].locked
       /\ Judged(k, review[k], call[t].change)

\* A review stands only on a match that has ended: it was so at the read outside
\* the block, and nothing brings the match back while the request runs on.
ReviewedMatchEnded ==
  \A k \in Keys : Taken(k) => status[k[1]] = "ended"

\* A killed task has left huey's lock behind: no later run gets past it.
LockLeft == taskLock /\ task = Off

\* A review past its window is locked in the end, whatever edits wait in front
\* of the task and however often it fails, unless a consumer was killed while
\* the task ran: nothing takes its lock out of the store (scheduled.py:13-36;
\* docker-compose.yml:138 starts huey_consumer without --flush-locks).
ExpiredGetsLocked ==
  \A k \in Keys :
    (Taken(k) /\ Expired(review[k], day))
      ~> (Taken(k) /\ review[k].locked) \/ LockLeft
=============================================================================
