-------------------------------- MODULE Gate --------------------------------
(***************************************************************************)
(* What a request passes before its handler runs, in the order main.py     *)
(* registers it: the per-user quota of the worker, which looks its token   *)
(* up, the CSRF check, and the bucket of its path and address.  The body   *)
(* limit in front of them refuses before anything is counted.              *)
(*                                                                         *)
(* Lookups of tokens and handlers lease connections of the worker's pool;  *)
(* a handler may hold get_db's and, inside it, one of a function of        *)
(* security.py.  Leases outside requests (the views' refresh) are left out *)
(* and could only make others fail.                                        *)
(*                                                                         *)
(* Buckets are rows of one table, shared by all workers and guarded by an  *)
(* advisory lock; a quota is a counter in one worker's memory.  Cookies,   *)
(* methods and bodies are abstracted to the verdicts passed on them.       *)
(***************************************************************************)
EXTENDS Naturals, FiniteSets

CONSTANTS
  Slots,         \* requests in flight at once
  Workers, Users,
  Anonymous,     \* the caller of a request without a valid access token
  Keys,          \* buckets: a path and an address
  MaxHits,       \* RATE_LIMITS: requests per window
  Window,        \* and its length, in ticks
  Quota,         \* db_per_user_quota
  PoolMax,       \* db_pool_max
  RlPoolMax,     \* maxconn of the limiter's own pool
  Patience,      \* bound: ticks a request may spend in the limiter
  MaxTime,       \* bound on the clock
  NoSlot

ASSUME GateAssumption ==
  /\ IsFiniteSet(Slots) /\ MaxTime \in Nat
  /\ MaxHits \in Nat \ {0} /\ Window \in Nat /\ Patience \in Nat
  /\ Patience <= Window
  /\ Quota \in Nat \ {0} /\ Quota < PoolMax      \* checked by Settings
  /\ PoolMax \in Nat /\ RlPoolMax \in Nat \ {0}
  /\ Anonymous \notin Users /\ NoSlot \notin Slots

VARIABLES
  now,           \* the database's clock
  pc, req,       \* next step of each request, and who sent it where
  counts,        \* UserConcurrencyQuotaMiddleware._counts of each worker
  since,         \* when the window's start was computed
  stamp,         \* NOW() of the limiter's transaction
  bucketLock,    \* owner of each advisory lock
  hits,          \* committed rows of rate_limit_hits, per bucket and hit_at
  admitted       \* history: admissions the limiter answers for, by hour

vars == <<now, pc, req, counts, since, stamp, bucketLock, hits, admitted>>

-----------------------------------------------------------------------------
Times == 0 .. MaxTime

\* Steps during which a connection of the limiter's pool is held ...
Limiting == {"begin", "wait", "count", "commit"}

\* ... those between enter and exit of the quota, ...
Counted == Limiting \cup {"lease", "handler", "working", "nested"}

\* ... and those during which a connection of the worker's pool is held, or two.
Leasing == {"identify", "working", "nested"}

NoReq == [caller |-> Anonymous, worker |-> NoSlot, key |-> NoSlot, closed |-> FALSE]

At(w, where) == {s \in Slots : req[s].worker = w /\ pc[s] \in where}

Leased(w) == Cardinality(At(w, Leasing)) + Cardinality(At(w, {"nested"}))

InFlight(w, u) == {s \in At(w, Counted) : req[s].caller = u}

Goto(s, where) == pc' = [pc EXCEPT ![s] = where]

\* Mutant of LeaveQuota: the counter goes down only when the handler ran.
LeaveQuotaServed(s) ==
  IF req[s].caller = Anonymous \/ pc[s] # "handler" THEN UNCHANGED counts
  ELSE counts' = [counts EXCEPT ![req[s].worker][req[s].caller] = @ - 1]

\* The finally clause, whatever the inner application did.
LeaveQuota(s) ==
  IF req[s].caller = Anonymous THEN UNCHANGED counts
  ELSE counts' = [counts EXCEPT ![req[s].worker][req[s].caller] = @ - 1]

LimiterDone(s) ==
  /\ since' = [since EXCEPT ![s] = 0]
  /\ stamp' = [stamp EXCEPT ![s] = 0]

\* The answer is sent and the request forgotten.
Answer(s) ==
  /\ Goto(s, "idle")
  /\ req' = [req EXCEPT ![s] = NoReq]
  /\ LimiterDone(s)

ToHandler(s) == Goto(s, "handler") /\ LimiterDone(s) /\ UNCHANGED <<req, counts>>

Unlock(s) ==
  bucketLock' = [k \in Keys |-> IF bucketLock[k] = s THEN NoSlot ELSE bucketLock[k]]

\* fail_closed: a sensitive path or an unsafe method.
Closed(s) == req[s].closed

\* The rows of a bucket that has n[t] of them for each time t.
Rows(n) == UNION {{t} \X (1 .. n[t]) : t \in Times}

\* How many of them a count made for s sees: hit_at >= cutoff.
Counting(s) == Cardinality({r \in Rows(hits[req[s].key]) : r[1] + Window >= since[s]})

Store(s) == hits' = [hits EXCEPT ![req[s].key][stamp[s]] = @ + 1]

\* From here the limiter answers for the request having been let through.
Admit(s) == admitted' = [admitted EXCEPT ![req[s].key][now] = @ + 1]

TablesUnchanged == UNCHANGED <<now, bucketLock, hits, admitted>>

-----------------------------------------------------------------------------
Init ==
  /\ now = 0
  /\ pc = [s \in Slots |-> "idle"]
  /\ req = [s \in Slots |-> NoReq]
  /\ counts = [w \in Workers |-> [u \in Users |-> 0]]
  /\ since = [s \in Slots |-> 0]
  /\ stamp = [s \in Slots |-> 0]
  /\ bucketLock = [k \in Keys |-> NoSlot]
  /\ hits = [k \in Keys |-> [t \in Times |-> 0]]
  /\ admitted = [k \in Keys |-> [t \in Times |-> 0]]

\* Mutant of HasRoom: one too many.
HasRoomForOneMore(w, u) == counts[w][u] <= Quota

HasRoom(w, u) == counts[w][u] < Quota

\* A request with a valid access token reaches a worker with a body within the
\* limit, and decode_access_token looks for a revocation: on the event loop, so
\* for one request of the worker at a time.  If the pool is exhausted the
\* request fails and has touched nothing.
Identify(s, w, u, k, c) ==
  /\ pc[s] = "idle"
  /\ At(w, {"identify"}) = {} /\ Leased(w) < PoolMax
  /\ req' = [req EXCEPT ![s] = [caller |-> u, worker |-> w, key |-> k, closed |-> c]]
  /\ Goto(s, "identify")
  /\ UNCHANGED <<counts, since, stamp>> /\ TablesUnchanged

\* The quota's first critical section counts the user.
EnterQuota(s) ==
  /\ pc[s] = "identify" /\ HasRoom(req[s].worker, req[s].caller)
  /\ counts' = [counts EXCEPT ![req[s].worker][req[s].caller] = @ + 1]
  /\ Goto(s, "lease")
  /\ UNCHANGED <<req, since, stamp>> /\ TablesUnchanged

\* 429
RefuseQuota(s) ==
  /\ pc[s] = "identify" /\ ~HasRoom(req[s].worker, req[s].caller)
  /\ Answer(s)
  /\ UNCHANGED counts /\ TablesUnchanged

\* The token was revoked: the request goes on as nobody's.
EnterRevoked(s) ==
  /\ pc[s] = "identify"
  /\ req' = [req EXCEPT ![s].caller = Anonymous]
  /\ Goto(s, "lease")
  /\ UNCHANGED <<counts, since, stamp>> /\ TablesUnchanged

\* No token, or none that decodes: nothing is looked up, nothing counted.
EnterAnonymous(s, w, k, c) ==
  /\ pc[s] = "idle"
  /\ req' = [req EXCEPT ![s] =
               [caller |-> Anonymous, worker |-> w, key |-> k, closed |-> c]]
  /\ Goto(s, "lease")
  /\ UNCHANGED <<counts, since, stamp>> /\ TablesUnchanged

\* 403, on the request's own headers.
RefuseCsrf(s) ==
  /\ pc[s] = "lease"
  /\ LeaveQuota(s)
  /\ Answer(s)
  /\ TablesUnchanged

-----------------------------------------------------------------------------
(* The limiter: check_and_record_bucket, in a thread of its own.           *)

\* getconn, and the start of the window by this worker's clock.
LeaseRl(s) ==
  /\ pc[s] = "lease"
  /\ Cardinality(At(req[s].worker, Limiting)) < RlPoolMax
  /\ since' = [since EXCEPT ![s] = now]
  /\ Goto(s, "begin")
  /\ UNCHANGED <<req, counts, stamp>> /\ TablesUnchanged

\* The first statement opens the transaction and asks for the lock.
BeginTx(s) ==
  /\ pc[s] = "begin"
  /\ stamp' = [stamp EXCEPT ![s] = now]
  /\ Goto(s, "wait")
  /\ UNCHANGED <<req, counts, since>> /\ TablesUnchanged

\* Mutant of LockBucket: no advisory lock.
LockNothing(s) ==
  /\ pc[s] = "wait"
  /\ Goto(s, "count")
  /\ UNCHANGED <<req, counts, since, stamp>> /\ TablesUnchanged

LockBucket(s) ==
  /\ pc[s] = "wait"
  /\ bucketLock[req[s].key] = NoSlot
  /\ bucketLock' = [bucketLock EXCEPT ![req[s].key] = s]
  /\ Goto(s, "count")
  /\ UNCHANGED <<now, req, counts, since, stamp, hits, admitted>>

CountBelow(s) ==
  /\ pc[s] = "count"
  /\ Counting(s) < MaxHits
  /\ Goto(s, "commit")
  /\ UNCHANGED <<req, counts, since, stamp>> /\ TablesUnchanged

RefuseFull(s) ==
  /\ pc[s] = "count"
  /\ Counting(s) >= MaxHits
  /\ Unlock(s)
  /\ LeaveQuota(s)
  /\ Answer(s)
  /\ UNCHANGED <<now, hits, admitted>>

\* INSERT and COMMIT.
CommitHit(s) ==
  /\ pc[s] = "commit"
  /\ Store(s)
  /\ Admit(s)
  /\ Unlock(s)
  /\ ToHandler(s)
  /\ UNCHANGED now

\* Mutant of LetThrough: sensitive paths fail open too.
LetAllThrough(s) ==
  /\ ToHandler(s)
  /\ IF Closed(s) THEN Admit(s) ELSE UNCHANGED admitted

\* The except clause: sensitive paths refuse, others go on unrecorded.
LetThrough(s) ==
  \/ Closed(s) /\ LeaveQuota(s) /\ Answer(s) /\ UNCHANGED admitted
  \/ ~Closed(s) /\ ToHandler(s) /\ UNCHANGED admitted

\* The limiter's pool is exhausted: getconn raises.
LeaseFails(s) ==
  /\ pc[s] = "lease"
  /\ Cardinality(At(req[s].worker, Limiting)) >= RlPoolMax
  /\ LetThrough(s)
  /\ UNCHANGED <<now, bucketLock, hits>>

\* A statement fails; a COMMIT may have been carried out all the same.
DbError(s) ==
  /\ pc[s] \in Limiting
  /\ UNCHANGED hits \/ (pc[s] = "commit" /\ Store(s))
  /\ Unlock(s)
  /\ LetThrough(s)
  /\ UNCHANGED now

-----------------------------------------------------------------------------
(* The handler and what it depends on.                                     *)

\* getconn: get_db's, or one of security.py's, which a handler may ask for
\* while it holds get_db's (refresh, admin_reset_confirm).
LeaseDb(s) ==
  /\ pc[s] \in {"handler", "working"}
  /\ Leased(req[s].worker) < PoolMax
  /\ Goto(s, IF pc[s] = "handler" THEN "working" ELSE "nested")
  /\ UNCHANGED <<req, counts, since, stamp>> /\ TablesUnchanged

\* putconn
ReturnDb(s) ==
  /\ pc[s] \in {"working", "nested"}
  /\ Goto(s, IF pc[s] = "nested" THEN "working" ELSE "handler")
  /\ UNCHANGED <<req, counts, since, stamp>> /\ TablesUnchanged

\* PoolError; what the request holds goes back on the way out.
LeaseRefused(s) ==
  /\ pc[s] \in {"handler", "working"}
  /\ Leased(req[s].worker) >= PoolMax
  /\ LeaveQuota(s)
  /\ Answer(s)
  /\ TablesUnchanged

\* It has returned, raised, or read a streamed body past the cap.
Finish(s) ==
  /\ pc[s] = "handler"
  /\ LeaveQuota(s)
  /\ Answer(s)
  /\ TablesUnchanged

\* Rows past expires_at = hit_at + window go.
Cleanup ==
  /\ hits' = [k \in Keys |-> [t \in Times |->
                IF t + Window < now THEN 0 ELSE hits[k][t]]]
  /\ UNCHANGED <<now, pc, req, counts, since, stamp, bucketLock, admitted>>

Tick ==
  /\ now < MaxTime
  /\ \A s \in Slots : pc[s] \in Limiting => now < since[s] + Patience
  /\ now' = now + 1
  /\ UNCHANGED <<pc, req, counts, since, stamp, bucketLock, hits, admitted>>

Limit(s) ==
  LeaseRl(s) \/ BeginTx(s) \/ CountBelow(s) \/ RefuseFull(s) \/ CommitHit(s) \/ LeaseFails(s)

Handle(s) == LeaseDb(s) \/ ReturnDb(s) \/ LeaseRefused(s) \/ Finish(s)

Enter(s) ==
  \/ \E w \in Workers, u \in Users, k \in Keys, c \in BOOLEAN : Identify(s, w, u, k, c)
  \/ \E w \in Workers, k \in Keys, c \in BOOLEAN : EnterAnonymous(s, w, k, c)
  \/ EnterQuota(s) \/ RefuseQuota(s) \/ EnterRevoked(s)

Next ==
  \/ \E s \in Slots :
       Enter(s) \/ RefuseCsrf(s) \/ Limit(s) \/ LockBucket(s) \/ DbError(s) \/ Handle(s)
  \/ Cleanup \/ Tick

GateSpec == Init /\ [][Next]_vars

-----------------------------------------------------------------------------
\* A worker's counter for a user is the number of that user's requests it
\* has let in and not yet answered, whatever became of each of them
\* (user_quota.py, __call__: 403, 429, exhausted pools and exceptions).
QuotaIsInFlight ==
  \A w \in Workers, u \in Users : counts[w][u] = Cardinality(InFlight(w, u))

\* How many connections of a worker's pool one account's requests hold.
LeasedBy(w, u) ==
  Cardinality({s \in At(w, Leasing) : req[s].caller = u})
  + Cardinality({s \in At(w, {"nested"}) : req[s].caller = u})

\* One account holds at most two connections of a worker's pool for every
\* request its quota lets in, and one more while the next is being identified.
\* With the shipped numbers, a quota of 5 and a pool of 20, that leaves room for
\* others; Settings only asks for a quota below the pool's size
\* (user_quota.py:1-11, config.py:106-114), which does not.
CallerTakesAtMost ==
  \A w \in Workers, u \in Users : LeasedBy(w, u) <= 2 * Quota + 1

\* While no request spends more than Patience ticks in the limiter, no span
\* of Window - Patience ticks sees more than MaxHits admissions of one
\* bucket that were recorded or that may not be granted unrecorded,
\* although hits carry the time their transaction began, windows start
\* before the wait for the lock, and rows expire meanwhile
\* (rate_limit.py:74-92, 122-133).
WindowHolds ==
  \A k \in Keys, last \in Times :
    Cardinality({r \in Rows(admitted[k]) :
                   r[1] <= last /\ last < r[1] + (Window - Patience)}) <= MaxHits
=============================================================================
