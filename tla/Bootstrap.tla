------------------------------ MODULE Bootstrap -----------------------------
(***************************************************************************)
(* The start of a worker (main.py lifespan, run_bootstrap) beside what     *)
(* administrators do meanwhile.  The DDL, which repeats without effect, is *)
(* part of taking the lock; DEBUG is off, so no demonstration accounts.    *)
(***************************************************************************)
EXTENDS Administration

CONSTANTS
  Workers,
  MaxBoots,      \* bound on starts
  NoWorker

ASSUME BootstrapAssumption == MaxBoots \in Nat /\ NoWorker \notin Workers

VARIABLES
  boot,          \* what each worker is about to do
  bootLock,      \* owner of _BOOTSTRAP_LOCK_KEY
  boots,         \* starts so far
  meddled        \* history variable: see Meddling

bootVars == <<boot, bootLock, boots, meddled>>

bootstrapVars == <<adminVars, bootVars>>

Starting == {"subjects", "fill", "admin", "create", "verify"}

Boss == {u \in Ids : users[u] # NoUser /\ users[u].boss}

To(w, where) == boot' = [boot EXCEPT ![w] = where] /\ UNCHANGED <<boots, meddled>>

\* What may make a later start fail: ADMIN_USERNAME registered by someone, an
\* archive with fewer subjects than SEED_SUBJECTS, or accounts or subjects
\* replaced under a start's eyes.
Meddling ==
  \/ \E u \in Boss' : users'[u].role = "other"
  \/ subjects' \notin {0, Needed}
  \/ /\ \E w \in Workers : boot[w] \in Starting
     /\ subjects' # subjects \/ \E u \in Boss : u \notin Boss'

BootInit ==
  /\ boot = [w \in Workers |-> "up"]
  /\ bootLock = NoWorker /\ boots = 0 /\ meddled = FALSE

\* A worker ends, whatever it was doing, and is started again.
Start(w) ==
  /\ boots < MaxBoots
  /\ boots' = boots + 1
  /\ boot' = [boot EXCEPT ![w] = "lock"]
  /\ bootLock' = IF bootLock = w THEN NoWorker ELSE bootLock
  /\ UNCHANGED <<meddled, adminVars>>

\* Mutant of TakeLock: initialize_database, the entry without the lock.
TakeNothing(w) ==
  /\ boot[w] = "lock"
  /\ To(w, "subjects")
  /\ UNCHANGED <<bootLock, adminVars>>

\* pg_advisory_lock, a lock of the session, and create_schema.
TakeLock(w) ==
  /\ boot[w] = "lock" /\ bootLock = NoWorker
  /\ bootLock' = w
  /\ To(w, "subjects")
  /\ UNCHANGED adminVars

CountSubjects(w) ==
  /\ boot[w] = "subjects"
  /\ To(w, IF subjects > 0 THEN "admin" ELSE "fill")
  /\ UNCHANGED <<bootLock, adminVars>>

\* The end of a start that fails: the session dies, and the lock with it.
Abort(w) ==
  /\ To(w, "failed")
  /\ bootLock' = IF bootLock = w THEN NoWorker ELSE bootLock

\* INSERT, or UniqueViolation on subject_name.
FillSubjects(w) ==
  /\ boot[w] = "fill"
  /\ IF subjects > 0
     THEN Abort(w) /\ UNCHANGED subjects
     ELSE subjects' = Needed /\ To(w, "admin") /\ UNCHANGED bootLock
  /\ UNCHANGED <<users, rows, minted, burnt, hits, work, passed, wipes, excused>>

CountAdmin(w) ==
  /\ boot[w] = "admin"
  /\ To(w, IF Boss # {} THEN "verify" ELSE "create")
  /\ UNCHANGED <<bootLock, adminVars>>

\* INSERT, or UniqueViolation on username.  An id the sequence hands out is
\* none that an access token names.
CreateAdmin(w) ==
  /\ boot[w] = "create"
  /\ IF Boss # {}
     THEN Abort(w) /\ UNCHANGED users
     ELSE /\ \E u \in {v \in Ids \ Callers : users[v] = NoUser} :
               users' = [users EXCEPT ![u] = [boss |-> TRUE, role |-> "admin", alive |-> TRUE]]
          /\ To(w, "verify") /\ UNCHANGED bootLock
  /\ UNCHANGED <<subjects, rows, minted, burnt, hits, work, passed, wipes, excused>>

\* verify_bootstrap, and the unlock of the finally clause.
VerifyBoot(w) ==
  /\ boot[w] = "verify"
  /\ IF subjects >= Needed /\ \E u \in Boss : users[u].role = "admin"
     THEN To(w, "up") /\ bootLock' = IF bootLock = w THEN NoWorker ELSE bootLock
     ELSE Abort(w)
  /\ UNCHANGED adminVars

BootNext ==
  \E w \in Workers :
    \/ Start(w) \/ TakeLock(w) \/ CountSubjects(w) \/ FillSubjects(w)
    \/ CountAdmin(w) \/ CreateAdmin(w) \/ VerifyBoot(w)

\* Requests come in while some worker is up.
Requests == (Arrivals /\ \E w \in Workers : boot[w] = "up") \/ Steps

Administer ==
  /\ Requests /\ meddled' = (meddled \/ Meddling)
  /\ UNCHANGED <<boot, bootLock, boots>>

BootstrapInit == AdminInit /\ BootInit

BootstrapSpec == BootstrapInit /\ [][BootNext \/ Administer]_bootstrapVars

-----------------------------------------------------------------------------
\* Workers that start together, or again after any resets and erasures, all
\* come up: they neither collide on the seed rows nor refuse to serve
\* (init_db.py:656-680, 811-844).
BootsSucceed == meddled \/ \A w \in Workers : boot[w] # "failed"
=============================================================================
