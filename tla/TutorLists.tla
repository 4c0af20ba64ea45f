----------------------------- MODULE TutorLists -----------------------------
(***************************************************************************)
(* A tutor's list of subjects and list of hours, each replaced as a whole  *)
(* by DELETE and INSERTs in one READ COMMITTED transaction                 *)
(* (PostgresTutorRepository.replace_subjects, replace_availability).       *)
(*                                                                         *)
(* A DELETE goes through the rows committed when it began.  It waits for a *)
(* transaction that is deleting one of them, passes over the rows that are *)
(* gone by then, and never sees those committed in the meantime.  An       *)
(* INSERT waits for an uncommitted row of its key (the subject, or the day *)
(* and start of the hours) and fails on a committed one.                   *)
(***************************************************************************)
EXTENDS Naturals, Sequences

CONSTANTS
  Tables,        \* of {"subjects", "hours"}
  Writers,       \* requests in flight at once
  Items,         \* subjects, or days and starts of hours
  MaxLists,      \* bound on the lists submitted
  MaxItems,      \* bound on the length of one, which may repeat an item
  NoTable

ASSUME TutorListsAssumption ==
  /\ Tables \subseteq {"subjects", "hours"} /\ NoTable \notin Tables
  /\ MaxLists \in Nat /\ MaxItems \in Nat

VARIABLES
  rows,          \* committed rows of each table: [list, nth] for the nth item of a list
  submitted,     \* history variable: every list, in the order of arrival
  crossed,       \* history variable: two replacements of a table overlapped
  work           \* the transaction of each request

listVars == <<rows, submitted, crossed, work>>

-----------------------------------------------------------------------------
Row == [list : 1 .. MaxLists, nth : 1 .. MaxItems]

Item(r) == submitted[r.list][r.nth]

\* `seen` is the DELETE's snapshot, `doomed` the rows deleted of it, and `put`
\* counts the INSERTs done.
Idle == [at |-> "idle", table |-> NoTable, list |-> 0,
         seen |-> {}, doomed |-> {}, put |-> 0]

Lists == UNION {[1 .. n -> Items] : n \in 0 .. MaxItems}

Running(w, t) == work[w].table = t

\* The rows a transaction has inserted.
Put(w) == [list : {work[w].list}, nth : 1 .. work[w].put]

Pending(w) == work[w].put < Len(submitted[work[w].list])

NextRow(w) == [list |-> work[w].list, nth |-> work[w].put + 1]

ListsInit ==
  /\ rows = [t \in Tables |-> {}]
  /\ submitted = <<>>
  /\ crossed = [t \in Tables |-> FALSE]
  /\ work = [w \in Writers |-> Idle]

\* PUT /profile/subjects or /profile/availability, its items validated.
Submit(w, t, l) ==
  /\ work[w].at = "idle" /\ Len(submitted) < MaxLists
  /\ submitted' = Append(submitted, l)
  /\ work' = [work EXCEPT ![w] =
                [at |-> "delete", table |-> t, list |-> Len(submitted) + 1,
                 seen |-> {}, doomed |-> {}, put |-> 0]]
  /\ crossed' = [crossed EXCEPT ![t] = @ \/ \E o \in Writers : Running(o, t)]
  /\ UNCHANGED rows

\* Mutant of Delete: an upsert, which deletes only what comes back.
DeleteReturning(w) ==
  /\ work[w].at = "delete"
  /\ work' = [work EXCEPT ![w].at = "scan",
               ![w].seen = {r \in rows[work[w].table] :
                              \E n \in 1 .. Len(submitted[work[w].list]) :
                                Item(r) = submitted[work[w].list][n]}]
  /\ UNCHANGED <<rows, submitted, crossed>>

\* DELETE ... WHERE tutor_id takes its snapshot ...
Delete(w) ==
  /\ work[w].at = "delete"
  /\ work' = [work EXCEPT ![w].at = "scan", ![w].seen = rows[work[w].table]]
  /\ UNCHANGED <<rows, submitted, crossed>>

\* What the DELETE has still to delete: rows of its snapshot not gone since.
Remaining(w) == (work[w].seen \cap rows[work[w].table]) \ work[w].doomed

\* ... deletes its rows one by one, after whoever is deleting one of them ...
DeleteRow(w, r) ==
  /\ work[w].at = "scan" /\ r \in Remaining(w)
  /\ \A o \in Writers : Running(o, work[w].table) => r \notin work[o].doomed
  /\ work' = [work EXCEPT ![w].doomed = @ \cup {r}]
  /\ UNCHANGED <<rows, submitted, crossed>>

\* ... and is done when none is left.
Deleted(w) ==
  /\ work[w].at = "scan" /\ Remaining(w) = {}
  /\ work' = [work EXCEPT ![w].at = "insert"]
  /\ UNCHANGED <<rows, submitted, crossed>>

\* Rows whose key the next INSERT meets, waiting for them or failing.
Met(w) ==
  (rows[work[w].table] \ work[w].doomed)
    \cup UNION {Put(o) : o \in {x \in Writers : Running(x, work[w].table)}}

\* One INSERT of the loop.
Insert(w) ==
  /\ work[w].at = "insert" /\ Pending(w)
  /\ \A r \in Met(w) : Item(r) # Item(NextRow(w))
  /\ work' = [work EXCEPT ![w].put = @ + 1]
  /\ UNCHANGED <<rows, submitted, crossed>>

\* What the table holds once w commits.
Replaced(w) == (rows[work[w].table] \ work[w].doomed) \cup Put(w)

\* Mutant of Fail: what was written before the failure stays.
FailHalfway(w) ==
  /\ work[w].at \in {"delete", "scan", "insert"}
  /\ rows' = [rows EXCEPT ![work[w].table] = Replaced(w)]
  /\ work' = [work EXCEPT ![w] = Idle]
  /\ UNCHANGED <<submitted, crossed>>

\* UniqueViolation, the victim of a deadlock, or a worker's death: ROLLBACK.
Fail(w) ==
  /\ work[w].at \in {"delete", "scan", "insert"}
  /\ work' = [work EXCEPT ![w] = Idle]
  /\ UNCHANGED <<rows, submitted, crossed>>

Commit(w) ==
  /\ work[w].at = "insert" /\ ~Pending(w)
  /\ rows' = [rows EXCEPT ![work[w].table] = Replaced(w)]
  /\ work' = [work EXCEPT ![w] = Idle]
  /\ UNCHANGED <<submitted, crossed>>

ListsNext ==
  \E w \in Writers :
    \/ \E t \in Tables, l \in Lists : Submit(w, t, l)
    \/ \E r \in work[w].seen : DeleteRow(w, r)
    \/ Delete(w) \/ Deleted(w) \/ Insert(w) \/ Fail(w) \/ Commit(w)

ListsSpec == ListsInit /\ [][ListsNext]_listVars

-----------------------------------------------------------------------------
\* Every row is an item of a submitted list.
ListsTypeOK ==
  \A t \in Tables : \A r \in rows[t] :
    r \in Row /\ r.list \in DOMAIN submitted /\ r.nth \in DOMAIN submitted[r.list]

\* A list is stored whole or not at all, whatever replacements overlapped,
\* collided, deadlocked or died half-way (postgres_tutor_repo.py:223-239).
ListsAreWhole ==
  \A t \in Tables : \A r \in rows[t] :
    [list : {r.list}, nth : DOMAIN submitted[r.list]] \subseteq rows[t]

\* Replacements that never overlapped leave one list, and overlapping ones
\* never two rows of one subject or start (init_db.py:83-90, 290-293).
OneListUnlessCrossed ==
  \A t \in Tables : \A r, q \in rows[t] :
    /\ ~crossed[t] => r.list = q.list
    /\ Item(r) = Item(q) => r = q
=============================================================================
