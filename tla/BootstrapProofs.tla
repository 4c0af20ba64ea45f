--------------------------- MODULE BootstrapProofs --------------------------
(***************************************************************************)
(* Proofs about modules Administration and Bootstrap, for every set of     *)
(* accounts, administrators, reset tokens, matches, requests and workers:  *)
(* resets, imports, erasures and starts of workers, in any order.          *)
(***************************************************************************)
EXTENDS Bootstrap, FiniteSetTheorems, TLAPS

-----------------------------------------------------------------------------
(* The invariant of what administrators do *)

TablesOK ==
  /\ users \in [Ids -> Account \cup {NoUser}]
  /\ subjects \in 0 .. Needed
  /\ rows \in [Rows -> Ids \cup {NoRow}]
  /\ hits \subseteq Callers
  /\ wipes \in [Callers -> Nat]
  /\ excused \in BOOLEAN

\* A token past its consumption is burnt, and burnt for good.
TokensOK ==
  /\ minted \in [Tokens -> Callers \cup {NoId}]
  /\ passed \in [Tokens -> {0, 1}]
  /\ \A k \in Tokens : passed[k] = 1 => k \in burnt

Tasks ==
  [at : {"idle", "erase"} \cup Transacting, by : Callers \cup {NoId}, target : Ids \cup {NoId},
   token : Tokens \cup {NoToken}, held : SUBSET Ids, hits : SUBSET Callers,
   rows : SUBSET Rows, subjects : BOOLEAN, users : SUBSET Ids]

\* A request has a caller, a confirmation its token, an erasure somebody else
\* for its target.
Proper(m) ==
  /\ m \in Tasks
  /\ m.at # "idle" => m.by \in Callers
  /\ m.at \in Confirming => m.token \in Tokens
  /\ m.token # NoToken => m.at \in Confirming \cup Wiping
  /\ m.subjects <=> m.at \in {"users", "fill"}
  /\ m.at # "fill" => m.users = {}
  /\ m.at \in {"erase", "audit"} => m.target \in Ids \ {m.by}

\* Once the subjects are deleted, the wipe has deleted every match there is.
RowsTaken(m) ==
  m.at \in {"users", "fill"} => \A r \in Rows : rows[r] # NoRow => r \in m.rows

\* A reset keeps its caller's row, a working administrator's, under lock.
CallerKept(m) ==
  m.token # NoToken /\ m.at \in Wiping =>
    m.by \in m.held /\ m.by \notin m.users /\ Usable(m.by)

\* A wipe about to commit takes every other caller's account that is left.
CallersTaken(m) ==
  m.at = "fill" => \A u \in Callers \ {m.by} : users[u] # NoUser => u \in m.users

\* An erasure will fail with its caller gone, or leaves some administrator.
Spares(m) ==
  m.at \in {"erase", "audit"} /\ ~excused =>
    users[m.by] = NoUser \/ \E u \in Ids \ {m.target} : Usable(u)

\* An erasure about to write holds its target's row, and the row is there.
TargetHeld(m) == m.at = "audit" => m.target \in m.held /\ users[m.target] # NoUser

Sound(m) ==
  /\ Proper(m) /\ RowsTaken(m) /\ CallerKept(m) /\ CallersTaken(m)
  /\ Spares(m) /\ TargetHeld(m)

Locked(m) == m.held \cup m.users

\* No row is locked twice, and no two erasures overlap without being excused.
Apart ==
  \A s, o \in Slots : s # o =>
    /\ Locked(work[s]) \cap Locked(work[o]) = {}
    /\ Erasing(s) /\ Erasing(o) => excused

AdminInv ==
  /\ TablesOK /\ TokensOK /\ NoRowWithoutUser /\ AdminRemains
  /\ work \in [Slots -> Tasks]
  /\ \A s \in Slots : Sound(work[s])
  /\ Apart

LEMMA AtNames ==
  /\ Transacting = {"consume", "verify", "rows", "subjects", "users", "fill", "audit"}
  /\ Confirming = {"consume", "verify"} /\ Wiping = {"rows", "subjects", "users", "fill"}
BY DEF Transacting, Confirming, Wiping

LEMMA IdleSound ==
  /\ Idle \in Tasks /\ Sound(Idle) /\ Locked(Idle) = {} /\ Idle.at = "idle"
  /\ Sound(Idle)'
<1> USE AdministrationAssumption, AtNames
<1>1. Idle \in Tasks
  BY DEF Idle, Tasks
<1>2. QED
  BY <1>1 DEF Idle, Sound, Proper, RowsTaken, CallerKept, CallersTaken, Spares, TargetHeld,
     Locked

LEMMA InitAdminInv == AdminInit => AdminInv
<1> SUFFICES ASSUME AdminInit PROVE AdminInv
  OBVIOUS
<1> USE AdministrationAssumption DEF AdminInit
<1>1. TablesOK
  <2>1. users \in [Ids -> Account \cup {NoUser}]
    BY DEF Account
  <2>2. subjects \in 0 .. Needed
    OBVIOUS
  <2>3. wipes \in [Callers -> Nat] /\ rows \in [Rows -> Ids \cup {NoRow}]
    OBVIOUS
  <2>4. excused \in BOOLEAN /\ hits \subseteq Callers
    OBVIOUS
  <2>5. QED BY <2>1, <2>2, <2>3, <2>4 DEF TablesOK
<1>2. TokensOK /\ NoRowWithoutUser
  BY DEF TokensOK, NoRowWithoutUser
<1>3. AdminRemains
  <2>1. PICK c \in Callers : c \in Ids
    OBVIOUS
  <2>2. users[c].role = "admin" /\ users[c].alive = TRUE /\ users[c] \in Account
    BY <2>1 DEF Account
  <2>3. users[c] # NoUser
    BY <2>2 DEF Account
  <2>4. QED BY <2>1, <2>2, <2>3 DEF AdminRemains, Usable
<1>4. /\ work \in [Slots -> Tasks]
      /\ \A s \in Slots : Sound(work[s])
  BY IdleSound
<1>5. Apart
  BY IdleSound DEF Apart, Erasing
<1>6. QED BY <1>1, <1>2, <1>3, <1>4, <1>5 DEF AdminInv

-----------------------------------------------------------------------------
(* Steps that leave the tables alone and move one request on *)

LEMMA SameTables ==
  ASSUME UNCHANGED <<users, subjects, rows, wipes>>
  PROVE  /\ \A u : Usable(u)' <=> Usable(u)
         /\ NoRowWithoutUser' <=> NoRowWithoutUser
         /\ Tasks' = Tasks
BY DEF Usable, NoRowWithoutUser, Tasks, Transacting, Confirming, Wiping

\* What is true of a request stays true while tables and requests stay.
LEMMA StillSound ==
  ASSUME UNCHANGED <<users, subjects, rows, wipes>>, excused => excused',
         NEW m \in Tasks, Sound(m)
  PROVE  Sound(m)'
<1>1. Proper(m)' /\ RowsTaken(m)' /\ CallersTaken(m)' /\ TargetHeld(m)'
  BY SameTables DEF Sound, Proper, RowsTaken, CallersTaken, TargetHeld,
     Confirming, Wiping
<1>2. CallerKept(m)' /\ Spares(m)'
  BY SameTables DEF Sound, CallerKept, Spares, Wiping
<1>3. QED BY <1>1, <1>2 DEF Sound

LEMMA TaskMoves ==
  ASSUME AdminInv, UNCHANGED <<users, subjects, rows, wipes>>, excused => excused',
         excused' \in BOOLEAN, hits' \subseteq Callers, TokensOK',
         NEW s \in Slots, NEW m \in Tasks, Sound(m), work' = [work EXCEPT ![s] = m],
         \A o \in Slots \ {s} : Locked(m) \cap Locked(work[o]) = {},
         m.at \in {"erase", "audit"} => Erasing(s) \/ \A o \in Slots : Erasing(o) => excused'
  PROVE  AdminInv'
<1> USE DEF AdminInv
<1>1. work' \in [Slots -> Tasks] /\ work'[s] = m /\ \A o \in Slots \ {s} : work'[o] = work[o]
  OBVIOUS
<1>2. TablesOK' /\ NoRowWithoutUser' /\ AdminRemains' /\ Tasks' = Tasks
  <2>1. TablesOK'
    BY DEF TablesOK, Account
  <2>2. QED BY <2>1, SameTables DEF AdminRemains
<1>3. \A o \in Slots : Sound(work[o])'
  <2> SUFFICES ASSUME NEW o \in Slots PROVE Sound(work[o])'
    OBVIOUS
  <2>1. PICK t \in Tasks : t = work'[o] /\ Sound(t)
    BY <1>1
  <2>2. Sound(t)'
    BY <2>1, StillSound
  <2>3. QED
    BY <2>1, <2>2 DEF Sound, Proper, RowsTaken, CallerKept, CallersTaken, Spares, TargetHeld
<1>4. Apart'
  BY <1>1 DEF Apart, Erasing, Locked
<1>5. QED BY <1>1, <1>2, <1>3, <1>4

\* A step that moves no request and touches no table.
LEMMA NobodyMoves ==
  ASSUME AdminInv, UNCHANGED <<users, subjects, rows, wipes, excused, work>>,
         hits' \subseteq Callers, TokensOK'
  PROVE  AdminInv'
<1> USE DEF AdminInv
<1>1. TablesOK' /\ NoRowWithoutUser' /\ AdminRemains' /\ Tasks' = Tasks
  <2>1. TablesOK'
    BY DEF TablesOK, Account
  <2>2. QED BY <2>1, SameTables DEF AdminRemains
<1>2. \A o \in Slots : Sound(work[o])'
  <2> SUFFICES ASSUME NEW o \in Slots PROVE Sound(work[o])'
    OBVIOUS
  <2>1. PICK t \in Tasks : t = work'[o] /\ Sound(t)
    OBVIOUS
  <2>2. Sound(t)'
    BY <2>1, StillSound
  <2>3. QED
    BY <2>1, <2>2 DEF Sound, Proper, RowsTaken, CallerKept, CallersTaken, Spares, TargetHeld
<1>3. Apart'
  BY DEF Apart, Erasing, Locked
<1>4. QED BY <1>1, <1>2, <1>3

LEMMA LeaveMoves ==
  ASSUME AdminInv, UNCHANGED <<users, subjects, rows, wipes, excused, minted, burnt, passed>>,
         hits' \subseteq Callers, NEW s \in Slots, Leave(s)
  PROVE  AdminInv'
<1>1. TokensOK'
  BY DEF AdminInv, TokensOK
<1>2. QED BY <1>1, IdleSound, TaskMoves DEF Leave, AdminInv, TablesOK

LEMMA RequestResetKeeps ==
  ASSUME AdminInv, NEW a \in Callers, NEW k \in Tokens, RequestReset(a, k)
  PROVE  AdminInv'
<1>1. TokensOK' /\ hits' \subseteq Callers
  BY DEF AdminInv, TablesOK, TokensOK, RequestReset, HistoryUnchanged
<1>2. QED BY <1>1, NobodyMoves DEF RequestReset, HistoryUnchanged

LEMMA AskConfirmKeeps ==
  ASSUME AdminInv, NEW s \in Slots, NEW a \in Callers, NEW k \in Tokens, AskConfirm(s, a, k)
  PROVE  AdminInv'
<1> USE AdministrationAssumption, AtNames
<1>0. /\ UNCHANGED <<users, subjects, rows, minted, burnt, passed, wipes, excused>>
      /\ hits' \subseteq Callers
  BY DEF AdminInv, TablesOK, AskConfirm, HistoryUnchanged
<1>1. TokensOK'
  BY <1>0 DEF AdminInv, TokensOK
<1>2. CASE UNCHANGED work
  BY <1>0, <1>1, <1>2, NobodyMoves
<1>3. CASE work' = [work EXCEPT ![s] = [Idle EXCEPT !.at = "consume", !.by = a, !.token = k]]
  <2> DEFINE m == [Idle EXCEPT !.at = "consume", !.by = a, !.token = k]
  <2>1. m \in Tasks
    BY DEF Tasks, Idle
  <2>2. /\ m.at = "consume" /\ m.by = a /\ m.token = k /\ Locked(m) = {}
        /\ m.subjects = FALSE /\ m.users = {}
    BY DEF Idle, Locked
  <2> HIDE DEF m
  <2>3. Sound(m)
    BY <2>1, <2>2 DEF Sound, Proper, RowsTaken, CallerKept, CallersTaken, Spares, TargetHeld
  <2>4. work' = [work EXCEPT ![s] = m] /\ excused' \in BOOLEAN
    BY <1>0, <1>3 DEF m, AdminInv, TablesOK
  <2>5. QED BY <1>0, <1>1, <2>1, <2>2, <2>3, <2>4, TaskMoves
<1>4. QED BY <1>2, <1>3 DEF AskConfirm

LEMMA ConsumeKeeps ==
  ASSUME AdminInv, NEW s \in Slots, Consume(s)
  PROVE  AdminInv'
<1> USE AdministrationAssumption, AtNames
<1>0. /\ UNCHANGED <<users, subjects, rows, minted, hits, wipes, excused>>
      /\ hits' \subseteq Callers /\ work[s].at = "consume" /\ excused' \in BOOLEAN
      /\ work[s] \in Tasks /\ Sound(work[s])
  BY DEF AdminInv, TablesOK, Consume
<1>1. CASE Leave(s) /\ UNCHANGED <<burnt, passed>>
  BY <1>0, <1>1, LeaveMoves
<1>2. CASE /\ TokenHolds(s)
           /\ burnt' = burnt \cup {work[s].token}
           /\ passed' = [passed EXCEPT ![work[s].token] = @ + 1]
           /\ Goto(s, "verify")
  <2> DEFINE m == [work[s] EXCEPT !.at = "verify"]
  <2>1. m \in Tasks
    BY <1>0 DEF Tasks
  <2>2. /\ m.at = "verify" /\ m.by = work[s].by /\ m.token = work[s].token
        /\ m.subjects = work[s].subjects /\ m.users = work[s].users
        /\ Locked(m) = Locked(work[s])
    BY <1>0 DEF Tasks, Locked
  <2>3. work' = [work EXCEPT ![s] = m]
    BY <1>2 DEF Goto
  <2> HIDE DEF m
  <2>4. Sound(m)
    BY <1>0, <2>1, <2>2
    DEF Sound, Proper, RowsTaken, CallerKept, CallersTaken, Spares, TargetHeld
  <2>5. TokensOK'
    <3>1. work[s].token \in Tokens /\ work[s].token \notin burnt
      BY <1>0, <1>2 DEF Sound, Proper, TokenHolds
    <3>2. passed[work[s].token] = 0
      BY <3>1 DEF AdminInv, TokensOK
    <3>3. QED BY <1>0, <1>2, <3>1, <3>2 DEF AdminInv, TokensOK
  <2>6. \A o \in Slots \ {s} : Locked(m) \cap Locked(work[o]) = {}
    BY <2>2 DEF AdminInv, Apart
  <2>7. QED BY <1>0, <2>1, <2>2, <2>3, <2>4, <2>5, <2>6, TaskMoves
<1>3. QED BY <1>1, <1>2 DEF Consume

LEMMA VerifyKeeps ==
  ASSUME AdminInv, NEW s \in Slots, NEW right \in BOOLEAN, Verify(s, right)
  PROVE  AdminInv'
<1> USE AdministrationAssumption, AtNames
<1>0. /\ UNCHANGED <<users, subjects, rows, minted, burnt, hits, passed, wipes, excused>>
      /\ hits' \subseteq Callers /\ work[s].at = "verify" /\ excused' \in BOOLEAN
      /\ Free(s, {work[s].by}) /\ work[s] \in Tasks /\ Sound(work[s])
  BY DEF AdminInv, TablesOK, Verify, TablesUnchanged, HistoryUnchanged
<1>1. TokensOK'
  BY <1>0 DEF AdminInv, TokensOK
<1>2. CASE Leave(s)
  BY <1>0, <1>2, LeaveMoves
<1>3. CASE /\ Usable(work[s].by)
           /\ work' = [work EXCEPT ![s].at = "rows", ![s].held = {work[s].by}]
  <2> DEFINE m == [work[s] EXCEPT !.at = "rows", !.held = {work[s].by}]
  <2>0. work[s].by \in Callers /\ work[s].by \in Ids
    BY <1>0 DEF Sound, Proper
  <2>1. m \in Tasks
    BY <1>0, <2>0 DEF Tasks
  <2>2. /\ m.at = "rows" /\ m.by = work[s].by /\ m.token = work[s].token
        /\ m.subjects = work[s].subjects /\ m.held = {work[s].by} /\ m.users = work[s].users
    BY <1>0 DEF Tasks
  <2>3. work' = [work EXCEPT ![s] = m]
    BY <1>0, <1>3 DEF AdminInv
  <2> HIDE DEF m
  <2>4. Sound(m)
    BY <1>0, <1>3, <2>0, <2>1, <2>2
    DEF Sound, Proper, RowsTaken, CallerKept, CallersTaken, Spares, TargetHeld
  <2>5. \A o \in Slots \ {s} : Locked(m) \cap Locked(work[o]) = {}
    BY <1>0, <2>2 DEF AdminInv, Apart, Free, Locked
  <2>6. QED BY <1>0, <1>1, <2>1, <2>2, <2>3, <2>4, <2>5, TaskMoves
<1>4. QED BY <1>2, <1>3 DEF Verify

LEMMA AskImportKeeps ==
  ASSUME AdminInv, NEW s \in Slots, NEW a \in Callers, AskImport(s, a)
  PROVE  AdminInv'
<1> DEFINE m == [Idle EXCEPT !.at = "rows", !.by = a]
<1> USE AdministrationAssumption, AtNames
<1>0. /\ UNCHANGED <<users, subjects, rows, minted, burnt, hits, passed, wipes, excused>>
      /\ hits' \subseteq Callers /\ excused' \in BOOLEAN /\ work' = [work EXCEPT ![s] = m]
  BY DEF AdminInv, TablesOK, AskImport, TablesUnchanged, HistoryUnchanged
<1>1. TokensOK'
  BY <1>0 DEF AdminInv, TokensOK
<1>2. m \in Tasks
  BY DEF Tasks, Idle
<1>3. /\ m.at = "rows" /\ m.by = a /\ m.token = NoToken /\ Locked(m) = {}
      /\ m.subjects = FALSE /\ m.users = {}
  BY DEF Idle, Locked
<1> HIDE DEF m
<1>4. Sound(m)
  BY <1>2, <1>3 DEF Sound, Proper, RowsTaken, CallerKept, CallersTaken, Spares, TargetHeld
<1>5. QED BY <1>0, <1>1, <1>2, <1>3, <1>4, TaskMoves

LEMMA DeleteRowsKeeps ==
  ASSUME AdminInv, NEW s \in Slots, DeleteRows(s)
  PROVE  AdminInv'
<1> DEFINE gone == {r \in Rows : rows[r] # NoRow}
           m == [work[s] EXCEPT !.at = "subjects", !.hits = hits, !.rows = gone]
<1> USE AdministrationAssumption, AtNames
<1>0. /\ UNCHANGED <<users, subjects, rows, minted, burnt, hits, passed, wipes, excused>>
      /\ hits' \subseteq Callers /\ excused' \in BOOLEAN /\ work[s].at = "rows"
      /\ work[s] \in Tasks /\ Sound(work[s]) /\ hits \subseteq Callers
  BY DEF AdminInv, TablesOK, DeleteRows, TablesUnchanged, HistoryUnchanged
<1>1. TokensOK'
  BY <1>0 DEF AdminInv, TokensOK
<1>2. m \in Tasks
  BY <1>0 DEF Tasks
<1>3. /\ m.at = "subjects" /\ m.by = work[s].by /\ m.token = work[s].token
      /\ m.subjects = work[s].subjects /\ m.users = work[s].users /\ m.held = work[s].held
  BY <1>0 DEF Tasks
<1>4. work' = [work EXCEPT ![s] = m]
  BY <1>0 DEF AdminInv, DeleteRows
<1> HIDE DEF m
<1>5. Sound(m)
  BY <1>0, <1>2, <1>3
  DEF Sound, Proper, RowsTaken, CallerKept, CallersTaken, Spares, TargetHeld
<1>6. \A o \in Slots \ {s} : Locked(m) \cap Locked(work[o]) = {}
  BY <1>3 DEF AdminInv, Apart, Locked
<1>7. QED BY <1>0, <1>1, <1>2, <1>3, <1>4, <1>5, <1>6, TaskMoves

LEMMA DeleteSubjectsKeeps ==
  ASSUME AdminInv, NEW s \in Slots, DeleteSubjects(s)
  PROVE  AdminInv'
<1> DEFINE m == [work[s] EXCEPT !.at = "users", !.subjects = TRUE]
<1> USE AdministrationAssumption, AtNames
<1>0. /\ UNCHANGED <<users, subjects, rows, minted, burnt, hits, passed, wipes, excused>>
      /\ hits' \subseteq Callers /\ excused' \in BOOLEAN /\ work[s].at = "subjects"
      /\ work[s] \in Tasks /\ Sound(work[s])
  BY DEF AdminInv, TablesOK, DeleteSubjects, TablesUnchanged, HistoryUnchanged
<1>1. CASE Leave(s)
  BY <1>0, <1>1, LeaveMoves
<1>2. CASE /\ \A r \in Rows : rows[r] # NoRow => r \in work[s].rows
           /\ work' = [work EXCEPT ![s].at = "users", ![s].subjects = TRUE]
  <2>1. TokensOK'
    BY <1>0 DEF AdminInv, TokensOK
  <2>2. m \in Tasks
    BY <1>0 DEF Tasks
  <2>3. /\ m.at = "users" /\ m.by = work[s].by /\ m.token = work[s].token
        /\ m.subjects = TRUE /\ m.users = work[s].users /\ m.held = work[s].held
        /\ m.rows = work[s].rows
    BY <1>0 DEF Tasks
  <2>4. work' = [work EXCEPT ![s] = m]
    BY <1>0, <1>2 DEF AdminInv
  <2> HIDE DEF m
  <2>5. Sound(m)
    BY <1>0, <1>2, <2>2, <2>3
    DEF Sound, Proper, RowsTaken, CallerKept, CallersTaken, Spares, TargetHeld
  <2>6. \A o \in Slots \ {s} : Locked(m) \cap Locked(work[o]) = {}
    BY <2>3 DEF AdminInv, Apart, Locked
  <2>7. QED BY <1>0, <2>1, <2>2, <2>3, <2>4, <2>5, <2>6, TaskMoves
<1>3. QED BY <1>1, <1>2 DEF DeleteSubjects

LEMMA DeleteUsersKeeps ==
  ASSUME AdminInv, NEW s \in Slots, DeleteUsers(s)
  PROVE  AdminInv'
<1> DEFINE m == [work[s] EXCEPT !.at = "fill", !.users = Others(s)]
<1> USE AdministrationAssumption, AtNames
<1>0. /\ UNCHANGED <<users, subjects, rows, minted, burnt, hits, passed, wipes, excused>>
      /\ hits' \subseteq Callers /\ excused' \in BOOLEAN /\ work[s].at = "users"
      /\ work[s] \in Tasks /\ Sound(work[s]) /\ Free(s, Others(s))
  BY DEF AdminInv, TablesOK, DeleteUsers, TablesUnchanged, HistoryUnchanged
<1>1. TokensOK'
  BY <1>0 DEF AdminInv, TokensOK
<1>2. m \in Tasks /\ Others(s) \in SUBSET Ids
  <2>1. Others(s) \in SUBSET Ids
    BY DEF Others
  <2>2. QED BY <1>0, <2>1 DEF Tasks
<1>3. /\ m.at = "fill" /\ m.by = work[s].by /\ m.token = work[s].token
      /\ m.subjects = work[s].subjects /\ m.users = Others(s) /\ m.held = work[s].held
      /\ m.rows = work[s].rows
  BY <1>0 DEF Tasks
<1>4. work' = [work EXCEPT ![s] = m]
  BY <1>0 DEF AdminInv, DeleteUsers
<1> HIDE DEF m
<1>5. Sound(m)
  <2>1. Proper(m) /\ RowsTaken(m) /\ Spares(m) /\ TargetHeld(m)
    BY <1>0, <1>2, <1>3 DEF Sound, Proper, RowsTaken, Spares, TargetHeld
  <2>2. CallerKept(m) /\ CallersTaken(m)
    BY <1>0, <1>2, <1>3 DEF Sound, Proper, CallerKept, CallersTaken, Others
  <2>3. QED BY <2>1, <2>2 DEF Sound
<1>6. \A o \in Slots \ {s} : Locked(m) \cap Locked(work[o]) = {}
  BY <1>0, <1>3 DEF AdminInv, Apart, Locked, Free
<1>7. QED BY <1>0, <1>1, <1>2, <1>3, <1>4, <1>5, <1>6, TaskMoves

\* Some administrator other than an erasure's target can log in, for the last
\* one who can is refused.
LEMMA OneToSpare ==
  ASSUME AdminInv, ~excused, NEW t \in Ids, users[t].role = "admin" => AdminsLeft
  PROVE  \E u \in Ids \ {t} : Usable(u)
<1>1. CASE users[t].role # "admin"
  BY <1>1 DEF AdminInv, AdminRemains, Usable
<1>2. CASE AdminsLeft
  <2> DEFINE able == {u \in Ids : Usable(u)}
  <2> SUFFICES ASSUME able \subseteq {t} PROVE FALSE
    OBVIOUS
  <2>1. IsFiniteSet({t}) /\ Cardinality({t}) = 1 /\ able \in SUBSET {t}
    BY FS_Singleton
  <2>2. Cardinality(able) <= 1 /\ Cardinality(able) \in Nat
    BY <2>1, FS_Subset, FS_CardinalityType
  <2>3. QED BY <1>2, <2>2 DEF AdminsLeft
<1>3. QED BY <1>1, <1>2

LEMMA CheckErasureKeeps ==
  ASSUME AdminInv, NEW s \in Slots, NEW a \in Callers, NEW t \in Ids, CheckErasure(s, a, t)
  PROVE  AdminInv'
<1> DEFINE m == [Idle EXCEPT !.at = "erase", !.by = a, !.target = t]
<1> USE AdministrationAssumption, AtNames
<1>0. /\ UNCHANGED <<users, subjects, rows, minted, burnt, hits, passed, wipes>>
      /\ hits' \subseteq Callers /\ work' = [work EXCEPT ![s] = m] /\ a # t
      /\ users[t].role = "admin" => AdminsLeft
      /\ excused' = (excused \/ \E o \in Slots : Erasing(o))
  BY DEF AdminInv, TablesOK, CheckErasure, TablesUnchanged
<1>1. TokensOK'
  BY <1>0 DEF AdminInv, TokensOK
<1>2. m \in Tasks
  BY DEF Tasks, Idle
<1>3. /\ m.at = "erase" /\ m.by = a /\ m.target = t /\ m.token = NoToken /\ Locked(m) = {}
      /\ m.subjects = FALSE /\ m.users = {}
  BY DEF Idle, Locked
<1> HIDE DEF m
<1>4. Sound(m)
  <2>1. Spares(m)
    BY <1>0, <1>3, OneToSpare DEF Spares
  <2>2. QED
    BY <1>0, <1>2, <1>3, <2>1
    DEF Sound, Proper, RowsTaken, CallerKept, CallersTaken, TargetHeld
<1>5. excused' \in BOOLEAN /\ (excused => excused') /\ \A o \in Slots : Erasing(o) => excused'
  BY <1>0
<1>6. QED BY <1>0, <1>1, <1>2, <1>3, <1>4, <1>5, TaskMoves

LEMMA EraseKeeps ==
  ASSUME AdminInv, NEW s \in Slots, Erase(s)
  PROVE  AdminInv'
<1> DEFINE m == [work[s] EXCEPT !.at = "audit", !.held = {work[s].target}]
<1> USE AdministrationAssumption, AtNames
<1>0. /\ UNCHANGED <<users, subjects, rows, minted, burnt, hits, passed, wipes, excused>>
      /\ hits' \subseteq Callers /\ excused' \in BOOLEAN /\ work[s].at = "erase"
      /\ work[s] \in Tasks /\ Sound(work[s]) /\ Free(s, {work[s].target})
  BY DEF AdminInv, TablesOK, Erase, TablesUnchanged, HistoryUnchanged
<1>1. CASE Leave(s)
  BY <1>0, <1>1, LeaveMoves
<1>2. CASE /\ users[work[s].target] # NoUser
           /\ work' = [work EXCEPT ![s].at = "audit", ![s].held = {work[s].target}]
  <2>1. TokensOK'
    BY <1>0 DEF AdminInv, TokensOK
  <2>2. work[s].target \in Ids
    BY <1>0 DEF Sound, Proper
  <2>3. m \in Tasks
    BY <1>0, <2>2 DEF Tasks
  <2>4. /\ m.at = "audit" /\ m.by = work[s].by /\ m.token = work[s].token
        /\ m.subjects = work[s].subjects /\ m.users = work[s].users
        /\ m.held = {work[s].target} /\ m.target = work[s].target
    BY <1>0 DEF Tasks
  <2>5. work' = [work EXCEPT ![s] = m]
    BY <1>0, <1>2 DEF AdminInv
  <2> HIDE DEF m
  <2>6. Sound(m)
    BY <1>0, <1>2, <2>3, <2>4
    DEF Sound, Proper, RowsTaken, CallerKept, CallersTaken, Spares, TargetHeld
  <2>7. \A o \in Slots \ {s} : Locked(m) \cap Locked(work[o]) = {}
    BY <1>0, <2>4 DEF AdminInv, Apart, Locked, Free, Sound, Proper
  <2>8. Erasing(s)
    BY <1>0 DEF Erasing
  <2>9. QED BY <1>0, <2>1, <2>3, <2>4, <2>5, <2>6, <2>7, <2>8, TaskMoves
<1>3. QED BY <1>1, <1>2 DEF Erase

LEMMA FailKeeps ==
  ASSUME AdminInv, NEW s \in Slots, Fail(s)
  PROVE  AdminInv'
<1>1. /\ UNCHANGED <<users, subjects, rows, minted, burnt, hits, passed, wipes, excused>>
      /\ hits' \subseteq Callers /\ Leave(s)
  BY DEF AdminInv, TablesOK, Fail, TablesUnchanged, HistoryUnchanged
<1>2. QED BY <1>1, LeaveMoves

-----------------------------------------------------------------------------
(* Steps that change the tables *)

\* Accounts and matches are added beside the requests under way.
LEMMA TablesGrow ==
  ASSUME AdminInv, UNCHANGED <<work, excused, minted, burnt, passed>>, TablesOK',
         NoRowWithoutUser',
         \A u \in Ids : Usable(u) => Usable(u)',
         \A u \in Ids : users[u] # NoUser => users'[u] # NoUser,
         \A u \in Callers : users'[u] # NoUser => users[u] # NoUser,
         \A r \in Rows : rows'[r] # NoRow => rows[r] # NoRow \/ ~SubjectsGone
  PROVE  AdminInv'
<1> USE AdministrationAssumption DEF AdminInv
<1>1. TokensOK' /\ AdminRemains' /\ Apart'
  BY DEF TokensOK, AdminRemains, Apart, Erasing, Locked
<1>2. Tasks' = Tasks
  BY DEF Tasks, Transacting, Confirming, Wiping
<1>3. ASSUME NEW o \in Slots
      PROVE  Sound(work[o])'
  <2>1. PICK m \in Tasks : m = work[o] /\ m = work'[o] /\ Sound(m)
    BY <1>3
  <2>2. m.at # "idle" => m.by \in Callers /\ m.by \in Ids
    BY <2>1 DEF Sound, Proper
  <2>3. Proper(m)' /\ TargetHeld(m)'
    BY <1>2, <2>1 DEF Sound, Proper, Confirming, Wiping, TargetHeld, Tasks
  <2>4. RowsTaken(m)'
    BY <1>3, <2>1 DEF Sound, Proper, RowsTaken, SubjectsGone
  <2>5. CallerKept(m)' /\ CallersTaken(m)'
    BY <2>1, <2>2 DEF Sound, Wiping, CallerKept, CallersTaken
  <2>6. Spares(m)'
    BY <2>1, <2>2 DEF Sound, Spares
  <2>7. QED
    BY <2>1, <2>3, <2>4, <2>5, <2>6
    DEF Sound, Proper, RowsTaken, CallerKept, CallersTaken, Spares, TargetHeld
<1>4. QED BY <1>1, <1>2, <1>3

LEMMA RegisterKeeps ==
  ASSUME AdminInv, NEW u \in Ids, NEW boss \in BOOLEAN, Register(u, boss)
  PROVE  AdminInv'
<1> DEFINE a == [boss |-> boss, role |-> "other", alive |-> TRUE]
<1> USE AdministrationAssumption
<1>0. /\ UNCHANGED <<subjects, rows, minted, burnt, hits, work, passed, wipes, excused>>
      /\ users[u] = NoUser /\ u \notin Callers /\ users' = [users EXCEPT ![u] = a]
  BY DEF Register, HistoryUnchanged
<1>1. a \in Account /\ a # NoUser /\ Account' = Account
  <2>1. a \in Account
    BY DEF Account
  <2>2. QED BY <2>1 DEF Account
<1> HIDE DEF a
<1>2. TablesOK' /\ NoRowWithoutUser' /\ users \in [Ids -> Account \cup {NoUser}]
  BY <1>0, <1>1 DEF AdminInv, TablesOK, NoRowWithoutUser
<1>3. \A v \in Ids : Usable(v) => Usable(v)'
  BY <1>0, <1>2 DEF Usable
<1>4. QED BY <1>0, <1>1, <1>2, <1>3, TablesGrow

LEMMA MakeMatchKeeps ==
  ASSUME AdminInv, NEW r \in Rows, NEW u \in Ids, MakeMatch(r, u)
  PROVE  AdminInv'
<1> USE AdministrationAssumption
<1>0. /\ UNCHANGED <<users, subjects, minted, burnt, hits, work, passed, wipes, excused>>
      /\ users[u] # NoUser /\ ~SubjectsGone /\ rows' = [rows EXCEPT ![r] = u]
  BY DEF MakeMatch, HistoryUnchanged
<1>1. TablesOK' /\ NoRowWithoutUser'
  BY <1>0 DEF AdminInv, TablesOK, NoRowWithoutUser, Account
<1>2. \A v \in Ids : Usable(v) => Usable(v)'
  BY <1>0 DEF Usable
<1>3. QED BY <1>0, <1>1, <1>2, TablesGrow

LEMMA SeedKeeps ==
  ASSUME AdminInv, NEW u \in Ids, NEW r \in Rows, Seed(u, r)
  PROVE  AdminInv'
<1> DEFINE a == [boss |-> FALSE, role |-> "other", alive |-> TRUE]
<1> USE AdministrationAssumption
<1>0. /\ UNCHANGED <<subjects, minted, burnt, hits, work, passed, wipes, excused>>
      /\ users[u] = NoUser /\ u \notin Callers /\ users' = [users EXCEPT ![u] = a]
      /\ ~SubjectsGone /\ rows' = [rows EXCEPT ![r] = u]
  BY DEF Seed, HistoryUnchanged
<1>1. a \in Account /\ a # NoUser /\ Account' = Account
  <2>1. a \in Account
    BY DEF Account
  <2>2. QED BY <2>1 DEF Account
<1> HIDE DEF a
<1>2. TablesOK' /\ users \in [Ids -> Account \cup {NoUser}]
  BY <1>0, <1>1 DEF AdminInv, TablesOK
<1>3. NoRowWithoutUser'
  BY <1>0, <1>1 DEF AdminInv, TablesOK, NoRowWithoutUser
<1>4. \A v \in Ids : Usable(v) => Usable(v)'
  BY <1>0, <1>2 DEF Usable
<1>5. QED BY <1>0, <1>1, <1>2, <1>3, <1>4, TablesGrow

LEMMA CommitWipeKeeps ==
  ASSUME AdminInv, NEW s \in Slots, NEW n \in 0 .. Needed, CommitWipe(s, n)
  PROVE  /\ AdminInv'
         /\ Resetting(s) => wipes' = [wipes EXCEPT ![work[s].by] = @ + 1]
         /\ \A c \in Callers : Resetting(s) /\ c = work[s].by => Usable(c)'
         /\ ~Resetting(s) => wipes' = wipes
<1> USE AdministrationAssumption, AtNames
<1> PICK c \in Callers : c = work[s].by
  BY DEF CommitWipe, AdminInv, Sound, Proper
<1>0. /\ UNCHANGED <<minted, burnt, passed>> /\ work[s].at = "fill"
      /\ users' = [u \in Ids |-> IF u \in work[s].users THEN NoUser ELSE users[u]]
      /\ rows' = [r \in Rows |-> IF r \in work[s].rows THEN NoRow ELSE rows[r]]
      /\ subjects' = n /\ hits' \subseteq hits /\ work' = [work EXCEPT ![s] = Idle]
      /\ work \in [Slots -> Tasks] /\ Sound(work[s]) /\ c \in Ids
  BY DEF CommitWipe, Leave, AdminInv
<1>1. /\ Resetting(s) => excused' = excused /\ wipes' = [wipes EXCEPT ![c] = @ + 1]
      /\ ~Resetting(s) => excused' = TRUE /\ wipes' = wipes
      /\ excused' \in BOOLEAN
  BY DEF CommitWipe, AdminInv, TablesOK
<1>2. Resetting(s) => Usable(c)'
  BY <1>0 DEF Resetting, Sound, CallerKept, Usable
<1>3. \A r \in Rows : rows'[r] = NoRow
  BY <1>0 DEF Sound, RowsTaken
<1>4. TablesOK' /\ TokensOK' /\ NoRowWithoutUser' /\ AdminRemains'
  <2>1. users' \in [Ids -> Account \cup {NoUser}] /\ rows' \in [Rows -> Ids \cup {NoRow}]
    BY <1>0 DEF AdminInv, TablesOK
  <2>2. wipes' \in [Callers -> Nat] /\ hits' \subseteq Callers
    BY <1>0, <1>1 DEF AdminInv, TablesOK
  <2>3. TablesOK'
    BY <1>0, <1>1, <2>1, <2>2 DEF TablesOK, Account
  <2>4. TokensOK'
    BY <1>0 DEF AdminInv, TokensOK
  <2>5. QED
    BY <1>0, <1>1, <1>2, <1>3, <2>3, <2>4 DEF NoRowWithoutUser, AdminRemains
<1>5. /\ work'[s] = Idle /\ \A o \in Slots \ {s} : work'[o] = work[o]
      /\ work' \in [Slots -> Tasks] /\ Tasks' = Tasks
  BY <1>0, IdleSound DEF Tasks, Transacting, Confirming, Wiping
<1>6. ASSUME NEW o \in Slots
      PROVE  Sound(work[o])'
  <2>1. CASE o = s
    <3>1. Idle = work'[o]
      BY <1>5, <2>1
    <3>2. QED
      BY <3>1, IdleSound
      DEF Sound, Proper, RowsTaken, CallerKept, CallersTaken, Spares, TargetHeld
  <2>2. CASE o # s
    <3>1. PICK m \in Tasks : m = work[o] /\ m = work'[o] /\ Sound(m)
      BY <1>5, <1>6, <2>2 DEF AdminInv
    <3>2. m.at # "idle" => m.by \in Callers /\ m.by \in Ids
      BY <3>1 DEF Sound, Proper
    <3>3. Locked(m) \cap work[s].users = {}
      BY <1>6, <2>2, <3>1 DEF AdminInv, Apart, Locked
    <3>4. Proper(m)' /\ RowsTaken(m)'
      BY <1>3, <1>5, <3>1 DEF Sound, Proper, Confirming, Wiping, RowsTaken
    <3>5. CallerKept(m)' /\ CallersTaken(m)'
      BY <1>0, <3>1, <3>2, <3>3 DEF Sound, CallerKept, CallersTaken, Locked, Usable, Wiping
    <3>6. TargetHeld(m)'
      <4> SUFFICES ASSUME m.at = "audit" PROVE m.target \in m.held /\ users'[m.target] # NoUser
        BY DEF TargetHeld
      <4>1. m.target \in Ids /\ m.target \in m.held /\ users[m.target] # NoUser
        BY <3>1 DEF Sound, Proper, TargetHeld
      <4>2. QED BY <1>0, <3>3, <4>1 DEF Locked
    <3>7. Spares(m)'
      <4> SUFFICES ASSUME m.at \in {"erase", "audit"}, ~excused'
                   PROVE  users'[m.by] = NoUser \/ \E u \in Ids \ {m.target} : Usable(u)'
        BY DEF Spares
      <4>1. Usable(c)' /\ m.by \in Callers /\ m.by \in Ids /\ m.target # m.by
        BY <1>1, <1>2, <3>1, <3>2 DEF Sound, Proper
      <4>2. CASE c # m.target
        BY <1>0, <4>1, <4>2
      <4>3. CASE c = m.target
        <5>1. users[m.by] # NoUser => m.by \in work[s].users
          BY <1>0, <4>1, <4>3 DEF Sound, CallersTaken
        <5>2. QED BY <1>0, <4>1, <5>1
      <4>4. QED BY <4>2, <4>3
    <3>8. QED
      BY <3>1, <3>4, <3>5, <3>6, <3>7
      DEF Sound, Proper, RowsTaken, CallerKept, CallersTaken, Spares, TargetHeld
  <2>3. QED BY <2>1, <2>2
<1>7. Apart'
  <2> SUFFICES ASSUME NEW o \in Slots, NEW v \in Slots, o # v
               PROVE  /\ Locked(work'[o]) \cap Locked(work'[v]) = {}
                      /\ Erasing(o)' /\ Erasing(v)' => excused'
    BY DEF Apart, Locked, Erasing
  <2>1. Locked(work'[o]) \cap Locked(work'[v]) = {}
    BY <1>5, IdleSound DEF AdminInv, Apart
  <2>2. ASSUME Erasing(o)', Erasing(v)'
        PROVE  excused'
    BY <1>1, <1>5, <2>2, IdleSound DEF AdminInv, Apart, Erasing
  <2>3. QED BY <2>1, <2>2
<1>8. QED BY <1>1, <1>2, <1>4, <1>5, <1>6, <1>7 DEF AdminInv

LEMMA AuditErasureKeeps ==
  ASSUME AdminInv, NEW s \in Slots, AuditErasure(s)
  PROVE  AdminInv'
<1> DEFINE t == work[s].target
<1> USE AdministrationAssumption, AtNames
<1>0. /\ UNCHANGED <<subjects, rows, minted, burnt, hits, passed, wipes, excused>>
      /\ work[s].at = "audit" /\ work' = [work EXCEPT ![s] = Idle]
      /\ work \in [Slots -> Tasks] /\ Sound(work[s])
      /\ users \in [Ids -> Account \cup {NoUser}] /\ excused \in BOOLEAN
  BY DEF AuditErasure, HistoryUnchanged, Leave, AdminInv, TablesOK
<1>1. t \in Ids /\ t \in work[s].held /\ users[t] \in Account /\ users[t] # NoUser
  BY <1>0 DEF Sound, Proper, TargetHeld
<1>2. CASE users' = users
  <2>1. Leave(s)
    BY DEF AuditErasure
  <2>2. hits' \subseteq Callers
    BY <1>0 DEF AdminInv, TablesOK
  <2>3. QED BY <1>0, <1>2, <2>1, <2>2, LeaveMoves
<1>3. CASE /\ users[work[s].by] # NoUser
           /\ users' = [users EXCEPT ![t].boss = FALSE, ![t].alive = FALSE]
  <2> DEFINE a == [users[t] EXCEPT !.boss = FALSE, !.alive = FALSE]
  <2>1. a \in Account /\ a # NoUser
    BY <1>1 DEF Account
  <2>2. users' = [users EXCEPT ![t] = a]
    BY <1>0, <1>1, <1>3
  <2> HIDE DEF a
  <2>3. /\ \A u \in Ids : u # t => users'[u] = users[u] /\ (Usable(u)' <=> Usable(u))
        /\ \A u \in Ids : users'[u] = NoUser <=> users[u] = NoUser
    BY <1>0, <1>1, <2>1, <2>2 DEF Usable
  <2>4. TablesOK' /\ TokensOK'
    <3>1. users' \in [Ids -> Account \cup {NoUser}]
      BY <1>0, <2>1, <2>2
    <3>2. QED BY <1>0, <3>1 DEF AdminInv, TablesOK, TokensOK, Account
  <2>5. NoRowWithoutUser'
    BY <1>0, <2>3 DEF AdminInv, TablesOK, NoRowWithoutUser
  <2>6. AdminRemains'
    BY <1>0, <1>3, <2>3 DEF AdminRemains, Sound, Spares
  <2>7. /\ work'[s] = Idle /\ \A o \in Slots \ {s} : work'[o] = work[o]
        /\ work' \in [Slots -> Tasks] /\ Tasks' = Tasks
    BY <1>0, IdleSound DEF Tasks, Transacting, Confirming, Wiping
  <2>8. ASSUME NEW o \in Slots
        PROVE  Sound(work[o])'
    <3>1. CASE o = s
      <4>1. Idle = work'[o]
        BY <2>7, <3>1
      <4>2. QED
        BY <4>1, IdleSound
        DEF Sound, Proper, RowsTaken, CallerKept, CallersTaken, Spares, TargetHeld
    <3>2. CASE o # s
      <4>1. PICK m \in Tasks : m = work[o] /\ m = work'[o] /\ Sound(m)
        BY <2>7, <2>8, <3>2 DEF AdminInv
      <4>2. m.at # "idle" => m.by \in Callers /\ m.by \in Ids
        BY <4>1 DEF Sound, Proper
      <4>3. t \notin m.held
        BY <1>1, <2>8, <3>2, <4>1 DEF AdminInv, Apart, Locked
      <4>4. Proper(m)' /\ RowsTaken(m)'
        BY <1>0, <2>7, <4>1 DEF Sound, Proper, Confirming, Wiping, RowsTaken
      <4>5. CallerKept(m)' /\ CallersTaken(m)'
        BY <2>3, <4>1, <4>2, <4>3 DEF Sound, CallerKept, CallersTaken, Wiping
      <4>6. TargetHeld(m)'
        BY <2>3, <4>1 DEF Sound, Proper, TargetHeld
      <4>7. Spares(m)'
        BY <1>0, <2>8, <3>2, <4>1 DEF AdminInv, Apart, Erasing, Spares
      <4>8. QED
        BY <4>1, <4>4, <4>5, <4>6, <4>7
        DEF Sound, Proper, RowsTaken, CallerKept, CallersTaken, Spares, TargetHeld
    <3>3. QED BY <3>1, <3>2
  <2>9. Apart'
    BY <1>0, <2>7, IdleSound DEF AdminInv, Apart, Erasing
  <2>10. QED BY <2>4, <2>5, <2>6, <2>7, <2>8, <2>9 DEF AdminInv
<1>4. QED BY <1>2, <1>3 DEF AuditErasure

\* What requests do, however many are under way.
LEMMA RequestsKeep ==
  ASSUME AdminInv, Arrivals \/ Steps
  PROVE  AdminInv'
<1>1. ASSUME NEW u \in Ids, NEW boss \in BOOLEAN, Register(u, boss)
      PROVE  AdminInv'
  BY <1>1, RegisterKeeps
<1>2. ASSUME NEW u \in Ids, NEW r \in Rows, MakeMatch(r, u) \/ Seed(u, r)
      PROVE  AdminInv'
  BY <1>2, MakeMatchKeeps, SeedKeeps
<1>3. ASSUME NEW a \in Callers, NEW k \in Tokens, RequestReset(a, k)
      PROVE  AdminInv'
  BY <1>3, RequestResetKeeps
<1>4. ASSUME NEW s \in Slots, NEW a \in Callers,
             \/ \E k \in Tokens : AskConfirm(s, a, k)
             \/ AskImport(s, a)
             \/ \E t \in Ids : CheckErasure(s, a, t)
      PROVE  AdminInv'
  BY <1>4, AskConfirmKeeps, AskImportKeeps, CheckErasureKeeps
<1>5. ASSUME NEW s \in Slots,
             \/ Consume(s) \/ DeleteRows(s) \/ DeleteSubjects(s) \/ DeleteUsers(s)
             \/ Erase(s) \/ AuditErasure(s) \/ Fail(s)
      PROVE  AdminInv'
  BY <1>5, ConsumeKeeps, DeleteRowsKeeps, DeleteSubjectsKeeps, DeleteUsersKeeps, EraseKeeps,
     AuditErasureKeeps, FailKeeps
<1>6. ASSUME NEW s \in Slots,
             \/ \E right \in BOOLEAN : Verify(s, right)
             \/ \E n \in 0 .. Needed : CommitWipe(s, n)
      PROVE  AdminInv'
  BY <1>6, VerifyKeeps, CommitWipeKeeps
<1>7. QED BY <1>1, <1>2, <1>3, <1>4, <1>5, <1>6 DEF Arrivals, Steps

\* Only a commit of a wipe counts as one, and it leaves its caller able to
\* log in.
LEMMA WipesSpare ==
  ASSUME AdminInv, Arrivals \/ Steps, NEW a \in Callers, wipes'[a] # wipes[a]
  PROVE  Usable(a)'
<1>1. CASE \E s \in Slots, n \in 0 .. Needed : CommitWipe(s, n)
  <2>1. PICK s \in Slots, n \in 0 .. Needed : CommitWipe(s, n)
    BY <1>1
  <2>2. Resetting(s) /\ wipes' = [wipes EXCEPT ![work[s].by] = @ + 1]
    BY <2>1, CommitWipeKeeps
  <2>3. a = work[s].by
    BY <2>2 DEF AdminInv, TablesOK
  <2>4. QED BY <2>1, <2>2, <2>3, CommitWipeKeeps
<1>2. CASE ~\E s \in Slots, n \in 0 .. Needed : CommitWipe(s, n)
  <2>1. wipes' = wipes
    <3>1. Arrivals => wipes' = wipes
      BY DEF Arrivals, Register, MakeMatch, Seed, RequestReset, AskConfirm, AskImport, CheckErasure,
         HistoryUnchanged
    <3>2. Steps => wipes' = wipes
      BY <1>2 DEF Steps, Consume, Verify, DeleteRows, DeleteSubjects, DeleteUsers, Erase,
         AuditErasure, Fail, HistoryUnchanged
    <3>3. QED BY <3>1, <3>2
  <2>2. QED BY <2>1
<1>3. QED BY <1>1, <1>2

-----------------------------------------------------------------------------
(* The starts of workers *)

\* Whoever is starting has the lock.  While nothing has been meddled with,
\* what a start has seen still holds when it uses it.
BootInv ==
  /\ boot \in [Workers -> {"up", "lock", "failed"} \cup Starting]
  /\ meddled \in BOOLEAN
  /\ \A w \in Workers : boot[w] \in Starting => bootLock = w
  /\ ~meddled =>
       /\ subjects \in {0, Needed}
       /\ \A u \in Boss : users[u].role = "admin"
       /\ \A w \in Workers :
            /\ boot[w] # "failed"
            /\ boot[w] = "fill" => subjects = 0
            /\ boot[w] \in {"admin", "create", "verify"} => subjects = Needed
            /\ boot[w] = "create" => Boss = {}
            /\ boot[w] = "verify" => Boss # {}

LEMMA InitBootInv == BootstrapInit => BootInv
<1> SUFFICES ASSUME BootstrapInit PROVE BootInv
  OBVIOUS
<1> USE AdministrationAssumption DEF BootstrapInit, AdminInit, BootInit
<1>1. boot \in [Workers -> {"up", "lock", "failed"} \cup Starting] /\ meddled \in BOOLEAN
  OBVIOUS
<1>2. \A w \in Workers : boot[w] = "up"
  OBVIOUS
<1>3. \A u \in Boss : users[u].role = "admin"
  BY DEF Boss
<1>4. subjects \in {0, Needed}
  OBVIOUS
<1>5. QED BY <1>1, <1>2, <1>3, <1>4 DEF BootInv, Starting

\* A new owner of ADMIN_USERNAME registered, unless a start created it.
LEMMA NewBoss ==
  ASSUME AdminInv, Arrivals \/ Steps, NEW u \in Ids, u \in Boss', u \notin Boss
  PROVE  users'[u].role = "other"
<1> USE DEF Boss
<1>1. CASE \E v \in Ids, boss \in BOOLEAN : Register(v, boss)
  BY <1>1 DEF Register, AdminInv, TablesOK
<1>2. CASE \E v \in Ids, r \in Rows : Seed(v, r)
  BY <1>2 DEF Seed, AdminInv, TablesOK
<1>3. CASE \E s \in Slots, n \in 0 .. Needed : CommitWipe(s, n)
  BY <1>3 DEF CommitWipe
<1>4. ASSUME NEW s \in Slots, AuditErasure(s)
      PROVE  FALSE
  <2>1. work[s].target \in Ids /\ users[work[s].target] \in Account
    BY <1>4 DEF AuditErasure, AdminInv, TablesOK, Sound, Proper, TargetHeld
  <2>2. users' = users \/ users' = [users EXCEPT ![work[s].target].boss = FALSE,
                                                ![work[s].target].alive = FALSE]
    BY <1>4 DEF AuditErasure
  <2>3. u # work[s].target => users'[u] = users[u]
    BY <2>2 DEF AdminInv, TablesOK
  <2>4. CASE u = work[s].target /\ users' # users
    <3>1. [users[u] EXCEPT !.boss = FALSE, !.alive = FALSE].boss = FALSE
      BY <2>1, <2>4 DEF Account
    <3>2. users'[u] = [users[u] EXCEPT !.boss = FALSE, !.alive = FALSE]
      BY <2>1, <2>2, <2>4 DEF AdminInv, TablesOK
    <3>3. QED BY <3>1, <3>2
  <2>5. QED BY <2>3, <2>4
<1>5. CASE users' = users
  BY <1>5
<1>6. QED
  <2>1. Arrivals => \/ \E v \in Ids, boss \in BOOLEAN : Register(v, boss)
                    \/ \E v \in Ids, r \in Rows : Seed(v, r)
                    \/ users' = users
    BY DEF Arrivals, MakeMatch, RequestReset, AskConfirm, AskImport, CheckErasure, TablesUnchanged
  <2>2. Steps => \/ \E s \in Slots, n \in 0 .. Needed : CommitWipe(s, n)
                 \/ \E s \in Slots : AuditErasure(s)
                 \/ users' = users
    BY DEF Steps, Consume, Verify, DeleteRows, DeleteSubjects, DeleteUsers, Erase, Fail,
       TablesUnchanged
  <2>3. QED BY <1>1, <1>2, <1>3, <1>4, <1>5, <2>1, <2>2

LEMMA AdministerKeeps ==
  ASSUME AdminInv, BootInv, Administer
  PROVE  BootInv'
<1>0. /\ Arrivals \/ Steps
      /\ UNCHANGED <<boot, bootLock>> /\ meddled' = (meddled \/ Meddling)
      /\ users' \in [Ids -> Account \cup {NoUser}]
  BY RequestsKeep DEF Administer, Requests, AdminInv, TablesOK, Account
<1>1. meddled' \in BOOLEAN
  BY <1>0 DEF BootInv
<1>2. ASSUME ~meddled'
      PROVE  /\ subjects' \in {0, Needed}
             /\ \A u \in Boss' : users'[u].role = "admin"
             /\ \A w \in Workers :
                  /\ boot[w] # "failed"
                  /\ boot[w] = "fill" => subjects' = 0
                  /\ boot[w] \in {"admin", "create", "verify"} => subjects' = Needed
                  /\ boot[w] = "create" => Boss' = {}
                  /\ boot[w] = "verify" => Boss' # {}
  <2>1. ~meddled /\ ~Meddling
    BY <1>0, <1>2
  <2>2. subjects' \in {0, Needed}
    BY <2>1 DEF Meddling
  <2>3. \A u \in Boss' : u \in Ids /\ users'[u].role = "admin"
    BY <1>0, <2>1 DEF Meddling, Boss, Account
  <2>4. ASSUME NEW w \in Workers, boot[w] \in Starting
        PROVE  subjects' = subjects /\ Boss \subseteq Boss'
    BY <2>1, <2>4 DEF Meddling
  <2>5. Boss' \subseteq Boss
    BY <1>0, <2>3, NewBoss
  <2>6. QED BY <2>1, <2>2, <2>3, <2>4, <2>5 DEF BootInv, Starting
<1>3. QED BY <1>0, <1>1, <1>2 DEF BootInv, Starting

\* One worker goes on: it is the only one that is starting.
LEMMA BootMoves ==
  ASSUME BootInv, NEW w \in Workers, NEW to \in {"up", "lock", "failed"} \cup Starting,
         boot' = [boot EXCEPT ![w] = to], meddled' = meddled,
         UNCHANGED <<users, subjects>> \/ boot[w] \in Starting,
         to \in Starting => bootLock' = w /\ (bootLock = NoWorker \/ bootLock = w),
         to \notin Starting => bootLock' = bootLock \/ (bootLock' = NoWorker /\ bootLock = w),
         ~meddled =>
           /\ to # "failed"
           /\ subjects' \in {0, Needed}
           /\ \A u \in Boss' : users'[u].role = "admin"
           /\ to = "fill" => subjects' = 0
           /\ to \in {"admin", "create", "verify"} => subjects' = Needed
           /\ to = "create" => Boss' = {}
           /\ to = "verify" => Boss' # {}
  PROVE  BootInv'
<1> USE BootstrapAssumption DEF Starting
<1>1. boot' \in [Workers -> {"up", "lock", "failed"} \cup Starting] /\ meddled' \in BOOLEAN
  BY DEF BootInv
<1>2. boot'[w] = to /\ \A o \in Workers \ {w} : boot'[o] = boot[o]
  BY DEF BootInv
<1>3. \A o \in Workers : boot'[o] \in Starting => bootLock' = o
  BY <1>2 DEF BootInv
<1>4. ASSUME ~meddled, NEW o \in Workers \ {w}
      PROVE  /\ boot'[o] # "failed"
             /\ boot'[o] = "fill" => subjects' = 0
             /\ boot'[o] \in {"admin", "create", "verify"} => subjects' = Needed
             /\ boot'[o] = "create" => Boss' = {}
             /\ boot'[o] = "verify" => Boss' # {}
  <2>1. CASE UNCHANGED <<users, subjects>>
    BY <1>2, <1>4, <2>1 DEF BootInv, Boss
  <2>2. CASE boot[w] \in Starting
    BY <1>2, <1>4, <2>2 DEF BootInv
  <2>3. QED BY <2>1, <2>2
<1>5. QED BY <1>1, <1>2, <1>3, <1>4 DEF BootInv

LEMMA BootKeeps ==
  ASSUME AdminInv, BootInv, NEW w \in Workers,
         \/ Start(w) \/ TakeLock(w) \/ CountSubjects(w) \/ FillSubjects(w)
         \/ CountAdmin(w) \/ CreateAdmin(w) \/ VerifyBoot(w)
  PROVE  BootInv'
<1> USE BootstrapAssumption, AdministrationAssumption DEF To
<1>0. /\ UNCHANGED <<users, subjects>> => Boss' = Boss
      /\ boot[w] \in Starting => bootLock = w
      /\ subjects \in 0 .. Needed
  BY DEF Boss, BootInv, AdminInv, TablesOK
<1>1. CASE Start(w)
  BY <1>0, <1>1, BootMoves DEF Start, BootInv, Starting, adminVars
<1>2. CASE TakeLock(w)
  BY <1>0, <1>2, BootMoves DEF TakeLock, BootInv, Starting, adminVars
<1>3. CASE CountSubjects(w)
  <2> DEFINE to == IF subjects > 0 THEN "admin" ELSE "fill"
  <2>1. /\ boot' = [boot EXCEPT ![w] = to] /\ UNCHANGED <<users, subjects, meddled, bootLock>>
        /\ boot[w] = "subjects"
    BY <1>3 DEF CountSubjects, adminVars
  <2>2. /\ to \in {"admin", "fill"}
        /\ to = "admin" => subjects > 0
        /\ to = "fill" => subjects = 0
    BY <1>0
  <2> HIDE DEF to
  <2>3. QED BY <1>0, <2>1, <2>2, BootMoves DEF BootInv, Starting
<1>4. CASE FillSubjects(w)
  <2>1. CASE subjects > 0 /\ Abort(w) /\ UNCHANGED <<subjects, users>>
    BY <1>0, <1>4, <2>1, BootMoves DEF FillSubjects, Abort, BootInv, Starting
  <2>2. CASE /\ subjects' = Needed /\ To(w, "admin") /\ UNCHANGED <<bootLock, users>>
    <3>1. Boss' = Boss
      BY <2>2 DEF Boss
    <3>2. QED BY <1>0, <1>4, <2>2, <3>1, BootMoves DEF FillSubjects, BootInv, Starting
  <2>3. QED BY <1>4, <2>1, <2>2 DEF FillSubjects
<1>5. CASE CountAdmin(w)
  <2> DEFINE to == IF Boss # {} THEN "verify" ELSE "create"
  <2>1. /\ boot' = [boot EXCEPT ![w] = to] /\ UNCHANGED <<users, subjects, meddled, bootLock>>
        /\ boot[w] = "admin"
    BY <1>5 DEF CountAdmin, adminVars
  <2>2. /\ to \in {"verify", "create"}
        /\ to = "verify" => Boss # {}
        /\ to = "create" => Boss = {}
    OBVIOUS
  <2> HIDE DEF to
  <2>3. QED BY <1>0, <2>1, <2>2, BootMoves DEF BootInv, Starting
<1>6. CASE CreateAdmin(w)
  <2>1. CASE Boss # {} /\ Abort(w) /\ UNCHANGED <<users, subjects>>
    BY <1>0, <1>6, <2>1, BootMoves DEF CreateAdmin, Abort, BootInv, Starting
  <2>2. ASSUME Boss = {}, NEW u \in Ids, To(w, "verify"), UNCHANGED <<bootLock, subjects>>,
               users' = [users EXCEPT ![u] = [boss |-> TRUE, role |-> "admin", alive |-> TRUE]]
        PROVE  BootInv'
    <3> DEFINE a == [boss |-> TRUE, role |-> "admin", alive |-> TRUE]
    <3>1. a \in Account /\ a.boss = TRUE /\ a.role = "admin" /\ a # NoUser
      <4>1. a \in Account /\ a.boss = TRUE /\ a.role = "admin"
        BY DEF Account
      <4>2. QED BY <4>1 DEF Account
    <3>2. users' = [users EXCEPT ![u] = a]
      BY <2>2
    <3> HIDE DEF a
    <3>3. Boss' = {u}
      <4>1. users'[u] = a /\ \A v \in Ids \ {u} : users'[v] = users[v]
        BY <3>2 DEF AdminInv, TablesOK
      <4>2. \A v \in Ids : v \notin Boss
        BY <2>2
      <4>3. u \in Boss' /\ \A v \in Ids \ {u} : v \notin Boss'
        BY <3>1, <4>1, <4>2 DEF Boss
      <4>4. QED BY <4>3 DEF Boss
    <3>4. \A v \in Boss' : users'[v].role = "admin"
      BY <3>1, <3>2, <3>3 DEF AdminInv, TablesOK
    <3>5. boot[w] = "create"
      BY <1>6 DEF CreateAdmin
    <3>6. QED BY <1>0, <2>2, <3>3, <3>4, <3>5, BootMoves DEF BootInv, Starting
  <2>3. QED BY <1>6, <2>1, <2>2 DEF CreateAdmin
<1>7. CASE VerifyBoot(w)
  <2>1. UNCHANGED <<users, subjects>> /\ boot[w] = "verify"
    BY <1>7 DEF VerifyBoot, adminVars
  <2>2. CASE /\ To(w, "up")
             /\ bootLock' = IF bootLock = w THEN NoWorker ELSE bootLock
    BY <1>0, <2>1, <2>2, BootMoves DEF BootInv, Starting
  <2>3. CASE ~(subjects >= Needed /\ \E u \in Boss : users[u].role = "admin") /\ Abort(w)
    <3>1. meddled
      BY <1>0, <2>1, <2>3 DEF BootInv
    <3>2. QED BY <1>0, <2>1, <2>3, <3>1, BootMoves DEF Abort, BootInv, Starting
  <2>4. QED BY <1>7, <2>2, <2>3 DEF VerifyBoot
<1>8. QED BY <1>1, <1>2, <1>3, <1>4, <1>5, <1>6, <1>7

LEMMA BootKeepsAdminInv ==
  ASSUME AdminInv, NEW w \in Workers,
         \/ Start(w) \/ TakeLock(w) \/ CountSubjects(w) \/ FillSubjects(w)
         \/ CountAdmin(w) \/ CreateAdmin(w) \/ VerifyBoot(w)
  PROVE  AdminInv'
<1> USE AdministrationAssumption
<1>1. CASE UNCHANGED adminVars
  <2>1. TokensOK' /\ hits' \subseteq Callers
    BY <1>1 DEF AdminInv, TablesOK, TokensOK, adminVars
  <2>2. QED BY <1>1, <2>1, NobodyMoves DEF adminVars
<1>2. ASSUME subjects' \in 0 .. Needed,
             UNCHANGED <<users, rows, minted, burnt, hits, work, passed, wipes, excused>>
      PROVE  AdminInv'
  <2>1. TablesOK' /\ NoRowWithoutUser'
    BY <1>2 DEF AdminInv, TablesOK, NoRowWithoutUser, Account
  <2>2. \A v \in Ids : Usable(v) => Usable(v)'
    BY <1>2 DEF Usable
  <2>3. QED BY <1>2, <2>1, <2>2, TablesGrow
<1>3. ASSUME NEW u \in Ids \ Callers, users[u] = NoUser,
             users' = [users EXCEPT ![u] = [boss |-> TRUE, role |-> "admin", alive |-> TRUE]],
             UNCHANGED <<subjects, rows, minted, burnt, hits, work, passed, wipes, excused>>
      PROVE  AdminInv'
  <2> DEFINE a == [boss |-> TRUE, role |-> "admin", alive |-> TRUE]
  <2>1. a \in Account /\ a # NoUser /\ Account' = Account
    <3>1. a \in Account
      BY DEF Account
    <3>2. QED BY <3>1 DEF Account
  <2>2. users' = [users EXCEPT ![u] = a]
    BY <1>3
  <2> HIDE DEF a
  <2>3. TablesOK' /\ NoRowWithoutUser' /\ users \in [Ids -> Account \cup {NoUser}]
    <3>1. users \in [Ids -> Account \cup {NoUser}] /\ users' \in [Ids -> Account \cup {NoUser}]
      BY <2>1, <2>2 DEF AdminInv, TablesOK
    <3>2. TablesOK'
      BY <1>3, <2>1, <3>1 DEF AdminInv, TablesOK
    <3>3. QED BY <1>3, <2>1, <2>2, <3>1, <3>2 DEF AdminInv, NoRowWithoutUser, TablesOK
  <2>4. \A v \in Ids : Usable(v) => Usable(v)'
    BY <1>3, <2>2, <2>3 DEF Usable
  <2>5. QED BY <1>3, <2>1, <2>2, <2>3, <2>4, TablesGrow
<1>4. CASE FillSubjects(w) \/ CreateAdmin(w)
  BY <1>1, <1>2, <1>3, <1>4 DEF FillSubjects, CreateAdmin, adminVars, AdminInv, TablesOK
<1>5. CASE Start(w) \/ TakeLock(w) \/ CountSubjects(w) \/ CountAdmin(w) \/ VerifyBoot(w)
  BY <1>1, <1>5 DEF Start, TakeLock, CountSubjects, CountAdmin, VerifyBoot
<1>6. QED BY <1>4, <1>5

-----------------------------------------------------------------------------
(* The theorems *)

\* Both invariants hold throughout, whatever requests and starts interleave.
THEOREM BootstrapInvariant == BootstrapSpec => [](AdminInv /\ BootInv)
<1>1. ASSUME AdminInv, BootInv, [BootNext \/ Administer]_bootstrapVars
      PROVE  AdminInv' /\ BootInv'
  <2>1. CASE UNCHANGED bootstrapVars
    <3>1. TokensOK' /\ hits' \subseteq Callers
      BY <1>1, <2>1 DEF AdminInv, TablesOK, TokensOK, adminVars, bootstrapVars
    <3>2. AdminInv'
      BY <1>1, <2>1, <3>1, NobodyMoves DEF bootstrapVars, adminVars
    <3>3. BootInv'
      BY <1>1, <2>1 DEF BootInv, Boss, bootstrapVars, adminVars, bootVars, Starting
    <3>4. QED BY <3>2, <3>3
  <2>2. CASE BootNext
    BY <1>1, <2>2, BootKeeps, BootKeepsAdminInv DEF BootNext
  <2>3. CASE Administer
    BY <1>1, <2>3, RequestsKeep, AdministerKeeps DEF Administer, Requests
  <2>4. QED BY <1>1, <2>1, <2>2, <2>3
<1>2. BootstrapInit => AdminInv /\ BootInv
  BY InitAdminInv, InitBootInv DEF BootstrapInit
<1>3. QED BY <1>1, <1>2, PTL DEF BootstrapSpec

\* A reset token gets one attempt past its consumption (OneUsePerToken), for
\* every number of tokens and of confirmations in flight.
THEOREM TokenUsedOnce == BootstrapSpec => []OneUsePerToken
<1>1. AdminInv => OneUsePerToken
  BY DEF AdminInv, TokensOK, OneUsePerToken
<1>2. QED BY <1>1, BootstrapInvariant, PTL

\* No match is left without its user by a wipe, table by table
\* (NoRowWithoutUser).
THEOREM RowsKeepUsers == BootstrapSpec => []NoRowWithoutUser
<1>1. AdminInv => NoRowWithoutUser
  BY DEF AdminInv
<1>2. QED BY <1>1, BootstrapInvariant, PTL

\* Resets, and erasures one after the other, leave an administrator who can
\* log in (AdminRemains).
THEOREM AdministratorRemains == BootstrapSpec => []AdminRemains
<1>1. AdminInv => AdminRemains
  BY DEF AdminInv
<1>2. QED BY <1>1, BootstrapInvariant, PTL

\* The step that commits a reset leaves its caller able to log in
\* (ResetKeepsCaller).
THEOREM CallerSpared == BootstrapSpec => ResetKeepsCaller
<1>1. ASSUME AdminInv, [BootNext \/ Administer]_bootstrapVars
      PROVE  [\A a \in Callers : wipes'[a] # wipes[a] => Usable(a)']_adminVars
  <2>1. CASE UNCHANGED bootstrapVars
    BY <2>1 DEF bootstrapVars
  <2>2. CASE BootNext
    BY <2>2 DEF BootNext, Start, TakeLock, CountSubjects, FillSubjects, CountAdmin,
       CreateAdmin, VerifyBoot, adminVars
  <2>3. CASE Administer
    BY <1>1, <2>3, WipesSpare DEF Administer, Requests
  <2>4. QED BY <1>1, <2>1, <2>2, <2>3
<1>2. QED BY <1>1, BootstrapInvariant, PTL DEF BootstrapSpec, ResetKeepsCaller

\* Workers that start together, or again after any resets and erasures, come
\* up (BootsSucceed), however many workers and starts.
THEOREM StartsSucceed == BootstrapSpec => []BootsSucceed
<1>1. BootInv => BootsSucceed
  BY DEF BootInv, BootsSucceed
<1>2. QED BY <1>1, BootstrapInvariant, PTL

=============================================================================
