------------------------- MODULE TeachingProofs ---------------------------
(***************************************************************************)
(* Proofs about modules SessionLog and Reviews, for every number of        *)
(* requests, matches, lessons, review types, columns, values and days.     *)
(***************************************************************************)
EXTENDS Reviews, TLAPS

-----------------------------------------------------------------------------
(* Lemmas about the values *)

\* A value stored once comes back unchanged when it is stored again.
LEMMA StoredTwice ==
  ASSUME NEW f, NEW v \in Nat
  PROVE  /\ Stored(f, v) \in Nat
         /\ Stored(f, Stored(f, v)) = Stored(f, v)
<1>1. /\ ((v + 5) \div 10) * 10 \in Nat
      /\ ((((v + 5) \div 10) * 10 + 5) \div 10) * 10 = ((v + 5) \div 10) * 10
  OBVIOUS
<1>2. QED  BY <1>1 DEF Stored

\* Patching a row gives a row.
LEMMA PatchedType ==
  ASSUME NEW row \in Rows, NEW patch \in Patches
  PROVE  Patched(row, patch) \in Rows
<1>1. ASSUME NEW f \in DOMAIN patch PROVE patch[f] \in Nat
  <2>1. PICK D \in SUBSET Fields : patch \in [D -> Values]
    BY DEF Patches
  <2>2. QED BY <2>1, SessionAssumption
<1>2. \A f \in DOMAIN patch : Stored(f, patch[f]) \in Nat
  BY <1>1, StoredTwice
<1>3. QED  BY <1>2 DEF Patched, Rows

\* A whole row is a patch as well, and what a creation sends is a row.
LEMMA WholeRow ==
  ASSUME NEW row \in [Fields -> Values]
  PROVE  row \in Patches /\ row \in Rows
BY SessionAssumption DEF Patches, Rows

-----------------------------------------------------------------------------
(* The invariant *)

\* What a request was called with fits the statement it is about to run.
ReqFits ==
  \A s \in Slots :
    /\ pc[s] = "idle" => req[s] = NoReq
    /\ pc[s] = "insert" => req[s] \in Requests /\ req[s].op = "create"
    /\ pc[s] \in {"lock", "check", "write"}
         => req[s] \in Requests /\ req[s].op \in {"edit", "delete"}

\* Rows exist only under ids that were handed out.
Handed == \A i \in SessionIds : Exists(i) => i \in issued

\* Every column holds a value the column gives back as it is.
Settled ==
  \A i \in SessionIds : Exists(i) =>
    \A f \in Fields : session[i][f] = Stored(f, session[i][f])

SessionInv == TypeOK /\ ReqFits /\ Handed /\ Settled /\ SeenIsCurrent /\ EditTrail

-----------------------------------------------------------------------------
(* What a request carries *)

LEMMA NoReqType == NoReq \notin Requests
BY DEF NoReq, Requests

LEMMA CreateType ==
  ASSUME NEW r \in Requests, r.op = "create"
  PROVE  r.target \in Matches /\ r.vals \in [Fields -> Values]
BY DEF Requests

LEMMA RowOpType ==
  ASSUME NEW r \in Requests, r.op \in {"edit", "delete"}
  PROVE  r.target \in SessionIds /\ (r.op = "edit" => r.vals \in Patches)
BY DEF Requests

-----------------------------------------------------------------------------
(* The steps *)

LEMMA InitSessionInv == Init => SessionInv
<1> SUFFICES ASSUME Init PROVE SessionInv
  OBVIOUS
<1>1. TypeOK
  BY DEF Init, TypeOK, Statuses, Taught
<1>2. ReqFits /\ SeenIsCurrent
  BY DEF Init, ReqFits, SeenIsCurrent
<1>3. Handed /\ Settled /\ EditTrail
  BY DEF Init, Handed, Settled, EditTrail, Exists
<1>4. QED BY <1>1, <1>2, <1>3 DEF SessionInv

\* A request that leaves takes its own lock with it and nobody else's.
LEMMA LeaveOwn ==
  ASSUME SessionInv, NEW s \in Slots, Leave(s)
  PROVE  /\ pc' \in [Slots -> {"idle", "insert", "lock", "check", "write"}]
         /\ req' \in [Slots -> Requests \cup {NoReq}]
         /\ seen' \in [Slots -> Rows \cup {NoRow}]
         /\ lockedBy' \in [SessionIds -> Slots \cup {NoSlot}]
         /\ ReqFits'
         /\ pc'[s] = "idle"
         /\ \A t \in Slots : t # s =>
              /\ pc'[t] = pc[t] /\ req'[t] = req[t] /\ seen'[t] = seen[t]
              /\ \A i \in SessionIds : lockedBy[i] = t => lockedBy'[i] = t
<1>1. ReqFits'
  BY DEF SessionInv, TypeOK, ReqFits, Leave, Goto
<1>2. QED
  BY <1>1 DEF SessionInv, TypeOK, Leave, Goto

\* SeenIsCurrent survives a departure that leaves the other holders' rows alone.
LEMMA LeaveSeen ==
  ASSUME SessionInv, NEW s \in Slots, Leave(s),
         \A t \in Slots : t # s /\ pc[t] \in {"check", "write"}
            => session'[req[t].target] = session[req[t].target]
  PROVE  SeenIsCurrent'
<1> SUFFICES ASSUME NEW t \in Slots, pc'[t] \in {"check", "write"}
             PROVE  /\ lockedBy'[req'[t].target] = t
                    /\ session'[req'[t].target] # NoRow
                    /\ seen'[t] = session'[req'[t].target]
  BY DEF SeenIsCurrent, Exists
<1>1. t # s /\ pc[t] \in {"check", "write"} /\ req'[t] = req[t] /\ seen'[t] = seen[t]
  BY LeaveOwn
<1>2. req[t].target \in SessionIds
  BY <1>1, RowOpType DEF SessionInv, ReqFits
<1>3. lockedBy[req[t].target] = t /\ Exists(req[t].target)
      /\ seen[t] = session[req[t].target]
  BY <1>1 DEF SessionInv, SeenIsCurrent
<1>4. QED BY <1>1, <1>2, <1>3, LeaveOwn DEF Exists

LEMMA LeaveStep ==
  ASSUME SessionInv, NEW s \in Slots, Leave(s), TableUnchanged
  PROVE  SessionInv'
<1> USE DEF TableUnchanged
<1>1. TypeOK' /\ ReqFits'
  BY LeaveOwn DEF SessionInv, TypeOK
<1>2. SeenIsCurrent'
  BY LeaveSeen
<1>3. Handed' /\ Settled' /\ EditTrail'
  BY DEF SessionInv, Handed, Settled, EditTrail, Exists
<1>4. QED BY <1>1, <1>2, <1>3 DEF SessionInv

\* A new request arrives with a call that fits its first statement.
LEMMA BeginStep ==
  ASSUME SessionInv, NEW s \in Slots, NEW r \in Requests, NEW where,
         \/ where = "insert" /\ r.op = "create"
         \/ where = "lock" /\ r.op \in {"edit", "delete"},
         pc[s] = "idle", req' = [req EXCEPT ![s] = r], Goto(s, where),
         UNCHANGED <<seen, lockedBy>>, TableUnchanged
  PROVE  SessionInv'
<1> USE DEF TableUnchanged, Goto
<1>1. TypeOK'
  BY DEF SessionInv, TypeOK
<1>2. ReqFits'
  BY DEF SessionInv, TypeOK, ReqFits
<1>3. SeenIsCurrent'
  BY DEF SessionInv, TypeOK, SeenIsCurrent, Exists
<1>4. Handed' /\ Settled' /\ EditTrail'
  BY DEF SessionInv, Handed, Settled, EditTrail, Exists
<1>5. QED BY <1>1, <1>2, <1>3, <1>4 DEF SessionInv

LEMMA InsertStep ==
  ASSUME SessionInv, NEW s \in Slots, InsertSession(s)
  PROVE  SessionInv'
<1>0. Leave(s) /\ status' = status /\ log' = log
  BY DEF InsertSession
<1>1. CASE UNCHANGED <<session, matchOf, issued>>
  BY <1>0, <1>1, LeaveStep DEF TableUnchanged
<1>2. ASSUME NEW i \in SessionIds \ issued,
             session' = [session EXCEPT ![i] = Patched(req[s].vals, req[s].vals)],
             matchOf' = [matchOf EXCEPT ![i] = req[s].target],
             issued' = issued \cup {i}
      PROVE  SessionInv'
  <2> DEFINE row == Patched(req[s].vals, req[s].vals)
  <2>1. req[s].target \in Matches /\ req[s].vals \in [Fields -> Values]
    BY CreateType DEF InsertSession, SessionInv, ReqFits
  <2>2. row \in Rows
    BY <2>1, WholeRow, PatchedType
  <2>3. \A f \in Fields : row[f] = Stored(f, row[f])
    <3> SUFFICES ASSUME NEW f \in Fields PROVE row[f] = Stored(f, row[f])
      OBVIOUS
    <3>1. row[f] = Stored(f, req[s].vals[f]) /\ req[s].vals[f] \in Nat
      BY <2>1, SessionAssumption DEF Patched
    <3>2. QED BY <3>1, StoredTwice
  <2>4. ~Exists(i)
    BY <1>2 DEF SessionInv, Handed
  <2>5. TypeOK' /\ ReqFits'
    <3>1. session' \in [SessionIds -> Rows \cup {NoRow}]
      BY <1>2, <2>2 DEF SessionInv, TypeOK
    <3>2. QED
      BY <1>0, <1>2, <2>1, <3>1, LeaveOwn DEF SessionInv, TypeOK
  <2>6. SeenIsCurrent'
    <3>1. ASSUME NEW t \in Slots, pc[t] \in {"check", "write"}
          PROVE  req[t].target # i
      BY <2>4, <3>1 DEF SessionInv, SeenIsCurrent
    <3>2. QED BY <1>0, <1>2, <3>1, LeaveSeen DEF SessionInv, TypeOK
  <2>7. Handed' /\ Settled'
    BY <1>2, <2>3 DEF SessionInv, TypeOK, Handed, Settled, Exists
  <2>8. EditTrail'
    <3> SUFFICES ASSUME NEW j \in SessionIds, NEW f \in Fields
                 PROVE  /\ session'[j] # NoRow => Trail(log[j][f], f, session'[j][f])
                        /\ session'[j] = NoRow => log[j][f] = <<>>
      BY <1>0 DEF EditTrail, Exists, Trail
    <3>1. CASE j = i
      <4>1. log[i][f] = <<>>
        BY <2>4, <3>1 DEF SessionInv, EditTrail
      <4>2. QED BY <3>1, <4>1 DEF Trail
    <3>2. CASE j # i
      BY <1>2, <3>2 DEF SessionInv, TypeOK, EditTrail, Exists
    <3>3. QED BY <3>1, <3>2
  <2>9. QED BY <2>5, <2>6, <2>7, <2>8 DEF SessionInv
<1>3. QED BY <1>1, <1>2 DEF InsertSession

LEMMA LockStep ==
  ASSUME SessionInv, NEW s \in Slots, LockSession(s)
  PROVE  SessionInv'
<1> DEFINE i == req[s].target
<1>0. TableUnchanged /\ pc[s] = "lock" /\ i \in SessionIds
  BY RowOpType DEF LockSession, SessionInv, ReqFits
<1>1. CASE Leave(s)
  BY <1>0, <1>1, LeaveStep
<1>2. CASE /\ Exists(i) /\ Lock(s, i) /\ Goto(s, "check")
           /\ seen' = [seen EXCEPT ![s] = session[i]] /\ req' = req
  <2> USE DEF TableUnchanged, Lock, Goto
  <2>1. TypeOK'
    BY <1>0, <1>2 DEF SessionInv, TypeOK
  <2>2. ReqFits'
    BY <1>0, <1>2 DEF SessionInv, TypeOK, ReqFits
  <2>3. SeenIsCurrent'
    <3> SUFFICES ASSUME NEW t \in Slots, pc'[t] \in {"check", "write"}
                 PROVE  /\ lockedBy'[req[t].target] = t
                        /\ session[req[t].target] # NoRow
                        /\ seen'[t] = session[req[t].target]
      BY <1>0, <1>2 DEF SeenIsCurrent, Exists
    <3>1. CASE t = s
      BY <1>0, <1>2, <3>1 DEF SessionInv, TypeOK, Exists
    <3>2. CASE t # s
      <4>1. pc[t] \in {"check", "write"}
        BY <1>2, <3>2 DEF SessionInv, TypeOK
      <4>2. /\ lockedBy[req[t].target] = t /\ Exists(req[t].target)
            /\ seen[t] = session[req[t].target]
        BY <4>1 DEF SessionInv, SeenIsCurrent
      <4>3. req[t].target # i
        BY <1>2, <4>2, SessionAssumption
      <4>4. req[t].target \in SessionIds
        BY <4>1, RowOpType DEF SessionInv, ReqFits
      <4>5. QED BY <1>2, <3>2, <4>2, <4>3, <4>4 DEF SessionInv, TypeOK, Exists
    <3>3. QED BY <3>1, <3>2
  <2>4. Handed' /\ Settled' /\ EditTrail'
    BY <1>0 DEF SessionInv, Handed, Settled, EditTrail, Exists
  <2>5. QED BY <2>1, <2>2, <2>3, <2>4 DEF SessionInv
<1>3. QED BY <1>1, <1>2 DEF LockSession

LEMMA CheckStep ==
  ASSUME SessionInv, NEW s \in Slots, CheckMatch(s)
  PROVE  SessionInv'
<1>0. TableUnchanged /\ pc[s] = "check"
  BY DEF CheckMatch
<1>1. CASE Leave(s)
  BY <1>0, <1>1, LeaveStep
<1>2. CASE Goto(s, "write") /\ UNCHANGED <<req, seen, lockedBy>>
  <2> USE DEF TableUnchanged, Goto
  <2>1. TypeOK' /\ ReqFits'
    BY <1>0, <1>2 DEF SessionInv, TypeOK, ReqFits
  <2>2. SeenIsCurrent'
    BY <1>0, <1>2 DEF SessionInv, TypeOK, SeenIsCurrent, Exists
  <2>3. Handed' /\ Settled' /\ EditTrail'
    BY <1>0 DEF SessionInv, Handed, Settled, EditTrail, Exists
  <2>4. QED BY <2>1, <2>2, <2>3 DEF SessionInv
<1>3. QED BY <1>1, <1>2 DEF CheckMatch

\* The lock holder's write: what the step knows of its own lesson.
LEMMA WriterKnows ==
  ASSUME SessionInv, NEW s \in Slots, pc[s] = "write"
  PROVE  LET i == req[s].target IN
         /\ i \in SessionIds /\ Exists(i)
         /\ session[i] \in Rows /\ seen[s] = session[i]
         /\ req[s].op = "edit" => req[s].vals \in Patches
         /\ \A t \in Slots : t # s /\ pc[t] \in {"check", "write"}
              => req[t].target # i
<1>1. req[s] \in Requests /\ req[s].op \in {"edit", "delete"}
  BY DEF SessionInv, ReqFits
<1>2. req[s].target \in SessionIds /\ (req[s].op = "edit" => req[s].vals \in Patches)
  BY <1>1, RowOpType
<1>3. /\ lockedBy[req[s].target] = s /\ Exists(req[s].target)
      /\ seen[s] = session[req[s].target]
  BY DEF SessionInv, SeenIsCurrent
<1>4. \A t \in Slots : t # s /\ pc[t] \in {"check", "write"}
        => req[t].target # req[s].target
  BY <1>3 DEF SessionInv, SeenIsCurrent
<1>5. session[req[s].target] \in Rows
  BY <1>2, <1>3 DEF SessionInv, TypeOK, Exists
<1>6. QED BY <1>1, <1>2, <1>3, <1>4, <1>5

LEMMA EditStep ==
  ASSUME SessionInv, NEW s \in Slots, WriteEdit(s)
  PROVE  SessionInv'
<1> DEFINE i == req[s].target
           patch == req[s].vals
           old == session[i]
           row == Patched(old, patch)
<1>0. /\ pc[s] = "write" /\ req[s].op = "edit" /\ Leave(s)
      /\ UNCHANGED <<status, matchOf, issued>>
  BY DEF WriteEdit
<1>1. CASE UNCHANGED <<session, log>>
  BY <1>0, <1>1, LeaveStep DEF TableUnchanged
<1>2. CASE session' = [session EXCEPT ![i] = row] /\ log' = [log EXCEPT ![i] = Logged(s)]
  <2>1. /\ i \in SessionIds /\ Exists(i) /\ old \in Rows /\ seen[s] = old
        /\ patch \in Patches
        /\ \A t \in Slots : t # s /\ pc[t] \in {"check", "write"}
             => req[t].target # i
    BY <1>0, WriterKnows
  <2>2. row \in Rows /\ row # NoRow
    BY <2>1, PatchedType, SessionAssumption DEF Rows
  <2>3. PICK D \in SUBSET Fields : patch \in [D -> Values]
    BY <2>1 DEF Patches
  <2>4. \A f \in D : patch[f] \in Nat
    BY <2>3, SessionAssumption
  <2>5. \A f \in Fields : old[f] \in Nat /\ old[f] = Stored(f, old[f])
    BY <2>1 DEF SessionInv, Settled, Rows
  <2>6. \A f \in Fields : row[f] = Stored(f, row[f])
    <3> SUFFICES ASSUME NEW f \in Fields PROVE row[f] = Stored(f, row[f])
      OBVIOUS
    <3>1. CASE f \in D
      BY <2>3, <2>4, <3>1, StoredTwice DEF Patched
    <3>2. CASE f \notin D
      BY <2>3, <2>5, <3>2 DEF Patched
    <3>3. QED BY <3>1, <3>2
  <2>7. ASSUME NEW f \in Fields
        PROVE  /\ log[i][f] \in Seq(Entries)
               /\ Trail(log[i][f], f, old[f])
               /\ Logged(s)[f] \in Seq(Entries)
               /\ Trail(Logged(s)[f], f, row[f])
    <3> DEFINE rows == log[i][f]
               entry == [old |-> old[f], new |-> patch[f]]
    <3>1. rows \in Seq(Entries) /\ Trail(rows, f, old[f])
      BY <2>1 DEF SessionInv, TypeOK, EditTrail
    <3>2. CASE f \in Diffs(s)
      <4>1. f \in D /\ Logged(s)[f] = Append(rows, entry)
        BY <2>1, <2>3, <3>2 DEF Diffs, Logged
      <4>2. entry \in Entries /\ row[f] = Stored(f, patch[f])
        BY <2>3, <2>4, <2>5, <4>1 DEF Entries, Patched
      <4> HIDE DEF rows, entry, row
      <4>3. /\ Append(rows, entry) \in Seq(Entries)
            /\ Len(Append(rows, entry)) = Len(rows) + 1
            /\ Append(rows, entry)[Len(rows) + 1] = entry
            /\ \A k \in 1 .. Len(rows) : Append(rows, entry)[k] = rows[k]
        BY <3>1, <4>2
      <4>4. ASSUME NEW k \in 1 .. Len(Append(rows, entry)) - 1
            PROVE  Append(rows, entry)[k + 1].old = Stored(f, Append(rows, entry)[k].new)
        <5>1. CASE k = Len(rows)
          <6>1. rows # <<>>
            BY <3>1, <5>1, <4>3
          <6>2. old[f] = Stored(f, rows[Len(rows)].new)
            BY <3>1, <6>1 DEF Trail
          <6>3. QED BY <3>1, <4>3, <5>1, <6>2 DEF entry
        <5>2. CASE k # Len(rows)
          <6>1. k \in 1 .. Len(rows) - 1 /\ k + 1 \in 1 .. Len(rows)
            BY <3>1, <4>3, <5>2
          <6>2. rows[k + 1].old = Stored(f, rows[k].new)
            BY <3>1, <6>1 DEF Trail
          <6>3. QED BY <4>3, <6>1, <6>2
        <5>3. QED BY <5>1, <5>2
      <4>5. row[f] = Stored(f, Append(rows, entry)[Len(Append(rows, entry))].new)
        BY <4>2, <4>3 DEF entry
      <4>6. Trail(Append(rows, entry), f, row[f])
        BY <4>4, <4>5 DEF Trail
      <4>7. QED BY <3>1, <4>1, <4>3, <4>6 DEF rows
    <3>3. CASE f \notin Diffs(s)
      <4>1. Logged(s)[f] = rows
        BY <3>3 DEF Logged
      <4>2. row[f] = old[f]
        <5>1. CASE f \in D
          BY <2>1, <2>3, <2>5, <3>3, <5>1 DEF Diffs, Patched
        <5>2. CASE f \notin D
          BY <2>3, <5>2 DEF Patched
        <5>3. QED BY <5>1, <5>2
      <4>3. QED BY <3>1, <4>1, <4>2
    <3>4. QED BY <3>2, <3>3
  <2> HIDE DEF row, old
  <2>8. TypeOK' /\ ReqFits'
    <3>1. session' \in [SessionIds -> Rows \cup {NoRow}]
      BY <1>2, <2>2 DEF SessionInv, TypeOK
    <3>2. Logged(s) \in [Fields -> Seq(Entries)]
      BY <2>7 DEF Logged
    <3>3. log' \in [SessionIds -> [Fields -> Seq(Entries)]]
      BY <1>2, <3>2 DEF SessionInv, TypeOK
    <3>4. QED BY <1>0, <3>1, <3>3, LeaveOwn DEF SessionInv, TypeOK
  <2>9. SeenIsCurrent'
    BY <1>0, <1>2, <2>1, LeaveSeen DEF SessionInv, TypeOK
  <2>10. Handed' /\ Settled'
    BY <1>0, <1>2, <2>1, <2>6 DEF SessionInv, TypeOK, Handed, Settled, Exists
  <2>11. EditTrail'
    <3> SUFFICES ASSUME NEW j \in SessionIds, NEW f \in Fields
                 PROVE  /\ session'[j] # NoRow => Trail(log'[j][f], f, session'[j][f])
                        /\ session'[j] = NoRow => log'[j][f] = <<>>
      BY DEF EditTrail, Exists, Trail
    <3>1. CASE j = i
      BY <1>2, <2>1, <2>2, <2>7, <3>1 DEF SessionInv, TypeOK
    <3>2. CASE j # i
      BY <1>2, <3>2 DEF SessionInv, TypeOK, EditTrail, Exists
    <3>3. QED BY <3>1, <3>2
  <2>12. QED BY <2>8, <2>9, <2>10, <2>11 DEF SessionInv
<1>3. QED BY <1>1, <1>2 DEF WriteEdit

LEMMA DeleteStep ==
  ASSUME SessionInv, NEW s \in Slots, WriteDelete(s)
  PROVE  SessionInv'
<1> DEFINE i == req[s].target
<1>0. /\ pc[s] = "write" /\ Leave(s) /\ UNCHANGED <<status, matchOf, issued>>
      /\ session' = [session EXCEPT ![i] = NoRow]
      /\ log' = [log EXCEPT ![i] = [f \in Fields |-> <<>>]]
  BY DEF WriteDelete
<1>1. /\ i \in SessionIds
      /\ \A t \in Slots : t # s /\ pc[t] \in {"check", "write"}
           => req[t].target # i
  BY <1>0, WriterKnows
<1>2. TypeOK' /\ ReqFits'
  <2>1. session' \in [SessionIds -> Rows \cup {NoRow}]
    BY <1>0 DEF SessionInv, TypeOK
  <2>2. [f \in Fields |-> <<>>] \in [Fields -> Seq(Entries)]
    OBVIOUS
  <2>3. log' \in [SessionIds -> [Fields -> Seq(Entries)]]
    BY <1>0, <2>2 DEF SessionInv, TypeOK
  <2>4. QED BY <1>0, <2>1, <2>3, LeaveOwn DEF SessionInv, TypeOK
<1>3. SeenIsCurrent'
  BY <1>0, <1>1, LeaveSeen DEF SessionInv, TypeOK
<1>4. Handed' /\ Settled' /\ EditTrail'
  BY <1>0, <1>1 DEF SessionInv, TypeOK, Handed, Settled, EditTrail, Exists
<1>5. QED BY <1>2, <1>3, <1>4 DEF SessionInv

LEMMA MoveStep ==
  ASSUME SessionInv, NEW m \in Matches, MoveMatch(m)
  PROVE  SessionInv'
<1>0. UNCHANGED <<session, matchOf, issued, log, pc, req, seen, lockedBy>>
  BY DEF MoveMatch
<1>1. TypeOK' /\ ReqFits'
  BY <1>0 DEF SessionInv, TypeOK, MoveMatch, ReqFits
<1>2. Handed' /\ Settled' /\ SeenIsCurrent' /\ EditTrail'
  BY <1>0 DEF SessionInv, Handed, Settled, SeenIsCurrent, EditTrail, Exists
<1>3. QED BY <1>1, <1>2 DEF SessionInv

LEMMA SessionInvStep == SessionInv /\ [Next]_vars => SessionInv'
<1> SUFFICES ASSUME SessionInv, [Next]_vars PROVE SessionInv'
  OBVIOUS
<1>1. ASSUME NEW s \in Slots, NEW m \in Matches, NEW u \in Users,
             NEW row \in [Fields -> Values], BeginCreate(s, m, u, row)
      PROVE  SessionInv'
  <2> DEFINE r == [op |-> "create", user |-> u, target |-> m, vals |-> row]
  <2>1. r \in Requests /\ r.op = "create"
    BY DEF Requests
  <2> HIDE DEF r
  <2>2. QED BY <1>1, <2>1, BeginStep DEF BeginCreate, r
<1>2. ASSUME NEW s \in Slots, NEW i \in SessionIds, NEW u \in Users,
             NEW patch \in Patches, BeginEdit(s, i, u, patch)
      PROVE  SessionInv'
  <2> DEFINE r == [op |-> "edit", user |-> u, target |-> i, vals |-> patch]
  <2>1. r \in Requests /\ r.op = "edit"
    BY DEF Requests
  <2> HIDE DEF r
  <2>2. QED BY <1>2, <2>1, BeginStep DEF BeginEdit, r
<1>3. ASSUME NEW s \in Slots, NEW i \in SessionIds, NEW u \in Users,
             BeginDelete(s, i, u)
      PROVE  SessionInv'
  <2> DEFINE r == [op |-> "delete", user |-> u, target |-> i, vals |-> <<>>]
  <2>1. r \in Requests /\ r.op = "delete"
    BY DEF Requests
  <2> HIDE DEF r
  <2>2. QED BY <1>3, <2>1, BeginStep DEF BeginDelete, r
<1>4. ASSUME NEW s \in Slots, Continue(s)
      PROVE  SessionInv'
  BY <1>4, InsertStep, LockStep, CheckStep, EditStep, DeleteStep DEF Continue
<1>5. ASSUME NEW s \in Slots, Crash(s)
      PROVE  SessionInv'
  BY <1>5, LeaveStep DEF Crash
<1>6. CASE UNCHANGED vars
  <2>1. UNCHANGED <<status, session, matchOf, issued, log, pc, req, seen, lockedBy>>
    BY <1>6 DEF vars
  <2>2. QED
    BY <2>1 DEF SessionInv, TypeOK, ReqFits, Handed, Settled, SeenIsCurrent,
       EditTrail, Exists
<1>7. QED BY <1>1, <1>2, <1>3, <1>4, <1>5, <1>6, MoveStep DEF Next, Begin

-----------------------------------------------------------------------------
(* The theorems *)

LEMMA SessionInvAlways == Spec => []SessionInv
BY InitSessionInv, SessionInvStep, PTL DEF Spec

\* The tables, the requests and the locks keep their shape.
THEOREM SessionTypeCorrect == Spec => []TypeOK
<1>1. SessionInv => TypeOK
  BY DEF SessionInv
<1>2. QED BY <1>1, SessionInvAlways, PTL

\* A lesson stands still from an edit's locked read to its write
\* (SessionAppService.update and delete, get_by_id_for_update).
THEOREM LockedLessonStandsStill == Spec => []SeenIsCurrent
<1>1. SessionInv => SeenIsCurrent
  BY DEF SessionInv
<1>2. QED BY <1>1, SessionInvAlways, PTL

\* The edit history of every lesson is a trail that ends at its present values
\* (SessionAppService.update: the diff, the UPDATE and the log rows).
THEOREM HistoryIsATrail == Spec => []EditTrail
<1>1. SessionInv => EditTrail
  BY DEF SessionInv
<1>2. QED BY <1>1, SessionInvAlways, PTL

-----------------------------------------------------------------------------
(***************************************************************************)
(* Proofs about module Reviews, for every number of requests, matches,     *)
(* review types, rating columns and days.  The composition leaves lessons  *)
(* as they were: what is shown of them above holds here too.               *)
(***************************************************************************)

-----------------------------------------------------------------------------
(* Lemmas about rows and what requests carry *)

LEMMA NoCallType == NoCall \notin Calls
BY DEF NoCall, Calls

\* An edit gives a row of the same author and moment, and keeps its lock.
LEMMA ChangedType ==
  ASSUME NEW row \in ReviewRows, NEW c \in Changes
  PROVE  /\ Changed(row, c) \in ReviewRows
         /\ Changed(row, c).by = row.by /\ Changed(row, c).created = row.created
         /\ Changed(row, c).locked = row.locked
<1>1. PICK D \in SUBSET Axes : c.ratings \in [D -> {"low", "fair"}]
  BY DEF Changes
<1>2. MergedRatings(row, c) \in [Axes -> Ratings]
  BY <1>1 DEF MergedRatings, ReviewRows, Ratings
<1>3. c.comment \in Comments \cup {"omitted"}
  BY DEF Changes
<1> DEFINE said == IF c.comment = "omitted" THEN row.comment ELSE c.comment
<1>4. said \in Comments
  BY <1>3 DEF ReviewRows
<1>5. Changed(row, c) = [row EXCEPT !.ratings = MergedRatings(row, c), !.comment = said]
  BY DEF Changed
<1> HIDE DEF said
<1>6. QED BY <1>2, <1>4, <1>5 DEF ReviewRows

LEMMA LockedRow ==
  ASSUME NEW row \in ReviewRows
  PROVE  LET new == [row EXCEPT !.locked = TRUE] IN
         /\ new \in ReviewRows /\ new.locked
         /\ new.by = row.by /\ new.created = row.created
         /\ row.locked => new = row
BY DEF ReviewRows

-----------------------------------------------------------------------------
(* The invariant *)

\* A submission under way is of a match that has ended; an edit under way holds
\* its row, which is still the one it was judged on.
CallFits ==
  \A t \in Writers :
    /\ at[t] = "idle" => call[t] = NoCall
    /\ at[t] \in {"recount", "insert"}
         => call[t] \in Calls /\ call[t].op = "create" /\ status[call[t].key[1]] = "ended"
    /\ at[t] = "write"
         => call[t] \in Calls /\ call[t].op = "edit" /\ rowLock[call[t].key] = t

\* The task holds rows only while it runs, and only rows that are there.
TaskHolds == \A k \in Keys : rowLock[k] = Task => TaskWorks /\ Taken(k)

ReviewInv ==
  ReviewTypeOK /\ CallFits /\ TaskHolds /\ JudgedAsWritten /\ ReviewedMatchEnded

LEMMA InitReviewInv == ReviewInit => ReviewInv
<1> SUFFICES ASSUME ReviewInit PROVE ReviewInv
  OBVIOUS
<1> USE ReviewAssumption DEF ReviewInit
<1>1. ReviewTypeOK
  <2>1. taskLock \in BOOLEAN
    BY Zenon
  <2>2. /\ day \in 0 .. MaxDay
        /\ review \in [Keys -> ReviewRows \cup {NoReview}]
        /\ rowLock \in [Keys -> Writers \cup {Task, NoSlot}]
        /\ at \in [Writers -> {"idle", "recount", "insert", "write"}]
        /\ call \in [Writers -> Calls \cup {NoCall}]
        /\ task \in 0 .. MaxDay \cup {Off, Returning}
    OBVIOUS
  <2>3. QED BY <2>1, <2>2, Zenon DEF ReviewTypeOK
<1>2. CallFits /\ JudgedAsWritten
  BY DEF CallFits, JudgedAsWritten
<1>3. TaskHolds /\ ReviewedMatchEnded
  BY DEF TaskHolds, ReviewedMatchEnded, Taken
<1>4. QED BY <1>1, <1>2, <1>3 DEF ReviewInv

\* No step of the lessons' module takes a match out of "ended".
LEMMA EndedStays ==
  ASSUME TypeOK, Next, NEW m \in Matches, status[m] = "ended"
  PROVE  status'[m] = "ended"
<1>1. CASE \E n \in Matches : MoveMatch(n)
  BY <1>1 DEF MoveMatch, Moves, TypeOK
<1>2. CASE \E s \in Slots : Begin(s) \/ Continue(s) \/ Crash(s)
  BY <1>2 DEF Begin, Continue, Crash, BeginCreate, BeginEdit, BeginDelete,
     InsertSession, LockSession, CheckMatch, WriteEdit, WriteDelete, TableUnchanged
<1>3. QED BY <1>1, <1>2 DEF Next

\* The key of a call names a match.
LEMMA KeyType ==
  ASSUME NEW c \in Calls
  PROVE  /\ c.key \in Keys /\ c.key[1] \in Matches
         /\ c.op = "create" => /\ c.by \in Users /\ c.now \in 0 .. MaxDay
                               /\ c.body.ratings \in [Axes -> Ratings]
                               /\ c.body.comment \in Comments
         /\ c.op = "edit" => c.change \in Changes
BY DEF Calls, Keys

\* A request that leaves releases its row and disturbs no other request.
LEMMA DepartOwn ==
  ASSUME ReviewInv, NEW t \in Writers, Depart(t)
  PROVE  /\ rowLock' \in [Keys -> Writers \cup {Task, NoSlot}]
         /\ at' \in [Writers -> {"idle", "recount", "insert", "write"}]
         /\ call' \in [Writers -> Calls \cup {NoCall}]
         /\ at'[t] = "idle" /\ call'[t] = NoCall
         /\ \A k \in Keys : rowLock[k] = Task <=> rowLock'[k] = Task
         /\ \A w \in Writers : w # t =>
              /\ at'[w] = at[w] /\ call'[w] = call[w]
              /\ \A k \in Keys : rowLock[k] = w => rowLock'[k] = w
BY ReviewAssumption DEF ReviewInv, ReviewTypeOK, Depart

\* What is left to show of a departure: that the rows the others judged stand.
LEMMA DepartStep ==
  ASSUME ReviewInv, NEW t \in Writers, Depart(t),
         UNCHANGED <<vars, day, task, taskLock>>,
         review' \in [Keys -> ReviewRows \cup {NoReview}],
         \A k \in Keys : Taken(k) => Taken(k)',
         \A k \in Keys : Taken(k)' => status[k[1]] = "ended",
         \A w \in Writers : w # t /\ at[w] = "write"
            => review'[call[w].key] = review[call[w].key]
  PROVE  ReviewInv'
<1>0. status' = status
  BY DEF vars
<1>1. ReviewTypeOK'
  BY DepartOwn DEF ReviewInv, ReviewTypeOK
<1>2. CallFits'
  <2> SUFFICES ASSUME NEW w \in Writers
               PROVE  /\ at'[w] = "idle" => call'[w] = NoCall
                      /\ at'[w] \in {"recount", "insert"}
                           => /\ call'[w] \in Calls /\ call'[w].op = "create"
                              /\ status[call'[w].key[1]] = "ended"
                      /\ at'[w] = "write"
                           => /\ call'[w] \in Calls /\ call'[w].op = "edit"
                              /\ rowLock'[call'[w].key] = w
    BY <1>0 DEF CallFits
  <2>1. CASE w = t
    BY <2>1, DepartOwn
  <2>2. CASE w # t
    <3>1. at'[w] = at[w] /\ call'[w] = call[w]
      BY <2>2, DepartOwn
    <3>2. CASE at[w] = "write"
      <4>1. call[w] \in Calls /\ call[w].op = "edit" /\ rowLock[call[w].key] = w
        BY <3>2 DEF ReviewInv, CallFits
      <4>2. call[w].key \in Keys
        BY <4>1, KeyType
      <4>3. rowLock'[call[w].key] = w
        BY <2>2, <4>1, <4>2, DepartOwn
      <4>4. QED BY <3>1, <3>2, <4>1, <4>3
    <3>3. CASE at[w] # "write"
      BY <3>1, <3>3 DEF ReviewInv, CallFits
    <3>4. QED BY <3>2, <3>3
  <2>3. QED BY <2>1, <2>2
<1>3. TaskHolds'
  BY DepartOwn DEF ReviewInv, TaskHolds, TaskWorks
<1>4. JudgedAsWritten'
  <2> SUFFICES ASSUME NEW w \in Writers, at'[w] = "write"
               PROVE  LET k == call'[w].key IN
                      /\ review'[k] # NoReview /\ ~review'[k].locked
                      /\ Judged(k, review'[k], call'[w].change)
    BY DEF JudgedAsWritten, Taken
  <2>1. w # t /\ at[w] = "write" /\ call'[w] = call[w]
    BY DepartOwn
  <2>2. review'[call[w].key] = review[call[w].key]
    BY <2>1
  <2>3. /\ Taken(call[w].key) /\ ~review[call[w].key].locked
        /\ Judged(call[w].key, review[call[w].key], call[w].change)
    BY <2>1 DEF ReviewInv, JudgedAsWritten
  <2>4. QED BY <2>1, <2>2, <2>3 DEF Taken
<1>5. ReviewedMatchEnded'
  BY <1>0 DEF ReviewedMatchEnded
<1>6. QED BY <1>1, <1>2, <1>3, <1>4, <1>5 DEF ReviewInv

-----------------------------------------------------------------------------
(* The steps *)

\* What is said of the rows is untouched by a step that leaves them, the calls
\* and the locks of the writers alone.
LEMMA SameJudged ==
  ASSUME ReviewInv, UNCHANGED <<review, at, call>>
  PROVE  JudgedAsWritten'
<1> SUFFICES ASSUME NEW t \in Writers, at[t] = "write"
             PROVE  LET k == call[t].key IN
                    /\ review[k] # NoReview /\ ~review[k].locked
                    /\ Judged(k, review[k], call[t].change)
  BY DEF JudgedAsWritten, Taken
<1>1. QED BY DEF ReviewInv, JudgedAsWritten, Taken

LEMMA LessonStep ==
  ASSUME ReviewInv, TypeOK, Next, UNCHANGED reviewVars
  PROVE  ReviewInv'
<1>0. UNCHANGED <<day, review, rowLock, at, call, task, taskLock>>
  BY DEF reviewVars
<1>1. ReviewTypeOK' /\ TaskHolds'
  BY <1>0 DEF ReviewInv, ReviewTypeOK, TaskHolds, TaskWorks, Taken
<1>2. CallFits'
  <2>1. ASSUME NEW t \in Writers, at[t] \in {"recount", "insert"}
        PROVE  status'[call[t].key[1]] = "ended"
    <3>1. call[t].key[1] \in Matches /\ status[call[t].key[1]] = "ended"
      BY <2>1, KeyType DEF ReviewInv, CallFits
    <3>2. QED BY <3>1, EndedStays
  <2>2. QED BY <1>0, <2>1 DEF ReviewInv, CallFits
<1>3. JudgedAsWritten'
  BY <1>0, SameJudged
<1>4. ReviewedMatchEnded'
  <2> SUFFICES ASSUME NEW k \in Keys, Taken(k) PROVE status'[k[1]] = "ended"
    BY <1>0 DEF ReviewedMatchEnded, Taken
  <2>1. k[1] \in Matches /\ status[k[1]] = "ended"
    BY DEF ReviewInv, ReviewedMatchEnded, Keys
  <2>2. QED BY <2>1, EndedStays
<1>5. QED BY <1>1, <1>2, <1>3, <1>4 DEF ReviewInv

LEMMA OuterReadStep ==
  ASSUME ReviewInv, NEW t \in Writers, NEW k \in Keys, NEW u \in Users,
         NEW body \in Bodies(k[2]), OuterRead(t, k, u, body)
  PROVE  ReviewInv'
<1> DEFINE c == [op |-> "create", key |-> k, by |-> u, body |-> body, now |-> day]
<1>0. UNCHANGED <<vars, day, review, rowLock, task, taskLock>>
  BY DEF OuterRead
<1>1. c \in Calls
  BY DEF Bodies, Calls, ReviewInv, ReviewTypeOK
<1>2. c.op = "create" /\ c.key = k
  OBVIOUS
<1>3. /\ at[t] = "idle" /\ status[k[1]] = "ended"
      /\ at' = [at EXCEPT ![t] = "recount"] /\ call' = [call EXCEPT ![t] = c]
  BY DEF OuterRead
<1> HIDE DEF c
<1>4. ReviewTypeOK' /\ TaskHolds'
  BY <1>0, <1>1, <1>3 DEF ReviewInv, ReviewTypeOK, TaskHolds, TaskWorks, Taken
<1>5. CallFits'
  BY <1>0, <1>1, <1>2, <1>3 DEF ReviewInv, ReviewTypeOK, CallFits, vars
<1>6. JudgedAsWritten'
  <2> SUFFICES ASSUME NEW w \in Writers, at'[w] = "write"
               PROVE  LET q == call'[w].key IN
                      /\ review[q] # NoReview /\ ~review[q].locked
                      /\ Judged(q, review[q], call'[w].change)
    BY <1>0 DEF JudgedAsWritten, Taken
  <2>1. w # t /\ at[w] = "write" /\ call'[w] = call[w]
    BY <1>3 DEF ReviewInv, ReviewTypeOK
  <2>2. QED BY <2>1 DEF ReviewInv, JudgedAsWritten, Taken
<1>7. ReviewedMatchEnded'
  BY <1>0 DEF ReviewInv, ReviewedMatchEnded, Taken, vars
<1>8. QED BY <1>4, <1>5, <1>6, <1>7 DEF ReviewInv

\* A departure that writes nothing.
LEMMA QuietDeparture ==
  ASSUME ReviewInv, NEW t \in Writers, Depart(t), UNCHANGED <<vars, day, review, task, taskLock>>
  PROVE  ReviewInv'
<1>1. review' \in [Keys -> ReviewRows \cup {NoReview}]
  BY DEF ReviewInv, ReviewTypeOK
<1>2. \A k \in Keys : Taken(k)' = Taken(k) /\ (Taken(k) => status[k[1]] = "ended")
  BY DEF ReviewInv, ReviewedMatchEnded, Taken
<1>3. QED BY <1>1, <1>2, DepartStep

LEMMA RecountStep ==
  ASSUME ReviewInv, NEW t \in Writers, Recount(t)
  PROVE  ReviewInv'
<1>0. UNCHANGED <<vars, day, review, task, taskLock>> /\ at[t] = "recount"
  BY DEF Recount
<1>1. CASE Depart(t)
  BY <1>0, <1>1, QuietDeparture
<1>2. CASE at' = [at EXCEPT ![t] = "insert"] /\ UNCHANGED <<call, rowLock>>
  <2>1. ReviewTypeOK' /\ TaskHolds'
    BY <1>0, <1>2 DEF ReviewInv, ReviewTypeOK, TaskHolds, TaskWorks, Taken
  <2>2. CallFits'
    BY <1>0, <1>2 DEF ReviewInv, ReviewTypeOK, CallFits, vars
  <2>3. JudgedAsWritten'
    <3> SUFFICES ASSUME NEW w \in Writers, at'[w] = "write"
                 PROVE  LET q == call[w].key IN
                        /\ review[q] # NoReview /\ ~review[q].locked
                        /\ Judged(q, review[q], call[w].change)
      BY <1>0, <1>2 DEF JudgedAsWritten, Taken
    <3>1. at[w] = "write"
      BY <1>2 DEF ReviewInv, ReviewTypeOK
    <3>2. QED BY <3>1 DEF ReviewInv, JudgedAsWritten, Taken
  <2>4. ReviewedMatchEnded'
    BY <1>0 DEF ReviewInv, ReviewedMatchEnded, Taken, vars
  <2>5. QED BY <2>1, <2>2, <2>3, <2>4 DEF ReviewInv
<1>3. QED BY <1>1, <1>2 DEF Recount

LEMMA InsertReviewStep ==
  ASSUME ReviewInv, NEW t \in Writers, InsertReview(t)
  PROVE  ReviewInv'
<1> DEFINE k == call[t].key
           row == [by |-> call[t].by, ratings |-> call[t].body.ratings,
                   comment |-> call[t].body.comment,
                   created |-> call[t].now, locked |-> FALSE]
<1>0. at[t] = "insert" /\ Depart(t) /\ UNCHANGED <<vars, day, task, taskLock>>
  BY DEF InsertReview
<1>1. CASE review' = review
  BY <1>0, <1>1, QuietDeparture
<1>2. CASE ~Taken(k) /\ review' = [review EXCEPT ![k] = row]
  <2>1. call[t] \in Calls /\ call[t].op = "create" /\ status[k[1]] = "ended"
    BY <1>0 DEF ReviewInv, CallFits
  <2>2. k \in Keys /\ row \in ReviewRows
    BY <2>1, KeyType DEF ReviewRows
  <2> HIDE DEF row
  <2>3. review' \in [Keys -> ReviewRows \cup {NoReview}]
    BY <1>2, <2>2 DEF ReviewInv, ReviewTypeOK
  <2>4. \A q \in Keys : /\ Taken(q) => Taken(q)'
                        /\ Taken(q)' => status[q[1]] = "ended"
    BY <1>2, <2>1, <2>2 DEF ReviewInv, ReviewTypeOK, ReviewedMatchEnded, Taken
  <2>5. ASSUME NEW w \in Writers, at[w] = "write"
        PROVE  review'[call[w].key] = review[call[w].key]
    <3>1. call[w].key # k
      BY <1>2, <2>5 DEF ReviewInv, JudgedAsWritten
    <3>2. QED BY <1>2, <3>1 DEF ReviewInv, ReviewTypeOK
  <2>6. QED BY <1>0, <2>3, <2>4, <2>5, DepartStep
<1>3. QED BY <1>1, <1>2 DEF InsertReview

LEMMA LockReviewStep ==
  ASSUME ReviewInv, NEW t \in Writers, NEW k \in Keys, NEW u \in Users,
         NEW change \in Changes, LockReview(t, k, u, change)
  PROVE  ReviewInv'
<1> DEFINE c == [op |-> "edit", key |-> k, change |-> change]
<1>0. UNCHANGED <<vars, day, review, task, taskLock>>
  BY DEF LockReview
<1>1. c \in Calls
  BY DEF Calls
<1>2. c.op = "edit" /\ c.key = k /\ c.change = change
  OBVIOUS
<1>3. /\ at[t] = "idle" /\ Taken(k) /\ ~review[k].locked
      /\ Judged(k, review[k], change)
      /\ rowLock[k] = NoSlot /\ rowLock' = [rowLock EXCEPT ![k] = t]
      /\ at' = [at EXCEPT ![t] = "write"] /\ call' = [call EXCEPT ![t] = c]
  BY DEF LockReview, Hold
<1> HIDE DEF c
<1>4. ReviewTypeOK'
  BY <1>0, <1>1, <1>3 DEF ReviewInv, ReviewTypeOK
<1>5. TaskHolds'
  BY <1>0, <1>3, ReviewAssumption DEF ReviewInv, ReviewTypeOK, TaskHolds, TaskWorks, Taken
<1>6. CallFits'
  <2>1. ASSUME NEW w \in Writers, w # t
        PROVE  at'[w] = at[w] /\ call'[w] = call[w]
               /\ (rowLock[call[w].key] = w => rowLock'[call[w].key] = w)
    BY <1>3, <2>1, ReviewAssumption DEF ReviewInv, ReviewTypeOK
  <2>2. at'[t] = "write" /\ call'[t] = c /\ rowLock'[k] = t
    BY <1>3 DEF ReviewInv, ReviewTypeOK
  <2>3. status' = status
    BY <1>0 DEF vars
  <2>4. QED BY <1>1, <1>2, <2>1, <2>2, <2>3 DEF ReviewInv, CallFits
<1>7. JudgedAsWritten'
  <2> SUFFICES ASSUME NEW w \in Writers, at'[w] = "write"
               PROVE  LET q == call'[w].key IN
                      /\ review[q] # NoReview /\ ~review[q].locked
                      /\ Judged(q, review[q], call'[w].change)
    BY <1>0 DEF JudgedAsWritten, Taken
  <2>1. CASE w = t
    <3>1. call'[w] = c
      BY <1>3, <2>1 DEF ReviewInv, ReviewTypeOK
    <3>2. QED BY <1>2, <1>3, <3>1 DEF Taken
  <2>2. CASE w # t
    <3>1. at[w] = "write" /\ call'[w] = call[w]
      BY <1>3, <2>2 DEF ReviewInv, ReviewTypeOK
    <3>2. QED BY <3>1 DEF ReviewInv, JudgedAsWritten, Taken
  <2>3. QED BY <2>1, <2>2
<1>8. ReviewedMatchEnded'
  BY <1>0 DEF ReviewInv, ReviewedMatchEnded, Taken, vars
<1>9. QED BY <1>4, <1>5, <1>6, <1>7, <1>8 DEF ReviewInv

\* What the holder of a row writes.
LEMMA WriterRow ==
  ASSUME ReviewInv, NEW t \in Writers, WriteReview(t)
  PROVE  LET k == call[t].key
             row == Changed(review[k], call[t].change)
         IN /\ k \in Keys /\ rowLock[k] = t /\ Taken(k) /\ ~review[k].locked
            /\ review' = [review EXCEPT ![k] = row]
            /\ row \in ReviewRows
            /\ row.by = review[k].by /\ row.created = review[k].created
<1> DEFINE k == call[t].key
<1>1. at[t] = "write" /\ review' = [review EXCEPT ![k] = Changed(@, call[t].change)]
  BY DEF WriteReview
<1>2. call[t] \in Calls /\ call[t].op = "edit" /\ rowLock[k] = t
  BY <1>1 DEF ReviewInv, CallFits
<1>3. k \in Keys /\ call[t].change \in Changes
  BY <1>2, KeyType
<1>4. Taken(k) /\ ~review[k].locked
  BY <1>1 DEF ReviewInv, JudgedAsWritten
<1>5. review[k] \in ReviewRows
  BY <1>3, <1>4 DEF ReviewInv, ReviewTypeOK, Taken
<1>6. /\ Changed(review[k], call[t].change) \in ReviewRows
      /\ Changed(review[k], call[t].change).by = review[k].by
      /\ Changed(review[k], call[t].change).created = review[k].created
  BY <1>3, <1>5, ChangedType
<1>7. review' = [review EXCEPT ![k] = Changed(review[k], call[t].change)]
  BY <1>1, <1>3 DEF ReviewInv, ReviewTypeOK
<1>8. QED BY <1>2, <1>3, <1>4, <1>6, <1>7

LEMMA WriteReviewStep ==
  ASSUME ReviewInv, NEW t \in Writers, WriteReview(t)
  PROVE  ReviewInv'
<1> DEFINE k == call[t].key
           row == Changed(review[k], call[t].change)
<1>0. Depart(t) /\ UNCHANGED <<vars, day, task, taskLock>>
  BY DEF WriteReview
<1>1. /\ k \in Keys /\ rowLock[k] = t /\ Taken(k)
      /\ review' = [review EXCEPT ![k] = row] /\ row \in ReviewRows
  BY WriterRow
<1> HIDE DEF row
<1>2. review' \in [Keys -> ReviewRows \cup {NoReview}]
  BY <1>1 DEF ReviewInv, ReviewTypeOK
<1>3. \A q \in Keys : /\ Taken(q) => Taken(q)'
                      /\ Taken(q)' => status[q[1]] = "ended"
  <2> SUFFICES ASSUME NEW q \in Keys
               PROVE  /\ review[q] # NoReview => review'[q] # NoReview
                      /\ review'[q] # NoReview => status[q[1]] = "ended"
    BY DEF Taken
  <2>1. CASE q # k
    BY <1>1, <2>1 DEF ReviewInv, ReviewTypeOK, ReviewedMatchEnded, Taken
  <2>2. CASE q = k
    <3>1. status[q[1]] = "ended"
      BY <1>1, <2>2 DEF ReviewInv, ReviewedMatchEnded
    <3>2. review'[q] # NoReview
      BY <1>1, <2>2, RowAssumption DEF ReviewInv, ReviewTypeOK
    <3>3. QED BY <3>1, <3>2
  <2>3. QED BY <2>1, <2>2
<1>4. ASSUME NEW w \in Writers, w # t, at[w] = "write"
      PROVE  review'[call[w].key] = review[call[w].key]
  <2>1. rowLock[call[w].key] = w
    BY <1>4 DEF ReviewInv, CallFits
  <2>2. call[w].key # k
    BY <1>1, <1>4, <2>1
  <2>3. QED BY <1>1, <2>2 DEF ReviewInv, ReviewTypeOK
<1>5. QED BY <1>0, <1>2, <1>3, <1>4, DepartStep

\* The task's own steps leave the requests alone.
LEMMA TaskMoves ==
  ASSUME ReviewInv, UNCHANGED <<vars, day, review, at, call>>,
         task' \in 0 .. MaxDay \cup {Off, Returning}, taskLock' \in BOOLEAN,
         rowLock' \in [Keys -> Writers \cup {Task, NoSlot}],
         \A k \in Keys : rowLock'[k] = Task
            => task' \notin {Off, Returning} /\ Taken(k),
         \A k \in Keys, t \in Writers : rowLock[k] = t => rowLock'[k] = t
  PROVE  ReviewInv'
<1>1. ReviewTypeOK' /\ TaskHolds'
  BY DEF ReviewInv, ReviewTypeOK, TaskHolds, TaskWorks, Taken
<1>2. CallFits'
  <2>1. ASSUME NEW t \in Writers, at[t] = "write"
        PROVE  rowLock'[call[t].key] = t
    <3>1. call[t].key \in Keys /\ rowLock[call[t].key] = t
      BY <2>1, KeyType DEF ReviewInv, CallFits
    <3>2. QED BY <3>1
  <2>2. status' = status
    BY DEF vars
  <2>3. QED BY <2>1, <2>2 DEF ReviewInv, CallFits
<1>3. JudgedAsWritten'
  BY SameJudged
<1>4. ReviewedMatchEnded'
  BY DEF ReviewInv, ReviewedMatchEnded, Taken, vars
<1>5. QED BY <1>1, <1>2, <1>3, <1>4 DEF ReviewInv

LEMMA TaskLeavesOwn ==
  ASSUME ReviewInv, NEW where, TaskLeaves(where)
  PROVE  /\ task' = where /\ taskLock' = taskLock
         /\ rowLock' \in [Keys -> Writers \cup {Task, NoSlot}]
         /\ \A k \in Keys : rowLock'[k] # Task
         /\ \A k \in Keys, t \in Writers : rowLock[k] = t => rowLock'[k] = t
BY ReviewAssumption DEF TaskLeaves, ReviewInv, ReviewTypeOK

\* What the task commits: rows it held are locked, the others are as they were.
LEMMA CommittedRows ==
  ASSUME ReviewInv, TaskCommit, NEW k \in Keys
  PROVE  /\ review'[k] = Locked(k)
         /\ rowLock[k] # Task => review'[k] = review[k]
         /\ rowLock[k] = Task =>
              /\ Taken(k) /\ review'[k] \in ReviewRows /\ review'[k].locked
              /\ review'[k].by = review[k].by
              /\ review'[k].created = review[k].created
              /\ review[k].locked => review'[k] = review[k]
<1>1. review'[k] = Locked(k)
  BY DEF TaskCommit
<1>2. CASE rowLock[k] # Task
  BY <1>1, <1>2 DEF Locked
<1>3. CASE rowLock[k] = Task
  <2>1. Taken(k) /\ review[k] \in ReviewRows
    BY <1>3 DEF ReviewInv, TaskHolds, ReviewTypeOK, Taken
  <2>2. review'[k] = [review[k] EXCEPT !.locked = TRUE]
    BY <1>1, <1>3 DEF Locked
  <2>3. /\ review'[k] \in ReviewRows /\ review'[k].locked
        /\ review'[k].by = review[k].by /\ review'[k].created = review[k].created
        /\ review[k].locked => review'[k] = review[k]
    <3>1. PICK row \in ReviewRows : row = review[k]
      BY <2>1
    <3>2. /\ [row EXCEPT !.locked = TRUE] \in ReviewRows
          /\ [row EXCEPT !.locked = TRUE].locked
          /\ [row EXCEPT !.locked = TRUE].by = row.by
          /\ [row EXCEPT !.locked = TRUE].created = row.created
          /\ row.locked => [row EXCEPT !.locked = TRUE] = row
      BY LockedRow
    <3>3. review'[k] = [row EXCEPT !.locked = TRUE]
      BY <2>2, <3>1
    <3>4. QED BY <3>1, <3>2, <3>3
  <2>4. QED BY <1>1, <1>3, <2>1, <2>3
<1>4. QED BY <1>2, <1>3

LEMMA TaskCommitStep ==
  ASSUME ReviewInv, TaskCommit
  PROVE  ReviewInv'
<1>0. TaskLeaves(Returning) /\ UNCHANGED <<vars, day, at, call>>
  BY DEF TaskCommit
<1>1. review' \in [Keys -> ReviewRows \cup {NoReview}]
  <2>1. review' = [k \in Keys |-> review'[k]]
    BY DEF TaskCommit
  <2>2. ASSUME NEW k \in Keys PROVE review'[k] \in ReviewRows \cup {NoReview}
    BY CommittedRows DEF ReviewInv, ReviewTypeOK
  <2>3. QED BY <2>1, <2>2
<1>2. ReviewTypeOK' /\ TaskHolds'
  BY <1>0, <1>1, TaskLeavesOwn DEF ReviewInv, ReviewTypeOK, TaskHolds
<1>3. ASSUME NEW t \in Writers, at[t] = "write"
      PROVE  /\ call[t].key \in Keys /\ rowLock'[call[t].key] = t
             /\ review'[call[t].key] = review[call[t].key]
  <2>1. call[t].key \in Keys /\ rowLock[call[t].key] = t
    BY <1>3, KeyType DEF ReviewInv, CallFits
  <2>2. QED BY <1>0, <2>1, TaskLeavesOwn, CommittedRows, ReviewAssumption
<1>4. CallFits'
  <2>1. status' = status
    BY <1>0 DEF vars
  <2>2. QED BY <1>0, <1>3, <2>1 DEF ReviewInv, CallFits
<1>5. JudgedAsWritten'
  <2> SUFFICES ASSUME NEW t \in Writers, at[t] = "write"
               PROVE  LET k == call[t].key IN
                      /\ review'[k] # NoReview /\ ~review'[k].locked
                      /\ Judged(k, review'[k], call[t].change)
    BY <1>0 DEF JudgedAsWritten, Taken
  <2>1. review'[call[t].key] = review[call[t].key]
    BY <1>3
  <2>2. QED BY <2>1 DEF ReviewInv, JudgedAsWritten, Taken
<1>6. ReviewedMatchEnded'
  <2> SUFFICES ASSUME NEW k \in Keys, review'[k] # NoReview PROVE status[k[1]] = "ended"
    BY <1>0 DEF ReviewedMatchEnded, Taken, vars
  <2>1. Taken(k)
    BY CommittedRows DEF Taken
  <2>2. QED BY <2>1 DEF ReviewInv, ReviewedMatchEnded
<1>7. QED BY <1>2, <1>4, <1>5, <1>6 DEF ReviewInv

LEMMA TaskSteps ==
  ASSUME ReviewInv, TaskStep \/ Tick
  PROVE  ReviewInv'
<1>1. CASE TaskBegin
  <2>1. /\ task = Off /\ task' = day /\ taskLock' = TRUE
        /\ UNCHANGED <<vars, day, review, rowLock, at, call>>
    BY <1>1 DEF TaskBegin
  <2>2. day \in 0 .. MaxDay /\ rowLock \in [Keys -> Writers \cup {Task, NoSlot}]
    BY DEF ReviewInv, ReviewTypeOK
  <2>3. \A k \in Keys : rowLock[k] # Task
    BY <2>1 DEF ReviewInv, TaskHolds, TaskWorks
  <2>4. QED BY <2>1, <2>2, <2>3, TaskMoves
<1>2. CASE TaskCommit
  BY <1>2, TaskCommitStep
<1>3. ASSUME NEW where \in {Off, Returning}, TaskLeaves(where),
             UNCHANGED <<vars, day, review, at, call>>
      PROVE  ReviewInv'
  <2>1. taskLock' \in BOOLEAN
    BY <1>3, TaskLeavesOwn DEF ReviewInv, ReviewTypeOK
  <2>2. QED BY <1>3, <2>1, TaskLeavesOwn, TaskMoves
<1>4. CASE TaskReturns
  <2>1. /\ task = Returning /\ task' = Off /\ taskLock' = FALSE
        /\ UNCHANGED <<vars, day, review, rowLock, at, call>>
    BY <1>4 DEF TaskReturns
  <2>2. /\ rowLock \in [Keys -> Writers \cup {Task, NoSlot}]
        /\ \A k \in Keys : rowLock[k] # Task
    BY <2>1 DEF ReviewInv, ReviewTypeOK, TaskHolds, TaskWorks
  <2>3. QED BY <2>1, <2>2, TaskMoves
<1>5. CASE Tick
  <2>1. /\ day < MaxDay /\ day' = day + 1
        /\ UNCHANGED <<vars, review, rowLock, at, call, task, taskLock>>
    BY <1>5 DEF Tick
  <2>2. day' \in 0 .. MaxDay
    BY <2>1, ReviewAssumption DEF ReviewInv, ReviewTypeOK
  <2>3. ReviewTypeOK' /\ TaskHolds'
    BY <2>1, <2>2 DEF ReviewInv, ReviewTypeOK, TaskHolds, TaskWorks, Taken
  <2>4. CallFits' /\ ReviewedMatchEnded'
    BY <2>1 DEF ReviewInv, CallFits, ReviewedMatchEnded, Taken, vars
  <2>5. JudgedAsWritten'
    BY <2>1, SameJudged
  <2>6. QED BY <2>3, <2>4, <2>5 DEF ReviewInv
<1>6. ASSUME NEW k \in Keys, TaskRow(k) PROVE ReviewInv'
  <2>1. /\ task \notin {Off, Returning} /\ Taken(k)
        /\ rowLock[k] = NoSlot /\ rowLock' = [rowLock EXCEPT ![k] = Task]
        /\ UNCHANGED <<vars, day, review, at, call, task, taskLock>>
    BY <1>6 DEF TaskRow, TaskWorks, Due, Hold
  <2>2. rowLock' \in [Keys -> Writers \cup {Task, NoSlot}]
    BY <2>1 DEF ReviewInv, ReviewTypeOK
  <2>3. \A q \in Keys : rowLock'[q] = Task
           => task' \notin {Off, Returning} /\ Taken(q)
    BY <2>1 DEF ReviewInv, ReviewTypeOK, TaskHolds, TaskWorks
  <2>4. \A q \in Keys, t \in Writers : rowLock[q] = t => rowLock'[q] = t
    BY <2>1, ReviewAssumption DEF ReviewInv, ReviewTypeOK
  <2>5. task' \in 0 .. MaxDay \cup {Off, Returning} /\ taskLock' \in BOOLEAN
    BY <2>1 DEF ReviewInv, ReviewTypeOK
  <2>6. QED BY <2>1, <2>2, <2>3, <2>4, <2>5, TaskMoves
<1>7. QED
  BY <1>1, <1>2, <1>3, <1>4, <1>5, <1>6 DEF TaskStep, TaskFails, TaskKilled

LEMMA ReviewInvStep == ReviewInv /\ TypeOK /\ [ReviewNext]_allVars => ReviewInv'
<1> SUFFICES ASSUME ReviewInv, TypeOK, [ReviewNext]_allVars PROVE ReviewInv'
  OBVIOUS
<1>1. CASE Next /\ UNCHANGED reviewVars
  BY <1>1, LessonStep
<1>2. ASSUME NEW t \in Writers, BeginReview(t) PROVE ReviewInv'
  BY <1>2, OuterReadStep, LockReviewStep DEF BeginReview
<1>3. ASSUME NEW t \in Writers, ContinueReview(t) PROVE ReviewInv'
  BY <1>3, RecountStep, InsertReviewStep, WriteReviewStep DEF ContinueReview
<1>4. ASSUME NEW t \in Writers, CrashReview(t) PROVE ReviewInv'
  BY <1>4, QuietDeparture DEF CrashReview
<1>5. CASE UNCHANGED allVars
  <2>1. UNCHANGED <<vars, day, review, rowLock, at, call, task, taskLock>>
    BY <1>5 DEF allVars, reviewVars
  <2>2. ReviewTypeOK' /\ TaskHolds' /\ CallFits' /\ ReviewedMatchEnded'
    BY <2>1 DEF ReviewInv, ReviewTypeOK, TaskHolds, TaskWorks, CallFits,
       ReviewedMatchEnded, Taken, vars
  <2>3. QED BY <2>1, <2>2, SameJudged DEF ReviewInv
<1>6. QED BY <1>1, <1>2, <1>3, <1>4, <1>5, TaskSteps DEF ReviewNext, ReviewStep

-----------------------------------------------------------------------------
(* The theorems *)

\* The lessons of the composed system behave as module SessionLog says: reviews
\* only read them.
THEOREM LessonsUndisturbed == ReviewSpec => Spec
<1>1. ReviewInit => Init
  BY DEF ReviewInit
<1>2. [ReviewNext]_allVars => [Next]_vars
  <2> SUFFICES ASSUME [ReviewNext]_allVars PROVE [Next]_vars
    OBVIOUS
  <2>1. CASE Next
    BY <2>1
  <2>2. CASE UNCHANGED vars
    BY <2>2
  <2>3. CASE UNCHANGED allVars
    BY <2>3 DEF allVars
  <2>4. ASSUME NEW t \in Writers, BeginReview(t) \/ CrashReview(t)
        PROVE  UNCHANGED vars
    BY <2>4 DEF BeginReview, OuterRead, LockReview, CrashReview
  <2>5. ASSUME NEW t \in Writers, ContinueReview(t)
        PROVE  UNCHANGED vars
    BY <2>5 DEF ContinueReview, Recount, InsertReview, WriteReview
  <2>6. ASSUME TaskStep \/ Tick
        PROVE  UNCHANGED vars
    BY <2>6 DEF TaskStep, TaskBegin, TaskRow, TaskCommit, TaskFails, TaskReturns,
       TaskKilled, Tick
  <2>7. QED
    BY <2>1, <2>2, <2>3, <2>4, <2>5, <2>6 DEF ReviewNext, ReviewStep
<1>3. QED BY <1>1, <1>2, PTL DEF ReviewSpec, Spec

\* So the edit history stays a trail while reviews are written.
THEOREM HistoryBesideReviews == ReviewSpec => []EditTrail
BY LessonsUndisturbed, HistoryIsATrail, PTL

LEMMA ReviewInvAlways == ReviewSpec => []ReviewInv
<1>1. ReviewSpec => []TypeOK
  BY LessonsUndisturbed, SessionTypeCorrect, PTL
<1>2. QED BY <1>1, InitReviewInv, ReviewInvStep, PTL DEF ReviewSpec

\* Reviews, calls and locks keep their shape.
THEOREM ReviewTypeCorrect == ReviewSpec => []ReviewTypeOK
<1>1. ReviewInv => ReviewTypeOK
  BY DEF ReviewInv
<1>2. QED BY <1>1, ReviewInvAlways, PTL

\* An edit is written into the row it was judged on (update_review, FOR UPDATE).
THEOREM EditsWrittenAsJudged == ReviewSpec => []JudgedAsWritten
<1>1. ReviewInv => JudgedAsWritten
  BY DEF ReviewInv
<1>2. QED BY <1>1, ReviewInvAlways, PTL

\* Only matches that have ended are reviewed, though the status is read outside
\* the transaction (create_review).
THEOREM OnlyEndedReviewed == ReviewSpec => []ReviewedMatchEnded
<1>1. ReviewInv => ReviewedMatchEnded
  BY DEF ReviewInv
<1>2. QED BY <1>1, ReviewInvAlways, PTL

\* How a stored review may change in one step.
LEMMA StoredReviewStep ==
  ASSUME ReviewInv, [ReviewNext]_allVars, NEW k \in Keys, Taken(k),
         review'[k] # review[k]
  PROVE  /\ ~review[k].locked /\ rowLock[k] # NoSlot
         /\ review'[k].by = review[k].by
         /\ review'[k].created = review[k].created
<1>1. review' # review
  OBVIOUS
<1>2. ASSUME NEW t \in Writers, InsertReview(t) PROVE FALSE
  BY <1>2 DEF InsertReview, ReviewInv, ReviewTypeOK
<1>3. ASSUME NEW t \in Writers, WriteReview(t)
      PROVE  /\ ~review[k].locked /\ rowLock[k] # NoSlot
             /\ review'[k].by = review[k].by
             /\ review'[k].created = review[k].created
  <2> DEFINE row == Changed(review[call[t].key], call[t].change)
  <2>1. /\ call[t].key \in Keys /\ rowLock[call[t].key] = t
        /\ ~review[call[t].key].locked
        /\ review' = [review EXCEPT ![call[t].key] = row]
        /\ row.by = review[call[t].key].by
        /\ row.created = review[call[t].key].created
    BY <1>3, WriterRow
  <2> HIDE DEF row
  <2>2. k = call[t].key /\ review'[k] = row
    BY <2>1 DEF ReviewInv, ReviewTypeOK
  <2>3. QED BY <2>1, <2>2, ReviewAssumption
<1>4. CASE TaskCommit
  BY <1>4, CommittedRows, ReviewAssumption
<1>5. CASE review' = review
  BY <1>1, <1>5
<1>6. QED
  BY <1>2, <1>3, <1>4, <1>5 DEF ReviewNext, ReviewStep, TaskStep, BeginReview,
     ContinueReview, OuterRead, LockReview, Recount, CrashReview, TaskBegin, TaskRow,
     TaskFails, TaskReturns, TaskKilled, Tick, allVars, reviewVars

\* A locked review is final (lock_expired_reviews against update_review).
THEOREM LockIsFinal == ReviewSpec => LockedIsFinal
<1>1. ReviewInv /\ [ReviewNext]_allVars
        => [\A k \in Keys : Taken(k) /\ review[k].locked => review'[k] = review[k]]_allVars
  BY StoredReviewStep
<1>2. QED BY <1>1, ReviewInvAlways, PTL DEF ReviewSpec, LockedIsFinal

\* A stored review is never replaced and changes only under its row's lock
\* (idx_reviews_unique, get_for_update).
THEOREM NeverReplaced == ReviewSpec => ChangedUnderLock
<1>1. ReviewInv /\ [ReviewNext]_allVars
        => [\A k \in Keys : Taken(k) /\ review'[k] # review[k]
              => /\ rowLock[k] # NoSlot
                 /\ review'[k].by = review[k].by
                 /\ review'[k].created = review[k].created]_allVars
  BY StoredReviewStep
<1>2. QED BY <1>1, ReviewInvAlways, PTL DEF ReviewSpec, ChangedUnderLock

=============================================================================
