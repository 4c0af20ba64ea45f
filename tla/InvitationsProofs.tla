-------------------------- MODULE InvitationsProofs -------------------------
(***************************************************************************)
(* Proofs about module Invitations, for every number of attempts, users,   *)
(* keys, matches and hours: it implements the match lifecycle, and the     *)
(* replays of a key name one match, made by its user under that key.       *)
(***************************************************************************)
EXTENDS Invitations, FiniteSetTheorems, TLAPS

-----------------------------------------------------------------------------
(* The invariant *)

\* The rows of matches, and that a match being terminated knows where it stood.
LifeTypeOK ==
  /\ match \in [MatchIds -> Row]
  /\ \A m \in MatchIds : match[m].status = "terminating" => match[m].prev \in PreTermination

\* A match has an origin only if it was created.
OriginCreated == \A m \in MatchIds : origin[m] # Nothing => match[m] # Absent

\* An attempt past its lookup carries a call; past the creation it knows its match.
CallFits ==
  \A a \in Attempts :
    /\ step[a] = "idle" => call[a] = NoCall
    /\ step[a] # "idle" => call[a] \in CallRecords
    /\ step[a] = "record"
         => /\ call[a].match \in MatchIds
            /\ origin[call[a].match] = <<call[a].user, call[a].key>>

\* What is recorded under a key was created under it, and only that was replayed.
RecordOwn ==
  \A o \in Owners :
    /\ stored[o] = Nothing => replayed[o] = {}
    /\ stored[o] # Nothing => /\ stored[o] \in StoredRows
                              /\ origin[stored[o].match] = o
                              /\ replayed[o] \subseteq {stored[o].match}

InvitationInv == InvitationTypeOK /\ LifeTypeOK /\ OriginCreated /\ CallFits /\ RecordOwn

\* The absence of a call or a record is neither.
LEMMA NothingTypes == NoCall \notin CallRecords
BY DEF NoCall, CallRecords

LEMMA InitInvitationInv == InvitationInit => InvitationInv
<1> SUFFICES ASSUME InvitationInit PROVE InvitationInv
  OBVIOUS
<1> USE InvitationAssumption DEF InvitationInit, Init
<1>1. InvitationTypeOK
  BY DEF InvitationTypeOK
<1>2. LifeTypeOK
  BY DEF LifeTypeOK, Row, Absent
<1>3. OriginCreated /\ CallFits /\ RecordOwn
  BY DEF OriginCreated, CallFits, RecordOwn
<1>4. QED BY <1>1, <1>2, <1>3 DEF InvitationInv

-----------------------------------------------------------------------------
(* The steps *)

\* The matches move: none is forgotten.
LEMMA MoveKeeps ==
  ASSUME LifeTypeOK, MatchesMove
  PROVE  LifeTypeOK' /\ \A m \in MatchIds : match[m] # Absent => match'[m] # Absent
<1> USE DEF LifeTypeOK, Row, Absent, PreTermination, Statuses, Live, Terminal
<1>1. ASSUME NEW m \in MatchIds, NEW new \in Statuses, Move(m, new)
      PROVE  LifeTypeOK' /\ \A n \in MatchIds : match[n] # Absent => match'[n] # Absent
  <2>1. new # "terminating"
    BY <1>1 DEF Move, Resolves, TRANSITIONS, Edge, Actions
  <2>2. match' = [match EXCEPT ![m].status = new]
    BY <1>1 DEF Move
  <2>3. [match[m] EXCEPT !.status = new] \in Row
    OBVIOUS
  <2>4. match' = [match EXCEPT ![m] = [match[m] EXCEPT !.status = new]]
    BY <2>2
  <2>5. QED BY <2>1, <2>3, <2>4
<1>2. ASSUME NEW m \in MatchIds, NEW u \in Users, Terminate(m, u)
      PROVE  LifeTypeOK' /\ \A n \in MatchIds : match[n] # Absent => match'[n] # Absent
  <2> DEFINE row == [match[m] EXCEPT !.status = "terminating", !.by = u,
                                     !.prev = match[m].status]
  <2>1. match[m].status \in PreTermination
    BY <1>2 DEF Terminate, Resolves, TRANSITIONS, Edge
  <2>2. row \in Row /\ row.status = "terminating" /\ row.prev \in PreTermination
    BY <2>1
  <2>3. match' = [match EXCEPT ![m] = row]
    BY <1>2 DEF Terminate
  <2> HIDE DEF row
  <2>4. QED BY <2>2, <2>3
<1>3. ASSUME NEW m \in MatchIds, NEW u \in Users, Contest(m, u)
      PROVE  LifeTypeOK' /\ \A n \in MatchIds : match[n] # Absent => match'[n] # Absent
  <2> DEFINE row == [match[m] EXCEPT !.status = match[m].prev, !.by = NoUser,
                                     !.prev = "none"]
  <2>1. match[m].prev \in PreTermination
    BY <1>3 DEF Contest
  <2>2. row \in Row /\ row.status \in PreTermination
    BY <2>1
  <2>3. match' = [match EXCEPT ![m] = row]
    BY <1>3 DEF Contest
  <2> HIDE DEF row
  <2>4. QED BY <2>2, <2>3
<1>4. ASSUME NEW t \in Tutors, NEW n \in Capacities, SetCapacity(t, n)
      PROVE  LifeTypeOK' /\ \A m \in MatchIds : match[m] # Absent => match'[m] # Absent
  BY <1>4 DEF SetCapacity
<1>5. QED BY <1>1, <1>2, <1>3, <1>4 DEF MatchesMove

LEMMA ArriveStep ==
  ASSUME InvitationInv, NEW a \in Attempts, NEW u \in Users, NEW key \in IdemKeys,
         NEW target \in Targets, NEW trial \in BOOLEAN, Arrive(a, u, key, target, trial)
  PROVE  InvitationInv'
<1> DEFINE o == <<u, key>>
           c == [user |-> u, key |-> key, target |-> target, trial |-> trial,
                 match |-> Nothing]
<1>0. step[a] = "idle" /\ UNCHANGED <<vars, hour, stored, origin>>
  BY DEF Arrive
<1>1. LifeTypeOK' /\ OriginCreated'
  BY <1>0 DEF InvitationInv, LifeTypeOK, OriginCreated, vars
<1>2. o \in Owners
  BY DEF Owners
<1>3. CASE /\ FindMatch(u, key) # {} /\ UNCHANGED <<step, call>>
           /\ replayed' = [replayed EXCEPT ![o] = @ \cup FindMatch(u, key)]
  <2>1. stored[o] # Nothing /\ FindMatch(u, key) = {stored[o].match}
    BY <1>2, <1>3 DEF FindMatch, Valid
  <2>2. stored[o].match \in MatchIds
    BY <1>2, <2>1 DEF InvitationInv, RecordOwn, StoredRows
  <2>3. InvitationTypeOK' /\ CallFits'
    BY <1>0, <1>2, <1>3, <2>1, <2>2 DEF InvitationInv, InvitationTypeOK, CallFits
  <2>4. RecordOwn'
    BY <1>0, <1>2, <1>3, <2>1 DEF InvitationInv, InvitationTypeOK, RecordOwn
  <2>5. QED BY <1>1, <2>3, <2>4 DEF InvitationInv
<1>4. CASE /\ call' = [call EXCEPT ![a] = c]
           /\ Goto(a, "bucket") /\ UNCHANGED replayed
  <2>1. c \in CallRecords
    BY DEF CallRecords
  <2> HIDE DEF c
  <2>2. InvitationTypeOK' /\ CallFits' /\ RecordOwn'
    BY <1>0, <1>4, <2>1 DEF InvitationInv, InvitationTypeOK, CallFits, RecordOwn, Goto
  <2>3. QED BY <1>1, <2>2 DEF InvitationInv
<1>5. QED BY <1>3, <1>4 DEF Arrive

LEMMA LeaveStep ==
  ASSUME InvitationInv, NEW a \in Attempts, Leave(a),
         UNCHANGED <<vars, hour, stored, origin, replayed>>
  PROVE  InvitationInv'
<1>1. LifeTypeOK' /\ OriginCreated' /\ RecordOwn'
  BY DEF InvitationInv, LifeTypeOK, OriginCreated, RecordOwn, vars
<1>2. InvitationTypeOK' /\ CallFits'
  BY DEF InvitationInv, InvitationTypeOK, CallFits, Leave, Goto
<1>3. QED BY <1>1, <1>2 DEF InvitationInv

LEMMA BucketStep ==
  ASSUME InvitationInv, NEW a \in Attempts, Bucket(a)
  PROVE  InvitationInv'
<1>0. step[a] = "bucket" /\ UNCHANGED <<vars, hour, stored, origin, replayed>>
  BY DEF Bucket
<1>1. CASE Leave(a)
  BY <1>0, <1>1, LeaveStep
<1>2. CASE Goto(a, "create") /\ UNCHANGED call
  <2>1. LifeTypeOK' /\ OriginCreated' /\ RecordOwn'
    BY <1>0 DEF InvitationInv, LifeTypeOK, OriginCreated, RecordOwn, vars
  <2>2. InvitationTypeOK' /\ CallFits'
    BY <1>0, <1>2 DEF InvitationInv, InvitationTypeOK, CallFits, Goto
  <2>3. QED BY <2>1, <2>2 DEF InvitationInv
<1>3. QED BY <1>1, <1>2 DEF Bucket

LEMMA CreateStep ==
  ASSUME InvitationInv, NEW a \in Attempts, Create(a)
  PROVE  InvitationInv'
<1>0. step[a] = "create" /\ UNCHANGED <<hour, stored, replayed>>
  BY DEF Create
<1>1. CASE Leave(a) /\ UNCHANGED <<vars, origin>>
  BY <1>0, <1>1, LeaveStep
<1>2. ASSUME NEW m \in MatchIds, Invite(m, call[a].trial),
             origin' = [origin EXCEPT ![m] = <<call[a].user, call[a].key>>],
             call' = [call EXCEPT ![a].match = m], Goto(a, "record")
      PROVE  InvitationInv'
  <2> DEFINE c == [call[a] EXCEPT !.match = m]
             o == <<call[a].user, call[a].key>>
  <2>1. call[a] \in CallRecords /\ call[a].trial \in BOOLEAN
    BY <1>0 DEF InvitationInv, CallFits, CallRecords
  <2>2. /\ c \in CallRecords /\ c.match = m
        /\ c.user = call[a].user /\ c.key = call[a].key /\ o \in Owners
    BY <2>1 DEF CallRecords, Owners
  <2>3. call' = [call EXCEPT ![a] = c] /\ origin' = [origin EXCEPT ![m] = o]
    BY <1>2
  <2>4. /\ match[m] = Absent /\ match' = [match EXCEPT ![m] = Invited(call[a].trial)]
        /\ Invited(call[a].trial) \in Row /\ Invited(call[a].trial) # Absent
        /\ Invited(call[a].trial).status # "terminating"
    BY <1>2, <2>1 DEF Invite, Invited, Row, Absent, Statuses, Live
  <2>5. origin[m] = Nothing
    BY <2>4 DEF InvitationInv, OriginCreated
  <2>6. o # Nothing
    BY <2>2, InvitationAssumption DEF Owners
  <2> HIDE DEF c, o
  <2>7. InvitationTypeOK'
    BY <1>0, <1>2, <2>2, <2>3 DEF InvitationInv, InvitationTypeOK, Goto
  <2>8. LifeTypeOK' /\ OriginCreated'
    <3>1. LifeTypeOK'
      BY <2>4 DEF InvitationInv, LifeTypeOK
    <3>2. OriginCreated'
      BY <2>3, <2>4 DEF InvitationInv, InvitationTypeOK, LifeTypeOK, OriginCreated
    <3>3. QED BY <3>1, <3>2
  <2>9. CallFits'
    <3> SUFFICES ASSUME NEW b \in Attempts
                 PROVE  /\ step'[b] = "idle" => call'[b] = NoCall
                        /\ step'[b] # "idle" => call'[b] \in CallRecords
                        /\ step'[b] = "record"
                             => /\ call'[b].match \in MatchIds
                                /\ origin'[call'[b].match] = <<call'[b].user, call'[b].key>>
      BY DEF CallFits
    <3>1. CASE b = a
      <4>1. step'[b] = "record" /\ call'[b] = c /\ origin'[m] = o
        BY <1>2, <2>3, <3>1 DEF InvitationInv, InvitationTypeOK, Goto
      <4>2. QED BY <2>2, <4>1 DEF o
    <3>2. CASE b # a
      <4>1. step'[b] = step[b] /\ call'[b] = call[b]
        BY <1>2, <2>3, <3>2 DEF InvitationInv, InvitationTypeOK, Goto
      <4>2. CASE step[b] = "record"
        <5>1. /\ call[b].match \in MatchIds /\ call[b] \in CallRecords
              /\ origin[call[b].match] = <<call[b].user, call[b].key>>
          BY <4>2 DEF InvitationInv, CallFits
        <5>2. origin[call[b].match] # Nothing
          BY <5>1, InvitationAssumption DEF CallRecords, Owners
        <5>3. call[b].match # m
          BY <2>5, <5>2
        <5>4. QED
          BY <2>3, <4>1, <4>2, <5>1, <5>3 DEF InvitationInv, InvitationTypeOK
      <4>3. CASE step[b] # "record"
        BY <4>1, <4>3 DEF InvitationInv, CallFits
      <4>4. QED BY <4>2, <4>3
    <3>3. QED BY <3>1, <3>2
  <2>10. RecordOwn'
    <3> SUFFICES ASSUME NEW p \in Owners, stored[p] # Nothing
                 PROVE  origin'[stored[p].match] = p
      BY <1>0 DEF InvitationInv, RecordOwn
    <3>1. stored[p].match \in MatchIds /\ origin[stored[p].match] = p
      BY DEF InvitationInv, RecordOwn, StoredRows
    <3>2. p # Nothing
      BY InvitationAssumption DEF Owners
    <3>3. stored[p].match # m
      BY <2>5, <3>1, <3>2
    <3>4. QED BY <2>3, <3>1, <3>3 DEF InvitationInv, InvitationTypeOK
  <2>11. QED BY <2>7, <2>8, <2>9, <2>10 DEF InvitationInv
<1>3. QED BY <1>1, <1>2 DEF Create

LEMMA RecordStep ==
  ASSUME InvitationInv, NEW a \in Attempts, Record(a)
  PROVE  InvitationInv'
<1> DEFINE o == <<call[a].user, call[a].key>>
           row == [match |-> call[a].match, expires |-> Expiry]
<1>0. /\ step[a] = "record" /\ Leave(a) /\ UNCHANGED <<vars, hour, origin, replayed>>
      /\ stored' = [stored EXCEPT ![o] = Keep(@, row)]
  BY DEF Record
<1>1. /\ call[a] \in CallRecords /\ call[a].match \in MatchIds
      /\ origin[call[a].match] = o
  BY <1>0 DEF InvitationInv, CallFits
<1>2. o \in Owners
  BY <1>1 DEF CallRecords, Owners
<1>3. row \in StoredRows /\ row.match = call[a].match
  BY <1>1, InvitationAssumption DEF StoredRows, Expiry, InvitationInv, InvitationTypeOK
<1> HIDE DEF row, o
<1>4. CASE stored[o] # Nothing
  <2>1. stored' = stored
    BY <1>0, <1>2, <1>4 DEF Keep, InvitationInv, InvitationTypeOK
  <2>2. QED BY <1>0, <2>1, LeaveStep
<1>5. CASE stored[o] = Nothing
  <2>1. stored' = [stored EXCEPT ![o] = row]
    BY <1>0, <1>2, <1>5 DEF Keep, InvitationInv, InvitationTypeOK
  <2>2. InvitationTypeOK' /\ CallFits'
    BY <1>0, <1>2, <1>3, <2>1 DEF InvitationInv, InvitationTypeOK, CallFits, Leave, Goto
  <2>3. RecordOwn'
    BY <1>0, <1>1, <1>2, <1>3, <1>5, <2>1 DEF InvitationInv, InvitationTypeOK, RecordOwn
  <2>4. LifeTypeOK' /\ OriginCreated'
    BY <1>0 DEF InvitationInv, LifeTypeOK, OriginCreated, vars
  <2>5. QED BY <2>2, <2>3, <2>4 DEF InvitationInv
<1>6. QED BY <1>4, <1>5

LEMMA InvitationInvStep == InvitationInv /\ [InvitationNext]_allVars => InvitationInv'
<1> SUFFICES ASSUME InvitationInv, [InvitationNext]_allVars PROVE InvitationInv'
  OBVIOUS
<1>1. CASE MatchesMove /\ UNCHANGED inviteVars
  <2>1. UNCHANGED <<hour, stored, step, call, origin, replayed>>
    BY <1>1 DEF inviteVars
  <2>2. LifeTypeOK' /\ OriginCreated'
    BY <1>1, <2>1, MoveKeeps DEF InvitationInv, OriginCreated
  <2>3. InvitationTypeOK' /\ CallFits' /\ RecordOwn'
    BY <2>1 DEF InvitationInv, InvitationTypeOK, CallFits, RecordOwn
  <2>4. QED BY <2>2, <2>3 DEF InvitationInv
<1>2. ASSUME NEW a \in Attempts, Bucket(a) \/ Create(a) \/ Record(a) \/ Crash(a)
      PROVE  InvitationInv'
  BY <1>2, BucketStep, CreateStep, RecordStep, LeaveStep DEF Crash
<1>3. CASE Tick
  <2>1. /\ hour < MaxHour /\ hour' = hour + 1
        /\ UNCHANGED <<vars, stored, step, call, origin, replayed>>
    BY <1>3 DEF Tick
  <2>2. hour' \in 0 .. MaxHour
    BY <2>1, InvitationAssumption DEF InvitationInv, InvitationTypeOK
  <2>3. InvitationTypeOK' /\ CallFits' /\ RecordOwn'
    BY <2>1, <2>2 DEF InvitationInv, InvitationTypeOK, CallFits, RecordOwn
  <2>4. LifeTypeOK' /\ OriginCreated'
    BY <2>1 DEF InvitationInv, LifeTypeOK, OriginCreated, vars
  <2>5. QED BY <2>3, <2>4 DEF InvitationInv
<1>4. CASE UNCHANGED allVars
  <2>1. UNCHANGED <<vars, hour, stored, step, call, origin, replayed>>
    BY <1>4 DEF allVars, inviteVars
  <2>2. InvitationTypeOK' /\ CallFits' /\ RecordOwn'
    BY <2>1 DEF InvitationInv, InvitationTypeOK, CallFits, RecordOwn
  <2>3. LifeTypeOK' /\ OriginCreated'
    BY <2>1 DEF InvitationInv, LifeTypeOK, OriginCreated, vars
  <2>4. QED BY <2>2, <2>3 DEF InvitationInv
<1>5. QED BY <1>1, <1>2, <1>3, <1>4, ArriveStep DEF InvitationNext

LEMMA InvitationInvAlways == InvitationSpec => []InvitationInv
BY InitInvitationInv, InvitationInvStep, PTL DEF InvitationSpec

-----------------------------------------------------------------------------
(* The theorems *)

\* Keys, calls and history keep their shape.
THEOREM InvitationTypeCorrect == InvitationSpec => []InvitationTypeOK
<1>1. InvitationInv => InvitationTypeOK
  BY DEF InvitationInv
<1>2. QED BY <1>1, InvitationInvAlways, PTL

\* A replay names a match its user created under this very key
\* (find_match_id, record).
THEOREM ReplaysAreOwn == InvitationSpec => []ReplayIsOwn
<1>1. InvitationInv => ReplayIsOwn
  BY DEF InvitationInv, RecordOwn, ReplayIsOwn
<1>2. QED BY <1>1, InvitationInvAlways, PTL

\* All replays of one key name one match (ON CONFLICT DO NOTHING).
THEOREM ReplaysNameOne == InvitationSpec => []ReplaysAgree
<1>1. InvitationInv => ReplaysAgree
  <2> SUFFICES ASSUME InvitationInv, NEW o \in Owners
               PROVE  Cardinality(replayed[o]) <= 1
    BY DEF ReplaysAgree
  <2>1. CASE replayed[o] = {}
    <3>1. Cardinality({}) = 0
      BY FS_EmptySet
    <3>2. QED BY <2>1, <3>1
  <2>2. CASE replayed[o] # {}
    <3>1. replayed[o] = {stored[o].match}
      BY <2>2 DEF InvitationInv, RecordOwn
    <3>2. Cardinality({stored[o].match}) = 1
      BY FS_Singleton
    <3>3. QED BY <3>1, <3>2
  <2>3. QED BY <2>1, <2>2
<1>2. QED BY <1>1, InvitationInvAlways, PTL

\* The endpoint only drives the lifecycle: every step of an attempt is an
\* invitation module MatchLifecycle allows, or leaves the matches alone.
THEOREM InvitationsImplementLifecycle == InvitationSpec => Spec
<1>1. InvitationInit => Init
  BY DEF InvitationInit
<1>2. InvitationInv /\ [InvitationNext]_allVars => [Next]_vars
  <2> SUFFICES ASSUME InvitationInv, [InvitationNext]_allVars PROVE [Next]_vars
    OBVIOUS
  <2>1. CASE MatchesMove
    BY <2>1 DEF MatchesMove, Next
  <2>2. ASSUME NEW a \in Attempts, Create(a) PROVE [Next]_vars
    <3>1. CASE UNCHANGED vars
      BY <3>1
    <3>2. CASE \E m \in MatchIds : Invite(m, call[a].trial)
      <4>1. call[a].trial \in BOOLEAN
        BY <2>2 DEF Create, InvitationInv, CallFits, CallRecords
      <4>2. QED BY <3>2, <4>1 DEF Next
    <3>3. QED BY <2>2, <3>1, <3>2 DEF Create
  <2>3. CASE UNCHANGED vars
    BY <2>3
  <2>4. CASE UNCHANGED allVars
    BY <2>4 DEF allVars
  <2>5. QED
    BY <2>1, <2>2, <2>3, <2>4 DEF InvitationNext, Bucket, Record, Crash, Arrive, Tick
<1>3. QED BY <1>1, <1>2, InvitationInvAlways, PTL DEF InvitationSpec, Spec
=============================================================================
