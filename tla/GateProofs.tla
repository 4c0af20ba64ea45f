------------------------------ MODULE GateProofs ----------------------------
(***************************************************************************)
(* Proofs about module Gate, for any number of requests, workers, users    *)
(* and buckets, and every quota, pool and window the settings allow.       *)
(***************************************************************************)
EXTENDS Gate, FiniteSetTheorems, TLAPS

-----------------------------------------------------------------------------
(* The quota of a worker *)

Requests ==
  [caller : Users \cup {Anonymous}, worker : Workers \cup {NoSlot},
   key : Keys \cup {NoSlot}, closed : BOOLEAN]

Steps == Counted \cup {"idle", "identify"}

CallsOK ==
  /\ pc \in [Slots -> Steps]
  /\ req \in [Slots -> Requests]
  /\ counts \in [Workers -> [Users -> Nat]]
  /\ \A s \in Slots :
       /\ pc[s] # "idle" => req[s].worker \in Workers /\ req[s].key \in Keys
       /\ pc[s] = "identify" => req[s].caller \in Users

WithinQuota == \A w \in Workers, u \in Users : counts[w][u] <= Quota

QuotaInv == CallsOK /\ QuotaIsInFlight /\ WithinQuota

LEMMA InFlightFinite ==
  \A w, u : IsFiniteSet(InFlight(w, u)) /\ Cardinality(InFlight(w, u)) \in Nat
<1> SUFFICES ASSUME NEW w, NEW u
             PROVE  IsFiniteSet(InFlight(w, u)) /\ Cardinality(InFlight(w, u)) \in Nat
  OBVIOUS
<1>1. InFlight(w, u) \in SUBSET Slots
  BY DEF InFlight, At
<1>2. IsFiniteSet(Slots)
  BY GateAssumption
<1>3. QED BY <1>1, <1>2, FS_Subset, FS_CardinalityType

LEMMA InitQuotaInv == Init => QuotaInv
<1> SUFFICES ASSUME Init PROVE QuotaInv
  OBVIOUS
<1>1. CallsOK
  <2>1. NoReq \in Requests
    BY DEF NoReq, Requests
  <2>2. QED BY <2>1 DEF Init, CallsOK, Steps
<1>2. \A w \in Workers, u \in Users : counts[w][u] = 0
  BY DEF Init
<1>3. \A w \in Workers, u \in Users : InFlight(w, u) = {}
  BY DEF Init, InFlight, At, Counted, Limiting
<1>4. QuotaIsInFlight /\ WithinQuota
  <2>1. Cardinality({}) = 0 /\ 0 <= Quota
    BY FS_EmptySet, GateAssumption
  <2>2. QuotaIsInFlight
    BY <1>2, <1>3, <2>1 DEF QuotaIsInFlight
  <2>3. QED BY <1>2, <2>1, <2>2 DEF WithinQuota
<1>5. QED BY <1>1, <1>4 DEF QuotaInv

\* A request in the quota goes on to another step of it.
LEMMA StaysCounted ==
  ASSUME QuotaInv, UNCHANGED <<req, counts>>, NEW s \in Slots, NEW p \in Counted,
         pc[s] \in Counted, Goto(s, p)
  PROVE  QuotaInv'
<1>1. /\ pc' \in [Slots -> Steps]
      /\ pc'[s] = p /\ \A o \in Slots \ {s} : pc'[o] = pc[o]
  BY DEF QuotaInv, CallsOK, Goto, Steps
<1>2. /\ p # "idle" /\ pc[s] # "idle"
      /\ p # "identify" /\ pc[s] # "identify"
  BY DEF Counted, Limiting
<1>3. CallsOK'
  BY <1>1, <1>2 DEF QuotaInv, CallsOK, Requests, Counted, Limiting, Steps
<1>4. \A w \in Workers, u \in Users : InFlight(w, u)' = InFlight(w, u)
  BY <1>1 DEF InFlight, At, Counted, Limiting
<1>5. QED BY <1>3, <1>4 DEF QuotaInv, QuotaIsInFlight, WithinQuota

\* In front of the quota, and past it as nobody, a request counts nowhere.
LEMMA StaysUncounted ==
  ASSUME QuotaInv, UNCHANGED counts, NEW s \in Slots, NEW p \in Steps, NEW r \in Requests,
         pc[s] \notin Counted, Goto(s, p), req' = [req EXCEPT ![s] = r],
         p \in Counted => r.caller = Anonymous,
         p # "idle" => r.worker \in Workers /\ r.key \in Keys,
         p = "identify" => r.caller \in Users
  PROVE  QuotaInv'
<1>1. /\ pc' \in [Slots -> Steps] /\ req' \in [Slots -> Requests]
      /\ pc'[s] = p /\ req'[s] = r
      /\ \A o \in Slots \ {s} : pc'[o] = pc[o] /\ req'[o] = req[o]
  BY DEF QuotaInv, CallsOK, Goto
<1>2. CallsOK'
  BY <1>1 DEF QuotaInv, CallsOK, Requests, Counted, Limiting, Steps
<1>3. \A w \in Workers, u \in Users : InFlight(w, u)' = InFlight(w, u)
  <2> SUFFICES ASSUME NEW w \in Workers, NEW u \in Users, NEW o \in Slots
               PROVE  o \in InFlight(w, u)' <=> o \in InFlight(w, u)
    BY DEF InFlight, At
  <2>1. CASE o = s
    BY <1>1, <2>1, GateAssumption DEF InFlight, At
  <2>2. CASE o # s
    BY <1>1, <2>2 DEF InFlight, At
  <2>3. QED BY <2>1, <2>2
<1>4. QED BY <1>2, <1>3 DEF QuotaInv, QuotaIsInFlight, WithinQuota

LEMMA EnterQuotaCounts ==
  ASSUME QuotaInv, NEW s \in Slots, EnterQuota(s)
  PROVE  QuotaInv'
<1> USE GateAssumption
<1>1. /\ pc[s] = "identify" /\ HasRoom(req[s].worker, req[s].caller)
      /\ req' = req /\ pc' = [pc EXCEPT ![s] = "lease"]
      /\ counts' = [counts EXCEPT ![req[s].worker][req[s].caller] = @ + 1]
  BY DEF EnterQuota, Goto
<1>0. PICK w \in Workers, u \in Users : w = req[s].worker /\ u = req[s].caller
  BY <1>1 DEF QuotaInv, CallsOK
<1>2. /\ pc'[s] = "lease" /\ \A o \in Slots \ {s} : pc'[o] = pc[o]
      /\ pc' \in [Slots -> Steps]
  BY <1>1 DEF QuotaInv, CallsOK, Counted, Steps
<1>3. /\ counts' \in [Workers -> [Users -> Nat]]
      /\ \A v \in Workers, x \in Users :
           counts'[v][x] = IF v = w /\ x = u THEN counts[v][x] + 1 ELSE counts[v][x]
  BY <1>0, <1>1 DEF QuotaInv, CallsOK
<1>4. CallsOK'
  BY <1>1, <1>2, <1>3 DEF QuotaInv, CallsOK, Requests, Counted, Limiting, Steps
<1>5. WithinQuota'
  <2>1. counts[w][u] + 1 <= Quota
    BY <1>0, <1>1 DEF HasRoom, QuotaInv, CallsOK
  <2>2. QED BY <1>3, <2>1 DEF QuotaInv, WithinQuota
<1>6. ASSUME NEW v \in Workers, NEW x \in Users
      PROVE  counts'[v][x] = Cardinality(InFlight(v, x)')
  <2>1. CASE v = w /\ x = u
    <3>1. InFlight(v, x)' = InFlight(v, x) \cup {s} /\ s \notin InFlight(v, x)
      BY <1>0, <1>1, <1>2, <2>1 DEF InFlight, At, Counted, Limiting
    <3>2. Cardinality(InFlight(v, x)') = Cardinality(InFlight(v, x)) + 1
      BY <3>1, InFlightFinite, FS_AddElement
    <3>3. QED BY <1>3, <2>1, <3>2 DEF QuotaInv, QuotaIsInFlight
  <2>2. CASE ~(v = w /\ x = u)
    <3>1. InFlight(v, x)' = InFlight(v, x)
      BY <1>0, <1>1, <1>2, <2>2 DEF InFlight, At, Counted, Limiting
    <3>2. QED BY <1>3, <2>2, <3>1 DEF QuotaInv, QuotaIsInFlight
  <2>3. QED BY <2>1, <2>2
<1>7. QED BY <1>4, <1>5, <1>6 DEF QuotaInv, QuotaIsInFlight

LEMMA EnterKeepsQuota ==
  ASSUME QuotaInv, NEW s \in Slots, Enter(s)
  PROVE  QuotaInv'
<1>1. CASE EnterQuota(s)
  BY <1>1, EnterQuotaCounts
<1>2. ASSUME NEW w \in Workers, NEW u \in Users \cup {Anonymous}, NEW k \in Keys,
             NEW c \in BOOLEAN, NEW p \in {"identify", "lease"},
             u = Anonymous <=> p = "lease",
             pc[s] = "idle", Goto(s, p), UNCHANGED counts,
             req' = [req EXCEPT ![s] = [caller |-> u, worker |-> w, key |-> k, closed |-> c]]
      PROVE  QuotaInv'
  <2> DEFINE r == [caller |-> u, worker |-> w, key |-> k, closed |-> c]
  <2>1. r \in Requests /\ r.caller = u /\ r.worker = w /\ r.key = k
    BY DEF Requests
  <2>2. req' = [req EXCEPT ![s] = r]
    BY <1>2
  <2> HIDE DEF r
  <2>3. p \in Steps /\ pc[s] \notin Counted /\ (p \in Counted => p = "lease")
    BY <1>2 DEF Steps, Counted, Limiting
  <2>4. QED BY <1>2, <2>1, <2>2, <2>3, StaysUncounted
<1>3. ASSUME NEW w \in Workers, NEW u \in Users, NEW k \in Keys, NEW c \in BOOLEAN,
             Identify(s, w, u, k, c)
      PROVE  QuotaInv'
  <2>1. u # Anonymous
    BY GateAssumption
  <2>2. QED BY <1>2, <1>3, <2>1 DEF Identify
<1>4. ASSUME NEW w \in Workers, NEW k \in Keys, NEW c \in BOOLEAN,
             EnterAnonymous(s, w, k, c)
      PROVE  QuotaInv'
  BY <1>2, <1>4 DEF EnterAnonymous
<1>5. CASE RefuseQuota(s)
  <2>1. NoReq \in Requests /\ pc[s] \notin Counted /\ "idle" \in Steps \ Counted
    BY <1>5 DEF RefuseQuota, NoReq, Requests, Steps, Counted, Limiting
  <2>2. Goto(s, "idle") /\ req' = [req EXCEPT ![s] = NoReq] /\ UNCHANGED counts
    BY <1>5 DEF RefuseQuota, Answer
  <2>3. QED BY <2>1, <2>2, StaysUncounted
<1>6. CASE EnterRevoked(s)
  <2> DEFINE r == [req[s] EXCEPT !.caller = Anonymous]
  <2>1. /\ pc[s] = "identify" /\ req[s] \in Requests
        /\ req[s].worker \in Workers /\ req[s].key \in Keys
    BY <1>6 DEF EnterRevoked, QuotaInv, CallsOK
  <2>2. r \in Requests /\ r.caller = Anonymous /\ r.worker \in Workers /\ r.key \in Keys
    BY <2>1 DEF Requests
  <2>3. req' = [req EXCEPT ![s] = r] /\ Goto(s, "lease") /\ UNCHANGED counts
    BY <1>6 DEF EnterRevoked, QuotaInv, CallsOK
  <2> HIDE DEF r
  <2>4. pc[s] \notin Counted /\ "lease" \in Steps
    BY <2>1 DEF Steps, Counted, Limiting
  <2>5. QED BY <2>2, <2>3, <2>4, StaysUncounted
<1>7. QED BY <1>1, <1>3, <1>4, <1>5, <1>6 DEF Enter

\* Whatever the reason, the counter goes down with the answer.
LEMMA AnswerUncounts ==
  ASSUME QuotaInv, NEW s \in Slots, pc[s] \in Counted, LeaveQuota(s), Answer(s)
  PROVE  QuotaInv'
<1> USE GateAssumption
<1>0. /\ req' = [req EXCEPT ![s] = NoReq] /\ pc' = [pc EXCEPT ![s] = "idle"]
      /\ NoReq \in Requests
  BY DEF Answer, Goto, NoReq, Requests
<1>1. /\ req'[s] = NoReq /\ pc'[s] = "idle"
      /\ \A o \in Slots \ {s} : req'[o] = req[o] /\ pc'[o] = pc[o]
      /\ req' \in [Slots -> Requests] /\ pc' \in [Slots -> Steps]
  BY <1>0 DEF QuotaInv, CallsOK, Steps
<1>2. pc[s] # "idle" /\ req[s].worker \in Workers /\ req[s] \in Requests
  BY DEF QuotaInv, CallsOK, Counted, Limiting
<1>3. PICK w \in Workers, u \in Users \cup {Anonymous} : w = req[s].worker /\ u = req[s].caller
  BY <1>2 DEF Requests
<1>4. ASSUME NEW v \in Workers, NEW x \in Users
      PROVE  /\ v = w /\ x = u =>
                  /\ Cardinality(InFlight(v, x)') = counts[v][x] - 1
                  /\ counts[v][x] \in Nat \ {0}
             /\ ~(v = w /\ x = u) => Cardinality(InFlight(v, x)') = counts[v][x]
  <2>0. counts[v][x] = Cardinality(InFlight(v, x)) /\ counts[v][x] \in Nat
    BY DEF QuotaInv, QuotaIsInFlight, CallsOK
  <2>1. CASE v = w /\ x = u
    <3>1. InFlight(v, x)' = InFlight(v, x) \ {s} /\ s \in InFlight(v, x)
      BY <1>1, <1>3, <2>1 DEF InFlight, At, Counted, Limiting
    <3>2. Cardinality(InFlight(v, x)') = Cardinality(InFlight(v, x)) - 1
      <4>1. IsFiniteSet(InFlight(v, x))
        BY InFlightFinite
      <4>2. PICK before : before = InFlight(v, x)
        OBVIOUS
      <4>3. PICK after : after = InFlight(v, x)'
        OBVIOUS
      <4>4. IsFiniteSet(before) /\ s \in before /\ after = before \ {s}
        BY <3>1, <4>1, <4>2, <4>3
      <4>5. Cardinality(after) = Cardinality(before) - 1
        BY <4>4, FS_RemoveElement
      <4>6. QED BY <4>2, <4>3, <4>5
    <3>3. Cardinality(InFlight(v, x)) # 0
      BY <3>1, InFlightFinite, FS_EmptySet
    <3>4. QED BY <2>0, <2>1, <3>2, <3>3
  <2>2. CASE ~(v = w /\ x = u)
    <3>1. InFlight(v, x)' = InFlight(v, x)
      BY <1>1, <1>3, <2>2 DEF InFlight, At, Counted, Limiting
    <3>2. QED BY <2>0, <2>2, <3>1
  <2>3. QED BY <2>1, <2>2
<1>5. counts' = IF u = Anonymous THEN counts ELSE [counts EXCEPT ![w][u] = @ - 1]
  BY <1>3 DEF LeaveQuota
<1>6. \A v \in Workers, x \in Users :
        counts'[v][x] = IF v = w /\ x = u THEN counts[v][x] - 1 ELSE counts[v][x]
  BY <1>3, <1>5 DEF QuotaInv, CallsOK
<1>7. counts' \in [Workers -> [Users -> Nat]]
  <2>1. u \in Users => counts[w][u] - 1 \in Nat
    BY <1>4
  <2>2. QED BY <1>3, <1>5, <2>1 DEF QuotaInv, CallsOK
<1>8. CallsOK'
  BY <1>1, <1>7 DEF QuotaInv, CallsOK, Requests, Counted, Limiting, Steps
<1>9. QuotaIsInFlight'
  BY <1>4, <1>6 DEF QuotaIsInFlight
<1>10. WithinQuota'
  <2> SUFFICES ASSUME NEW v \in Workers, NEW x \in Users PROVE counts'[v][x] <= Quota
    BY DEF WithinQuota
  <2>1. counts[v][x] \in Nat /\ counts[v][x] <= Quota
    BY DEF QuotaInv, CallsOK, WithinQuota
  <2>2. QED BY <1>6, <2>1
<1>11. QED BY <1>8, <1>9, <1>10 DEF QuotaInv

LEMMA QuotaInvKept == QuotaInv /\ [Next]_vars => QuotaInv'
<1> SUFFICES ASSUME QuotaInv, [Next]_vars PROVE QuotaInv'
  OBVIOUS
<1>1. CASE UNCHANGED vars \/ Cleanup \/ Tick
  <2>1. UNCHANGED <<pc, req, counts>>
    BY <1>1 DEF vars, Cleanup, Tick
  <2>2. \A w, u : InFlight(w, u)' = InFlight(w, u)
    BY <2>1 DEF InFlight, At, Counted, Limiting
  <2>3. QED
    BY <2>1, <2>2 DEF QuotaInv, CallsOK, QuotaIsInFlight, WithinQuota, Requests, Counted,
       Limiting, Steps
<1>2. ASSUME NEW s \in Slots, Enter(s)
      PROVE  QuotaInv'
  BY <1>2, EnterKeepsQuota
<1>3. ASSUME NEW s \in Slots,
             RefuseCsrf(s) \/ Limit(s) \/ LockBucket(s) \/ DbError(s) \/ Handle(s)
      PROVE  QuotaInv'
  <2>1. CASE LeaveQuota(s) /\ Answer(s)
    <3>1. pc[s] \in Counted
      BY <1>3 DEF RefuseCsrf, Limit, LockBucket, DbError, Handle, LeaseRl, BeginTx, CountBelow,
         RefuseFull, CommitHit, LeaseFails, LeaseDb, ReturnDb, LeaseRefused, Finish, Counted, Limiting
    <3>2. QED BY <2>1, <3>1, AnswerUncounts
  <2>2. CASE \E p \in Counted : Goto(s, p) /\ UNCHANGED <<req, counts>>
    <3>1. pc[s] \in Counted
      BY <1>3 DEF RefuseCsrf, Limit, LockBucket, DbError, Handle, LeaseRl, BeginTx, CountBelow,
         RefuseFull, CommitHit, LeaseFails, LeaseDb, ReturnDb, LeaseRefused, Finish, Counted, Limiting
    <3>2. QED BY <2>2, <3>1, StaysCounted
  <2>3. QED
    BY <1>3, <2>1, <2>2 DEF RefuseCsrf, Limit, LockBucket, DbError, Handle, LeaseRl, BeginTx,
       CountBelow, RefuseFull, CommitHit, LeaseFails, LetThrough, ToHandler, LeaseDb, ReturnDb, LeaseRefused, Finish,
       Counted, Limiting
<1>4. QED BY <1>1, <1>2, <1>3 DEF Next

THEOREM QuotaInvariant == GateSpec => []QuotaInv
BY InitQuotaInv, QuotaInvKept, PTL DEF GateSpec

\* A worker's counter for a user is the number of that user's requests it has
\* let in and not yet answered (user_quota.py, __call__).
THEOREM CountersAreInFlight == GateSpec => []QuotaIsInFlight
<1>1. QuotaInv => QuotaIsInFlight
  BY DEF QuotaInv
<1>2. QED BY <1>1, QuotaInvariant, PTL

\* A worker looks up one token at a time.
OneLookup ==
  \A s, o \in Slots :
    pc[s] = "identify" /\ pc[o] = "identify" /\ req[s].worker = req[o].worker => s = o

LEMMA OneLookupKept == QuotaInv /\ OneLookup /\ [Next]_vars => OneLookup'
<1> SUFFICES ASSUME QuotaInv, OneLookup, [Next]_vars PROVE OneLookup'
  OBVIOUS
<1>1. CASE UNCHANGED <<pc, req>>
  BY <1>1 DEF OneLookup
<1>2. ASSUME NEW s \in Slots, NEW p, p # "identify", Goto(s, p),
             \A o \in Slots \ {s} : req'[o] = req[o]
      PROVE  OneLookup'
  BY <1>2 DEF OneLookup, QuotaInv, CallsOK, Goto
<1>3. ASSUME NEW s \in Slots, NEW w \in Workers, NEW u \in Users, NEW k \in Keys,
             NEW c \in BOOLEAN, Identify(s, w, u, k, c)
      PROVE  OneLookup'
  <2>1. /\ \A o \in Slots : ~(req[o].worker = w /\ pc[o] = "identify")
        /\ \A o \in Slots \ {s} : pc'[o] = pc[o] /\ req'[o] = req[o]
        /\ req'[s].worker = w
    BY <1>3 DEF Identify, At, Goto, QuotaInv, CallsOK
  <2>2. QED BY <2>1 DEF OneLookup
<1>4. ASSUME NEW s \in Slots, EnterQuota(s) \/ RefuseQuota(s) \/ EnterRevoked(s)
      PROVE  OneLookup'
  BY <1>2, <1>4 DEF EnterQuota, RefuseQuota, EnterRevoked, Answer, QuotaInv, CallsOK
<1>5. ASSUME NEW s \in Slots, NEW w \in Workers, NEW k \in Keys, NEW c \in BOOLEAN,
             EnterAnonymous(s, w, k, c)
      PROVE  OneLookup'
  BY <1>2, <1>5 DEF EnterAnonymous, QuotaInv, CallsOK
<1>6. ASSUME NEW s \in Slots,
             RefuseCsrf(s) \/ Limit(s) \/ LockBucket(s) \/ DbError(s) \/ Handle(s)
      PROVE  OneLookup'
  <2>1. CASE Answer(s)
    BY <1>2, <2>1 DEF Answer, QuotaInv, CallsOK
  <2>2. CASE UNCHANGED req /\ \E p \in Counted : Goto(s, p)
    <3>1. "identify" \notin Counted
      BY DEF Counted, Limiting
    <3>2. QED BY <1>2, <2>2, <3>1
  <2>3. QED
    BY <1>6, <2>1, <2>2 DEF RefuseCsrf, Limit, LockBucket, DbError, Handle, LeaseRl, BeginTx,
       CountBelow, RefuseFull, CommitHit, LeaseFails, LetThrough, ToHandler, LeaseDb, ReturnDb,
       LeaseRefused, Finish, Counted, Limiting
<1>7. QED
  BY <1>1, <1>3, <1>4, <1>5, <1>6 DEF Next, Enter, Cleanup, Tick, vars

\* A lookup and two connections for every request let in: what one account holds
\* of a worker's pool (security.py:366-387, database.py:81-98).
THEOREM CallerIsBounded == GateSpec => []CallerTakesAtMost
<1>1. QuotaInv /\ OneLookup => CallerTakesAtMost
  <2> SUFFICES ASSUME QuotaInv, OneLookup, NEW w \in Workers, NEW u \in Users
               PROVE  LeasedBy(w, u) <= 2 * Quota + 1
    BY DEF CallerTakesAtMost
  <2> DEFINE one == {s \in At(w, Leasing) : req[s].caller = u}
             two == {s \in At(w, {"nested"}) : req[s].caller = u}
             looking == At(w, {"identify"})
  <2>1. /\ one \subseteq InFlight(w, u) \cup looking /\ two \subseteq InFlight(w, u)
        /\ looking \subseteq Slots
    BY DEF At, InFlight, Counted, Leasing
  <2>2. /\ IsFiniteSet(InFlight(w, u)) /\ Cardinality(InFlight(w, u)) \in Nat
        /\ Cardinality(InFlight(w, u)) <= Quota
    BY InFlightFinite DEF QuotaInv, QuotaIsInFlight, WithinQuota
  <2>3. IsFiniteSet(looking) /\ Cardinality(looking) \in {0, 1}
    <3>1. CASE looking = {}
      BY <3>1, FS_EmptySet
    <3>2. CASE looking # {}
      <4>1. PICK s \in looking : TRUE
        BY <3>2
      <4>2. looking = {s}
        BY <4>1 DEF At, OneLookup
      <4>3. QED BY <4>2, FS_Singleton
    <3>3. QED BY <3>1, <3>2
  <2> HIDE DEF one, two, looking
  <2>4. PICK in : in = InFlight(w, u)
    OBVIOUS
  <2>5. /\ IsFiniteSet(in \cup looking)
        /\ Cardinality(in \cup looking)
             = Cardinality(in) + Cardinality(looking) - Cardinality(in \cap looking)
        /\ Cardinality(in \cap looking) \in Nat
    <3>1. IsFiniteSet(in \cap looking)
      BY <2>3, FS_Intersection
    <3>2. QED BY <2>2, <2>3, <2>4, <3>1, FS_Union, FS_CardinalityType
  <2>6. /\ Cardinality(one) <= Cardinality(in \cup looking) /\ Cardinality(one) \in Nat
        /\ Cardinality(two) <= Cardinality(in) /\ Cardinality(two) \in Nat
    BY <2>1, <2>2, <2>4, <2>5, FS_Subset, FS_CardinalityType
  <2>7. Cardinality(one) + Cardinality(two) <= 2 * Quota + 1
    BY <2>2, <2>3, <2>4, <2>5, <2>6, GateAssumption
  <2>8. QED BY <2>7 DEF LeasedBy, one, two
<1>2. Init => OneLookup
  BY DEF Init, OneLookup
<1>3. QED BY <1>1, <1>2, OneLookupKept, QuotaInvariant, PTL DEF GateSpec

-----------------------------------------------------------------------------
(* Time and locks in the limiter *)

Timely(p, a, b) ==
  /\ p \in Limiting => a <= now /\ now <= a + Patience
  /\ p \in {"wait", "count", "commit"} => a <= b /\ b <= now

TimeInv ==
  /\ now \in Times /\ since \in [Slots -> Times] /\ stamp \in [Slots -> Times]
  /\ \A s \in Slots : Timely(pc[s], since[s], stamp[s])

\* A request that counts holds the lock of its bucket, and nobody else's row
\* gets between the count and its own.
LockInv ==
  /\ bucketLock \in [Keys -> Slots \cup {NoSlot}]
  /\ \A s \in Slots : pc[s] \in {"count", "commit"} => bucketLock[req[s].key] = s

LEMMA TimesAreNat == 0 \in Times /\ \A t \in Times : t \in Nat /\ t <= MaxTime
BY GateAssumption DEF Times

LEMMA InitTimeInv == Init => TimeInv /\ LockInv
<1> SUFFICES ASSUME Init PROVE TimeInv /\ LockInv
  OBVIOUS
<1>1. \A s \in Slots : pc[s] = "idle"
  BY DEF Init
<1>2. TimeInv
  BY <1>1, TimesAreNat DEF Init, TimeInv, Timely, Limiting
<1>3. LockInv
  BY <1>1 DEF Init, LockInv
<1>4. QED BY <1>2, <1>3

LEMMA OneTimely ==
  ASSUME QuotaInv, TimeInv, now' = now, NEW s \in Slots, NEW p, NEW a \in Times, NEW b \in Times,
         since' = [since EXCEPT ![s] = a], stamp' = [stamp EXCEPT ![s] = b],
         pc' = [pc EXCEPT ![s] = p], Timely(p, a, b)
  PROVE  TimeInv'
<1>1. /\ since'[s] = a /\ stamp'[s] = b /\ pc'[s] = p
      /\ \A o \in Slots \ {s} : since'[o] = since[o] /\ stamp'[o] = stamp[o] /\ pc'[o] = pc[o]
      /\ since' \in [Slots -> Times] /\ stamp' \in [Slots -> Times]
  BY DEF TimeInv, QuotaInv, CallsOK
<1>2. \A o \in Slots : Timely(pc[o], since[o], stamp[o])'
  <2> SUFFICES ASSUME NEW o \in Slots PROVE Timely(pc[o], since[o], stamp[o])'
    OBVIOUS
  <2>1. CASE o = s
    BY <1>1, <2>1 DEF Timely, Limiting
  <2>2. CASE o # s
    BY <1>1, <2>2 DEF TimeInv, Timely, Limiting
  <2>3. QED BY <2>1, <2>2
<1>3. QED BY <1>1, <1>2 DEF TimeInv, Times

\* A request outside the limiter carries no times.
LEMMA DoneTimely ==
  ASSUME QuotaInv, TimeInv, now' = now, NEW s \in Slots, NEW p \in {"idle", "handler"},
         LimiterDone(s), Goto(s, p)
  PROVE  TimeInv'
<1>1. Timely(p, 0, 0)
  BY DEF Timely, Limiting
<1>2. QED BY <1>1, OneTimely, TimesAreNat DEF LimiterDone, Goto

LEMMA TimesStay ==
  ASSUME QuotaInv, TimeInv, now' = now, NEW s \in Slots, UNCHANGED <<since, stamp>>, NEW p,
         Goto(s, p), Timely(p, since[s], stamp[s])
  PROVE  TimeInv'
<1>1. /\ since[s] \in Times /\ stamp[s] \in Times
      /\ since' = [since EXCEPT ![s] = since[s]] /\ stamp' = [stamp EXCEPT ![s] = stamp[s]]
  BY DEF TimeInv
<1>2. QED BY <1>1, OneTimely DEF Goto

LEMMA TimeInvKept == QuotaInv /\ TimeInv /\ [Next]_vars => TimeInv'
<1> SUFFICES ASSUME QuotaInv, TimeInv, [Next]_vars PROVE TimeInv'
  OBVIOUS
<1>1. CASE UNCHANGED vars \/ Cleanup
  <2>1. UNCHANGED <<now, pc, since, stamp>>
    BY <1>1 DEF vars, Cleanup
  <2>2. QED BY <2>1 DEF TimeInv, Timely, Times, Limiting
<1>2. CASE Tick
  <2>0. /\ UNCHANGED <<pc, since, stamp>> /\ now' = now + 1 /\ now < MaxTime /\ now \in Times
        /\ \A s \in Slots : pc[s] \in Limiting => now < since[s] + Patience
    BY <1>2 DEF Tick, TimeInv
  <2>1. now' \in Times
    BY <2>0, GateAssumption DEF Times
  <2>2. \A s \in Slots : Timely(pc[s], since[s], stamp[s])'
    <3> SUFFICES ASSUME NEW s \in Slots PROVE Timely(pc[s], since[s], stamp[s])'
      OBVIOUS
    <3>1. since[s] \in Nat /\ stamp[s] \in Nat /\ now \in Nat /\ Patience \in Nat
      BY <2>0, TimesAreNat, GateAssumption DEF TimeInv
    <3>2. QED BY <2>0, <3>1 DEF TimeInv, Timely, Limiting
  <2>3. QED BY <2>0, <2>1, <2>2 DEF TimeInv, Times
<1>3. ASSUME NEW s \in Slots, Enter(s)
      PROVE  TimeInv'
  <2>1. CASE RefuseQuota(s)
    BY <2>1, DoneTimely DEF RefuseQuota, Answer, TablesUnchanged
  <2>2. CASE ~RefuseQuota(s)
    <3>1. /\ now' = now /\ UNCHANGED <<since, stamp>>
          /\ Goto(s, "identify") \/ Goto(s, "lease")
      BY <1>3, <2>2 DEF Enter, Identify, EnterQuota, EnterRevoked, EnterAnonymous,
         TablesUnchanged
    <3>2. /\ Timely("identify", since[s], stamp[s])
          /\ Timely("lease", since[s], stamp[s])
      BY DEF Timely, Limiting
    <3>3. QED BY <3>1, <3>2, TimesStay
  <2>3. QED BY <2>1, <2>2
<1>4. ASSUME NEW s \in Slots,
             RefuseCsrf(s) \/ Limit(s) \/ LockBucket(s) \/ DbError(s) \/ Handle(s)
      PROVE  TimeInv'
  <2>0. now \in Nat /\ since[s] \in Nat /\ stamp[s] \in Nat /\ Patience \in Nat /\ now \in Times
    BY TimesAreNat, GateAssumption DEF TimeInv
  <2>1. CASE Answer(s) /\ now' = now
    BY <2>1, DoneTimely DEF Answer
  <2>2. CASE ToHandler(s) /\ now' = now
    BY <2>2, DoneTimely DEF ToHandler
  <2>3. CASE LeaseRl(s)
    <3>1. Timely("begin", now, stamp[s])
      BY <2>0 DEF Timely, Limiting
    <3>2. /\ stamp' = [stamp EXCEPT ![s] = stamp[s]] /\ stamp[s] \in Times
          /\ since' = [since EXCEPT ![s] = now] /\ pc' = [pc EXCEPT ![s] = "begin"] /\ now' = now
      BY <2>3 DEF LeaseRl, TablesUnchanged, Goto, TimeInv
    <3>3. QED BY <2>0, <3>1, <3>2, OneTimely
  <2>4. CASE BeginTx(s)
    <3>1. Timely("wait", since[s], now)
      BY <2>0, <2>4 DEF Timely, Limiting, BeginTx, TimeInv
    <3>2. /\ since' = [since EXCEPT ![s] = since[s]] /\ since[s] \in Times
          /\ stamp' = [stamp EXCEPT ![s] = now] /\ pc' = [pc EXCEPT ![s] = "wait"] /\ now' = now
      BY <2>4 DEF BeginTx, TablesUnchanged, Goto, TimeInv
    <3>3. QED BY <2>0, <3>1, <3>2, OneTimely
  <2>5. CASE LockBucket(s) \/ CountBelow(s)
    <3>1. Timely("count", since[s], stamp[s]) /\ Timely("commit", since[s], stamp[s])
      BY <2>0, <2>5 DEF Timely, Limiting, LockBucket, CountBelow, TimeInv
    <3>2. QED BY <2>5, <3>1, TimesStay DEF LockBucket, CountBelow, TablesUnchanged
  <2>6. CASE LeaseDb(s) \/ ReturnDb(s)
    <3>1. \A p \in {"handler", "working", "nested"} : Timely(p, since[s], stamp[s])
      BY DEF Timely, Limiting
    <3>2. /\ now' = now /\ UNCHANGED <<since, stamp>>
          /\ \E p \in {"handler", "working", "nested"} : Goto(s, p)
      BY <2>6 DEF LeaseDb, ReturnDb, TablesUnchanged
    <3>3. QED BY <3>1, <3>2, TimesStay
  <2>7. QED
    BY <1>4, <2>1, <2>2, <2>3, <2>4, <2>5, <2>6 DEF RefuseCsrf, Limit, DbError, Handle,
       RefuseFull, CommitHit, LeaseFails, LetThrough, LeaseDb, ReturnDb, LeaseRefused, Finish, TablesUnchanged
<1>5. QED BY <1>1, <1>2, <1>3, <1>4 DEF Next

LEMMA LockInvKept == QuotaInv /\ LockInv /\ [Next]_vars => LockInv'
<1> SUFFICES ASSUME QuotaInv, LockInv, [Next]_vars PROVE LockInv'
  OBVIOUS
<1>1. CASE UNCHANGED vars \/ Cleanup \/ Tick
  BY <1>1 DEF vars, Cleanup, Tick, LockInv
<1>2. ASSUME NEW s \in Slots, NEW p, p \notin {"count", "commit"}, Goto(s, p),
             \A o \in Slots \ {s} : req'[o] = req[o], UNCHANGED bucketLock \/ Unlock(s)
      PROVE  LockInv'
  <2>1. pc'[s] = p /\ \A o \in Slots \ {s} : pc'[o] = pc[o]
    BY <1>2 DEF QuotaInv, CallsOK, Goto
  <2>2. bucketLock' \in [Keys -> Slots \cup {NoSlot}]
    BY <1>2 DEF LockInv, Unlock
  <2>3. \A o \in Slots \ {s} :
          pc[o] \in {"count", "commit"} => bucketLock[req[o].key] = o /\ req[o].key \in Keys
    BY DEF LockInv, QuotaInv, CallsOK
  <2>4. \A o \in Slots \ {s} : pc[o] \in {"count", "commit"} => bucketLock'[req[o].key] = o
    BY <1>2, <2>3 DEF Unlock
  <2>5. QED BY <1>2, <2>1, <2>2, <2>4 DEF LockInv
<1>3. ASSUME NEW s \in Slots, LockBucket(s)
      PROVE  LockInv'
  <2>1. /\ pc'[s] = "count" /\ \A o \in Slots \ {s} : pc'[o] = pc[o]
        /\ pc[s] = "wait" /\ bucketLock[req[s].key] = NoSlot /\ req' = req
        /\ bucketLock' = [bucketLock EXCEPT ![req[s].key] = s]
    BY <1>3 DEF LockBucket, Goto, QuotaInv, CallsOK
  <2>2. req[s].key \in Keys
    BY <2>1 DEF QuotaInv, CallsOK
  <2>3. QED BY <2>1, <2>2, GateAssumption DEF LockInv
<1>4. ASSUME NEW s \in Slots, CountBelow(s)
      PROVE  LockInv'
  <2>1. /\ pc[s] = "count" /\ \A o \in Slots \ {s} : pc'[o] = pc[o]
        /\ UNCHANGED <<req, bucketLock>>
    BY <1>4 DEF CountBelow, Goto, QuotaInv, CallsOK, TablesUnchanged
  <2>2. QED BY <2>1 DEF LockInv
<1>5. ASSUME NEW s \in Slots, Enter(s)
      PROVE  LockInv'
  <2>1. /\ UNCHANGED bucketLock
        /\ \E p \in {"identify", "lease", "idle"} : Goto(s, p)
    BY <1>5 DEF Enter, Identify, EnterQuota, RefuseQuota, EnterRevoked, EnterAnonymous,
       Answer, TablesUnchanged
  <2>2. \A o \in Slots \ {s} : req'[o] = req[o]
    BY <1>5 DEF Enter, Identify, EnterQuota, RefuseQuota, EnterRevoked, EnterAnonymous,
       Answer, QuotaInv, CallsOK
  <2>3. QED BY <1>2, <2>1, <2>2
<1>6. ASSUME NEW s \in Slots, RefuseCsrf(s) \/ Limit(s) \/ DbError(s) \/ Handle(s),
             ~CountBelow(s)
      PROVE  LockInv'
  <2>1. UNCHANGED bucketLock \/ Unlock(s)
    BY <1>6 DEF RefuseCsrf, Limit, DbError, Handle, LeaseRl, BeginTx, RefuseFull, CommitHit,
       LeaseFails, LeaseDb, ReturnDb, LeaseRefused, Finish, TablesUnchanged
  <2>2. \A o \in Slots \ {s} : req'[o] = req[o]
    BY <1>6 DEF RefuseCsrf, Limit, DbError, Handle, LeaseRl, BeginTx, RefuseFull, CommitHit,
       LeaseFails, LetThrough, ToHandler, LeaseDb, ReturnDb, LeaseRefused, Finish, Answer, QuotaInv, CallsOK
  <2>3. \E p \in {"idle", "begin", "wait", "handler", "working", "nested"} : Goto(s, p)
    BY <1>6 DEF RefuseCsrf, Limit, DbError, Handle, LeaseRl, BeginTx, RefuseFull, CommitHit,
       LeaseFails, LetThrough, ToHandler, LeaseDb, ReturnDb, LeaseRefused, Finish, Answer
  <2>4. QED BY <1>2, <2>1, <2>2, <2>3
<1>7. QED BY <1>1, <1>3, <1>4, <1>5, <1>6 DEF Next, Limit

-----------------------------------------------------------------------------
(* Rows of a bucket *)

Column == [Times -> Nat]

\* The rows from a time on.
From(n, x) == {r \in Rows(n) : r[1] >= x}

LEMMA RowsElements ==
  ASSUME NEW n \in Column
  PROVE  \A r : r \in Rows(n) <=> \E t \in Times, i \in Nat : r = <<t, i>> /\ 1 <= i /\ i <= n[t]
<1>1. \A t \in Times : n[t] \in Nat
  BY DEF Column
<1>2. ASSUME NEW r, NEW t \in Times, NEW i \in Nat, r = <<t, i>>, 1 <= i, i <= n[t]
      PROVE  r \in Rows(n)
  <2>1. r \in {t} \X (1 .. n[t])
    BY <1>1, <1>2
  <2>2. QED BY <2>1 DEF Rows
<1>3. ASSUME NEW r \in Rows(n)
      PROVE  \E t \in Times, i \in Nat : r = <<t, i>> /\ 1 <= i /\ i <= n[t]
  <2>1. PICK t \in Times : r \in {t} \X (1 .. n[t])
    BY DEF Rows
  <2>2. PICK i \in 1 .. n[t] : r = <<t, i>>
    BY <2>1
  <2>3. i \in Nat /\ 1 <= i /\ i <= n[t]
    BY <1>1
  <2>4. QED BY <2>2, <2>3
<1>4. QED BY <1>2, <1>3

\* A bucket with one row more, and which counts see it.
More(n, t) == [n EXCEPT ![t] = n[t] + 1]

NewRow(n, t) == <<t, n[t] + 1>>

LEMMA RowAdded ==
  ASSUME NEW n \in Column, NEW t \in Times
  PROVE  /\ More(n, t) \in Column
         /\ NewRow(n, t) \notin Rows(n) /\ NewRow(n, t)[1] = t
         /\ Rows(More(n, t)) = Rows(n) \cup {NewRow(n, t)}
<1> DEFINE m == More(n, t)
<1>1. n[t] \in Nat /\ \A x \in Times : n[x] \in Nat
  BY DEF Column
<1>2. m \in Column /\ \A x \in Times : m[x] = IF x = t THEN n[x] + 1 ELSE n[x]
  BY <1>1 DEF Column, More
<1> HIDE DEF m
<1> DEFINE new == <<t, n[t] + 1>>
<1>3. new \notin Rows(n)
  <2> SUFFICES ASSUME new \in Rows(n) PROVE FALSE
    OBVIOUS
  <2>1. PICK x \in Times, i \in Nat : new = <<x, i>> /\ 1 <= i /\ i <= n[x]
    BY RowsElements
  <2>2. x = t /\ i = n[t] + 1
    BY <2>1
  <2>3. QED BY <1>1, <2>1, <2>2
<1>4. ASSUME NEW r \in Rows(m)
      PROVE  r \in Rows(n) \cup {new}
  <2>1. PICK x \in Times, i \in Nat : r = <<x, i>> /\ 1 <= i /\ i <= m[x]
    BY <1>2, RowsElements
  <2>2. CASE i <= n[x]
    BY <2>1, <2>2, RowsElements
  <2>3. CASE ~(i <= n[x])
    <3>1. x = t /\ i = n[t] + 1
      BY <1>1, <1>2, <2>1, <2>3
    <3>2. QED BY <2>1, <3>1
  <2>4. QED BY <2>2, <2>3
<1>5. ASSUME NEW r \in Rows(n)
      PROVE  r \in Rows(m)
  <2>1. PICK x \in Times, i \in Nat : r = <<x, i>> /\ 1 <= i /\ i <= n[x]
    BY RowsElements
  <2>2. i <= m[x]
    BY <1>1, <1>2, <2>1
  <2>3. QED BY <1>2, <2>1, <2>2, RowsElements
<1>6. new \in Rows(m)
  <2>1. n[t] + 1 \in Nat /\ 1 <= n[t] + 1 /\ n[t] + 1 <= m[t]
    BY <1>1, <1>2
  <2>2. QED BY <1>2, <2>1, RowsElements
<1>7. new[1] = t /\ NewRow(n, t) = new
  BY DEF NewRow
<1> HIDE DEF new
<1>8. Rows(m) = Rows(n) \cup {new}
  BY <1>4, <1>5, <1>6
<1>9. QED BY <1>2, <1>3, <1>7, <1>8 DEF m

LEMMA FromFinite ==
  ASSUME NEW n, IsFiniteSet(Rows(n)), NEW x
  PROVE  IsFiniteSet(From(n, x)) /\ Cardinality(From(n, x)) \in Nat
<1>1. From(n, x) \in SUBSET Rows(n)
  BY DEF From
<1>2. QED BY <1>1, FS_Subset, FS_CardinalityType

LEMMA FromAdded ==
  ASSUME NEW n \in Column, IsFiniteSet(Rows(n)), NEW t \in Times, NEW x \in Int
  PROVE  /\ IsFiniteSet(Rows(More(n, t)))
         /\ t >= x => Cardinality(From(More(n, t), x)) = Cardinality(From(n, x)) + 1
         /\ ~(t >= x) => Cardinality(From(More(n, t), x)) = Cardinality(From(n, x))
<1> DEFINE m == More(n, t)
           new == NewRow(n, t)
<1>1. new \notin Rows(n) /\ new[1] = t /\ Rows(m) = Rows(n) \cup {new}
  BY RowAdded
<1> HIDE DEF m, new
<1>2. IsFiniteSet(Rows(m))
  BY <1>1, FS_AddElement
<1>3. ASSUME t >= x
      PROVE  Cardinality(From(m, x)) = Cardinality(From(n, x)) + 1
  <2>1. From(m, x) = From(n, x) \cup {new} /\ new \notin From(n, x)
    BY <1>1, <1>3 DEF From
  <2>2. QED BY <2>1, FromFinite, FS_AddElement
<1>4. ASSUME ~(t >= x)
      PROVE  From(m, x) = From(n, x)
  BY <1>1, <1>4 DEF From
<1>5. QED BY <1>2, <1>3, <1>4 DEF m

-----------------------------------------------------------------------------
(* The window *)

Spans(k, last) ==
  {r \in Rows(admitted[k]) : r[1] <= last /\ last < r[1] + (Window - Patience)}

\* From any time whose rows are not past their expiry on, there are at least as
\* many hits as admissions answered for Patience later: a hit is stored with
\* each, at most that much earlier, and stays until it expires.
CoverInv ==
  /\ hits \in [Keys -> Column] /\ admitted \in [Keys -> Column]
  /\ \A k \in Keys : IsFiniteSet(Rows(hits[k])) /\ IsFiniteSet(Rows(admitted[k]))
  /\ \A k \in Keys : \A r \in Rows(admitted[k]) : r[1] \in Times /\ r[1] <= now
  /\ \A k \in Keys, x \in Int :
       x + Window >= now =>
         Cardinality(From(admitted[k], x + Patience)) <= Cardinality(From(hits[k], x))

\* What a request counted still holds when it commits.
FreshInv == \A s \in Slots : pc[s] = "commit" => Counting(s) < MaxHits

LimiterInv == TimeInv /\ LockInv /\ CoverInv /\ FreshInv /\ WindowHolds

LEMMA InitLimiterInv == Init => LimiterInv
<1> SUFFICES ASSUME Init PROVE LimiterInv
  OBVIOUS
<1>1. hits \in [Keys -> Column] /\ admitted \in [Keys -> Column]
  BY DEF Init, Column
<1>2. \A k \in Keys : Rows(hits[k]) = {} /\ Rows(admitted[k]) = {}
  <2> SUFFICES ASSUME NEW k \in Keys PROVE Rows(hits[k]) = {} /\ Rows(admitted[k]) = {}
    OBVIOUS
  <2>1. \A t \in Times : hits[k][t] = 0 /\ admitted[k][t] = 0
    BY DEF Init
  <2>2. hits[k] \in Column /\ admitted[k] \in Column
    BY <1>1
  <2>3. \A i \in Nat : ~(1 <= i /\ i <= 0)
    OBVIOUS
  <2>4. QED BY <2>1, <2>2, <2>3, RowsElements
<1>3. \A k \in Keys, x \in Int : From(hits[k], x) = {} /\ From(admitted[k], x) = {}
  BY <1>2 DEF From
<1>4. CoverInv
  <2>1. Cardinality({}) = 0 /\ IsFiniteSet({})
    BY FS_EmptySet
  <2>2. \A x \in Int : x + Patience \in Int
    BY GateAssumption
  <2>3. \A k \in Keys, x \in Int :
          Cardinality(From(admitted[k], x + Patience)) <= Cardinality(From(hits[k], x))
    <3> SUFFICES ASSUME NEW k \in Keys, NEW x \in Int
                 PROVE  Cardinality(From(admitted[k], x + Patience)) <= Cardinality(From(hits[k], x))
      OBVIOUS
    <3>1. PICK y \in Int : y = x + Patience
      BY <2>2
    <3>2. From(admitted[k], y) = {} /\ From(hits[k], x) = {}
      BY <1>3
    <3>3. QED BY <2>1, <3>1, <3>2
  <2>4. QED BY <1>1, <1>2, <2>1, <2>3 DEF CoverInv
<1>5. FreshInv
  BY DEF Init, FreshInv
<1>6. WindowHolds
  <2>1. Cardinality({}) <= MaxHits
    BY FS_EmptySet, GateAssumption
  <2>2. QED BY <1>2, <2>1 DEF WindowHolds
<1>7. QED BY <1>4, <1>5, <1>6, InitTimeInv DEF LimiterInv

\* A step that leaves the clock and the rows alone.
LEMMA RowsStay ==
  ASSUME CoverInv, WindowHolds, UNCHANGED <<now, hits, admitted>>
  PROVE  CoverInv' /\ WindowHolds'
<1>1. CoverInv'
  BY DEF CoverInv
<1>2. WindowHolds'
  BY DEF WindowHolds
<1>3. QED BY <1>1, <1>2

\* A row is stored for the holder of the bucket's lock.
LEMMA StoreCovers ==
  ASSUME QuotaInv, TimeInv, CoverInv, NEW s \in Slots, pc[s] = "commit", Store(s), now' = now,
         NEW k \in Keys, NEW x \in Int
  PROVE  /\ hits' \in [Keys -> Column] /\ IsFiniteSet(Rows(hits'[k]))
         /\ Cardinality(From(hits[k], x)) <= Cardinality(From(hits'[k], x))
         /\ k = req[s].key /\ stamp[s] >= x =>
              Cardinality(From(hits'[k], x)) = Cardinality(From(hits[k], x)) + 1
<1>1. req[s].key \in Keys /\ stamp[s] \in Times /\ hits \in [Keys -> Column]
  BY DEF QuotaInv, CallsOK, TimeInv, CoverInv
<1>2. PICK b \in Keys, t \in Times : b = req[s].key /\ t = stamp[s]
  BY <1>1
<1>3. hits[b] \in Column /\ hits[b][t] \in Nat
  BY <1>1 DEF Column
<1>4. PICK m \in Column : m = More(hits[b], t)
  BY <1>3, RowAdded
<1>5. hits' = [hits EXCEPT ![b] = More(hits[b], t)]
  BY <1>2 DEF Store, More
<1>6. hits' = [hits EXCEPT ![b] = m]
  BY <1>4, <1>5
<1>7. /\ hits' \in [Keys -> Column]
      /\ hits'[k] = IF k = b THEN m ELSE hits[k]
  BY <1>1, <1>6
<1>8. IsFiniteSet(Rows(hits[k]))
  BY DEF CoverInv
<1>9. Cardinality(From(hits[k], x)) \in Nat
  BY <1>8, FromFinite
<1>10. CASE k = b
  <2>1. hits'[k] = m /\ hits[k] = hits[b]
    BY <1>7, <1>10
  <2>2. /\ IsFiniteSet(Rows(m))
        /\ t >= x => Cardinality(From(m, x)) = Cardinality(From(hits[k], x)) + 1
        /\ ~(t >= x) => Cardinality(From(m, x)) = Cardinality(From(hits[k], x))
    BY <1>3, <1>4, <1>8, <1>10, FromAdded
  <2>3. QED BY <1>2, <1>7, <1>9, <1>10, <2>1, <2>2
<1>11. CASE k # b
  <2>1. hits'[k] = hits[k]
    BY <1>7, <1>11
  <2>2. QED BY <1>2, <1>7, <1>8, <1>9, <1>11, <2>1
<1>12. QED BY <1>10, <1>11

\* Only the holder of a bucket's lock stores a row in it, and the clean-up only
\* takes rows away.
LEMMA FreshStays ==
  ASSUME CoverInv, FreshInv, NEW o \in Slots, pc[o] = "commit",
         req[o].key \in Keys, req'[o] = req[o], since'[o] = since[o],
         hits'[req[o].key] = hits[req[o].key]
  PROVE  Counting(o)' < MaxHits
<1>1. Counting(o)' = Counting(o)
  BY DEF Counting
<1>2. QED BY <1>1 DEF FreshInv

\* While the lock of its bucket is held nobody else commits to it.
LEMMA OthersAside ==
  ASSUME QuotaInv, LockInv, NEW s \in Slots, NEW o \in Slots \ {s},
         pc[s] \in {"count", "commit"}, pc[o] \in {"count", "commit"}
  PROVE  req[o].key \in Keys /\ req[s].key \in Keys /\ req[o].key # req[s].key
BY DEF QuotaInv, CallsOK, LockInv

\* Steps of a request that store no row.
LEMMA FreshInvKept ==
  ASSUME QuotaInv, LockInv, CoverInv, FreshInv, NEW s \in Slots,
         UNCHANGED hits \/ (pc[s] = "commit" /\ Store(s)),
         \A o \in Slots \ {s} : req'[o] = req[o] /\ pc'[o] = pc[o] /\ since'[o] = since[o],
         pc'[s] = "commit" => Counting(s)' < MaxHits
  PROVE  FreshInv'
<1> SUFFICES ASSUME NEW o \in Slots, pc'[o] = "commit", o # s
             PROVE  Counting(o)' < MaxHits
  BY DEF FreshInv
<1>1. pc[o] = "commit" /\ req[o].key \in Keys
  BY DEF QuotaInv, CallsOK
<1>2. hits'[req[o].key] = hits[req[o].key]
  <2>1. CASE UNCHANGED hits
    BY <2>1
  <2>2. CASE pc[s] = "commit" /\ Store(s)
    <3>1. req[o].key # req[s].key
      BY <1>1, <2>2, OthersAside
    <3>2. QED BY <1>1, <2>2, <3>1 DEF Store, CoverInv
  <2>3. QED BY <2>1, <2>2
<1>3. QED BY <1>1, <1>2, FreshStays

\* The hit and the admission of a request that was counted below the limit.
LEMMA CommitHitKeeps ==
  ASSUME QuotaInv, LimiterInv, NEW s \in Slots, CommitHit(s)
  PROVE  CoverInv' /\ WindowHolds'
<1> USE DEF LimiterInv
<1>0. /\ pc[s] = "commit" /\ Store(s) /\ now' = now
      /\ admitted' = [admitted EXCEPT ![req[s].key][now] = @ + 1]
      /\ req[s].key \in Keys /\ now \in Times /\ admitted \in [Keys -> Column]
  BY DEF CommitHit, Admit, QuotaInv, CallsOK, TimeInv, CoverInv
<1>1. PICK b \in Keys, start \in Times, at \in Times :
        b = req[s].key /\ start = since[s] /\ at = stamp[s]
  BY <1>0 DEF TimeInv
<1>2. /\ start \in Nat /\ at \in Nat /\ now \in Nat /\ Patience \in Nat /\ Window \in Nat
      /\ Patience <= Window /\ start <= now /\ now <= start + Patience
      /\ start <= at /\ at <= now
  BY <1>0, <1>1, TimesAreNat, GateAssumption DEF TimeInv, Timely, Limiting
<1>3. PICK m \in Column : m = More(admitted[b], now)
  BY <1>0, RowAdded
<1>4. /\ admitted' = [admitted EXCEPT ![b] = m] /\ admitted' \in [Keys -> Column]
      /\ \A k \in Keys : admitted'[k] = IF k = b THEN m ELSE admitted[k]
  <2>1. admitted' = [admitted EXCEPT ![b] = More(admitted[b], now)]
    BY <1>0, <1>1 DEF More
  <2>2. admitted' = [admitted EXCEPT ![b] = m]
    BY <1>3, <2>1
  <2>3. QED BY <1>0, <2>2
<1>5. /\ Rows(m) = Rows(admitted[b]) \cup {NewRow(admitted[b], now)}
      /\ NewRow(admitted[b], now)[1] = now
  BY <1>0, <1>3, RowAdded
<1>6. ASSUME NEW x \in Int
      PROVE  /\ IsFiniteSet(Rows(m)) /\ Cardinality(From(admitted[b], x)) \in Nat
             /\ now >= x => Cardinality(From(m, x)) = Cardinality(From(admitted[b], x)) + 1
             /\ ~(now >= x) => Cardinality(From(m, x)) = Cardinality(From(admitted[b], x))
  <2>1. admitted[b] \in Column /\ IsFiniteSet(Rows(admitted[b]))
    BY <1>0 DEF CoverInv
  <2>2. QED BY <1>0, <1>3, <2>1, FromAdded, FromFinite
<1>7. CoverInv'
  <2>1. \A k \in Keys : IsFiniteSet(Rows(hits'[k])) /\ IsFiniteSet(Rows(admitted'[k]))
    BY <1>0, <1>4, <1>6, StoreCovers DEF CoverInv
  <2>2. \A k \in Keys : \A r \in Rows(admitted'[k]) : r[1] \in Times /\ r[1] <= now
    <3> SUFFICES ASSUME NEW k \in Keys, NEW r \in Rows(admitted'[k])
                 PROVE  r[1] \in Times /\ r[1] <= now
      OBVIOUS
    <3>1. CASE r \in Rows(admitted[k])
      BY <3>1 DEF CoverInv
    <3>2. CASE k = b /\ r = NewRow(admitted[b], now)
      BY <1>0, <1>2, <1>5, <3>2
    <3>3. QED BY <1>4, <1>5, <3>1, <3>2
  <2>3. ASSUME NEW k \in Keys, NEW x \in Int, x + Window >= now
        PROVE  Cardinality(From(admitted'[k], x + Patience)) <= Cardinality(From(hits'[k], x))
    <3>1. PICK y \in Int : y = x + Patience
      BY <1>2
    <3>2. /\ Cardinality(From(admitted[k], y)) <= Cardinality(From(hits[k], x))
          /\ Cardinality(From(admitted[k], y)) \in Nat /\ Cardinality(From(hits[k], x)) \in Nat
          /\ Cardinality(From(hits'[k], x)) \in Nat
      BY <2>1, <2>3, <3>1, FromFinite DEF CoverInv
    <3>3. Cardinality(From(hits[k], x)) <= Cardinality(From(hits'[k], x))
      BY <1>0, StoreCovers
    <3>4. CASE k = b /\ now >= y
      <4>1. at >= x
        BY <1>2, <3>1, <3>4
      <4>2. Cardinality(From(hits'[k], x)) = Cardinality(From(hits[k], x)) + 1
        BY <1>0, <1>1, <3>4, <4>1, StoreCovers
      <4>3. Cardinality(From(admitted'[k], y)) = Cardinality(From(admitted[k], y)) + 1
        BY <1>4, <1>6, <3>4
      <4>4. QED BY <3>1, <3>2, <4>2, <4>3
    <3>5. CASE ~(k = b /\ now >= y)
      <4>1. Cardinality(From(admitted'[k], y)) = Cardinality(From(admitted[k], y))
        BY <1>4, <1>6, <3>5
      <4>2. QED BY <3>1, <3>2, <3>3, <4>1
    <3>6. QED BY <3>4, <3>5
  <2>4. hits' \in [Keys -> Column] /\ Column' = Column /\ Times' = Times
    BY <1>0, StoreCovers DEF Column, Times
  <2>5. QED BY <1>0, <1>4, <2>1, <2>2, <2>3, <2>4 DEF CoverInv
<1>8. Cardinality(From(hits[b], start - Window)) < MaxHits
  <2>1. \A r \in Rows(hits[b]) : r[1] + Window >= start <=> r[1] >= start - Window
    <3> SUFFICES ASSUME NEW r \in Rows(hits[b])
                 PROVE  r[1] + Window >= start <=> r[1] >= start - Window
      OBVIOUS
    <3>1. PICK t \in Times, i \in Nat : r = <<t, i>>
      BY RowsElements DEF CoverInv
    <3>2. r[1] \in Nat
      BY <3>1, TimesAreNat
    <3>3. QED BY <1>2, <3>2
  <2>2. {r \in Rows(hits[b]) : r[1] + Window >= start} = From(hits[b], start - Window)
    BY <2>1 DEF From
  <2>3. QED BY <1>0, <1>1, <2>2 DEF FreshInv, Counting
<1>9. ASSUME NEW k \in Keys, NEW last \in Times
      PROVE  Cardinality(Spans(k, last)') <= MaxHits
  <2>0. last \in Nat /\ Cardinality(Spans(k, last)) <= MaxHits
    BY TimesAreNat DEF WindowHolds, Spans
  <2>1. CASE k # b \/ ~(now <= last /\ last < now + (Window - Patience))
    <3>1. Spans(k, last)' = Spans(k, last)
      <4>1. CASE k # b
        BY <1>4, <4>1 DEF Spans, Rows, Times
      <4>2. CASE k = b
        <5>1. Rows(admitted'[k]) = Rows(admitted[k]) \cup {NewRow(admitted[b], now)}
          BY <1>4, <1>5, <4>2
        <5>2. QED BY <1>5, <2>1, <4>2, <5>1 DEF Spans, Rows, Times
      <4>3. QED BY <4>1, <4>2
    <3>2. QED BY <2>0, <3>1
  <2>2. CASE k = b /\ now <= last /\ last < now + (Window - Patience)
    <3>1. PICK x \in Int, y \in Int : x = last + 1 - Window /\ y = x + Patience
      BY <1>2, <2>0
    <3>2. x + Window >= now /\ now >= y /\ x >= start - Window
      BY <1>2, <2>0, <2>2, <3>1
    <3>3. Spans(k, last)' \subseteq From(m, y)
      <4> SUFFICES ASSUME NEW r \in Rows(m), last < r[1] + (Window - Patience) PROVE r[1] >= y
        BY <1>4, <2>2 DEF Spans, From, Rows, Times
      <4>1. r[1] \in Times
        BY <1>0, <1>5, <2>2 DEF CoverInv
      <4>2. PICK t \in Nat : t = r[1]
        BY <4>1, TimesAreNat
      <4>3. last < t + (Window - Patience)
        BY <4>2
      <4>4. t >= y
        BY <1>2, <2>0, <3>1, <4>3
      <4>5. QED BY <4>2, <4>4
    <3>4. /\ IsFiniteSet(From(m, y)) /\ Cardinality(From(m, y)) \in Nat
          /\ Cardinality(Spans(k, last)') <= Cardinality(From(m, y))
          /\ Cardinality(Spans(k, last)') \in Nat
      BY <1>6, <3>3, FromFinite, FS_Subset, FS_CardinalityType
    <3>5. Cardinality(From(m, y)) = Cardinality(From(admitted[b], y)) + 1
      BY <1>6, <3>2
    <3>6. Cardinality(From(admitted[b], y)) <= Cardinality(From(hits[b], x))
      BY <3>1, <3>2 DEF CoverInv
    <3>7. /\ Cardinality(From(hits[b], x)) <= Cardinality(From(hits[b], start - Window))
          /\ Cardinality(From(hits[b], x)) \in Nat
          /\ Cardinality(From(hits[b], start - Window)) \in Nat
      <4>1. From(hits[b], x) \subseteq From(hits[b], start - Window)
        <5> SUFFICES ASSUME NEW r \in Rows(hits[b]), r[1] >= x PROVE r[1] >= start - Window
          BY DEF From
        <5>1. PICK t \in Times, i \in Nat : r = <<t, i>>
          BY RowsElements DEF CoverInv
        <5>2. r[1] \in Nat
          BY <5>1, TimesAreNat
        <5>3. QED BY <1>2, <3>2, <5>2
      <4>2. IsFiniteSet(From(hits[b], start - Window)) /\ IsFiniteSet(From(hits[b], x))
        BY FromFinite DEF CoverInv
      <4>3. QED BY <4>1, <4>2, FS_Subset, FS_CardinalityType
    <3>8. Cardinality(From(admitted[b], y)) \in Nat /\ MaxHits \in Nat
      BY <1>6, GateAssumption
    <3>9. QED BY <1>8, <3>4, <3>5, <3>6, <3>7, <3>8
  <2>3. QED BY <2>1, <2>2
<1>10. WindowHolds'
  BY <1>9 DEF WindowHolds, Spans
<1>11. QED BY <1>7, <1>10

\* A COMMIT carried out though it was reported to fail stores a hit that no
\* admission answers for.
LEMMA StrayHitKeeps ==
  ASSUME QuotaInv, LimiterInv, NEW s \in Slots, pc[s] = "commit", Store(s),
         UNCHANGED <<now, admitted>>
  PROVE  CoverInv' /\ WindowHolds'
<1> USE DEF LimiterInv
<1>1. \A k \in Keys : IsFiniteSet(Rows(hits'[k])) /\ IsFiniteSet(Rows(admitted[k]))
  BY StoreCovers DEF CoverInv
<1>2. ASSUME NEW k \in Keys, NEW x \in Int, x + Window >= now
      PROVE  Cardinality(From(admitted[k], x + Patience)) <= Cardinality(From(hits'[k], x))
  <2>1. PICK y \in Int : y = x + Patience
    BY GateAssumption
  <2>2. /\ Cardinality(From(admitted[k], y)) <= Cardinality(From(hits[k], x))
        /\ Cardinality(From(admitted[k], y)) \in Nat /\ Cardinality(From(hits[k], x)) \in Nat
        /\ Cardinality(From(hits'[k], x)) \in Nat
    BY <1>1, <1>2, <2>1, FromFinite DEF CoverInv
  <2>3. Cardinality(From(hits[k], x)) <= Cardinality(From(hits'[k], x))
    BY StoreCovers
  <2>4. QED BY <2>1, <2>2, <2>3
<1>3. hits' \in [Keys -> Column] /\ Column' = Column /\ Times' = Times
  <2>1. req[s].key \in Keys /\ 0 \in Int
    BY DEF QuotaInv, CallsOK
  <2>2. hits' \in [Keys -> Column]
    BY <2>1, StoreCovers
  <2>3. QED BY <2>2 DEF Column, Times
<1>4. CoverInv'
  <2>1. /\ now' = now /\ admitted' = admitted
        /\ \A k \in Keys : \A r \in Rows(admitted[k]) : r[1] \in Times /\ r[1] <= now
        /\ admitted \in [Keys -> Column]
    BY DEF CoverInv
  <2>2. QED BY <1>1, <1>2, <1>3, <2>1 DEF CoverInv
<1>5. WindowHolds'
  BY DEF WindowHolds
<1>6. QED BY <1>4, <1>5

\* The rows past their expiry are those no count sees any more, nor any span
\* that is still to come.
LEMMA CleanupKeeps ==
  ASSUME QuotaInv, LimiterInv, Cleanup
  PROVE  CoverInv' /\ FreshInv' /\ WindowHolds'
<1> USE DEF LimiterInv
<1>0. /\ UNCHANGED <<now, pc, req, since, admitted>> /\ now \in Nat /\ Window \in Nat
      /\ \A t \in Times : t \in Nat
      /\ Column' = Column /\ Times' = Times
  BY TimesAreNat, GateAssumption DEF Cleanup, TimeInv, Column, Times
<1>1. /\ hits' \in [Keys -> Column]
      /\ \A k \in Keys, t \in Times :
           hits'[k][t] = IF t + Window < now THEN 0 ELSE hits[k][t]
  BY DEF Cleanup, CoverInv, Column
<1>2. ASSUME NEW k \in Keys
      PROVE  /\ \A r \in Rows(hits'[k]) : r \in Rows(hits[k])
             /\ \A r \in Rows(hits[k]) : r[1] + Window >= now => r \in Rows(hits'[k])
             /\ \A r \in Rows(hits[k]) : r[1] \in Nat
  <2>0. hits[k] \in Column /\ hits'[k] \in Column /\ \A t \in Times : hits[k][t] \in Nat
    BY <1>1 DEF CoverInv, Column
  <2>1. ASSUME NEW r \in Rows(hits'[k])
        PROVE  r \in Rows(hits[k])
    <3>1. PICK t \in Times, i \in Nat : r = <<t, i>> /\ 1 <= i /\ i <= hits'[k][t]
      BY <2>0, RowsElements
    <3>2. i <= hits[k][t]
      BY <1>1, <2>0, <3>1
    <3>3. QED BY <2>0, <3>1, <3>2, RowsElements
  <2>2. ASSUME NEW r \in Rows(hits[k])
        PROVE  r[1] \in Nat /\ (r[1] + Window >= now => r \in Rows(hits'[k]))
    <3>1. PICK t \in Times, i \in Nat : r = <<t, i>> /\ 1 <= i /\ i <= hits[k][t]
      BY <2>0, RowsElements
    <3>2. r[1] = t /\ t \in Nat
      BY <1>0, <3>1
    <3>3. t + Window >= now => hits'[k][t] = hits[k][t]
      BY <1>0, <1>1, <3>2
    <3>4. QED BY <2>0, <3>1, <3>2, <3>3, RowsElements
  <2>3. QED BY <2>1, <2>2
<1>3. \A k \in Keys : IsFiniteSet(Rows(hits'[k]))
  <2> SUFFICES ASSUME NEW k \in Keys PROVE IsFiniteSet(Rows(hits'[k]))
    OBVIOUS
  <2>1. Rows(hits'[k]) \in SUBSET Rows(hits[k])
    BY <1>2
  <2>2. QED BY <2>1, FS_Subset DEF CoverInv
<1>4. ASSUME NEW k \in Keys, NEW x \in Int, x + Window >= now
      PROVE  From(hits'[k], x) = From(hits[k], x)
  <2>1. \A r \in Rows(hits[k]) : r[1] >= x => r[1] + Window >= now
    <3> SUFFICES ASSUME NEW r \in Rows(hits[k]), r[1] >= x PROVE r[1] + Window >= now
      OBVIOUS
    <3>1. PICK t \in Nat : t = r[1]
      BY <1>2
    <3>2. QED BY <1>0, <1>4, <3>1
  <2>2. QED BY <1>2, <2>1 DEF From
<1>5. CoverInv'
  <2>1. \A k \in Keys, x \in Int :
          x + Window >= now =>
            Cardinality(From(admitted[k], x + Patience)) <= Cardinality(From(hits'[k], x))
    BY <1>4 DEF CoverInv
  <2>2. /\ admitted' = admitted /\ now' = now /\ admitted \in [Keys -> Column]
        /\ \A k \in Keys : IsFiniteSet(Rows(admitted[k]))
        /\ \A k \in Keys : \A r \in Rows(admitted[k]) : r[1] \in Times /\ r[1] <= now
    BY <1>0 DEF CoverInv
  <2>3. QED BY <1>0, <1>1, <1>3, <2>1, <2>2 DEF CoverInv
<1>6. FreshInv'
  <2> SUFFICES ASSUME NEW s \in Slots, pc[s] = "commit" PROVE Counting(s)' < MaxHits
    BY <1>0 DEF FreshInv
  <2>1. PICK k \in Keys : k = req[s].key
    BY DEF QuotaInv, CallsOK
  <2>2. PICK A : A = {r \in Rows(hits[k]) : r[1] + Window >= since[s]}
    OBVIOUS
  <2>3. PICK B : B = {r \in Rows(hits'[k]) : r[1] + Window >= since[s]}
    OBVIOUS
  <2>4. B \subseteq A /\ A \subseteq Rows(hits[k])
    BY <1>2, <2>2, <2>3
  <2>5. IsFiniteSet(A) /\ IsFiniteSet(B) /\ Cardinality(B) <= Cardinality(A)
    BY <2>4, FS_Subset DEF CoverInv
  <2>6. Cardinality(A) \in Nat /\ Cardinality(B) \in Nat
    BY <2>5, FS_CardinalityType
  <2>7. Cardinality(A) < MaxHits
    BY <2>1, <2>2 DEF FreshInv, Counting
  <2>8. Counting(s)' = Cardinality(B)
    BY <1>0, <2>1, <2>3 DEF Counting
  <2>9. QED BY <2>5, <2>6, <2>7, <2>8, GateAssumption
<1>7. WindowHolds'
  BY <1>0 DEF WindowHolds
<1>8. QED BY <1>5, <1>6, <1>7

LEMMA TickKeeps ==
  ASSUME LimiterInv, Tick
  PROVE  CoverInv' /\ FreshInv' /\ WindowHolds'
<1> USE DEF LimiterInv
<1>0. /\ UNCHANGED <<pc, req, since, hits, admitted>> /\ now \in Nat /\ now' = now + 1
      /\ Window \in Nat /\ Column' = Column /\ Times' = Times
  BY TimesAreNat, GateAssumption DEF Tick, TimeInv, Column, Times
<1>1. \A x \in Int : x + Window >= now' => x + Window >= now
  BY <1>0
<1>2. \A k \in Keys : \A r \in Rows(admitted[k]) : r[1] \in Times /\ r[1] <= now'
  <2> SUFFICES ASSUME NEW k \in Keys, NEW r \in Rows(admitted[k])
               PROVE  r[1] \in Times /\ r[1] <= now'
    OBVIOUS
  <2>1. r[1] \in Times /\ r[1] <= now
    BY DEF CoverInv
  <2>2. PICK t \in Nat : t = r[1]
    BY <2>1, TimesAreNat
  <2>3. QED BY <1>0, <2>1, <2>2
<1>3. CoverInv'
  BY <1>0, <1>1, <1>2 DEF CoverInv
<1>4. FreshInv' /\ WindowHolds'
  BY <1>0 DEF FreshInv, WindowHolds, Counting
<1>5. QED BY <1>3, <1>4

LEMMA LimiterInvKept == QuotaInv /\ LimiterInv /\ [Next]_vars => LimiterInv'
<1> SUFFICES ASSUME QuotaInv, LimiterInv, [Next]_vars
             PROVE  CoverInv' /\ FreshInv' /\ WindowHolds'
  BY TimeInvKept, LockInvKept DEF LimiterInv
<1> USE DEF LimiterInv
<1>1. CASE UNCHANGED vars
  <2>1. UNCHANGED <<now, pc, req, since, hits, admitted>>
    BY <1>1 DEF vars
  <2>2. FreshInv'
    BY <2>1 DEF FreshInv, Counting
  <2>3. QED BY <2>1, <2>2, RowsStay
<1>2. CASE Cleanup
  BY <1>2, CleanupKeeps
<1>3. CASE Tick
  BY <1>3, TickKeeps
<1>4. ASSUME NEW s \in Slots, Enter(s)
      PROVE  CoverInv' /\ FreshInv' /\ WindowHolds'
  <2>1. /\ UNCHANGED <<now, hits, admitted>>
        /\ UNCHANGED since \/ LimiterDone(s)
        /\ \E p \in {"identify", "lease", "idle"} : Goto(s, p)
    BY <1>4 DEF Enter, Identify, EnterQuota, RefuseQuota, EnterRevoked, EnterAnonymous,
       Answer, TablesUnchanged
  <2>2. \A o \in Slots \ {s} : req'[o] = req[o]
    BY <1>4 DEF Enter, Identify, EnterQuota, RefuseQuota, EnterRevoked, EnterAnonymous,
       Answer, QuotaInv, CallsOK
  <2>3. /\ pc'[s] # "commit"
        /\ \A o \in Slots \ {s} : pc'[o] = pc[o] /\ since'[o] = since[o]
    BY <2>1 DEF Goto, LimiterDone, QuotaInv, CallsOK, TimeInv
  <2>4. FreshInv'
    BY <2>1, <2>2, <2>3, FreshInvKept
  <2>5. QED BY <2>1, <2>4, RowsStay
<1>5. ASSUME NEW s \in Slots,
             RefuseCsrf(s) \/ Limit(s) \/ LockBucket(s) \/ DbError(s) \/ Handle(s)
      PROVE  CoverInv' /\ FreshInv' /\ WindowHolds'
  <2>1. \A o \in Slots \ {s} : req'[o] = req[o] /\ pc'[o] = pc[o] /\ since'[o] = since[o]
    <3>1. UNCHANGED req \/ req' = [req EXCEPT ![s] = NoReq]
      BY <1>5 DEF RefuseCsrf, Limit, LockBucket, DbError, Handle, LeaseRl, BeginTx, CountBelow,
         RefuseFull, CommitHit, LeaseFails, LetThrough, ToHandler, LeaseDb, ReturnDb, LeaseRefused, Finish, Answer
    <3>2. UNCHANGED since \/ since' = [since EXCEPT ![s] = now] \/ LimiterDone(s)
      BY <1>5 DEF RefuseCsrf, Limit, LockBucket, DbError, Handle, LeaseRl, BeginTx, CountBelow,
         RefuseFull, CommitHit, LeaseFails, LetThrough, ToHandler, LeaseDb, ReturnDb, LeaseRefused, Finish, Answer
    <3>3. \E p : Goto(s, p)
      BY <1>5 DEF RefuseCsrf, Limit, LockBucket, DbError, Handle, LeaseRl, BeginTx, CountBelow,
         RefuseFull, CommitHit, LeaseFails, LetThrough, ToHandler, LeaseDb, ReturnDb, LeaseRefused, Finish, Answer
    <3>4. pc \in [Slots -> Steps] /\ req \in [Slots -> Requests]
          /\ since \in [Slots -> Times]
      BY DEF QuotaInv, CallsOK, TimeInv
    <3>5. QED BY <3>1, <3>2, <3>3, <3>4 DEF Goto, LimiterDone
  <2>2. UNCHANGED hits \/ (pc[s] = "commit" /\ Store(s))
    BY <1>5 DEF RefuseCsrf, Limit, LockBucket, DbError, Handle, LeaseRl, BeginTx, CountBelow,
       RefuseFull, CommitHit, LeaseFails, LeaseDb, ReturnDb, LeaseRefused, Finish, TablesUnchanged
  <2>3. now' = now /\ (UNCHANGED admitted \/ CommitHit(s))
    BY <1>5 DEF RefuseCsrf, Limit, LockBucket, DbError, Handle, LeaseRl, BeginTx, CountBelow,
       RefuseFull, LeaseFails, LetThrough, LeaseDb, ReturnDb, LeaseRefused, Finish, TablesUnchanged, CommitHit
  <2>4. CoverInv' /\ WindowHolds'
    <3>1. CASE CommitHit(s)
      BY <3>1, CommitHitKeeps
    <3>2. CASE UNCHANGED admitted /\ UNCHANGED hits
      BY <2>3, <3>2, RowsStay
    <3>3. CASE UNCHANGED admitted /\ pc[s] = "commit" /\ Store(s)
      BY <2>3, <3>3, StrayHitKeeps
    <3>4. QED BY <2>2, <2>3, <3>1, <3>2, <3>3
  <2>5. pc'[s] = "commit" => Counting(s)' < MaxHits
    <3>1. CASE CountBelow(s)
      <4>1. Counting(s)' = Counting(s) /\ Counting(s) < MaxHits
        BY <3>1 DEF CountBelow, TablesUnchanged, Counting
      <4>2. QED BY <4>1
    <3>2. CASE ~CountBelow(s)
      <4>1. \E p \in {"idle", "begin", "wait", "count", "handler", "working", "nested"} :
                Goto(s, p)
        BY <1>5, <3>2 DEF RefuseCsrf, Limit, LockBucket, DbError, Handle, LeaseRl, BeginTx,
           RefuseFull, CommitHit, LeaseFails, LetThrough, ToHandler, LeaseDb, ReturnDb, LeaseRefused, Finish, Answer
      <4>2. QED BY <4>1 DEF Goto, QuotaInv, CallsOK
    <3>3. QED BY <3>1, <3>2
  <2>6. QED BY <2>1, <2>2, <2>4, <2>5, FreshInvKept
<1>6. QED BY <1>1, <1>2, <1>3, <1>4, <1>5 DEF Next

\* No span of Window - Patience ticks sees more than MaxHits admissions of a
\* bucket that the limiter answers for (rate_limit.py:74-92, 122-133).
THEOREM WindowIsKept == GateSpec => []WindowHolds
<1>1. LimiterInv => WindowHolds
  BY DEF LimiterInv
<1>2. QED BY <1>1, InitLimiterInv, LimiterInvKept, QuotaInvariant, PTL DEF GateSpec

=============================================================================
