---------------------------- MODULE AccountsProofs --------------------------
(***************************************************************************)
(* Proofs about module Accounts, for every set of requests, workers,       *)
(* tokens and passwords, every clock and every size of cache and history.  *)
(***************************************************************************)
EXTENDS Accounts, FiniteSetTheorems, FunctionTheorems, SequenceTheorems, TLAPS

-----------------------------------------------------------------------------
(* The invariant *)

Row == [id : Nat, hash : Passwords, at : Nat]

Asked ==
  [op : {None, "login", "refresh", "logout", "change", "reset"}, worker : Workers \cup {None},
   jti : Tokens \cup {None}, seen : Passwords \cup {None}, new : Passwords \cup {None},
   began : Nat, late : BOOLEAN, moved : BOOLEAN, row : Nat, doomed : SUBSET Row]

Places ==
  {"idle", "issue", "decode", "revoked", "spend", "history", "reread", "save", "commit"}

\* Requests that hold a token, that hold a session's password, and that are
\* changing the password.
Presenting == {"decode", "revoked", "spend"}

Opening == Presenting \cup {"issue"}

Changing == {"history", "reread", "save", "commit"}

SecretsOK ==
  /\ now \in Nat \ {0} /\ changed \in Nat /\ revokedAt \in Nat /\ rows \in Nat
  /\ password \in Passwords /\ overlapped \in BOOLEAN
  /\ history \subseteq Row

\* The row of a used token outlives the token.
TokensOK ==
  /\ token \in [Tokens -> [iat : Nat, exp : Nat, cred : Passwords \cup {None}]]
  /\ black \in [Tokens -> Nat]
  /\ spent \subseteq Issued
  /\ \A j \in Issued : token[j].exp <= now + TTL
  /\ \A j \in spent : black[j] >= token[j].exp \/ token[j].exp <= now
  /\ \A j \in Tokens : black[j] # 0 => j \in spent

CachesOK == cache \in [Workers -> Seq([jti : spent, exp : Nat])]

\* What a request at a place knows.  Before the first change of password
\* every session was opened under the first one.
Fine(r, p) ==
  /\ r.began <= now
  /\ r.late => r.jti \in spent
  /\ p \in Presenting => r.jti \in Issued /\ r.worker \in Workers
  /\ p \in Opening => r.seen \in Passwords /\ (changed = 0 => r.seen = First)
  /\ p \in {"revoked", "spend"} => ~r.late
  /\ p \in Changing => r.new \in Passwords /\ r.seen \in Passwords /\ r.began # 0

RequestsOK ==
  /\ pc \in [Slots -> Places]
  /\ req \in [Slots -> Asked]
  /\ \A s \in Slots : Fine(req[s], pc[s])

\* Revocations only ever move past the last change of password.
SessionsOK ==
  /\ changed <= revokedAt /\ changed <= now
  /\ changed = 0 => password = First /\ \A j \in Issued : token[j].cred = First

AccountInv == SecretsOK /\ TokensOK /\ CachesOK /\ RequestsOK /\ SessionsOK

\* The number of passwords before the current one, and of those kept.
Before == Len(past) - 1

Kept == IF Before < HistoryLimit THEN Before ELSE HistoryLimit

Span == Before - Kept + 1 .. Before

\* f tells which row holds which of the past passwords, later ones newer.
Holds(f) ==
  /\ f \in [Span -> history]
  /\ \A r \in history : \E i \in Span : f[i] = r
  /\ \A i \in Span : f[i].hash = past[i]
  /\ \A i, j \in Span : i < j => Newer(f[j], f[i])

\* A change that saw no other commit works on the current password and on the
\* history as it is, in a transaction later than all of it.
Undisturbed(r, p) ==
  p \in Changing /\ ~r.moved =>
    /\ r.seen = password
    /\ \A q \in history : q.at <= r.began
    /\ p = "commit" =>
         /\ r.doomed = history \ Recent(HistoryLimit - 1)
         /\ \A q \in history : q.id < r.row

HistoryInv ==
  /\ past \in Seq(Passwords) /\ Len(past) # 0 /\ past[Len(past)] = password
  /\ \A r \in history : r.id <= rows /\ r.at <= now
  /\ ~overlapped => \E f : Holds(f)
  /\ \A s \in Slots : req[s].row <= rows /\ Undisturbed(req[s], pc[s])

LEMMA NoReqAsked ==
  /\ NoReq \in Asked /\ NoReq.began = 0 /\ NoReq.late = FALSE /\ NoReq.moved = FALSE
  /\ NoReq.new = None /\ NoReq.row = 0
BY AccountsAssumption DEF NoReq, Asked

\* Rounding down to whole seconds.
LEMMA FloorBelow ==
  ASSUME NEW t \in Nat
  PROVE  Floor(t) \in Nat /\ Floor(t) <= t
BY AccountsAssumption DEF Floor

LEMMA InitAccountInv == Init => AccountInv /\ HistoryInv
<1> SUFFICES ASSUME Init PROVE AccountInv /\ HistoryInv
  OBVIOUS
<1> USE AccountsAssumption DEF Init
<1>1. SecretsOK
  <2>1. now = 1 /\ changed = 0 /\ revokedAt = 0 /\ rows = 0 /\ history = {}
    OBVIOUS
  <2>2. password \in Passwords /\ overlapped = FALSE
    OBVIOUS
  <2>3. now \in Nat \ {0} /\ changed \in Nat /\ revokedAt \in Nat /\ rows \in Nat
    BY <2>1
  <2>4. history \subseteq Row
    BY <2>1
  <2>5. QED BY <2>2, <2>3, <2>4 DEF SecretsOK
<1>2. TokensOK /\ Issued = {}
  <2>1. Issued = {}
    BY DEF Issued, NoToken
  <2>2. token \in [Tokens -> [iat : Nat, exp : Nat, cred : Passwords \cup {None}]]
    BY DEF NoToken
  <2>3. QED BY <2>1, <2>2 DEF TokensOK
<1>3. CachesOK
  <2>1. <<>> \in Seq([jti : spent, exp : Nat])
    OBVIOUS
  <2>2. QED BY <2>1 DEF CachesOK
<1>4. RequestsOK
  BY NoReqAsked DEF RequestsOK, Fine, Places, Presenting, Opening, Changing
<1>5. SessionsOK
  BY <1>2 DEF SessionsOK
<1>6. HistoryInv
  <2>1. past = <<First>> /\ past \in Seq(Passwords) /\ Len(past) = 1
    OBVIOUS
  <2>2. Span = {} /\ history = {}
    BY <2>1 DEF Span, Kept, Before
  <2>3. Holds([i \in {} |-> i])
    BY <2>2 DEF Holds
  <2>4. \A s \in Slots : req[s].row <= rows /\ Undisturbed(req[s], pc[s])
    BY DEF Undisturbed, Changing, NoReq
  <2>5. QED BY <2>1, <2>2, <2>3, <2>4 DEF HistoryInv
<1>7. QED BY <1>1, <1>2, <1>3, <1>4, <1>5, <1>6 DEF AccountInv

-----------------------------------------------------------------------------
(* Sessions *)

\* What every step does: time passes, tokens are issued and spent.
Advance ==
  /\ now \in Nat /\ now' \in Nat /\ now <= now'
  /\ spent \subseteq spent' /\ Issued \subseteq Issued'
  /\ changed' = 0 => changed = 0

LEMMA FineStays ==
  ASSUME NEW r \in Asked, NEW p, Fine(r, p), Advance
  PROVE  Fine(r, p)'
BY DEF Fine, Asked, Advance

\* A request moves on.
LEMMA OneMoves ==
  ASSUME RequestsOK, Advance,
         NEW s \in Slots, NEW r \in Asked, NEW p \in Places, Fine(r, p),
         req' = [req EXCEPT ![s] = r], pc' = [pc EXCEPT ![s] = p]
  PROVE  RequestsOK'
<1>1. /\ req' \in [Slots -> Asked] /\ pc' \in [Slots -> Places]
      /\ req'[s] = r /\ pc'[s] = p
      /\ \A o \in Slots \ {s} : req'[o] = req[o] /\ pc'[o] = pc[o]
  BY DEF RequestsOK
<1>2. ASSUME NEW o \in Slots
      PROVE  Fine(req[o], pc[o])'
  <2>1. PICK q \in Asked, at \in Places : q = req'[o] /\ at = pc'[o] /\ Fine(q, at)
    BY <1>1 DEF RequestsOK
  <2>2. Fine(q, at)'
    BY <2>1, FineStays
  <2>3. QED BY <2>1, <2>2 DEF Fine
<1>3. Asked' = Asked /\ Places' = Places
  BY DEF Asked, Row, Places
<1>4. QED BY <1>1, <1>2, <1>3 DEF RequestsOK

\* A step of a request that touches neither tokens nor revocations.
LEMMA OnlyRequests ==
  ASSUME AccountInv, UNCHANGED <<now, password, changed, revokedAt, overlapped, history, rows>>,
         UNCHANGED <<token, spent, black, cache>>, RequestsOK'
  PROVE  AccountInv'
BY DEF AccountInv, SecretsOK, TokensOK, CachesOK, SessionsOK, Issued

LEMMA NobodyAdvances ==
  ASSUME AccountInv, UNCHANGED <<now, changed, token, spent>>
  PROVE  Advance
BY DEF Advance, Issued, AccountInv, SecretsOK

LEMMA IdleFine == AccountInv => Fine(NoReq, "idle")
BY NoReqAsked DEF AccountInv, SecretsOK, Fine, Presenting, Opening, Changing

LEMMA LeaveKeeps ==
  ASSUME AccountInv, Advance, NEW s \in Slots, Leave(s)
  PROVE  RequestsOK'
<1>1. NoReq \in Asked /\ "idle" \in Places /\ Fine(NoReq, "idle")
  BY NoReqAsked, IdleFine DEF Places
<1>2. req' = [req EXCEPT ![s] = NoReq] /\ pc' = [pc EXCEPT ![s] = "idle"] /\ RequestsOK
  BY DEF Leave, Goto, AccountInv
<1>3. QED BY <1>1, <1>2, OneMoves

LEMMA LoginKeeps ==
  ASSUME AccountInv, NEW s \in Slots, NEW w \in Workers, Login(s, w)
  PROVE  AccountInv'
<1> DEFINE r == [NoReq EXCEPT !.op = "login", !.worker = w, !.seen = password]
<1>0. /\ UNCHANGED <<now, password, changed, revokedAt, overlapped, history, rows>>
      /\ UNCHANGED <<token, spent, black, cache>>
      /\ req' = [req EXCEPT ![s] = r] /\ pc' = [pc EXCEPT ![s] = "issue"]
      /\ password \in Passwords
  BY DEF Login, secrets, sessions, Goto, AccountInv, SecretsOK
<1>1. r \in Asked
  BY <1>0, NoReqAsked DEF Asked
<1>2. r.seen = password /\ r.began = 0 /\ r.late = FALSE
  BY NoReqAsked DEF Asked
<1> HIDE DEF r
<1>3. Fine(r, "issue") /\ "issue" \in Places
  BY <1>0, <1>2 DEF Fine, AccountInv, SecretsOK, SessionsOK, Presenting, Opening, Changing, Places
<1>4. Advance /\ RequestsOK
  BY <1>0, NobodyAdvances DEF AccountInv
<1>5. RequestsOK'
  BY <1>0, <1>1, <1>3, <1>4, OneMoves
<1>6. QED BY <1>0, <1>5, OnlyRequests

LEMMA IssueKeeps ==
  ASSUME AccountInv, NEW s \in Slots, Issue(s)
  PROVE  AccountInv'
<1> USE AccountsAssumption DEF AccountInv
<1>0. PICK j \in Tokens \ Issued :
        token' = [token EXCEPT ![j] =
                    [iat |-> Floor(now), exp |-> Floor(now + TTL), cred |-> req[s].seen]]
  BY DEF Issue
<1> DEFINE t == [iat |-> Floor(now), exp |-> Floor(now + TTL), cred |-> req[s].seen]
<1>1. /\ UNCHANGED <<now, password, changed, revokedAt, overlapped, history, rows>>
      /\ UNCHANGED <<spent, black, cache>> /\ Leave(s) /\ pc[s] = "issue"
      /\ req[s].seen \in Passwords /\ (changed = 0 => req[s].seen = First)
      /\ now \in Nat
  BY DEF Issue, secrets, RequestsOK, SecretsOK, Fine, Opening
<1>2. /\ t \in [iat : Nat, exp : Nat, cred : Passwords \cup {None}]
      /\ t.exp <= now + TTL /\ t.cred \in Passwords /\ (changed = 0 => t.cred = First)
  BY <1>1, FloorBelow
<1>3. token' = [token EXCEPT ![j] = t]
  BY <1>0
<1> HIDE DEF t
<1>4. /\ Issued' = Issued \cup {j} /\ token'[j] = t
      /\ \A k \in Tokens \ {j} : token'[k] = token[k]
  BY <1>2, <1>3 DEF Issued, TokensOK
<1>5. TokensOK'
  <2>1. token' \in [Tokens -> [iat : Nat, exp : Nat, cred : Passwords \cup {None}]]
    BY <1>2, <1>3 DEF TokensOK
  <2>2. \A k \in Issued' : token'[k].exp <= now' + TTL
    BY <1>1, <1>2, <1>4 DEF TokensOK, Issued
  <2>3. j \notin spent
    BY <1>0 DEF TokensOK
  <2>4. QED BY <1>1, <1>4, <2>1, <2>2, <2>3 DEF TokensOK, Issued
<1>6. RequestsOK'
  <2>1. Advance
    BY <1>1, <1>4 DEF Advance
  <2>2. QED BY <1>1, <2>1, LeaveKeeps
<1>7. SecretsOK' /\ CachesOK'
  BY <1>1 DEF SecretsOK, CachesOK
<1>8. SessionsOK'
  BY <1>1, <1>2, <1>4 DEF SessionsOK, Issued
<1>9. QED BY <1>5, <1>6, <1>7, <1>8

\* Whatever a worker's cache drops, what it holds is as before.
LEMMA CachedHolds ==
  ASSUME NEW w \in Workers, NEW j \in Tokens, NEW e \in Nat, NEW used,
         CachesOK, spent \subseteq used, j \in used
  PROVE  Cached(w, j, e) \in Seq([jti : used, exp : Nat])
<1> USE AccountsAssumption
<1> DEFINE Entry == [jti : used, exp : Nat]
           old == {i \in DOMAIN cache[w] : cache[w][i].jti = j}
           rest == IF old = {} THEN cache[w] ELSE RemoveAt(cache[w], CHOOSE i \in old : TRUE)
           c == Append(rest, [jti |-> j, exp |-> e])
<1>1. cache[w] \in Seq(Entry)
  <2>1. cache[w] \in Seq([jti : spent, exp : Nat])
    BY DEF CachesOK
  <2>2. [jti : spent, exp : Nat] \subseteq Entry
    OBVIOUS
  <2> HIDE DEF Entry
  <2>3. QED BY <2>1, <2>2, SeqMonotonic
<1>2. [jti |-> j, exp |-> e] \in Entry
  OBVIOUS
<1> HIDE DEF Entry
<1>3. rest \in Seq(Entry)
  <2>1. CASE old = {}
    BY <1>1, <2>1
  <2>2. CASE old # {}
    <3>1. PICK i \in old : i = CHOOSE k \in old : TRUE
      BY <2>2
    <3>2. rest = SubSeq(cache[w], 1, i - 1) \o SubSeq(cache[w], i + 1, Len(cache[w]))
      BY <2>2, <3>1 DEF RemoveAt
    <3>3. i \in 1 .. Len(cache[w])
      BY <1>1
    <3> HIDE DEF old, rest
    <3>4. /\ SubSeq(cache[w], 1, i - 1) \in Seq(Entry)
          /\ SubSeq(cache[w], i + 1, Len(cache[w])) \in Seq(Entry)
      BY <1>1, <3>3
    <3>5. QED BY <3>2, <3>4
  <2>3. QED BY <2>1, <2>2
<1> HIDE DEF rest
<1>4. c \in Seq(Entry) /\ c # <<>>
  BY <1>2, <1>3
<1> HIDE DEF c
<1>5. (IF Len(c) > CacheMax THEN Tail(c) ELSE c) \in Seq(Entry)
  BY <1>4
<1>6. Cached(w, j, e) = IF Len(c) > CacheMax THEN Tail(c) ELSE c
  BY DEF Cached, c, rest, old
<1>7. QED BY <1>5, <1>6 DEF Entry

\* The state a request starts from, spelled out.
LEMMA AtRest ==
  AccountInv =>
    /\ now \in Nat \ {0} /\ password \in Passwords
    /\ \A s \in Slots : req[s] \in Asked /\ pc[s] \in Places /\ Fine(req[s], pc[s])
BY DEF AccountInv, SecretsOK, RequestsOK

\* A step of a request that only moves it.
LEMMA OnlyMoves ==
  ASSUME AccountInv, UNCHANGED <<now, secrets, sessions, revokedAt>>,
         NEW s \in Slots, NEW r \in Asked, NEW p \in Places, Fine(r, p),
         req' = [req EXCEPT ![s] = r], pc' = [pc EXCEPT ![s] = p]
  PROVE  AccountInv'
<1>0. /\ UNCHANGED <<now, password, changed, revokedAt, overlapped, history, rows>>
      /\ UNCHANGED <<token, spent, black, cache>>
  BY DEF secrets, sessions
<1>1. Advance /\ RequestsOK
  BY <1>0, NobodyAdvances DEF AccountInv
<1>2. RequestsOK'
  BY <1>1, OneMoves
<1>3. QED BY <1>0, <1>2, OnlyRequests

LEMMA OnlyLeaves ==
  ASSUME AccountInv, UNCHANGED <<now, secrets, sessions, revokedAt>>, NEW s \in Slots, Leave(s)
  PROVE  AccountInv'
<1>1. NoReq \in Asked /\ "idle" \in Places /\ Fine(NoReq, "idle")
  BY NoReqAsked, IdleFine DEF Places
<1>2. QED BY <1>1, OnlyMoves DEF Leave, Goto

\* A request keeps its record and goes to a place it is fit for.
LEMMA OnlyGoes ==
  ASSUME AccountInv, UNCHANGED <<now, secrets, sessions, revokedAt>>, NEW s \in Slots,
         NEW p \in Places, Fine(req[s], p), UNCHANGED req, pc' = [pc EXCEPT ![s] = p]
  PROVE  AccountInv'
<1>1. req[s] \in Asked /\ req' = [req EXCEPT ![s] = req[s]]
  BY DEF AccountInv, RequestsOK
<1>2. QED BY <1>1, OnlyMoves

LEMMA PresentKeeps ==
  ASSUME AccountInv, NEW s \in Slots, NEW w \in Workers, NEW j \in Tokens,
         NEW op \in {"refresh", "logout"}, Present(s, w, j, op)
  PROVE  AccountInv'
<1> DEFINE r == [NoReq EXCEPT !.op = op, !.worker = w, !.jti = j,
                    !.seen = token[j].cred, !.late = j \in spent]
<1>0. /\ UNCHANGED <<now, secrets, sessions, revokedAt>>
      /\ req' = [req EXCEPT ![s] = r] /\ pc' = [pc EXCEPT ![s] = "decode"] /\ j \in Issued
  BY DEF Present, Goto
<1>1. /\ token[j].cred \in Passwords /\ (changed = 0 => token[j].cred = First)
      /\ (j \in spent) \in BOOLEAN
  BY <1>0 DEF AccountInv, TokensOK, SessionsOK, Issued
<1>2. r \in Asked
  <2>1. PICK cred \in Passwords, late \in BOOLEAN : cred = token[j].cred /\ late = (j \in spent)
    BY <1>1
  <2>2. [NoReq EXCEPT !.op = op, !.worker = w, !.jti = j, !.seen = cred, !.late = late] \in Asked
    BY NoReqAsked DEF Asked
  <2>3. QED BY <2>1, <2>2
<1>3. /\ r.seen = token[j].cred /\ r.began = 0 /\ (r.late => j \in spent)
      /\ r.jti = j /\ r.worker = w
  BY NoReqAsked DEF Asked
<1> HIDE DEF r
<1>4. Fine(r, "decode") /\ "decode" \in Places
  BY <1>0, <1>1, <1>3, AtRest DEF Fine, Presenting, Opening, Changing, Places
<1>5. QED BY <1>0, <1>2, <1>4, OnlyMoves

\* A token recorded as used and still alive has its row in the table.
LEMMA UsedIsListed ==
  ASSUME AccountInv, NEW j \in spent, NEW w \in Workers, Unexpired(j)
  PROVE  Blacklisted(w, j)
<1>1. token[j].exp \in Nat /\ black[j] \in Nat /\ now \in Nat
  BY DEF AccountInv, TokensOK, SecretsOK, Issued
<1>2. black[j] >= token[j].exp \/ token[j].exp <= now
  BY DEF AccountInv, TokensOK
<1>3. QED BY <1>1, <1>2 DEF Unexpired, Blacklisted

LEMMA ListedIsUsed ==
  ASSUME AccountInv, NEW j \in Tokens, NEW w \in Workers, Blacklisted(w, j)
  PROVE  j \in spent
<1>1. CASE Hits(w, j)
  <2>1. PICK i \in DOMAIN cache[w] : cache[w][i].jti = j
    BY <1>1 DEF Hits
  <2>2. cache[w] \in Seq([jti : spent, exp : Nat])
    BY DEF AccountInv, CachesOK
  <2>3. i \in 1 .. Len(cache[w])
    BY <2>1, <2>2
  <2>4. cache[w][i] \in [jti : spent, exp : Nat]
    BY <2>2, <2>3, ElementOfSeq
  <2>5. QED BY <2>1, <2>4
<1>2. CASE black[j] > now
  <2>1. black[j] # 0
    BY <1>2, AtRest
  <2>2. QED BY <2>1 DEF AccountInv, TokensOK
<1>3. QED BY <1>1, <1>2 DEF Blacklisted

LEMMA DecodeKeeps ==
  ASSUME AccountInv, NEW s \in Slots, Decode(s)
  PROVE  AccountInv'
<1> DEFINE j == req[s].jti
           w == req[s].worker
<1>0. /\ pc[s] = "decode" /\ j \in Issued /\ j \in Tokens /\ w \in Workers
      /\ UNCHANGED <<now, secrets, token, spent, black>>
      /\ Fine(req[s], pc[s])
  BY AtRest DEF Decode, Fine, Presenting, Issued
<1>1. CASE Leave(s) /\ UNCHANGED <<cache, revokedAt>>
  BY <1>0, <1>1, OnlyLeaves DEF sessions
<1>2. CASE /\ Unexpired(j) /\ Blacklisted(w, j) /\ Leave(s)
           /\ cache' = [cache EXCEPT ![w] = Cached(w, j, black[j])]
           /\ revokedAt' = now
  <2>0. /\ UNCHANGED <<now, password, changed, overlapped, history, rows>>
        /\ UNCHANGED <<token, spent, black>> /\ Issued' = Issued
        /\ now \in Nat \ {0} /\ changed <= now
    BY <1>0, AtRest DEF secrets, Issued, AccountInv, SessionsOK
  <2>1. j \in spent
    BY <1>0, <1>2, ListedIsUsed
  <2>2. black[j] \in Nat
    BY <1>0 DEF AccountInv, TokensOK
  <2>3. Cached(w, j, black[j]) \in Seq([jti : spent, exp : Nat])
    BY <1>0, <2>1, <2>2, CachedHolds DEF AccountInv
  <2>4. CachesOK'
    BY <1>2, <2>0, <2>3 DEF AccountInv, CachesOK
  <2>5. RequestsOK'
    BY <1>2, <2>0, NobodyAdvances, LeaveKeeps
  <2>6. SecretsOK' /\ TokensOK' /\ SessionsOK'
    BY <1>2, <2>0 DEF AccountInv, SecretsOK, TokensOK, SessionsOK
  <2>7. QED BY <2>4, <2>5, <2>6 DEF AccountInv
<1>3. CASE /\ Unexpired(j) /\ ~Blacklisted(w, j) /\ Goto(s, "revoked")
           /\ UNCHANGED <<req, cache, revokedAt>>
  <2>1. ~req[s].late
    BY <1>0, <1>3, UsedIsListed DEF Fine
  <2>2. Fine(req[s], "revoked") /\ "revoked" \in Places
    BY <1>0, <2>1 DEF Fine, Presenting, Opening, Changing, Places
  <2>3. QED BY <1>0, <1>3, <2>2, OnlyGoes DEF Goto, sessions
<1>4. QED BY <1>1, <1>2, <1>3 DEF Decode

LEMMA CheckRevokedKeeps ==
  ASSUME AccountInv, NEW s \in Slots, CheckRevoked(s)
  PROVE  AccountInv'
<1>0. pc[s] = "revoked" /\ UNCHANGED <<now, secrets, sessions, revokedAt>> /\ Fine(req[s], pc[s])
  BY AtRest DEF CheckRevoked
<1>1. CASE Leave(s)
  BY <1>0, <1>1, OnlyLeaves
<1>2. CASE Goto(s, "spend") /\ UNCHANGED req
  <2>1. Fine(req[s], "spend") /\ "spend" \in Places
    BY <1>0 DEF Fine, Presenting, Opening, Changing, Places
  <2>2. QED BY <1>0, <1>2, <2>1, OnlyGoes DEF Goto
<1>3. QED BY <1>1, <1>2 DEF CheckRevoked

LEMMA SpendKeeps ==
  ASSUME AccountInv, NEW s \in Slots, Spend(s)
  PROVE  AccountInv'
<1> DEFINE j == req[s].jti
           w == req[s].worker
           after == now + TTL
<1>0. /\ pc[s] = "spend" /\ j \in Issued /\ j \in Tokens /\ w \in Workers
      /\ UNCHANGED <<now, secrets, token, revokedAt>>
      /\ Fine(req[s], pc[s]) /\ now \in Nat \ {0} /\ now + TTL \in Nat \ {0}
  BY AccountsAssumption, AtRest DEF Spend, Fine, Presenting, Issued
<1>1. /\ black' = [black EXCEPT ![j] = after] /\ spent' = spent \cup {j}
      /\ cache' = [cache EXCEPT ![w] = Cached(w, j, after)]
      /\ after = now + TTL
  BY DEF Spend
<1>2. /\ UNCHANGED <<password, changed, overlapped, history, rows>>
      /\ Issued' = Issued
  BY <1>0 DEF secrets, Issued
<1> HIDE DEF after
<1>3. TokensOK'
  <2>1. /\ black' \in [Tokens -> Nat] /\ black'[j] = after
        /\ \A k \in Tokens \ {j} : black'[k] = black[k]
    BY <1>0, <1>1 DEF AccountInv, TokensOK
  <2>2. token[j].exp <= after
    BY <1>0, <1>1 DEF AccountInv, TokensOK
  <2>3. spent' \subseteq Issued' /\ spent' = spent \cup {j}
    BY <1>0, <1>1, <1>2 DEF AccountInv, TokensOK
  <2>4. \A k \in spent' : black'[k] >= token'[k].exp \/ token'[k].exp <= now'
    BY <1>0, <1>2, <2>1, <2>2, <2>3 DEF AccountInv, TokensOK, Issued
  <2>5. \A k \in Tokens : black'[k] # 0 => k \in spent'
    BY <2>1, <2>3 DEF AccountInv, TokensOK
  <2>6. QED BY <1>0, <1>2, <2>1, <2>3, <2>4, <2>5 DEF AccountInv, TokensOK
<1>4. CachesOK'
  <2>1. Cached(w, j, after) \in Seq([jti : spent', exp : Nat])
    BY <1>0, <1>1, CachedHolds DEF AccountInv
  <2>2. \A v \in Workers : cache[v] \in Seq([jti : spent', exp : Nat])
    <3>1. [jti : spent, exp : Nat] \subseteq [jti : spent', exp : Nat]
      BY <1>1
    <3>2. \A v \in Workers : cache[v] \in Seq([jti : spent, exp : Nat])
      BY DEF AccountInv, CachesOK
    <3>3. QED BY <3>1, <3>2, SeqMonotonic
  <2>3. DOMAIN cache = Workers /\ cache = [v \in Workers |-> cache[v]]
    BY DEF AccountInv, CachesOK
  <2>4. QED BY <1>1, <2>1, <2>2, <2>3 DEF CachesOK
<1>5. RequestsOK'
  <2>1. Advance
    BY <1>0, <1>1, <1>2 DEF Advance, AccountInv, SecretsOK
  <2>2. CASE Leave(s)
    BY <2>1, <2>2, LeaveKeeps
  <2>3. CASE Goto(s, "issue") /\ UNCHANGED req
    <3>1. Fine(req[s], "issue") /\ "issue" \in Places /\ req[s] \in Asked
      BY <1>0, AtRest DEF Fine, Presenting, Opening, Changing, Places
    <3>2. /\ req' = [req EXCEPT ![s] = req[s]] /\ pc' = [pc EXCEPT ![s] = "issue"]
          /\ RequestsOK
      BY <2>3 DEF Goto, AccountInv, RequestsOK
    <3>3. QED BY <2>1, <3>1, <3>2, OneMoves
  <2>4. QED BY <2>2, <2>3 DEF Spend
<1>6. SecretsOK' /\ SessionsOK'
  BY <1>0, <1>2 DEF AccountInv, SecretsOK, SessionsOK
<1>7. QED BY <1>3, <1>4, <1>5, <1>6 DEF AccountInv

LEMMA CleanBlacklistKeeps ==
  ASSUME AccountInv, CleanBlacklist
  PROVE  AccountInv'
<1>0. /\ UNCHANGED <<now, password, changed, revokedAt, overlapped, history, rows>>
      /\ UNCHANGED <<token, spent, cache, pc, req>> /\ Issued' = Issued
      /\ now \in Nat
  BY AtRest DEF CleanBlacklist, secrets, Issued
<1>1. /\ black' \in [Tokens -> Nat]
      /\ \A k \in Tokens : black'[k] = IF black[k] <= now THEN 0 ELSE black[k]
  BY DEF CleanBlacklist, AccountInv, TokensOK
<1>2. TokensOK'
  <2>1. \A k \in spent : black'[k] >= token[k].exp \/ token[k].exp <= now
    <3> SUFFICES ASSUME NEW k \in spent
                 PROVE  black'[k] >= token[k].exp \/ token[k].exp <= now
      OBVIOUS
    <3>1. k \in Tokens /\ token[k].exp \in Nat /\ black[k] \in Nat
      BY DEF AccountInv, TokensOK, Issued
    <3>2. black[k] >= token[k].exp \/ token[k].exp <= now
      BY DEF AccountInv, TokensOK
    <3>3. QED BY <1>0, <1>1, <3>1, <3>2
  <2>2. \A k \in Tokens : black'[k] # 0 => k \in spent
    BY <1>1 DEF AccountInv, TokensOK
  <2>3. QED BY <1>0, <1>1, <2>1, <2>2 DEF AccountInv, TokensOK
<1>3. RequestsOK'
  BY <1>0 DEF AccountInv, RequestsOK, Fine, Places, Asked, Row, Presenting, Opening, Changing
<1>4. SecretsOK' /\ CachesOK' /\ SessionsOK'
  BY <1>0 DEF AccountInv, SecretsOK, CachesOK, SessionsOK
<1>5. QED BY <1>2, <1>3, <1>4 DEF AccountInv

LEMMA RestartKeeps ==
  ASSUME AccountInv, NEW w \in Workers, Restart(w)
  PROVE  AccountInv'
<1>0. /\ UNCHANGED <<now, password, changed, revokedAt, overlapped, history, rows>>
      /\ UNCHANGED <<token, spent, black, pc, req>> /\ Issued' = Issued
  BY DEF Restart, secrets, Issued
<1>1. CachesOK'
  <2>1. <<>> \in Seq([jti : spent, exp : Nat])
    OBVIOUS
  <2>2. QED BY <1>0, <2>1 DEF Restart, AccountInv, CachesOK
<1>2. SecretsOK' /\ TokensOK' /\ RequestsOK' /\ SessionsOK'
  BY <1>0 DEF AccountInv, SecretsOK, TokensOK, SessionsOK,
     RequestsOK, Fine, Places, Asked, Row, Presenting, Opening, Changing
<1>3. QED BY <1>1, <1>2 DEF AccountInv

LEMMA TickKeeps ==
  ASSUME AccountInv, Tick
  PROVE  AccountInv'
<1>0. /\ UNCHANGED <<password, changed, revokedAt, overlapped, history, rows>>
      /\ UNCHANGED <<token, spent, black, cache, pc, req>> /\ Issued' = Issued
      /\ now \in Nat \ {0} /\ now' = now + 1
  BY AtRest DEF Tick, secrets, sessions, Issued
<1>1. Advance
  BY <1>0 DEF Advance
<1>2. RequestsOK'
  <2>1. \A s \in Slots : Fine(req[s], pc[s])'
    <3> SUFFICES ASSUME NEW s \in Slots PROVE Fine(req[s], pc[s])'
      OBVIOUS
    <3>1. PICK q \in Asked, at \in Places : q = req[s] /\ at = pc[s] /\ Fine(q, at)
      BY DEF AccountInv, RequestsOK
    <3>2. Fine(q, at)'
      BY <1>1, <3>1, FineStays
    <3>3. QED BY <1>0, <3>1, <3>2 DEF Fine
  <2>2. QED BY <1>0, <2>1 DEF AccountInv, RequestsOK, Places, Asked, Row
<1>3. TokensOK'
  <2>1. /\ \A j \in Issued : token[j].exp <= now' + TTL
        /\ \A j \in spent : black[j] >= token[j].exp \/ token[j].exp <= now'
    <3>1. TTL \in Nat /\ \A j \in Issued : token[j].exp \in Nat
      BY AccountsAssumption DEF AccountInv, TokensOK, Issued
    <3>2. QED BY <1>0, <3>1 DEF AccountInv, TokensOK
  <2>2. QED BY <1>0, <2>1 DEF AccountInv, TokensOK
<1>4. SecretsOK' /\ CachesOK'
  <2>1. now' \in Nat \ {0} /\ Row' = Row
    BY <1>0 DEF Row
  <2>2. SecretsOK'
    BY <1>0, <2>1 DEF AccountInv, SecretsOK
  <2>3. CachesOK'
    BY <1>0 DEF AccountInv, CachesOK
  <2>4. QED BY <2>2, <2>3
<1>5. SessionsOK'
  <2>1. changed \in Nat /\ changed <= now
    BY DEF AccountInv, SecretsOK, SessionsOK
  <2>2. changed' <= now'
    BY <1>0, <2>1
  <2>3. QED BY <1>0, <2>2 DEF AccountInv, SessionsOK
<1>6. QED BY <1>2, <1>3, <1>4, <1>5 DEF AccountInv

-----------------------------------------------------------------------------
(* Changes of password *)

LEMMA ReadUserKeeps ==
  ASSUME AccountInv, NEW s \in Slots, NEW op \in {"change", "reset"}, NEW new \in Passwords,
         ReadUser(s, op, new)
  PROVE  AccountInv'
<1> DEFINE r == [NoReq EXCEPT !.op = op, !.seen = password, !.new = new, !.began = now]
<1>0. /\ UNCHANGED <<now, secrets, sessions, revokedAt>>
      /\ req' = [req EXCEPT ![s] = r] /\ pc' = [pc EXCEPT ![s] = "history"]
  BY DEF ReadUser, Goto
<1>1. r \in Asked
  <2>1. PICK seen \in Passwords, began \in Nat : seen = password /\ began = now
    BY AtRest
  <2>2. [NoReq EXCEPT !.op = op, !.seen = seen, !.new = new, !.began = began] \in Asked
    BY NoReqAsked DEF Asked
  <2>3. QED BY <2>1, <2>2
<1>2. r.seen = password /\ r.began = now /\ r.late = FALSE /\ r.new = new
  BY NoReqAsked DEF Asked
<1> HIDE DEF r
<1>3. Fine(r, "history") /\ "history" \in Places
  BY <1>2, AtRest DEF Fine, Presenting, Opening, Changing, Places
<1>4. QED BY <1>0, <1>1, <1>3, OnlyMoves

LEMMA CheckHistoryKeeps ==
  ASSUME AccountInv, NEW s \in Slots, CheckHistory(s)
  PROVE  AccountInv'
<1>0. pc[s] = "history" /\ UNCHANGED <<now, secrets, sessions, revokedAt>> /\ Fine(req[s], pc[s])
  BY AtRest DEF CheckHistory
<1>1. CASE Leave(s)
  BY <1>0, <1>1, OnlyLeaves
<1>2. ASSUME NEW p \in {"reread", "save"}, Goto(s, p), UNCHANGED req
      PROVE  AccountInv'
  <2>1. Fine(req[s], p) /\ p \in Places
    BY <1>0 DEF Fine, Presenting, Opening, Changing, Places
  <2>2. QED BY <1>0, <1>2, <2>1, OnlyGoes DEF Goto
<1>3. QED BY <1>1, <1>2 DEF CheckHistory

LEMMA RereadKeeps ==
  ASSUME AccountInv, NEW s \in Slots, Reread(s)
  PROVE  AccountInv'
<1> DEFINE r == [req[s] EXCEPT !.began = now, !.moved = FALSE, !.seen = password]
<1>0. /\ UNCHANGED <<now, secrets, sessions, revokedAt>> /\ pc[s] = "reread"
      /\ req' = [req EXCEPT ![s] = r] /\ pc' = [pc EXCEPT ![s] = "save"]
  BY DEF Reread, Goto
<1>1. r \in Asked
  BY AtRest DEF Asked
<1>2. /\ r.seen = password /\ r.began = now /\ r.late = req[s].late /\ r.new = req[s].new
      /\ r.jti = req[s].jti
  BY AtRest DEF Asked
<1> HIDE DEF r
<1>3. Fine(r, "save") /\ "save" \in Places
  BY <1>0, <1>2, AtRest DEF Fine, Presenting, Opening, Changing, Places
<1>4. QED BY <1>0, <1>1, <1>3, OnlyMoves

LEMMA SaveHistoryKeeps ==
  ASSUME AccountInv, NEW s \in Slots, SaveHistory(s)
  PROVE  AccountInv'
<1> DEFINE gone == history \ Recent(HistoryLimit - 1)
           r == [req[s] EXCEPT !.row = rows + 1, !.doomed = gone]
<1>0. /\ UNCHANGED <<now, password, changed, revokedAt, overlapped, history>>
      /\ UNCHANGED <<token, spent, black, cache>> /\ rows' = rows + 1
      /\ req' = [req EXCEPT ![s] = r] /\ pc' = [pc EXCEPT ![s] = "commit"]
      /\ pc[s] = "save"
  BY DEF SaveHistory, sessions, Goto
<1>1. gone \in SUBSET Row /\ rows + 1 \in Nat
  BY DEF AccountInv, SecretsOK
<1> HIDE DEF gone
<1>2. r \in Asked
  BY <1>1, AtRest DEF Asked
<1>3. /\ r.seen = req[s].seen /\ r.began = req[s].began /\ r.late = req[s].late
      /\ r.new = req[s].new /\ r.jti = req[s].jti
  BY AtRest DEF Asked
<1> HIDE DEF r
<1>4. Fine(r, "commit") /\ "commit" \in Places
  BY <1>0, <1>3, AtRest DEF Fine, Presenting, Opening, Changing, Places
<1>5. Advance /\ RequestsOK
  BY <1>0, NobodyAdvances DEF AccountInv
<1>6. RequestsOK'
  BY <1>0, <1>2, <1>4, <1>5, OneMoves
<1>7. SecretsOK' /\ TokensOK' /\ CachesOK' /\ SessionsOK'
  BY <1>0, <1>1 DEF AccountInv, SecretsOK, TokensOK, CachesOK, SessionsOK, Issued, Row
<1>8. QED BY <1>6, <1>7 DEF AccountInv

LEMMA CommitChangeKeeps ==
  ASSUME AccountInv, NEW s \in Slots, CommitChange(s)
  PROVE  AccountInv'
<1> USE DEF AccountInv
<1>0. /\ UNCHANGED <<now, rows, token, spent, black, cache>> /\ Issued' = Issued
      /\ password' = req[s].new /\ revokedAt' = req[s].began /\ changed' = req[s].began
      /\ pc[s] = "commit" /\ pc' = [pc EXCEPT ![s] = "idle"]
      /\ req' = [o \in Slots |-> IF o = s THEN NoReq
                                 ELSE [req[o] EXCEPT !.moved = req[o].new # None]]
  BY DEF CommitChange, sessions, Goto, Issued
<1>1. /\ req[s] \in Asked /\ req[s].began # 0 /\ req[s].began <= now
      /\ req[s].new \in Passwords /\ req[s].seen \in Passwords
  BY <1>0, AtRest DEF Fine, Changing
<1>2. SecretsOK'
  <2>1. overlapped' \in BOOLEAN
    BY <1>1 DEF CommitChange, SecretsOK, Asked
  <2>2. history' \subseteq Row
    <3>1. req[s].seen \in Passwords /\ req[s].row \in Nat /\ req[s].began \in Nat
      BY <1>1 DEF Asked
    <3>2. [id |-> req[s].row, hash |-> req[s].seen, at |-> req[s].began] \in Row
      BY <3>1 DEF Row
    <3>3. QED BY <3>2 DEF CommitChange, SecretsOK, Row
  <2>3. revokedAt' \in Nat /\ changed' \in Nat /\ password' \in Passwords
    BY <1>0, <1>1 DEF Asked
  <2>4. QED BY <1>0, <2>1, <2>2, <2>3 DEF SecretsOK, Row
<1>3. SessionsOK'
  BY <1>0, <1>1 DEF SessionsOK, Asked
<1>4. TokensOK' /\ CachesOK'
  BY <1>0 DEF TokensOK, CachesOK
<1>5. RequestsOK'
  <2>1. Advance
    BY <1>0, <1>1, AtRest DEF Advance
  <2>2. pc' \in [Slots -> Places'] /\ Places' = Places /\ Asked' = Asked
    BY <1>0 DEF RequestsOK, Places, Asked, Row
  <2>3. ASSUME NEW o \in Slots
        PROVE  req'[o] \in Asked /\ Fine(req[o], pc[o])'
    <3>1. CASE o = s
      <4>1. req'[o] = NoReq /\ pc'[o] = "idle"
        BY <1>0, <3>1 DEF RequestsOK
      <4>2. Fine(NoReq, "idle")'
        BY <2>1, NoReqAsked, IdleFine, FineStays
      <4>3. QED BY <4>1, <4>2, NoReqAsked DEF Fine, NoReq
    <3>2. CASE o # s
      <4>1. PICK m \in {[req[o] EXCEPT !.moved = req[o].new # None]} : m = req'[o]
        BY <1>0, <3>2
      <4>2. req[o] \in Asked /\ (req[o].new # None) \in BOOLEAN
        BY AtRest
      <4>3. m \in Asked
        BY <4>1, <4>2 DEF Asked
      <4>4. /\ m.began = req[o].began /\ m.late = req[o].late /\ m.jti = req[o].jti
            /\ m.worker = req[o].worker /\ m.seen = req[o].seen /\ m.new = req[o].new
        BY <4>1, <4>2 DEF Asked
      <4>5. PICK p \in Places : p = pc[o] /\ p = pc'[o]
        BY <1>0, <3>2 DEF RequestsOK
      <4>6. Fine(m, p)
        BY <4>4, <4>5, AtRest DEF Fine
      <4>7. Fine(m, p)'
        BY <2>1, <4>3, <4>6, FineStays
      <4>8. QED BY <4>1, <4>3, <4>5, <4>7 DEF Fine
    <3>3. QED BY <3>1, <3>2
  <2>4. req' \in [Slots -> Asked']
    BY <1>0, <2>2, <2>3
  <2>5. QED BY <2>2, <2>3, <2>4 DEF RequestsOK
<1>6. QED BY <1>2, <1>3, <1>4, <1>5

LEMMA AccountInvKept == AccountInv /\ [Next]_vars => AccountInv'
<1> SUFFICES ASSUME AccountInv, [Next]_vars PROVE AccountInv'
  OBVIOUS
<1>1. CASE UNCHANGED vars
  BY <1>1 DEF vars, secrets, sessions, AccountInv, SecretsOK, TokensOK, CachesOK, SessionsOK,
     RequestsOK, Fine, Places, Asked, Row, Presenting, Opening, Changing, Issued
<1>2. ASSUME NEW s \in Slots, NEW w \in Workers, Login(s, w) PROVE AccountInv'
  BY <1>2, LoginKeeps
<1>3. ASSUME NEW s \in Slots, NEW w \in Workers, NEW j \in Tokens,
             NEW op \in {"refresh", "logout"}, Present(s, w, j, op)
      PROVE  AccountInv'
  BY <1>3, PresentKeeps
<1>4. ASSUME NEW s \in Slots, NEW op \in {"change", "reset"}, NEW new \in Passwords,
             ReadUser(s, op, new)
      PROVE  AccountInv'
  BY <1>4, ReadUserKeeps
<1>5. ASSUME NEW s \in Slots, Session(s) PROVE AccountInv'
  <2>1. CASE SpendFails(s)
    BY <2>1, OnlyLeaves DEF SpendFails
  <2>2. QED BY <1>5, <2>1, IssueKeeps, DecodeKeeps, CheckRevokedKeeps, SpendKeeps DEF Session
<1>6. ASSUME NEW s \in Slots, Change(s) PROVE AccountInv'
  <2>1. CASE Abort(s)
    BY <2>1, OnlyLeaves DEF Abort
  <2>2. QED
    BY <1>6, <2>1, CheckHistoryKeeps, RereadKeeps, SaveHistoryKeeps, CommitChangeKeeps DEF Change
<1>7. ASSUME NEW w \in Workers, Restart(w) PROVE AccountInv'
  BY <1>7, RestartKeeps
<1>8. QED
  BY <1>1, <1>2, <1>3, <1>4, <1>5, <1>6, <1>7, CleanBlacklistKeeps, TickKeeps DEF Next

-----------------------------------------------------------------------------
(* What follows *)

\* The invariant of tokens, caches, requests and revocations.
THEOREM AccountInvariant == AccountsSpec => []AccountInv
<1>1. Init => AccountInv
  BY InitAccountInv
<1>2. QED BY <1>1, AccountInvKept, PTL DEF AccountsSpec

\* Once a refresh token is recorded as used, no later call gets past the check
\* with it, on any worker (security.py:169-260).
THEOREM UsedTokensRefused == AccountsSpec => []SpentStaysSpent
<1>1. AccountInv => SpentStaysSpent
  BY DEF AccountInv, RequestsOK, Fine, SpentStaysSpent
<1>2. QED BY <1>1, AccountInvariant, PTL

\* No worker's cache speaks of a token that was never recorded as used
\* (security.py:172).
THEOREM CachesFollowTable == AccountsSpec => []CacheIsSound
<1>1. AccountInv => CacheIsSound
  <2> SUFFICES ASSUME AccountInv, NEW w \in Workers, NEW i \in DOMAIN cache[w]
               PROVE  cache[w][i].jti \in spent
    BY DEF CacheIsSound
  <2>1. cache[w] \in Seq([jti : spent, exp : Nat])
    BY DEF AccountInv, CachesOK
  <2>2. i \in 1 .. Len(cache[w])
    BY <2>1
  <2>3. cache[w][i] \in [jti : spent, exp : Nat]
    BY <2>1, <2>2, ElementOfSeq
  <2>4. QED BY <2>3
<1>2. QED BY <1>1, AccountInvariant, PTL

\* A session opened under an earlier password and not revoked was issued after
\* the last change began (identity/api/router.py:250-252).
THEOREM EarlierSessionsEnd == AccountsSpec => []OldSessionsAreLate
<1>1. AccountInv => OldSessionsAreLate
  <2> SUFFICES ASSUME AccountInv, NEW j \in Issued, token[j].cred # password, ~Revoked(j)
               PROVE  token[j].iat > changed
    BY DEF OldSessionsAreLate
  <2>1. token[j].iat \in Nat /\ changed \in Nat /\ revokedAt \in Nat /\ changed <= revokedAt
    BY DEF AccountInv, TokensOK, SecretsOK, SessionsOK, Issued
  <2>2. changed # 0
    BY DEF AccountInv, SessionsOK
  <2>3. QED BY <2>1, <2>2 DEF Revoked
<1>2. QED BY <1>1, AccountInvariant, PTL

-----------------------------------------------------------------------------
(* The history of passwords *)

LEMMA NewerIsStrict ==
  ASSUME NEW q \in Row, NEW r \in Row
  PROVE  ~Newer(q, q) /\ (Newer(q, r) => ~Newer(r, q))
BY DEF Row, Newer

LEMMA SpanInside ==
  ASSUME past \in Seq(Passwords), Len(past) # 0
  PROVE  /\ Before \in Nat /\ Len(past) = Before + 1 /\ Kept \in 0 .. Before
         /\ Span \subseteq 1 .. Before
         /\ Kept = IF Before < HistoryLimit THEN Before ELSE HistoryLimit
         /\ \A i \in Nat : i \in Span <=> Before - Kept < i /\ i <= Before
<1>1. Before \in Nat /\ Len(past) = Before + 1
  BY DEF Before
<1>2. /\ Kept \in 0 .. Before
      /\ Kept = IF Before < HistoryLimit THEN Before ELSE HistoryLimit
  BY <1>1, AccountsAssumption DEF Kept
<1>3. QED BY <1>1, <1>2 DEF Span

\* As many rows are newer than the one that holds a password as passwords came
\* after it.
LEMMA NewerRows ==
  ASSUME past \in Seq(Passwords), Len(past) # 0, history \subseteq Row,
         NEW f, Holds(f), NEW i \in Span
  PROVE  /\ IsFiniteSet({q \in history : Newer(q, f[i])})
         /\ Cardinality({q \in history : Newer(q, f[i])}) = Before - i
<1> DEFINE S == i + 1 .. Before
           T == {q \in history : Newer(q, f[i])}
           g == [j \in S |-> f[j]]
<1>0. Before \in Nat /\ i \in 1 .. Before /\ S \subseteq Span /\ Span \subseteq Nat
  BY SpanInside
<1>1. ASSUME NEW j \in Span
      PROVE  f[j] \in history /\ f[j] \in Row
  BY <1>1 DEF Holds
<1>2. g \in [S -> T]
  BY <1>0, <1>1 DEF Holds
<1>3. \A a, b \in S : a # b => g[a] # g[b]
  <2> SUFFICES ASSUME NEW a \in S, NEW b \in S, a < b PROVE f[a] # f[b]
    BY <1>0
  <2>1. Newer(f[b], f[a])
    BY <1>0 DEF Holds
  <2>2. QED BY <1>0, <1>1, <2>1, NewerIsStrict
<1>4. ASSUME NEW q \in T
      PROVE  \E j \in S : g[j] = q
  <2>1. PICK j \in Span : f[j] = q
    BY DEF Holds
  <2>2. ~(j <= i)
    <3>1. CASE j = i
      BY <1>1, <2>1, <3>1, NewerIsStrict
    <3>2. CASE j < i
      <4>1. Newer(f[i], f[j])
        BY <3>2 DEF Holds
      <4>2. QED BY <1>1, <2>1, <4>1, NewerIsStrict
    <3>3. QED BY <1>0, <3>1, <3>2
  <2>3. j \in S
    BY <1>0, <2>2, SpanInside
  <2>4. QED BY <2>1, <2>3
<1>5. g \in Bijection(S, T)
  BY <1>2, <1>3, <1>4, Fun_IsBij
<1>6. IsFiniteSet(S) /\ Cardinality(S) = Before - i
  BY <1>0, FS_Interval
<1>7. ExistsBijection(S, T)
  BY <1>5 DEF ExistsBijection
<1>8. QED BY <1>6, <1>7, FS_Bijection

\* A commit that saw no other leaves the rows of the passwords that precede
\* the one it sets.
LEMMA HistoryShifts ==
  ASSUME AccountInv, HistoryInv, NEW s \in Slots, CommitChange(s), ~req[s].moved,
         NEW f, Holds(f)
  PROVE  \E g : Holds(g)'
<1> DEFINE r == req[s]
           new == [id |-> r.row, hash |-> r.seen, at |-> r.began]
           n == Before
<1>0. /\ past \in Seq(Passwords) /\ Len(past) # 0 /\ past[Len(past)] = password
      /\ history \subseteq Row /\ HistoryLimit \in Nat \ {0}
      /\ history' = (history \ r.doomed) \cup {new}
      /\ past' = Append(past, r.new)
  BY AccountsAssumption DEF AccountInv, SecretsOK, HistoryInv, CommitChange
<1>1. /\ r.seen = password /\ r.doomed = history \ Recent(HistoryLimit - 1)
      /\ \A q \in history : q.at <= r.began /\ q.id < r.row
      /\ r.new \in Passwords /\ r \in Asked
  BY AtRest DEF HistoryInv, Undisturbed, Changing, CommitChange, Fine
<1>2. /\ past' \in Seq(Passwords) /\ Len(past') = Len(past) + 1
      /\ \A i \in 1 .. Len(past) : past'[i] = past[i]
  BY <1>0, <1>1
<1>3. /\ n \in Nat /\ Before' = n + 1 /\ Len(past) = n + 1
      /\ Kept = IF n < HistoryLimit THEN n ELSE HistoryLimit
      /\ Kept' = IF n + 1 < HistoryLimit THEN n + 1 ELSE HistoryLimit
  BY <1>0, <1>2 DEF Before, Kept
<1>4. /\ Span = n - Kept + 1 .. n /\ Span' = n + 1 - Kept' + 1 .. n + 1
  BY <1>3 DEF Span
<1> HIDE DEF new
<1>5. /\ new \in Row /\ new.hash = past[n + 1]
      /\ \A q \in history : Newer(new, q)
  <2>1. new.id = r.row /\ new.at = r.began /\ new.hash = r.seen
    BY DEF new
  <2>2. new \in Row
    <3>1. r.row \in Nat /\ r.began \in Nat /\ r.seen \in Passwords
      BY AtRest DEF Asked, Fine, Changing, CommitChange
    <3>2. QED BY <3>1 DEF new, Row
  <2>3. \A q \in history : Newer(new, q)
    BY <1>0, <1>1, <2>1, <2>2 DEF Newer, Row
  <2>4. QED BY <1>0, <1>1, <1>3, <2>1, <2>2, <2>3
<1> HIDE DEF n, r
<1>6. \A i \in Span : f[i] \in Recent(HistoryLimit - 1) <=> i \in Span'
  <2> SUFFICES ASSUME NEW i \in Span
               PROVE  f[i] \in Recent(HistoryLimit - 1) <=> i \in Span'
    OBVIOUS
  <2>1. f[i] \in history /\ Cardinality({q \in history : Newer(q, f[i])}) = n - i
    BY <1>0, NewerRows DEF Holds, n
  <2>2. f[i] \in Recent(HistoryLimit - 1) <=> n - i < HistoryLimit - 1
    BY <2>1 DEF Recent
  <2>3. i \in Nat /\ n - Kept < i /\ i <= n
    BY <1>3, <1>4
  <2>4. QED BY <1>0, <1>3, <1>4, <2>2, <2>3
<1>7. n + 1 \in Span' /\ \A i \in Span' : i # n + 1 => i \in Span
  BY <1>0, <1>3, <1>4
<1>8. PICK g \in {[i \in Span' |-> IF i = n + 1 THEN new ELSE f[i]]} :
        \A i \in Span' : g[i] = IF i = n + 1 THEN new ELSE f[i]
  OBVIOUS
<1>9. g \in [Span' -> history']
  <2>1. \A i \in Span' : g[i] \in history'
    BY <1>0, <1>1, <1>6, <1>7, <1>8 DEF Holds
  <2>2. QED BY <1>8, <2>1
<1>10. \A q \in history' : \E i \in Span' : g[i] = q
  <2> SUFFICES ASSUME NEW q \in history' PROVE \E i \in Span' : g[i] = q
    OBVIOUS
  <2>1. CASE q = new
    BY <1>7, <1>8, <2>1
  <2>2. CASE q \in history /\ q \notin r.doomed
    <3>1. q \in Recent(HistoryLimit - 1)
      BY <1>1, <2>2
    <3>2. PICK i \in Span : f[i] = q
      BY <2>2 DEF Holds
    <3>3. i \in Span' /\ i # n + 1
      BY <1>3, <1>4, <1>6, <3>1, <3>2
    <3>4. QED BY <1>8, <3>2, <3>3
  <2>3. QED BY <1>0, <2>1, <2>2
<1>11. \A i \in Span' : g[i].hash = past'[i]
  <2> SUFFICES ASSUME NEW i \in Span' PROVE g[i].hash = past'[i]
    OBVIOUS
  <2>1. i \in 1 .. Len(past)
    BY <1>0, <1>3, <1>4
  <2>2. QED BY <1>2, <1>5, <1>7, <1>8, <2>1 DEF Holds
<1>12. \A i, j \in Span' : i < j => Newer(g[j], g[i])
  <2> SUFFICES ASSUME NEW i \in Span', NEW j \in Span', i < j PROVE Newer(g[j], g[i])
    OBVIOUS
  <2>1. i # n + 1 /\ i \in Span
    BY <1>3, <1>4, <1>7
  <2>2. CASE j = n + 1
    BY <1>5, <1>8, <2>1, <2>2 DEF Holds
  <2>3. CASE j # n + 1
    BY <1>7, <1>8, <2>1, <2>3 DEF Holds
  <2>4. QED BY <2>2, <2>3
<1>13. Holds(g)'
  BY <1>9, <1>10, <1>11, <1>12 DEF Holds, Newer
<1>14. QED BY <1>13

LEMMA HistoryTyped ==
  HistoryInv =>
    /\ past \in Seq(Passwords) /\ Len(past) # 0
    /\ \A s \in Slots : req[s].row <= rows /\ Undisturbed(req[s], pc[s])
BY DEF HistoryInv

\* A step of requests that commits no change, though it may take a row's id.
LEMMA NothingCommitted ==
  ASSUME AccountInv, HistoryInv, UNCHANGED <<password, history, past, overlapped>>,
         now' \in Nat, now <= now', rows' \in Nat, rows <= rows',
         \A s \in Slots : req'[s].row <= rows' /\ Undisturbed(req'[s], pc'[s])
  PROVE  HistoryInv'
<1>1. \A r \in history : r.id <= rows' /\ r.at <= now'
  BY DEF HistoryInv, AccountInv, SecretsOK, Row
<1>2. ~overlapped => \E f : Holds(f)'
  <2>1. ASSUME NEW f, Holds(f)
        PROVE  Holds(f)'
    BY <2>1 DEF Holds, Span, Kept, Before, Newer
  <2>2. QED BY <2>1 DEF HistoryInv
<1>3. \A s \in Slots : (req[s].row <= rows /\ Undisturbed(req[s], pc[s]))'
  BY DEF Undisturbed, Recent, Newer
<1>4. QED BY <1>1, <1>2, <1>3 DEF HistoryInv

\* One request moves to a record that is in order.
LEMMA OneUndisturbed ==
  ASSUME AccountInv, HistoryInv, UNCHANGED <<now, password, history, past, overlapped>>,
         rows' \in Nat, rows <= rows',
         NEW s \in Slots, NEW r, NEW p, r.row <= rows', Undisturbed(r, p),
         req' = [req EXCEPT ![s] = r], pc' = [pc EXCEPT ![s] = p]
  PROVE  HistoryInv'
<1>1. /\ req'[s] = r /\ pc'[s] = p
      /\ \A o \in Slots \ {s} : req'[o] = req[o] /\ pc'[o] = pc[o]
  BY DEF AccountInv, RequestsOK
<1>2. \A o \in Slots : req'[o].row <= rows' /\ Undisturbed(req'[o], pc'[o])
  <2> SUFFICES ASSUME NEW o \in Slots
               PROVE  req'[o].row <= rows' /\ Undisturbed(req'[o], pc'[o])
    OBVIOUS
  <2>1. CASE o = s
    BY <1>1, <2>1
  <2>2. CASE o # s
    <3>1. req'[o] = req[o] /\ pc'[o] = pc[o]
      BY <1>1, <2>2
    <3>2. req[o].row <= rows /\ Undisturbed(req[o], pc[o])
      BY DEF HistoryInv
    <3>3. req[o].row \in Nat /\ rows \in Nat
      BY AtRest DEF Asked, AccountInv, SecretsOK
    <3>4. QED BY <3>1, <3>2, <3>3
  <2>3. QED BY <2>1, <2>2
<1>3. now' \in Nat /\ now <= now'
  BY AtRest
<1>4. QED BY <1>2, <1>3, NothingCommitted

LEMMA NobodyChanging ==
  ASSUME NEW r, NEW p \in Places \ Changing
  PROVE  Undisturbed(r, p)
BY DEF Undisturbed

LEMMA LeavingUndisturbs ==
  ASSUME AccountInv, HistoryInv, UNCHANGED <<now, secrets>>, NEW s \in Slots, Leave(s)
  PROVE  HistoryInv'
<1>1. /\ UNCHANGED <<now, password, history, past, overlapped>> /\ rows' = rows
      /\ rows \in Nat /\ NoReq.row = 0
  BY NoReqAsked DEF secrets, AccountInv, SecretsOK
<1>2. NoReq.row <= rows' /\ rows' \in Nat /\ rows <= rows'
  BY <1>1
<1>3. Undisturbed(NoReq, "idle")
  BY DEF Undisturbed, Changing
<1>4. req' = [req EXCEPT ![s] = NoReq] /\ pc' = [pc EXCEPT ![s] = "idle"]
  BY DEF Leave, Goto
<1>5. QED BY <1>1, <1>2, <1>3, <1>4, OneUndisturbed

LEMMA SessionsUndisturbed ==
  ASSUME AccountInv, HistoryInv, UNCHANGED <<now, secrets>>, NEW s \in Slots,
         NEW p \in Places \ Changing, NEW r, r.row = req[s].row \/ r.row = 0,
         req' = [req EXCEPT ![s] = r], pc' = [pc EXCEPT ![s] = p]
  PROVE  HistoryInv'
<1>1. /\ UNCHANGED <<now, password, history, past, overlapped>> /\ rows' = rows
      /\ rows \in Nat /\ req[s].row <= rows
  BY DEF secrets, AccountInv, SecretsOK, HistoryInv
<1>2. r.row <= rows' /\ rows' \in Nat /\ rows <= rows'
  BY <1>1
<1>3. Undisturbed(r, p)
  BY NobodyChanging
<1>4. QED BY <1>1, <1>2, <1>3, OneUndisturbed

\* A session keeps its record and goes where no password is changed.
LEMMA GoingUndisturbs ==
  ASSUME AccountInv, HistoryInv, UNCHANGED <<now, secrets>>, NEW s \in Slots,
         NEW p \in Places \ Changing, UNCHANGED req, Goto(s, p)
  PROVE  HistoryInv'
<1>1. req' = [req EXCEPT ![s] = req[s]] /\ pc' = [pc EXCEPT ![s] = p]
  BY DEF Goto, AccountInv, RequestsOK
<1>2. QED BY <1>1, SessionsUndisturbed

LEMMA SessionKeepsHistory ==
  ASSUME AccountInv, HistoryInv, NEW s \in Slots, Session(s)
  PROVE  HistoryInv'
<1>1. UNCHANGED <<now, secrets>>
  BY DEF Session, Issue, Decode, CheckRevoked, Spend, SpendFails
<1>2. CASE Leave(s)
  BY <1>1, <1>2, LeavingUndisturbs
<1>3. CASE \E p \in {"revoked", "spend", "issue"} : Goto(s, p) /\ UNCHANGED req
  <2>1. PICK p \in {"revoked", "spend", "issue"} : Goto(s, p) /\ UNCHANGED req
    BY <1>3
  <2>2. p \in Places \ Changing
    BY DEF Places, Changing
  <2>3. QED BY <1>1, <2>1, <2>2, GoingUndisturbs
<1>4. QED BY <1>2, <1>3 DEF Session, Issue, Decode, CheckRevoked, Spend, SpendFails

LEMMA LoginKeepsHistory ==
  ASSUME AccountInv, HistoryInv, NEW s \in Slots, NEW w \in Workers, Login(s, w)
  PROVE  HistoryInv'
<1> DEFINE r == [NoReq EXCEPT !.op = "login", !.worker = w, !.seen = password]
<1>1. UNCHANGED <<now, secrets>> /\ req' = [req EXCEPT ![s] = r] /\ pc' = [pc EXCEPT ![s] = "issue"]
  BY DEF Login, Goto
<1>2. r.row = 0
  BY DEF NoReq
<1>3. "issue" \in Places \ Changing
  BY DEF Places, Changing
<1> HIDE DEF r
<1>4. QED BY <1>1, <1>2, <1>3, SessionsUndisturbed

LEMMA PresentKeepsHistory ==
  ASSUME AccountInv, HistoryInv, NEW s \in Slots, NEW w \in Workers, NEW j \in Tokens,
         NEW op \in {"refresh", "logout"}, Present(s, w, j, op)
  PROVE  HistoryInv'
<1> DEFINE r == [NoReq EXCEPT !.op = op, !.worker = w, !.jti = j,
                    !.seen = token[j].cred, !.late = j \in spent]
<1>1. UNCHANGED <<now, secrets>> /\ req' = [req EXCEPT ![s] = r] /\ pc' = [pc EXCEPT ![s] = "decode"]
  BY DEF Present, Goto
<1>2. r.row = 0
  BY DEF NoReq
<1>3. "decode" \in Places \ Changing
  BY DEF Places, Changing
<1> HIDE DEF r
<1>4. QED BY <1>1, <1>2, <1>3, SessionsUndisturbed

LEMMA StillOrLater ==
  ASSUME AccountInv, HistoryInv, UNCHANGED <<secrets, pc, req>>, now' = now \/ now' = now + 1
  PROVE  HistoryInv'
<1>1. /\ UNCHANGED <<password, history, past, overlapped>> /\ rows' = rows
      /\ rows \in Nat /\ now \in Nat
  BY DEF secrets, AccountInv, SecretsOK
<1>2. now' \in Nat /\ now <= now' /\ rows' \in Nat /\ rows <= rows'
  BY <1>1
<1>3. \A s \in Slots : req'[s].row <= rows' /\ Undisturbed(req'[s], pc'[s])
  BY <1>1, HistoryTyped
<1>4. QED BY <1>1, <1>2, <1>3, NothingCommitted

LEMMA ReadUserKeepsHistory ==
  ASSUME AccountInv, HistoryInv, NEW s \in Slots, NEW op \in {"change", "reset"},
         NEW new \in Passwords, ReadUser(s, op, new)
  PROVE  HistoryInv'
<1> DEFINE r == [NoReq EXCEPT !.op = op, !.seen = password, !.new = new, !.began = now]
<1>0. /\ UNCHANGED <<now, password, history, past, overlapped>> /\ rows' = rows /\ rows \in Nat
      /\ req' = [req EXCEPT ![s] = r] /\ pc' = [pc EXCEPT ![s] = "history"]
  BY DEF ReadUser, Goto, secrets, AccountInv, SecretsOK
<1>1. r.seen = password /\ r.began = now /\ r.row = 0
  BY DEF NoReq
<1> HIDE DEF r
<1>2. Undisturbed(r, "history")
  BY <1>1 DEF Undisturbed, HistoryInv
<1>3. r.row <= rows' /\ rows' \in Nat /\ rows <= rows'
  BY <1>0, <1>1
<1>4. QED BY <1>0, <1>2, <1>3, OneUndisturbed

LEMMA CheckHistoryKeepsHistory ==
  ASSUME AccountInv, HistoryInv, NEW s \in Slots, CheckHistory(s)
  PROVE  HistoryInv'
<1>0. /\ UNCHANGED <<now, secrets>> /\ pc[s] = "history"
      /\ UNCHANGED <<now, password, history, past, overlapped>> /\ rows' = rows /\ rows \in Nat
      /\ req[s].row <= rows /\ Undisturbed(req[s], pc[s])
  BY DEF CheckHistory, secrets, AccountInv, SecretsOK, HistoryInv
<1>1. CASE Leave(s)
  BY <1>0, <1>1, LeavingUndisturbs
<1>2. ASSUME NEW p \in {"reread", "save"}, Goto(s, p), UNCHANGED req
      PROVE  HistoryInv'
  <2>1. req' = [req EXCEPT ![s] = req[s]] /\ pc' = [pc EXCEPT ![s] = p]
    BY <1>2 DEF Goto, AccountInv, RequestsOK
  <2>2. Undisturbed(req[s], p)
    BY <1>0 DEF Undisturbed, Changing
  <2>3. req[s].row <= rows' /\ rows' \in Nat /\ rows <= rows'
    BY <1>0
  <2>4. QED BY <1>0, <2>1, <2>2, <2>3, OneUndisturbed
<1>3. QED BY <1>1, <1>2 DEF CheckHistory

LEMMA RereadKeepsHistory ==
  ASSUME AccountInv, HistoryInv, NEW s \in Slots, Reread(s)
  PROVE  HistoryInv'
<1> DEFINE r == [req[s] EXCEPT !.began = now, !.moved = FALSE, !.seen = password]
<1>0. /\ UNCHANGED <<now, password, history, past, overlapped>> /\ rows' = rows /\ rows \in Nat
      /\ req[s].row <= rows
      /\ req' = [req EXCEPT ![s] = r] /\ pc' = [pc EXCEPT ![s] = "save"]
  BY DEF Reread, Goto, secrets, AccountInv, SecretsOK, HistoryInv
<1>1. r.seen = password /\ r.began = now /\ r.row = req[s].row
  BY AtRest DEF Asked
<1> HIDE DEF r
<1>2. Undisturbed(r, "save")
  BY <1>1 DEF Undisturbed, HistoryInv
<1>3. r.row <= rows' /\ rows' \in Nat /\ rows <= rows'
  BY <1>0, <1>1
<1>4. QED BY <1>0, <1>2, <1>3, OneUndisturbed

LEMMA SaveHistoryKeepsHistory ==
  ASSUME AccountInv, HistoryInv, NEW s \in Slots, SaveHistory(s)
  PROVE  HistoryInv'
<1> DEFINE gone == history \ Recent(HistoryLimit - 1)
           r == [req[s] EXCEPT !.row = rows + 1, !.doomed = gone]
<1>0. /\ UNCHANGED <<now, password, history, past, overlapped>> /\ rows' = rows + 1
      /\ rows \in Nat /\ history \subseteq Row
      /\ req' = [req EXCEPT ![s] = r] /\ pc' = [pc EXCEPT ![s] = "commit"]
      /\ pc[s] = "save" /\ Undisturbed(req[s], pc[s])
  BY DEF SaveHistory, Goto, AccountInv, SecretsOK, HistoryInv
<1>1. /\ r.seen = req[s].seen /\ r.began = req[s].began /\ r.row = rows + 1
      /\ r.doomed = gone /\ r.moved = req[s].moved
  BY AtRest DEF Asked
<1>2. gone = history \ Recent(HistoryLimit - 1)
  OBVIOUS
<1> HIDE DEF r, gone
<1>3. \A q \in history : q.id < rows + 1
  BY <1>0 DEF HistoryInv, Row
<1>4. Undisturbed(r, "commit")
  BY <1>0, <1>1, <1>2, <1>3 DEF Undisturbed, Changing
<1>5. r.row <= rows' /\ rows' \in Nat /\ rows <= rows'
  BY <1>0, <1>1
<1>6. QED BY <1>0, <1>4, <1>5, OneUndisturbed

LEMMA CommitChangeKeepsHistory ==
  ASSUME AccountInv, HistoryInv, NEW s \in Slots, CommitChange(s)
  PROVE  HistoryInv'
<1> DEFINE r == req[s]
           new == [id |-> r.row, hash |-> r.seen, at |-> r.began]
<1>0. /\ UNCHANGED <<now, rows>> /\ password' = r.new /\ past' = Append(past, r.new)
      /\ overlapped' = (overlapped \/ r.moved)
      /\ history' = (history \ r.doomed) \cup {new}
      /\ pc[s] = "commit" /\ pc' = [pc EXCEPT ![s] = "idle"]
      /\ req' = [o \in Slots |-> IF o = s THEN NoReq
                                 ELSE [req[o] EXCEPT !.moved = req[o].new # None]]
  BY DEF CommitChange, Goto
<1>1. r \in Asked /\ r.began <= now /\ r.new \in Passwords /\ r.row <= rows
  BY <1>0, AtRest, HistoryTyped DEF Fine, Changing
<1>2. past' \in Seq(Passwords) /\ Len(past') # 0 /\ past'[Len(past')] = password'
  <2>1. past \in Seq(Passwords)
    BY DEF HistoryInv
  <2>2. QED BY <1>0, <1>1, <2>1
<1>3. \A q \in history' : q.id <= rows' /\ q.at <= now'
  BY <1>0, <1>1 DEF HistoryInv
<1>4. ~overlapped' => \E g : Holds(g)'
  <2> SUFFICES ASSUME ~overlapped' PROVE \E g : Holds(g)'
    OBVIOUS
  <2>1. ~overlapped /\ ~r.moved
    BY <1>0 DEF AccountInv, SecretsOK
  <2>2. PICK f : Holds(f)
    BY <2>1 DEF HistoryInv
  <2>3. QED BY <2>1, <2>2, HistoryShifts
<1>5. \A o \in Slots : (req[o].row <= rows /\ Undisturbed(req[o], pc[o]))'
  <2> SUFFICES ASSUME NEW o \in Slots
               PROVE  (req[o].row <= rows /\ Undisturbed(req[o], pc[o]))'
    OBVIOUS
  <2>1. CASE o = s
    <3>1. req'[o] = NoReq /\ pc'[o] = "idle" /\ NoReq.row <= rows'
      BY <1>0, <2>1, NoReqAsked DEF AccountInv, RequestsOK, SecretsOK
    <3>2. QED BY <3>1 DEF Undisturbed, Changing
  <2>2. CASE o # s
    <3>1. PICK m \in {[req[o] EXCEPT !.moved = req[o].new # None]} : m = req'[o]
      BY <1>0, <2>2
    <3>2. req[o] \in Asked /\ (req[o].new # None) \in BOOLEAN /\ Fine(req[o], pc[o])
      BY AtRest
    <3>3. m.row = req[o].row /\ m.moved = (req[o].new # None)
      BY <3>1, <3>2 DEF Asked
    <3>4. pc'[o] = pc[o]
      BY <1>0, <2>2 DEF AccountInv, RequestsOK
    <3>5. m.row <= rows'
      BY <1>0, <3>3, HistoryTyped
    <3>6. pc[o] \in Changing => m.moved
      BY <3>2, <3>3, AccountsAssumption DEF Fine
    <3>7. QED BY <3>1, <3>4, <3>5, <3>6 DEF Undisturbed
  <2>3. QED BY <2>1, <2>2
<1>6. QED BY <1>2, <1>3, <1>4, <1>5 DEF HistoryInv

LEMMA HistoryInvKept == AccountInv /\ HistoryInv /\ [Next]_vars => HistoryInv'
<1> SUFFICES ASSUME AccountInv, HistoryInv, [Next]_vars PROVE HistoryInv'
  OBVIOUS
<1>1. CASE UNCHANGED vars \/ CleanBlacklist \/ Tick \/ \E w \in Workers : Restart(w)
  BY <1>1, StillOrLater DEF vars, CleanBlacklist, Tick, Restart
<1>2. ASSUME NEW s \in Slots, NEW w \in Workers, Login(s, w) PROVE HistoryInv'
  BY <1>2, LoginKeepsHistory
<1>3. ASSUME NEW s \in Slots, NEW w \in Workers, NEW j \in Tokens,
             NEW op \in {"refresh", "logout"}, Present(s, w, j, op)
      PROVE  HistoryInv'
  BY <1>3, PresentKeepsHistory
<1>4. ASSUME NEW s \in Slots, NEW op \in {"change", "reset"}, NEW new \in Passwords,
             ReadUser(s, op, new)
      PROVE  HistoryInv'
  BY <1>4, ReadUserKeepsHistory
<1>5. ASSUME NEW s \in Slots, Session(s) PROVE HistoryInv'
  BY <1>5, SessionKeepsHistory
<1>6. ASSUME NEW s \in Slots, Change(s) PROVE HistoryInv'
  <2>1. CASE Abort(s)
    BY <2>1, LeavingUndisturbs DEF Abort
  <2>2. QED
    BY <1>6, <2>1, CheckHistoryKeepsHistory, RereadKeepsHistory, SaveHistoryKeepsHistory,
       CommitChangeKeepsHistory DEF Change
<1>7. QED BY <1>1, <1>2, <1>3, <1>4, <1>5, <1>6 DEF Next

\* While rows hold the passwords of the span, their number and their hashes are
\* those of the span.
LEMMA HeldSpan ==
  ASSUME AccountInv, HistoryInv
  PROVE  HistoryIsRecentPast
<1> SUFFICES ASSUME ~overlapped
             PROVE  /\ Cardinality(history) = Kept
                    /\ {r.hash : r \in history} = {past[i] : i \in Span}
  BY DEF HistoryIsRecentPast, Kept, Before, Span
<1>0. /\ past \in Seq(Passwords) /\ Len(past) # 0 /\ history \subseteq Row
      /\ Before \in Nat /\ Kept \in 0 .. Before /\ Span \subseteq Nat
  BY SpanInside DEF HistoryInv, AccountInv, SecretsOK
<1>1. PICK f : Holds(f)
  BY DEF HistoryInv
<1>2. \A a, b \in Span : a # b => f[a] # f[b]
  <2> SUFFICES ASSUME NEW a \in Span, NEW b \in Span, a < b PROVE f[a] # f[b]
    BY <1>0
  <2>1. Newer(f[b], f[a]) /\ f[a] \in Row /\ f[b] \in Row
    BY <1>0, <1>1 DEF Holds
  <2>2. QED BY <2>1, NewerIsStrict
<1>3. f \in Bijection(Span, history)
  BY <1>1, <1>2, Fun_IsBij DEF Holds
<1>4. IsFiniteSet(Span) /\ Cardinality(Span) = Kept
  BY <1>0, FS_Interval DEF Span
<1>5. ExistsBijection(Span, history)
  BY <1>3 DEF ExistsBijection
<1>6. Cardinality(history) = Kept
  BY <1>4, <1>5, FS_Bijection
<1>7. {r.hash : r \in history} = {past[i] : i \in Span}
  BY <1>1 DEF Holds
<1>8. QED BY <1>6, <1>7

\* As long as no change was built on a password another had replaced, the rows
\* are those of the passwords before the current one, up to the limit, whatever
\* changes and resets interleave or abort (password_history.py:12-58).
THEOREM HistoryFollowsPast == AccountsSpec => []HistoryIsRecentPast
<1>1. Init => HistoryInv
  BY InitAccountInv
<1>2. AccountInv /\ HistoryInv => HistoryIsRecentPast
  BY HeldSpan
<1>3. QED BY <1>1, <1>2, AccountInvariant, HistoryInvKept, PTL DEF AccountsSpec

=============================================================================
