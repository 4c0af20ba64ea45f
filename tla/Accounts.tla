------------------------------ MODULE Accounts ------------------------------
(***************************************************************************)
(* One account: its password and password history, and the sessions opened *)
(* with it, by concurrent requests on several workers.                     *)
(*                                                                         *)
(* A session is a chain of refresh tokens.  A refresh or a logout spends a *)
(* token by a row of refresh_token_blacklist, which each worker caches; a  *)
(* change of password and a replayed token revoke every token issued up to *)
(* the start of their transaction.  Issue times are whole seconds, the     *)
(* database's are not.  The access token issued beside a refresh token     *)
(* stands or falls with it here: both carry the same iat.                  *)
(***************************************************************************)
EXTENDS Naturals, Sequences, FiniteSets, SequencesExt

CONSTANTS
  Slots,         \* requests in flight at once
  Workers,
  Tokens,        \* refresh tokens that may be issued, by jti
  Passwords,
  First,         \* the account's first password
  Second,        \* ticks in a second
  TTL,           \* life of a refresh token, in ticks
  CacheMax,      \* _CACHE_MAX_SIZE
  HistoryLimit,  \* _HISTORY_LIMIT
  MaxRows,       \* bound on the history rows ever inserted
  MaxTime,       \* bound on the clock
  None

ASSUME AccountsAssumption ==
  /\ Second \in Nat \ {0} /\ TTL \in Nat /\ CacheMax \in Nat \ {0}
  /\ HistoryLimit \in Nat \ {0} /\ MaxRows \in Nat /\ MaxTime \in Nat
  /\ First \in Passwords /\ None \notin Tokens \cup Passwords \cup Workers

VARIABLES
  now,
  password,      \* users.password_hash
  history,       \* rows of password_history
  rows,          \* ids its sequence has handed out
  past,          \* history variable: every password, oldest first
  overlapped,    \* history variable: a change was built on what another replaced
  changed,       \* history variable: start of the last committed change
  token,         \* what was issued under each jti
  spent,         \* history variable: jtis ever recorded as used
  black,         \* refresh_token_blacklist: expiry by jti, 0 for no row
  cache,         \* _blacklist_cache of each worker, least recent first
  revokedAt,     \* user_token_revocations.revoked_at
  pc, req

secrets == <<password, history, rows, past, overlapped, changed>>
sessions == <<token, spent, black, cache>>
vars == <<now, secrets, sessions, revokedAt, pc, req>>

-----------------------------------------------------------------------------
Times == 0 .. MaxTime
Expiries == 0 .. MaxTime + TTL

Floor(t) == (t \div Second) * Second

NoReq == [op |-> None, worker |-> None, jti |-> None, seen |-> None, new |-> None,
          began |-> 0, late |-> FALSE, moved |-> FALSE, row |-> 0, doomed |-> {}]

NoToken == [iat |-> 0, exp |-> 0, cred |-> None]

Issued == {j \in Tokens : token[j].cred # None}

Goto(s, where) == pc' = [pc EXCEPT ![s] = where]

Leave(s) == Goto(s, "idle") /\ req' = [req EXCEPT ![s] = NoReq]

\* Mutant of Revoked: a token of the second of the revocation passes.
RevokedBefore(j) == revokedAt > token[j].iat /\ revokedAt # 0

\* _is_token_revoked_for_user.  The clock starts at 1, so 0 is no row.
Revoked(j) == revokedAt >= token[j].iat /\ revokedAt # 0

Unexpired(j) == now < token[j].exp

\* The cache after an entry is put in or moved to the end.
Cached(w, j, e) ==
  LET old == {i \in DOMAIN cache[w] : cache[w][i].jti = j}
      rest == IF old = {} THEN cache[w] ELSE RemoveAt(cache[w], CHOOSE i \in old : TRUE)
      c == Append(rest, [jti |-> j, exp |-> e])
  IN IF Len(c) > CacheMax THEN Tail(c) ELSE c

Hits(w, j) == \E i \in DOMAIN cache[w] : cache[w][i].jti = j /\ now < cache[w][i].exp

\* Mutant of Blacklisted: the worker trusts its own cache alone.
BlacklistedHere(w, j) == Hits(w, j)

\* is_refresh_token_blacklisted: the cache, else the table.
Blacklisted(w, j) == Hits(w, j) \/ black[j] > now

-----------------------------------------------------------------------------
Init ==
  /\ now = 1
  /\ password = First
  /\ history = {} /\ rows = 0
  /\ past = <<First>> /\ overlapped = FALSE /\ changed = 0
  /\ token = [j \in Tokens |-> NoToken]
  /\ spent = {}
  /\ black = [j \in Tokens |-> 0]
  /\ cache = [w \in Workers |-> <<>>]
  /\ revokedAt = 0
  /\ pc = [s \in Slots |-> "idle"]
  /\ req = [s \in Slots |-> NoReq]

\* login: the row is read and the password verified against it.
Login(s, w) ==
  /\ pc[s] = "idle"
  /\ req' = [req EXCEPT ![s] = [NoReq EXCEPT !.op = "login", !.worker = w, !.seen = password]]
  /\ Goto(s, "issue")
  /\ UNCHANGED <<now, secrets, sessions, revokedAt>>

\* create_access_token and create_refresh_token.
Issue(s) ==
  /\ pc[s] = "issue"
  /\ \E j \in Tokens \ Issued :
       token' = [token EXCEPT ![j] =
                   [iat |-> Floor(now), exp |-> Floor(now + TTL), cred |-> req[s].seen]]
  /\ Leave(s)
  /\ UNCHANGED <<now, secrets, spent, black, cache, revokedAt>>

\* A refresh or a logout arrives with a token.
Present(s, w, j, op) ==
  /\ pc[s] = "idle"
  /\ j \in Issued
  /\ op = "logout" => Unexpired(j) /\ ~Revoked(j)
  /\ req' = [req EXCEPT ![s] = [NoReq EXCEPT !.op = op, !.worker = w, !.jti = j,
                                  !.seen = token[j].cred, !.late = j \in spent]]
  /\ Goto(s, "decode")
  /\ UNCHANGED <<now, secrets, sessions, revokedAt>>

\* decode_refresh_token, first half: signature, expiry and blacklist.  A
\* token used before revokes all of them, in a transaction of its own.
Decode(s) ==
  /\ pc[s] = "decode"
  /\ LET j == req[s].jti
         w == req[s].worker
     IN \/ ~Unexpired(j) /\ Leave(s) /\ UNCHANGED <<cache, revokedAt>>
        \/ /\ Unexpired(j) /\ Blacklisted(w, j)
           /\ cache' = [cache EXCEPT ![w] = Cached(w, j, black[j])]
           /\ revokedAt' = now
           /\ Leave(s)
        \/ /\ Unexpired(j) /\ ~Blacklisted(w, j)
           /\ Goto(s, "revoked")
           /\ UNCHANGED <<req, cache, revokedAt>>
  /\ UNCHANGED <<now, secrets, token, spent, black>>

\* Second half: revocation by user.
CheckRevoked(s) ==
  /\ pc[s] = "revoked"
  /\ \/ Revoked(req[s].jti) /\ Leave(s)
     \/ ~Revoked(req[s].jti) /\ Goto(s, "spend") /\ UNCHANGED req
  /\ UNCHANGED <<now, secrets, sessions, revokedAt>>

\* Mutant of SpendFails: the cache is filled before the table.
SpendFailsCached(s) ==
  /\ pc[s] = "spend"
  /\ Leave(s)
  /\ cache' = [cache EXCEPT ![req[s].worker] = Cached(req[s].worker, req[s].jti, now + TTL)]
  /\ UNCHANGED <<now, secrets, token, spent, black, revokedAt>>

\* invalidate_refresh_token raises: neither table nor cache is touched.
SpendFails(s) ==
  /\ pc[s] = "spend"
  /\ Leave(s)
  /\ UNCHANGED <<now, secrets, sessions, revokedAt>>

\* invalidate_refresh_token: the row, committed, then this worker's cache.
\* A logout ends here; a refresh reads the user and goes on to issue.
Spend(s) ==
  /\ pc[s] = "spend"
  /\ LET j == req[s].jti
     IN /\ black' = [black EXCEPT ![j] = now + TTL]
        /\ spent' = spent \cup {j}
        /\ cache' = [cache EXCEPT ![req[s].worker] = Cached(req[s].worker, j, now + TTL)]
  /\ IF req[s].op = "logout" THEN Leave(s) ELSE Goto(s, "issue") /\ UNCHANGED req
  /\ UNCHANGED <<now, secrets, token, revokedAt>>

\* cleanup_expired_blacklist, daily.
CleanBlacklist ==
  /\ black' = [j \in Tokens |-> IF black[j] <= now THEN 0 ELSE black[j]]
  /\ UNCHANGED <<now, secrets, token, spent, cache, revokedAt, pc, req>>

Restart(w) ==
  /\ cache' = [cache EXCEPT ![w] = <<>>]
  /\ UNCHANGED <<now, secrets, token, spent, black, revokedAt, pc, req>>

-----------------------------------------------------------------------------
(* Passwords.  "change" is the user's own, "reset" an administrator's.     *)

Newer(r, q) == r.at > q.at \/ (r.at = q.at /\ r.id > q.id)

\* ORDER BY changed_at DESC LIMIT n
Recent(n) == {r \in history : Cardinality({q \in history : Newer(q, r)}) < n}

\* The change opens its transaction with this read and verifies the current
\* password; the reset reads outside one.
ReadUser(s, op, new) ==
  /\ pc[s] = "idle"
  /\ op = "change" => \E j \in Issued : Unexpired(j) /\ ~Revoked(j)
  /\ rows < MaxRows
  /\ req' = [req EXCEPT ![s] = [NoReq EXCEPT !.op = op, !.seen = password,
                                  !.new = new, !.began = now]]
  /\ Goto(s, "history")
  /\ UNCHANGED <<now, secrets, sessions, revokedAt>>

\* The new password is compared with the current one and the last ones.
CheckHistory(s) ==
  /\ pc[s] = "history"
  /\ \/ /\ req[s].new \in {req[s].seen} \cup {r.hash : r \in Recent(HistoryLimit)}
        /\ Leave(s)
     \/ /\ req[s].new \notin {req[s].seen} \cup {r.hash : r \in Recent(HistoryLimit)}
        /\ Goto(s, IF req[s].op = "reset" THEN "reread" ELSE "save")
        /\ UNCHANGED req
  /\ UNCHANGED <<now, secrets, sessions, revokedAt>>

\* Mutant of Reread: the hash read before the transaction is recorded.
RereadNothing(s) ==
  /\ pc[s] = "reread"
  /\ req' = [req EXCEPT ![s] = [@ EXCEPT !.began = now, !.moved = FALSE]]
  /\ Goto(s, "save")
  /\ UNCHANGED <<now, secrets, sessions, revokedAt>>

\* reset_user_password: the write transaction begins with a fresh read.
Reread(s) ==
  /\ pc[s] = "reread"
  /\ req' = [req EXCEPT ![s] = [@ EXCEPT !.began = now, !.moved = FALSE, !.seen = password]]
  /\ Goto(s, "save")
  /\ UNCHANGED <<now, secrets, sessions, revokedAt>>

\* save_password_history: one statement, which waits for another that is
\* deleting the same rows.
SaveHistory(s) ==
  /\ pc[s] = "save"
  /\ rows < MaxRows
  /\ LET doomed == history \ Recent(HistoryLimit - 1)
     IN /\ \A o \in Slots \ {s} : req[o].doomed \cap doomed = {}
        /\ req' = [req EXCEPT ![s] = [@ EXCEPT !.row = rows + 1, !.doomed = doomed]]
  /\ rows' = rows + 1
  /\ Goto(s, "commit")
  /\ UNCHANGED <<now, password, history, past, overlapped, changed, sessions, revokedAt>>

\* Mutant of CommitChange: sessions are left alone.
CommitChangeOnly(s) ==
  /\ pc[s] = "commit"
  /\ password' = req[s].new
  /\ history' = (history \ req[s].doomed)
                  \cup {[id |-> req[s].row, hash |-> req[s].seen, at |-> req[s].began]}
  /\ past' = Append(past, req[s].new)
  /\ overlapped' = (overlapped \/ req[s].moved)
  /\ changed' = req[s].began
  /\ req' = [o \in Slots |-> IF o = s THEN NoReq
                             ELSE [req[o] EXCEPT !.moved = req[o].new # None]]
  /\ Goto(s, "idle")
  /\ UNCHANGED <<now, rows, sessions, revokedAt>>

\* UPDATE users, revoke_all_user_tokens in the same transaction, COMMIT.
\* NOW() is the start of the transaction.
CommitChange(s) ==
  /\ pc[s] = "commit"
  /\ password' = req[s].new
  /\ history' = (history \ req[s].doomed)
                  \cup {[id |-> req[s].row, hash |-> req[s].seen, at |-> req[s].began]}
  /\ revokedAt' = req[s].began
  /\ past' = Append(past, req[s].new)
  /\ overlapped' = (overlapped \/ req[s].moved)
  /\ changed' = req[s].began
  /\ req' = [o \in Slots |-> IF o = s THEN NoReq
                             ELSE [req[o] EXCEPT !.moved = req[o].new # None]]
  /\ Goto(s, "idle")
  /\ UNCHANGED <<now, rows, sessions>>

\* A statement fails or the worker dies: nothing of the change remains.
Abort(s) ==
  /\ pc[s] \in {"history", "reread", "save", "commit"}
  /\ Leave(s)
  /\ UNCHANGED <<now, secrets, sessions, revokedAt>>

Tick ==
  /\ now < MaxTime
  /\ now' = now + 1
  /\ UNCHANGED <<secrets, sessions, revokedAt, pc, req>>

Session(s) == Issue(s) \/ Decode(s) \/ CheckRevoked(s) \/ Spend(s) \/ SpendFails(s)

Change(s) == CheckHistory(s) \/ Reread(s) \/ SaveHistory(s) \/ CommitChange(s) \/ Abort(s)

Next ==
  \/ \E s \in Slots :
       \/ \E w \in Workers :
            \/ Login(s, w)
            \/ \E j \in Tokens, op \in {"refresh", "logout"} : Present(s, w, j, op)
       \/ \E op \in {"change", "reset"}, new \in Passwords : ReadUser(s, op, new)
       \/ Session(s) \/ Change(s)
  \/ \E w \in Workers : Restart(w)
  \/ CleanBlacklist \/ Tick

AccountsSpec == Init /\ [][Next]_vars

-----------------------------------------------------------------------------
\* A token recorded as used is refused to every call that begins later, on
\* whatever worker, whatever its cache evicted or lost, and though the
\* clean-up deletes expired rows: the row outlives the token
\* (security.py:169-260).
SpentStaysSpent ==
  \A s \in Slots : pc[s] \in {"revoked", "spend"} => ~req[s].late

\* A cache only speaks of tokens the table has recorded as used, so a
\* failed invalidation is never taken for done (security.py:172).
CacheIsSound ==
  \A w \in Workers : \A i \in DOMAIN cache[w] : cache[w][i].jti \in spent

\* Sessions opened under an earlier password are refused, those apart whose
\* token was issued after the last change began
\* (identity/api/router.py:250-252, admin/api/router.py:391-393).
OldSessionsAreLate ==
  \A j \in Issued :
    token[j].cred # password /\ ~Revoked(j) => token[j].iat > changed

\* As long as no change was built on a password another had replaced, the
\* history holds exactly the passwords before the current one, up to its
\* limit (password_history.py:12-58, admin/api/router.py:369-371).
HistoryIsRecentPast ==
  ~overlapped =>
    LET n == Len(past) - 1
        k == IF n < HistoryLimit THEN n ELSE HistoryLimit
    IN /\ Cardinality(history) = k
       /\ {r.hash : r \in history} = {past[i] : i \in n - k + 1 .. n}
=============================================================================
