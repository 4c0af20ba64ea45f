---------------------------- MODULE Conversations ----------------------------
(***************************************************************************)
(* The conversation of one tutor and one parent: both may open it, write   *)
(* to it and walk back through it page by page, in concurrent requests.    *)
(*                                                                         *)
(* A request's transaction begins with its first query, here the check     *)
(* that its user takes part, and NOW() is that moment; the message's id is *)
(* drawn later, and its row appears later still, with the COMMIT.          *)
(***************************************************************************)
EXTENDS Naturals, Sequences, FiniteSets, SequencesExt

CONSTANTS
  Slots,         \* requests in flight at once
  ConvIds,       \* ids the sequence of conversations may hand out
  MaxMessages,   \* bound on the message ids drawn
  PageSize,      \* the limit a reader asks for
  MaxTime,       \* bound on the clock
  None

ASSUME ConversationsAssumption ==
  /\ MaxMessages \in Nat /\ MaxTime \in Nat /\ PageSize \in Nat \ {0}
  /\ None \notin ConvIds

VARIABLES
  now,
  allowed,       \* some match of the two is not rejected
  conversation,  \* committed rows of conversations for the pair
  messages,      \* committed rows of messages
  lastId,        \* message ids drawn so far
  lastAt,        \* conversations.last_message_at, 0 for NULL
  opened,        \* history variable: conversations answered to first contacts
  pc, req

table == <<conversation, messages, lastId, lastAt, opened>>
vars == <<now, allowed, table, pc, req>>

-----------------------------------------------------------------------------
NoReq == [conv |-> None, at |-> 0, id |-> 0, cursor |-> 0, shown |-> <<>>, there |-> {}]

Goto(s, where) == pc' = [pc EXCEPT ![s] = where]

Leave(s) == Goto(s, "idle") /\ req' = [req EXCEPT ![s] = NoReq]

\* ORDER BY sent_at DESC, message_id DESC
Later(m, n) == m.at > n.at \/ (m.at = n.at /\ m.id > n.id)

\* The newest k of them, reversed.
Top(set, k) == {m \in set : Cardinality({n \in set : Later(n, m)}) < k}

InOrder(q) == \A i, k \in DOMAIN q : i < k => Later(q[k], q[i])

Newest(set, k) == CHOOSE q \in SetToSeqs(Top(set, k)) : InOrder(q)

\* Mutant of Page: the row the cursor names comes again.
PageWithCursor(cursor) ==
  Newest({m \in messages : cursor # 0 => m.id <= cursor}, PageSize)

\* get_messages: the rows before the cursor, 0 for the first page.
Page(cursor) == Newest({m \in messages : cursor # 0 => m.id < cursor}, PageSize)

-----------------------------------------------------------------------------
Init ==
  /\ now = 1 /\ allowed = TRUE
  /\ conversation = {} /\ opened = {}
  /\ messages = {} /\ lastId = 0 /\ lastAt = 0
  /\ pc = [s \in Slots |-> "idle"]
  /\ req = [s \in Slots |-> NoReq]

\* create_conversation: some match, then no conversation yet, or the one.
Contact(s) ==
  /\ pc[s] = "idle"
  /\ allowed
  /\ Goto(s, "find")
  /\ UNCHANGED <<now, allowed, table, req>>

Find(s) ==
  /\ pc[s] = "find"
  /\ \/ conversation = {} /\ Goto(s, "insert") /\ UNCHANGED <<req, opened>>
     \/ \E c \in conversation : opened' = opened \cup {c} /\ Leave(s)
  /\ UNCHANGED <<now, allowed, conversation, messages, lastId, lastAt>>

\* Inserting requests whose row is not committed hold its place in the index.
Holds(s) == req[s].conv # None

\* Ids the sequence may draw.
Free == {c \in ConvIds \ (conversation \cup opened) : \A s \in Slots : req[s].conv # c}

\* Mutant of Insert: no unique index on the pair.
InsertAnyway(s) ==
  /\ pc[s] = "insert"
  /\ \E c \in Free : req' = [req EXCEPT ![s].conv = c]
  /\ Goto(s, "open")
  /\ UNCHANGED <<now, allowed, table>>

\* Mutant of Insert: the violation is answered by another INSERT.
InsertAgain(s) ==
  /\ pc[s] = "insert"
  /\ \A o \in Slots : ~Holds(o)
  /\ \/ /\ conversation = {}
        /\ \E c \in Free : req' = [req EXCEPT ![s].conv = c]
        /\ Goto(s, "open")
     \/ conversation # {} /\ UNCHANGED <<req, pc>>
  /\ UNCHANGED <<now, allowed, table>>

\* INSERT: it waits for a row of the pair that may yet commit; a committed
\* one is a UniqueViolation, which rolls back and looks again.
Insert(s) ==
  /\ pc[s] = "insert"
  /\ \A o \in Slots : ~Holds(o)
  /\ \/ /\ conversation = {}
        /\ \E c \in Free : req' = [req EXCEPT ![s].conv = c]
        /\ Goto(s, "open")
     \/ conversation # {} /\ Goto(s, "find") /\ UNCHANGED req
  /\ UNCHANGED <<now, allowed, table>>

Open(s) ==
  /\ pc[s] = "open"
  /\ conversation' = conversation \cup {req[s].conv}
  /\ opened' = opened \cup {req[s].conv}
  /\ Leave(s)
  /\ UNCHANGED <<now, allowed, messages, lastId, lastAt>>

-----------------------------------------------------------------------------
\* send_message: the transaction begins.
CheckSender(s) ==
  /\ pc[s] = "idle"
  /\ conversation # {} /\ lastId < MaxMessages
  /\ req' = [req EXCEPT ![s].at = now]
  /\ Goto(s, "write")
  /\ UNCHANGED <<now, allowed, table>>

\* INSERT draws the id.
Write(s) ==
  /\ pc[s] = "write" /\ lastId < MaxMessages
  /\ lastId' = lastId + 1
  /\ req' = [req EXCEPT ![s].id = lastId + 1]
  /\ Goto(s, "deliver")
  /\ UNCHANGED <<now, allowed, conversation, messages, lastAt, opened>>

\* UPDATE of the conversation, and COMMIT.
Deliver(s) ==
  /\ pc[s] = "deliver"
  /\ messages' = messages \cup {[id |-> req[s].id, at |-> req[s].at]}
  /\ lastAt' = req[s].at
  /\ Leave(s)
  /\ UNCHANGED <<now, allowed, conversation, lastId, opened>>

\* A worker dies: ids are lost, nothing else.
Crash(s) ==
  /\ pc[s] \in {"find", "insert", "open", "write", "deliver"}
  /\ Leave(s)
  /\ UNCHANGED <<now, allowed, table>>

-----------------------------------------------------------------------------
\* A reader walks back: each page asks for what lies before the oldest
\* message shown, until has_more is false.
StartWalk(s) ==
  /\ pc[s] = "idle"
  /\ messages # {}
  /\ req' = [req EXCEPT ![s].there = messages]
  /\ Goto(s, "walk")
  /\ UNCHANGED <<now, allowed, table>>

Turn(s) ==
  /\ pc[s] = "walk"
  /\ LET page == Page(req[s].cursor) IN
     /\ req' = [req EXCEPT ![s].shown = page \o @,
                           ![s].cursor = IF page = <<>> THEN @ ELSE page[1].id]
     /\ Goto(s, IF Len(page) = PageSize THEN "walk" ELSE "read")
  /\ UNCHANGED <<now, allowed, table>>

Close(s) ==
  /\ pc[s] = "read"
  /\ Leave(s)
  /\ UNCHANGED <<now, allowed, table>>

\* The last match of the two is rejected (matching).
Reject ==
  /\ allowed' = FALSE
  /\ UNCHANGED <<now, table, pc, req>>

Tick ==
  /\ now < MaxTime
  /\ now' = now + 1
  /\ UNCHANGED <<allowed, table, pc, req>>

Continue(s) == Find(s) \/ Insert(s) \/ Open(s) \/ Write(s) \/ Deliver(s) \/ Turn(s) \/ Close(s)

Next ==
  \/ \E s \in Slots :
       Contact(s) \/ CheckSender(s) \/ StartWalk(s) \/ Continue(s) \/ Crash(s)
  \/ Reject \/ Tick

ConversationsSpec == Init /\ [][Next]_vars

\* Each statement returns, and PostgreSQL serves those who wait for a row of
\* the index in turn.
FairConversationsSpec ==
  /\ ConversationsSpec
  /\ \A s \in Slots : WF_vars(Continue(s)) /\ SF_vars(Insert(s))

-----------------------------------------------------------------------------
\* Everyone who opened the conversation of the pair was given the same one
\* and only one exists, although first contacts at once each find none
\* (postgres_conversation_repo.py:68-81).
OneConversation ==
  \A c, d \in conversation \cup opened : c = d /\ c \in conversation

\* Ids were drawn in the order of the stamps.
Chronological == \A m, n \in messages : m.id < n.id => m.at <= n.at

Whole(s) ==
  req[s].there \subseteq ToSet(req[s].shown) /\ InOrder(req[s].shown)

\* A walk that ends has shown every message there was when it began, once
\* and in order, whatever was sent meanwhile, if ids follow the stamps
\* (postgres_message_repo.py:10-34, messaging/api/router.py:60-67).
WalkIsWhole == \A s \in Slots : pc[s] = "read" /\ Chronological => Whole(s)

\* A first contact is answered: the wait for the other's row always ends.
ContactsAnswered == \A s \in Slots : pc[s] = "insert" ~> pc[s] = "idle"
=============================================================================
