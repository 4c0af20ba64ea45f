----------------------- MODULE ConversationsProofs ------------------------
(***************************************************************************)
(* Proofs about module Conversations, for every number of requests and of  *)
(* messages, every page size and every span of time.                       *)
(***************************************************************************)
EXTENDS Conversations, FiniteSetTheorems, TLAPS

Message == [id : Nat, at : Nat]

\* A message's id names it.
Named(set) == \A m, n \in set : m.id = n.id => m = n

-----------------------------------------------------------------------------
(* The order of messages, and the pages read off it *)

LEMMA LaterStrict == \A m, n \in Message : Later(m, n) => ~Later(n, m) /\ m # n
BY DEF Later, Message

LEMMA LaterTransitive ==
  \A m, n, o \in Message : Later(m, n) /\ Later(n, o) => Later(m, o)
BY DEF Later, Message

LEMMA LaterTotal ==
  ASSUME NEW set \in SUBSET Message, Named(set), NEW m \in set, NEW n \in set
  PROVE  m = n \/ Later(m, n) \/ Later(n, m)
BY DEF Later, Message, Named

Laters(set, m) == {n \in set : Later(n, m)}

\* A message with another after it has more messages after it than that one.
LEMMA FewerAfterLater ==
  ASSUME NEW set \in SUBSET Message, IsFiniteSet(set),
         NEW m \in set, NEW n \in set, Later(m, n)
  PROVE  Cardinality(Laters(set, m)) < Cardinality(Laters(set, n))
<1>1. Laters(set, m) \subseteq Laters(set, n)
  BY LaterTransitive DEF Laters
<1>2. m \in Laters(set, n) /\ m \notin Laters(set, m)
  BY LaterStrict DEF Laters
<1>3. IsFiniteSet(Laters(set, n))
  BY FS_Subset DEF Laters
<1>4. QED
  BY <1>1, <1>2, <1>3, FS_Subset, FS_CardinalityType

\* The number of later messages tells the messages of a set apart, and takes
\* every value below their number.
LEMMA RanksAreBijective ==
  ASSUME NEW set \in SUBSET Message, IsFiniteSet(set), Named(set)
  PROVE  [m \in set |-> Cardinality(Laters(set, m))]
           \in Bijection(set, 0 .. Cardinality(set) - 1)
<1> DEFINE rank == [m \in set |-> Cardinality(Laters(set, m))]
           N == Cardinality(set)
<1>0. N \in Nat
  BY FS_CardinalityType
<1>1. \A m \in set : rank[m] \in 0 .. N - 1
  <2> TAKE m \in set
  <2>1. Laters(set, m) \subseteq set /\ m \notin Laters(set, m)
    BY LaterStrict DEF Laters
  <2>2. Cardinality(Laters(set, m)) \in Nat /\ Cardinality(Laters(set, m)) < N
    BY <2>1, FS_Subset, FS_CardinalityType
  <2>3. QED BY <1>0, <2>2
<1>2. \A m, n \in set : rank[m] = rank[n] => m = n
  <2> SUFFICES ASSUME NEW m \in set, NEW n \in set, rank[m] = rank[n], m # n
               PROVE  FALSE
    OBVIOUS
  <2>1. CASE Later(m, n)
    <3>1. rank[m] < rank[n]
      BY <2>1, FewerAfterLater
    <3>2. QED BY <3>1, <1>1
  <2>2. CASE Later(n, m)
    <3>1. rank[n] < rank[m]
      BY <2>2, FewerAfterLater
    <3>2. QED BY <3>1, <1>1
  <2>3. QED BY <2>1, <2>2, LaterTotal
<1>3. rank \in Injection(set, 0 .. N - 1)
  <2>1. rank \in [set -> 0 .. N - 1] /\ DOMAIN rank = set
    BY <1>1
  <2> HIDE DEF rank
  <2>2. QED BY <1>2, <2>1 DEF Injection, IsInjective
<1>4. IsFiniteSet(0 .. N - 1) /\ Cardinality(0 .. N - 1) = N
  BY <1>0, FS_Interval
<1>5. rank \in Surjection(set, 0 .. N - 1)
  BY <1>3, <1>4, FS_Injection
<1>6. QED
  BY <1>3, <1>5 DEF Bijection

\* The newest messages are those of a page: with each comes every later one,
\* and a page that is not full holds them all.
LEMMA TopIsNewest ==
  ASSUME NEW set \in SUBSET Message, IsFiniteSet(set), Named(set),
         NEW k \in Nat
  PROVE  /\ Top(set, k) \in SUBSET set /\ IsFiniteSet(Top(set, k))
         /\ \A m \in Top(set, k), n \in set : Later(n, m) => n \in Top(set, k)
         /\ Top(set, k) # set => Cardinality(Top(set, k)) = k
<1> DEFINE rank == [m \in set |-> Cardinality(Laters(set, m))]
           N == Cardinality(set)
<1>0. N \in Nat
  BY FS_CardinalityType
<1>1. rank \in Bijection(set, 0 .. N - 1)
  BY RanksAreBijective
<1>2. /\ \A m \in set : rank[m] \in 0 .. N - 1
      /\ \A m, n \in set : rank[m] = rank[n] => m = n
      /\ \A r \in 0 .. N - 1 : \E m \in set : rank[m] = r
  BY <1>1 DEF Bijection, Injection, Surjection, IsInjective
<1>3. Top(set, k) = {m \in set : rank[m] < k}
  BY DEF Top, Laters
<1>4. \A m, n \in set : Later(n, m) => rank[n] < rank[m]
  BY FewerAfterLater
<1> HIDE DEF rank
<1>5. Top(set, k) \in SUBSET set /\ IsFiniteSet(Top(set, k))
  BY <1>3, FS_Subset
<1>6. \A m \in Top(set, k), n \in set : Later(n, m) => n \in Top(set, k)
  <2> TAKE m \in Top(set, k), n \in set
  <2> HAVE Later(n, m)
  <2>1. m \in set /\ rank[m] < k
    BY <1>3
  <2>2. rank[n] < rank[m] /\ rank[n] \in 0 .. N - 1 /\ rank[m] \in 0 .. N - 1
    BY <1>2, <1>4, <2>1
  <2>3. rank[n] < k
    BY <2>1, <2>2, <1>0
  <2>4. QED BY <1>3, <2>3
<1>7. ASSUME Top(set, k) # set PROVE Cardinality(Top(set, k)) = k
  <2>1. PICK m \in set : ~(rank[m] < k)
    BY <1>3, <1>7
  <2>2. k <= N - 1
    BY <1>0, <1>2, <2>1
  <2> DEFINE restricted == [n \in Top(set, k) |-> rank[n]]
  <2>3. \A n \in Top(set, k) : n \in set /\ rank[n] \in 0 .. k - 1
    BY <1>0, <1>2, <1>3
  <2>4. \A r \in 0 .. k - 1 : \E n \in Top(set, k) : rank[n] = r
    <3> TAKE r \in 0 .. k - 1
    <3>1. r \in 0 .. N - 1 /\ r < k
      BY <1>0, <2>2
    <3>2. PICK n \in set : rank[n] = r
      BY <1>2, <3>1
    <3>3. QED BY <1>3, <3>1, <3>2
  <2>5. restricted \in Bijection(Top(set, k), 0 .. k - 1)
    BY <1>2, <2>3, <2>4 DEF Bijection, Injection, Surjection, IsInjective
  <2>6. ExistsBijection(Top(set, k), 0 .. k - 1)
    BY <2>5 DEF ExistsBijection
  <2>7. Cardinality(0 .. k - 1) = k
    BY FS_Interval
  <2>8. QED BY <1>5, <2>6, <2>7, FS_Bijection
<1>8. QED BY <1>5, <1>6, <1>7

\* Named messages can be listed in order.
LEMMA CanBeListed ==
  ASSUME NEW set \in SUBSET Message, IsFiniteSet(set), Named(set)
  PROVE  \E q \in SetToSeqs(set) : InOrder(q)
<1> DEFINE rank == [m \in set |-> Cardinality(Laters(set, m))]
           N == Cardinality(set)
           q == [i \in 1 .. N |-> CHOOSE m \in set : rank[m] = N - i]
<1>0. N \in Nat
  BY FS_CardinalityType
<1>1. rank \in Bijection(set, 0 .. N - 1)
  BY RanksAreBijective
<1>2. /\ \A m \in set : rank[m] \in 0 .. N - 1
      /\ \A r \in 0 .. N - 1 : \E m \in set : rank[m] = r
  BY <1>1 DEF Bijection, Injection, Surjection, IsInjective
<1>3. \A m, n \in set : Later(n, m) => rank[n] < rank[m]
  BY FewerAfterLater
<1> HIDE DEF rank
<1>4. \A i \in 1 .. N : q[i] \in set /\ rank[q[i]] = N - i
  <2> TAKE i \in 1 .. N
  <2>1. N - i \in 0 .. N - 1
    BY <1>0
  <2>2. \E m \in set : rank[m] = N - i
    BY <1>2, <2>1
  <2>3. QED BY <2>2
<1>5. q \in [1 .. N -> set] /\ DOMAIN q = 1 .. N
  BY <1>4
<1> HIDE DEF q
<1>6. \A i, j \in 1 .. N : i # j => q[i] # q[j]
  <2> SUFFICES ASSUME NEW i \in 1 .. N, NEW j \in 1 .. N, i # j, q[i] = q[j]
               PROVE  FALSE
    OBVIOUS
  <2>1. N - i = N - j
    BY <1>4
  <2>2. QED BY <1>0, <2>1
<1>7. InOrder(q)
  <2> SUFFICES ASSUME NEW i \in 1 .. N, NEW j \in 1 .. N, i < j, ~Later(q[j], q[i])
               PROVE  FALSE
    BY <1>5 DEF InOrder
  <2>1. q[i] \in set /\ q[j] \in set /\ q[i] # q[j]
    BY <1>0, <1>4, <1>6
  <2>2. Later(q[i], q[j])
    BY <2>1, LaterTotal
  <2>3. N - i < N - j
    BY <1>3, <1>4, <2>1, <2>2
  <2>4. QED BY <1>0, <2>3
<1>8. q \in SetToSeqs(set)
  BY <1>5, <1>6 DEF SetToSeqs
<1>9. QED BY <1>7, <1>8

\* What a page of named messages is.
LEMMA PageFacts ==
  ASSUME NEW set \in SUBSET Message, IsFiniteSet(set), Named(set), NEW k \in Nat
  PROVE  LET page == Newest(set, k) IN
         /\ page \in Seq(set) /\ InOrder(page)
         /\ ToSet(page) = Top(set, k)
         /\ Len(page) = k \/ ToSet(page) = set
         /\ \A m \in ToSet(page), n \in set : Later(n, m) => n \in ToSet(page)
<1> DEFINE page == Newest(set, k)
           top == Top(set, k)
           n == Cardinality(top)
<1>1. /\ top \in SUBSET set /\ IsFiniteSet(top)
      /\ \A m \in top, o \in set : Later(o, m) => o \in top
      /\ top # set => n = k
  BY TopIsNewest
<1>2. n \in Nat /\ Named(top) /\ top \in SUBSET Message
  BY <1>1, FS_CardinalityType DEF Named
<1>3. \E q \in SetToSeqs(top) : InOrder(q)
  BY <1>1, <1>2, CanBeListed
<1> HIDE DEF top
<1>4. page \in SetToSeqs(top) /\ InOrder(page)
  BY <1>3 DEF Newest, top
<1> HIDE DEF page
<1>5. page \in [1 .. n -> top] /\ \A i, j \in 1 .. n : i # j => page[i] # page[j]
  BY <1>4 DEF SetToSeqs
<1>6. page \in Seq(set) /\ Len(page) = n /\ DOMAIN page = 1 .. n
  BY <1>1, <1>2, <1>5
<1>7. ToSet(page) = top
  <2>1. page \in Injection(1 .. n, top)
    BY <1>5 DEF Injection, IsInjective
  <2>2. Cardinality(1 .. n) = n /\ IsFiniteSet(1 .. n)
    BY <1>2, FS_Interval
  <2>3. page \in Surjection(1 .. n, top)
    BY <1>1, <2>1, <2>2, FS_Injection
  <2>4. QED BY <1>5, <1>6, <2>3 DEF Surjection, ToSet
<1>8. QED
  BY <1>1, <1>4, <1>6, <1>7 DEF page, top


-----------------------------------------------------------------------------
(* The invariant *)

Request ==
  [conv : ConvIds \cup {None}, at : Nat, id : Nat, cursor : Nat,
   shown : Seq(Message), there : SUBSET Message]

\* Types.
ConversationsTypes ==
  /\ now \in Nat /\ lastId \in Nat
  /\ conversation \subseteq ConvIds /\ opened \subseteq conversation
  /\ messages \subseteq Message /\ IsFiniteSet(messages)
  /\ pc \in [Slots -> {"idle", "find", "insert", "open", "write", "deliver", "walk", "read"}]
  /\ req \in [Slots -> Request]

\* The index lets one row be under way at most, and only while there is none.
OneRowUnderWay ==
  /\ \A s \in Slots : Holds(s) <=> pc[s] = "open"
  /\ \A s, o \in Slots : Holds(s) /\ Holds(o) => s = o
  /\ \A s \in Slots : Holds(s) => conversation = {}

\* An id belongs to one message, written or about to be.
IdsAreDrawnOnce ==
  /\ Named(messages)
  /\ \A m \in messages : m.id \in 1 .. lastId
  /\ \A s \in Slots : pc[s] = "deliver" =>
       /\ req[s].id \in 1 .. lastId
       /\ \A m \in messages : m.id # req[s].id
       /\ \A o \in Slots : pc[o] = "deliver" /\ req[o].id = req[s].id => o = s

\* What a reader holds are messages, down to the cursor.
WalkHolds(s) ==
  /\ req[s].there \subseteq messages
  /\ ToSet(req[s].shown) \subseteq messages
  /\ req[s].cursor = 0 <=> req[s].shown = <<>>
  /\ req[s].shown # <<>> => req[s].cursor = req[s].shown[1].id

\* From the cursor on, nothing that was there is missing, and the order is kept.
WalkIsWholeSoFar(s) ==
  /\ InOrder(req[s].shown)
  /\ \A m \in req[s].there :
       pc[s] = "read" \/ (req[s].cursor # 0 /\ m.id >= req[s].cursor)
         => m \in ToSet(req[s].shown)

WalksAreSound ==
  /\ \A s \in Slots : pc[s] \in {"walk", "read"} =>
       WalkHolds(s) /\ (Chronological => WalkIsWholeSoFar(s))
  /\ \A s \in Slots : pc[s] \notin {"walk", "read"} =>
       req[s].cursor = 0 /\ req[s].shown = <<>>

ConversationsInv ==
  /\ ConversationsTypes /\ OneConversation
  /\ OneRowUnderWay /\ IdsAreDrawnOnce /\ WalksAreSound

-----------------------------------------------------------------------------
(* Every step keeps it *)

LEMMA NoReqIdle ==
  /\ NoReq \in Request /\ NoReq.conv = None
  /\ NoReq.cursor = 0 /\ NoReq.shown = <<>> /\ NoReq.there = {}
BY DEF NoReq, Request

\* The messages a page is read from.
Earlier(cursor) == {m \in messages : cursor # 0 => m.id < cursor}

LEMMA PageOfMessages ==
  ASSUME ConversationsTypes, Named(messages), NEW cursor \in Nat
  PROVE  /\ Page(cursor) \in Seq(messages) /\ InOrder(Page(cursor))
         /\ ToSet(Page(cursor)) \subseteq Earlier(cursor)
         /\ Len(Page(cursor)) = PageSize \/ ToSet(Page(cursor)) = Earlier(cursor)
         /\ \A m \in ToSet(Page(cursor)), n \in Earlier(cursor) :
              Later(n, m) => n \in ToSet(Page(cursor))
<1>1. /\ Earlier(cursor) \in SUBSET Message /\ IsFiniteSet(Earlier(cursor))
      /\ Named(Earlier(cursor)) /\ PageSize \in Nat
  BY FS_Subset, ConversationsAssumption DEF Earlier, ConversationsTypes, Named
<1>2. Page(cursor) = Newest(Earlier(cursor), PageSize)
  BY DEF Page, Earlier
<1>3. /\ Page(cursor) \in Seq(Earlier(cursor)) /\ InOrder(Page(cursor))
      /\ ToSet(Page(cursor)) = Top(Earlier(cursor), PageSize)
      /\ Len(Page(cursor)) = PageSize \/ ToSet(Page(cursor)) = Earlier(cursor)
      /\ \A m \in ToSet(Page(cursor)), n \in Earlier(cursor) :
           Later(n, m) => n \in ToSet(Page(cursor))
  BY <1>1, <1>2, PageFacts
<1>4. Page(cursor) \in Seq(messages)
  BY <1>3 DEF Earlier
<1>5. ToSet(Page(cursor)) \subseteq Earlier(cursor)
  BY <1>3 DEF ToSet
<1>6. QED
  BY <1>3, <1>4, <1>5

LEMMA TypesKept == ConversationsInv /\ [Next]_vars => ConversationsTypes'
<1> SUFFICES ASSUME ConversationsInv, [Next]_vars PROVE ConversationsTypes'
  OBVIOUS
<1> USE DEF ConversationsTypes
<1>0. ConversationsTypes /\ IdsAreDrawnOnce
  BY DEF ConversationsInv
<1>1. ASSUME NEW s \in Slots, Contact(s) PROVE ConversationsTypes'
  BY <1>0, <1>1 DEF Contact, Goto, table
<1>2. ASSUME NEW s \in Slots, CheckSender(s) PROVE ConversationsTypes'
  BY <1>0, <1>2 DEF CheckSender, Goto, table, Request
<1>3. ASSUME NEW s \in Slots, StartWalk(s) PROVE ConversationsTypes'
  BY <1>0, <1>3 DEF StartWalk, Goto, table, Request
<1>4. ASSUME NEW s \in Slots, Find(s) PROVE ConversationsTypes'
  BY <1>0, <1>4, NoReqIdle DEF Find, Goto, Leave, table
<1>5. ASSUME NEW s \in Slots, Insert(s) PROVE ConversationsTypes'
  <2>1. CASE conversation # {}
    BY <1>0, <1>5, <2>1 DEF Insert, Goto, table
  <2>2. CASE conversation = {}
    <3>1. PICK c \in ConvIds : req' = [req EXCEPT ![s].conv = c]
      BY <1>5, <2>2 DEF Insert, Free
    <3>2. [req[s] EXCEPT !.conv = c] \in Request
      BY <1>0 DEF Request
    <3>3. req' \in [Slots -> Request]
      BY <1>0, <3>1, <3>2
    <3>4. QED
      BY <1>0, <1>5, <2>2, <3>3 DEF Insert, Goto, table
  <2>3. QED BY <2>1, <2>2
<1>6. ASSUME NEW s \in Slots, Open(s) PROVE ConversationsTypes'
  <2>1. req[s].conv \in ConvIds
    BY <1>0, <1>6 DEF Open, ConversationsInv, OneRowUnderWay, Holds, Request
  <2>2. QED
    BY <1>0, <1>6, <2>1, NoReqIdle DEF Open, Goto, Leave
<1>7. ASSUME NEW s \in Slots, Write(s) PROVE ConversationsTypes'
  <2>1. PICK id \in Nat : id = lastId + 1
    BY <1>0
  <2>2. [req[s] EXCEPT !.id = id] \in Request
    BY <1>0 DEF Request
  <2>3. req' \in [Slots -> Request]
    BY <1>0, <1>7, <2>1, <2>2 DEF Write
  <2>4. lastId' \in Nat
    BY <1>0, <1>7 DEF Write
  <2>5. UNCHANGED <<now, conversation, opened, messages>>
    BY <1>7 DEF Write
  <2>6. pc' = [pc EXCEPT ![s] = "deliver"]
    BY <1>7 DEF Write, Goto
  <2>7. QED
    BY <1>0, <2>3, <2>4, <2>5, <2>6
<1>8. ASSUME NEW s \in Slots, Deliver(s) PROVE ConversationsTypes'
  <2>1. [id |-> req[s].id, at |-> req[s].at] \in Message
    BY <1>0 DEF Request, Message
  <2>2. IsFiniteSet(messages \cup {[id |-> req[s].id, at |-> req[s].at]})
    BY <1>0, FS_AddElement
  <2>3. QED
    BY <1>0, <1>8, <2>1, <2>2, NoReqIdle DEF Deliver, Goto, Leave
<1>9. ASSUME NEW s \in Slots, Turn(s) PROVE ConversationsTypes'
  <2> DEFINE page == Page(req[s].cursor)
  <2>1. page \in Seq(Message)
    BY <1>0, PageOfMessages DEF Request, IdsAreDrawnOnce
  <2> HIDE DEF page
  <2>2. page # <<>> => page[1].id \in Nat
    <3>1. page # <<>> => page[1] \in Message
      BY <2>1
    <3>2. QED BY <3>1 DEF Message
  <2>3. req' = [req EXCEPT ![s].shown = page \o @,
                           ![s].cursor = IF page = <<>> THEN @ ELSE page[1].id]
    BY <1>9 DEF Turn, page
  <2>4. PICK cursor \in Nat : req' = [req EXCEPT ![s].shown = page \o @, ![s].cursor = cursor]
    <3>1. req[s].cursor \in Nat
      BY <1>0 DEF Request
    <3>2. QED BY <2>2, <2>3, <3>1
  <2>5. page \o req[s].shown \in Seq(Message)
    BY <1>0, <2>1 DEF Request
  <2>6. [req[s] EXCEPT !.shown = page \o req[s].shown, !.cursor = cursor] \in Request
    BY <1>0, <2>5 DEF Request
  <2>7. req' \in [Slots -> Request]
    BY <1>0, <2>4, <2>6
  <2>8. QED
    BY <1>0, <1>9, <2>7 DEF Turn, Goto, table
<1>10. ASSUME NEW s \in Slots, Close(s) \/ Crash(s) PROVE ConversationsTypes'
  BY <1>0, <1>10, NoReqIdle DEF Close, Crash, Goto, Leave, table
<1>11. CASE Reject \/ Tick \/ UNCHANGED vars
  BY <1>0, <1>11 DEF Reject, Tick, table, vars
<1>12. QED
  BY <1>1, <1>2, <1>3, <1>4, <1>5, <1>6, <1>7, <1>8, <1>9, <1>10, <1>11
  DEF Next, Continue

LEMMA OpeningKept ==
  ConversationsInv /\ [Next]_vars => OneConversation' /\ OneRowUnderWay'
<1> SUFFICES ASSUME ConversationsInv, [Next]_vars
             PROVE  OneConversation' /\ OneRowUnderWay'
  OBVIOUS
<1> USE DEF OneConversation, OneRowUnderWay, Holds
<1>0. /\ OneConversation /\ OneRowUnderWay
      /\ pc \in [Slots -> {"idle", "find", "insert", "open", "write", "deliver", "walk", "read"}]
      /\ req \in [Slots -> Request] /\ opened \subseteq conversation
      /\ conversation \subseteq ConvIds
  BY DEF ConversationsInv, ConversationsTypes
<1>1. ASSUME NEW s \in Slots, Contact(s) PROVE OneConversation' /\ OneRowUnderWay'
  BY <1>0, <1>1 DEF Contact, Goto, table
<1>2. ASSUME NEW s \in Slots, CheckSender(s) PROVE OneConversation' /\ OneRowUnderWay'
  BY <1>0, <1>2 DEF CheckSender, Goto, table, Request
<1>3. ASSUME NEW s \in Slots, StartWalk(s) PROVE OneConversation' /\ OneRowUnderWay'
  BY <1>0, <1>3 DEF StartWalk, Goto, table, Request
<1>4. ASSUME NEW s \in Slots, Find(s) PROVE OneConversation' /\ OneRowUnderWay'
  BY <1>0, <1>4, NoReqIdle DEF Find, Goto, Leave, table
<1>5. ASSUME NEW s \in Slots, Insert(s) PROVE OneConversation' /\ OneRowUnderWay'
  <2>1. CASE conversation # {}
    BY <1>0, <1>5, <2>1 DEF Insert, Goto, table
  <2>2. CASE conversation = {}
    <3>1. PICK c \in ConvIds : req' = [req EXCEPT ![s].conv = c]
      BY <1>5, <2>2 DEF Insert, Free
    <3>2. /\ req'[s].conv = c /\ c # None /\ pc'[s] = "open"
          /\ \A o \in Slots : o # s => req'[o] = req[o] /\ pc'[o] = pc[o]
          /\ \A o \in Slots : req[o].conv = None
      BY <1>0, <1>5, <2>2, <3>1, ConversationsAssumption DEF Insert, Goto, Request
    <3>3. UNCHANGED <<conversation, opened>>
      BY <1>5 DEF Insert, table
    <3>4. QED
      BY <1>0, <2>2, <3>2, <3>3
  <2>3. QED BY <2>1, <2>2
<1>6. ASSUME NEW s \in Slots, Open(s) PROVE OneConversation' /\ OneRowUnderWay'
  BY <1>0, <1>6, NoReqIdle DEF Open, Goto, Leave
<1>7. ASSUME NEW s \in Slots, Write(s) PROVE OneConversation' /\ OneRowUnderWay'
  BY <1>0, <1>7 DEF Write, Goto, Request
<1>8. ASSUME NEW s \in Slots, Deliver(s) \/ Close(s) \/ Crash(s)
      PROVE  OneConversation' /\ OneRowUnderWay'
  BY <1>0, <1>8, NoReqIdle DEF Deliver, Close, Crash, Goto, Leave, table
<1>9. ASSUME NEW s \in Slots, Turn(s) PROVE OneConversation' /\ OneRowUnderWay'
  BY <1>0, <1>9 DEF Turn, Goto, table, Request
<1>10. CASE Reject \/ Tick \/ UNCHANGED vars
  BY <1>0, <1>10 DEF Reject, Tick, table, vars
<1>11. QED
  BY <1>1, <1>2, <1>3, <1>4, <1>5, <1>6, <1>7, <1>8, <1>9, <1>10
  DEF Next, Continue

LEMMA DrawnKept == ConversationsInv /\ [Next]_vars => IdsAreDrawnOnce'
<1> SUFFICES ASSUME ConversationsInv, [Next]_vars PROVE IdsAreDrawnOnce'
  OBVIOUS
<1> USE DEF IdsAreDrawnOnce, Named
<1>0. /\ IdsAreDrawnOnce /\ lastId \in Nat /\ messages \subseteq Message
      /\ pc \in [Slots -> {"idle", "find", "insert", "open", "write", "deliver", "walk", "read"}]
      /\ req \in [Slots -> Request]
  BY DEF ConversationsInv, ConversationsTypes
<1>1. ASSUME NEW s \in Slots, Write(s) PROVE IdsAreDrawnOnce'
  <2>1. /\ lastId' = lastId + 1 /\ messages' = messages
        /\ \A m \in messages : m.id \in 1 .. lastId /\ m.id \in Nat
        /\ req'[s].id = lastId + 1
        /\ \A o \in Slots : o # s => req'[o] = req[o] /\ pc'[o] = pc[o]
    BY <1>0, <1>1 DEF Write, Goto, Message, Request
  <2>2. \A m \in messages : m.id \in 1 .. lastId + 1 /\ m.id # lastId + 1
    BY <1>0, <2>1
  <2>3. ASSUME NEW o \in Slots, o # s, pc'[o] = "deliver"
        PROVE  /\ req'[o].id \in 1 .. lastId + 1 /\ req'[o].id # lastId + 1
               /\ req'[o].id = req[o].id /\ pc[o] = "deliver"
    BY <1>0, <2>1, <2>3
  <2>4. QED
    BY <1>0, <2>1, <2>2, <2>3
<1>2. ASSUME NEW s \in Slots, Deliver(s) PROVE IdsAreDrawnOnce'
  <2>1. PICK new : new = [id |-> req[s].id, at |-> req[s].at]
    OBVIOUS
  <2>2. /\ messages' = messages \cup {new} /\ lastId' = lastId /\ new.id = req[s].id
        /\ pc[s] = "deliver" /\ pc'[s] = "idle"
        /\ \A o \in Slots : o # s => req'[o] = req[o] /\ pc'[o] = pc[o]
    BY <1>0, <1>2, <2>1 DEF Deliver, Goto, Leave
  <2>3. Named(messages)'
    BY <1>0, <2>2
  <2>4. QED
    BY <1>0, <2>2, <2>3
<1>3. ASSUME NEW s \in Slots,
             \/ Contact(s) \/ CheckSender(s) \/ StartWalk(s) \/ Find(s)
             \/ Insert(s) \/ Open(s) \/ Turn(s) \/ Close(s) \/ Crash(s)
      PROVE  IdsAreDrawnOnce'
  <2>1. messages' = messages /\ lastId' = lastId
    BY <1>3 DEF Contact, CheckSender, StartWalk, Find, Insert, Open, Turn, Close,
                Crash, Leave, Goto, table
  <2>2. pc'[s] # "deliver"
    BY <1>0, <1>3 DEF Contact, CheckSender, StartWalk, Find, Insert, Open, Turn, Close,
                Crash, Leave, Goto, table
  <2>3. \A o \in Slots : o # s => pc'[o] = pc[o] /\ req'[o] = req[o]
    BY <1>0, <1>3 DEF Contact, CheckSender, StartWalk, Find, Insert, Open, Turn, Close,
                Crash, Leave, Goto, table
  <2>4. QED
    BY <1>0, <2>1, <2>2, <2>3
<1>4. CASE Reject \/ Tick \/ UNCHANGED vars
  BY <1>0, <1>4 DEF Reject, Tick, table, vars
<1>5. QED
  BY <1>1, <1>2, <1>3, <1>4 DEF Next, Continue

\* A step that leaves a reader alone leaves its walk sound.
LEMMA OthersWalkOn ==
  ASSUME ConversationsInv, messages \subseteq messages', NEW o \in Slots,
         pc'[o] = pc[o], req'[o] = req[o]
  PROVE  /\ pc'[o] \in {"walk", "read"} =>
              WalkHolds(o)' /\ (Chronological' => WalkIsWholeSoFar(o)')
         /\ pc'[o] \notin {"walk", "read"} => req'[o].cursor = 0 /\ req'[o].shown = <<>>
BY DEF ConversationsInv, WalksAreSound, WalkHolds, WalkIsWholeSoFar, Chronological

\* A page before those shown keeps the walk sound.
LEMMA TurnKeepsWalk ==
  ASSUME ConversationsInv, NEW s \in Slots, Turn(s)
  PROVE  WalkHolds(s)' /\ (Chronological' => WalkIsWholeSoFar(s)')
<1> DEFINE page == Page(req[s].cursor)
           old == req[s].shown
           cursor == req[s].cursor
<1>0. /\ messages \subseteq Message /\ Named(messages)
      /\ cursor \in Nat /\ old \in Seq(Message)
      /\ \A m \in messages : m.id \in Nat /\ m.id >= 1
      /\ req \in [Slots -> Request]
      /\ pc \in [Slots -> {"idle", "find", "insert", "open", "write", "deliver", "walk", "read"}]
  BY DEF ConversationsInv, ConversationsTypes, IdsAreDrawnOnce, Request, Message
<1>1. /\ req[s].there \subseteq messages /\ ToSet(old) \subseteq messages
      /\ cursor = 0 <=> old = <<>>
      /\ old # <<>> => cursor = old[1].id
      /\ Chronological => /\ InOrder(old)
                          /\ \A m \in req[s].there :
                               cursor # 0 /\ m.id >= cursor => m \in ToSet(old)
  BY DEF Turn, ConversationsInv, WalksAreSound, WalkHolds, WalkIsWholeSoFar
<1>2. /\ page \in Seq(messages) /\ InOrder(page)
      /\ ToSet(page) \subseteq Earlier(cursor)
      /\ Len(page) = PageSize \/ ToSet(page) = Earlier(cursor)
      /\ \A m \in ToSet(page), n \in Earlier(cursor) : Later(n, m) => n \in ToSet(page)
  BY <1>0, PageOfMessages DEF ConversationsInv
<1>3. /\ messages' = messages /\ req'[s].there = req[s].there
      /\ req'[s].shown = page \o old
      /\ req'[s].cursor = IF page = <<>> THEN cursor ELSE page[1].id
      /\ pc'[s] = IF Len(page) = PageSize THEN "walk" ELSE "read"
  BY <1>0 DEF Turn, Goto, table, Request
<1> HIDE DEF page, old, cursor
<1>4. /\ page \o old \in Seq(Message) /\ Len(page \o old) = Len(page) + Len(old)
      /\ Len(page) \in Nat /\ Len(old) \in Nat
      /\ \A i \in 1 .. Len(page) : (page \o old)[i] = page[i]
      /\ \A i \in Len(page) + 1 .. Len(page) + Len(old) :
           (page \o old)[i] = old[i - Len(page)] /\ i - Len(page) \in 1 .. Len(old)
  BY <1>0, <1>2
<1>5. ToSet(page \o old) = ToSet(page) \cup ToSet(old)
  <2>1. ASSUME NEW m \in ToSet(page \o old) PROVE m \in ToSet(page) \cup ToSet(old)
    <3>1. PICK i \in 1 .. Len(page) + Len(old) : m = (page \o old)[i]
      BY <1>4 DEF ToSet
    <3>2. CASE i <= Len(page)
      BY <1>2, <1>4, <3>1, <3>2 DEF ToSet
    <3>3. CASE i > Len(page)
      BY <1>0, <1>4, <3>1, <3>3 DEF ToSet
    <3>4. QED BY <1>4, <3>2, <3>3
  <2>2. ASSUME NEW m \in ToSet(page) PROVE m \in ToSet(page \o old)
    BY <1>2, <1>4, <2>2 DEF ToSet
  <2>3. ASSUME NEW m \in ToSet(old) PROVE m \in ToSet(page \o old)
    <3>1. PICK i \in 1 .. Len(old) : m = old[i]
      BY <1>0 DEF ToSet
    <3>2. i + Len(page) \in Len(page) + 1 .. Len(page) + Len(old)
          /\ (i + Len(page)) - Len(page) = i
          /\ i + Len(page) \in DOMAIN (page \o old)
      BY <1>4
    <3>3. QED BY <1>4, <3>1, <3>2 DEF ToSet
  <2>4. QED BY <2>1, <2>2, <2>3
<1>6. ASSUME page # <<>>
      PROVE  /\ page[1] \in ToSet(page) /\ page[1] \in messages /\ 1 \in 1 .. Len(page)
             /\ (page \o old)[1] = page[1] /\ page \o old # <<>>
             /\ page[1].id # 0
  <2>1. 1 \in 1 .. Len(page) /\ DOMAIN page = 1 .. Len(page)
    BY <1>2, <1>6
  <2>2. page[1] \in ToSet(page) /\ page[1] \in messages
    BY <1>2, <2>1 DEF ToSet
  <2>3. page \o old # <<>>
    BY <1>4, <2>1
  <2>4. QED BY <1>0, <1>4, <2>1, <2>2, <2>3
<1>7. page = <<>> => page \o old = old
  BY <1>0
<1>8. WalkHolds(s)'
  <2>1. ToSet(page \o old) \subseteq messages
    BY <1>1, <1>2, <1>5 DEF Earlier
  <2>2. CASE page = <<>>
    BY <1>1, <1>3, <1>7, <2>1, <2>2 DEF WalkHolds
  <2>3. CASE page # <<>>
    BY <1>1, <1>3, <1>6, <2>1, <2>3 DEF WalkHolds
  <2>4. QED BY <2>2, <2>3
<1>9. ASSUME Chronological' PROVE WalkIsWholeSoFar(s)'
  <2>0. Chronological
    BY <1>3, <1>9 DEF Chronological
  <2>1. InOrder(page \o old)
    <3> SUFFICES ASSUME NEW i \in 1 .. Len(page) + Len(old),
                        NEW k \in 1 .. Len(page) + Len(old), i < k
                 PROVE  Later((page \o old)[k], (page \o old)[i])
      BY <1>4 DEF InOrder
    <3>1. CASE k <= Len(page)
      <4>1. i \in 1 .. Len(page) /\ k \in 1 .. Len(page) /\ DOMAIN page = 1 .. Len(page)
        BY <1>2, <1>4, <3>1
      <4>2. QED BY <1>2, <1>4, <4>1 DEF InOrder
    <3>2. CASE i > Len(page)
      <4>1. /\ i \in Len(page) + 1 .. Len(page) + Len(old)
            /\ k \in Len(page) + 1 .. Len(page) + Len(old)
            /\ i - Len(page) < k - Len(page)
            /\ DOMAIN old = 1 .. Len(old)
        BY <1>0, <1>4, <3>2
      <4>2. QED BY <1>1, <1>4, <2>0, <4>1 DEF InOrder
    <3>3. CASE i <= Len(page) /\ k > Len(page)
      <4>1. i \in 1 .. Len(page) /\ k \in Len(page) + 1 .. Len(page) + Len(old)
        BY <1>4, <3>3
      <4>2. PICK j \in 1 .. Len(old) : (page \o old)[k] = old[j]
        BY <1>4, <4>1
      <4>3. /\ page[i] \in ToSet(page) /\ old[j] \in ToSet(old) /\ old[1] \in ToSet(old)
            /\ old # <<>> /\ 1 \in 1 .. Len(old) /\ DOMAIN old = 1 .. Len(old)
        BY <1>0, <1>2, <4>1, <4>2 DEF ToSet
      <4>4. /\ page[i] \in messages /\ page[i].id < cursor
            /\ old[1] \in messages /\ old[j] \in messages /\ old[1].id = cursor
        BY <1>1, <1>2, <4>3 DEF Earlier
      <4>5. Later(old[1], page[i])
        <5>1. page[i].at <= old[1].at /\ page[i].at \in Nat /\ old[1].at \in Nat
              /\ page[i].id < old[1].id /\ page[i].id \in Nat /\ old[1].id \in Nat
          BY <1>0, <2>0, <4>4 DEF Chronological, Message
        <5>2. QED BY <5>1 DEF Later
      <4>6. j = 1 \/ Later(old[j], old[1])
        BY <1>1, <2>0, <4>3 DEF InOrder
      <4>7. Later(old[j], page[i])
        BY <1>0, <4>4, <4>5, <4>6, LaterTransitive
      <4>8. QED BY <1>4, <4>1, <4>2, <4>7
    <3>4. QED BY <1>4, <3>1, <3>2, <3>3
  <2>2. ASSUME NEW m \in req[s].there, m.id >= cursor, cursor # 0
        PROVE  m \in ToSet(page \o old)
    BY <1>1, <1>5, <2>0, <2>2
  <2>3. ASSUME NEW m \in req[s].there, m \in Earlier(cursor), page # <<>>,
               m.id >= page[1].id
        PROVE  m \in ToSet(page \o old)
    <3>1. /\ m \in messages /\ page[1] \in messages /\ page[1] \in ToSet(page)
      BY <1>1, <1>6, <2>3
    <3>2. ~Later(page[1], m)
      <4>1. m \in Message /\ page[1] \in Message
        BY <1>0, <3>1
      <4>2. CASE m = page[1]
        BY <4>1, <4>2, LaterStrict
      <4>3. CASE m # page[1]
        <5>1. /\ m.id \in Nat /\ page[1].id \in Nat /\ m.at \in Nat /\ page[1].at \in Nat
              /\ page[1].id # m.id
          BY <1>0, <3>1, <4>1, <4>3 DEF Message, Named
        <5>2. page[1].id < m.id
          BY <2>3, <5>1
        <5>3. page[1].at <= m.at
          BY <2>0, <3>1, <5>2 DEF Chronological
        <5>4. QED BY <5>1, <5>2, <5>3 DEF Later
      <4>4. QED BY <4>2, <4>3
    <3>3. m = page[1] \/ Later(m, page[1])
      BY <1>0, <3>1, <3>2, LaterTotal
    <3>4. QED BY <1>2, <1>5, <2>3, <3>1, <3>3
  <2>4. ASSUME NEW m \in req[s].there, m \in Earlier(cursor), Len(page) # PageSize
        PROVE  m \in ToSet(page \o old)
    BY <1>2, <1>5, <2>4
  <2>5. \A m \in req[s].there :
          m \in Earlier(cursor) \/ (cursor # 0 /\ m.id >= cursor)
    BY <1>0, <1>1 DEF Earlier
  <2>6. Len(page) = PageSize => page # <<>>
    BY ConversationsAssumption
  <2>7. \A m \in req'[s].there :
          pc'[s] = "read" \/ (req'[s].cursor # 0 /\ m.id >= req'[s].cursor)
            => m \in ToSet(page \o old)
    BY <1>3, <2>2, <2>3, <2>4, <2>5, <2>6
  <2>8. QED
    BY <1>3, <2>1, <2>7 DEF WalkIsWholeSoFar
<1>10. QED BY <1>8, <1>9

LEMMA WalksKept == ConversationsInv /\ [Next]_vars => WalksAreSound'
<1> SUFFICES ASSUME ConversationsInv, [Next]_vars PROVE WalksAreSound'
  OBVIOUS
<1>0. /\ WalksAreSound /\ messages \subseteq Message
      /\ pc \in [Slots -> {"idle", "find", "insert", "open", "write", "deliver", "walk", "read"}]
      /\ req \in [Slots -> Request]
  BY DEF ConversationsInv, ConversationsTypes
<1>1. ASSUME NEW s \in Slots, StartWalk(s) PROVE WalksAreSound'
  <2>1. /\ messages' = messages /\ pc[s] = "idle"
        /\ \A o \in Slots : o # s => pc'[o] = pc[o] /\ req'[o] = req[o]
        /\ pc'[s] = "walk" /\ req'[s].there = messages
        /\ req'[s].cursor = req[s].cursor /\ req'[s].shown = req[s].shown
    BY <1>0, <1>1 DEF StartWalk, Goto, table, Request
  <2>2. req'[s].cursor = 0 /\ req'[s].shown = <<>>
    BY <1>0, <2>1 DEF WalksAreSound
  <2>3. WalkHolds(s)' /\ WalkIsWholeSoFar(s)'
    BY <2>1, <2>2 DEF WalkHolds, WalkIsWholeSoFar, InOrder, ToSet
  <2>4. QED
    BY <2>1, <2>3, OthersWalkOn DEF WalksAreSound
<1>2. ASSUME NEW s \in Slots, Turn(s) PROVE WalksAreSound'
  <2>1. /\ messages' = messages
        /\ \A o \in Slots : o # s => pc'[o] = pc[o] /\ req'[o] = req[o]
        /\ pc'[s] \in {"walk", "read"}
    BY <1>0, <1>2 DEF Turn, Goto, table
  <2>2. QED
    BY <1>2, <2>1, OthersWalkOn, TurnKeepsWalk DEF WalksAreSound
<1>3. ASSUME NEW s \in Slots,
             \/ Contact(s) \/ CheckSender(s) \/ Find(s) \/ Insert(s) \/ Open(s)
             \/ Write(s) \/ Deliver(s) \/ Close(s) \/ Crash(s)
      PROVE  WalksAreSound'
  <2>1. messages \subseteq messages'
    BY <1>3 DEF Contact, CheckSender, Find, Insert, Open, Write, Deliver, Close, Crash,
                Goto, Leave, table
  <2>2. \A o \in Slots : o # s => pc'[o] = pc[o] /\ req'[o] = req[o]
    BY <1>0, <1>3 DEF Contact, CheckSender, Find, Insert, Open, Write, Deliver, Close, Crash,
                Goto, Leave, table
  <2>3. pc'[s] \notin {"walk", "read"}
    BY <1>0, <1>3 DEF Contact, CheckSender, Find, Insert, Open, Write, Deliver, Close, Crash,
                Goto, Leave, table
  <2>4. CASE \/ Contact(s) \/ CheckSender(s) \/ Insert(s) \/ Write(s)
             \/ Find(s) /\ pc'[s] = "insert"
    <3>1. pc[s] \notin {"walk", "read"}
      BY <2>4 DEF Contact, CheckSender, Insert, Write, Find
    <3>2. req'[s].cursor = req[s].cursor /\ req'[s].shown = req[s].shown
      BY <1>0, <2>4 DEF Contact, CheckSender, Insert, Write, Find, Goto, Leave, table, Request
    <3>3. QED
      BY <1>0, <2>1, <2>2, <2>3, <3>1, <3>2, OthersWalkOn DEF WalksAreSound
  <2>5. CASE \/ Open(s) \/ Deliver(s) \/ Close(s) \/ Crash(s)
             \/ Find(s) /\ pc'[s] # "insert"
    <3>1. req'[s] = NoReq
      BY <1>0, <2>5 DEF Open, Deliver, Close, Crash, Find, Goto, Leave
    <3>2. QED
      BY <2>1, <2>2, <2>3, <3>1, NoReqIdle, OthersWalkOn DEF WalksAreSound
  <2>6. QED BY <1>3, <2>4, <2>5
<1>4. CASE Reject \/ Tick \/ UNCHANGED vars
  BY <1>4, OthersWalkOn DEF Reject, Tick, table, vars, WalksAreSound
<1>5. QED
  BY <1>1, <1>2, <1>3, <1>4 DEF Next, Continue

-----------------------------------------------------------------------------
(* The theorems *)

LEMMA InitConversationsInv == Init => ConversationsInv
<1> SUFFICES ASSUME Init PROVE ConversationsInv
  OBVIOUS
<1> USE NoReqIdle DEF Init
<1>1. ConversationsTypes
  BY FS_EmptySet DEF ConversationsTypes
<1>2. OneConversation /\ OneRowUnderWay
  BY DEF OneConversation, OneRowUnderWay, Holds
<1>3. IdsAreDrawnOnce
  BY DEF IdsAreDrawnOnce, Named
<1>4. WalksAreSound
  BY DEF WalksAreSound
<1>5. QED BY <1>1, <1>2, <1>3, <1>4 DEF ConversationsInv

\* Ids are drawn once, one row of the pair is under way at most, and what a
\* reader holds is what lay at and after its cursor.
THEOREM ConversationsInvariant == ConversationsSpec => []ConversationsInv
<1>1. ConversationsInv /\ [Next]_vars => ConversationsInv'
  BY TypesKept, OpeningKept, DrawnKept, WalksKept DEF ConversationsInv
<1>2. QED
  BY <1>1, InitConversationsInv, PTL DEF ConversationsSpec

\* Concurrent first contacts all get the one conversation of the pair
\* (postgres_conversation_repo.py:68-81).
THEOREM OneConversationOpened == ConversationsSpec => []OneConversation
<1>1. ConversationsInv => OneConversation
  BY DEF ConversationsInv
<1>2. QED
  BY <1>1, ConversationsInvariant, PTL

\* A walk shows every message there was when it began, once and in order,
\* whatever the page size and whatever is sent meanwhile
\* (postgres_message_repo.py:10-34).
THEOREM WalksShowAll == ConversationsSpec => []WalkIsWhole
<1>1. ConversationsInv => WalkIsWhole
  <2> SUFFICES ASSUME ConversationsInv, NEW s \in Slots, pc[s] = "read", Chronological
               PROVE  Whole(s)
    BY DEF WalkIsWhole
  <2>1. WalkIsWholeSoFar(s)
    BY DEF ConversationsInv, WalksAreSound
  <2>2. QED BY <2>1 DEF WalkIsWholeSoFar, Whole
<1>2. QED
  BY <1>1, ConversationsInvariant, PTL

=============================================================================
