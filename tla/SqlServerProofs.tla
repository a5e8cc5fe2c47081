--------------------------- MODULE SqlServerProofs ---------------------------
(***************************************************************************)
(* What is proved of SqlServer for any clients, actions, sessions and      *)
(* bounds: that the books in memory and the rows of the tables are two     *)
(* records of the same orders, that a trade is between the best of each    *)
(* side at a price both accept, that a sweep leaves nothing behind that    *)
(* could trade, and that a balance only goes below zero when two threads   *)
(* were about to take the same cash.                                       *)
(*                                                                         *)
(* The sweeps are the difficulty: they hold the mutex of the books, but    *)
(* the sessions and the watcher go on writing the tables, and between the  *)
(* removal of the two rows of a trade and the return of what is left of    *)
(* one of them the book holds ids that anybody may be given again.         *)
(***************************************************************************)
EXTENDS SqlServer, SequenceTheorems, SumProofs

Trading == {"pay", "receive", "deliver", "remove", "close", "reopen"}
Reopening == sweep.stage = "reopen"

\* A row as AdmitOrder makes it: the quantity is not negative, and the price of a
\* MARKET order is only its place in the book.
RowRecords ==
  [status : {"PENDING", "WAITING"}, client : Clients, side : Sides, quantity : Nat,
   action : Actions, kind : Kinds, price : 0 .. MaxNumber, lower : Int, upper : Int,
   validity : Int, stamp : Nat]

Priced(row) ==
  IF row.kind # "MARKET" THEN row.price \in 1 .. MaxNumber - 1
  ELSE row.price = IF row.side = "BUY" THEN MaxNumber ELSE 0

Rows == {row \in RowRecords : Priced(row)}

TradeRecords ==
  [bought : Ids, sold : Ids, buy : Rows, sell : Rows, quantity : Nat \ {0},
   at : 1 .. MaxNumber - 1]

Orders == [id : Ids, row : Rows]

ServerTypeOK ==
  /\ balance \in [Clients -> Int]
  /\ price \in [Actions -> 1 .. MaxNumber - 1]
  /\ DOMAIN orders \subseteq Ids
  /\ orders \in [DOMAIN orders -> Rows]
  /\ book \in [Actions -> [Sides -> Seq(Ids)]]
  /\ mtx \in Threads \cup {Nobody}
  /\ sweep \in [stage : {"none", "match"} \cup Trading, todo : Seq(Actions),
                trade : TradeRecords \cup {NoTrade}]
  /\ hand \in [Threads -> SUBSET Orders]
  /\ draw \in [Connections -> SUBSET Int]
  /\ watch \in [stage : {"asleep", "scan", "stopped"}, left : SUBSET Ids]
  /\ placed \in 0 .. MaxOrders

\* An order a thread has in hand is in no table and in no other hand.
HandsInv ==
  /\ InHand \cap DOMAIN orders = {}
  /\ \A s, t \in Threads : \A o \in hand[s], p \in hand[t] :
       s = t \/ o.id = p.id => s = t /\ o = p

\* The mutex is held by whoever sweeps.
MutexInv ==
  /\ mtx = Nobody <=> sweep.stage = "none"
  /\ sweep.stage = "none" => sweep = NoSweep
  /\ sweep.stage # "none" => sweep.todo # <<>>
  /\ sweep.stage = "match" => sweep.trade = NoTrade
  /\ sweep.stage \in Trading => sweep.trade \in TradeRecords

\* The rows of the trade under way are those of the two heads; they are gone from
\* the tables when the rest of one of them is put back.
TradeInv ==
  sweep.stage \in Trading =>
    LET trade == sweep.trade
        a == Head(sweep.todo)
    IN  /\ \A side \in Sides : book[a][side] # <<>>
        /\ trade.bought = Head(book[a]["BUY"]) /\ trade.sold = Head(book[a]["SELL"])
        /\ trade.buy.side = "BUY" /\ trade.sell.side = "SELL"
        /\ trade.buy.action = a /\ trade.sell.action = a
        /\ trade.quantity <= trade.buy.quantity /\ trade.quantity <= trade.sell.quantity
        /\ trade.quantity = trade.buy.quantity \/ trade.quantity = trade.sell.quantity
        /\ IF Reopening
             THEN {trade.bought, trade.sold} \cap Having("PENDING") = {}
             ELSE /\ trade.bought \in Having("PENDING") /\ trade.buy = orders[trade.bought]
                  /\ trade.sold \in Having("PENDING") /\ trade.sell = orders[trade.sold]

\* What the book knows of an order, whose row may just have been removed.
Known ==
  [i \in Ids |-> CASE Reopening /\ i = sweep.trade.bought -> sweep.trade.buy
                   [] Reopening /\ i = sweep.trade.sold -> sweep.trade.sell
                   [] OTHER -> orders[i]]

Closing(a) ==
  IF Reopening /\ a = Head(sweep.todo) THEN {sweep.trade.bought, sweep.trade.sold} ELSE {}

\* ids are orders of one side of one action, each once, the best first.
Queued(ids, side, a, rows) ==
  /\ IsInjective(ids)
  /\ \A k \in DOMAIN ids : /\ rows[ids[k]] \in Rows
                           /\ rows[ids[k]].side = side
                           /\ rows[ids[k]].action = a
  /\ \A j, k \in DOMAIN ids : j < k => ~Ahead(rows[ids[k]], rows[ids[j]])

BooksInv ==
  \A a \in Actions :
    /\ ToSet(book[a]["BUY"]) \cup ToSet(book[a]["SELL"]) = Live(a) \cup Closing(a)
    /\ \A side \in Sides : Queued(book[a][side], side, a, Known)

\* The watcher only ever removes rows it has seen waiting, and rows nobody's book
\* holds stay where they are.
RowsInv ==
  /\ watch.left \subseteq Having("WAITING")
  /\ orphans \subseteq Having("PENDING")

\* There is always a free id.
CountInv ==
  Cardinality(DOMAIN orders \cup InHand) + (IF Reopening THEN 1 ELSE 0) <= placed

\* While only one thread is about to take a client's cash, what it found is there.
CashInv ==
  /\ Contended \subseteq raced
  /\ \A c \in Connections :
       /\ hand[c] = {} \/ draw[c] = {}
       /\ mtx = c => draw[c] = {} /\ hand[c] = {}
       /\ Owner[c] \notin raced => \A amount \in draw[c] : 10 * amount <= balance[Owner[c]]
  /\ sweep.stage = "pay" =>
       LET trade == sweep.trade
       IN  trade.buy.client \notin raced =>
             10 * trade.at * trade.quantity <= balance[trade.buy.client]
  /\ UnracedNeverOverdrawn

TablesInv ==
  ServerTypeOK /\ HandsInv /\ MutexInv /\ TradeInv /\ BooksInv /\ RowsInv /\ CountInv

-----------------------------------------------------------------------------
\* Lemmas about the operators

LEMMA AheadOrder ==
  ASSUME NEW r \in Rows, NEW s \in Rows, NEW t \in Rows, r.side = s.side, s.side = t.side
  PROVE  /\ ~Ahead(r, r)
         /\ Ahead(r, s) => ~Ahead(s, r)
         /\ ~Ahead(r, s) /\ ~Ahead(s, t) => ~Ahead(r, t)
<1>1. /\ r.price \in Int /\ s.price \in Int /\ t.price \in Int
      /\ r.stamp \in Int /\ s.stamp \in Int /\ t.stamp \in Int
      /\ r.side \in {"BUY", "SELL"}
  BY StoreAssumption DEF Rows, RowRecords, Sides
<1> QED BY <1>1 DEF Ahead

\* A set of the first numbers is an interval as long as the set is large.
LEMMA PrefixIsInterval ==
  ASSUME NEW n \in Nat, NEW S \in SUBSET (1 .. n),
         \A j, k \in 1 .. n : j < k /\ k \in S => j \in S
  PROVE  Cardinality(S) \in 0 .. n /\ S = 1 .. Cardinality(S)
<1> DEFINE Out == {m \in Nat : m + 1 \notin S}
<1>1. n \in Out
  OBVIOUS
<1>2. IsWellFoundedOn(OpToRel(<, Nat), Nat)
  BY NatLessThanWellFounded
<1>3. \E m \in Out : \A k \in Out : ~(<<k, m>> \in OpToRel(<, Nat))
  <2>1. Out \subseteq Nat /\ Out # {}
    BY <1>1
  <2> HIDE DEF Out
  <2> QED BY <2>1, <1>2, WFMin
<1>4. PICK m \in Out : \A k \in Out : ~(k < m)
  BY <1>3 DEF OpToRel
<1>5. m <= n
  BY <1>1, <1>4
<1>6. ASSUME NEW j \in 1 .. m
      PROVE  j \in S
  <2>1. j - 1 \in Nat /\ j - 1 < m
    BY <1>6
  <2> QED BY <1>4, <2>1
<1>7. ASSUME NEW j \in S
      PROVE  j \in 1 .. m
  <2>1. j \in 1 .. n /\ m + 1 \notin S
    BY <1>4, <1>7
  <2>2. CASE j > m
    <3>1. m + 1 \in 1 .. n
      BY <2>1, <2>2
    <3>2. j = m + 1 \/ m + 1 < j
      BY <2>1, <2>2
    <3> QED BY <2>1, <3>1, <3>2
  <2> QED BY <2>1, <2>2
<1>8. S = 1 .. m
  BY <1>6, <1>7
<1>9. Cardinality(1 .. m) = m
  BY FS_Interval
<1> QED BY <1>5, <1>8, <1>9

LEMMA InsertAtProperties ==
  ASSUME NEW S, NEW q \in Seq(S), NEW n \in 0 .. Len(q), NEW x \in S
  PROVE  /\ InsertAt(q, 1 + n, x) \in Seq(S)
         /\ Len(InsertAt(q, 1 + n, x)) = Len(q) + 1
         /\ \A j \in 1 .. Len(q) + 1 :
              InsertAt(q, 1 + n, x)[j] =
                IF j <= n THEN q[j] ELSE IF j = n + 1 THEN x ELSE q[j - 1]
<1> DEFINE a == SubSeq(q, 1, n)
           b == SubSeq(q, n + 1, Len(q))
<1>1. /\ a \in Seq(S)
      /\ Len(a) = n
      /\ \A j \in 1 .. n : a[j] = q[j]
  BY SMT
<1>2. /\ b \in Seq(S)
      /\ Len(b) = Len(q) - n
      /\ \A j \in 1 .. Len(q) - n : b[j] = q[n + j]
  BY SMT
<1>3. InsertAt(q, 1 + n, x) = a \o <<x>> \o b
  <2>1. n \in Int
    OBVIOUS
  <2>2. (1 + n) - 1 = n /\ 1 + n = n + 1
    BY <2>1
  <2>3. SubSeq(q, 1, (1 + n) - 1) = a /\ SubSeq(q, 1 + n, Len(q)) = b
    BY <2>2, Zenon
  <2> HIDE DEF a, b
  <2> QED BY <2>3, Zenon DEF InsertAt
<1>4. Len(q) \in Nat /\ n \in 0 .. Len(q)
  OBVIOUS
<1>5. <<x>> \in Seq(S) /\ Len(<<x>>) = 1 /\ <<x>>[1] = x
  OBVIOUS
<1> HIDE DEF a, b
<1> DEFINE c == <<x>>
<1> HIDE DEF c
<1>6. /\ a \o c \in Seq(S)
      /\ Len(a \o c) = n + 1
      /\ \A j \in 1 .. n + 1 : (a \o c)[j] = IF j <= n THEN a[j] ELSE c[j - n]
  BY <1>1, <1>5, ConcatProperties DEF c
<1>7. /\ (a \o c) \o b \in Seq(S)
      /\ Len((a \o c) \o b) = n + 1 + (Len(q) - n)
      /\ \A j \in 1 .. n + 1 + (Len(q) - n) :
           ((a \o c) \o b)[j] = IF j <= n + 1 THEN (a \o c)[j] ELSE b[j - (n + 1)]
  <2> DEFINE d == a \o c
  <2>1. d \in Seq(S) /\ b \in Seq(S) /\ Len(d) = n + 1 /\ Len(b) = Len(q) - n
    BY <1>2, <1>6
  <2> HIDE DEF d
  <2>2. /\ d \o b \in Seq(S)
        /\ Len(d \o b) = Len(d) + Len(b)
        /\ \A j \in 1 .. Len(d) + Len(b) :
             (d \o b)[j] = IF j <= Len(d) THEN d[j] ELSE b[j - Len(d)]
    BY <2>1, ConcatProperties
  <2>3. /\ d \o b \in Seq(S)
        /\ Len(d \o b) = n + 1 + (Len(q) - n)
        /\ \A j \in 1 .. n + 1 + (Len(q) - n) :
             (d \o b)[j] = IF j <= n + 1 THEN d[j] ELSE b[j - (n + 1)]
    BY <2>1, <2>2
  <2> QED BY <2>3 DEF d
<1>8. ASSUME NEW j \in 1 .. Len(q) + 1
      PROVE  ((a \o c) \o b)[j] = IF j <= n THEN q[j] ELSE IF j = n + 1 THEN x ELSE q[j - 1]
  <2>1. j \in 1 .. n + 1 + (Len(q) - n)
    BY <1>4
  <2>2. CASE j <= n
    BY <1>1, <1>4, <1>6, <1>7, <2>1, <2>2
  <2>3. CASE j = n + 1
    <3>1. j - n = 1 /\ j \in 1 .. n + 1 /\ ~(j <= n) /\ j <= n + 1
      BY <1>4, <2>3
    <3>2. (a \o c)[j] = x
      BY <1>5, <1>6, <3>1 DEF c
    <3> QED BY <1>7, <2>1, <2>3, <3>1, <3>2
  <2>4. CASE j > n + 1
    <3>1. /\ j - (n + 1) \in 1 .. Len(q) - n
          /\ n + (j - (n + 1)) = j - 1
          /\ ~(j <= n + 1) /\ ~(j <= n) /\ j # n + 1
      BY <1>4, <2>4
    <3>2. b[j - (n + 1)] = q[j - 1]
      BY <1>2, <3>1
    <3> QED BY <1>7, <2>1, <3>1, <3>2
  <2>5. j \in Int /\ n \in Int
    BY <1>4
  <2>6. j <= n \/ j = n + 1 \/ j > n + 1
    BY <2>5
  <2> QED BY <2>2, <2>3, <2>4, <2>6
<1>9. n + 1 + (Len(q) - n) = Len(q) + 1
  BY <1>4
<1> QED BY <1>3, <1>7, <1>8, <1>9 DEF c


\* A side of a book is no worse for what happens to other orders.
LEMMA QueuedSame ==
  ASSUME NEW side, NEW a, NEW rows, NEW more, NEW ids \in Seq(Ids),
         Queued(ids, side, a, rows),
         \A i \in ToSet(ids) : more[i] = rows[i]
  PROVE  Queued(ids, side, a, more)
<1>1. \A k \in DOMAIN ids : more[ids[k]] = rows[ids[k]]
  BY DEF ToSet
<1> QED BY <1>1 DEF Queued

LEMMA TailOfIds ==
  ASSUME NEW ids \in Seq(Ids), ids # <<>>
  PROVE  /\ Len(ids) \in Nat \ {0} /\ DOMAIN ids = 1 .. Len(ids) /\ Head(ids) = ids[1]
         /\ Head(ids) \in ToSet(ids)
         /\ Tail(ids) \in Seq(Ids) /\ Len(Tail(ids)) = Len(ids) - 1
         /\ DOMAIN Tail(ids) = 1 .. Len(ids) - 1
         /\ \A k \in DOMAIN Tail(ids) : k + 1 \in DOMAIN ids /\ Tail(ids)[k] = ids[k + 1]
<1>1. Len(ids) \in Nat \ {0} /\ DOMAIN ids = 1 .. Len(ids) /\ Head(ids) = ids[1]
  OBVIOUS
<1>2. /\ Tail(ids) \in Seq(Ids) /\ Len(Tail(ids)) = Len(ids) - 1
      /\ \A k \in 1 .. Len(ids) - 1 : Tail(ids)[k] = ids[k + 1]
  BY HeadTailProperties
<1>3. DOMAIN Tail(ids) = 1 .. Len(ids) - 1
  BY <1>2
<1>4. \A k \in 1 .. Len(ids) - 1 : k + 1 \in 1 .. Len(ids)
  BY <1>1
<1>5. 1 \in DOMAIN ids
  BY <1>1
<1> QED BY <1>1, <1>2, <1>3, <1>4, <1>5 DEF ToSet

LEMMA QueuedTail ==
  ASSUME NEW side, NEW a, NEW rows, NEW ids \in Seq(Ids), ids # <<>>,
         Queued(ids, side, a, rows)
  PROVE  /\ Queued(Tail(ids), side, a, rows)
         /\ ToSet(Tail(ids)) = ToSet(ids) \ {Head(ids)}
<1> DEFINE t == Tail(ids)
<1>1. /\ Len(ids) \in Nat \ {0} /\ DOMAIN ids = 1 .. Len(ids) /\ Head(ids) = ids[1]
      /\ DOMAIN t = 1 .. Len(ids) - 1
      /\ \A k \in DOMAIN t : k + 1 \in DOMAIN ids /\ t[k] = ids[k + 1]
  BY TailOfIds
<1> HIDE DEF t
<1>2. \A j, k \in DOMAIN ids : ids[j] = ids[k] => j = k
  BY DEF Queued, IsInjective
<1>3. \A j, k \in DOMAIN t : j \in Int /\ k \in Int
  BY <1>1
<1>4. IsInjective(t)
  <2>1. ASSUME NEW j \in DOMAIN t, NEW k \in DOMAIN t, t[j] = t[k]
        PROVE  j = k
    <3>1. j + 1 = k + 1
      BY <1>1, <1>2, <2>1
    <3> QED BY <1>3, <3>1
  <2> QED BY <2>1 DEF IsInjective
<1>5. \A j, k \in DOMAIN t : j < k => ~Ahead(rows[t[k]], rows[t[j]])
  <2> SUFFICES ASSUME NEW j \in DOMAIN t, NEW k \in DOMAIN t, j < k
               PROVE  ~Ahead(rows[t[k]], rows[t[j]])
    OBVIOUS
  <2>1. j + 1 < k + 1
    BY <1>3
  <2> QED BY <1>1, <2>1 DEF Queued
<1>6. Queued(t, side, a, rows)
  BY <1>1, <1>4, <1>5 DEF Queued
<1>7. ASSUME NEW i \in ToSet(t)
      PROVE  i \in ToSet(ids) \ {Head(ids)}
  <2>1. PICK k \in DOMAIN t : i = t[k]
    BY DEF ToSet
  <2>2. k + 1 \in DOMAIN ids /\ i = ids[k + 1] /\ k + 1 # 1 /\ 1 \in DOMAIN ids
    BY <1>1, <2>1
  <2> QED BY <1>1, <1>2, <2>2 DEF ToSet
<1>8. ASSUME NEW i \in ToSet(ids) \ {Head(ids)}
      PROVE  i \in ToSet(t)
  <2>1. PICK k \in DOMAIN ids : i = ids[k]
    BY DEF ToSet
  <2>2. k # 1
    BY <1>1, <2>1
  <2>3. k - 1 \in DOMAIN t /\ (k - 1) + 1 = k
    BY <1>1, <2>2
  <2> QED BY <1>1, <2>1, <2>3 DEF ToSet
<1> QED BY <1>6, <1>7, <1>8 DEF t

\* The first of a side is as good as any of it.
LEMMA QueuedHeadFirst ==
  ASSUME NEW side, NEW a, NEW rows, NEW ids \in Seq(Ids), ids # <<>>,
         Queued(ids, side, a, rows)
  PROVE  /\ rows[Head(ids)] \in Rows
         /\ rows[Head(ids)].side = side /\ rows[Head(ids)].action = a
         /\ \A i \in ToSet(ids) : ~Ahead(rows[i], rows[Head(ids)])
<1>1. /\ Head(ids) = ids[1] /\ 1 \in DOMAIN ids
      /\ \A k \in DOMAIN ids : k \in Int /\ (k = 1 \/ 1 < k)
  BY TailOfIds
<1>2. /\ rows[Head(ids)] \in Rows
      /\ rows[Head(ids)].side = side /\ rows[Head(ids)].action = a
  BY <1>1 DEF Queued
<1>3. ~Ahead(rows[Head(ids)], rows[Head(ids)])
  BY <1>2, AheadOrder
<1>4. ASSUME NEW i \in ToSet(ids)
      PROVE  ~Ahead(rows[i], rows[Head(ids)])
  <2>1. PICK k \in DOMAIN ids : i = ids[k]
    BY DEF ToSet
  <2> QED BY <1>1, <1>3, <2>1 DEF Queued
<1> QED BY <1>2, <1>4

\* What is left of the first keeps its place, under another id.
LEMMA QueuedFront ==
  ASSUME NEW side, NEW a, NEW rows, NEW more, NEW ids \in Seq(Ids), ids # <<>>,
         Queued(ids, side, a, rows),
         NEW fresh \in Ids, fresh \notin ToSet(Tail(ids)),
         \A i \in ToSet(Tail(ids)) : more[i] = rows[i],
         more[fresh] \in Rows,
         more[fresh].side = side, more[fresh].action = a,
         more[fresh].price = rows[Head(ids)].price,
         more[fresh].stamp = rows[Head(ids)].stamp
  PROVE  /\ <<fresh>> \o Tail(ids) \in Seq(Ids)
         /\ Queued(<<fresh>> \o Tail(ids), side, a, more)
         /\ ToSet(<<fresh>> \o Tail(ids)) = {fresh} \cup ToSet(Tail(ids))
<1> DEFINE t == Tail(ids)
           q == <<fresh>> \o t
<1>1. /\ Len(ids) \in Nat \ {0} /\ DOMAIN ids = 1 .. Len(ids) /\ Head(ids) = ids[1]
      /\ t \in Seq(Ids) /\ Len(t) = Len(ids) - 1 /\ DOMAIN t = 1 .. Len(ids) - 1
      /\ \A k \in DOMAIN t : k + 1 \in DOMAIN ids /\ t[k] = ids[k + 1]
  BY TailOfIds
<1>2. Queued(t, side, a, rows) /\ ToSet(t) = ToSet(ids) \ {Head(ids)}
  <2>1. \A s \in Seq(Ids) : s # <<>> /\ Queued(s, side, a, rows) =>
          Queued(Tail(s), side, a, rows) /\ ToSet(Tail(s)) = ToSet(s) \ {Head(s)}
    BY ONLY QueuedTail
  <2> QED BY <2>1
<1>3. Queued(t, side, a, more)
  <2>1. \A i \in ToSet(t) : more[i] = rows[i]
    OBVIOUS
  <2> HIDE DEF t
  <2> QED BY <1>1, <1>2, <2>1, QueuedSame
<1> HIDE DEF t
<1>4. Len(t) = Len(ids) - 1
  BY <1>1
<1>5. /\ q \in Seq(Ids) /\ Len(q) = Len(ids)
      /\ \A k \in 1 .. Len(ids) : q[k] = IF k = 1 THEN fresh ELSE t[k - 1]
  <2>1. <<fresh>> \in Seq(Ids) /\ Len(<<fresh>>) = 1 /\ <<fresh>>[1] = fresh
    OBVIOUS
  <2> DEFINE f == <<fresh>>
  <2> HIDE DEF f
  <2>2. /\ f \o t \in Seq(Ids) /\ Len(f \o t) = 1 + Len(t)
        /\ \A k \in 1 .. 1 + Len(t) : (f \o t)[k] = IF k <= 1 THEN f[k] ELSE t[k - 1]
    <3>1. f \in Seq(Ids) /\ Len(f) = 1
      BY <2>1 DEF f
    <3>3. t \in Seq(Ids)
      BY <1>1
    <3>2. /\ f \o t \in Seq(Ids) /\ Len(f \o t) = Len(f) + Len(t)
          /\ \A k \in 1 .. Len(f) + Len(t) :
               (f \o t)[k] = IF k <= Len(f) THEN f[k] ELSE t[k - Len(f)]
      BY <3>1, <3>3, ConcatProperties
    <3> QED BY <3>1, <3>2
  <2>3. 1 + Len(t) = Len(ids)
    BY <1>1, <1>4
  <2>4. \A k \in 1 .. Len(ids) : k <= 1 <=> k = 1
    OBVIOUS
  <2> QED BY <2>1, <2>2, <2>3, <2>4 DEF f
<1> HIDE DEF q
<1>6. /\ DOMAIN q = 1 .. Len(ids) /\ 1 \in DOMAIN q /\ q[1] = fresh
      /\ \A k \in DOMAIN q : \/ k = 1
                             \/ k \in Int /\ 1 < k /\ k - 1 \in DOMAIN t /\ q[k] = t[k - 1]
  BY <1>1, <1>5
<1>7. fresh \notin ToSet(t)
  BY DEF t
<1>8. ToSet(q) = {fresh} \cup ToSet(t)
  <2>1. \A k \in DOMAIN t : k + 1 \in DOMAIN q /\ q[k + 1] = t[k]
    BY <1>1, <1>5, <1>6
  <2>2. ASSUME NEW i \in ToSet(q)
        PROVE  i \in {fresh} \cup ToSet(t)
    BY <1>6 DEF ToSet
  <2>3. ASSUME NEW i \in {fresh} \cup ToSet(t)
        PROVE  i \in ToSet(q)
    BY <1>6, <2>1 DEF ToSet
  <2> QED BY <2>2, <2>3
<1>9. IsInjective(q)
  <2>1. ASSUME NEW j \in DOMAIN q, NEW k \in DOMAIN q, q[j] = q[k]
        PROVE  j = k
    <3>1. \A m \in DOMAIN t : t[m] # fresh
      BY <1>7 DEF ToSet
    <3>2. \A l, m \in DOMAIN t : t[l] = t[m] => l = m
      BY <1>3 DEF Queued, IsInjective
    <3>3. CASE j = 1 \/ k = 1
      BY <1>6, <2>1, <3>1, <3>3
    <3>4. CASE j # 1 /\ k # 1
      <4>1. j - 1 = k - 1 /\ j \in Int /\ k \in Int
        BY <1>6, <2>1, <3>2, <3>4
      <4> QED BY <4>1
    <3> QED BY <3>3, <3>4
  <2> QED BY <2>1 DEF IsInjective
<1>10. \A k \in DOMAIN q : /\ more[q[k]] \in Rows
                           /\ more[q[k]].side = side
                           /\ more[q[k]].action = a
  BY <1>3, <1>6 DEF Queued
<1>11. \A j, k \in DOMAIN q : j < k => ~Ahead(more[q[k]], more[q[j]])
  <2> SUFFICES ASSUME NEW j \in DOMAIN q, NEW k \in DOMAIN q, j < k
               PROVE  ~Ahead(more[q[k]], more[q[j]])
    OBVIOUS
  <2>1. k # 1
    BY <1>6
  <2>2. /\ k \in Int /\ k - 1 \in DOMAIN t /\ q[k] = t[k - 1]
        /\ t[k - 1] \in ToSet(t) /\ t[k - 1] \in ToSet(ids)
    BY <1>2, <1>6, <2>1 DEF ToSet
  <2>3. CASE j = 1
    <3>1. ~Ahead(rows[t[k - 1]], rows[Head(ids)])
      BY <2>2, QueuedHeadFirst
    <3>2. more[t[k - 1]] = rows[t[k - 1]]
      BY <2>2 DEF t
    <3> QED BY <1>6, <2>2, <2>3, <3>1, <3>2 DEF Ahead
  <2>4. CASE j # 1
    <3>1. j - 1 \in DOMAIN t /\ q[j] = t[j - 1] /\ j - 1 < k - 1
      BY <1>6, <2>2, <2>4
    <3> QED BY <1>3, <2>2, <3>1 DEF Queued
  <2> QED BY <2>3, <2>4
<1>12. Queued(q, side, a, more)
  BY <1>9, <1>10, <1>11 DEF Queued
<1> QED BY <1>5, <1>8, <1>12 DEF q, t

\* An order that enters a side is put behind those it does not beat.
LEMMA QueuedInsert ==
  ASSUME NEW side, NEW a, NEW more, NEW ids \in Seq(Ids),
         Queued(ids, side, a, orders),
         NEW id \in Ids, id \notin ToSet(ids),
         NEW row \in Rows, row.side = side, row.action = a,
         \A i \in ToSet(ids) : more[i] = orders[i],
         more[id] \in Rows,
         more[id].side = side, more[id].action = a,
         more[id].price = row.price, more[id].stamp = row.stamp
  PROVE  /\ InsertByPriority(ids, id, row) \in Seq(Ids)
         /\ Queued(InsertByPriority(ids, id, row), side, a, more)
         /\ ToSet(InsertByPriority(ids, id, row)) = {id} \cup ToSet(ids)
<1> DEFINE S == {i \in DOMAIN ids : Ahead(orders[ids[i]], row)}
           n == Cardinality(S)
           q == InsertAt(ids, 1 + n, id)
<1>1. Len(ids) \in Nat /\ DOMAIN ids = 1 .. Len(ids)
  OBVIOUS
<1>2. /\ \A k \in DOMAIN ids : /\ orders[ids[k]] \in Rows /\ orders[ids[k]].side = side
                               /\ orders[ids[k]].action = a
      /\ \A j, k \in DOMAIN ids : j < k => ~Ahead(orders[ids[k]], orders[ids[j]])
      /\ \A j, k \in DOMAIN ids : ids[j] = ids[k] => j = k
  BY DEF Queued, IsInjective
<1>3. S \in SUBSET (1 .. Len(ids))
  BY <1>1
<1>4. \A j, k \in 1 .. Len(ids) : j < k /\ k \in S => j \in S
  BY <1>1, <1>2, AheadOrder
<1>5. n \in 0 .. Len(ids) /\ S = 1 .. n
  <2> HIDE DEF S
  <2> QED BY <1>1, <1>3, <1>4, PrefixIsInterval
<1>6. \A k \in DOMAIN ids : k <= n <=> Ahead(orders[ids[k]], row)
  <2>1. \A k \in DOMAIN ids : k \in 1 .. n <=> Ahead(orders[ids[k]], row)
    <3>1. \A k \in DOMAIN ids : k \in S <=> Ahead(orders[ids[k]], row)
      OBVIOUS
    <3> HIDE DEF S
    <3> QED BY <1>5, <3>1
  <2> HIDE DEF n
  <2>2. \A k \in DOMAIN ids : k \in 1 .. n <=> k <= n
    BY <1>1, <1>5
  <2> QED BY <2>1, <2>2
<1>7. InsertByPriority(ids, id, row) = q
  BY DEF InsertByPriority
<1> HIDE DEF n
<1>8. /\ q \in Seq(Ids)
      /\ Len(q) = Len(ids) + 1
      /\ \A j \in 1 .. Len(ids) + 1 :
           q[j] = IF j <= n THEN ids[j] ELSE IF j = n + 1 THEN id ELSE ids[j - 1]
  BY <1>5, InsertAtProperties
<1> HIDE DEF q, S
<1>9. DOMAIN q = 1 .. Len(ids) + 1
  BY <1>8
<1>10. /\ n + 1 \in DOMAIN q /\ q[n + 1] = id /\ n \in Int
       /\ \A k \in DOMAIN q :
            \/ k = n + 1
            \/ k \in Int /\ k <= n /\ k \in DOMAIN ids /\ q[k] = ids[k]
            \/ k \in Int /\ k > n + 1 /\ k - 1 \in DOMAIN ids /\ q[k] = ids[k - 1]
       /\ \A k \in DOMAIN ids : \/ k \in DOMAIN q /\ q[k] = ids[k]
                                \/ k + 1 \in DOMAIN q /\ q[k + 1] = ids[k]
  <2>1. n \in Int /\ n + 1 \in DOMAIN q /\ ~(n + 1 <= n)
    BY <1>1, <1>5, <1>9
  <2>2. q[n + 1] = id
    BY <1>8, <1>9, <2>1
  <2>3. ASSUME NEW k \in DOMAIN q
        PROVE  \/ k = n + 1
               \/ k \in Int /\ k <= n /\ k \in DOMAIN ids /\ q[k] = ids[k]
               \/ k \in Int /\ k > n + 1 /\ k - 1 \in DOMAIN ids /\ q[k] = ids[k - 1]
    BY <1>1, <1>5, <1>8, <1>9
  <2>4. ASSUME NEW k \in DOMAIN ids
        PROVE  \/ k \in DOMAIN q /\ q[k] = ids[k]
               \/ k + 1 \in DOMAIN q /\ q[k + 1] = ids[k]
    <3>1. /\ k \in 1 .. Len(ids) + 1 /\ k + 1 \in 1 .. Len(ids) + 1 /\ (k + 1) - 1 = k
          /\ (k <= n \/ (~(k + 1 <= n) /\ k + 1 # n + 1))
      BY <1>1, <1>5
    <3> QED BY <1>8, <1>9, <3>1
  <2> QED BY <2>1, <2>2, <2>3, <2>4
<1>11. ToSet(q) = {id} \cup ToSet(ids)
  <2>1. ASSUME NEW i \in ToSet(q)
        PROVE  i \in {id} \cup ToSet(ids)
    <3>1. PICK k \in DOMAIN q : q[k] = i
      BY DEF ToSet
    <3>2. i = id \/ \E h \in DOMAIN ids : i = ids[h]
      BY <1>10, <3>1, Zenon
    <3> QED BY <3>2 DEF ToSet
  <2>2. ASSUME NEW i \in {id} \cup ToSet(ids)
        PROVE  i \in ToSet(q)
    BY <1>10 DEF ToSet
  <2> QED BY <2>1, <2>2
<1>12. \A k \in DOMAIN ids : ids[k] # id /\ ids[k] \in ToSet(ids) /\ more[ids[k]] = orders[ids[k]]
  BY DEF ToSet
<1>13. IsInjective(q)
  <2>1. ASSUME NEW j \in DOMAIN q, NEW k \in DOMAIN q, q[j] = q[k]
        PROVE  j = k
    <3>1. CASE j = n + 1 \/ k = n + 1
      BY <1>10, <1>12, <2>1, <3>1
    <3>2. CASE j # n + 1 /\ k # n + 1
      BY <1>2, <1>10, <2>1, <3>2
    <3> QED BY <3>1, <3>2
  <2> QED BY <2>1 DEF IsInjective
<1>14. \A k \in DOMAIN q : /\ more[q[k]] \in Rows
                           /\ more[q[k]].side = side
                           /\ more[q[k]].action = a
  <2>1. \A k \in DOMAIN q : q[k] = id \/ \E l \in DOMAIN ids : q[k] = ids[l]
    BY <1>10
  <2>2. \A l \in DOMAIN ids : /\ more[ids[l]] \in Rows /\ more[ids[l]].side = side
                              /\ more[ids[l]].action = a
    BY <1>2, <1>12
  <2> QED BY <2>1, <2>2
<1>15. \A j, k \in DOMAIN q : j < k => ~Ahead(more[q[k]], more[q[j]])
  <2> SUFFICES ASSUME NEW j \in DOMAIN q, NEW k \in DOMAIN q, j < k
               PROVE  ~Ahead(more[q[k]], more[q[j]])
    OBVIOUS
  <2>1. CASE j = n + 1
    <3>1. k > n + 1 /\ k - 1 \in DOMAIN ids /\ q[k] = ids[k - 1] /\ ~(k - 1 <= n)
      BY <1>10, <2>1
    <3>2. ~Ahead(orders[ids[k - 1]], row)
      BY <1>6, <3>1
    <3> QED BY <1>10, <1>12, <2>1, <3>1, <3>2 DEF Ahead
  <2>2. CASE k = n + 1
    <3>1. j <= n /\ j \in DOMAIN ids /\ q[j] = ids[j]
      BY <1>10, <2>2
    <3>2. Ahead(orders[ids[j]], row)
      BY <1>6, <3>1
    <3>3. ~Ahead(row, orders[ids[j]])
      BY <1>2, <3>1, <3>2, AheadOrder
    <3> QED BY <1>10, <1>12, <2>2, <3>1, <3>3 DEF Ahead
  <2>3. CASE j # n + 1 /\ k # n + 1
    <3>1. PICK l \in DOMAIN ids, m \in DOMAIN ids : l < m /\ q[j] = ids[l] /\ q[k] = ids[m]
      BY <1>10, <2>3
    <3> QED BY <1>2, <1>12, <3>1
  <2> QED BY <2>1, <2>2, <2>3
<1>16. Queued(q, side, a, more)
  BY <1>13, <1>14, <1>15 DEF Queued
<1> QED BY <1>7, <1>8, <1>11, <1>16

-----------------------------------------------------------------------------
\* What a step leaves alone

LEMMA RowFields ==
  ASSUME NEW row \in Rows
  PROVE  /\ row.status \in {"PENDING", "WAITING"} /\ row.client \in Clients
         /\ row.side \in Sides /\ row.quantity \in Nat /\ row.action \in Actions
         /\ row.kind \in Kinds /\ row.price \in 0 .. MaxNumber /\ row.stamp \in Nat
BY DEF Rows, RowRecords

LEMMA InHandIs == \A i : i \in InHand <=> \E t \in Threads : \E o \in hand[t] : i = o.id
BY DEF InHand

LEMMA HavingIs == \A s : Having(s) \subseteq DOMAIN orders
BY DEF Having

\* The books of orders whose rows are as they were.
LEMMA BooksStay ==
  ASSUME ServerTypeOK, BooksInv,
         book' = book, orphans' = orphans,
         Having("PENDING")' = Having("PENDING"),
         \A i \in Having("PENDING") : orders'[i] = orders[i],
         sweep' = sweep \/ (~Reopening /\ ~Reopening')
  PROVE  BooksInv'
<1> SUFFICES ASSUME NEW a \in Actions
             PROVE  /\ ToSet(book[a]["BUY"]) \cup ToSet(book[a]["SELL"])
                         = Live(a)' \cup Closing(a)'
                    /\ \A side \in Sides : Queued(book[a][side], side, a, Known')
  BY DEF BooksInv
<1>1. /\ ToSet(book[a]["BUY"]) \cup ToSet(book[a]["SELL"]) = Live(a) \cup Closing(a)
      /\ \A side \in Sides : Queued(book[a][side], side, a, Known)
  BY DEF BooksInv
<1>2. Live(a)' = Live(a)
  BY DEF Live, Row
<1>3. Closing(a)' = Closing(a)
  BY DEF Closing, Reopening
<1>4. ASSUME NEW side \in Sides
      PROVE  Queued(book[a][side], side, a, Known')
  <2>1. book[a][side] \in Seq(Ids)
    BY DEF ServerTypeOK
  <2>2. ASSUME NEW i \in ToSet(book[a][side])
        PROVE  Known'[i] = Known[i]
    <3>1. i \in Ids
      BY <2>1 DEF ToSet
    <3>2. i \in Live(a) \/ i \in Closing(a)
      BY <1>1 DEF Sides
    <3>3. CASE i \in Live(a)
      <4>1. orders'[i] = orders[i]
        BY <3>3 DEF Live
      <4> QED BY <3>1, <4>1 DEF Known, Reopening
    <3>4. CASE i \in Closing(a)
      <4>1. Reopening /\ sweep' = sweep /\ (i = sweep.trade.bought \/ i = sweep.trade.sold)
        BY <3>4 DEF Closing
      <4> QED BY <3>1, <4>1 DEF Known, Reopening
    <3> QED BY <3>2, <3>3, <3>4
  <2> QED BY <1>1, <2>1, <2>2, QueuedSame
<1> QED BY <1>1, <1>2, <1>3, <1>4

LEMMA TradeStays ==
  ASSUME TradeInv, book' = book, sweep' = sweep,
         Having("PENDING")' = Having("PENDING"),
         \A i \in Having("PENDING") : orders'[i] = orders[i]
  PROVE  TradeInv'
BY DEF TradeInv, Reopening

LEMMA CountStays ==
  ASSUME ServerTypeOK, CountInv, UNCHANGED <<orders, hand, placed>>,
         Reopening' => Reopening
  PROVE  CountInv'
<1>1. InHand' = InHand
  BY DEF InHand
<1>2. (DOMAIN orders \cup InHand) \subseteq Ids /\ IsFiniteSet(Ids)
  <2>1. InHand \subseteq Ids
    BY InHandIs DEF ServerTypeOK, Orders
  <2>2. IsFiniteSet(Ids)
    BY FS_Interval, StoreAssumption DEF Ids
  <2> QED BY <2>1, <2>2 DEF ServerTypeOK
<1>3. Cardinality(DOMAIN orders \cup InHand) \in Nat
  BY <1>2, FS_Subset, FS_CardinalityType
<1> QED BY <1>1, <1>3 DEF CountInv, ServerTypeOK

\* A step that changes no order, no book and no hand.
LEMMA QuietStep ==
  ASSUME TablesInv, UNCHANGED <<price, orders, book, mtx, sweep, hand, orphans, placed>>,
         balance' \in [Clients -> Int],
         draw' \in [Connections -> SUBSET Int],
         watch' \in [stage : {"asleep", "scan", "stopped"}, left : SUBSET Ids],
         watch'.left \subseteq Having("WAITING")
  PROVE  TablesInv'
<1>1. Having("PENDING")' = Having("PENDING") /\ Having("WAITING")' = Having("WAITING")
  BY DEF Having
<1>2. ServerTypeOK'
  BY DEF TablesInv, ServerTypeOK
<1>3. HandsInv' /\ MutexInv'
  BY DEF TablesInv, HandsInv, InHand, MutexInv
<1>4. TradeInv' /\ BooksInv'
  BY <1>1, TradeStays, BooksStay DEF TablesInv
<1>5. RowsInv'
  BY <1>1 DEF TablesInv, RowsInv
<1>6. CountInv'
  BY CountStays DEF TablesInv, Reopening
<1> QED BY <1>2, <1>3, <1>4, <1>5, <1>6 DEF TablesInv

\* A step of a trade whose rows are still there.
LEMMA TradeStep ==
  ASSUME TablesInv, UNCHANGED <<orders, book, mtx, hand, orphans, placed, draw, watch>>,
         balance' \in [Clients -> Int],
         price' \in [Actions -> 1 .. MaxNumber - 1],
         NEW next \in Trading \ {"reopen"},
         sweep.stage \in Trading \ {"reopen"},
         sweep' = [sweep EXCEPT !.stage = next]
  PROVE  TablesInv'
<1>1. Having("PENDING")' = Having("PENDING") /\ Having("WAITING")' = Having("WAITING")
  BY DEF Having
<1>2. /\ sweep'.stage = next /\ sweep'.todo = sweep.todo /\ sweep'.trade = sweep.trade
      /\ sweep' \in [stage : {"none", "match"} \cup Trading, todo : Seq(Actions),
                     trade : TradeRecords \cup {NoTrade}]
  BY DEF TablesInv, ServerTypeOK
<1>3. /\ ~Reopening /\ ~Reopening' /\ next # "none" /\ next # "match" /\ next \in Trading
      /\ sweep.stage # "none"
  BY <1>2 DEF Reopening, Trading
<1>4. ServerTypeOK'
  BY <1>2 DEF TablesInv, ServerTypeOK
<1>5. HandsInv' /\ MutexInv'
  BY <1>2, <1>3 DEF TablesInv, HandsInv, InHand, MutexInv
<1>6. TradeInv'
  BY <1>1, <1>2, <1>3 DEF TablesInv, TradeInv
<1>7. BooksInv'
  BY <1>1, <1>3, BooksStay DEF TablesInv
<1>8. RowsInv'
  BY <1>1 DEF TablesInv, RowsInv
<1>9. CountInv'
  BY <1>3, CountStays DEF TablesInv
<1> QED BY <1>4, <1>5, <1>6, <1>7, <1>8, <1>9 DEF TablesInv

-----------------------------------------------------------------------------
\* Free ids and money kept back

LEMMA SmallestNumber ==
  ASSUME NEW S, S \subseteq Nat, S # {}
  PROVE  Min(S) \in S
<1>1. IsWellFoundedOn(OpToRel(<, Nat), Nat)
  BY NatLessThanWellFounded
<1>2. \E x \in S : \A y \in S : ~(<<y, x>> \in OpToRel(<, Nat))
  BY <1>1, WFMin
<1>3. \E x \in S : \A y \in S : x <= y
  <2>1. PICK x \in S : \A y \in S : ~(y < x)
    BY <1>2 DEF OpToRel
  <2>2. \A y \in S : x <= y
    BY <2>1
  <2> QED BY <2>2
<1> QED BY <1>3 DEF Min

LEMMA IdsAreFinite ==
  ASSUME ServerTypeOK
  PROVE  /\ IsFiniteSet(Ids) /\ Cardinality(Ids) = 2 * MaxOrders
         /\ InHand \subseteq Ids
         /\ IsFiniteSet(DOMAIN orders \cup InHand)
         /\ Cardinality(DOMAIN orders \cup InHand) \in Nat
         /\ \A S \in SUBSET Ids : IsFiniteSet(S) /\ Cardinality(S) \in Nat
<1>1. InHand \subseteq Ids
  BY InHandIs DEF ServerTypeOK, Orders
<1>2. IsFiniteSet(Ids) /\ Cardinality(Ids) = 2 * MaxOrders
  <2>1. 2 * MaxOrders \in Nat
    BY StoreAssumption
  <2>2. Cardinality(1 .. 2 * MaxOrders) = IF 1 > 2 * MaxOrders THEN 0 ELSE 2 * MaxOrders - 1 + 1
    BY <2>1, FS_Interval
  <2>3. IsFiniteSet(1 .. 2 * MaxOrders)
    BY <2>1, FS_Interval
  <2> QED BY <2>1, <2>2, <2>3 DEF Ids
<1>3. \A S \in SUBSET Ids : IsFiniteSet(S) /\ Cardinality(S) \in Nat
  BY <1>2, FS_Subset, FS_CardinalityType
<1>4. DOMAIN orders \cup InHand \in SUBSET Ids
  BY <1>1 DEF ServerTypeOK
<1> QED BY <1>1, <1>2, <1>3, <1>4

\* There is a free id whenever one is asked for.
LEMMA IdIsFree ==
  ASSUME ServerTypeOK, CountInv, Reopening \/ placed < MaxOrders
  PROVE  NewOrderId(InHand) \in Ids /\ NewOrderId(InHand) \notin DOMAIN orders \cup InHand
<1> DEFINE used == DOMAIN orders \cup InHand
           free == {i \in Ids : i \notin used}
<1>1. /\ Cardinality(Ids) = 2 * MaxOrders /\ used \in SUBSET Ids
      /\ IsFiniteSet(used) /\ Cardinality(used) \in Nat
  BY IdsAreFinite DEF ServerTypeOK
<1>2. Cardinality(used) < 2 * MaxOrders
  <2> HIDE DEF used
  <2>1. Cardinality(used) + (IF Reopening THEN 1 ELSE 0) <= placed
    BY DEF CountInv, used
  <2> QED BY <1>1, <2>1, StoreAssumption DEF ServerTypeOK
<1>3. free # {}
  <2>1. used # Ids
    <3> HIDE DEF used
    <3>1. 2 * MaxOrders \in Int
      BY StoreAssumption
    <3> QED BY <1>1, <1>2, <3>1
  <2> QED BY <1>1, <2>1
<1>4. free \subseteq Nat
  BY DEF Ids
<1>5. Min(free) \in free
  <2> HIDE DEF free
  <2> QED BY <1>3, <1>4, SmallestNumber
<1> QED BY <1>5 DEF NewOrderId

LEMMA ProductIsNatural ==
  ASSUME NEW m \in Nat, NEW n \in Nat
  PROVE  m * n \in Nat
OBVIOUS

\* What is available to a client is at most what it has.
LEMMA AvailableBounded ==
  ASSUME ServerTypeOK, NEW c \in Clients
  PROVE  Available(c) \in Int /\ Available(c) <= balance[c]
<1> DEFINE f == [i \in RowsOf(c) |-> Reserved(orders[i])]
<1>1. RowsOf(c) \in SUBSET Ids
  BY DEF RowsOf, ServerTypeOK
<1>2. IsFiniteSet(RowsOf(c))
  BY <1>1, IdsAreFinite
<1>3. \A i \in RowsOf(c) : Reserved(orders[i]) \in Nat
  <2> SUFFICES ASSUME NEW i \in RowsOf(c)
               PROVE  Reserved(orders[i]) \in Nat
    OBVIOUS
  <2>1. orders[i] \in Rows
    BY DEF RowsOf, ServerTypeOK
  <2>2. orders[i].quantity \in Nat /\ orders[i].action \in Actions /\ orders[i].price \in Nat
    BY <2>1, RowFields
  <2>3. price[orders[i].action] \in Nat
    BY <2>2, StoreAssumption DEF ServerTypeOK
  <2>4. (IF orders[i].kind = "MARKET" THEN 11 * price[orders[i].action]
                                      ELSE 10 * orders[i].price) \in Nat
    BY <2>2, <2>3
  <2> QED BY <2>2, <2>4, ProductIsNatural DEF Reserved
<1>4. SumFunction(f) \in Nat
  <2>1. f \in [RowsOf(c) -> Nat] /\ DOMAIN f = RowsOf(c)
    BY <1>3
  <2> HIDE DEF f
  <2>2. SumFunctionOnSet(f, RowsOf(c)) \in Nat
    BY <1>2, <2>1, SumNatural
  <2> QED BY <2>1, <2>2 DEF SumFunction
<1>5. balance[c] \in Int
  BY DEF ServerTypeOK
<1>6. Available(c) = balance[c] - SumFunction(f)
  BY DEF Available
<1> HIDE DEF f
<1> QED BY <1>4, <1>5, <1>6

-----------------------------------------------------------------------------
\* The sessions

LEMMA SignOfFactor ==
  ASSUME NEW m \in Nat \ {0}, NEW q \in Int, q * m >= 0
  PROVE  q >= 0
<1> SUFFICES ASSUME q <= -1 PROVE FALSE
  OBVIOUS
<1>1. q * m <= (-1) * m
  OBVIOUS
<1> QED BY <1>1

\* Whatever a client asks for, a row that is admitted is a row.
LEMMA AdmittedRow ==
  ASSUME ServerTypeOK, NEW client \in Clients, NEW r \in Requests[client],
         WellFormed(r), r.side \in Sides, r.action \in Actions,
         LET row == RowOf(client, r)
         IN  IF r.side = "BUY" THEN CanAfford(row.client, row.quantity, row.price, row.action)
                               ELSE HasShares(row.client, row.action, row.quantity)
  PROVE  RowOf(client, r) \in Rows
<1> DEFINE row == RowOf(client, r)
<1>1. /\ r.side \in {"BUY", "SELL"} /\ r.action \in Actions /\ r.quantity \in Int
      /\ r.price \in Int /\ r.price < MaxNumber /\ r.lower \in Int /\ r.upper \in Int
      /\ r.until \in SUBSET Int
  <2>1. r \in RequestRecords
    BY ServerAssumption
  <2> QED BY <2>1 DEF RequestRecords, Sides
<1>2. MaxNumber \in Nat /\ r.kind \in Kinds
  BY StoreAssumption DEF WellFormed, Kinds
<1>3. Validity(r) \in Int
  <2>1. CASE r.until = {}
    BY <1>2, <2>1 DEF Validity, NoExpiry
  <2>2. CASE r.until # {}
    <3> DEFINE d == CHOOSE e \in r.until : TRUE
    <3>1. d \in Int
      BY <1>1, <2>2
    <3>2. Validity(r) = DateOfText(d)
      BY <2>2 DEF Validity
    <3> HIDE DEF d
    <3> QED BY <3>1, <3>2 DEF DateOfText
  <2> QED BY <2>1, <2>2
<1>4. Band(r) = CASE r.kind = "MARKET" -> MarketBand(r)
                  [] r.kind = "LIMIT" -> LimitBand(r)
                  [] r.kind = "STOP" -> StopBand(r)
                  [] r.kind = "LIMIT_STOP" -> LimitStopBand(r)
  BY DEF Band
<1>5. /\ Band(r).lower \in Int /\ Band(r).upper \in Int
      /\ IF r.kind = "MARKET"
           THEN Band(r).price = IF r.side = "BUY" THEN MaxNumber ELSE 0
           ELSE Band(r).price = r.price /\ r.price > 0
  <2>1. CASE r.kind = "MARKET"
    <3>1. Band(r) = MarketBand(r)
      BY <1>4, <2>1
    <3> QED BY <1>2, <2>1, <3>1 DEF MarketBand
  <2>2. CASE r.kind = "LIMIT"
    <3>1. Band(r) = LimitBand(r)
      BY <1>4, <2>2
    <3> QED BY <1>1, <1>2, <2>2, <3>1 DEF LimitBand, WellFormed, LimitIsComplete
  <2>3. CASE r.kind = "STOP"
    <3>1. Band(r) = StopBand(r)
      BY <1>4, <2>3
    <3> QED BY <1>1, <1>2, <2>3, <3>1 DEF StopBand, WellFormed, StopIsComplete
  <2>4. CASE r.kind = "LIMIT_STOP"
    <3>1. Band(r) = LimitStopBand(r)
      BY <1>4, <2>4
    <3> QED BY <1>1, <1>2, <2>4, <3>1 DEF LimitStopBand, WellFormed, LimitStopIsComplete
  <2> QED BY <1>2, <2>1, <2>2, <2>3, <2>4 DEF Kinds
<1>6. /\ row.client = client /\ row.side = r.side /\ row.quantity = r.quantity
      /\ row.action = r.action /\ row.kind = r.kind /\ row.price = Band(r).price
      /\ row.status = "WAITING"
  BY DEF RowOf
<1>7. r.quantity \in Nat
  <2>1. CASE r.side = "BUY"
    <3>1. CanAfford(client, r.quantity, Band(r).price, r.action)
      BY <1>6, <2>1
    <3> DEFINE m == IF Band(r).price = MaxNumber THEN 11 * price[r.action]
                                                 ELSE 10 * Band(r).price
    <3>2. r.quantity * m >= 0
      BY <3>1 DEF CanAfford
    <3>3. m \in Nat \ {0}
      <4>1. price[r.action] \in Nat \ {0}
        BY <1>1, <1>2 DEF ServerTypeOK
      <4> QED BY <1>1, <1>2, <1>5, <2>1, <4>1
    <3> HIDE DEF m
    <3> QED BY <1>1, <3>2, <3>3, SignOfFactor
  <2>2. CASE r.side = "SELL"
    <3>1. HasShares(client, r.action, r.quantity)
      BY <1>6, <2>2
    <3> QED BY <1>1, <3>1 DEF HasShares
  <2> QED BY <1>1, <2>1, <2>2
<1>8. Band(r).price \in 0 .. MaxNumber
  BY <1>1, <1>2, <1>5
<1>9. row \in RowRecords
  BY <1>1, <1>2, <1>3, <1>5, <1>7, <1>8 DEF RowOf, RowRecords, ServerTypeOK, Sides
<1>10. Priced(row)
  BY <1>1, <1>2, <1>5, <1>6 DEF Priced
<1> HIDE DEF row
<1> QED BY <1>9, <1>10 DEF Rows, row

LEMMA ThreadsAre ==
  /\ Connections \subseteq Threads /\ "watcher" \in Threads /\ "market" \in Threads
  /\ "watcher" \notin Connections /\ "market" \notin Connections
  /\ Nobody \notin Threads
  /\ Owner \in [Connections -> Clients]
BY ServerAssumption

\* One more order in a hand that was empty.
LEMMA HandGains ==
  ASSUME ServerTypeOK, HandsInv, NEW t \in Threads, hand[t] = {}, NEW o \in Orders,
         o.id \notin InHand, hand' = [hand EXCEPT ![t] = {o}], o.id \notin DOMAIN orders',
         DOMAIN orders' \subseteq DOMAIN orders
  PROVE  HandsInv' /\ hand' \in [Threads -> SUBSET Orders] /\ InHand' = InHand \cup {o.id}
<1>1. \A s \in Threads : hand'[s] = IF s = t THEN {o} ELSE hand[s]
  BY DEF ServerTypeOK
<1>2. hand' \in [Threads -> SUBSET Orders]
  BY DEF ServerTypeOK
<1>3. \A i : i \in InHand' <=> \E s \in Threads : \E p \in hand'[s] : i = p.id
  BY DEF InHand
<1>4. InHand' = InHand \cup {o.id}
  BY <1>1, <1>3, InHandIs
<1>5. \A s \in Threads : \A p \in hand[s] : p.id \in InHand
  BY InHandIs
<1> QED BY <1>1, <1>2, <1>4, <1>5 DEF HandsInv

\* A hand that is emptied.
LEMMA HandEmptied ==
  ASSUME ServerTypeOK, HandsInv, NEW t \in Threads, NEW o \in hand[t],
         hand' = [hand EXCEPT ![t] = {}],
         DOMAIN orders' \subseteq DOMAIN orders \cup {o.id}
  PROVE  HandsInv' /\ hand' \in [Threads -> SUBSET Orders] /\ InHand' = InHand \ {o.id}
<1>1. \A s \in Threads : hand'[s] = IF s = t THEN {} ELSE hand[s]
  BY DEF ServerTypeOK
<1>2. hand' \in [Threads -> SUBSET Orders]
  BY DEF ServerTypeOK
<1>3. \A i : i \in InHand' <=> \E s \in Threads : \E p \in hand'[s] : i = p.id
  BY DEF InHand
<1>4. \A p \in hand[t] : p = o
  BY DEF HandsInv
<1>5. InHand' = InHand \ {o.id}
  <2>1. \A i : i \in InHand' => i \in InHand \ {o.id}
    BY <1>1, <1>3, InHandIs DEF HandsInv
  <2>2. \A i : i \in InHand \ {o.id} => i \in InHand'
    BY <1>1, <1>3, <1>4, InHandIs
  <2> QED BY <2>1, <2>2
<1> QED BY <1>1, <1>2, <1>5 DEF HandsInv

LEMMA AdmitTables ==
  ASSUME TablesInv, NEW c \in Connections, AdmitOrder(c)
  PROVE  TablesInv'
<1>1. /\ hand[c] = {} /\ placed < MaxOrders /\ placed' = placed + 1
      /\ UNCHANGED <<balance, price, orders, book, mtx, sweep, draw, watch, orphans>>
  BY DEF AdmitOrder, Served, store, market
<1>2. PICK r \in Requests[Owner[c]] :
        /\ WellFormed(r) /\ r.side \in Sides /\ r.action \in Actions
        /\ LET row == RowOf(Owner[c], r)
           IN  IF r.side = "BUY" THEN CanAfford(row.client, row.quantity, row.price, row.action)
                                 ELSE HasShares(row.client, row.action, row.quantity)
        /\ hand' = [hand EXCEPT ![c] = {[id |-> NewOrderId(InHand), row |-> RowOf(Owner[c], r)]}]
  BY DEF AdmitOrder
<1>3. RowOf(Owner[c], r) \in Rows
  BY <1>2, AdmittedRow, ThreadsAre DEF TablesInv
<1>4. PICK row \in Rows : row = RowOf(Owner[c], r)
  BY <1>3
<1>5. PICK id \in Ids : id = NewOrderId(InHand) /\ id \notin DOMAIN orders \cup InHand
  BY <1>1, IdIsFree DEF TablesInv
<1>6. PICK o \in Orders : o = [id |-> id, row |-> row]
  BY DEF Orders
<1>7. /\ HandsInv' /\ hand' \in [Threads -> SUBSET Orders] /\ InHand' = InHand \cup {id}
  <2>1. o.id = id /\ hand' = [hand EXCEPT ![c] = {o}]
    BY <1>2, <1>4, <1>5, <1>6
  <2>2. DOMAIN orders' = DOMAIN orders
    BY <1>1
  <2>3. /\ c \in Threads /\ hand[c] = {} /\ o.id \notin InHand /\ o.id \notin DOMAIN orders'
        /\ DOMAIN orders' \subseteq DOMAIN orders /\ ServerTypeOK /\ HandsInv
    BY <1>1, <1>5, <2>1, <2>2, ThreadsAre DEF TablesInv
  <2>4. /\ HandsInv' /\ hand' \in [Threads -> SUBSET Orders] /\ InHand' = InHand \cup {o.id}
    BY <2>1, <2>3, HandGains, Zenon
  <2> QED BY <2>1, <2>4
<1>8. Having("PENDING")' = Having("PENDING") /\ Having("WAITING")' = Having("WAITING")
  BY <1>1 DEF Having
<1>9. placed' \in 0 .. MaxOrders
  BY <1>1, StoreAssumption DEF TablesInv, ServerTypeOK
<1>10. ServerTypeOK'
  BY <1>1, <1>7, <1>9 DEF TablesInv, ServerTypeOK
<1>11. MutexInv' /\ RowsInv'
  BY <1>1, <1>8 DEF TablesInv, MutexInv, RowsInv
<1>12. TradeInv' /\ BooksInv'
  BY <1>1, <1>8, TradeStays, BooksStay DEF TablesInv
<1>13. CountInv'
  <2> DEFINE used == DOMAIN orders \cup InHand
  <2>1. IsFiniteSet(used) /\ Cardinality(used) \in Nat
    BY IdsAreFinite DEF TablesInv
  <2>2. (DOMAIN orders \cup InHand)' = used \cup {id}
    BY <1>1, <1>7
  <2>3. Cardinality(used) + (IF Reopening THEN 1 ELSE 0) <= placed
    BY DEF TablesInv, CountInv
  <2>4. id \notin used
    BY <1>5
  <2> HIDE DEF used
  <2>5. Cardinality(used \cup {id}) = Cardinality(used) + 1
    BY <2>1, <2>4, FS_AddElement
  <2>6. Reopening' = Reopening
    BY <1>1 DEF Reopening
  <2>7. placed \in Int
    BY DEF TablesInv, ServerTypeOK
  <2>8. Cardinality(used \cup {id}) + (IF Reopening THEN 1 ELSE 0) <= placed'
    BY <1>1, <2>1, <2>3, <2>5, <2>7
  <2> QED BY <2>2, <2>6, <2>8 DEF CountInv
<1> QED BY <1>7, <1>10, <1>11, <1>12, <1>13 DEF TablesInv

LEMMA Restated ==
  ASSUME NEW row \in Rows, NEW s \in {"PENDING", "WAITING"}, NEW n \in Nat
  PROVE  /\ \E r \in Rows : /\ r = [row EXCEPT !.status = s] /\ r.status = s
                            /\ r.side = row.side /\ r.action = row.action
                            /\ r.price = row.price /\ r.stamp = row.stamp
         /\ \E r \in Rows : /\ r = [[row EXCEPT !.quantity = n] EXCEPT !.status = s]
                            /\ r.status = s /\ r.side = row.side /\ r.action = row.action
                            /\ r.price = row.price /\ r.stamp = row.stamp
<1>1. row \in RowRecords /\ Priced(row)
  BY DEF Rows
<1> DEFINE u == [row EXCEPT !.status = s]
           v == [[row EXCEPT !.quantity = n] EXCEPT !.status = s]
<1>2. /\ u \in RowRecords /\ u.status = s /\ u.side = row.side /\ u.action = row.action
      /\ u.price = row.price /\ u.stamp = row.stamp /\ u.kind = row.kind
  BY <1>1 DEF RowRecords
<1>3. /\ v \in RowRecords /\ v.status = s /\ v.side = row.side /\ v.action = row.action
      /\ v.price = row.price /\ v.stamp = row.stamp /\ v.kind = row.kind
  BY <1>1 DEF RowRecords
<1>4. Priced(u) /\ Priced(v)
  <2> HIDE DEF u, v
  <2> QED BY <1>1, <1>2, <1>3 DEF Priced
<1>5. u \in Rows /\ v \in Rows
  BY <1>2, <1>3, <1>4 DEF Rows
<1>6. \E r \in Rows : /\ r = u /\ r.status = s /\ r.side = row.side /\ r.action = row.action
                     /\ r.price = row.price /\ r.stamp = row.stamp
  <2> HIDE DEF u
  <2> QED BY <1>2, <1>5
<1>7. \E r \in Rows : /\ r = v /\ r.status = s /\ r.side = row.side /\ r.action = row.action
                     /\ r.price = row.price /\ r.stamp = row.stamp
  <2> HIDE DEF v
  <2> QED BY <1>3, <1>5
<1> QED BY <1>6, <1>7

LEMMA RowAdded ==
  ASSUME ServerTypeOK, NEW id \in Ids, id \notin DOMAIN orders, NEW row \in Rows,
         orders' = WithRow(id, row)
  PROVE  /\ DOMAIN orders' = DOMAIN orders \cup {id} /\ DOMAIN orders' \subseteq Ids
         /\ orders' \in [DOMAIN orders' -> Rows]
         /\ orders'[id] = row
         /\ \A i \in DOMAIN orders : orders'[i] = orders[i]
         /\ Having("PENDING")' = Having("PENDING") \cup {i \in {id} : row.status = "PENDING"}
         /\ Having("WAITING")' = Having("WAITING") \cup {i \in {id} : row.status = "WAITING"}
<1>1. /\ DOMAIN orders' = DOMAIN orders \cup {id} /\ orders'[id] = row
      /\ \A i \in DOMAIN orders : orders'[i] = orders[i]
  BY DEF WithRow
<1>2. orders' \in [DOMAIN orders' -> Rows] /\ DOMAIN orders' \subseteq Ids
  BY <1>1 DEF WithRow, ServerTypeOK
<1>3. /\ Having("PENDING")' = Having("PENDING") \cup {i \in {id} : row.status = "PENDING"}
      /\ Having("WAITING")' = Having("WAITING") \cup {i \in {id} : row.status = "WAITING"}
  BY <1>1 DEF Having
<1> QED BY <1>1, <1>2, <1>3

LEMMA RowsRemoved ==
  ASSUME ServerTypeOK, NEW ids, orders' = WithoutRows(ids)
  PROVE  /\ DOMAIN orders' = DOMAIN orders \ ids /\ DOMAIN orders' \subseteq Ids
         /\ orders' \in [DOMAIN orders' -> Rows]
         /\ \A i \in DOMAIN orders' : orders'[i] = orders[i]
         /\ Having("PENDING")' = Having("PENDING") \ ids
         /\ Having("WAITING")' = Having("WAITING") \ ids
<1>1. /\ DOMAIN orders' = DOMAIN orders \ ids
      /\ \A i \in DOMAIN orders' : orders'[i] = orders[i]
  BY DEF WithoutRows
<1>2. orders' \in [DOMAIN orders' -> Rows] /\ DOMAIN orders' \subseteq Ids
  BY <1>1 DEF WithoutRows, ServerTypeOK
<1>3. /\ Having("PENDING")' = Having("PENDING") \ ids
      /\ Having("WAITING")' = Having("WAITING") \ ids
  BY <1>1 DEF Having
<1> QED BY <1>1, <1>2, <1>3

\* No more orders than there were.
LEMMA CountShrinks ==
  ASSUME ServerTypeOK, CountInv, placed' = placed, Reopening' => Reopening,
         (DOMAIN orders \cup InHand)' \subseteq DOMAIN orders \cup InHand
  PROVE  CountInv'
<1> DEFINE used == DOMAIN orders \cup InHand
           later == (DOMAIN orders \cup InHand)'
<1>1. IsFiniteSet(used) /\ Cardinality(used) \in Nat
  BY IdsAreFinite
<1>2. later \subseteq used
  OBVIOUS
<1>3. Cardinality(used) + (IF Reopening THEN 1 ELSE 0) <= placed /\ placed \in Int
  BY DEF CountInv, ServerTypeOK
<1> HIDE DEF used, later
<1>4. IsFiniteSet(later) /\ Cardinality(later) <= Cardinality(used)
  BY <1>1, <1>2, FS_Subset
<1>5. Cardinality(later) \in Nat
  BY <1>4, FS_CardinalityType
<1>6. Cardinality(later) + (IF Reopening' THEN 1 ELSE 0) <= placed'
  BY <1>1, <1>3, <1>4, <1>5
<1> QED BY <1>6 DEF CountInv, later

LEMMA HeldOrder ==
  ASSUME TablesInv, NEW t \in Threads, NEW o \in hand[t]
  PROVE  /\ o \in Orders /\ o.id \in Ids /\ o.row \in Rows
         /\ o.id \in InHand /\ o.id \notin DOMAIN orders
<1>1. o \in Orders
  BY DEF TablesInv, ServerTypeOK
<1>2. o.id \in InHand
  BY InHandIs
<1> QED BY <1>1, <1>2 DEF TablesInv, HandsInv, Orders

LEMMA WaitTables ==
  ASSUME TablesInv, NEW c \in Connections, WaitForTrigger(c)
  PROVE  TablesInv'
<1>1. UNCHANGED <<balance, price, book, mtx, sweep, draw, watch, orphans, placed>>
  BY DEF WaitForTrigger, market
<1>2. PICK o \in hand[c] : orders' = WithRow(o.id, [o.row EXCEPT !.status = "WAITING"])
  BY DEF WaitForTrigger, AddWaitingOrder
<1>3. c \in Threads /\ hand' = [hand EXCEPT ![c] = {}]
  BY ThreadsAre DEF WaitForTrigger
<1>4. PICK id \in Ids : id = o.id /\ id \in InHand /\ id \notin DOMAIN orders /\ o.row \in Rows
  BY <1>3, HeldOrder
<1>5. PICK row \in Rows : row = [o.row EXCEPT !.status = "WAITING"] /\ row.status = "WAITING"
  <2> DEFINE r == [o.row EXCEPT !.status = "WAITING"]
  <2>1. \E p \in Rows : p = r /\ p.status = "WAITING"
    BY <1>4, Restated
  <2> HIDE DEF r
  <2> QED BY <2>1 DEF r
<1>6. orders' = WithRow(id, row)
  BY <1>2, <1>4, <1>5
<1>7. /\ DOMAIN orders' = DOMAIN orders \cup {id} /\ DOMAIN orders' \subseteq Ids
      /\ orders' \in [DOMAIN orders' -> Rows]
      /\ \A i \in DOMAIN orders : orders'[i] = orders[i]
      /\ Having("WAITING")' = Having("WAITING") \cup {id}
      /\ Having("PENDING")' = Having("PENDING")
  <2>1. ServerTypeOK
    BY DEF TablesInv
  <2>2. /\ DOMAIN orders' = DOMAIN orders \cup {id} /\ DOMAIN orders' \subseteq Ids
        /\ orders' \in [DOMAIN orders' -> Rows]
        /\ orders'[id] = row
        /\ \A i \in DOMAIN orders : orders'[i] = orders[i]
        /\ Having("PENDING")' = Having("PENDING") \cup {i \in {id} : row.status = "PENDING"}
        /\ Having("WAITING")' = Having("WAITING") \cup {i \in {id} : row.status = "WAITING"}
    BY <1>4, <1>6, <2>1, RowAdded
  <2> QED BY <1>5, <2>2
<1>8. HandsInv' /\ hand' \in [Threads -> SUBSET Orders] /\ InHand' = InHand \ {id}
  <2>1. DOMAIN orders' \subseteq DOMAIN orders \cup {o.id}
    BY <1>4, <1>7
  <2> QED BY <1>3, <1>4, <2>1, HandEmptied DEF TablesInv
<1>9. \A i \in Having("PENDING") : orders'[i] = orders[i]
  BY <1>7, HavingIs
<1>10. ServerTypeOK'
  BY <1>1, <1>7, <1>8 DEF TablesInv, ServerTypeOK
<1>11. MutexInv' /\ RowsInv'
  BY <1>1, <1>7 DEF TablesInv, MutexInv, RowsInv
<1>12. TradeInv' /\ BooksInv'
  BY <1>1, <1>7, <1>9, TradeStays, BooksStay DEF TablesInv
<1>13. CountInv'
  <2>1. (DOMAIN orders \cup InHand)' \subseteq DOMAIN orders \cup InHand
    BY <1>4, <1>7, <1>8
  <2>2. Reopening' => Reopening
    BY <1>1 DEF Reopening
  <2> QED BY <1>1, <2>1, <2>2, CountShrinks DEF TablesInv
<1> QED BY <1>8, <1>10, <1>11, <1>12, <1>13 DEF TablesInv

\* An order enters its book, whether or not a sweep follows.
LEMMA EnterTables ==
  ASSUME TablesInv, NEW t \in Threads, Enter(t)
  PROVE  TablesInv'
<1>1. UNCHANGED <<balance, price, draw, watch, orphans, placed>> /\ mtx = Nobody
  BY DEF Enter, AccumulateOrder
<1>2. PICK o \in hand[t] :
        /\ orders' = WithRow(o.id, [o.row EXCEPT !.status = "PENDING"])
        /\ book' = [book EXCEPT ![o.row.action][o.row.side] = InsertByPriority(@, o.id, o.row)]
        /\ \/ /\ mtx' = t
              /\ sweep' = [NoSweep EXCEPT !.stage = "match", !.todo = <<o.row.action>>]
           \/ UNCHANGED <<mtx, sweep>>
  BY DEF Enter, AccumulateOrder, AddPendingOrder
<1>3. hand' = [hand EXCEPT ![t] = {}]
  BY DEF Enter
<1>4. PICK id \in Ids : id = o.id /\ id \in InHand /\ id \notin DOMAIN orders /\ o.row \in Rows
  BY HeldOrder
<1>5. PICK fresh \in Rows : fresh = o.row
  BY <1>4
<1>6. PICK row \in Rows :
        /\ row = [fresh EXCEPT !.status = "PENDING"] /\ row.status = "PENDING"
        /\ row.side = fresh.side /\ row.action = fresh.action
        /\ row.price = fresh.price /\ row.stamp = fresh.stamp
  BY Restated
<1>7. orders' = WithRow(id, row)
  BY <1>2, <1>4, <1>5, <1>6
<1>8. /\ DOMAIN orders' = DOMAIN orders \cup {id} /\ DOMAIN orders' \subseteq Ids
      /\ orders' \in [DOMAIN orders' -> Rows]
      /\ orders'[id] = row
      /\ \A i \in DOMAIN orders : orders'[i] = orders[i]
      /\ Having("PENDING")' = Having("PENDING") \cup {id}
      /\ Having("WAITING")' = Having("WAITING")
  <2>1. ServerTypeOK
    BY DEF TablesInv
  <2>2. /\ DOMAIN orders' = DOMAIN orders \cup {id} /\ DOMAIN orders' \subseteq Ids
        /\ orders' \in [DOMAIN orders' -> Rows]
        /\ orders'[id] = row
        /\ \A i \in DOMAIN orders : orders'[i] = orders[i]
        /\ Having("PENDING")' = Having("PENDING") \cup {i \in {id} : row.status = "PENDING"}
        /\ Having("WAITING")' = Having("WAITING") \cup {i \in {id} : row.status = "WAITING"}
    <3>1. id \in Ids /\ id \notin DOMAIN orders /\ row \in Rows
      BY <1>4, <1>6
    <3> QED BY <1>7, <2>1, <3>1, RowAdded
  <2> QED BY <1>6, <2>2
<1>9. HandsInv' /\ hand' \in [Threads -> SUBSET Orders] /\ InHand' = InHand \ {id}
  <2>1. DOMAIN orders' \subseteq DOMAIN orders \cup {o.id}
    BY <1>4, <1>8
  <2> QED BY <1>3, <1>4, <2>1, HandEmptied DEF TablesInv
<1>10. sweep.stage = "none" /\ ~Reopening
  BY <1>1 DEF TablesInv, MutexInv, Reopening
<1>11. PICK a \in Actions : a = fresh.action
  BY RowFields
<1>12. PICK side \in Sides : side = fresh.side
  BY RowFields
<1>13. /\ ~Reopening'
       /\ sweep' \in [stage : {"none", "match"} \cup Trading, todo : Seq(Actions),
                      trade : TradeRecords \cup {NoTrade}]
       /\ mtx' \in Threads \cup {Nobody}
       /\ sweep'.stage \in {"none", "match"}
       /\ MutexInv'
  <2>1. CASE UNCHANGED <<mtx, sweep>>
    BY <1>10, <2>1 DEF TablesInv, ServerTypeOK, MutexInv, Reopening
  <2>2. CASE mtx' = t /\ sweep' = [NoSweep EXCEPT !.stage = "match", !.todo = <<o.row.action>>]
    <3>1. /\ sweep'.stage = "match" /\ sweep'.todo = <<a>> /\ sweep'.trade = NoTrade
          /\ sweep' = [stage |-> "match", todo |-> <<a>>, trade |-> NoTrade]
      BY <1>5, <1>11, <2>2 DEF NoSweep
    <3>2. <<a>> \in Seq(Actions) /\ <<a>> # <<>>
      OBVIOUS
    <3> QED BY <2>2, <3>1, <3>2, ThreadsAre DEF MutexInv, Reopening, Trading
  <2> QED BY <1>2, <2>1, <2>2
<1>14. TradeInv'
  BY <1>13 DEF TradeInv, Trading
<1>15. RowsInv'
  BY <1>1, <1>8 DEF TablesInv, RowsInv
<1>16. CountInv'
  <2>1. (DOMAIN orders \cup InHand)' \subseteq DOMAIN orders \cup InHand
    BY <1>4, <1>8, <1>9
  <2> QED BY <1>1, <1>13, <2>1, CountShrinks DEF TablesInv
<1>17. /\ ToSet(book[a]["BUY"]) \cup ToSet(book[a]["SELL"]) = Live(a)
       /\ book[a][side] \in Seq(Ids)
       /\ id \notin ToSet(book[a][side])
       /\ Queued(book[a][side], side, a, orders)
  <2>1. Closing(a) = {}
    BY <1>10 DEF Closing
  <2>2. ToSet(book[a]["BUY"]) \cup ToSet(book[a]["SELL"]) = Live(a)
    BY <2>1 DEF TablesInv, BooksInv
  <2>3. book[a][side] \in Seq(Ids)
    BY DEF TablesInv, ServerTypeOK
  <2>4. id \notin Live(a)
    BY <1>4, HavingIs DEF Live
  <2>5. Queued(book[a][side], side, a, Known)
    BY DEF TablesInv, BooksInv
  <2>6. \A i \in ToSet(book[a][side]) : orders[i] = Known[i]
    BY <1>10, <2>3 DEF Known, ToSet
  <2>7. Queued(book[a][side], side, a, orders)
    BY <2>3, <2>5, <2>6, QueuedSame
  <2> QED BY <2>2, <2>3, <2>4, <2>7 DEF Sides
<1>18. /\ book' = [book EXCEPT ![a] = [book[a] EXCEPT ![side] =
                     InsertByPriority(book[a][side], id, fresh)]]
       /\ book' \in [Actions -> [Sides -> Seq(Ids)]]
       /\ ToSet(book'[a][side]) = {id} \cup ToSet(book[a][side])
       /\ Queued(book'[a][side], side, a, Known')
  <2> DEFINE q == InsertByPriority(book[a][side], id, fresh)
  <2>1. /\ q \in Seq(Ids) /\ Queued(q, side, a, orders')
        /\ ToSet(q) = {id} \cup ToSet(book[a][side])
    <3>1. \A i \in ToSet(book[a][side]) : orders'[i] = orders[i]
      BY <1>8, <1>17, HavingIs DEF Live, Sides
    <3>2. /\ orders'[id] \in Rows
          /\ orders'[id].side = side /\ orders'[id].action = a
          /\ orders'[id].price = fresh.price /\ orders'[id].stamp = fresh.stamp
          /\ fresh.side = side /\ fresh.action = a
      BY <1>6, <1>8, <1>11, <1>12
    <3>3. /\ book[a][side] \in Seq(Ids) /\ Queued(book[a][side], side, a, orders)
          /\ id \notin ToSet(book[a][side])
      BY <1>17
    <3> QED BY ONLY <3>1, <3>2, <3>3, QueuedInsert, fresh \in Rows, id \in Ids
  <2>2. \A i \in ToSet(q) : Known'[i] = orders'[i]
    <3>1. ToSet(q) \subseteq Ids
      BY <2>1 DEF ToSet
    <3> HIDE DEF q
    <3> QED BY <1>13, <3>1 DEF Known
  <2>3. book' = [book EXCEPT ![a] = [book[a] EXCEPT ![side] = q]]
    BY <1>2, <1>4, <1>5, <1>11, <1>12
  <2> HIDE DEF q
  <2>4. Queued(q, side, a, Known')
    BY <2>1, <2>2, QueuedSame
  <2>5. book'[a][side] = q /\ book' \in [Actions -> [Sides -> Seq(Ids)]]
    <3>1. book \in [Actions -> [Sides -> Seq(Ids)]]
      BY DEF TablesInv, ServerTypeOK
    <3> QED BY <2>1, <2>3, <3>1
  <2> QED BY <2>1, <2>3, <2>4, <2>5 DEF q
<1>19. ServerTypeOK'
  BY <1>1, <1>8, <1>9, <1>13, <1>18 DEF TablesInv, ServerTypeOK
<1>20. \A b \in Actions, s \in Sides : b # a \/ s # side => book'[b][s] = book[b][s]
  BY <1>18 DEF TablesInv, ServerTypeOK
<1>21. BooksInv'
  <2> SUFFICES ASSUME NEW b \in Actions
               PROVE  /\ ToSet(book'[b]["BUY"]) \cup ToSet(book'[b]["SELL"])
                           = Live(b)' \cup Closing(b)'
                      /\ \A s \in Sides : Queued(book'[b][s], s, b, Known')
    BY DEF BooksInv
  <2>1. Closing(b)' = {} /\ Closing(b) = {}
    BY <1>10, <1>13 DEF Closing
  <2>2. /\ ToSet(book[b]["BUY"]) \cup ToSet(book[b]["SELL"]) = Live(b)
        /\ \A s \in Sides : Queued(book[b][s], s, b, Known)
    BY <2>1 DEF TablesInv, BooksInv
  <2>3. id \notin orphans
    BY <1>4, HavingIs DEF TablesInv, RowsInv
  <2>4. Live(b)' = IF b = a THEN Live(b) \cup {id} ELSE Live(b)
    BY <1>1, <1>6, <1>8, <1>11, <2>3, HavingIs DEF Live, Row
  <2>5. ToSet(book'[b]["BUY"]) \cup ToSet(book'[b]["SELL"])
          = IF b = a THEN {id} \cup ToSet(book[b]["BUY"]) \cup ToSet(book[b]["SELL"])
                     ELSE ToSet(book[b]["BUY"]) \cup ToSet(book[b]["SELL"])
    <3>1. "BUY" \in Sides /\ "SELL" \in Sides /\ side \in {"BUY", "SELL"}
      BY DEF Sides
    <3> QED BY <1>18, <1>20, <3>1
  <2>6. ASSUME NEW s \in Sides, b # a \/ s # side
        PROVE  Queued(book'[b][s], s, b, Known')
    <3>1. book'[b][s] = book[b][s] /\ book[b][s] \in Seq(Ids)
      BY <1>20, <2>6 DEF TablesInv, ServerTypeOK
    <3>2. \A i \in ToSet(book[b][s]) : Known'[i] = Known[i]
      <4>1. ToSet(book[b][s]) \subseteq Ids
        BY <3>1 DEF ToSet
      <4>2. ToSet(book[b][s]) \subseteq DOMAIN orders
        BY <2>2, HavingIs DEF Live, Sides
      <4> QED BY <1>8, <1>10, <1>13, <4>1, <4>2 DEF Known
    <3> QED BY <2>2, <3>1, <3>2, QueuedSame
  <2> QED BY <1>18, <2>1, <2>2, <2>4, <2>5, <2>6
<1> QED BY <1>9, <1>13, <1>14, <1>15, <1>16, <1>19, <1>21 DEF TablesInv

\* Cash moves and requests are checked; no order is touched.
LEMMA CashTables ==
  ASSUME TablesInv, NEW c \in Connections,
         DepositCash(c) \/ CheckWithdrawal(c) \/ WithdrawCash(c)
  PROVE  TablesInv'
<1>1. /\ Owner[c] \in Clients /\ Amounts[Owner[c]] \subseteq Int
      /\ balance \in [Clients -> Int] /\ draw \in [Connections -> SUBSET Int]
  BY ServerAssumption, ThreadsAre DEF TablesInv, ServerTypeOK
<1>2. /\ UNCHANGED <<price, orders, book, mtx, sweep, hand, orphans, placed, watch>>
      /\ balance' \in [Clients -> Int]
      /\ draw' \in [Connections -> SUBSET Int]
  <2>1. CASE DepositCash(c)
    <3>1. PICK amount \in Amounts[Owner[c]] : Deposit(Owner[c], 10 * amount)
      BY <2>1 DEF DepositCash
    <3>2. 10 * amount \in Int
      BY <1>1
    <3>3. balance' \in [Clients -> Int]
      BY <1>1, <3>1, <3>2 DEF Deposit
    <3> QED BY <1>1, <2>1, <3>3 DEF DepositCash, market
  <2>2. CASE CheckWithdrawal(c)
    BY <1>1, <2>2 DEF CheckWithdrawal, market, store
  <2>3. CASE WithdrawCash(c)
    <3>1. PICK amount \in draw[c] : Withdraw(Owner[c], 10 * amount)
      BY <2>3 DEF WithdrawCash
    <3>2. 10 * amount \in Int
      BY <1>1
    <3>3. balance' \in [Clients -> Int]
      BY <1>1, <3>1, <3>2 DEF Withdraw
    <3> QED BY <1>1, <2>3, <3>3 DEF WithdrawCash, market
  <2> QED BY <2>1, <2>2, <2>3
<1>3. /\ watch' \in [stage : {"asleep", "scan", "stopped"}, left : SUBSET Ids]
      /\ watch'.left \subseteq Having("WAITING")
  BY <1>2 DEF TablesInv, ServerTypeOK, RowsInv
<1> QED BY <1>2, <1>3, QuietStep

-----------------------------------------------------------------------------
\* The watcher

LEMMA ScanTables ==
  ASSUME TablesInv, Scan \/ EndScan \/ \E i \in watch.left : KeepWaiting(i)
  PROVE  TablesInv'
<1>1. /\ watch \in [stage : {"asleep", "scan", "stopped"}, left : SUBSET Ids]
      /\ watch.left \subseteq Having("WAITING") /\ Having("WAITING") \subseteq Ids
      /\ balance \in [Clients -> Int] /\ draw \in [Connections -> SUBSET Int]
  BY HavingIs DEF TablesInv, ServerTypeOK, RowsInv
<1>2. /\ UNCHANGED <<balance, price, orders, book, mtx, sweep, hand, orphans, placed, draw>>
      /\ watch' \in [stage : {"asleep", "scan", "stopped"}, left : SUBSET Ids]
      /\ watch'.left \subseteq Having("WAITING")
  <2>1. CASE Scan
    BY <1>1, <2>1 DEF Scan, store, market
  <2>2. CASE EndScan
    BY <1>1, <2>2 DEF EndScan, store, market, Asleep
  <2>3. ASSUME NEW i \in watch.left, KeepWaiting(i)
        PROVE  /\ UNCHANGED <<balance, price, orders, book, mtx, sweep, hand, orphans,
                              placed, draw>>
               /\ watch' \in [stage : {"asleep", "scan", "stopped"}, left : SUBSET Ids]
               /\ watch'.left \subseteq Having("WAITING")
    BY <1>1, <2>3 DEF KeepWaiting, Looks, market
  <2> QED BY <2>1, <2>2, <2>3
<1> QED BY <1>1, <1>2, QuietStep

\* A row the watcher removes is one it saw waiting, and is still there.
LEMMA LookTables ==
  ASSUME TablesInv, NEW i \in watch.left, Expire(i) \/ Take(i)
  PROVE  TablesInv'
<1>1. /\ UNCHANGED <<balance, price, book, mtx, sweep, orphans, placed, draw>>
      /\ hand["watcher"] = {}
      /\ watch' = [watch EXCEPT !.left = @ \ {i}]
      /\ orders' = WithoutRows({i} \cap Having("WAITING"))
  BY DEF Expire, Take, Looks, market, RemoveWaitingOrder
<1>2. /\ i \in Having("WAITING") /\ i \in DOMAIN orders /\ i \in Ids
      /\ orders[i] \in Rows /\ orders[i].status = "WAITING"
      /\ watch \in [stage : {"asleep", "scan", "stopped"}, left : SUBSET Ids]
      /\ watch.left \subseteq Having("WAITING")
  BY DEF TablesInv, ServerTypeOK, RowsInv, Having
<1>3. {i} \cap Having("WAITING") = {i}
  BY <1>2
<1>4. ServerTypeOK
  BY DEF TablesInv
<1>5. /\ DOMAIN orders' = DOMAIN orders \ {i} /\ DOMAIN orders' \subseteq Ids
      /\ orders' \in [DOMAIN orders' -> Rows]
      /\ \A j \in DOMAIN orders' : orders'[j] = orders[j]
      /\ Having("PENDING")' = Having("PENDING") \ {i}
      /\ Having("WAITING")' = Having("WAITING") \ {i}
  <2>1. orders' = WithoutRows({i})
    BY <1>1, <1>3
  <2> QED BY <1>4, <2>1, RowsRemoved
<1>6. i \notin Having("PENDING") /\ Having("PENDING")' = Having("PENDING")
  BY <1>2, <1>5 DEF Having
<1>7. \A j \in Having("PENDING") : orders'[j] = orders[j]
  BY <1>2, <1>5, <1>6, HavingIs
<1>8. /\ HandsInv' /\ hand' \in [Threads -> SUBSET Orders]
      /\ (DOMAIN orders \cup InHand)' \subseteq DOMAIN orders \cup InHand
  <2>1. CASE Expire(i)
    <3>1. hand' = hand /\ InHand' = InHand
      BY <2>1 DEF Expire, InHand
    <3> QED BY <1>4, <1>5, <3>1 DEF TablesInv, HandsInv, ServerTypeOK
  <2>2. CASE Take(i)
    <3>1. PICK o \in Orders : o = [id |-> i, row |-> orders[i]]
      BY <1>2 DEF Orders
    <3>2. o.id = i /\ hand' = [hand EXCEPT !["watcher"] = {o}]
      BY <2>2, <3>1 DEF Take
    <3>3. /\ "watcher" \in Threads /\ HandsInv
          /\ o.id \notin InHand /\ o.id \notin DOMAIN orders'
          /\ DOMAIN orders' \subseteq DOMAIN orders
      BY <1>2, <1>5, <3>2, ThreadsAre DEF TablesInv, HandsInv
    <3>4. /\ HandsInv' /\ hand' \in [Threads -> SUBSET Orders]
          /\ InHand' = InHand \cup {o.id}
      BY <1>1, <1>4, <3>2, <3>3, HandGains, Zenon
    <3> QED BY <1>2, <1>5, <3>2, <3>4
  <2> QED BY <2>1, <2>2
<1>9. ServerTypeOK'
  BY <1>1, <1>2, <1>5, <1>8 DEF TablesInv, ServerTypeOK
<1>10. MutexInv' /\ RowsInv'
  BY <1>1, <1>2, <1>5, <1>6 DEF TablesInv, MutexInv, RowsInv
<1>11. TradeInv' /\ BooksInv'
  BY <1>1, <1>6, <1>7, TradeStays, BooksStay DEF TablesInv
<1>12. CountInv'
  <2>1. Reopening' => Reopening
    BY <1>1 DEF Reopening
  <2> QED BY <1>1, <1>8, <2>1, CountShrinks DEF TablesInv
<1> QED BY <1>8, <1>9, <1>10, <1>11, <1>12 DEF TablesInv

-----------------------------------------------------------------------------
\* The market and its sweeps

LEMMA PhaseTables ==
  ASSUME TablesInv, BeginContinuous \/ EndContinuous \/ ShutDown \/ Play \/ UNCHANGED vars
  PROVE  TablesInv'
<1>1. /\ UNCHANGED <<balance, price, orders, book, mtx, sweep, hand, orphans, placed, draw,
                     watch>>
      /\ watch \in [stage : {"asleep", "scan", "stopped"}, left : SUBSET Ids]
      /\ watch.left \subseteq Having("WAITING")
      /\ balance \in [Clients -> Int] /\ draw \in [Connections -> SUBSET Int]
  BY DEF BeginContinuous, EndContinuous, ShutDown, Play, GoTo, vars, store, market,
         TablesInv, ServerTypeOK, RowsInv
<1> QED BY <1>1, QuietStep

\* A sweep begins, or goes on to the next action, or is over.
LEMMA SweepMoves ==
  ASSUME TablesInv, UNCHANGED <<balance, price, orders, book, hand, orphans, placed, draw, watch>>,
         ~Reopening, ~Reopening', MutexInv',
         sweep' \in [stage : {"none", "match"}, todo : Seq(Actions), trade : {NoTrade}],
         mtx' \in Threads \cup {Nobody}
  PROVE  TablesInv'
<1>1. Having("PENDING")' = Having("PENDING") /\ Having("WAITING")' = Having("WAITING")
  BY DEF Having
<1>2. ServerTypeOK'
  BY DEF TablesInv, ServerTypeOK
<1>3. HandsInv'
  BY DEF TablesInv, HandsInv, InHand
<1>4. TradeInv'
  BY DEF TradeInv, Trading
<1>5. BooksInv'
  BY <1>1, BooksStay DEF TablesInv
<1>6. RowsInv'
  BY <1>1 DEF TablesInv, RowsInv
<1>7. CountInv'
  BY CountStays DEF TablesInv
<1> QED BY <1>2, <1>3, <1>4, <1>5, <1>6, <1>7 DEF TablesInv

LEMMA FixingTables ==
  ASSUME TablesInv, Fixing
  PROVE  TablesInv'
<1>1. ProcessFixing("market")
      /\ UNCHANGED <<balance, price, orders, book, hand, orphans, placed, draw, watch>>
  BY DEF Fixing, GoTo, store, ProcessFixing
<1>2. PICK todo \in [1 .. Cardinality(Actions) -> Actions] :
        sweep' = [NoSweep EXCEPT !.stage = "match", !.todo = todo]
  BY <1>1 DEF ProcessFixing
<1>3. mtx' = "market" /\ mtx = Nobody
  BY <1>1 DEF ProcessFixing
<1>4. Cardinality(Actions) \in Nat \ {0}
  BY StoreAssumption, FS_CardinalityType, FS_EmptySet
<1>5. todo \in Seq(Actions) /\ todo # <<>>
  BY <1>4
<1>6. sweep' = [stage |-> "match", todo |-> todo, trade |-> NoTrade]
  BY <1>2 DEF NoSweep
<1>7. ~Reopening' /\ ~Reopening
  BY <1>3, <1>6 DEF Reopening, TablesInv, MutexInv
<1>8. MutexInv'
  BY <1>3, <1>5, <1>6, ThreadsAre DEF MutexInv, Trading
<1> QED BY <1>1, <1>3, <1>5, <1>6, <1>7, <1>8, SweepMoves, ThreadsAre

LEMMA NextActionTables ==
  ASSUME TablesInv, NextAction, UNCHANGED <<hand, draw, watch, placed, orphans>>
  PROVE  TablesInv'
<1>1. sweep.stage = "match" /\ UNCHANGED <<balance, price, orders, book>>
  BY DEF NextAction, store
<1>2. /\ sweep.todo \in Seq(Actions) /\ sweep.todo # <<>> /\ sweep.trade = NoTrade
      /\ sweep \in [stage : {"none", "match"} \cup Trading, todo : Seq(Actions),
                    trade : TradeRecords \cup {NoTrade}]
      /\ mtx \in Threads /\ mtx # Nobody
  BY <1>1, ThreadsAre DEF TablesInv, ServerTypeOK, MutexInv
<1>3. CASE Len(sweep.todo) > 1
  <2>1. sweep' = [sweep EXCEPT !.todo = Tail(@)] /\ mtx' = mtx
    BY <1>3 DEF NextAction
  <2>2. Tail(sweep.todo) \in Seq(Actions) /\ Tail(sweep.todo) # <<>>
    <3>1. /\ Tail(sweep.todo) \in Seq(Actions)
          /\ Len(Tail(sweep.todo)) = Len(sweep.todo) - 1
      BY <1>2, HeadTailProperties
    <3>2. Len(sweep.todo) \in Nat /\ Len(<<>>) = 0
      BY <1>2
    <3> DEFINE rest == Tail(sweep.todo)
               m == Len(sweep.todo)
    <3>3. rest \in Seq(Actions) /\ Len(rest) = m - 1 /\ m \in Nat /\ m > 1
      BY <1>3, <3>1, <3>2
    <3> HIDE DEF rest, m
    <3>4. Len(rest) # 0
      BY <3>3
    <3>5. rest # <<>>
      BY <3>2, <3>4
    <3> QED BY <3>3, <3>5 DEF rest
  <2>3. sweep' = [stage |-> "match", todo |-> Tail(sweep.todo), trade |-> NoTrade]
    BY <1>1, <1>2, <2>1
  <2>4. ~Reopening' /\ ~Reopening /\ MutexInv'
    BY <1>1, <1>2, <2>1, <2>2, <2>3 DEF Reopening, MutexInv, Trading
  <2> QED BY <1>1, <1>2, <2>1, <2>2, <2>3, <2>4, SweepMoves
<1>4. CASE ~(Len(sweep.todo) > 1)
  <2>1. sweep' = NoSweep /\ mtx' = Nobody
    BY <1>4 DEF NextAction
  <2>2. ~Reopening' /\ ~Reopening /\ MutexInv'
    BY <1>1, <2>1 DEF Reopening, MutexInv, Trading, NoSweep
  <2>3. sweep' \in [stage : {"none", "match"}, todo : Seq(Actions), trade : {NoTrade}]
    BY <2>1 DEF NoSweep
  <2> QED BY <1>1, <2>1, <2>2, <2>3, SweepMoves
<1> QED BY <1>3, <1>4

\* Whatever was in memory is lost; the rows are not.
LEMMA DownTables ==
  ASSUME TablesInv, Down
  PROVE  TablesInv'
<1>1. /\ UNCHANGED <<balance, price, orders, placed>>
      /\ hand' = [t \in Threads |-> {}] /\ draw' = [c \in Connections |-> {}]
      /\ watch' = Asleep
      /\ book' = [a \in Actions |-> [side \in Sides |-> <<>>]]
      /\ mtx' = Nobody /\ sweep' = NoSweep /\ orphans' = Having("PENDING")
  BY DEF Down, store
<1>2. Having("PENDING")' = Having("PENDING")
  BY <1>1 DEF Having
<1>3. ServerTypeOK'
  BY <1>1 DEF TablesInv, ServerTypeOK, NoSweep, Asleep
<1>4. InHand' = {} /\ HandsInv'
  BY <1>1 DEF InHand, HandsInv
<1>5. ~Reopening' /\ MutexInv' /\ TradeInv'
  BY <1>1 DEF Reopening, MutexInv, TradeInv, NoSweep, Trading
<1>6. BooksInv'
  <2> SUFFICES ASSUME NEW a \in Actions
               PROVE  /\ ToSet(book'[a]["BUY"]) \cup ToSet(book'[a]["SELL"])
                           = Live(a)' \cup Closing(a)'
                      /\ \A side \in Sides : Queued(book'[a][side], side, a, Known')
    BY DEF BooksInv
  <2>1. \A side \in Sides : book'[a][side] = <<>>
    BY <1>1
  <2>2. Live(a)' = {} /\ Closing(a)' = {}
    BY <1>1, <1>2, <1>5 DEF Live, Closing
  <2>3. ToSet(<<>>) = {}
    BY DEF ToSet
  <2>4. \A side \in Sides : Queued(<<>>, side, a, Known')
    BY DEF Queued, IsInjective
  <2> QED BY <2>1, <2>2, <2>3, <2>4 DEF Sides
<1>7. RowsInv'
  BY <1>1, <1>2 DEF RowsInv, Asleep
<1>8. CountInv'
  <2>1. (DOMAIN orders \cup InHand)' \subseteq DOMAIN orders \cup InHand
    BY <1>1, <1>4
  <2> QED BY <1>1, <1>5, <2>1, CountShrinks DEF TablesInv
<1> QED BY <1>3, <1>4, <1>5, <1>6, <1>7, <1>8 DEF TablesInv

-----------------------------------------------------------------------------
\* A trade

LEMMA MinOfTwo ==
  ASSUME NEW m \in Nat, NEW n \in Nat
  PROVE  /\ Min({m, n}) \in {m, n}
         /\ Min({m, n}) <= m /\ Min({m, n}) <= n
<1>1. {m, n} \subseteq Nat /\ {m, n} # {}
  OBVIOUS
<1>2. \E x \in {m, n} : \A y \in {m, n} : x <= y
  OBVIOUS
<1> QED BY <1>2 DEF Min

\* When no trade is closing, a book holds the rows of the tables.
LEMMA BookNow ==
  ASSUME TablesInv, ~Reopening, NEW a \in Actions
  PROVE  /\ ToSet(book[a]["BUY"]) \cup ToSet(book[a]["SELL"]) = Live(a)
         /\ \A side \in Sides : /\ book[a][side] \in Seq(Ids)
                                /\ ToSet(book[a][side]) \subseteq Live(a)
                                /\ Queued(book[a][side], side, a, orders)
<1>1. ToSet(book[a]["BUY"]) \cup ToSet(book[a]["SELL"]) = Live(a)
  BY DEF Closing, TablesInv, BooksInv
<1>2. ASSUME NEW side \in Sides
      PROVE  /\ book[a][side] \in Seq(Ids)
             /\ ToSet(book[a][side]) \subseteq Live(a)
             /\ Queued(book[a][side], side, a, orders)
  <2>1. book[a][side] \in Seq(Ids)
    BY DEF TablesInv, ServerTypeOK
  <2>2. Queued(book[a][side], side, a, Known)
    BY DEF TablesInv, BooksInv
  <2>3. \A i \in ToSet(book[a][side]) : orders[i] = Known[i]
    <3>1. ToSet(book[a][side]) \subseteq Ids
      BY <2>1 DEF ToSet
    <3> QED BY <3>1 DEF Known
  <2>4. Queued(book[a][side], side, a, orders)
    BY <2>1, <2>2, <2>3, QueuedSame
  <2> QED BY <1>1, <2>1, <2>4 DEF Sides
<1> QED BY <1>1, <1>2

LEMMA HeadNow ==
  ASSUME TablesInv, ~Reopening, NEW a \in Actions, NEW side \in Sides, book[a][side] # <<>>
  PROVE  /\ Head(book[a][side]) \in Ids /\ Head(book[a][side]) \in Live(a)
         /\ Head(book[a][side]) \in Having("PENDING")
         /\ orders[Head(book[a][side])] \in Rows
         /\ orders[Head(book[a][side])].side = side
         /\ orders[Head(book[a][side])].action = a
         /\ \A i \in Live(a) : orders[i].side = side =>
              ~Ahead(orders[i], orders[Head(book[a][side])])
<1>1. PICK ids \in Seq(Ids) : ids = book[a][side] /\ ids # <<>>
  BY BookNow
<1>2. ToSet(ids) \subseteq Live(a) /\ Queued(ids, side, a, orders)
  BY <1>1, BookNow
<1>3. Head(ids) \in Ids /\ Head(ids) \in ToSet(ids)
  <2>1. Head(ids) \in ToSet(ids)
    BY <1>1, TailOfIds
  <2> QED BY <2>1 DEF ToSet
<1>4. /\ orders[Head(ids)] \in Rows
      /\ orders[Head(ids)].side = side /\ orders[Head(ids)].action = a
      /\ \A i \in ToSet(ids) : ~Ahead(orders[i], orders[Head(ids)])
  BY <1>1, <1>2, QueuedHeadFirst
<1>5. ASSUME NEW i \in Live(a), orders[i].side = side
      PROVE  i \in ToSet(ids)
  <2>1. PICK s \in Sides : i \in ToSet(book[a][s])
    BY BookNow DEF Sides
  <2>2. PICK other \in Seq(Ids) : other = book[a][s] /\ Queued(other, s, a, orders)
    BY BookNow
  <2>3. orders[i].side = s
    BY <2>1, <2>2 DEF Queued, ToSet
  <2> QED BY <1>1, <1>5, <2>1, <2>3
<1>6. Head(ids) \in Having("PENDING")
  BY <1>2, <1>3 DEF Live
<1> QED BY <1>1, <1>2, <1>3, <1>4, <1>5, <1>6

\* The price of a trade is one both orders accept, and never a placeholder.
LEMMA ExecutionPrice ==
  ASSUME price \in [Actions -> 1 .. MaxNumber - 1], NEW buy \in Rows, NEW sell \in Rows,
         buy.side = "BUY", sell.side = "SELL", Crosses(buy, sell)
  PROVE  LET at == ResolveExecutionPrice(buy, sell)
         IN  at \in 1 .. MaxNumber - 1 /\ sell.price <= at /\ at <= buy.price
<1> DEFINE at == ResolveExecutionPrice(buy, sell)
<1>1. /\ Priced(buy) /\ Priced(sell) /\ buy.action \in Actions
      /\ buy.price \in Int /\ sell.price \in Int /\ MaxNumber \in Nat
      /\ sell.price <= buy.price
  BY RowFields, StoreAssumption DEF Rows, Crosses
<1>2. CASE buy.kind = "MARKET" /\ sell.kind = "MARKET"
  <2>1. at = price[buy.action]
    BY <1>2 DEF ResolveExecutionPrice
  <2>2. price[buy.action] \in 1 .. MaxNumber - 1
    BY <1>1
  <2>3. buy.price = MaxNumber /\ sell.price = 0
    BY <1>1, <1>2 DEF Priced
  <2> HIDE DEF at
  <2>4. at \in 1 .. MaxNumber - 1 /\ sell.price <= at /\ at <= buy.price
    BY <1>1, <2>1, <2>2, <2>3
  <2> QED BY <1>2, <2>4 DEF at
<1>3. CASE buy.kind # "MARKET" /\ sell.kind = "MARKET"
  <2>1. at = buy.price
    BY <1>3 DEF ResolveExecutionPrice
  <2> HIDE DEF at
  <2>2. at \in 1 .. MaxNumber - 1 /\ sell.price <= at /\ at <= buy.price
    BY <1>1, <1>3, <2>1 DEF Priced
  <2> QED BY <1>3, <2>2 DEF at
<1>4. CASE sell.kind # "MARKET"
  <2>1. at = sell.price
    BY <1>4 DEF ResolveExecutionPrice
  <2> HIDE DEF at
  <2>2. at \in 1 .. MaxNumber - 1 /\ sell.price <= at /\ at <= buy.price
    BY <1>1, <1>4, <2>1 DEF Priced
  <2> QED BY <1>4, <2>1, <2>2 DEF at
<1> QED BY <1>2, <1>3, <1>4

\* What Match finds, in one place.
LEMMA MatchFinds ==
  ASSUME TablesInv, Match
  PROVE  LET a == Head(sweep.todo)
             trade == sweep'.trade
         IN  /\ a \in Actions /\ ~Reopening
             /\ \A side \in Sides : book[a][side] # <<>>
             /\ trade \in TradeRecords
             /\ trade.bought = Head(book[a]["BUY"]) /\ trade.buy = orders[trade.bought]
             /\ trade.sold = Head(book[a]["SELL"]) /\ trade.sell = orders[trade.sold]
             /\ trade.quantity <= trade.buy.quantity
             /\ trade.quantity <= trade.sell.quantity
             /\ trade.quantity = trade.buy.quantity \/ trade.quantity = trade.sell.quantity
             /\ trade.at = ResolveExecutionPrice(trade.buy, trade.sell)
             /\ Crosses(trade.buy, trade.sell)
             /\ sweep' \in [stage : {"pay", "deliver"}, todo : {sweep.todo},
                            trade : TradeRecords]
             /\ sweep'.stage = "pay" =>
                  CanAfford(trade.buy.client, trade.quantity, trade.at, a)
<1> DEFINE todo == sweep.todo
           next == sweep'
<1>1. /\ sweep.stage = "match" /\ ~Reopening /\ todo \in Seq(Actions) /\ todo # <<>>
      /\ sweep \in [stage : {"none", "match"} \cup Trading, todo : Seq(Actions),
                    trade : TradeRecords \cup {NoTrade}]
  BY DEF Match, Reopening, TablesInv, ServerTypeOK, MutexInv
<1>2. PICK a \in Actions : a = Head(sweep.todo)
  BY <1>1
<1>3. /\ \A side \in Sides : book[a][side] # <<>>
      /\ Tradable(a)
  BY <1>2 DEF Match, Tradable, Sides
<1>4. PICK bought \in Ids : /\ bought = Head(book[a]["BUY"])
                            /\ orders[bought] \in Rows /\ orders[bought].side = "BUY"
  BY <1>1, <1>3, HeadNow DEF Sides
<1>5. PICK sold \in Ids : /\ sold = Head(book[a]["SELL"])
                          /\ orders[sold] \in Rows /\ orders[sold].side = "SELL"
  BY <1>1, <1>3, HeadNow DEF Sides
<1>6. PICK buy \in Rows : buy = orders[bought] /\ buy.side = "BUY"
  BY <1>4
<1>7. PICK sell \in Rows : sell = orders[sold] /\ sell.side = "SELL"
  BY <1>5
<1>8. Crosses(buy, sell) /\ buy.quantity > 0 /\ sell.quantity > 0
  BY <1>3, <1>4, <1>5, <1>6, <1>7 DEF Tradable
<1> DEFINE q == Min({buy.quantity, sell.quantity})
           p == ResolveExecutionPrice(buy, sell)
<1>9. /\ q \in Nat \ {0} /\ q <= buy.quantity /\ q <= sell.quantity
      /\ q = buy.quantity \/ q = sell.quantity
  <2>1. buy.quantity \in Nat /\ sell.quantity \in Nat
    BY RowFields
  <2>2. q \in {buy.quantity, sell.quantity} /\ q <= buy.quantity /\ q <= sell.quantity
    BY <2>1, MinOfTwo
  <2> HIDE DEF q
  <2> QED BY <1>8, <2>1, <2>2
<1>10. p \in 1 .. MaxNumber - 1
  BY <1>6, <1>7, <1>8, ExecutionPrice DEF TablesInv, ServerTypeOK
<1>11. sweep' = [sweep EXCEPT
         !.stage = IF CanAfford(buy.client, q, p, a) THEN "pay" ELSE "deliver",
         !.trade = [bought |-> bought, sold |-> sold, buy |-> buy, sell |-> sell,
                    quantity |-> q, at |-> p]]
  BY <1>2, <1>4, <1>5, <1>6, <1>7 DEF Match
<1> HIDE DEF q, p
<1> DEFINE made == [bought |-> bought, sold |-> sold, buy |-> buy, sell |-> sell,
                    quantity |-> q, at |-> p]
<1>12. /\ made \in TradeRecords
       /\ made.bought = bought /\ made.sold = sold /\ made.buy = buy /\ made.sell = sell
       /\ made.quantity = q /\ made.at = p
  BY <1>9, <1>10 DEF TradeRecords
<1>13. sweep'.trade = made
  BY <1>1, <1>11
<1>14. /\ sweep' \in [stage : {"pay", "deliver"}, todo : {sweep.todo}, trade : TradeRecords]
       /\ sweep'.stage = "pay" => CanAfford(buy.client, q, p, a)
  <2> DEFINE ok == CanAfford(buy.client, q, p, a)
  <2>1. sweep' = [stage |-> IF ok THEN "pay" ELSE "deliver", todo |-> sweep.todo,
                  trade |-> made]
    BY <1>1, <1>11
  <2> HIDE DEF ok, made
  <2>2. sweep' \in [stage : {"pay", "deliver"}, todo : {sweep.todo}, trade : TradeRecords]
    BY <1>12, <2>1
  <2>3. sweep'.stage = "pay" => ok
    BY <2>1
  <2> QED BY <2>2, <2>3 DEF ok
<1> HIDE DEF made
<1> QED BY <1>1, <1>2, <1>3, <1>4, <1>5, <1>6, <1>7, <1>8, <1>9, <1>12, <1>13, <1>14 DEF p

LEMMA MatchTables ==
  ASSUME TablesInv, Match, UNCHANGED <<hand, draw, watch, placed, orphans>>
  PROVE  TablesInv'
<1>1. /\ UNCHANGED <<balance, price, orders, book, mtx>>
      /\ sweep.stage = "match"
  BY DEF Match, store
<1>2. PICK a \in Actions :
        /\ a = Head(sweep.todo) /\ ~Reopening
        /\ \A side \in Sides : book[a][side] # <<>>
  BY MatchFinds
<1>3. PICK trade \in TradeRecords :
        /\ trade = sweep'.trade
        /\ trade.bought = Head(book[a]["BUY"]) /\ trade.buy = orders[trade.bought]
        /\ trade.sold = Head(book[a]["SELL"]) /\ trade.sell = orders[trade.sold]
        /\ trade.quantity <= trade.buy.quantity
        /\ trade.quantity <= trade.sell.quantity
        /\ trade.quantity = trade.buy.quantity \/ trade.quantity = trade.sell.quantity
  BY <1>2, MatchFinds
<1>4. /\ sweep'.stage \in {"pay", "deliver"} /\ sweep'.todo = sweep.todo
      /\ sweep' \in [stage : {"pay", "deliver"}, todo : {sweep.todo}, trade : TradeRecords]
  <2>1. sweep' \in [stage : {"pay", "deliver"}, todo : {sweep.todo}, trade : TradeRecords]
    BY MatchFinds
  <2> QED BY <2>1
<1>5. Having("PENDING")' = Having("PENDING") /\ Having("WAITING")' = Having("WAITING")
  BY <1>1 DEF Having
<1>6. ~Reopening'
  BY <1>4 DEF Reopening
<1>7. ServerTypeOK'
  <2>1. sweep.todo \in Seq(Actions)
    BY DEF TablesInv, ServerTypeOK
  <2>2. sweep' \in [stage : {"none", "match"} \cup Trading, todo : Seq(Actions),
                    trade : TradeRecords \cup {NoTrade}]
    BY <1>4, <2>1 DEF Trading
  <2> QED BY <1>1, <2>2 DEF TablesInv, ServerTypeOK
<1>8. HandsInv'
  BY <1>1 DEF TablesInv, HandsInv, InHand
<1>9. MutexInv'
  BY <1>1, <1>3, <1>4 DEF TablesInv, MutexInv, Trading
<1>10. TradeInv'
  <2>1. /\ trade.bought \in Having("PENDING") /\ trade.buy.side = "BUY" /\ trade.buy.action = a
        /\ trade.sold \in Having("PENDING") /\ trade.sell.side = "SELL" /\ trade.sell.action = a
    <3>1. "BUY" \in Sides /\ "SELL" \in Sides
      BY DEF Sides
    <3>2. \A side \in Sides : /\ Head(book[a][side]) \in Having("PENDING")
                              /\ orders[Head(book[a][side])].side = side
                              /\ orders[Head(book[a][side])].action = a
      BY <1>2, HeadNow
    <3> QED BY <1>3, <3>1, <3>2
  <2>2. Head(sweep'.todo) = a /\ sweep'.trade = trade
    BY <1>2, <1>3, <1>4
  <2> QED BY <1>1, <1>2, <1>3, <1>5, <1>6, <2>1, <2>2 DEF TradeInv
<1>11. BooksInv'
  BY <1>1, <1>2, <1>5, <1>6, BooksStay DEF TablesInv
<1>12. RowsInv'
  BY <1>5 DEF TablesInv, RowsInv
<1>13. CountInv'
  BY <1>1, <1>6, CountStays DEF TablesInv
<1> QED BY <1>7, <1>8, <1>9, <1>10, <1>11, <1>12, <1>13 DEF TablesInv

\* The trade under way, and the book it is of.
LEMMA TradeUnderWay ==
  ASSUME TablesInv, sweep.stage \in Trading
  PROVE  LET trade == sweep.trade
             a == Head(sweep.todo)
         IN  /\ trade \in TradeRecords /\ a \in Actions
             /\ trade.bought \in Ids /\ trade.sold \in Ids
             /\ trade.buy \in Rows /\ trade.sell \in Rows
             /\ trade.quantity \in Nat \ {0} /\ trade.at \in 1 .. MaxNumber - 1
             /\ trade.buy.client \in Clients /\ trade.sell.client \in Clients
             /\ trade.buy.action \in Actions
             /\ 10 * trade.at * trade.quantity \in Nat
<1>1. sweep.trade \in TradeRecords /\ sweep.todo \in Seq(Actions) /\ sweep.todo # <<>>
  BY DEF TablesInv, MutexInv, ServerTypeOK, Trading
<1>2. PICK trade \in TradeRecords : trade = sweep.trade
  BY <1>1
<1>3. /\ trade.bought \in Ids /\ trade.sold \in Ids /\ trade.buy \in Rows /\ trade.sell \in Rows
      /\ trade.quantity \in Nat \ {0} /\ trade.at \in 1 .. MaxNumber - 1
  BY DEF TradeRecords
<1>4. Head(sweep.todo) \in Actions
  BY <1>1
<1>5. /\ trade.buy.client \in Clients /\ trade.sell.client \in Clients
      /\ trade.buy.action \in Actions
  BY <1>3, RowFields
<1>6. 10 * trade.at * trade.quantity \in Nat
  <2>1. 10 * trade.at \in Nat /\ trade.quantity \in Nat
    BY <1>3, StoreAssumption
  <2> QED BY <2>1, ProductIsNatural
<1> QED BY <1>2, <1>3, <1>4, <1>5, <1>6

LEMMA LegTables ==
  ASSUME TablesInv, BuyerPays \/ BuyerReceives \/ SellerIsPaid \/ SellerDelivers,
         UNCHANGED <<hand, draw, watch, placed, orphans>>
  PROVE  TablesInv'
<1>1. /\ UNCHANGED <<orders, book, mtx>>
      /\ sweep.stage \in Trading \ {"reopen"}
  BY DEF BuyerPays, BuyerReceives, SellerIsPaid, SellerDelivers, Trading
<1>2. /\ balance \in [Clients -> Int] /\ price \in [Actions -> 1 .. MaxNumber - 1]
  BY DEF TablesInv, ServerTypeOK
<1>3. PICK trade \in TradeRecords :
        /\ trade = sweep.trade
        /\ trade.quantity \in Nat \ {0} /\ trade.at \in 1 .. MaxNumber - 1
        /\ trade.buy.client \in Clients /\ trade.sell.client \in Clients
        /\ trade.buy.action \in Actions /\ trade.sell.action \in Actions
        /\ 10 * trade.at * trade.quantity \in Nat
  BY <1>1, TradeUnderWay, RowFields
<1>4. /\ balance' \in [Clients -> Int]
      /\ price' \in [Actions -> 1 .. MaxNumber - 1]
      /\ \E next \in Trading \ {"reopen"} : sweep' = [sweep EXCEPT !.stage = next]
  <2>1. CASE BuyerPays
    <3>1. /\ price' = price /\ sweep' = [sweep EXCEPT !.stage = "receive"]
          /\ balance' = [balance EXCEPT ![trade.buy.client] = @ - 10 * trade.at * trade.quantity]
      BY <1>3, <2>1 DEF BuyerPays, Withdraw
    <3>2. balance' \in [Clients -> Int]
      BY <1>2, <1>3, <3>1
    <3> QED BY <1>2, <3>1, <3>2 DEF Trading
  <2>2. CASE BuyerReceives
    <3>1. /\ balance' = balance /\ sweep' = [sweep EXCEPT !.stage = "deliver"]
          /\ price' = [price EXCEPT ![trade.buy.action] = trade.at]
      BY <1>3, <2>2 DEF BuyerReceives, AddShares
    <3> QED BY <1>2, <1>3, <3>1 DEF Trading
  <2>3. CASE SellerIsPaid
    <3>1. /\ price' = price
          /\ \/ sweep' = [sweep EXCEPT !.stage = "remove"]
             \/ sweep' = [sweep EXCEPT !.stage = "close"]
          /\ \/ balance' = balance
             \/ balance' = [balance EXCEPT ![trade.sell.client] =
                              @ + 10 * trade.at * trade.quantity]
      BY <1>3, <2>3 DEF SellerIsPaid, Deposit
    <3>2. balance' \in [Clients -> Int]
      BY <1>2, <1>3, <3>1
    <3> QED BY <1>2, <3>1, <3>2 DEF Trading
  <2>4. CASE SellerDelivers
    <3>1. /\ balance' = balance /\ sweep' = [sweep EXCEPT !.stage = "close"]
          /\ price' = [price EXCEPT ![trade.sell.action] = trade.at]
      BY <1>3, <2>4 DEF SellerDelivers, RemoveShares
    <3> QED BY <1>2, <1>3, <3>1 DEF Trading
  <2> QED BY <2>1, <2>2, <2>3, <2>4
<1> QED BY <1>1, <1>4, TradeStep

\* Both rows leave the tables; the book still holds their ids.
LEMMA CloseTables ==
  ASSUME TablesInv, CloseOrders, UNCHANGED <<hand, draw, watch, placed, orphans>>
  PROVE  TablesInv'
<1>1. /\ UNCHANGED <<balance, price, book, mtx>>
      /\ sweep.stage = "close" /\ sweep.stage \in Trading
      /\ sweep' = [sweep EXCEPT !.stage = "reopen"]
      /\ orders' = WithoutRows({sweep.trade.bought, sweep.trade.sold} \cap Having("PENDING"))
  BY DEF CloseOrders, RemovePendingOrders, Trading
<1>2. ~Reopening
  BY <1>1 DEF Reopening
<1>3. PICK a \in Actions : a = Head(sweep.todo)
  BY <1>1, TradeUnderWay
<1>4. PICK trade \in TradeRecords : trade = sweep.trade
  BY <1>1, TradeUnderWay
<1>5. PICK bought \in Ids : bought = trade.bought
  BY <1>1, <1>4, TradeUnderWay
<1>6. PICK sold \in Ids : sold = trade.sold
  BY <1>1, <1>4, TradeUnderWay
<1>7. /\ \A side \in Sides : book[a][side] # <<>>
      /\ bought = Head(book[a]["BUY"]) /\ sold = Head(book[a]["SELL"])
      /\ trade.buy.side = "BUY" /\ trade.sell.side = "SELL"
      /\ trade.buy.action = a /\ trade.sell.action = a
      /\ trade.quantity <= trade.buy.quantity /\ trade.quantity <= trade.sell.quantity
      /\ trade.quantity = trade.buy.quantity \/ trade.quantity = trade.sell.quantity
      /\ bought \in Having("PENDING") /\ trade.buy = orders[bought]
      /\ sold \in Having("PENDING") /\ trade.sell = orders[sold]
  BY <1>1, <1>2, <1>3, <1>4, <1>5, <1>6 DEF TablesInv, TradeInv
<1>8. bought \in Live(a) /\ sold \in Live(a)
  BY <1>2, <1>7, HeadNow DEF Sides
<1>9. orders' = WithoutRows({bought, sold})
  <2>1. {sweep.trade.bought, sweep.trade.sold} \cap Having("PENDING") = {bought, sold}
    BY <1>4, <1>5, <1>6, <1>7
  <2> QED BY <1>1, <2>1
<1>10. ServerTypeOK
  BY DEF TablesInv
<1>11. /\ DOMAIN orders' = DOMAIN orders \ {bought, sold} /\ DOMAIN orders' \subseteq Ids
       /\ orders' \in [DOMAIN orders' -> Rows]
       /\ \A i \in DOMAIN orders' : orders'[i] = orders[i]
       /\ Having("PENDING")' = Having("PENDING") \ {bought, sold}
       /\ Having("WAITING")' = Having("WAITING") \ {bought, sold}
  BY <1>9, <1>10, RowsRemoved
<1>12. bought \notin Having("WAITING") /\ sold \notin Having("WAITING")
  BY <1>7 DEF Having
<1>13. /\ sweep'.stage = "reopen" /\ sweep'.todo = sweep.todo /\ sweep'.trade = trade
       /\ Reopening'
       /\ sweep' \in [stage : {"none", "match"} \cup Trading, todo : Seq(Actions),
                      trade : TradeRecords \cup {NoTrade}]
  BY <1>1, <1>4 DEF TablesInv, ServerTypeOK, Reopening, Trading
<1>14. ServerTypeOK'
  BY <1>1, <1>11, <1>13 DEF TablesInv, ServerTypeOK
<1>15. HandsInv'
  <2>1. InHand' = InHand
    BY DEF InHand
  <2> QED BY <1>11, <2>1 DEF TablesInv, HandsInv
<1>16. MutexInv'
  BY <1>1, <1>13 DEF TablesInv, MutexInv, Trading
<1>17. TradeInv'
  <2>1. {trade.bought, trade.sold} \cap Having("PENDING")' = {}
    BY <1>5, <1>6, <1>11
  <2>2. Head(sweep'.todo) = a /\ book' = book
    BY <1>1, <1>3, <1>13
  <2> QED BY <1>5, <1>6, <1>7, <1>13, <2>1, <2>2 DEF TradeInv
<1>18. BooksInv'
  <2> SUFFICES ASSUME NEW b \in Actions
               PROVE  /\ ToSet(book[b]["BUY"]) \cup ToSet(book[b]["SELL"])
                           = Live(b)' \cup Closing(b)'
                      /\ \A side \in Sides : Queued(book[b][side], side, b, Known')
    BY <1>1 DEF BooksInv
  <2>1. /\ ToSet(book[b]["BUY"]) \cup ToSet(book[b]["SELL"]) = Live(b)
        /\ \A side \in Sides : /\ book[b][side] \in Seq(Ids)
                               /\ ToSet(book[b][side]) \subseteq Live(b)
                               /\ Queued(book[b][side], side, b, orders)
    BY <1>2, BookNow
  <2>2. Closing(b)' = IF b = a THEN {bought, sold} ELSE {}
    BY <1>3, <1>5, <1>6, <1>13 DEF Closing
  <2>3. Live(b)' = Live(b) \ {bought, sold}
    <3>1. \A i \in Having("PENDING")' : orders'[i] = orders[i]
      BY <1>11 DEF Having
    <3> QED BY <1>11, <3>1 DEF Live, Row
  <2>4. b # a => bought \notin Live(b) /\ sold \notin Live(b)
    BY <1>7 DEF Live, Row
  <2>5. Live(b) = Live(b)' \cup Closing(b)'
    BY <1>8, <2>2, <2>3, <2>4
  <2>6. ASSUME NEW side \in Sides
        PROVE  Queued(book[b][side], side, b, Known')
    <3>1. \A i \in ToSet(book[b][side]) : Known'[i] = orders[i]
      <4>1. ASSUME NEW i \in ToSet(book[b][side])
            PROVE  Known'[i] = orders[i]
        <5>1. i \in Ids /\ i \in DOMAIN orders
          BY <2>1, HavingIs DEF ToSet, Live
        <5>2. Known'[i] = CASE i = bought -> trade.buy
                            [] i = sold -> trade.sell
                            [] OTHER -> orders'[i]
          <6>1. Known'[i] = CASE Reopening' /\ i = sweep'.trade.bought -> sweep'.trade.buy
                              [] Reopening' /\ i = sweep'.trade.sold -> sweep'.trade.sell
                              [] OTHER -> orders'[i]
            BY <5>1 DEF Known
          <6> QED BY <1>5, <1>6, <1>13, <6>1
        <5>3. i # bought /\ i # sold => orders'[i] = orders[i]
          BY <1>11, <5>1
        <5> QED BY <1>7, <5>2, <5>3
      <4> QED BY <4>1
    <3> QED BY <2>1, <3>1, QueuedSame
  <2> QED BY <2>1, <2>5, <2>6
<1>19. RowsInv'
  BY <1>8, <1>11, <1>12 DEF TablesInv, RowsInv, Live
<1>20. CountInv'
  <2> DEFINE used == DOMAIN orders \cup InHand
             later == (DOMAIN orders \cup InHand)'
  <2>1. IsFiniteSet(used) /\ Cardinality(used) \in Nat
    BY <1>10, IdsAreFinite
  <2>2. bought \in used /\ InHand' = InHand /\ bought \notin InHand
    BY <1>7, HavingIs DEF InHand, TablesInv, HandsInv
  <2>3. later \subseteq used \ {bought}
    BY <1>11, <2>2
  <2>4. Cardinality(used) + (IF Reopening THEN 1 ELSE 0) <= placed /\ placed \in Int
    BY DEF TablesInv, CountInv, ServerTypeOK
  <2>5. bought \in used
    BY <2>2
  <2> HIDE DEF used, later
  <2>6. /\ IsFiniteSet(used \ {bought})
        /\ Cardinality(used \ {bought}) = Cardinality(used) - 1
    BY <2>1, <2>5, FS_RemoveElement
  <2>7. IsFiniteSet(later) /\ Cardinality(later) <= Cardinality(used) - 1
    BY <2>3, <2>6, FS_Subset
  <2>8. Cardinality(later) \in Nat
    BY <2>7, FS_CardinalityType
  <2>9. Cardinality(later) + (IF Reopening' THEN 1 ELSE 0) <= placed'
    BY <1>2, <2>1, <2>4, <2>7, <2>8
  <2> QED BY <2>9 DEF CountInv, later
<1> QED BY <1>14, <1>15, <1>16, <1>17, <1>18, <1>19, <1>20 DEF TablesInv

\* What is left of an order is put back where the order was.
LEMMA ReopenTables ==
  ASSUME TablesInv, Reopen(InHand), UNCHANGED <<hand, draw, watch, placed, orphans>>
  PROVE  TablesInv'
<1>1. /\ UNCHANGED <<balance, price, mtx>>
      /\ sweep.stage = "reopen" /\ sweep.stage \in Trading /\ Reopening
      /\ sweep' = [sweep EXCEPT !.stage = "match", !.trade = NoTrade]
  BY DEF Reopen, Trading, Reopening
<1>2. PICK a \in Actions : a = Head(sweep.todo)
  BY <1>1, TradeUnderWay
<1>3. PICK trade \in TradeRecords : /\ trade = sweep.trade /\ trade.quantity \in Nat \ {0}
                                    /\ trade.buy \in Rows /\ trade.sell \in Rows
  BY <1>1, TradeUnderWay
<1>4. PICK bought \in Ids : bought = trade.bought
  BY <1>1, <1>3, TradeUnderWay
<1>5. PICK sold \in Ids : sold = trade.sold
  BY <1>1, <1>3, TradeUnderWay
<1>6. /\ \A side \in Sides : book[a][side] # <<>>
      /\ bought = Head(book[a]["BUY"]) /\ sold = Head(book[a]["SELL"])
      /\ trade.buy.side = "BUY" /\ trade.sell.side = "SELL"
      /\ trade.buy.action = a /\ trade.sell.action = a
      /\ trade.quantity = trade.buy.quantity \/ trade.quantity = trade.sell.quantity
      /\ bought \notin Having("PENDING") /\ sold \notin Having("PENDING")
  BY <1>1, <1>2, <1>3, <1>4, <1>5 DEF TablesInv, TradeInv
<1>7. PICK fresh \in Ids : fresh = NewOrderId(InHand) /\ fresh \notin DOMAIN orders \cup InHand
  BY <1>1, IdIsFree DEF TablesInv
<1>8. PICK left \in [Sides -> Rows] :
        /\ left = [side \in Sides |-> IF side = "BUY" THEN trade.buy ELSE trade.sell]
        /\ left["BUY"] = trade.buy /\ left["SELL"] = trade.sell
  <2> DEFINE l == [side \in Sides |-> IF side = "BUY" THEN trade.buy ELSE trade.sell]
  <2>1. l \in [Sides -> Rows] /\ l["BUY"] = trade.buy /\ l["SELL"] = trade.sell
    BY <1>3 DEF Sides
  <2>2. \E f \in [Sides -> Rows] :
          f = l /\ f["BUY"] = trade.buy /\ f["SELL"] = trade.sell
    <3> HIDE DEF l
    <3> QED BY <2>1
  <2> QED BY <2>2
<1>9. PICK open \in SUBSET Sides :
        open = {side \in Sides : left[side].quantity > trade.quantity}
  OBVIOUS
<1>10. /\ IF open = {} THEN orders' = orders
          ELSE orders' = WithRow(fresh,
                 [[left[CHOOSE side \in open : TRUE] EXCEPT !.quantity = @ - trade.quantity]
                    EXCEPT !.status = "PENDING"])
       /\ book' = [book EXCEPT ![a] = [side \in Sides |->
            IF side \in open THEN <<fresh>> \o Tail(book[a][side]) ELSE Tail(book[a][side])]]
  BY <1>3, <1>6, <1>7, <1>8, <1>9 DEF Reopen, AddPendingOrder
<1>11. open = {} \/ \E side \in Sides : open = {side}
  <2>1. ~(open = Sides)
    <3>1. ~(trade.quantity > trade.quantity)
      BY <1>3
    <3>2. "BUY" \notin open \/ "SELL" \notin open
      BY <1>6, <1>8, <1>9, <3>1
    <3> QED BY <3>2 DEF Sides
  <2> QED BY <2>1 DEF Sides
<1>12. ServerTypeOK
  BY DEF TablesInv
\* the tables, with what is left
<1>13. /\ DOMAIN orders' = IF open = {} THEN DOMAIN orders ELSE DOMAIN orders \cup {fresh}
       /\ DOMAIN orders' \subseteq Ids
       /\ orders' \in [DOMAIN orders' -> Rows]
       /\ \A i \in DOMAIN orders : orders'[i] = orders[i]
       /\ Having("PENDING")' = IF open = {} THEN Having("PENDING")
                                            ELSE Having("PENDING") \cup {fresh}
       /\ Having("WAITING")' = Having("WAITING")
       /\ \A side \in open : /\ orders'[fresh].side = side /\ orders'[fresh].action = a
                             /\ orders'[fresh].price = left[side].price
                             /\ orders'[fresh].stamp = left[side].stamp
  <2>1. CASE open = {}
    <3>1. orders' = orders
      BY <1>10, <2>1
    <3> QED BY <1>12, <2>1, <3>1 DEF ServerTypeOK, Having
  <2>2. CASE open # {}
    <3>1. PICK side \in Sides : open = {side}
      BY <1>11, <2>2
    <3>2. (CHOOSE s \in open : TRUE) = side
      BY <3>1
    <3>3. PICK old \in Rows : old = left[side]
      OBVIOUS
    <3>4. PICK n \in Nat : n = old.quantity - trade.quantity
      <4>1. old.quantity \in Nat /\ old.quantity > trade.quantity
        BY <1>9, <3>1, <3>3, RowFields
      <4> QED BY <1>3, <4>1
    <3>5. PICK row \in Rows :
            /\ row = [[old EXCEPT !.quantity = n] EXCEPT !.status = "PENDING"]
            /\ row.status = "PENDING" /\ row.side = old.side /\ row.action = old.action
            /\ row.price = old.price /\ row.stamp = old.stamp
      BY Restated
    <3>6. orders' = WithRow(fresh, row)
      <4>1. [old EXCEPT !.quantity = @ - trade.quantity] = [old EXCEPT !.quantity = n]
        BY <3>4
      <4>2. orders' = WithRow(fresh,
              [[old EXCEPT !.quantity = @ - trade.quantity] EXCEPT !.status = "PENDING"])
        BY <1>10, <2>2, <3>2, <3>3
      <4> QED BY <3>5, <4>1, <4>2
    <3>7. /\ DOMAIN orders' = DOMAIN orders \cup {fresh} /\ DOMAIN orders' \subseteq Ids
          /\ orders' \in [DOMAIN orders' -> Rows]
          /\ orders'[fresh] = row
          /\ \A i \in DOMAIN orders : orders'[i] = orders[i]
          /\ Having("PENDING")'
               = Having("PENDING") \cup {i \in {fresh} : row.status = "PENDING"}
          /\ Having("WAITING")'
               = Having("WAITING") \cup {i \in {fresh} : row.status = "WAITING"}
      BY <1>7, <1>12, <3>6, RowAdded
    <3>8. row.status = "PENDING"
      BY <3>5
    <3>9. /\ Having("PENDING")' = Having("PENDING") \cup {fresh}
          /\ Having("WAITING")' = Having("WAITING")
      BY <3>7, <3>8
    <3>10. old.side = side /\ old.action = a
      BY <1>6, <1>8, <3>3 DEF Sides
    <3> QED BY <2>2, <3>1, <3>3, <3>5, <3>7, <3>9, <3>10
  <2> QED BY <2>1, <2>2
<1>14. /\ sweep'.stage = "match" /\ sweep'.todo = sweep.todo /\ sweep'.trade = NoTrade
       /\ ~Reopening'
       /\ sweep' \in [stage : {"none", "match"} \cup Trading, todo : Seq(Actions),
                      trade : TradeRecords \cup {NoTrade}]
  BY <1>1, <1>12 DEF ServerTypeOK, Reopening, Trading
\* the book, before and after
<1>15. /\ book \in [Actions -> [Sides -> Seq(Ids)]]
       /\ \A b \in Actions :
            /\ ToSet(book[b]["BUY"]) \cup ToSet(book[b]["SELL"])
                 = Live(b) \cup (IF b = a THEN {bought, sold} ELSE {})
            /\ \A side \in Sides : Queued(book[b][side], side, b, Known)
  <2>1. \A b \in Actions : Closing(b) = IF b = a THEN {bought, sold} ELSE {}
    BY <1>1, <1>2, <1>3, <1>4, <1>5 DEF Closing
  <2> QED BY <1>12, <2>1 DEF TablesInv, BooksInv, ServerTypeOK
<1>16. /\ bought # sold
       /\ bought \in ToSet(book[a]["BUY"]) /\ sold \in ToSet(book[a]["SELL"])
       /\ bought \notin ToSet(book[a]["SELL"]) /\ sold \notin ToSet(book[a]["BUY"])
  <2>1. "BUY" \in Sides /\ "SELL" \in Sides
    BY DEF Sides
  <2>2. \A side \in Sides : Head(book[a][side]) \in ToSet(book[a][side])
    BY <1>6, <1>15, TailOfIds
  <2>3. \A side \in Sides : \A i \in ToSet(book[a][side]) : Known[i].side = side
    BY <1>15 DEF Queued, ToSet
  <2> QED BY <1>6, <2>1, <2>2, <2>3
<1>17. /\ Known[bought] = trade.buy
       /\ Known[sold] = trade.sell
       /\ \A i \in Ids : i # bought /\ i # sold => Known[i] = orders[i]
  <2>1. \A i \in Ids : Known[i] = CASE Reopening /\ i = sweep.trade.bought -> sweep.trade.buy
                                    [] Reopening /\ i = sweep.trade.sold -> sweep.trade.sell
                                    [] OTHER -> orders[i]
    BY DEF Known
  <2>2. \A i \in Ids : Known[i] = CASE i = bought -> trade.buy
                                    [] i = sold -> trade.sell
                                    [] OTHER -> orders[i]
    <3> SUFFICES ASSUME NEW i \in Ids
                 PROVE  Known[i] = CASE i = bought -> trade.buy
                                     [] i = sold -> trade.sell
                                     [] OTHER -> orders[i]
      OBVIOUS
    <3>1. Known[i] = CASE Reopening /\ i = sweep.trade.bought -> sweep.trade.buy
                       [] Reopening /\ i = sweep.trade.sold -> sweep.trade.sell
                       [] OTHER -> orders[i]
      BY <2>1
    <3>2. Reopening /\ sweep.trade.bought = bought /\ sweep.trade.sold = sold
      BY <1>1, <1>3, <1>4, <1>5
    <3>3. sweep.trade.buy = trade.buy /\ sweep.trade.sell = trade.sell
      BY <1>3
    <3> QED BY <3>1, <3>2, <3>3
  <2>3. Known[bought] = trade.buy
    BY <1>16, <2>2
  <2>4. Known[sold] = trade.sell
    BY <1>16, <2>2
  <2>5. \A i \in Ids : i # bought /\ i # sold => Known[i] = orders[i]
    BY <2>2
  <2> QED BY <2>3, <2>4, <2>5
<1>18. \A i \in Ids : Known'[i] = orders'[i]
  BY <1>14 DEF Known
\* one side of the action
<1>19. ASSUME NEW side \in Sides
       PROVE  /\ book'[a][side] \in Seq(Ids)
              /\ Queued(book'[a][side], side, a, Known')
              /\ ToSet(book'[a][side]) =
                   (ToSet(book[a][side]) \ {bought, sold})
                     \cup (IF side \in open THEN {fresh} ELSE {})
  <2>1. PICK ids \in Seq(Ids) : ids = book[a][side]
    BY <1>15
  <2>2. ids # <<>> /\ Queued(ids, side, a, Known)
    BY <1>6, <1>15, <2>1
  <2>3. /\ Tail(ids) \in Seq(Ids)
        /\ Queued(Tail(ids), side, a, Known)
        /\ ToSet(Tail(ids)) = ToSet(ids) \ {Head(ids)}
    <3>1. Tail(ids) \in Seq(Ids)
      BY <2>2, TailOfIds
    <3>2. /\ Queued(Tail(ids), side, a, Known)
          /\ ToSet(Tail(ids)) = ToSet(ids) \ {Head(ids)}
      BY ONLY <2>2, QueuedTail, ids \in Seq(Ids)
    <3> QED BY <3>1, <3>2
  <2>4. ToSet(ids) \ {Head(ids)} = ToSet(ids) \ {bought, sold}
    BY <1>6, <1>16, <2>1 DEF Sides
  <2>5. ToSet(ids) \subseteq Live(a) \cup {bought, sold}
    BY <1>15, <2>1 DEF Sides
  <2>6. ToSet(Tail(ids)) \subseteq DOMAIN orders /\ ToSet(Tail(ids)) \subseteq Ids
    <3>1. Live(a) \subseteq DOMAIN orders
      BY HavingIs DEF Live
    <3> QED BY <1>12, <2>3, <2>4, <2>5, <3>1 DEF ServerTypeOK
  <2>7. fresh \notin ToSet(Tail(ids))
    BY <1>7, <2>6
  <2>8. \A i \in ToSet(Tail(ids)) : Known'[i] = Known[i]
    BY <1>13, <1>17, <1>18, <2>3, <2>4, <2>6
  <2>9. book'[a][side] = IF side \in open THEN <<fresh>> \o Tail(ids) ELSE Tail(ids)
    BY <1>10, <1>15, <2>1
  <2>10. CASE side \notin open
    <3>1. Queued(Tail(ids), side, a, Known')
      BY <2>3, <2>8, QueuedSame
    <3> QED BY <2>1, <2>3, <2>4, <2>9, <2>10, <3>1
  <2>11. CASE side \in open
    <3>1. Known[Head(ids)] = left[side]
      BY <1>6, <1>8, <1>17, <1>16, <2>1 DEF Sides
    <3>2. /\ Known'[fresh] \in Rows
          /\ Known'[fresh].side = side /\ Known'[fresh].action = a
          /\ Known'[fresh].price = Known[Head(ids)].price
          /\ Known'[fresh].stamp = Known[Head(ids)].stamp
      <4>1. fresh \in DOMAIN orders' /\ Known'[fresh] = orders'[fresh]
        BY <1>13, <1>18, <2>11
      <4> QED BY <1>13, <2>11, <3>1, <4>1
    <3>3. /\ <<fresh>> \o Tail(ids) \in Seq(Ids)
          /\ Queued(<<fresh>> \o Tail(ids), side, a, Known')
          /\ ToSet(<<fresh>> \o Tail(ids)) = {fresh} \cup ToSet(Tail(ids))
      BY ONLY <2>2, <2>7, <2>8, <3>2, QueuedFront, ids \in Seq(Ids), fresh \in Ids
    <3> QED BY <2>1, <2>3, <2>4, <2>9, <2>11, <3>3
  <2> QED BY <2>10, <2>11
<1>20. \A b \in Actions \ {a} : book'[b] = book[b]
  BY <1>10, <1>15
<1>21. book' \in [Actions -> [Sides -> Seq(Ids)]]
  <2> DEFINE after == [side \in Sides |->
            IF side \in open THEN <<fresh>> \o Tail(book[a][side]) ELSE Tail(book[a][side])]
  <2>1. book' = [book EXCEPT ![a] = after]
    BY <1>10
  <2>2. \A side \in Sides : after[side] \in Seq(Ids)
    BY <1>15, <1>19, <2>1
  <2>3. after \in [Sides -> Seq(Ids)]
    BY <2>2
  <2> HIDE DEF after
  <2> QED BY <1>15, <2>1, <2>3
<1>22. ServerTypeOK'
  BY <1>1, <1>12, <1>13, <1>14, <1>21 DEF ServerTypeOK
<1>23. InHand' = InHand /\ HandsInv'
  <2>1. InHand' = InHand /\ hand' = hand
    BY DEF InHand
  <2>2. InHand' \cap DOMAIN orders' = {}
    BY <1>7, <1>13, <2>1 DEF TablesInv, HandsInv
  <2> QED BY <2>1, <2>2 DEF TablesInv, HandsInv
<1>24. MutexInv'
  BY <1>1, <1>14 DEF TablesInv, MutexInv, Trading
<1>25. TradeInv'
  BY <1>14 DEF TradeInv, Trading
<1>26. \A b \in Actions :
         Live(b)' = IF b = a /\ open # {} THEN Live(b) \cup {fresh} ELSE Live(b)
  <2> SUFFICES ASSUME NEW b \in Actions
               PROVE  Live(b)' = IF b = a /\ open # {} THEN Live(b) \cup {fresh} ELSE Live(b)
    OBVIOUS
  <2>1. fresh \notin orphans /\ fresh \notin Having("PENDING") /\ orphans' = orphans
    BY <1>7, HavingIs DEF TablesInv, RowsInv
  <2>2. \A i \in Having("PENDING") : orders'[i] = orders[i]
    BY <1>13, HavingIs
  <2>3. open # {} => orders'[fresh].action = a
    BY <1>13
  <2> QED BY <1>13, <2>1, <2>2, <2>3 DEF Live, Row
<1>27. BooksInv'
  <2> SUFFICES ASSUME NEW b \in Actions
               PROVE  /\ ToSet(book'[b]["BUY"]) \cup ToSet(book'[b]["SELL"])
                           = Live(b)' \cup Closing(b)'
                      /\ \A side \in Sides : Queued(book'[b][side], side, b, Known')
    BY DEF BooksInv
  <2>1. Closing(b)' = {}
    BY <1>14 DEF Closing
  <2>2. bought \notin Live(b) /\ sold \notin Live(b)
    BY <1>6 DEF Live
  <2>3. "BUY" \in Sides /\ "SELL" \in Sides /\ Sides = {"BUY", "SELL"}
    BY DEF Sides
  <2>4. CASE b = a
    <3>1. ToSet(book'[a]["BUY"]) \cup ToSet(book'[a]["SELL"])
            = ((ToSet(book[a]["BUY"]) \cup ToSet(book[a]["SELL"])) \ {bought, sold})
                \cup (IF open # {} THEN {fresh} ELSE {})
      <4>1. open # {} <=> "BUY" \in open \/ "SELL" \in open
        BY <2>3
      <4>2. /\ ToSet(book'[a]["BUY"]) = (ToSet(book[a]["BUY"]) \ {bought, sold})
                  \cup (IF "BUY" \in open THEN {fresh} ELSE {})
            /\ ToSet(book'[a]["SELL"]) = (ToSet(book[a]["SELL"]) \ {bought, sold})
                  \cup (IF "SELL" \in open THEN {fresh} ELSE {})
        BY <1>19, <2>3
      <4> QED BY <4>1, <4>2
    <3>2. ToSet(book[a]["BUY"]) \cup ToSet(book[a]["SELL"]) = Live(a) \cup {bought, sold}
      BY <1>15
    <3> QED BY <1>19, <1>26, <2>1, <2>2, <2>4, <3>1, <3>2
  <2>5. CASE b # a
    <3>1. /\ ToSet(book[b]["BUY"]) \cup ToSet(book[b]["SELL"]) = Live(b)
          /\ \A side \in Sides : Queued(book[b][side], side, b, Known)
      BY <1>15, <2>5
    <3>2. ASSUME NEW side \in Sides
          PROVE  Queued(book[b][side], side, b, Known')
      <4>1. book[b][side] \in Seq(Ids)
        BY <1>15
      <4>2. ASSUME NEW i \in ToSet(book[b][side])
            PROVE  Known'[i] = Known[i]
        <5>1. i \in Ids /\ i \in Live(b) /\ i \in DOMAIN orders
          <6>1. ToSet(book[b][side]) \subseteq Live(b)
            BY <2>3, <3>1
          <6>2. Live(b) \subseteq DOMAIN orders
            BY HavingIs DEF Live
          <6> QED BY <1>12, <6>1, <6>2 DEF ServerTypeOK
        <5>2. i # bought /\ i # sold
          BY <2>2, <5>1
        <5> QED BY <1>13, <1>17, <1>18, <5>1, <5>2
      <4> QED BY <3>1, <4>1, <4>2, QueuedSame
    <3> QED BY <1>20, <1>26, <2>1, <2>5, <3>1, <3>2
  <2> QED BY <2>4, <2>5
<1>28. RowsInv'
  BY <1>13 DEF TablesInv, RowsInv
<1>29. CountInv'
  <2> DEFINE used == DOMAIN orders \cup InHand
             later == (DOMAIN orders \cup InHand)'
  <2>1. IsFiniteSet(used) /\ Cardinality(used) \in Nat
    BY <1>12, IdsAreFinite
  <2>2. later \subseteq used \cup {fresh} /\ fresh \notin used
    BY <1>7, <1>13, <1>23
  <2>3. Cardinality(used) + 1 <= placed /\ placed \in Int /\ placed' = placed
    BY <1>1 DEF TablesInv, CountInv, ServerTypeOK
  <2> HIDE DEF used, later
  <2>4. /\ IsFiniteSet(used \cup {fresh})
        /\ Cardinality(used \cup {fresh}) = Cardinality(used) + 1
    BY <2>1, <2>2, FS_AddElement
  <2>5. IsFiniteSet(later) /\ Cardinality(later) <= Cardinality(used) + 1
    BY <2>2, <2>4, FS_Subset
  <2>6. Cardinality(later) \in Nat
    BY <2>5, FS_CardinalityType
  <2>7. Cardinality(later) + (IF Reopening' THEN 1 ELSE 0) <= placed'
    BY <1>14, <2>1, <2>3, <2>5, <2>6
  <2> QED BY <2>7 DEF CountInv, later
<1> QED BY <1>22, <1>23, <1>24, <1>25, <1>27, <1>28, <1>29 DEF TablesInv

-----------------------------------------------------------------------------
\* The tables and the books

LEMMA TablesInit ==
  ASSUME Init
  PROVE  TablesInv
<1>1. /\ balance = InitialBalance /\ price = [a \in Actions |-> InitialPrice]
      /\ orders = [i \in {} |-> 0]
      /\ book = [a \in Actions |-> [side \in Sides |-> <<>>]]
      /\ mtx = Nobody /\ sweep = NoSweep
      /\ hand = [t \in Threads |-> {}] /\ draw = [c \in Connections |-> {}]
      /\ watch = Asleep /\ placed = 0 /\ orphans = {}
  BY DEF Init, StoreInit, CreateTables, AddActions, AddClients, MarketInit
<1>2. DOMAIN orders = {} /\ InHand = {} /\ \A s : Having(s) = {}
  BY <1>1 DEF InHand, Having
<1>3. ServerTypeOK
  <2>1. /\ balance \in [Clients -> Int] /\ price \in [Actions -> 1 .. MaxNumber - 1]
        /\ placed \in 0 .. MaxOrders
    BY <1>1, StoreAssumption
  <2>2. orders \in [DOMAIN orders -> Rows]
    BY <1>1
  <2> QED BY <1>1, <1>2, <2>1, <2>2 DEF ServerTypeOK, NoSweep, Asleep
<1>4. ~Reopening /\ HandsInv /\ MutexInv /\ TradeInv
  BY <1>1, <1>2 DEF Reopening, HandsInv, MutexInv, TradeInv, NoSweep, Trading
<1>5. BooksInv
  <2> SUFFICES ASSUME NEW a \in Actions
               PROVE  /\ ToSet(book[a]["BUY"]) \cup ToSet(book[a]["SELL"])
                           = Live(a) \cup Closing(a)
                      /\ \A side \in Sides : Queued(book[a][side], side, a, Known)
    BY DEF BooksInv
  <2>1. \A side \in Sides : book[a][side] = <<>>
    BY <1>1
  <2>2. Live(a) = {} /\ Closing(a) = {}
    BY <1>2, <1>4 DEF Live, Closing
  <2>3. ToSet(<<>>) = {}
    BY DEF ToSet
  <2>4. \A side \in Sides : Queued(<<>>, side, a, Known)
    BY DEF Queued, IsInjective
  <2> QED BY <2>1, <2>2, <2>3, <2>4 DEF Sides
<1>6. RowsInv
  BY <1>1 DEF RowsInv, Asleep
<1>7. CountInv
  BY <1>1, <1>2, <1>4, FS_EmptySet DEF CountInv
<1> QED BY <1>3, <1>4, <1>5, <1>6, <1>7 DEF TablesInv

LEMMA TablesStep ==
  ASSUME TablesInv, [Next]_vars
  PROVE  TablesInv'
<1>1. CASE UNCHANGED vars
  BY <1>1, PhaseTables
<1>2. ASSUME NEW c \in Connections, Session(c)
      PROVE  TablesInv'
  <2>1. c \in Threads
    BY ThreadsAre
  <2>2. CASE AdmitOrder(c)
    BY <2>2, AdmitTables
  <2>3. CASE Enter(c)
    BY <2>1, <2>3, EnterTables
  <2>4. CASE WaitForTrigger(c)
    BY <2>4, WaitTables
  <2>5. CASE DepositCash(c) \/ CheckWithdrawal(c) \/ WithdrawCash(c)
    BY <2>5, CashTables
  <2> QED BY <1>2, <2>2, <2>3, <2>4, <2>5 DEF Session
<1>3. CASE Watcher
  <2>1. CASE Scan \/ EndScan \/ \E i \in watch.left : KeepWaiting(i)
    BY <2>1, ScanTables
  <2>2. CASE Enter("watcher")
    BY <2>2, ThreadsAre, EnterTables
  <2>3. ASSUME NEW i \in watch.left, Expire(i) \/ Take(i)
        PROVE  TablesInv'
    BY <2>3, LookTables
  <2> QED BY <1>3, <2>1, <2>2, <2>3 DEF Watcher
<1>4. CASE MarketSession
  BY <1>4, FixingTables, PhaseTables DEF MarketSession
<1>5. CASE Sweep
  <2>1. UNCHANGED <<hand, draw, watch, placed, orphans>> /\ SweepStep(InHand)
    BY <1>5 DEF Sweep
  <2>2. CASE Match
    BY <2>1, <2>2, MatchTables
  <2>3. CASE BuyerPays \/ BuyerReceives \/ SellerIsPaid \/ SellerDelivers
    BY <2>1, <2>3, LegTables
  <2>4. CASE CloseOrders
    BY <2>1, <2>4, CloseTables
  <2>5. CASE Reopen(InHand)
    BY <2>1, <2>5, ReopenTables
  <2>6. CASE NextAction
    BY <2>1, <2>6, NextActionTables
  <2> QED BY <2>1, <2>2, <2>3, <2>4, <2>5, <2>6 DEF SweepStep
<1>5a. CASE Exit \/ Crash
  BY <1>5a, DownTables DEF Exit, Crash
<1>6. CASE Play
  BY <1>6, PhaseTables
<1> QED BY <1>1, <1>2, <1>3, <1>4, <1>5, <1>5a, <1>6 DEF Next

\* Types, hands, the mutex, the trade under way, books, rows and counts, whatever the
\* sessions, the watcher, the sweeps and crashes do between the steps of each other.
THEOREM SqlTablesSound == Spec => []TablesInv
<1>1. Init => TablesInv
  BY TablesInit
<1>2. TablesInv /\ [Next]_vars => TablesInv'
  BY TablesStep
<1> QED BY <1>1, <1>2, PTL DEF Spec

\* When nobody holds the mutex of the books, each PENDING row of this process is in
\* exactly one place of the right side of its book, in price-time order, and an order a
\* thread has in hand is in no table and in no other hand (server.cpp, market.cpp).
THEOREM BooksAndRowsAgree == Spec => []BooksMatchRows
<1>1. TablesInv => BooksMatchRows
  <2> SUFFICES ASSUME TablesInv
               PROVE  BooksMatchRows
    OBVIOUS
  <2>1. ASSUME mtx = Nobody, NEW a \in Actions
        PROVE  /\ Live(a) = ToSet(book[a]["BUY"]) \cup ToSet(book[a]["SELL"])
               /\ \A side \in Sides : LET ids == book[a][side] IN
                    /\ IsInjective(ids)
                    /\ \A k \in DOMAIN ids : Row(ids[k]).side = side /\ Row(ids[k]).action = a
                    /\ \A j, k \in DOMAIN ids : j < k => ~Ahead(Row(ids[k]), Row(ids[j]))
    <3>1. ~Reopening
      BY <2>1 DEF TablesInv, MutexInv, Reopening
    <3> QED BY <3>1, BookNow DEF Queued, Row
  <2>2. InHand \cap DOMAIN orders = {}
    BY DEF TablesInv, HandsInv
  <2>3. \A s, t \in Threads : s # t => hand[s] \cap hand[t] = {}
    BY DEF TablesInv, HandsInv
  <2> QED BY <2>1, <2>2, <2>3 DEF BooksMatchRows
<1> QED BY <1>1, SqlTablesSound, PTL

-----------------------------------------------------------------------------
\* Trades and sweeps

\* While a thread sweeps, only its own steps, and the end of the process, change what
\* the sweep is at.
LEMMA SweepIsOfOne ==
  ASSUME TablesInv, [Next]_vars, sweep.stage = "match"
  PROVE  Match \/ NextAction \/ Down \/ sweep' = sweep
<1>1. mtx # Nobody
  BY DEF TablesInv, MutexInv
<1>2. CASE UNCHANGED vars
  BY <1>2 DEF vars, market
<1>3. ASSUME NEW c \in Connections, Session(c)
      PROVE  sweep' = sweep
  BY <1>1, <1>3 DEF Session, AdmitOrder, Enter, AccumulateOrder, WaitForTrigger, DepositCash,
                    CheckWithdrawal, WithdrawCash, market
<1>4. CASE Watcher
  BY <1>1, <1>4 DEF Watcher, Scan, EndScan, Enter, AccumulateOrder, Expire, KeepWaiting, Take,
                    Looks, market
<1>5. CASE MarketSession
  BY <1>1, <1>5 DEF MarketSession, Fixing, ProcessFixing, BeginContinuous, EndContinuous,
                    ShutDown, market
<1>6. CASE Sweep
  <2>1. SweepStep(InHand)
    BY <1>6 DEF Sweep
  <2> QED BY <2>1 DEF SweepStep, BuyerPays, BuyerReceives, SellerIsPaid, SellerDelivers,
                      CloseOrders, Reopen
<1>7. CASE Exit \/ Crash
  BY <1>7 DEF Exit, Crash
<1>8. CASE Play
  BY <1>8 DEF Play, market
<1> QED BY <1>2, <1>3, <1>4, <1>5, <1>6, <1>7, <1>8 DEF Next

\* The best pending buy meets the best pending sell, at a price both accept that is never
\* a placeholder (resolve_execution_price and the loops of process_continuous_trading and
\* process_fixing).
THEOREM SqlTradesAreFair == Spec => TradesAreFair
<1> DEFINE Fair ==
      sweep.stage = "match" /\ sweep'.trade # NoTrade =>
        LET trade == sweep'.trade
            buy == trade.buy
            sell == trade.sell
        IN  /\ \A i \in Live(buy.action) :
                 /\ Row(i).side = "BUY" => ~Ahead(Row(i), buy)
                 /\ Row(i).side = "SELL" => ~Ahead(Row(i), sell)
            /\ trade.at \in 1 .. MaxNumber - 1
            /\ sell.price <= trade.at /\ trade.at <= buy.price
<1>1. TablesInv /\ [Next]_vars => Fair
  <2> SUFFICES ASSUME TablesInv, [Next]_vars, sweep.stage = "match", sweep'.trade # NoTrade
               PROVE  LET trade == sweep'.trade
                          buy == trade.buy
                          sell == trade.sell
                      IN  /\ \A i \in Live(buy.action) :
                               /\ Row(i).side = "BUY" => ~Ahead(Row(i), buy)
                               /\ Row(i).side = "SELL" => ~Ahead(Row(i), sell)
                          /\ trade.at \in 1 .. MaxNumber - 1
                          /\ sell.price <= trade.at /\ trade.at <= buy.price
    OBVIOUS
  <2>1. sweep.trade = NoTrade
    BY DEF TablesInv, MutexInv
  <2>2. ~(sweep' = sweep) /\ ~Down
    BY <2>1 DEF Down, NoSweep
  <2>3. ~NextAction
    <3>1. sweep \in [stage : {"none", "match"} \cup Trading, todo : Seq(Actions),
                     trade : TradeRecords \cup {NoTrade}]
      BY DEF TablesInv, ServerTypeOK
    <3>2. NextAction => sweep'.trade = NoTrade
      BY <2>1, <3>1 DEF NextAction, NoSweep
    <3> QED BY <3>2
  <2>4. Match
    BY <2>2, <2>3, SweepIsOfOne
  <2>5. PICK a \in Actions : /\ a = Head(sweep.todo) /\ ~Reopening
                             /\ \A side \in Sides : book[a][side] # <<>>
    BY <2>4, MatchFinds
  <2>6. PICK trade \in TradeRecords :
          /\ trade = sweep'.trade
          /\ trade.bought = Head(book[a]["BUY"]) /\ trade.buy = orders[trade.bought]
          /\ trade.sold = Head(book[a]["SELL"]) /\ trade.sell = orders[trade.sold]
          /\ trade.at = ResolveExecutionPrice(trade.buy, trade.sell)
          /\ Crosses(trade.buy, trade.sell)
    BY <2>4, <2>5, MatchFinds
  <2>7. PICK buy \in Rows :
          /\ buy = trade.buy /\ buy.side = "BUY" /\ buy.action = a
          /\ \A i \in Live(a) : Row(i).side = "BUY" => ~Ahead(Row(i), buy)
    <3>1. "BUY" \in Sides
      BY DEF Sides
    <3>2. book[a]["BUY"] # <<>> /\ ~Reopening
      BY <2>5, <3>1
    <3>3. /\ orders[Head(book[a]["BUY"])] \in Rows
          /\ orders[Head(book[a]["BUY"])].side = "BUY"
          /\ orders[Head(book[a]["BUY"])].action = a
          /\ \A i \in Live(a) : orders[i].side = "BUY" =>
               ~Ahead(orders[i], orders[Head(book[a]["BUY"])])
      BY <3>1, <3>2, HeadNow
    <3> QED BY <2>6, <3>3 DEF Row
  <2>8. PICK sell \in Rows :
          /\ sell = trade.sell /\ sell.side = "SELL" /\ sell.action = a
          /\ \A i \in Live(a) : Row(i).side = "SELL" => ~Ahead(Row(i), sell)
    <3>1. "SELL" \in Sides
      BY DEF Sides
    <3>2. book[a]["SELL"] # <<>> /\ ~Reopening
      BY <2>5, <3>1
    <3>3. /\ orders[Head(book[a]["SELL"])] \in Rows
          /\ orders[Head(book[a]["SELL"])].side = "SELL"
          /\ orders[Head(book[a]["SELL"])].action = a
          /\ \A i \in Live(a) : orders[i].side = "SELL" =>
               ~Ahead(orders[i], orders[Head(book[a]["SELL"])])
      BY <3>1, <3>2, HeadNow
    <3> QED BY <2>6, <3>3 DEF Row
  <2>9. /\ trade.at \in 1 .. MaxNumber - 1
        /\ sell.price <= trade.at /\ trade.at <= buy.price
    <3>1. price \in [Actions -> 1 .. MaxNumber - 1]
      BY DEF TablesInv, ServerTypeOK
    <3>2. /\ buy.side = "BUY" /\ sell.side = "SELL" /\ Crosses(buy, sell)
          /\ trade.at = ResolveExecutionPrice(buy, sell)
      BY <2>6, <2>7, <2>8
    <3> QED BY <3>1, <3>2, ExecutionPrice
  <2> QED BY <2>6, <2>7, <2>8, <2>9
<1>2. TablesInv /\ [Next]_vars => [Fair]_vars
  BY <1>1
<1>3. Spec => [][Fair]_vars
  <2> HIDE DEF Fair
  <2> QED BY <1>2, SqlTablesSound, PTL DEF Spec
<1> QED BY <1>3 DEF TradesAreFair

\* A sweep leaves an action only when no two of its pending orders could trade, or an
\* order of no quantity stands in the way (the conditions of the loops of
\* process_continuous_trading and process_fixing).
THEOREM SqlSweptIsUncrossed == Spec => SweptIsUncrossed
<1> DEFINE Swept ==
      \A a \in Actions :
        Up /\ Up' /\ sweep.stage = "match" /\ Head(sweep.todo) = a
          /\ (sweep'.stage = "none" \/ sweep'.todo # sweep.todo) =>
        \/ \E i \in Live(a) : Row(i).quantity = 0
        \/ \A i, j \in Live(a) :
             Row(i).side = "BUY" /\ Row(j).side = "SELL" => Row(i).price < Row(j).price
<1>1. TablesInv /\ [Next]_vars => Swept
  <2> SUFFICES ASSUME TablesInv, [Next]_vars, NEW a \in Actions, Up', sweep.stage = "match",
                      Head(sweep.todo) = a,
                      sweep'.stage = "none" \/ sweep'.todo # sweep.todo,
                      ~ \E i \in Live(a) : Row(i).quantity = 0,
                      NEW i \in Live(a), NEW j \in Live(a),
                      Row(i).side = "BUY", Row(j).side = "SELL"
               PROVE  Row(i).price < Row(j).price
    OBVIOUS
  <2>1. NextAction
    <3>1. ~Down
      BY DEF Down, Up
    <3>2. ~(sweep' = sweep)
      OBVIOUS
    <3>3. ~Match
      <4>1. Match => /\ sweep'.stage \in {"pay", "deliver"} /\ sweep'.todo = sweep.todo
        <5>1. Match => sweep' \in [stage : {"pay", "deliver"}, todo : {sweep.todo},
                                   trade : TradeRecords]
          BY MatchFinds
        <5> QED BY <5>1
      <4> QED BY <4>1
    <3> QED BY <3>1, <3>2, <3>3, SweepIsOfOne
  <2>2. ~Tradable(a) /\ ~Reopening
    BY <2>1 DEF NextAction, Reopening
  <2>3. i \in ToSet(book[a]["BUY"]) /\ j \in ToSet(book[a]["SELL"])
    <3>1. "BUY" \in Sides /\ "SELL" \in Sides
      BY DEF Sides
    <3>2. /\ \A k \in ToSet(book[a]["BUY"]) : Row(k).side = "BUY"
          /\ \A k \in ToSet(book[a]["SELL"]) : Row(k).side = "SELL"
      BY <2>2, <3>1, BookNow DEF Queued, ToSet, Row
    <3> QED BY <2>2, <3>2, BookNow
  <2>4. \A side \in Sides : book[a][side] # <<>>
    BY <2>3 DEF ToSet, Sides
  <2>5. PICK buy \in Rows :
          /\ buy = orders[Head(book[a]["BUY"])] /\ buy.side = "BUY" /\ buy.quantity # 0
          /\ ~Ahead(Row(i), buy)
    <3>1. "BUY" \in Sides
      BY DEF Sides
    <3> QED BY <2>2, <2>4, <3>1, HeadNow DEF Row
  <2>6. PICK sell \in Rows :
          /\ sell = orders[Head(book[a]["SELL"])] /\ sell.side = "SELL" /\ sell.quantity # 0
          /\ ~Ahead(Row(j), sell)
    <3>1. "SELL" \in Sides
      BY DEF Sides
    <3> QED BY <2>2, <2>4, <3>1, HeadNow DEF Row
  <2>7. buy.quantity > 0 /\ sell.quantity > 0
    BY <2>5, <2>6, RowFields
  <2>8. ~Crosses(buy, sell)
    BY <2>2, <2>4, <2>5, <2>6, <2>7 DEF Tradable, Sides
  <2>9. Row(i) \in Rows /\ Row(j) \in Rows
    BY HavingIs DEF Live, Row, TablesInv, ServerTypeOK
  <2>10. /\ buy.price \in Int /\ sell.price \in Int
         /\ Row(i).price \in Int /\ Row(j).price \in Int
    BY <2>9, RowFields, StoreAssumption
  <2>11. ~(Row(i).price > buy.price) /\ ~(Row(j).price < sell.price)
    BY <2>5, <2>6 DEF Ahead
  <2> QED BY <2>8, <2>10, <2>11 DEF Crosses
<1>2. TablesInv /\ [Next]_vars => [Swept]_vars
  BY <1>1
<1>3. Spec => [][Swept]_vars
  <2> HIDE DEF Swept
  <2> QED BY <1>2, SqlTablesSound, PTL DEF Spec
<1> QED BY <1>3 DEF SweptIsUncrossed

-----------------------------------------------------------------------------
\* Cash

LEMMA SpendersAreFinite ==
  ASSUME NEW cl
  PROVE  IsFiniteSet(Spenders(cl)) /\ Cardinality(Spenders(cl)) \in Nat
<1>1. IsFiniteSet(Connections \cup {mtx})
  BY ServerAssumption, FS_AddElement
<1>2. Spenders(cl) \subseteq Connections \cup {mtx}
  BY DEF Spenders
<1> QED BY <1>1, <1>2, FS_Subset, FS_CardinalityType

\* Two different threads that are about to take a client's cash are a race for it.
LEMMA OneSpender ==
  ASSUME Contended \subseteq raced, NEW cl \in Clients, cl \notin raced,
         NEW s \in Spenders(cl), NEW t \in Spenders(cl)
  PROVE  s = t
<1> SUFFICES ASSUME s # t PROVE FALSE
  OBVIOUS
<1>1. IsFiniteSet({s}) /\ Cardinality({s}) = 1
  BY FS_Singleton
<1>2. Cardinality({s} \cup {t}) = 2
  <2> DEFINE S == {s}
  <2>1. IsFiniteSet(S) /\ Cardinality(S) = 1 /\ t \notin S
    BY <1>1
  <2> HIDE DEF S
  <2>2. Cardinality(S \cup {t}) = Cardinality(S) + 1
    <3>1. IsFiniteSet(S) /\ t \notin S
      BY <2>1
    <3> QED BY ONLY <3>1, FS_AddElement
  <2>3. Cardinality(S \cup {t}) = 2
    BY ONLY <2>1, <2>2
  <2> QED BY <2>3 DEF S
<1>3. {s} \cup {t} \subseteq Spenders(cl)
  OBVIOUS
<1>4. 2 <= Cardinality(Spenders(cl))
  BY <1>2, <1>3, SpendersAreFinite, FS_Subset
<1>5. Cardinality(Spenders(cl)) > 1
  BY <1>4, SpendersAreFinite
<1> QED BY <1>5 DEF Contended

\* A step that takes no cash and finds none.
LEMMA CashStays ==
  ASSUME TablesInv, CashInv, Contended' \subseteq raced', raced \subseteq raced',
         \A cl \in Clients : balance'[cl] \in Int /\ balance'[cl] >= balance[cl],
         \A c \in Connections :
           /\ draw'[c] \subseteq draw[c]
           /\ hand'[c] = {} \/ (hand'[c] = hand[c]) \/ (draw'[c] = {} /\ mtx' # c)
           /\ mtx' = c => mtx = c \/ (draw'[c] = {} /\ hand'[c] = {}),
         sweep'.stage = "pay" => sweep' = sweep
  PROVE  CashInv'
<1>1. \A cl \in Clients : balance[cl] \in Int
  BY DEF TablesInv, ServerTypeOK
<1>2. \A c \in Connections : Owner[c] \in Clients /\ draw[c] \subseteq Int
  BY ThreadsAre DEF TablesInv, ServerTypeOK
<1>3. ASSUME NEW c \in Connections
      PROVE  /\ hand'[c] = {} \/ draw'[c] = {}
             /\ mtx' = c => draw'[c] = {} /\ hand'[c] = {}
  <2>1. /\ hand[c] = {} \/ draw[c] = {}
        /\ mtx = c => draw[c] = {} /\ hand[c] = {}
    BY DEF CashInv
  <2>2. /\ draw'[c] \subseteq draw[c]
        /\ hand'[c] = {} \/ (hand'[c] = hand[c]) \/ (draw'[c] = {} /\ mtx' # c)
        /\ mtx' = c => mtx = c \/ (draw'[c] = {} /\ hand'[c] = {})
    OBVIOUS
  <2> QED BY ONLY <2>1, <2>2
<1>4. ASSUME NEW c \in Connections, Owner[c] \notin raced', NEW amount \in draw'[c]
      PROVE  10 * amount <= balance'[Owner[c]]
  <2>1. amount \in draw[c] /\ amount \in Int /\ Owner[c] \notin raced
    BY <1>2, <1>4
  <2>2. 10 * amount <= balance[Owner[c]]
    BY <2>1 DEF CashInv
  <2> QED BY <1>1, <1>2, <2>1, <2>2
<1>5. ASSUME sweep'.stage = "pay", sweep'.trade.buy.client \notin raced'
      PROVE  10 * sweep'.trade.at * sweep'.trade.quantity <= balance'[sweep'.trade.buy.client]
  <2>1. sweep' = sweep /\ sweep.stage = "pay" /\ sweep.stage \in Trading
    BY <1>5 DEF Trading
  <2>2. PICK cl \in Clients : cl = sweep.trade.buy.client
    BY <2>1, TradeUnderWay
  <2>3. PICK n \in Nat : n = 10 * sweep.trade.at * sweep.trade.quantity
    BY <2>1, TradeUnderWay
  <2>4. n <= balance[cl]
    BY <1>5, <2>1, <2>2, <2>3 DEF CashInv
  <2>5. n <= balance'[cl]
    BY <1>1, <2>4
  <2> QED BY <2>1, <2>2, <2>3, <2>5
<1>6. UnracedNeverOverdrawn'
  BY <1>1 DEF CashInv, UnracedNeverOverdrawn
<1> QED BY <1>3, <1>4, <1>5, <1>6 DEF CashInv

\* A client's cash goes down by what the one thread that found it takes.
LEMMA CashTaken ==
  ASSUME TablesInv, CashInv, Contended' \subseteq raced', raced \subseteq raced',
         NEW cl \in Clients, NEW n \in Int, NEW t \in Spenders(cl),
         balance' = [balance EXCEPT ![cl] = @ - n],
         cl \notin raced => n <= balance[cl],
         UNCHANGED <<hand, mtx>>,
         \A c \in Connections : draw'[c] \subseteq draw[c] /\ (c = t => draw'[c] = {}),
         sweep'.stage = "pay" => sweep' = sweep /\ t # mtx
  PROVE  CashInv'
<1>1. balance \in [Clients -> Int]
  BY DEF TablesInv, ServerTypeOK
<1>2. /\ balance'[cl] = balance[cl] - n
      /\ \A other \in Clients : other # cl => balance'[other] = balance[other]
      /\ \A other \in Clients : balance[other] \in Int
  BY <1>1
<1>3. \A c \in Connections : Owner[c] \in Clients /\ draw[c] \subseteq Int
  BY ThreadsAre DEF TablesInv, ServerTypeOK
<1>4. ASSUME NEW c \in Connections
      PROVE  /\ hand'[c] = {} \/ draw'[c] = {}
             /\ mtx' = c => draw'[c] = {} /\ hand'[c] = {}
  BY DEF CashInv
<1>5. ASSUME NEW c \in Connections, Owner[c] \notin raced', NEW amount \in draw'[c]
      PROVE  10 * amount <= balance'[Owner[c]]
  <2>1. amount \in draw[c] /\ Owner[c] \notin raced /\ c # t
    BY <1>5
  <2>2. 10 * amount <= balance[Owner[c]]
    BY <2>1 DEF CashInv
  <2>3. Owner[c] # cl
    <3>1. Owner[c] = cl => c \in Spenders(cl)
      BY <2>1 DEF Spenders
    <3> QED BY <2>1, <3>1, OneSpender DEF CashInv
  <2> QED BY <1>2, <1>3, <2>2, <2>3
<1>6. ASSUME sweep'.stage = "pay", sweep'.trade.buy.client \notin raced'
      PROVE  10 * sweep'.trade.at * sweep'.trade.quantity <= balance'[sweep'.trade.buy.client]
  <2>1. sweep' = sweep /\ sweep.stage = "pay" /\ sweep.stage \in Trading /\ t # mtx
    BY <1>6 DEF Trading
  <2>2. PICK other \in Clients : other = sweep.trade.buy.client
    BY <2>1, TradeUnderWay
  <2>3. PICK m \in Nat : m = 10 * sweep.trade.at * sweep.trade.quantity
    BY <2>1, TradeUnderWay
  <2>4. other \notin raced
    BY <1>6, <2>1, <2>2
  <2>5. m <= balance[other]
    BY <2>1, <2>2, <2>3, <2>4 DEF CashInv
  <2>6. other # cl
    <3>1. mtx \in Spenders(other)
      BY <2>1, <2>2 DEF Spenders
    <3> QED BY <2>1, <2>4, <3>1, OneSpender DEF CashInv
  <2>7. m <= balance'[other]
    BY <1>2, <2>5, <2>6
  <2> QED BY <2>1, <2>2, <2>3, <2>7
<1>7. UnracedNeverOverdrawn'
  <2> SUFFICES ASSUME NEW other \in Clients, other \notin raced'
               PROVE  balance'[other] >= 0
    BY DEF UnracedNeverOverdrawn
  <2>1. other \notin raced /\ balance[other] >= 0
    BY DEF CashInv, UnracedNeverOverdrawn
  <2> QED BY <1>2, <2>1
<1> QED BY <1>4, <1>5, <1>6, <1>7 DEF CashInv

\* A draw that was just checked is covered, whoever else is about to draw.
LEMMA CashChecked ==
  ASSUME TablesInv, CashInv, Contended' \subseteq raced', raced \subseteq raced',
         NEW c \in Connections, CheckWithdrawal(c)
  PROVE  CashInv'
<1>1. /\ UNCHANGED <<balance, hand, mtx, sweep>>
      /\ hand[c] = {} /\ mtx # c
  BY DEF CheckWithdrawal, Served, store, market
<1>2. PICK amount \in Amounts[Owner[c]] :
        /\ 10 * amount <= Available(Owner[c])
        /\ draw' = [draw EXCEPT ![c] = {amount}]
  BY DEF CheckWithdrawal
<1>3. /\ Owner[c] \in Clients /\ amount \in Int
      /\ draw \in [Connections -> SUBSET Int] /\ balance \in [Clients -> Int]
  BY ServerAssumption, ThreadsAre DEF TablesInv, ServerTypeOK
<1>4. 10 * amount <= balance[Owner[c]]
  <2>1. Available(Owner[c]) \in Int /\ Available(Owner[c]) <= balance[Owner[c]]
    BY <1>3, AvailableBounded DEF TablesInv
  <2>2. balance[Owner[c]] \in Int
    BY <1>3
  <2> QED BY <1>2, <1>3, <2>1, <2>2
<1>5. \A d \in Connections : draw'[d] = IF d = c THEN {amount} ELSE draw[d]
  BY <1>2, <1>3
<1>6. ASSUME NEW d \in Connections
      PROVE  /\ hand'[d] = {} \/ draw'[d] = {}
             /\ mtx' = d => draw'[d] = {} /\ hand'[d] = {}
             /\ Owner[d] \notin raced' => \A n \in draw'[d] : 10 * n <= balance'[Owner[d]]
  <2>1. /\ hand[d] = {} \/ draw[d] = {}
        /\ mtx = d => draw[d] = {} /\ hand[d] = {}
        /\ Owner[d] \notin raced => \A n \in draw[d] : 10 * n <= balance[Owner[d]]
    BY DEF CashInv
  <2>2. CASE d = c
    BY <1>1, <1>4, <1>5, <2>2
  <2>3. CASE d # c
    BY <1>1, <1>5, <2>1, <2>3
  <2> QED BY <2>2, <2>3
<1>7. ASSUME sweep'.stage = "pay", sweep'.trade.buy.client \notin raced'
      PROVE  10 * sweep'.trade.at * sweep'.trade.quantity <= balance'[sweep'.trade.buy.client]
  BY <1>1, <1>7 DEF CashInv
<1>8. UnracedNeverOverdrawn'
  BY <1>1 DEF CashInv, UnracedNeverOverdrawn
<1> QED BY <1>6, <1>7, <1>8 DEF CashInv

\* So is the trade a sweep goes on to pay for.
LEMMA CashMatched ==
  ASSUME TablesInv, CashInv, Contended' \subseteq raced', raced \subseteq raced',
         Match, UNCHANGED <<hand, draw>>
  PROVE  CashInv'
<1>1. UNCHANGED <<balance, mtx>>
  BY DEF Match, store
<1>2. ASSUME NEW d \in Connections
      PROVE  /\ hand'[d] = {} \/ draw'[d] = {}
             /\ mtx' = d => draw'[d] = {} /\ hand'[d] = {}
             /\ Owner[d] \notin raced' => \A n \in draw'[d] : 10 * n <= balance'[Owner[d]]
  BY <1>1 DEF CashInv
<1>3. ASSUME sweep'.stage = "pay"
      PROVE  10 * sweep'.trade.at * sweep'.trade.quantity <= balance'[sweep'.trade.buy.client]
  <2>1. PICK a \in Actions : a = Head(sweep.todo)
    BY MatchFinds
  <2>2. PICK trade \in TradeRecords :
          /\ trade = sweep'.trade
          /\ CanAfford(trade.buy.client, trade.quantity, trade.at, a)
    BY <1>3, <2>1, MatchFinds
  <2>3. /\ trade.quantity \in Nat /\ trade.at \in 1 .. MaxNumber - 1 /\ trade.buy \in Rows
        /\ MaxNumber \in Nat
    BY StoreAssumption DEF TradeRecords
  <2>4. PICK cl \in Clients : cl = trade.buy.client
    BY <2>3, RowFields
  <2>5. trade.quantity * (10 * trade.at) <= Available(cl)
    <3>1. trade.at # MaxNumber
      BY <2>3
    <3> QED BY <2>2, <2>4, <3>1 DEF CanAfford
  <2>6. trade.quantity * (10 * trade.at) = 10 * trade.at * trade.quantity
    BY <2>3
  <2>7. 10 * trade.at * trade.quantity \in Nat
    <3>1. 10 * trade.at \in Nat
      BY <2>3
    <3> QED BY <2>3, <3>1, ProductIsNatural
  <2>8. /\ Available(cl) \in Int /\ Available(cl) <= balance[cl] /\ balance[cl] \in Int
    BY AvailableBounded DEF TablesInv, ServerTypeOK
  <2>9. 10 * trade.at * trade.quantity <= balance[cl]
    <3> DEFINE n == 10 * trade.at * trade.quantity
    <3>1. n \in Nat /\ n <= Available(cl)
      BY <2>5, <2>6, <2>7
    <3> HIDE DEF n
    <3>2. n <= balance[cl]
      BY <2>8, <3>1
    <3> QED BY <3>2 DEF n
  <2> QED BY <1>1, <2>2, <2>4, <2>9
<1>4. UnracedNeverOverdrawn'
  BY <1>1 DEF CashInv, UnracedNeverOverdrawn
<1> QED BY <1>2, <1>3, <1>4 DEF CashInv

LEMMA CashWithdrawn ==
  ASSUME TablesInv, CashInv, Contended' \subseteq raced', raced \subseteq raced',
         NEW c \in Connections, WithdrawCash(c)
  PROVE  CashInv'
<1>1. /\ UNCHANGED <<hand, mtx, sweep>> /\ draw' = [draw EXCEPT ![c] = {}]
  BY DEF WithdrawCash, market
<1>2. PICK amount \in draw[c] : balance' = [balance EXCEPT ![Owner[c]] = @ - 10 * amount]
  BY DEF WithdrawCash, Withdraw
<1>3. /\ Owner[c] \in Clients /\ amount \in Int
      /\ draw \in [Connections -> SUBSET Int]
  BY ThreadsAre DEF TablesInv, ServerTypeOK
<1>4. PICK cl \in Clients : cl = Owner[c]
  BY <1>3
<1>5. PICK n \in Int : n = 10 * amount
  BY <1>3
<1>6. c \in Spenders(cl) /\ c # mtx
  BY <1>2, <1>4 DEF Spenders, CashInv
<1>7. cl \notin raced => n <= balance[cl]
  BY <1>2, <1>4, <1>5 DEF CashInv
<1>8. \A d \in Connections : draw'[d] \subseteq draw[d] /\ (d = c => draw'[d] = {})
  BY <1>1, <1>3
<1>9. balance' = [balance EXCEPT ![cl] = @ - n]
  BY <1>2, <1>4, <1>5
<1> QED BY <1>1, <1>6, <1>7, <1>8, <1>9, CashTaken

LEMMA CashPaid ==
  ASSUME TablesInv, CashInv, Contended' \subseteq raced', raced \subseteq raced',
         BuyerPays, UNCHANGED <<hand, draw>>
  PROVE  CashInv'
<1>1. /\ mtx' = mtx /\ sweep.stage = "pay" /\ sweep.stage \in Trading
      /\ sweep' = [sweep EXCEPT !.stage = "receive"]
      /\ sweep \in [stage : {"none", "match"} \cup Trading, todo : Seq(Actions),
                    trade : TradeRecords \cup {NoTrade}]
  BY DEF BuyerPays, Trading, TablesInv, ServerTypeOK
<1>2. PICK cl \in Clients : cl = sweep.trade.buy.client
  BY <1>1, TradeUnderWay
<1>3. PICK n \in Nat : n = 10 * sweep.trade.at * sweep.trade.quantity
  BY <1>1, TradeUnderWay
<1>4. balance' = [balance EXCEPT ![cl] = @ - n]
  BY <1>2, <1>3 DEF BuyerPays, Withdraw
<1>5. mtx \in Spenders(cl)
  BY <1>1, <1>2 DEF Spenders
<1>6. cl \notin raced => n <= balance[cl]
  BY <1>1, <1>2, <1>3 DEF CashInv
<1>7. \A d \in Connections : draw'[d] \subseteq draw[d] /\ (d = mtx => draw'[d] = {})
  BY DEF CashInv
<1>8. sweep'.stage # "pay"
  BY <1>1
<1>9. UNCHANGED <<hand, mtx>>
  BY <1>1
<1>10. n \in Int
  OBVIOUS
<1>11. PICK t \in Spenders(cl) : t = mtx
  BY <1>5
<1>12. /\ sweep'.stage = "pay" => sweep' = sweep /\ t # mtx
       /\ \A d \in Connections : draw'[d] \subseteq draw[d] /\ (d = t => draw'[d] = {})
  BY <1>7, <1>8, <1>11
<1> QED
  BY ONLY TablesInv, CashInv, Contended' \subseteq raced', raced \subseteq raced',
          cl \in Clients, t \in Spenders(cl), <1>4, <1>6, <1>9, <1>10, <1>12, CashTaken

LEMMA CashInit ==
  ASSUME Init
  PROVE  CashInv
<1>1. /\ balance = InitialBalance /\ mtx = Nobody /\ sweep = NoSweep
      /\ hand = [t \in Threads |-> {}] /\ draw = [c \in Connections |-> {}]
  BY DEF Init, StoreInit, AddClients, MarketInit
<1>2. sweep.stage = "none"
  BY <1>1 DEF NoSweep
<1>3. \A cl : Spenders(cl) = {}
  BY <1>1, <1>2 DEF Spenders
<1>4. Contended = {}
  <2>1. Cardinality({}) = 0
    BY FS_EmptySet
  <2> QED BY <1>3, <2>1 DEF Contended
<1>5. UnracedNeverOverdrawn
  BY <1>1, StoreAssumption DEF UnracedNeverOverdrawn
<1>6. \A c \in Connections : hand[c] = {} /\ draw[c] = {}
  BY <1>1, ThreadsAre
<1> QED BY <1>2, <1>4, <1>5, <1>6 DEF CashInv

LEMMA CashStep ==
  ASSUME TablesInv, CashInv, [Next]_vars
  PROVE  CashInv'
<1> DEFINE Keeps ==
      /\ \A cl \in Clients : balance'[cl] \in Int /\ balance'[cl] >= balance[cl]
      /\ \A c \in Connections :
           /\ draw'[c] \subseteq draw[c]
           /\ hand'[c] = {} \/ (hand'[c] = hand[c]) \/ (draw'[c] = {} /\ mtx' # c)
           /\ mtx' = c => mtx = c \/ (draw'[c] = {} /\ hand'[c] = {})
      /\ sweep'.stage = "pay" => sweep' = sweep
<1>1. Contended' \subseteq raced' /\ raced \subseteq raced'
  <2>1. CASE Next
    BY <2>1 DEF Next
  <2>2. CASE UNCHANGED vars
    <3>1. Contended' = Contended /\ raced' = raced
      BY <2>2 DEF vars, market, Contended, Spenders
    <3> QED BY <3>1 DEF CashInv
  <2> QED BY <2>1, <2>2
<1>2. Keeps => CashInv'
  BY <1>1, CashStays
<1>3. /\ \A cl \in Clients : balance[cl] \in Int
      /\ balance \in [Clients -> Int]
      /\ hand \in [Threads -> SUBSET Orders] /\ draw \in [Connections -> SUBSET Int]
  BY DEF TablesInv, ServerTypeOK
<1>4. balance' = balance => \A cl \in Clients : balance'[cl] \in Int /\ balance'[cl] >= balance[cl]
  BY <1>3
<1>5. ASSUME NEW c \in Connections, AdmitOrder(c)
      PROVE  CashInv'
  <2>1. /\ UNCHANGED <<balance, draw, mtx, sweep>> /\ draw[c] = {} /\ mtx # c
    BY <1>5 DEF AdmitOrder, Served, store, market
  <2>2. \A d \in Connections : d # c => hand'[d] = hand[d]
    BY <1>3, <1>5, ThreadsAre DEF AdmitOrder
  <2>3. Keeps
    BY <1>4, <2>1, <2>2
  <2> QED BY <1>2, <2>3
<1>6. ASSUME NEW t \in Threads, Enter(t)
      PROVE  CashInv'
  <2>1. UNCHANGED <<balance, draw>> /\ hand' = [hand EXCEPT ![t] = {}] /\ hand[t] # {}
    BY <1>6 DEF Enter
  <2>2. \/ mtx' = t /\ sweep'.stage = "match"
        \/ mtx' = mtx /\ sweep' = sweep
    BY <1>6 DEF Enter, AccumulateOrder, NoSweep
  <2>3. \A d \in Connections : hand'[d] = IF d = t THEN {} ELSE hand[d]
    BY <1>3, <2>1, ThreadsAre
  <2>4. \A d \in Connections : d = t => draw[d] = {}
    BY <2>1 DEF CashInv
  <2>5. Keeps
    BY <1>4, <2>1, <2>2, <2>3, <2>4
  <2> QED BY <1>2, <2>5
<1>7. ASSUME NEW c \in Connections, WaitForTrigger(c)
      PROVE  CashInv'
  <2>1. UNCHANGED <<balance, draw, mtx, sweep>> /\ hand' = [hand EXCEPT ![c] = {}]
    BY <1>7 DEF WaitForTrigger, market
  <2>2. \A d \in Connections : hand'[d] = {} \/ hand'[d] = hand[d]
    BY <1>3, <2>1, ThreadsAre
  <2>3. Keeps
    BY <1>4, <2>1, <2>2
  <2> QED BY <1>2, <2>3
<1>8. ASSUME NEW c \in Connections, DepositCash(c)
      PROVE  CashInv'
  <2>1. UNCHANGED <<hand, draw, mtx, sweep>>
    BY <1>8 DEF DepositCash, market
  <2>2. PICK amount \in Amounts[Owner[c]] : Deposit(Owner[c], 10 * amount)
    BY <1>8 DEF DepositCash
  <2>3. 10 * amount \in Int
    BY ServerAssumption, ThreadsAre
  <2>4. \A cl \in Clients : balance'[cl] \in Int /\ balance'[cl] >= balance[cl]
    BY <1>3, <2>2, <2>3 DEF Deposit
  <2>5. Keeps
    BY <2>1, <2>4
  <2> QED BY <1>2, <2>5
<1>9. ASSUME NEW c \in Connections, Session(c)
      PROVE  CashInv'
  BY <1>1, <1>5, <1>6, <1>7, <1>8, <1>9, CashChecked, CashWithdrawn, ThreadsAre DEF Session
<1>10. CASE Watcher
  <2>1. CASE Scan \/ EndScan \/ \E i \in watch.left : Expire(i) \/ KeepWaiting(i)
    <3>1. UNCHANGED <<balance, draw, mtx, sweep, hand>>
      BY <2>1 DEF Scan, EndScan, Expire, KeepWaiting, Looks, store, market
    <3>2. Keeps
      BY <1>4, <3>1
    <3> QED BY <1>2, <3>2
  <2>2. ASSUME NEW i \in watch.left, Take(i)
        PROVE  CashInv'
    <3>1. UNCHANGED <<balance, draw, mtx, sweep>>
      BY <2>2 DEF Take, Looks, market
    <3>2. \A d \in Connections : hand'[d] = hand[d]
      BY <1>3, <2>2, ThreadsAre DEF Take
    <3>3. Keeps
      BY <1>4, <3>1, <3>2
    <3> QED BY <1>2, <3>3
  <2>3. CASE Enter("watcher")
    BY <1>6, <2>3, ThreadsAre
  <2> QED BY <1>10, <2>1, <2>2, <2>3 DEF Watcher
<1>11. CASE MarketSession
  <2>1. CASE Fixing
    <3>1. UNCHANGED <<balance, hand, draw>> /\ ProcessFixing("market")
      BY <2>1 DEF Fixing, GoTo, store
    <3>2. mtx' = "market" /\ sweep'.stage = "match"
      BY <3>1 DEF ProcessFixing, NoSweep
    <3>3. Keeps
      BY <1>4, <3>1, <3>2, ThreadsAre
    <3> QED BY <1>2, <3>3
  <2>2. CASE BeginContinuous \/ EndContinuous \/ ShutDown
    <3>1. UNCHANGED <<balance, draw, mtx, sweep, hand>>
      BY <2>2 DEF BeginContinuous, EndContinuous, ShutDown, GoTo, store, market
    <3>2. Keeps
      BY <1>4, <3>1
    <3> QED BY <1>2, <3>2
  <2> QED BY <1>11, <2>1, <2>2 DEF MarketSession
<1>12. CASE Sweep
  <2>1. UNCHANGED <<hand, draw>> /\ SweepStep(InHand)
    BY <1>12 DEF Sweep
  <2>2. sweep \in [stage : {"none", "match"} \cup Trading, todo : Seq(Actions),
                   trade : TradeRecords \cup {NoTrade}]
    BY DEF TablesInv, ServerTypeOK
  <2>3. CASE Match
    BY <1>1, <2>1, <2>3, CashMatched
  <2>4. CASE BuyerPays
    BY <1>1, <2>1, <2>4, CashPaid
  <2>5. CASE BuyerReceives \/ SellerDelivers \/ CloseOrders \/ Reopen(InHand)
    <3>1. UNCHANGED <<balance, mtx>> /\ sweep'.stage \in {"deliver", "close", "reopen", "match"}
      BY <2>2, <2>5 DEF BuyerReceives, SellerDelivers, CloseOrders, Reopen
    <3>2. Keeps
      BY <1>4, <2>1, <3>1
    <3> QED BY <1>2, <3>2
  <2>6. CASE SellerIsPaid
    <3>1. /\ mtx' = mtx /\ sweep'.stage \in {"remove", "close"}
          /\ sweep.stage \in Trading
      BY <2>2, <2>6 DEF SellerIsPaid, Trading
    <3>2. PICK cl \in Clients : cl = sweep.trade.sell.client
      BY <3>1, TradeUnderWay
    <3>3. PICK n \in Nat : n = 10 * sweep.trade.at * sweep.trade.quantity
      BY <3>1, TradeUnderWay
    <3>4. balance' = balance \/ balance' = [balance EXCEPT ![cl] = @ + n]
      BY <2>6, <3>2, <3>3 DEF SellerIsPaid, Deposit
    <3>5. \A c \in Clients : balance'[c] \in Int /\ balance'[c] >= balance[c]
      BY <1>3, <3>4
    <3>6. Keeps
      BY <2>1, <3>1, <3>5
    <3> QED BY <1>2, <3>6
  <2>7. CASE NextAction
    <3>1. UNCHANGED balance /\ sweep'.stage \in {"none", "match"} /\ mtx' \in {mtx, Nobody}
      BY <2>2, <2>7 DEF NextAction, NoSweep, store
    <3>2. \A c \in Connections : c # Nobody
      BY ThreadsAre
    <3>3. Keeps
      BY <1>4, <2>1, <3>1, <3>2
    <3> QED BY <1>2, <3>3
  <2> QED BY <2>1, <2>3, <2>4, <2>5, <2>6, <2>7 DEF SweepStep
<1>13. CASE Exit \/ Crash
  <2>1. /\ UNCHANGED balance /\ hand' = [t \in Threads |-> {}]
        /\ draw' = [c \in Connections |-> {}] /\ mtx' = Nobody /\ sweep'.stage = "none"
    BY <1>13 DEF Exit, Crash, Down, store, NoSweep
  <2>2. \A c \in Connections : hand'[c] = {} /\ draw'[c] = {}
    BY <2>1, ThreadsAre
  <2>3. Keeps
    BY <1>4, <2>1, <2>2
  <2> QED BY <1>2, <2>3
<1>14. CASE Play \/ UNCHANGED vars
  <2>1. UNCHANGED <<balance, draw, mtx, sweep, hand>>
    BY <1>14 DEF Play, vars, store, market
  <2>2. Keeps
    BY <1>4, <2>1
  <2> QED BY <1>2, <2>2
<1> HIDE DEF Keeps
<1> QED BY <1>9, <1>10, <1>11, <1>12, <1>13, <1>14 DEF Next

\* A balance goes below zero only if two threads were between finding the cash and
\* taking it for the same client at once (can_afford and then withdraw or
\* update_portfolio): one spender alone never overdraws.
THEOREM SqlUnracedNeverOverdrawn == Spec => []UnracedNeverOverdrawn
<1>1. Init => TablesInv /\ CashInv
  BY TablesInit, CashInit
<1>2. (TablesInv /\ CashInv) /\ [Next]_vars => (TablesInv /\ CashInv)'
  BY TablesStep, CashStep
<1>3. CashInv => UnracedNeverOverdrawn
  BY DEF CashInv
<1> QED BY <1>1, <1>2, <1>3, PTL DEF Spec
=============================================================================
