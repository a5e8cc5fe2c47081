-------------------------- MODULE OrderBookProofs --------------------------
(***************************************************************************)
(* What is proved of OrderBook for every value of its constants: the type  *)
(* invariant, that a resting order is where it belongs, that no book is    *)
(* ever crossed, that every trade honours both limits, that no quantity is *)
(* lost or invented, that trades follow price and time, and that the loop  *)
(* of match() implements AtomicBook.  BookInv is the conjunction of the    *)
(* first four with the facts about the lock's holder and the traders that  *)
(* make them inductive; BookStep is stated of [BookNext]_bookVars so that  *)
(* every module whose steps are steps of the books inherits it.            *)
(***************************************************************************)
EXTENDS AtomicMatching, SequenceTheorems, SumProofs

\* The order that holds a book's lock was handed to that very book.
LockHolder ==
  \A s \in Symbols : taker[s] # NoOrder =>
    taker[s] \in entered /\ order[taker[s]].symbol = s

\* Only orders that were handed to a book trade.
TradersEntered ==
  \A id \in Ids : \A i \in DOMAIN trades[id] :
    id \in entered /\ trades[id][i].maker \in entered

BookInv ==
  /\ BookTypeOK
  /\ LockHolder
  /\ TradersEntered
  /\ RestsWhereItBelongs
  /\ NeverCrossed
  /\ TradesHonourLimits

-----------------------------------------------------------------------------
\* Lemmas about the operators

\* What a change at one place of the books leaves at every place.
LEMMA PlaceUpdate ==
  ASSUME NEW A, NEW B, NEW C, NEW V, NEW f \in [A -> [B -> [C -> V]]],
         NEW a \in A, NEW b \in B, NEW c \in C, NEW v, NEW g, g = [f EXCEPT ![a][b][c] = v]
  PROVE  \A x \in A, y \in B, z \in C :
           g[x][y][z] = IF x = a /\ y = b /\ z = c THEN v ELSE f[x][y][z]
<1> SUFFICES ASSUME NEW x \in A, NEW y \in B, NEW z \in C
             PROVE  g[x][y][z] = IF x = a /\ y = b /\ z = c THEN v ELSE f[x][y][z]
  OBVIOUS
<1>1. CASE x = a
  <2>1. g[x] = [f[x] EXCEPT ![b][c] = v]
    BY <1>1
  <2>2. CASE y = b
    <3>1. g[x][y] = [f[x][y] EXCEPT ![c] = v]
      BY <2>1, <2>2
    <3> QED BY <1>1, <2>2, <3>1
  <2>3. CASE y # b
    BY <2>1, <2>3
  <2> QED BY <2>2, <2>3
<1>2. CASE x # a
  BY <1>2
<1> QED BY <1>1, <1>2

\* Erasing element i of a sequence keeps the others, in their order.
LEMMA RemoveAtProperties ==
  ASSUME NEW S, NEW q \in Seq(S), NEW i \in 1 .. Len(q)
  PROVE  /\ RemoveAt(q, i) \in Seq(S)
         /\ Len(RemoveAt(q, i)) = Len(q) - 1
         /\ \A j \in 1 .. Len(q) - 1 :
              RemoveAt(q, i)[j] = IF j < i THEN q[j] ELSE q[j + 1]
<1> DEFINE a == SubSeq(q, 1, i - 1)
           b == SubSeq(q, i + 1, Len(q))
<1>1. /\ a \in Seq(S)
      /\ Len(a) = i - 1
      /\ \A j \in 1 .. i - 1 : a[j] = q[j]
  BY SMT
<1>2. /\ b \in Seq(S)
      /\ Len(b) = Len(q) - i
      /\ \A j \in 1 .. Len(q) - i : b[j] = q[i + j]
  BY SMT
<1>3. RemoveAt(q, i) = a \o b
  BY DEF RemoveAt
<1> HIDE DEF a, b
<1>4. /\ a \o b \in Seq(S)
      /\ Len(a \o b) = Len(a) + Len(b)
      /\ \A j \in 1 .. Len(a) + Len(b) :
           (a \o b)[j] = IF j <= Len(a) THEN a[j] ELSE b[j - Len(a)]
  BY <1>1, <1>2, ConcatProperties
<1>5. Len(q) \in Nat /\ i \in 1 .. Len(q)
  OBVIOUS
<1>6. Len(a) + Len(b) = Len(q) - 1
  BY <1>1, <1>2, <1>5
<1>7. ASSUME NEW j \in 1 .. Len(q) - 1
      PROVE  (a \o b)[j] = IF j < i THEN q[j] ELSE q[j + 1]
  <2>1. (a \o b)[j] = IF j <= i - 1 THEN a[j] ELSE b[j - (i - 1)]
    BY <1>1, <1>4, <1>6
  <2>2. CASE j < i
    BY <2>1, <2>2, <1>1, <1>5
  <2>3. CASE ~(j < i)
    <3>1. /\ j - (i - 1) \in 1 .. Len(q) - i
          /\ i + (j - (i - 1)) = j + 1
          /\ ~(j <= i - 1)
      BY <2>3, <1>5
    <3>2. b[j - (i - 1)] = q[i + (j - (i - 1))]
      BY <3>1, <1>2
    <3> QED BY <2>1, <2>3, <3>1, <3>2
  <2> QED BY <2>2, <2>3
<1> QED BY <1>3, <1>4, <1>6, <1>7

\* What erasing a found order from a level leaves there.
LEMMA EraseProperties ==
  ASSUME NEW S, NEW q \in Seq(S), NEW id, Contains(q, id)
  PROVE  /\ Erase(q, id) \in Seq(S)
         /\ \A j \in DOMAIN Erase(q, id) : \E k \in DOMAIN q : Erase(q, id)[j] = q[k]
         /\ (\A j, k \in DOMAIN q : q[j] = q[k] => j = k) =>
              \A j, k \in DOMAIN Erase(q, id) :
                 Erase(q, id)[j] = Erase(q, id)[k] => j = k
<1> DEFINE i == CHOOSE i \in DOMAIN q : q[i] = id
           e == RemoveAt(q, i)
<1>1. i \in 1 .. Len(q)
  BY DEF Contains
<1>2. e = Erase(q, id)
  BY DEF Erase
<1> HIDE DEF i
<1>3. /\ e \in Seq(S)
      /\ Len(e) = Len(q) - 1
      /\ \A j \in 1 .. Len(q) - 1 : e[j] = IF j < i THEN q[j] ELSE q[j + 1]
  BY <1>1, RemoveAtProperties
<1>4. DOMAIN q = 1 .. Len(q) /\ Len(q) \in Nat
  OBVIOUS
<1> HIDE DEF e
<1>5. DOMAIN e = 1 .. Len(q) - 1
  BY <1>3
<1>6. ASSUME NEW j \in 1 .. Len(q) - 1
      PROVE  \E k \in 1 .. Len(q) : e[j] = q[k] /\ k = IF j < i THEN j ELSE j + 1
  BY <1>1, <1>3
<1>7. ASSUME \A j, k \in 1 .. Len(q) : q[j] = q[k] => j = k,
             NEW j \in 1 .. Len(q) - 1, NEW k \in 1 .. Len(q) - 1, e[j] = e[k]
      PROVE  j = k
  BY <1>1, <1>3, <1>7
<1> QED BY <1>2, <1>3, <1>4, <1>5, <1>6, <1>7

\* A table of queues stays one when the queue of one level is replaced.
LEMMA FunctionsOfQueues ==
  ASSUME NEW f \in [Symbols -> [Sides -> [Prices -> Seq(Ids)]]],
         NEW g, NEW s \in Symbols, NEW d \in Sides, NEW p, NEW q,
         g = f \/ g = [f EXCEPT ![s][d][p] = q],
         \A t \in Symbols, e \in Sides, r \in Prices : g[t][e][r] \in Seq(Ids)
  PROVE  g \in [Symbols -> [Sides -> [Prices -> Seq(Ids)]]]
<1>1. CASE g = f
  BY <1>1
<1>2. CASE g = [f EXCEPT ![s][d][p] = q]
  <2>1. ASSUME NEW t \in Symbols, NEW e \in Sides
        PROVE  g[t][e] = IF t = s /\ e = d THEN [f[t][e] EXCEPT ![p] = q] ELSE f[t][e]
    BY <1>2
  <2>2. ASSUME NEW t \in Symbols, NEW e \in Sides
        PROVE  g[t][e] \in [Prices -> Seq(Ids)]
    <3>1. f[t][e] \in [Prices -> Seq(Ids)]
      OBVIOUS
    <3>2. \A r \in Prices : g[t][e][r] \in Seq(Ids)
      OBVIOUS
    <3> QED BY <2>1, <3>1, <3>2
  <2>3. ASSUME NEW t \in Symbols
        PROVE  g[t] \in [Sides -> [Prices -> Seq(Ids)]]
    <3>1. g[t] = IF t = s THEN [f[t] EXCEPT ![d] = [@ EXCEPT ![p] = q]] ELSE f[t]
      BY <1>2
    <3>2. DOMAIN g[t] = Sides /\ g[t] = [e \in Sides |-> g[t][e]]
      BY <3>1
    <3> QED BY <2>2, <3>2
  <2> QED BY <1>2, <2>3
<1> QED BY <1>1, <1>2

LEMMA BlankIsRecord == Blank \in OrderRecords
BY BookAssumption DEF Blank

-----------------------------------------------------------------------------
\* Every step keeps BookInv

LEMMA BookInitInv == BookInit => BookInv
<1> SUFFICES ASSUME BookInit PROVE BookInv
  OBVIOUS
<1> USE DEF BookInit
<1>1. BookTypeOK
  BY BookAssumption, BlankIsRecord DEF BookTypeOK, Ids, NoOrder
<1>2. LockHolder /\ TradersEntered
  BY DEF LockHolder, TradersEntered
<1>3. RestsWhereItBelongs /\ NeverCrossed
  BY DEF RestsWhereItBelongs, NeverCrossed, Levels, Sides
<1>4. TradesHonourLimits
  BY DEF TradesHonourLimits
<1> QED BY <1>1, <1>2, <1>3, <1>4 DEF BookInv

LEMMA BuildKeepsBookInv ==
  ASSUME BookInv, NEW o \in OrderRecords, Build(o)
  PROVE  BookInv'
<1> USE BookAssumption DEF BookInv, Build
<1>1. BookTypeOK'
  <2>1. o.quantity \in Nat
    BY DEF OrderRecords
  <2> QED BY <2>1 DEF BookTypeOK, Ids
<1>2. /\ \A id \in entered : id \in Ids /\ id # nextId
      /\ \A id \in Ids : id # nextId => order'[id] = order[id] /\ left'[id] = left[id]
  BY DEF BookTypeOK, Ids
<1>3. LockHolder' /\ TradersEntered'
  BY <1>2 DEF LockHolder, TradersEntered
<1>4. RestsWhereItBelongs'
  BY <1>2 DEF RestsWhereItBelongs, BelongsAt
<1>5. NeverCrossed'
  BY DEF NeverCrossed, Levels
<1>6. TradesHonourLimits'
  <2> SUFFICES ASSUME NEW id \in Ids, NEW i \in DOMAIN trades[id]
               PROVE  HonoursLimits(id, trades[id][i])'
    BY DEF TradesHonourLimits
  <2>1. order'[id] = order[id] /\ order'[trades[id][i].maker] = order[trades[id][i].maker]
    BY <1>2 DEF TradersEntered
  <2> QED BY <2>1 DEF TradesHonourLimits, HonoursLimits, Crosses
<1> QED BY <1>1, <1>3, <1>4, <1>5, <1>6

LEMMA EnterKeepsBookInv ==
  ASSUME BookInv, NEW id \in Ids, Enter(id)
  PROVE  BookInv'
<1> USE BookAssumption DEF BookInv, Enter
<1>1. BookTypeOK'
  BY DEF BookTypeOK, Ids, OrderRecords
<1>2. LockHolder' /\ TradersEntered'
  BY DEF LockHolder, TradersEntered, NoOrder, Ids, BookTypeOK
<1>3. RestsWhereItBelongs'
  BY DEF RestsWhereItBelongs, BelongsAt, BookTypeOK
<1>4. NeverCrossed'
  BY DEF NeverCrossed, Levels
<1>5. TradesHonourLimits'
  BY DEF TradesHonourLimits, HonoursLimits, Crosses
<1> QED BY <1>1, <1>2, <1>3, <1>4, <1>5
\* The order a turn of the loop trades with, and what is traded.
LEMMA MakerFacts ==
  ASSUME BookInv, NEW s \in Symbols, NEW p \in Prices, CanFillAt(s, p)
  PROVE  /\ taker[s] \in Ids /\ taker[s] \in entered /\ order[taker[s]].symbol = s
         /\ MakerSide(s) \in Sides
         /\ queue[s][MakerSide(s)][p] \in Seq(Ids)
         /\ queue[s][MakerSide(s)][p] # <<>>
         /\ MakerAt(s, p) = queue[s][MakerSide(s)][p][1]
         /\ MakerAt(s, p) \in Ids
         /\ BelongsAt(s, MakerSide(s), p, MakerAt(s, p))
         /\ TradedAt(s, p) \in Nat /\ TradedAt(s, p) > 0
         /\ TradedAt(s, p) <= left[taker[s]] /\ TradedAt(s, p) <= left[MakerAt(s, p)]
<1>1. taker[s] \in Ids /\ taker[s] \in entered /\ order[taker[s]].symbol = s
  BY DEF BookInv, CanFillAt, BookTypeOK, LockHolder
<1>2. MakerSide(s) \in Sides
  BY DEF MakerSide, Opposite, Sides
<1>3. queue[s][MakerSide(s)][p] # <<>>
  BY DEF CanFillAt, IsBest, Levels
<1>4. queue[s][MakerSide(s)][p] \in Seq(Ids)
  BY <1>2 DEF BookInv, BookTypeOK
<1>5. /\ MakerAt(s, p) = queue[s][MakerSide(s)][p][1]
      /\ 1 \in DOMAIN queue[s][MakerSide(s)][p]
      /\ MakerAt(s, p) \in Ids
  BY <1>3, <1>4 DEF MakerAt
<1>6. BelongsAt(s, MakerSide(s), p, MakerAt(s, p))
  BY <1>2, <1>5 DEF BookInv, RestsWhereItBelongs
<1>7. /\ left[taker[s]] \in Nat /\ left[MakerAt(s, p)] \in Nat
      /\ left[taker[s]] > 0 /\ left[MakerAt(s, p)] > 0
  BY <1>1, <1>5, <1>6 DEF BookInv, BookTypeOK, CanFillAt, BelongsAt
<1>8. /\ TradedAt(s, p) \in Nat /\ TradedAt(s, p) > 0
      /\ TradedAt(s, p) <= left[taker[s]] /\ TradedAt(s, p) <= left[MakerAt(s, p)]
  BY <1>7 DEF TradedAt, Smaller
<1> QED BY <1>1, <1>2, <1>3, <1>4, <1>5, <1>6, <1>8

\* What a turn of the loop leaves of a level: the same orders, except that the
\* front of the level it trades with goes when nothing is left of it.
LEMMA FillQueues ==
  ASSUME BookInv, NEW s \in Symbols, NEW p \in Prices, FillAt(s, p),
         NEW t \in Symbols, NEW side \in Sides, NEW r \in Prices
  PROVE  /\ queue'[t][side][r] \in Seq(Ids)
         /\ queue'[t][side][r] # <<>> => queue[t][side][r] # <<>>
         /\ \A i \in DOMAIN queue'[t][side][r] :
              /\ queue'[t][side][r][i] # taker[s]
              /\ BelongsAt(t, side, r, queue'[t][side][r][i])
              /\ queue'[t][side][r][i] = MakerAt(s, p) =>
                   left[MakerAt(s, p)] # TradedAt(s, p)
         /\ \A i, j \in DOMAIN queue'[t][side][r] :
              queue'[t][side][r][i] = queue'[t][side][r][j] => i = j
<1> DEFINE q == queue[t][side][r]
           m == MakerAt(s, p)
           gone == left[m] = TradedAt(s, p)
           here == t = s /\ side = MakerSide(s) /\ r = p
<1>1. CanFillAt(s, p)
  BY DEF FillAt
<1>2. q \in Seq(Ids) /\ queue \in [Symbols -> [Sides -> [Prices -> Seq(Ids)]]]
  BY DEF BookInv, BookTypeOK
<1>3. queue'[t][side][r] = IF gone /\ here THEN Tail(q) ELSE q
  <2>1. CASE gone
    <3> DEFINE b == queue[s][MakerSide(s)][p]
    <3>1. queue' = [queue EXCEPT ![s][MakerSide(s)][p] = Tail(b)]
      BY <2>1 DEF FillAt
    <3>2. here => b = q
      OBVIOUS
    <3>3. MakerSide(s) \in Sides
      BY <1>1, MakerFacts
    <3> HIDE DEF b, gone
    <3> QED BY <1>2, <2>1, <3>1, <3>2, <3>3, PlaceUpdate
  <2>2. CASE ~gone
    <3>1. queue' = queue
      BY <2>2 DEF FillAt
    <3> QED BY <2>2, <3>1
  <2> QED BY <2>1, <2>2
<1>4. /\ taker[s] \in Ids /\ order[taker[s]].symbol = s
      /\ m \in Ids /\ m = queue[s][MakerSide(s)][p][1] /\ BelongsAt(s, MakerSide(s), p, m)
      /\ queue[s][MakerSide(s)][p] # <<>>
  BY <1>1, MakerFacts
<1>5. \A i \in DOMAIN q : BelongsAt(t, side, r, q[i])
  BY DEF BookInv, RestsWhereItBelongs
<1>6. \A i, j \in DOMAIN q : q[i] = q[j] => i = j
  BY DEF BookInv, RestsWhereItBelongs
<1>7. \A i \in DOMAIN q : q[i] # taker[s] /\ (q[i] = m => here)
  BY <1>4, <1>5 DEF BelongsAt
<1>8. CASE gone /\ here
  <2>1. q # <<>> /\ queue'[t][side][r] = Tail(q) /\ m = q[1]
    BY <1>3, <1>4, <1>8
  <2>2. /\ Tail(q) \in Seq(Ids)
        /\ Len(Tail(q)) = Len(q) - 1
        /\ \A i \in 1 .. Len(Tail(q)) : Tail(q)[i] = q[i + 1]
    BY <1>2, <2>1, HeadTailProperties
  <2>3. /\ DOMAIN q = 1 .. Len(q) /\ Len(q) \in Nat /\ 1 \in DOMAIN q
        /\ DOMAIN Tail(q) = 1 .. Len(q) - 1
    BY <1>2, <2>1, <2>2
  <2> HIDE DEF q, m
  <2>4. ASSUME NEW i \in 1 .. Len(q) - 1
        PROVE  i + 1 \in DOMAIN q /\ i + 1 # 1 /\ Tail(q)[i] = q[i + 1]
    BY <2>2, <2>3
  <2>5. ASSUME NEW i \in 1 .. Len(q) - 1, NEW j \in 1 .. Len(q) - 1,
               Tail(q)[i] = Tail(q)[j]
        PROVE  i = j
    <3>1. i + 1 = j + 1
      BY <1>6, <2>4, <2>5
    <3> QED BY <3>1
  <2>6. \A i \in 1 .. Len(q) - 1 : Tail(q)[i] # m
    BY <1>6, <2>1, <2>3, <2>4
  <2>7. \A i \in 1 .. Len(q) - 1 :
           BelongsAt(t, side, r, Tail(q)[i]) /\ Tail(q)[i] # taker[s]
    BY <1>5, <1>7, <2>4
  <2> QED BY <2>1, <2>2, <2>3, <2>5, <2>6, <2>7 DEF q, m
<1>9. CASE ~(gone /\ here)
  <2>1. queue'[t][side][r] = q
    BY <1>3, <1>9
  <2> HIDE DEF q
  <2> QED BY <1>2, <1>5, <1>6, <1>7, <1>9, <2>1 DEF q
<1> QED BY <1>8, <1>9

LEMMA FillKeepsBookInv ==
  ASSUME BookInv, NEW s \in Symbols, NEW p \in Prices, FillAt(s, p)
  PROVE  BookInv'
<1> DEFINE id == taker[s]
           m == MakerAt(s, p)
           n == TradedAt(s, p)
           trade == [maker |-> m, quantity |-> n, price |-> p]
<1>1. CanFillAt(s, p)
  BY DEF FillAt
<1>2. /\ id \in Ids /\ id \in entered /\ order[id].symbol = s
      /\ m \in Ids /\ BelongsAt(s, MakerSide(s), p, m)
      /\ n \in Nat /\ n > 0 /\ n <= left[id] /\ n <= left[m]
  BY <1>1, MakerFacts
<1>3. m # id /\ m \in entered
  BY <1>2 DEF BelongsAt
<1>4. UNCHANGED <<nextId, order, entered, taker>>
  BY DEF FillAt
<1>5. /\ left' \in [Ids -> Nat]
      /\ left'[m] = left[m] - n
      /\ \A i \in Ids : i # id /\ i # m => left'[i] = left[i]
  <2>1. left' = [left EXCEPT ![id] = @ - n, ![m] = @ - n]
    BY DEF FillAt, Reduced
  <2>2. left \in [Ids -> Nat]
    BY DEF BookInv, BookTypeOK
  <2> HIDE DEF id, m, n
  <2> QED BY <1>2, <1>3, <2>1, <2>2
<1>6. /\ trade \in Trades
      /\ trades' \in [Ids -> Seq(Trades)]
      /\ \A i \in Ids : trades'[i] = IF i = id THEN Append(trades[i], trade) ELSE trades[i]
  <2>1. trades' = [trades EXCEPT ![id] = Append(@, trade)]
    BY DEF FillAt
  <2>2. trades \in [Ids -> Seq(Trades)]
    BY DEF BookInv, BookTypeOK
  <2> HIDE DEF id, m, n
  <2>3. trade \in Trades
    BY <1>2 DEF Trades
  <2> HIDE DEF trade
  <2> QED BY <1>2, <2>1, <2>2, <2>3
<1>7. ASSUME NEW i \in Ids, NEW k \in DOMAIN trades'[i]
      PROVE  \/ k \in DOMAIN trades[i] /\ trades'[i][k] = trades[i][k]
             \/ i = id /\ trades'[i][k] = trade
  <2> HIDE DEF id, trade
  <2>1. trades[i] \in Seq(Trades)
    BY DEF BookInv, BookTypeOK
  <2>2. CASE i = id
    <3>1. trades'[i] = Append(trades[i], trade)
      BY <1>6, <2>2
    <3>2. /\ Len(Append(trades[i], trade)) = Len(trades[i]) + 1
          /\ \A j \in 1 .. Len(trades[i]) : Append(trades[i], trade)[j] = trades[i][j]
          /\ Append(trades[i], trade)[Len(trades[i]) + 1] = trade
          /\ DOMAIN Append(trades[i], trade) = 1 .. Len(trades[i]) + 1
          /\ DOMAIN trades[i] = 1 .. Len(trades[i]) /\ Len(trades[i]) \in Nat
      BY <1>6, <2>1, AppendProperties
    <3> QED BY <2>2, <3>1, <3>2
  <2>3. CASE i # id
    BY <1>6, <2>3
  <2> QED BY <2>2, <2>3
<1>8. BookTypeOK'
  <2>1. queue' \in [Symbols -> [Sides -> [Prices -> Seq(Ids)]]]
    <3>1. \A t \in Symbols, side \in Sides, r \in Prices :
             queue'[t][side][r] \in Seq(Ids)
      BY FillQueues
    <3>2. queue' = queue \/ queue' = [queue EXCEPT ![s][MakerSide(s)][p] = Tail(@)]
      BY DEF FillAt
    <3>3. queue \in [Symbols -> [Sides -> [Prices -> Seq(Ids)]]]
      BY DEF BookInv, BookTypeOK
    <3>4. MakerSide(s) \in Sides
      BY <1>1, MakerFacts
    <3> QED BY <3>1, <3>2, <3>3, <3>4, FunctionsOfQueues
  <2> QED BY <1>4, <1>5, <1>6, <2>1 DEF BookInv, BookTypeOK, Ids
<1>9. LockHolder' /\ TradersEntered'
  <2>1. LockHolder'
    BY <1>4 DEF BookInv, LockHolder
  <2>2. TradersEntered'
    BY <1>2, <1>3, <1>4, <1>7 DEF BookInv, TradersEntered
  <2> QED BY <2>1, <2>2
<1>10. RestsWhereItBelongs'
  <2>1. ASSUME NEW t \in Symbols, NEW side \in Sides, NEW r \in Prices,
               NEW i \in DOMAIN queue'[t][side][r],
               NEW x, x = queue'[t][side][r][i]
        PROVE  BelongsAt(t, side, r, x)'
    <3>1. x \in Ids /\ x # id /\ BelongsAt(t, side, r, x) /\ (x = m => left[m] # n)
      <4>1. queue'[t][side][r] \in Seq(Ids)
        BY FillQueues
      <4> QED BY <2>1, <4>1, FillQueues
    <3>2. left'[x] > 0
      <4>1. CASE x = m
        BY <1>2, <1>5, <3>1, <4>1 DEF BookInv, BookTypeOK
      <4>2. CASE x # m
        BY <1>5, <3>1, <4>2 DEF BelongsAt
      <4> QED BY <4>1, <4>2
    <3> QED BY <1>4, <3>1, <3>2 DEF BelongsAt
  <2>2. \A t \in Symbols, side \in Sides, r \in Prices :
           \A i \in DOMAIN queue'[t][side][r] : BelongsAt(t, side, r, queue[t][side][r][i])'
    BY <2>1 DEF BelongsAt
  <2> QED BY <2>2, FillQueues DEF RestsWhereItBelongs
<1>11. NeverCrossed'
  <2>1. \A t \in Symbols, side \in Sides : Levels(t, side)' \subseteq Levels(t, side)
    BY FillQueues DEF Levels
  <2> QED BY <2>1 DEF BookInv, NeverCrossed, Sides
<1>12. TradesHonourLimits'
  <2>1. HonoursLimits(id, trade)
    BY <1>1, <1>2, <1>3 DEF HonoursLimits, BelongsAt, CanFillAt, MakerSide
  <2>2. \A i \in Ids : \A k \in DOMAIN trades[i] : HonoursLimits(i, trades[i][k])
    BY DEF BookInv, TradesHonourLimits
  <2>3. ASSUME NEW i \in Ids, NEW k \in DOMAIN trades'[i]
        PROVE  HonoursLimits(i, trades'[i][k])
    BY <1>7, <2>1, <2>2
  <2> QED BY <1>4, <2>3 DEF TradesHonourLimits, HonoursLimits, Crosses
<1> QED BY <1>8, <1>9, <1>10, <1>11, <1>12 DEF BookInv

\* Placing the remainder of the running order at the back of its level.
LEMMA FinishKeepsBookInv ==
  ASSUME BookInv, NEW s \in Symbols, Finish(s)
  PROVE  BookInv'
<1> DEFINE id == taker[s]
           side == order[id].side
           r == order[id].price
           rests == left[id] > 0 /\ order[id].kind # "MARKET"
<1>1. id \in Ids /\ id \in entered /\ order[id].symbol = s /\ order[id] \in OrderRecords
  BY DEF Finish, BookInv, BookTypeOK, LockHolder
<1>2. UNCHANGED <<nextId, order, left, entered, trades>>
  BY DEF Finish
<1>3. /\ taker' \in [Symbols -> Ids \cup {NoOrder}]
      /\ taker'[s] = NoOrder
      /\ \A t \in Symbols : t # s => taker'[t] = taker[t]
  BY DEF Finish, BookInv, BookTypeOK
<1>4. side \in Sides /\ (rests => r \in Prices)
  BY <1>1 DEF OrderRecords
<1>5. ASSUME NEW t \in Symbols, NEW d \in Sides, NEW p \in Prices
      PROVE  queue'[t][d][p] = IF rests /\ t = s /\ d = side /\ p = r
                                 THEN Append(queue[t][d][p], id) ELSE queue[t][d][p]
  BY <1>4 DEF Finish, Rests, Behind, BookInv, BookTypeOK
<1>6. ASSUME NEW t \in Symbols, NEW d \in Sides, NEW p \in Prices
      PROVE  /\ queue'[t][d][p] \in Seq(Ids)
             /\ \A i \in DOMAIN queue'[t][d][p] :
                  \E x : x = queue'[t][d][p][i] /\ BelongsAt(t, d, p, x)'
             /\ \A i, j \in DOMAIN queue'[t][d][p] :
                  queue'[t][d][p][i] = queue'[t][d][p][j] => i = j
  <2> DEFINE q == queue[t][d][p]
  <2>1. q \in Seq(Ids)
    BY DEF BookInv, BookTypeOK
  <2>2. \A i \in DOMAIN q : BelongsAt(t, d, p, q[i])
    BY DEF BookInv, RestsWhereItBelongs
  <2>3. \A i, j \in DOMAIN q : q[i] = q[j] => i = j
    BY DEF BookInv, RestsWhereItBelongs
  <2>4. ASSUME NEW i \in DOMAIN q
        PROVE  q[i] # id /\ \E x : x = q[i] /\ BelongsAt(t, d, p, x)'
    <3> PICK x \in Ids : x = q[i]
      BY <2>1
    <3>1. BelongsAt(t, d, p, x)
      BY <2>2
    <3>2. x # id
      BY <1>1, <3>1 DEF BelongsAt
    <3>3. BelongsAt(t, d, p, x)'
      BY <1>2, <1>3, <3>1 DEF BelongsAt, NoOrder, Ids
    <3> QED BY <3>2, <3>3
  <2>5. CASE rests /\ t = s /\ d = side /\ p = r
    <3>1. queue'[t][d][p] = Append(q, id)
      BY <1>5, <2>5
    <3>2. \E x : x = id /\ BelongsAt(t, d, p, x)'
      <4> PICK x \in Ids : x = id
        BY <1>1
      <4>1. BelongsAt(t, d, p, x)'
        BY <1>1, <1>2, <1>3, <2>5 DEF BelongsAt, NoOrder, Ids
      <4> QED BY <4>1
    <3> HIDE DEF q, id
    <3>3. /\ Append(q, id) \in Seq(Ids)
          /\ Len(Append(q, id)) = Len(q) + 1
          /\ \A i \in 1 .. Len(q) : Append(q, id)[i] = q[i]
          /\ Append(q, id)[Len(q) + 1] = id
      BY <1>1, <2>1, AppendProperties
    <3>4. /\ DOMAIN q = 1 .. Len(q) /\ Len(q) \in Nat
          /\ DOMAIN Append(q, id) = 1 .. Len(q) + 1
      BY <2>1, <3>3
    <3>5. \A i \in 1 .. Len(q) + 1 : i \in 1 .. Len(q) \/ i = Len(q) + 1
      BY <3>4
    <3>6. \A i \in 1 .. Len(q) + 1 :
             \E x : x = Append(q, id)[i] /\ BelongsAt(t, d, p, x)'
      BY <2>4, <3>2, <3>3, <3>4, <3>5
    <3>7. \A i, j \in 1 .. Len(q) + 1 : Append(q, id)[i] = Append(q, id)[j] => i = j
      BY <2>3, <2>4, <3>3, <3>4, <3>5
    <3> QED BY <3>1, <3>3, <3>4, <3>6, <3>7
  <2>6. CASE ~(rests /\ t = s /\ d = side /\ p = r)
    <3>1. queue'[t][d][p] = q
      BY <1>5, <2>6
    <3> HIDE DEF q
    <3> QED BY <2>1, <2>3, <2>4, <3>1
  <2> QED BY <2>5, <2>6
<1>7. BookTypeOK'
  <2>1. queue' \in [Symbols -> [Sides -> [Prices -> Seq(Ids)]]]
    <3>1. queue' = queue \/ queue' = [queue EXCEPT ![s][side][r] = Append(@, id)]
      BY DEF Finish, Behind
    <3>2. queue \in [Symbols -> [Sides -> [Prices -> Seq(Ids)]]]
      BY DEF BookInv, BookTypeOK
    <3>3. \A t \in Symbols, d \in Sides, p \in Prices : queue'[t][d][p] \in Seq(Ids)
      BY <1>6
    <3> HIDE DEF id, side, r
    <3> QED BY <1>4, <3>1, <3>2, <3>3, FunctionsOfQueues
  <2> QED BY <1>2, <1>3, <2>1 DEF BookInv, BookTypeOK, Ids
<1>8. LockHolder' /\ TradersEntered'
  BY <1>2, <1>3 DEF BookInv, LockHolder, TradersEntered
<1>9. RestsWhereItBelongs'
  <2>1. \A t \in Symbols, d \in Sides, p \in Prices :
           \A i \in DOMAIN queue'[t][d][p] : BelongsAt(t, d, p, queue[t][d][p][i])'
    BY <1>6 DEF BelongsAt
  <2> QED BY <1>6, <2>1 DEF RestsWhereItBelongs
<1>10. NeverCrossed'
  <2> SUFFICES ASSUME NEW t \in Symbols, NEW b \in Levels(t, "BUY")',
                      NEW a \in Levels(t, "SELL")'
               PROVE  b < a
    BY DEF NeverCrossed
  <2>1. /\ b \in Prices /\ queue'[t]["BUY"][b] # <<>>
        /\ a \in Prices /\ queue'[t]["SELL"][a] # <<>>
        /\ "BUY" \in Sides /\ "SELL" \in Sides
    BY DEF Levels, Sides
  <2>2. a \in Nat /\ b \in Nat
    BY <2>1, BookAssumption
  <2>3. CASE b \in Levels(t, "BUY") /\ a \in Levels(t, "SELL")
    BY <2>3 DEF BookInv, NeverCrossed
  <2>4. CASE b \notin Levels(t, "BUY")
    <3>1. rests /\ t = s /\ side = "BUY" /\ r = b
      BY <1>5, <2>1, <2>4 DEF Levels
    <3>2. a \in Levels(s, MakerSide(s))
      BY <1>5, <2>1, <3>1 DEF Levels, MakerSide, Opposite
    <3>3. ~Crosses(order[id], a)
      BY <3>1, <3>2 DEF Finish, LoopsEnd, BookInv, BookTypeOK
    <3> QED BY <2>2, <3>1, <3>3 DEF Crosses
  <2>5. CASE a \notin Levels(t, "SELL")
    <3>1. rests /\ t = s /\ side = "SELL" /\ r = a
      BY <1>5, <2>1, <2>5 DEF Levels
    <3>2. b \in Levels(s, MakerSide(s))
      BY <1>5, <2>1, <3>1 DEF Levels, MakerSide, Opposite
    <3>3. ~Crosses(order[id], b)
      BY <3>1, <3>2 DEF Finish, LoopsEnd, BookInv, BookTypeOK
    <3> QED BY <2>2, <3>1, <3>3 DEF Crosses
  <2> QED BY <2>3, <2>4, <2>5
<1>11. TradesHonourLimits'
  BY <1>2 DEF BookInv, TradesHonourLimits, HonoursLimits, Crosses
<1> QED BY <1>7, <1>8, <1>9, <1>10, <1>11 DEF BookInv

LEMMA CancelKeepsBookInv ==
  ASSUME BookInv, NEW s \in Symbols, NEW side \in Sides, NEW p \in Prices,
         NEW id \in Ids, CancelAt(s, side, p, id)
  PROVE  BookInv'
<1>1. UNCHANGED <<nextId, order, left, entered, taker, trades>>
  BY DEF CancelAt
<1>2. queue \in [Symbols -> [Sides -> [Prices -> Seq(Ids)]]]
  BY DEF BookInv, BookTypeOK
<1>3. ASSUME NEW t \in Symbols, NEW d \in Sides, NEW r \in Prices
      PROVE  LET q == queue[t][d][r]
                 e == queue'[t][d][r]
             IN  /\ e \in Seq(Ids)
                 /\ \A j \in DOMAIN e : \E k \in DOMAIN q : e[j] = q[k]
                 /\ \A j, k \in DOMAIN e : e[j] = e[k] => j = k
  <2> DEFINE q == queue[t][d][r]
             here == t = s /\ d = side /\ r = p
  <2>1. queue'[t][d][r] = IF here THEN Erase(q, id) ELSE q
    BY <1>2 DEF CancelAt
  <2>2. q \in Seq(Ids) /\ (here => Contains(q, id))
    BY <1>2 DEF CancelAt, FoundAt
  <2>3. \A j, k \in DOMAIN q : q[j] = q[k] => j = k
    BY DEF BookInv, RestsWhereItBelongs
  <2> HIDE DEF q
  <2>4. CASE here
    BY <2>1, <2>2, <2>3, <2>4, EraseProperties DEF q
  <2>5. CASE ~here
    BY <2>1, <2>2, <2>3, <2>5 DEF q
  <2> QED BY <2>4, <2>5
<1>4. BookTypeOK'
  <2>1. queue' \in [Symbols -> [Sides -> [Prices -> Seq(Ids)]]]
    <3>1. queue' = queue \/ queue' = [queue EXCEPT ![s][side][p] = Erase(@, id)]
      BY DEF CancelAt
    <3>2. \A t \in Symbols, d \in Sides, r \in Prices : queue'[t][d][r] \in Seq(Ids)
      BY <1>3
    <3> QED BY <1>2, <3>1, <3>2, FunctionsOfQueues
  <2> QED BY <1>1, <2>1 DEF BookInv, BookTypeOK, Ids
<1>5. LockHolder' /\ TradersEntered'
  BY <1>1 DEF BookInv, LockHolder, TradersEntered
<1>6. RestsWhereItBelongs'
  <2>1. ASSUME NEW t \in Symbols, NEW d \in Sides, NEW r \in Prices,
               NEW j \in DOMAIN queue'[t][d][r]
        PROVE  BelongsAt(t, d, r, queue'[t][d][r][j])
    BY <1>3 DEF BookInv, RestsWhereItBelongs
  <2>2. \A t \in Symbols, d \in Sides, r \in Prices :
           \A j \in DOMAIN queue'[t][d][r] : BelongsAt(t, d, r, queue[t][d][r][j])'
    BY <1>1, <2>1 DEF BelongsAt
  <2> QED BY <1>3, <2>2 DEF RestsWhereItBelongs
<1>7. NeverCrossed'
  <2>1. \A t \in Symbols, d \in Sides : Levels(t, d)' \subseteq Levels(t, d)
    <3> SUFFICES ASSUME NEW t \in Symbols, NEW d \in Sides, NEW r \in Prices,
                        queue'[t][d][r] # <<>>
                 PROVE  queue[t][d][r] # <<>>
      BY DEF Levels
    <3>1. queue'[t][d][r] \in Seq(Ids) /\ 1 \in DOMAIN queue'[t][d][r]
      BY <1>3
    <3> QED BY <1>3, <3>1
  <2> QED BY <2>1 DEF BookInv, NeverCrossed, Sides
<1>8. TradesHonourLimits'
  BY <1>1 DEF BookInv, TradesHonourLimits, HonoursLimits, Crosses
<1> QED BY <1>4, <1>5, <1>6, <1>7, <1>8 DEF BookInv

\* Every step of the books keeps BookInv.
LEMMA BookStep == BookInv /\ [BookNext]_bookVars => BookInv'
<1> SUFFICES ASSUME BookInv, [BookNext]_bookVars
             PROVE  BookInv'
  OBVIOUS
<1>1. ASSUME NEW o \in OrderRecords, Build(o)
      PROVE  BookInv'
  BY <1>1, BuildKeepsBookInv
<1>2. ASSUME NEW id \in Ids, Enter(id)
      PROVE  BookInv'
  BY <1>2, EnterKeepsBookInv
<1>3. ASSUME NEW s \in Symbols, Fill(s)
      PROVE  BookInv'
  BY <1>3, FillKeepsBookInv DEF Fill
<1>4. ASSUME NEW s \in Symbols, Finish(s)
      PROVE  BookInv'
  BY <1>4, FinishKeepsBookInv
<1>5. ASSUME NEW s \in Symbols, NEW id \in Ids, CancelById(s, id)
      PROVE  BookInv'
  BY <1>5, CancelKeepsBookInv DEF CancelById
<1>6. CASE UNCHANGED bookVars
  <2>1. /\ nextId' = nextId /\ order' = order /\ left' = left /\ entered' = entered
        /\ queue' = queue /\ taker' = taker /\ trades' = trades
    BY <1>6 DEF bookVars
  <2>2. BookTypeOK' /\ LockHolder' /\ TradersEntered'
    BY <2>1 DEF BookInv, BookTypeOK, LockHolder, TradersEntered
  <2>3. RestsWhereItBelongs'
    BY <2>1 DEF BookInv, RestsWhereItBelongs, BelongsAt
  <2>4. NeverCrossed' /\ TradesHonourLimits'
    BY <2>1 DEF BookInv, NeverCrossed, Levels, TradesHonourLimits, HonoursLimits, Crosses
  <2> QED BY <2>2, <2>3, <2>4 DEF BookInv
<1> QED BY <1>1, <1>2, <1>3, <1>4, <1>5, <1>6 DEF BookNext

-----------------------------------------------------------------------------
\* Price-time priority

\* What is left of a level keeps its order.
InOrder(q, e) ==
  \A i, j \in DOMAIN q : \A k, l \in DOMAIN e :
    i < j /\ e[k] = q[i] /\ e[l] = q[j] => k < l

\* Nobody joins a level.
NoneJoins(q, e) == \A k \in DOMAIN e : \E i \in DOMAIN q : e[k] = q[i]

Distinct(q) == \A i, j \in DOMAIN q : q[i] = q[j] => i = j

LEMMA TailKeepsOrder ==
  ASSUME NEW S, NEW q \in Seq(S), q # <<>>, Distinct(q)
  PROVE  InOrder(q, Tail(q)) /\ NoneJoins(q, Tail(q))
<1>1. /\ Tail(q) \in Seq(S)
      /\ Len(Tail(q)) = Len(q) - 1
      /\ \A i \in 1 .. Len(Tail(q)) : Tail(q)[i] = q[i + 1]
  BY HeadTailProperties
<1>2. /\ DOMAIN q = 1 .. Len(q) /\ Len(q) \in Nat
      /\ DOMAIN Tail(q) = 1 .. Len(q) - 1
  BY <1>1
<1>3. \A k \in 1 .. Len(q) - 1 : k + 1 \in 1 .. Len(q) /\ Tail(q)[k] = q[k + 1]
  BY <1>1, <1>2
<1>4. ASSUME NEW i \in DOMAIN q, NEW j \in DOMAIN q,
             NEW k \in DOMAIN Tail(q), NEW l \in DOMAIN Tail(q),
             i < j, Tail(q)[k] = q[i], Tail(q)[l] = q[j]
      PROVE  k < l
  <2>1. k + 1 = i /\ l + 1 = j
    BY <1>2, <1>3, <1>4 DEF Distinct
  <2> QED BY <1>2, <1>4, <2>1
<1> QED BY <1>2, <1>3, <1>4 DEF InOrder, NoneJoins

LEMMA AppendKeepsOrder ==
  ASSUME NEW S, NEW q \in Seq(S), NEW x \in S, Distinct(q), \A i \in DOMAIN q : q[i] # x
  PROVE  InOrder(q, Append(q, x))
<1>1. /\ Len(Append(q, x)) = Len(q) + 1
      /\ \A i \in 1 .. Len(q) : Append(q, x)[i] = q[i]
      /\ Append(q, x)[Len(q) + 1] = x
      /\ DOMAIN Append(q, x) = 1 .. Len(q) + 1
      /\ DOMAIN q = 1 .. Len(q) /\ Len(q) \in Nat
  BY AppendProperties
<1>2. ASSUME NEW k \in DOMAIN Append(q, x), NEW i \in DOMAIN q, Append(q, x)[k] = q[i]
      PROVE  k = i
  <2>1. k # Len(q) + 1
    BY <1>1, <1>2
  <2>2. k \in 1 .. Len(q)
    BY <1>1, <2>1
  <2> QED BY <1>1, <1>2, <2>2 DEF Distinct
<1> QED BY <1>2 DEF InOrder

LEMMA EraseKeepsOrder ==
  ASSUME NEW S, NEW q \in Seq(S), NEW id, Contains(q, id), Distinct(q)
  PROVE  InOrder(q, Erase(q, id)) /\ NoneJoins(q, Erase(q, id))
<1> DEFINE n == CHOOSE i \in DOMAIN q : q[i] = id
           e == RemoveAt(q, n)
<1>1. n \in 1 .. Len(q)
  BY DEF Contains
<1>2. e = Erase(q, id)
  BY DEF Erase
<1> HIDE DEF n
<1>3. /\ e \in Seq(S)
      /\ Len(e) = Len(q) - 1
      /\ \A j \in 1 .. Len(q) - 1 : e[j] = IF j < n THEN q[j] ELSE q[j + 1]
  BY <1>1, RemoveAtProperties
<1>4. DOMAIN q = 1 .. Len(q) /\ Len(q) \in Nat
  OBVIOUS
<1> HIDE DEF e
<1>5. DOMAIN e = 1 .. Len(q) - 1
  BY <1>3
<1>6. ASSUME NEW k \in DOMAIN e, NEW i \in DOMAIN q, e[k] = q[i]
      PROVE  i = IF k < n THEN k ELSE k + 1
  <2> DEFINE h == IF k < n THEN k ELSE k + 1
  <2>1. h \in DOMAIN q /\ e[k] = q[h]
    BY <1>1, <1>3, <1>4, <1>5
  <2> HIDE DEF h
  <2>2. i = h
    BY <1>6, <2>1 DEF Distinct
  <2> QED BY <2>2 DEF h
<1>7. NoneJoins(q, e)
  <2> SUFFICES ASSUME NEW k \in DOMAIN e PROVE \E i \in DOMAIN q : e[k] = q[i]
    BY DEF NoneJoins
  <2>1. k \in 1 .. Len(q) - 1
    BY <1>5
  <2>2. CASE k < n
    <3>1. k \in DOMAIN q /\ e[k] = q[k]
      BY <1>3, <1>4, <2>1, <2>2
    <3> QED BY <3>1
  <2>3. CASE ~(k < n)
    <3>1. k + 1 \in DOMAIN q /\ e[k] = q[k + 1]
      BY <1>3, <1>4, <2>1, <2>3
    <3> QED BY <3>1
  <2> QED BY <2>2, <2>3
<1>8. ASSUME NEW i \in DOMAIN q, NEW j \in DOMAIN q, NEW k \in DOMAIN e, NEW l \in DOMAIN e,
             i < j, e[k] = q[i], e[l] = q[j]
      PROVE  k < l
  <2>1. i = (IF k < n THEN k ELSE k + 1) /\ j = (IF l < n THEN l ELSE l + 1)
    BY <1>6, <1>8
  <2> QED BY <1>1, <1>4, <1>5, <1>8, <2>1
<1> QED BY <1>2, <1>7, <1>8 DEF InOrder

LEMMA SameKeepsOrder ==
  ASSUME NEW S, NEW q \in Seq(S), Distinct(q)
  PROVE  InOrder(q, q) /\ NoneJoins(q, q)
BY DEF InOrder, NoneJoins, Distinct

\* An order found at a level belongs there.
LEMMA FoundBelongs ==
  ASSUME BookInv, NEW s \in Symbols, NEW side \in Sides, NEW p \in Prices,
         NEW id, FoundAt(s, side, p, id)
  PROVE  /\ queue[s][side][p] \in Seq(Ids)
         /\ \E i \in DOMAIN queue[s][side][p] : queue[s][side][p][i] = id
         /\ id \in Ids /\ BelongsAt(s, side, p, id)
<1>1. queue[s][side][p] \in Seq(Ids)
  BY DEF BookInv, BookTypeOK
<1>2. PICK i \in DOMAIN queue[s][side][p] : queue[s][side][p][i] = id
  BY <1>1 DEF FoundAt, Contains
<1> QED BY <1>1, <1>2 DEF BookInv, RestsWhereItBelongs

LEMMA LevelsAreDistinct ==
  ASSUME BookInv, NEW s \in Symbols, NEW side \in Sides, NEW p \in Prices
  PROVE  queue[s][side][p] \in Seq(Ids) /\ Distinct(queue[s][side][p])
BY DEF BookInv, BookTypeOK, RestsWhereItBelongs, Distinct

\* The levels of every book keep their order in a step, and nobody joins them.
LevelsInOrder ==
  \A s \in Symbols, side \in Sides, p \in Prices :
    InOrder(queue[s][side][p], queue'[s][side][p])

NobodyJoins ==
  \A s \in Symbols, side \in Sides, p \in Prices :
    NoneJoins(queue[s][side][p], queue'[s][side][p])

LEMMA FillKeepsLevels ==
  ASSUME BookInv, NEW s \in Symbols, NEW p \in Prices, FillAt(s, p)
  PROVE  LevelsInOrder /\ NobodyJoins
<1> SUFFICES ASSUME NEW t \in Symbols, NEW d \in Sides, NEW r \in Prices
             PROVE  /\ InOrder(queue[t][d][r], queue'[t][d][r])
                    /\ NoneJoins(queue[t][d][r], queue'[t][d][r])
  BY DEF LevelsInOrder, NobodyJoins
<1> DEFINE q == queue[t][d][r]
<1>1. CanFillAt(s, p)
  BY DEF FillAt
<1>2. queue \in [Symbols -> [Sides -> [Prices -> Seq(Ids)]]]
  BY DEF BookInv, BookTypeOK
<1>3. q \in Seq(Ids) /\ Distinct(q)
  BY LevelsAreDistinct
<1>4. queue[s][MakerSide(s)][p] # <<>>
  BY <1>1, MakerFacts
<1>5. queue'[t][d][r] = q \/ (q # <<>> /\ queue'[t][d][r] = Tail(q))
  BY <1>2, <1>4 DEF FillAt
<1> HIDE DEF q
<1>6. CASE queue'[t][d][r] = q
  BY <1>3, <1>6, SameKeepsOrder DEF q
<1>7. CASE q # <<>> /\ queue'[t][d][r] = Tail(q)
  BY <1>3, <1>7, TailKeepsOrder DEF q
<1> QED BY <1>5, <1>6, <1>7

\* The order that starts to rest goes behind everyone at its level.
LEMMA FinishKeepsLevels ==
  ASSUME BookInv, NEW s \in Symbols, Finish(s)
  PROVE  /\ LevelsInOrder
         /\ \A t \in Symbols, d \in Sides, r \in Prices :
              /\ \A i \in DOMAIN queue[t][d][r] :
                   i \in DOMAIN queue'[t][d][r] /\ queue'[t][d][r][i] = queue[t][d][r][i]
              /\ \A k \in DOMAIN queue'[t][d][r] :
                   \/ \E i \in DOMAIN queue[t][d][r] : queue'[t][d][r][k] = queue[t][d][r][i]
                   \/ \A i \in DOMAIN queue[t][d][r] : i < k
<1> DEFINE id == taker[s]
<1>1. id \in Ids /\ id \in entered /\ order[id].symbol = s
  BY DEF Finish, BookInv, BookTypeOK, LockHolder
<1>2. ASSUME NEW t \in Symbols, NEW d \in Sides, NEW r \in Prices
      PROVE  \/ queue'[t][d][r] = queue[t][d][r]
             \/ queue'[t][d][r] = Append(queue[t][d][r], id) /\ t = s
  <2>1. queue \in [Symbols -> [Sides -> [Prices -> Seq(Ids)]]]
    BY DEF BookInv, BookTypeOK
  <2>2. \/ queue' = queue
        \/ queue' = [queue EXCEPT ![s][order[id].side][order[id].price] = Append(@, id)]
    BY DEF Finish, Behind
  <2> DEFINE side == order[id].side
             price == order[id].price
  <2>3. side \in Sides
    BY <1>1 DEF BookInv, BookTypeOK, OrderRecords
  <2>4. queue' = queue \/ queue' = [queue EXCEPT ![s][side][price] = Append(@, id)]
    BY <2>2
  <2>5. CASE queue' = [queue EXCEPT ![s][side][price] = Append(@, id)]
    <3> DEFINE new == Append(queue[s][side][price], id)
    <3>1. queue' = [queue EXCEPT ![s][side][price] = new]
      BY <2>5
    <3> HIDE DEF id, side, price, new
    <3>2. queue'[t] = IF t = s THEN [queue[t] EXCEPT ![side][price] = new] ELSE queue[t]
      BY <2>1, <3>1
    <3>3. queue'[t][d] = IF t = s /\ d = side
                           THEN [queue[t][d] EXCEPT ![price] = new] ELSE queue[t][d]
      BY <2>1, <2>3, <3>2
    <3>4. queue'[t][d][r] = IF t = s /\ d = side /\ r = price
                              THEN new ELSE queue[t][d][r]
      BY <2>1, <3>3
    <3> QED BY <3>4 DEF new
  <2> QED BY <2>4, <2>5
<1>3. ASSUME NEW t \in Symbols, NEW d \in Sides, NEW r \in Prices
      PROVE  /\ InOrder(queue[t][d][r], queue'[t][d][r])
             /\ \A i \in DOMAIN queue[t][d][r] :
                  i \in DOMAIN queue'[t][d][r] /\ queue'[t][d][r][i] = queue[t][d][r][i]
             /\ \A k \in DOMAIN queue'[t][d][r] :
                  \/ \E i \in DOMAIN queue[t][d][r] : queue'[t][d][r][k] = queue[t][d][r][i]
                  \/ \A i \in DOMAIN queue[t][d][r] : i < k
  <2> DEFINE q == queue[t][d][r]
             e == queue'[t][d][r]
  <2>1. q \in Seq(Ids) /\ Distinct(q)
    BY LevelsAreDistinct
  <2>2. e = q \/ (e = Append(q, id) /\ t = s)
    BY <1>2
  <2>3. t = s => \A i \in DOMAIN q : q[i] # id
    BY <1>1 DEF BookInv, RestsWhereItBelongs, BelongsAt
  <2>4. DOMAIN q = 1 .. Len(q) /\ Len(q) \in Nat
    BY <2>1
  <2> HIDE DEF q, e, id
  <2>5. CASE e = q
    <3>1. InOrder(q, q)
      BY <2>1, SameKeepsOrder
    <3> QED BY <2>5, <3>1 DEF q, e
  <2>6. CASE e = Append(q, id) /\ t = s
    <3>1. InOrder(q, Append(q, id))
      BY <1>1, <2>1, <2>3, <2>6, AppendKeepsOrder
    <3>2. /\ DOMAIN e = 1 .. Len(q) + 1
          /\ \A i \in 1 .. Len(q) : e[i] = q[i]
      BY <1>1, <2>1, <2>6, AppendProperties
    <3>3. \A k \in DOMAIN e : k \in 1 .. Len(q) \/ k = Len(q) + 1
      BY <2>4, <3>2
    <3>4. \A k \in DOMAIN e : \/ \E i \in DOMAIN q : e[k] = q[i]
                              \/ \A i \in DOMAIN q : i < k
      BY <2>4, <3>2, <3>3
    <3>5. \A i \in DOMAIN q : i \in DOMAIN e /\ e[i] = q[i]
      BY <2>4, <3>2
    <3> QED BY <2>6, <3>1, <3>4, <3>5 DEF q, e
  <2> QED BY <2>2, <2>5, <2>6
<1> QED BY <1>3 DEF LevelsInOrder

LEMMA CancelKeepsLevels ==
  ASSUME BookInv, NEW s \in Symbols, NEW side \in Sides, NEW p \in Prices,
         NEW id \in Ids, CancelAt(s, side, p, id)
  PROVE  LevelsInOrder /\ NobodyJoins
<1> SUFFICES ASSUME NEW t \in Symbols, NEW d \in Sides, NEW r \in Prices
             PROVE  /\ InOrder(queue[t][d][r], queue'[t][d][r])
                    /\ NoneJoins(queue[t][d][r], queue'[t][d][r])
  BY DEF LevelsInOrder, NobodyJoins
<1> DEFINE q == queue[t][d][r]
<1>1. queue \in [Symbols -> [Sides -> [Prices -> Seq(Ids)]]]
  BY DEF BookInv, BookTypeOK
<1>2. q \in Seq(Ids) /\ Distinct(q)
  BY LevelsAreDistinct
<1>3. queue'[t][d][r] = q \/ (Contains(q, id) /\ queue'[t][d][r] = Erase(q, id))
  BY <1>1 DEF CancelAt, FoundAt
<1> HIDE DEF q
<1>4. CASE queue'[t][d][r] = q
  BY <1>2, <1>4, SameKeepsOrder DEF q
<1>5. CASE Contains(q, id) /\ queue'[t][d][r] = Erase(q, id)
  BY <1>2, <1>5, EraseKeepsOrder DEF q
<1> QED BY <1>3, <1>4, <1>5

LEMMA QuietKeepsLevels ==
  ASSUME BookInv, UNCHANGED queue
  PROVE  LevelsInOrder /\ NobodyJoins
<1>1. ASSUME NEW t \in Symbols, NEW d \in Sides, NEW r \in Prices
      PROVE  /\ InOrder(queue[t][d][r], queue[t][d][r])
             /\ NoneJoins(queue[t][d][r], queue[t][d][r])
  BY LevelsAreDistinct, SameKeepsOrder
<1> QED BY <1>1 DEF LevelsInOrder, NobodyJoins

\* Two orders that rest before and after a step whose levels keep their order
\* keep their priority: where an order rests is fixed by its own fields.
LEMMA PriorityLasts ==
  ASSUME BookInv, BookInv', LevelsInOrder, \A id \in entered : order'[id] = order[id],
         NEW a \in Ids, NEW b \in Ids, Before(a, b), Resting(a)', Resting(b)'
  PROVE  Before(a, b)'
<1>1. ASSUME NEW s \in Symbols, NEW side \in Sides, NEW p \in Prices, NEW id \in Ids,
             FoundAt(s, side, p, id), Resting(id)'
      PROVE  FoundAt(s, side, p, id)'
  <2>1. BelongsAt(s, side, p, id)
    BY <1>1, FoundBelongs
  <2>2. PICK t \in Symbols, d \in Sides, r \in Prices : FoundAt(t, d, r, id)'
    BY <1>1 DEF Resting
  <2>3. queue'[t][d][r] \in Seq(Ids)
    BY DEF BookInv, BookTypeOK
  <2>4. PICK k \in DOMAIN queue'[t][d][r] : queue'[t][d][r][k] = id
    BY <2>2, <2>3 DEF FoundAt, Contains
  <2>5. order'[id].symbol = t /\ order'[id].side = d /\ order'[id].price = r
    BY <2>4 DEF BookInv, RestsWhereItBelongs, BelongsAt
  <2>6. s = t /\ side = d /\ p = r
    BY <2>1, <2>5 DEF BelongsAt
  <2> QED BY <2>2, <2>6 DEF FoundAt
<1>2. PICK s \in Symbols, side \in Sides :
        \/ \E p, q \in Prices : /\ Better(side, p, q)
                                /\ FoundAt(s, side, p, a)
                                /\ FoundAt(s, side, q, b)
        \/ \E p \in Prices : LET l == queue[s][side][p]
                             IN  \E i, j \in DOMAIN l : i < j /\ l[i] = a /\ l[j] = b
  BY DEF Before
<1>3. CASE \E p, q \in Prices : /\ Better(side, p, q)
                                /\ FoundAt(s, side, p, a)
                                /\ FoundAt(s, side, q, b)
  <2>1. PICK p \in Prices, q \in Prices : /\ Better(side, p, q)
                                          /\ FoundAt(s, side, p, a)
                                          /\ FoundAt(s, side, q, b)
    BY <1>3
  <2>2. FoundAt(s, side, p, a)' /\ FoundAt(s, side, q, b)'
    BY <1>1, <2>1
  <2> QED BY <2>1, <2>2 DEF Before, Better
<1>4. CASE \E p \in Prices : LET l == queue[s][side][p]
                             IN  \E i, j \in DOMAIN l : i < j /\ l[i] = a /\ l[j] = b
  <2> PICK p \in Prices : \E i, j \in DOMAIN queue[s][side][p] :
              i < j /\ queue[s][side][p][i] = a /\ queue[s][side][p][j] = b
    BY <1>4
  <2>1. PICK i \in DOMAIN queue[s][side][p], j \in DOMAIN queue[s][side][p] :
          i < j /\ queue[s][side][p][i] = a /\ queue[s][side][p][j] = b
    OBVIOUS
  <2>2. queue[s][side][p] \in Seq(Ids) /\ queue'[s][side][p] \in Seq(Ids)
    BY DEF BookInv, BookTypeOK
  <2>3. FoundAt(s, side, p, a) /\ FoundAt(s, side, p, b)
    <3>1. i \in 1 .. Len(queue[s][side][p]) /\ j \in 1 .. Len(queue[s][side][p])
      BY <2>1, <2>2
    <3>2. FoundAt(s, side, p, a)
      BY <2>1, <3>1 DEF FoundAt, Contains
    <3>3. FoundAt(s, side, p, b)
      BY <2>1, <3>1 DEF FoundAt, Contains
    <3> QED BY <3>2, <3>3
  <2>4. FoundAt(s, side, p, a)' /\ FoundAt(s, side, p, b)'
    BY <1>1, <2>3
  <2>5. PICK k \in DOMAIN queue'[s][side][p], l \in DOMAIN queue'[s][side][p] :
          queue'[s][side][p][k] = a /\ queue'[s][side][p][l] = b
    BY <2>2, <2>4 DEF FoundAt, Contains
  <2>6. k < l
    BY <2>1, <2>5 DEF LevelsInOrder, InOrder
  <2> QED BY <2>5, <2>6 DEF Before
<1> QED BY <1>2, <1>3, <1>4

\* Nothing rests in front of the order a turn of the loop trades with.
LEMMA MakerIsFirst ==
  ASSUME BookInv, NEW s \in Symbols, NEW p \in Prices, CanFillAt(s, p), NEW a \in Ids
  PROVE  ~Before(a, MakerAt(s, p))
<1> DEFINE m == MakerAt(s, p)
<1>1. /\ MakerSide(s) \in Sides /\ m \in Ids /\ m = queue[s][MakerSide(s)][p][1]
      /\ BelongsAt(s, MakerSide(s), p, m)
  BY MakerFacts
<1> HIDE DEF m
<1> SUFFICES ASSUME Before(a, m) PROVE FALSE
  BY DEF m
<1>2. PICK t \in Symbols, d \in Sides :
        \/ \E r, q \in Prices : /\ Better(d, r, q)
                                /\ FoundAt(t, d, r, a)
                                /\ FoundAt(t, d, q, m)
        \/ \E r \in Prices : LET l == queue[t][d][r]
                             IN  \E i, j \in DOMAIN l : i < j /\ l[i] = a /\ l[j] = m
  BY DEF Before
<1>3. CASE \E r, q \in Prices : /\ Better(d, r, q)
                                /\ FoundAt(t, d, r, a)
                                /\ FoundAt(t, d, q, m)
  <2>1. PICK r \in Prices, q \in Prices : /\ Better(d, r, q)
                                          /\ FoundAt(t, d, r, a)
                                          /\ FoundAt(t, d, q, m)
    BY <1>3
  <2>2. t = s /\ d = MakerSide(s) /\ q = p
    BY <1>1, <2>1, FoundBelongs DEF BelongsAt
  <2>3. r \in Levels(s, MakerSide(s))
    <3>1. queue[t][d][r] # <<>>
      BY <2>1, FoundBelongs
    <3> QED BY <2>2, <3>1 DEF Levels
  <2>4. r = p \/ Better(d, p, r)
    BY <2>2, <2>3 DEF CanFillAt, IsBest
  <2>5. p \in Nat /\ r \in Nat
    BY BookAssumption
  <2> QED BY <2>1, <2>2, <2>4, <2>5 DEF Better
<1>4. CASE \E r \in Prices : LET l == queue[t][d][r]
                             IN  \E i, j \in DOMAIN l : i < j /\ l[i] = a /\ l[j] = m
  <2> PICK r \in Prices : \E i, j \in DOMAIN queue[t][d][r] :
              i < j /\ queue[t][d][r][i] = a /\ queue[t][d][r][j] = m
    BY <1>4
  <2>1. PICK i \in DOMAIN queue[t][d][r], j \in DOMAIN queue[t][d][r] :
          i < j /\ queue[t][d][r][i] = a /\ queue[t][d][r][j] = m
    OBVIOUS
  <2>2. queue[t][d][r] \in Seq(Ids)
    BY DEF BookInv, BookTypeOK
  <2>3. BelongsAt(t, d, r, m)
    BY <2>1 DEF BookInv, RestsWhereItBelongs
  <2>4. t = s /\ d = MakerSide(s) /\ r = p
    BY <1>1, <2>3 DEF BelongsAt
  <2>5. i \in 1 .. Len(queue[t][d][r]) /\ j \in 1 .. Len(queue[t][d][r])
    BY <2>1, <2>2
  <2>6. j = 1
    BY <1>1, <2>1, <2>2, <2>4, <2>5, LevelsAreDistinct DEF Distinct
  <2> QED BY <2>1, <2>5, <2>6
<1> QED BY <1>2, <1>3, <1>4

\* An order somebody has priority over rests.
LEMMA BeforeRests ==
  ASSUME BookInv, NEW a \in Ids, NEW b \in Ids, Before(a, b)
  PROVE  Resting(b)
<1>1. PICK s \in Symbols, side \in Sides :
        \/ \E p, q \in Prices : /\ Better(side, p, q)
                                /\ FoundAt(s, side, p, a)
                                /\ FoundAt(s, side, q, b)
        \/ \E p \in Prices : LET l == queue[s][side][p]
                             IN  \E i, j \in DOMAIN l : i < j /\ l[i] = a /\ l[j] = b
  BY DEF Before
<1>2. ASSUME NEW p \in Prices, NEW j \in DOMAIN queue[s][side][p], queue[s][side][p][j] = b
      PROVE  FoundAt(s, side, p, b)
  <2>1. queue[s][side][p] \in Seq(Ids)
    BY DEF BookInv, BookTypeOK
  <2> QED BY <1>2, <2>1 DEF FoundAt, Contains
<1> QED BY <1>1, <1>2 DEF Resting

\* Nobody starts to rest in a step in which nobody joins a level.
LEMMA NobodyStartsToRest ==
  ASSUME BookInv, BookInv', NobodyJoins, NEW b \in Ids, Resting(b)'
  PROVE  Resting(b)
<1>1. PICK s \in Symbols, side \in Sides, p \in Prices : FoundAt(s, side, p, b)'
  BY DEF Resting
<1>2. queue[s][side][p] \in Seq(Ids) /\ queue'[s][side][p] \in Seq(Ids)
  BY DEF BookInv, BookTypeOK
<1>3. PICK k \in DOMAIN queue'[s][side][p] : queue'[s][side][p][k] = b
  BY <1>1, <1>2 DEF FoundAt, Contains
<1>4. PICK i \in DOMAIN queue[s][side][p] : queue[s][side][p][i] = b
  BY <1>3 DEF NobodyJoins, NoneJoins
<1>5. FoundAt(s, side, p, b)
  BY <1>2, <1>4 DEF FoundAt, Contains
<1> QED BY <1>5 DEF Resting

\* What a resting order is, whichever book it rests in.
LEMMA RestingOnes ==
  ASSUME BookInv, NEW b \in Ids, Resting(b)
  PROVE  /\ b \in entered /\ b # nextId
         /\ \A s \in Symbols : b # taker[s]
<1>1. PICK s \in Symbols, side \in Sides, p \in Prices : FoundAt(s, side, p, b)
  BY DEF Resting
<1>2. BelongsAt(s, side, p, b)
  BY <1>1, FoundBelongs
<1>3. b \in entered /\ order[b].symbol = s /\ b # taker[s]
  BY <1>2 DEF BelongsAt
<1>4. b # nextId
  BY <1>3 DEF BookInv, BookTypeOK
<1>5. ASSUME NEW t \in Symbols, b = taker[t]
      PROVE  FALSE
  <2>1. order[b].symbol = t
    BY <1>5, BookAssumption DEF BookInv, LockHolder, NoOrder, Ids
  <2> QED BY <1>3, <1>5, <2>1
<1> QED BY <1>3, <1>4, <1>5

\* A step that leaves the quantity of every resting order with somebody in front
\* alone, keeps the levels in order and lets nobody join keeps price-time priority.
LEMMA NoArrivalKeepsPriority ==
  ASSUME BookInv, BookInv', LevelsInOrder, NobodyJoins,
         \A id \in entered : order'[id] = order[id],
         \A a, b \in Ids : Before(a, b) => left'[b] = left[b]
  PROVE  PriorityStep
BY PriorityLasts, NobodyStartsToRest DEF PriorityStep

\* The order that starts to rest is behind everyone at its price or better.
LEMMA FinishKeepsPriority ==
  ASSUME BookInv, BookInv', NEW s \in Symbols, Finish(s)
  PROVE  PriorityStep
<1>1. left' = left /\ order' = order /\ entered' = entered
  BY DEF Finish
<1>2. LevelsInOrder
  BY FinishKeepsLevels
<1>3. ASSUME NEW a \in Ids, NEW b \in Ids,
             Resting(a), ~Resting(b), Resting(b)',
             order[a].symbol = order[b].symbol, order[a].side = order[b].side
      PROVE  Before(a, b)' \/ Better(order[b].side, order[b].price, order[a].price)
  <2>1. PICK t \in Symbols, d \in Sides, p \in Prices : FoundAt(t, d, p, a)
    BY <1>3 DEF Resting
  <2>2. /\ queue[t][d][p] \in Seq(Ids) /\ BelongsAt(t, d, p, a)
        /\ \E i \in DOMAIN queue[t][d][p] : queue[t][d][p][i] = a
    BY <2>1, FoundBelongs
  <2>3. PICK i \in DOMAIN queue[t][d][p] : queue[t][d][p][i] = a
    BY <2>2
  <2>4. PICK u \in Symbols, e \in Sides, r \in Prices : FoundAt(u, e, r, b)'
    BY <1>3 DEF Resting
  <2>5. /\ queue[u][e][r] \in Seq(Ids) /\ queue'[u][e][r] \in Seq(Ids)
        /\ queue'[t][d][p] \in Seq(Ids)
    BY DEF BookInv, BookTypeOK
  <2>6. PICK k \in DOMAIN queue'[u][e][r] : queue'[u][e][r][k] = b
    BY <2>4, <2>5 DEF FoundAt, Contains
  <2>7. u = order[b].symbol /\ e = order[b].side /\ r = order[b].price
    BY <1>1, <2>6 DEF BookInv, RestsWhereItBelongs, BelongsAt
  <2>8. u = t /\ e = d /\ p = order[a].price
    BY <1>3, <2>2, <2>7 DEF BelongsAt
  <2>9. i \in DOMAIN queue'[t][d][p] /\ queue'[t][d][p][i] = a
    BY <2>3, FinishKeepsLevels
  <2>10. CASE p = r
    <3>1. ~(\E j \in DOMAIN queue[u][e][r] : queue[u][e][r][j] = b)
      BY <1>3, <2>5 DEF Resting, FoundAt, Contains
    <3>2. \/ \E j \in DOMAIN queue[u][e][r] : queue'[u][e][r][k] = queue[u][e][r][j]
          \/ \A j \in DOMAIN queue[u][e][r] : j < k
      BY <2>6, FinishKeepsLevels
    <3>3. i < k
      BY <2>3, <2>6, <2>8, <2>10, <3>1, <3>2
    <3>4. Before(a, b)'
      BY <2>6, <2>8, <2>9, <2>10, <3>3 DEF Before
    <3> QED BY <3>4
  <2>11. CASE Better(d, p, r)
    <3>1. FoundAt(t, d, p, a)'
      BY <2>5, <2>9 DEF FoundAt, Contains
    <3>2. FoundAt(t, d, r, b)'
      BY <2>4, <2>8 DEF FoundAt
    <3>3. Before(a, b)'
      BY <2>11, <3>1, <3>2 DEF Before, Better
    <3> QED BY <3>3
  <2>12. CASE p # r /\ ~Better(d, p, r)
    <3>1. p \in Nat /\ r \in Nat
      BY BookAssumption
    <3> QED BY <2>7, <2>8, <2>12, <3>1 DEF Better
  <2> QED BY <2>10, <2>11, <2>12
<1> QED BY <1>1, <1>2, <1>3, PriorityLasts DEF PriorityStep

\* Every step of the books keeps price-time priority.
LEMMA PriorityKept == BookInv /\ [BookNext]_bookVars => [PriorityStep]_bookVars
<1> SUFFICES ASSUME BookInv, BookNext PROVE PriorityStep
  OBVIOUS
<1>1. BookInv'
  BY BookStep
<1>2. ASSUME NEW o \in OrderRecords, Build(o)
      PROVE  PriorityStep
  <2>1. LevelsInOrder /\ NobodyJoins
    BY <1>2, QuietKeepsLevels DEF Build
  <2>2. \A id \in entered : order'[id] = order[id]
    BY <1>2 DEF Build, BookInv, BookTypeOK, Ids
  <2>3. \A a, b \in Ids : Before(a, b) => left'[b] = left[b]
    <3>1. \A a, b \in Ids : Before(a, b) => b # nextId
      BY BeforeRests, RestingOnes
    <3> QED BY <1>2, <3>1 DEF Build, BookInv, BookTypeOK
  <2> QED BY <1>1, <2>1, <2>2, <2>3, NoArrivalKeepsPriority
<1>3. ASSUME NEW id \in Ids, Enter(id)
      PROVE  PriorityStep
  <2>1. LevelsInOrder /\ NobodyJoins
    BY <1>3, QuietKeepsLevels DEF Enter
  <2> QED BY <1>1, <1>3, <2>1, NoArrivalKeepsPriority DEF Enter
<1>4. ASSUME NEW s \in Symbols, NEW p \in Prices, FillAt(s, p)
      PROVE  PriorityStep
  <2>1. LevelsInOrder /\ NobodyJoins
    BY <1>4, FillKeepsLevels
  <2>2. CanFillAt(s, p) /\ order' = order
    BY <1>4 DEF FillAt
  <2>3. ASSUME NEW a \in Ids, NEW b \in Ids, Before(a, b)
        PROVE  left'[b] = left[b]
    <3>1. b # taker[s]
      BY <2>3, BeforeRests, RestingOnes
    <3>2. b # MakerAt(s, p)
      BY <2>2, <2>3, MakerIsFirst
    <3> QED BY <1>4, <3>1, <3>2 DEF FillAt, Reduced, BookInv, BookTypeOK
  <2> QED BY <1>1, <2>1, <2>2, <2>3, NoArrivalKeepsPriority
<1>5. ASSUME NEW s \in Symbols, Finish(s)
      PROVE  PriorityStep
  BY <1>1, <1>5, FinishKeepsPriority
<1>6. ASSUME NEW s \in Symbols, NEW side \in Sides, NEW p \in Prices, NEW id \in Ids,
             CancelAt(s, side, p, id)
      PROVE  PriorityStep
  <2>1. LevelsInOrder /\ NobodyJoins
    BY <1>6, CancelKeepsLevels
  <2> QED BY <1>1, <1>6, <2>1, NoArrivalKeepsPriority DEF CancelAt
<1> QED BY <1>2, <1>3, <1>4, <1>5, <1>6 DEF BookNext, Fill, CancelById

-----------------------------------------------------------------------------
\* No quantity is lost or executed twice

\* What a trade executed of an order.
Part(t, i, id) == IF id \in {i, t.maker} THEN t.quantity ELSE 0

LEMMA ExecutedIsSum ==
  ASSUME BookInv, NEW id
  PROVE  /\ \A i \in Ids :
              /\ IsFiniteSet(DOMAIN trades[i])
              /\ \A k \in DOMAIN trades[i] :
                   trades[i][k].quantity \in Nat /\ Part(trades[i][k], i, id) \in Nat
              /\ ExecutedBy(i, id) =
                   SumFunctionOnSet([k \in DOMAIN trades[i] |-> Part(trades[i][k], i, id)],
                                    DOMAIN trades[i])
              /\ ExecutedBy(i, id) \in Nat
         /\ IsFiniteSet(Ids)
         /\ Executed(id) = SumFunctionOnSet([i \in Ids |-> ExecutedBy(i, id)], Ids)
         /\ Executed(id) \in Nat
<1>1. ASSUME NEW i \in Ids
      PROVE  /\ IsFiniteSet(DOMAIN trades[i])
             /\ \A k \in DOMAIN trades[i] :
                   trades[i][k].quantity \in Nat /\ Part(trades[i][k], i, id) \in Nat
             /\ ExecutedBy(i, id) =
                   SumFunctionOnSet([k \in DOMAIN trades[i] |-> Part(trades[i][k], i, id)],
                                    DOMAIN trades[i])
  <2>1. trades[i] \in Seq(Trades)
    BY DEF BookInv, BookTypeOK
  <2>2. DOMAIN trades[i] = 1 .. Len(trades[i]) /\ Len(trades[i]) \in Nat
    BY <2>1
  <2>3. IsFiniteSet(DOMAIN trades[i])
    <3>1. \A n \in Nat : IsFiniteSet(1 .. n)
      BY FS_Interval
    <3> QED BY <2>2, <3>1
  <2>4. \A k \in DOMAIN trades[i] : trades[i][k] \in Trades
    BY <2>1
  <2>5. \A k \in DOMAIN trades[i] : trades[i][k].quantity \in Nat
    BY <2>4 DEF Trades
  <2> QED BY <2>3, <2>5 DEF ExecutedBy, SumFunction, Part
<1>2. ASSUME NEW i \in Ids
      PROVE  ExecutedBy(i, id) \in Nat
  <2> DEFINE f == [k \in DOMAIN trades[i] |-> Part(trades[i][k], i, id)]
             S == DOMAIN trades[i]
  <2>1. IsFiniteSet(S) /\ \A k \in S : f[k] \in Nat
    BY <1>1
  <2> HIDE DEF f, S
  <2>2. SumFunctionOnSet(f, S) \in Nat
    BY <2>1, SumNatural
  <2> QED BY <1>1, <2>2 DEF f, S
<1>3. IsFiniteSet(Ids)
  BY BookAssumption, FS_Interval DEF Ids
<1>4. Executed(id) = SumFunctionOnSet([i \in Ids |-> ExecutedBy(i, id)], Ids)
  BY DEF Executed, SumFunction
<1>5. Executed(id) \in Nat
  <2> DEFINE f == [i \in Ids |-> ExecutedBy(i, id)]
  <2>1. \A i \in Ids : f[i] \in Nat
    BY <1>2
  <2> HIDE DEF f
  <2>2. SumFunctionOnSet(f, Ids) \in Nat
    BY <1>3, <2>1, SumNatural
  <2> QED BY <1>4, <2>2 DEF f
<1> QED BY <1>1, <1>2, <1>3, <1>4, <1>5

\* Nothing was executed of an order that never came to a book.
LEMMA NothingExecutedYet ==
  ASSUME BookInv, NEW id, id \notin entered
  PROVE  Executed(id) = 0
<1>1. ASSUME NEW i \in Ids
      PROVE  ExecutedBy(i, id) = 0
  <2> DEFINE f == [k \in DOMAIN trades[i] |-> Part(trades[i][k], i, id)]
             S == DOMAIN trades[i]
  <2>1. \A k \in S : f[k] = 0
    BY DEF BookInv, TradersEntered, Part
  <2>2. IsFiniteSet(S) /\ ExecutedBy(i, id) = SumFunctionOnSet(f, S)
    BY ExecutedIsSum
  <2> HIDE DEF f, S
  <2> QED BY <2>1, <2>2, SumOfZeros
<1>2. SumFunctionOnSet([i \in Ids |-> ExecutedBy(i, id)], Ids) = 0
  <2> DEFINE f == [i \in Ids |-> ExecutedBy(i, id)]
  <2>1. \A i \in Ids : f[i] = 0
    BY <1>1
  <2>2. IsFiniteSet(Ids)
    BY ExecutedIsSum
  <2> HIDE DEF f
  <2>3. SumFunctionOnSet(f, Ids) = 0
    BY <2>1, <2>2, SumOfZeros
  <2> QED BY <2>3 DEF f
<1> QED BY <1>2, ExecutedIsSum

\* Steps that make no trade execute nothing.
LEMMA NothingExecuted ==
  ASSUME BookInv, UNCHANGED trades, NEW id
  PROVE  Executed(id)' = Executed(id)
BY DEF Executed, ExecutedBy

\* A turn of the loop executes what it trades, of the two orders it trades.
LEMMA FillExecutes ==
  ASSUME BookInv, BookInv', NEW s \in Symbols, NEW p \in Prices, FillAt(s, p), NEW id
  PROVE  Executed(id)' = Executed(id) +
           (IF id \in {taker[s], MakerAt(s, p)} THEN TradedAt(s, p) ELSE 0)
<1>0. taker[s] \in Ids /\ CanFillAt(s, p)
  BY MakerFacts DEF FillAt
<1> PICK x \in Ids : x = taker[s]
  BY <1>0
<1> DEFINE m == MakerAt(s, p)
           n == TradedAt(s, p)
           trade == [maker |-> m, quantity |-> n, price |-> p]
           more == IF id \in {x, m} THEN n ELSE 0
<1>1. CanFillAt(s, p)
  BY <1>0
<1>2. x \in Ids /\ n \in Nat /\ trades \in [Ids -> Seq(Trades)]
  BY <1>1, MakerFacts DEF BookInv, BookTypeOK
<1>3. trades' = [trades EXCEPT ![x] = Append(@, trade)]
  BY DEF FillAt
<1>4. Part(trade, x, id) = more
  BY DEF Part
<1> HIDE DEF m, n, trade, more
<1>5. \A i \in Ids : i # x => trades'[i] = trades[i]
  BY <1>2, <1>3
<1>6. \A i \in Ids : i # x => ExecutedBy(i, id)' = ExecutedBy(i, id)
  BY <1>5 DEF ExecutedBy
<1>7. ExecutedBy(x, id)' = ExecutedBy(x, id) + more
  <2> DEFINE old == trades[x]
             len == Len(old)
             f == [k \in DOMAIN old |-> Part(old[k], x, id)]
             g == [k \in DOMAIN trades'[x] |-> Part(trades'[x][k], x, id)]
  <2>1. old \in Seq(Trades) /\ len \in Nat /\ DOMAIN old = 1 .. len
    BY <1>2
  <2>2. trades'[x] = Append(old, trade) /\ trade \in Trades
    <3>1. trades'[x] = Append(old, trade)
      BY <1>2, <1>3
    <3>2. trade \in Trades
      BY <1>1, MakerFacts DEF trade, Trades, m, n
    <3> QED BY <3>1, <3>2
  <2>3. /\ DOMAIN trades'[x] = 1 .. len + 1
        /\ \A k \in 1 .. len : trades'[x][k] = old[k]
        /\ trades'[x][len + 1] = trade
    BY <2>1, <2>2, AppendProperties
  <2>4. /\ ExecutedBy(x, id) = SumFunctionOnSet(f, 1 .. len)
        /\ \A k \in 1 .. len : f[k] \in Nat
    BY <1>2, <2>1, ExecutedIsSum
  <2>5. ExecutedBy(x, id)' = SumFunctionOnSet(g, 1 .. len + 1)
    BY <1>2, <2>3 DEF ExecutedBy, SumFunction, Part
  <2>6. /\ \A k \in 1 .. len : g[k] = f[k]
        /\ g[len + 1] = more
    BY <1>4, <2>1, <2>3
  <2> HIDE DEF old, len, f, g
  <2>7. 1 .. len + 1 = (1 .. len) \cup {len + 1} /\ len + 1 \notin 1 .. len
    BY <2>1
  <2>8. IsFiniteSet(1 .. len)
    BY <2>1, FS_Interval
  <2>9. more \in Nat
    BY <1>2 DEF more
  <2>10. \A k \in (1 .. len) \cup {len + 1} : g[k] \in Int
    BY <2>4, <2>6, <2>9
  <2>11. SumFunctionOnSet(g, (1 .. len) \cup {len + 1}) = more + SumFunctionOnSet(g, 1 .. len)
    BY <2>6, <2>7, <2>8, <2>10, SumInsert
  <2>12. SumFunctionOnSet(g, 1 .. len) = SumFunctionOnSet(f, 1 .. len)
    BY <2>6, <2>8, SumSame
  <2>13. SumFunctionOnSet(f, 1 .. len) \in Nat
    BY <2>4, <2>8, SumNatural
  <2>14. ExecutedBy(x, id)' = SumFunctionOnSet(g, (1 .. len) \cup {len + 1})
    BY <2>5, <2>7
  <2> QED BY <2>4, <2>9, <2>11, <2>12, <2>13, <2>14
<1>8. Executed(id)' = Executed(id) + more
  <2> DEFINE f == [i \in Ids |-> ExecutedBy(i, id)]
             g == [i \in Ids |-> ExecutedBy(i, id)']
  <2>1. \A i \in Ids : ExecutedBy(i, id) \in Nat
    BY ExecutedIsSum
  <2>2. more \in Nat
    BY <1>2 DEF more
  <2>3. \A i \in Ids : f[i] \in Int /\ g[i] \in Int /\ (i # x => f[i] = g[i])
    BY <1>2, <1>6, <1>7, <2>1, <2>2
  <2>4. f[x] \in Nat /\ g[x] = f[x] + more
    BY <1>2, <1>7, <2>1
  <2>5. Executed(id) = SumFunctionOnSet(f, Ids) /\ Executed(id) \in Nat /\ IsFiniteSet(Ids)
    BY ExecutedIsSum
  <2>6. Executed(id)' = SumFunctionOnSet(g, Ids)
    BY DEF Executed, SumFunction
  <2> HIDE DEF f, g
  <2>7. SumFunctionOnSet(g, Ids) = SumFunctionOnSet(f, Ids) - f[x] + g[x]
    BY <1>2, <2>3, <2>5, SumUpdate
  <2> QED BY <2>2, <2>4, <2>5, <2>6, <2>7
<1> QED BY <1>8 DEF more, m, n

\* What an order has left and what was executed of it stay what it was built with.
LEMMA QuantityKept ==
  BookInv /\ QuantityConserved /\ [BookNext]_bookVars => QuantityConserved'
<1> SUFFICES ASSUME BookInv, QuantityConserved, [BookNext]_bookVars
             PROVE  QuantityConserved'
  OBVIOUS
<1>1. BookInv'
  BY BookStep
<1>2. ASSUME UNCHANGED <<nextId, order, left, trades>>
      PROVE  QuantityConserved'
  BY <1>2, NothingExecuted DEF QuantityConserved
<1>3. ASSUME NEW o \in OrderRecords, Build(o)
      PROVE  QuantityConserved'
  <2> SUFFICES ASSUME NEW id \in 1 .. nextId' - 1
               PROVE  order'[id].quantity = left'[id] + Executed(id)'
    BY DEF QuantityConserved
  <2>1. Executed(id)' = Executed(id)
    BY <1>3, NothingExecuted DEF Build
  <2>2. nextId \in Ids /\ nextId' = nextId + 1
    BY <1>3 DEF Build
  <2>3. CASE id = nextId
    <3>1. Executed(id) = 0
      BY <2>3, NothingExecutedYet DEF BookInv, BookTypeOK
    <3>2. order'[id] = o /\ left'[id] = o.quantity
      BY <1>3, <2>2, <2>3 DEF Build, BookInv, BookTypeOK
    <3>3. o.quantity \in Nat
      BY BookAssumption DEF OrderRecords
    <3> QED BY <2>1, <3>1, <3>2, <3>3
  <2>4. CASE id # nextId
    <3>1. id \in 1 .. nextId - 1 /\ id \in Ids
      BY <2>2, <2>4, BookAssumption DEF Ids
    <3>2. order'[id] = order[id] /\ left'[id] = left[id]
      BY <1>3, <2>4, <3>1 DEF Build, BookInv, BookTypeOK
    <3> QED BY <2>1, <3>1, <3>2 DEF QuantityConserved
  <2> QED BY <2>3, <2>4
<1>4. ASSUME NEW s \in Symbols, NEW p \in Prices, FillAt(s, p)
      PROVE  QuantityConserved'
  <2> SUFFICES ASSUME NEW id \in 1 .. nextId - 1
               PROVE  order[id].quantity = left'[id] + Executed(id)'
    BY <1>4 DEF QuantityConserved, FillAt
  <2> DEFINE x == taker[s]
             m == MakerAt(s, p)
             n == TradedAt(s, p)
  <2>1. CanFillAt(s, p)
    BY <1>4 DEF FillAt
  <2>2. /\ x \in Ids /\ m \in Ids /\ BelongsAt(s, MakerSide(s), p, m)
        /\ n \in Nat /\ n <= left[x] /\ n <= left[m]
    BY <2>1, MakerFacts
  <2>3. x # m
    BY <2>2 DEF BelongsAt
  <2>4. left' = [left EXCEPT ![x] = @ - n, ![m] = @ - n] /\ left \in [Ids -> Nat]
    BY <1>4 DEF FillAt, Reduced, BookInv, BookTypeOK
  <2>5. Executed(id)' = Executed(id) + (IF id \in {x, m} THEN n ELSE 0)
    BY <1>1, <1>4, FillExecutes
  <2>6. Executed(id) \in Nat /\ id \in Ids
    <3>1. id \in Ids
      BY BookAssumption DEF BookInv, BookTypeOK, Ids
    <3> QED BY <3>1, ExecutedIsSum
  <2>7. order[id].quantity = left[id] + Executed(id)
    BY DEF QuantityConserved
  <2> HIDE DEF x, m, n
  <2>8. left'[id] = IF id \in {x, m} THEN left[id] - n ELSE left[id]
    BY <2>2, <2>3, <2>4, <2>6
  <2>9. left[id] \in Nat
    BY <2>4, <2>6
  <2> QED BY <2>2, <2>5, <2>6, <2>7, <2>8, <2>9
<1>5. ASSUME NEW id \in Ids, Enter(id)
      PROVE  QuantityConserved'
  BY <1>2, <1>5 DEF Enter
<1>6. ASSUME NEW s \in Symbols, Finish(s)
      PROVE  QuantityConserved'
  BY <1>2, <1>6 DEF Finish
<1>7. ASSUME NEW s \in Symbols, NEW side \in Sides, NEW p \in Prices, NEW id \in Ids,
             CancelAt(s, side, p, id)
      PROVE  QuantityConserved'
  BY <1>2, <1>7 DEF CancelAt
<1>8. CASE UNCHANGED bookVars
  BY <1>2, <1>8 DEF bookVars
<1> QED BY <1>3, <1>4, <1>5, <1>6, <1>7, <1>8 DEF BookNext, Fill, CancelById

-----------------------------------------------------------------------------
\* Theorems

\* The books keep their invariant whatever orders arrive and are cancelled, in
\* whatever interleaving of the books.
THEOREM BookInvariance == BookSpec => []BookInv
<1>1. BookInv /\ [BookNext]_bookVars => BookInv'
  BY BookStep
<1> QED BY BookInitInv, <1>1, PTL DEF BookSpec

\* Every variable of the books keeps its type.
THEOREM BookTypeCorrect == BookSpec => []BookTypeOK
<1>1. BookInv => BookTypeOK
  BY DEF BookInv
<1> QED BY BookInvariance, <1>1, PTL

\* An order rests at most once, in its own book, on its own side at its own limit,
\* and only while something of it is left to execute.
THEOREM RestingOrdersBelong == BookSpec => []RestsWhereItBelongs
<1>1. BookInv => RestsWhereItBelongs
  BY DEF BookInv
<1> QED BY BookInvariance, <1>1, PTL

\* No book is ever crossed or locked, inside match() or outside it.
THEOREM BooksNeverCross == BookSpec => []NeverCrossed
<1>1. BookInv => NeverCrossed
  BY DEF BookInv
<1> QED BY BookInvariance, <1>1, PTL

\* Every trade ever made is between two different orders of opposite sides, at the
\* resting order's limit and within the incoming order's.
THEOREM EveryTradeHonoursLimits == BookSpec => []TradesHonourLimits
<1>1. BookInv => TradesHonourLimits
  BY DEF BookInv
<1> QED BY BookInvariance, <1>1, PTL

\* Over any number of calls of match() and cancel(), an order trades only when
\* nothing rests in front of it, no two resting orders ever change places, and an
\* order that starts to rest goes behind everyone at its price or better.
THEOREM PriorityIsKept == BookSpec => PriceTimePriority
<1>1. BookInv /\ [BookNext]_bookVars => [PriorityStep]_bookVars
  BY PriorityKept
<1> QED BY BookInvariance, <1>1, PTL DEF BookSpec, PriceTimePriority

\* No quantity is lost or executed twice: what an order has left and what its
\* trades, as incoming or as resting order, executed of it make up the quantity it
\* was built with.
THEOREM QuantityIsConserved == BookSpec => []QuantityConserved
<1>1. BookInit => QuantityConserved
  BY DEF BookInit, QuantityConserved
<1>2. BookInv /\ QuantityConserved /\ [BookNext]_bookVars => QuantityConserved'
  BY QuantityKept
<1> QED BY BookInvariance, <1>1, <1>2, PTL DEF BookSpec

-----------------------------------------------------------------------------
\* The loop of match() implements the closed form of AtomicBook.  Of a call that is
\* under way, a turn leaves to the rest what it does not do itself.

\* The operators of AtomicBook for one book: bk is its queues, o the orders and l what
\* they have left.
Makers(bk, o, id) ==
  {r \in Ids : /\ \E side \in Sides, p \in Prices : Contains(bk[side][p], r)
               /\ o[r].side = Opposite(o[id].side)
               /\ Crosses(o[id], o[r].price)}

InFront(bk, a, b) ==
  \E side \in Sides :
    \/ \E p, q \in Prices : /\ Better(side, p, q)
                            /\ Contains(bk[side][p], a)
                            /\ Contains(bk[side][q], b)
    \/ \E p \in Prices : LET l == bk[side][p]
                         IN  \E i, j \in DOMAIN l : i < j /\ l[i] = a /\ l[j] = b

Served(bk, o, id, r) == {a \in Makers(bk, o, id) : InFront(bk, a, r)}

Share(bk, o, l, id, r) ==
  LET rest == l[id] - SumFunctionOnSet(l, Served(bk, o, id, r))
  IN  IF rest <= 0 THEN 0 ELSE Smaller(rest, l[r])

Sharers(bk, o, l, id) == {r \in Makers(bk, o, id) : Share(bk, o, l, id, r) > 0}

Shares(bk, o, l, id) == [r \in Makers(bk, o, id) |-> Share(bk, o, l, id, r)]

Remains(bk, o, l, id) ==
  [i \in Ids |-> IF i = id THEN l[id] - SumFunction(Shares(bk, o, l, id))
                 ELSE IF i \in Makers(bk, o, id) THEN l[i] - Share(bk, o, l, id, i)
                 ELSE l[i]]

Nth(bk, o, l, id, k) ==
  CHOOSE r \in Sharers(bk, o, l, id) : Cardinality(Served(bk, o, id, r)) = k - 1

TradesMade(bk, o, l, id) ==
  [k \in 1 .. Cardinality(Sharers(bk, o, l, id)) |->
     [maker |-> Nth(bk, o, l, id, k),
      quantity |-> Share(bk, o, l, id, Nth(bk, o, l, id, k)),
      price |-> o[Nth(bk, o, l, id, k)].price]]

Emptied(q, after) ==
  SubSeq(q, 1 + Cardinality({i \in DOMAIN q : after[q[i]] = 0}), Len(q))

EmptiedBook(bk, after) ==
  [side \in Sides |-> [p \in Prices |-> Emptied(bk[side][p], after)]]

Placed(bk, o, after, id) ==
  IF after[id] > 0 /\ o[id].kind # "MARKET"
    THEN [bk EXCEPT ![o[id].side][o[id].price] = Append(@, id)] ELSE bk

BookAfter(bk, o, after, id) == Placed(EmptiedBook(bk, after), o, after, id)

Member(bk, r) == \E side \in Sides, p \in Prices : Contains(bk[side][p], r)

\* What the orders are, whatever else is said of them.
Readable(o) ==
  \A i \in Ids : /\ o[i].symbol \in Symbols /\ o[i].side \in Sides
                 /\ o[i].price \in Prices \cup {0}
                 /\ (o[i].kind = "MARKET") <=> (o[i].price = 0)

\* A book as it is between two turns of a loop.
Sound(bk, o, l, s) ==
  /\ bk \in [Sides -> [Prices -> Seq(Ids)]]
  /\ Readable(o)
  /\ l \in [Ids -> Nat]
  /\ \A side \in Sides, p \in Prices :
       /\ \A i \in DOMAIN bk[side][p] :
            LET r == bk[side][p][i]
            IN  o[r].symbol = s /\ o[r].side = side /\ o[r].price = p /\ l[r] > 0
       /\ Distinct(bk[side][p])

\* The orders a call can take from, one behind the other.
LEMMA MakersFacts ==
  ASSUME NEW bk, NEW o, NEW l, NEW s, Sound(bk, o, l, s), NEW id
  PROVE  /\ IsFiniteSet(Makers(bk, o, id))
         /\ \A r \in Makers(bk, o, id) :
              /\ r \in Ids /\ Member(bk, r) /\ l[r] \in Nat /\ l[r] > 0
              /\ o[r].symbol = s /\ o[r].side = Opposite(o[id].side)
              /\ o[r].side \in Sides /\ o[r].price \in Prices
              /\ Contains(bk[o[r].side][o[r].price], r)
<1>1. Makers(bk, o, id) \in SUBSET Ids /\ IsFiniteSet(Ids)
  BY BookAssumption, FS_Interval DEF Ids, Makers
<1>2. ASSUME NEW r \in Makers(bk, o, id)
      PROVE  /\ r \in Ids /\ Member(bk, r) /\ l[r] \in Nat /\ l[r] > 0
             /\ o[r].symbol = s /\ o[r].side = Opposite(o[id].side)
             /\ o[r].side \in Sides /\ o[r].price \in Prices
             /\ Contains(bk[o[r].side][o[r].price], r)
  <2>1. PICK side \in Sides, p \in Prices : Contains(bk[side][p], r)
    BY DEF Makers
  <2>2. PICK i \in 1 .. Len(bk[side][p]) : bk[side][p][i] = r
    BY <2>1 DEF Contains
  <2>3. bk[side][p] \in Seq(Ids) /\ i \in DOMAIN bk[side][p]
    BY <2>2 DEF Sound
  <2>4. o[r].symbol = s /\ o[r].side = side /\ o[r].price = p /\ l[r] > 0
    BY <2>2, <2>3 DEF Sound
  <2> QED BY <2>1, <2>4 DEF Makers, Member, Sound
<1> QED BY <1>1, <1>2, FS_Subset

\* What the incoming order has left.
LEMMA LeftIsNat ==
  ASSUME NEW bk, NEW o, NEW l, NEW s, Sound(bk, o, l, s), NEW id \in Ids
  PROVE  l[id] \in Nat
BY DEF Sound

\* Where a member of a sound book is.
LEMMA PlaceOf ==
  ASSUME NEW bk, NEW o, NEW l, NEW s, Sound(bk, o, l, s),
         NEW side \in Sides, NEW p \in Prices, NEW i \in DOMAIN bk[side][p]
  PROVE  LET r == bk[side][p][i]
         IN  r \in Ids /\ o[r].symbol = s /\ o[r].side = side /\ o[r].price = p
BY DEF Sound

LEMMA HeadPlace ==
  ASSUME NEW bk, NEW o, NEW l, NEW s, Sound(bk, o, l, s),
         NEW side \in Sides, NEW p \in Prices, bk[side][p] # <<>>
  PROVE  o[Head(bk[side][p])].side = side /\ o[Head(bk[side][p])].price = p
<1>1. bk[side][p] \in Seq(Ids)
  BY DEF Sound
<1> DEFINE q == bk[side][p]
<1>2. 1 \in DOMAIN q /\ Head(q) = q[1]
  <2> HIDE DEF q
  <2>1. q \in Seq(Ids) /\ q # <<>>
    BY <1>1 DEF q
  <2> QED BY <2>1
<1>3. o[q[1]].side = side /\ o[q[1]].price = p
  BY <1>2, PlaceOf
<1> QED BY <1>2, <1>3

\* The same, of an order found by its identifier.
LEMMA PlaceOfMember ==
  ASSUME NEW bk, NEW o, NEW l, NEW s, Sound(bk, o, l, s),
         NEW side \in Sides, NEW p \in Prices, NEW r, Contains(bk[side][p], r)
  PROVE  r \in Ids /\ o[r].symbol = s /\ o[r].side = side /\ o[r].price = p
<1>1. PICK i \in 1 .. Len(bk[side][p]) : bk[side][p][i] = r
  BY DEF Contains
<1>2. i \in DOMAIN bk[side][p]
  BY <1>1 DEF Sound
<1> QED BY <1>1, <1>2, PlaceOf

\* What InFront means of two members of a sound book.
LEMMA InFrontIs ==
  ASSUME NEW bk, NEW o, NEW l, NEW s, Sound(bk, o, l, s), NEW a, NEW b, InFront(bk, a, b)
  PROVE  /\ o[a].side \in Sides /\ o[b].side = o[a].side
         /\ o[a].price \in Prices /\ o[b].price \in Prices
         /\ \/ Better(o[a].side, o[a].price, o[b].price)
            \/ /\ o[a].price = o[b].price
               /\ \E i, j \in DOMAIN bk[o[a].side][o[a].price] :
                    /\ i < j
                    /\ bk[o[a].side][o[a].price][i] = a
                    /\ bk[o[a].side][o[a].price][j] = b
<1>1. PICK side \in Sides :
        \/ \E p, q \in Prices : /\ Better(side, p, q)
                                /\ Contains(bk[side][p], a)
                                /\ Contains(bk[side][q], b)
        \/ \E p \in Prices : LET q == bk[side][p]
                             IN  \E i, j \in DOMAIN q : i < j /\ q[i] = a /\ q[j] = b
  BY DEF InFront
<1>2. CASE \E p, q \in Prices : /\ Better(side, p, q)
                                /\ Contains(bk[side][p], a)
                                /\ Contains(bk[side][q], b)
  BY <1>2, PlaceOfMember
<1>3. CASE \E p \in Prices : LET q == bk[side][p]
                             IN  \E i, j \in DOMAIN q : i < j /\ q[i] = a /\ q[j] = b
  <2>1. PICK p \in Prices : \E i, j \in DOMAIN bk[side][p] :
              i < j /\ bk[side][p][i] = a /\ bk[side][p][j] = b
    BY <1>3
  <2>2. PICK i \in DOMAIN bk[side][p], j \in DOMAIN bk[side][p] :
              i < j /\ bk[side][p][i] = a /\ bk[side][p][j] = b
    BY <2>1
  <2>3. /\ o[a].side = side /\ o[a].price = p
        /\ o[b].side = side /\ o[b].price = p
    BY <2>2, PlaceOf
  <2> QED BY <2>2, <2>3
<1> QED BY <1>1, <1>2, <1>3

\* The orders a call can take from stand in one line.
LEMMA ServedOrder ==
  ASSUME NEW bk, NEW o, NEW l, NEW s, Sound(bk, o, l, s), NEW id
  PROVE  LET M == Makers(bk, o, id)
             ahead(r) == Served(bk, o, id, r)
         IN  /\ \A r \in M : r \notin ahead(r)
             /\ \A r \in M : \A a \in ahead(r) : ahead(a) \subseteq ahead(r)
             /\ \A r, a \in M : r # a => a \in ahead(r) \/ r \in ahead(a)
<1> DEFINE M == Makers(bk, o, id)
           ahead(r) == Served(bk, o, id, r)
<1>0. \A p \in Prices : p \in Nat
  BY BookAssumption
<1>1. ASSUME NEW r \in M, r \in ahead(r) PROVE FALSE
  <2>1. InFront(bk, r, r)
    BY <1>1 DEF Served
  <2>2. /\ o[r].side \in Sides /\ o[r].price \in Prices
        /\ ~Better(o[r].side, o[r].price, o[r].price)
    BY <2>1, <1>0, InFrontIs DEF Better
  <2>3. PICK i \in DOMAIN bk[o[r].side][o[r].price], j \in DOMAIN bk[o[r].side][o[r].price] :
           /\ i < j
           /\ bk[o[r].side][o[r].price][i] = r
           /\ bk[o[r].side][o[r].price][j] = r
    BY <2>1, <2>2, InFrontIs
  <2>4. Distinct(bk[o[r].side][o[r].price]) /\ bk[o[r].side][o[r].price] \in Seq(Ids)
    BY <2>2 DEF Sound
  <2>5. i = j
    BY <2>3, <2>4 DEF Distinct
  <2> QED BY <2>3, <2>4, <2>5
<1>2. ASSUME NEW r \in M, NEW a \in ahead(r), NEW b \in ahead(a) PROVE b \in ahead(r)
  <2>1. InFront(bk, a, r) /\ InFront(bk, b, a) /\ b \in M
    BY DEF Served
  <2>2. /\ o[a].side \in Sides /\ o[r].side = o[a].side /\ o[b].side = o[a].side
        /\ o[a].price \in Prices /\ o[r].price \in Prices /\ o[b].price \in Prices
    BY <2>1, InFrontIs
  <2>3. CASE o[b].price = o[a].price /\ o[a].price = o[r].price
    <3> DEFINE q == bk[o[a].side][o[a].price]
    <3>1. /\ ~Better(o[a].side, o[a].price, o[r].price)
          /\ ~Better(o[b].side, o[b].price, o[a].price)
      BY <1>0, <2>2, <2>3 DEF Better
    <3>2. PICK i \in DOMAIN q, j \in DOMAIN q : i < j /\ q[i] = b /\ q[j] = a
      <4>1. \E i, j \in DOMAIN bk[o[b].side][o[b].price] :
              /\ i < j
              /\ bk[o[b].side][o[b].price][i] = b /\ bk[o[b].side][o[b].price][j] = a
        BY <2>1, <3>1, InFrontIs
      <4>2. bk[o[b].side][o[b].price] = q
        BY <2>2, <2>3
      <4> HIDE DEF q
      <4> QED BY <4>1, <4>2
    <3>3. PICK m \in DOMAIN q, n \in DOMAIN q : m < n /\ q[m] = a /\ q[n] = r
      <4>1. \E k, n \in DOMAIN bk[o[a].side][o[a].price] :
              /\ k < n
              /\ bk[o[a].side][o[a].price][k] = a /\ bk[o[a].side][o[a].price][n] = r
        BY <2>1, <3>1, InFrontIs
      <4> QED BY <4>1
    <3>4. q \in Seq(Ids) /\ Distinct(q)
      BY <2>2 DEF Sound
    <3>5. j = m
      BY <3>2, <3>3, <3>4 DEF Distinct
    <3>6. i < n
      BY <3>2, <3>3, <3>4, <3>5
    <3>7. InFront(bk, b, r)
      BY <2>2, <3>2, <3>3, <3>6 DEF InFront
    <3> QED BY <2>1, <3>7 DEF Served
  <2>4. CASE ~(o[b].price = o[a].price /\ o[a].price = o[r].price)
    <3>1. \/ Better(o[a].side, o[a].price, o[r].price) \/ o[a].price = o[r].price
      BY <2>1, InFrontIs
    <3>2. \/ Better(o[a].side, o[b].price, o[a].price) \/ o[b].price = o[a].price
      BY <2>1, <2>2, InFrontIs
    <3>3. Better(o[a].side, o[b].price, o[r].price)
      BY <1>0, <2>2, <2>4, <3>1, <3>2 DEF Better
    <3>4. Contains(bk[o[a].side][o[b].price], b) /\ Contains(bk[o[a].side][o[r].price], r)
      BY <2>1, <2>2, MakersFacts
    <3>5. InFront(bk, b, r)
      BY <2>2, <3>3, <3>4 DEF InFront
    <3> QED BY <2>1, <3>5 DEF Served
  <2> QED BY <2>3, <2>4
<1>3. ASSUME NEW r \in M, NEW a \in M, r # a PROVE a \in ahead(r) \/ r \in ahead(a)
  <2> DEFINE d == Opposite(o[id].side)
  <2>1. /\ o[r].side = d /\ o[a].side = d /\ d \in Sides
        /\ o[r].price \in Prices /\ o[a].price \in Prices
        /\ Contains(bk[d][o[r].price], r) /\ Contains(bk[d][o[a].price], a)
    BY MakersFacts
  <2> HIDE DEF d
  <2>2. CASE o[r].price # o[a].price
    <3>1. Better(d, o[r].price, o[a].price) \/ Better(d, o[a].price, o[r].price)
      BY <1>0, <2>1, <2>2 DEF Better
    <3>2. InFront(bk, r, a) \/ InFront(bk, a, r)
      BY <2>1, <3>1 DEF InFront
    <3> QED BY <3>2 DEF Served
  <2>3. CASE o[r].price = o[a].price
    <3> DEFINE q == bk[d][o[a].price]
    <3>1. PICK i \in 1 .. Len(q) : q[i] = r
      BY <2>1, <2>3 DEF Contains
    <3>2. PICK j \in 1 .. Len(q) : q[j] = a
      BY <2>1 DEF Contains
    <3>3. q \in Seq(Ids)
      BY <2>1 DEF Sound
    <3>4. i \in DOMAIN q /\ j \in DOMAIN q /\ (i < j \/ j < i)
      BY <1>3, <3>1, <3>2, <3>3
    <3>5. InFront(bk, r, a) \/ InFront(bk, a, r)
      BY <2>1, <3>1, <3>2, <3>4 DEF InFront
    <3> QED BY <3>5 DEF Served
  <2> QED BY <2>2, <2>3
<1> QED BY <1>1, <1>2, <1>3

\* A share is a quantity, at most what either order has left.
LEMMA ShareType ==
  ASSUME NEW bk, NEW o, NEW l, NEW s, Sound(bk, o, l, s), NEW id \in Ids,
         NEW r \in Makers(bk, o, id)
  PROVE  /\ Served(bk, o, id, r) \in SUBSET Makers(bk, o, id)
         /\ IsFiniteSet(Served(bk, o, id, r))
         /\ SumFunctionOnSet(l, Served(bk, o, id, r)) \in Nat
         /\ Share(bk, o, l, id, r) \in Nat
         /\ Share(bk, o, l, id, r) <= l[r]
         /\ Share(bk, o, l, id, r) <= l[id]
<1> DEFINE S == Served(bk, o, id, r)
           sum == SumFunctionOnSet(l, S)
<1>1. S \in SUBSET Makers(bk, o, id)
  BY DEF Served
<1>2. IsFiniteSet(S)
  BY <1>1, MakersFacts, FS_Subset
<1>3. \A x \in S : l[x] \in Nat
  BY <1>1, MakersFacts
<1>4. sum \in Nat
  <2> HIDE DEF S
  <2> QED BY <1>2, <1>3, SumNatural
<1>5. l[id] \in Nat /\ l[r] \in Nat
  <2>1. r \in Ids
    BY DEF Makers
  <2> QED BY <2>1 DEF Sound
<1>6. Share(bk, o, l, id, r) = IF l[id] - sum <= 0 THEN 0 ELSE Smaller(l[id] - sum, l[r])
  BY DEF Share
<1> HIDE DEF sum
<1>7. /\ Share(bk, o, l, id, r) \in Nat
      /\ Share(bk, o, l, id, r) <= l[r]
      /\ Share(bk, o, l, id, r) <= l[id]
  BY <1>4, <1>5, <1>6 DEF Smaller
<1> QED BY <1>1, <1>2, <1>4, <1>7 DEF sum

\* What an order in front of one that is executed gets: all it has left.
LEMMA ServedInFull ==
  ASSUME NEW bk, NEW o, NEW l, NEW s, Sound(bk, o, l, s), NEW id \in Ids,
         NEW r \in Sharers(bk, o, l, id), NEW a \in Served(bk, o, id, r)
  PROVE  Share(bk, o, l, id, a) = l[a]
<1> DEFINE S == Served(bk, o, id, r)
           A == Served(bk, o, id, a)
<1>1. r \in Makers(bk, o, id) /\ a \in Makers(bk, o, id) /\ Share(bk, o, l, id, r) > 0
  BY DEF Served, Sharers
<1>2. a \notin A /\ A \subseteq S
  BY <1>1, ServedOrder
<1>3. /\ IsFiniteSet(A) /\ IsFiniteSet(S) /\ IsFiniteSet(A \cup {a}) /\ A \cup {a} \subseteq S
      /\ SumFunctionOnSet(l, A) \in Nat /\ SumFunctionOnSet(l, S) \in Nat
  BY <1>1, <1>2, ShareType, FS_AddElement
<1>4. \A x \in S : l[x] \in Nat
  BY <1>1, MakersFacts, ShareType
<1>5. l[a] \in Nat /\ l[a] > 0 /\ l[id] \in Nat
  <2>1. l[id] \in Nat
    BY DEF Sound
  <2> QED BY <1>1, <2>1, MakersFacts
<1>6. SumFunctionOnSet(l, A \cup {a}) <= SumFunctionOnSet(l, S)
  <2> HIDE DEF A, S
  <2> QED BY <1>3, <1>4, SumOfPart
<1>7. SumFunctionOnSet(l, A \cup {a}) = l[a] + SumFunctionOnSet(l, A)
  <2>1. \A x \in A \cup {a} : l[x] \in Int
    BY <1>3, <1>4
  <2> HIDE DEF A, S
  <2> QED BY <1>2, <1>3, <2>1, SumInsert
<1>8. ~(l[id] - SumFunctionOnSet(l, S) <= 0)
  BY <1>1 DEF Share
<1> QED BY <1>3, <1>5, <1>6, <1>7, <1>8 DEF Share, Smaller

\* Whoever is in front of an order that is executed is executed too.
LEMMA SharersFirst ==
  ASSUME NEW bk, NEW o, NEW l, NEW s, Sound(bk, o, l, s), NEW id \in Ids,
         NEW r \in Sharers(bk, o, l, id)
  PROVE  Served(bk, o, id, r) \in SUBSET Sharers(bk, o, l, id)
<1> SUFFICES ASSUME NEW a \in Served(bk, o, id, r)
             PROVE  a \in Makers(bk, o, id) /\ Share(bk, o, l, id, a) > 0
  BY DEF Sharers
<1>1. a \in Makers(bk, o, id)
  BY DEF Served
<1>2. Share(bk, o, l, id, a) = l[a]
  BY ServedInFull
<1> QED BY <1>1, <1>2, MakersFacts

\* The k-th order to be executed exists, and is the only one with its rank.
LEMMA NthIs ==
  ASSUME NEW bk, NEW o, NEW l, NEW s, Sound(bk, o, l, s), NEW id \in Ids
  PROVE  LET S == Sharers(bk, o, l, id)
         IN  /\ IsFiniteSet(S) /\ Cardinality(S) \in Nat /\ S \subseteq Makers(bk, o, id)
             /\ \A r \in S : Cardinality(Served(bk, o, id, r)) \in Nat
             /\ \A k \in 1 .. Cardinality(S) :
                  /\ Nth(bk, o, l, id, k) \in S
                  /\ Cardinality(Served(bk, o, id, Nth(bk, o, l, id, k))) = k - 1
             /\ \A r \in S :
                  LET k == Cardinality(Served(bk, o, id, r)) + 1
                  IN  k \in 1 .. Cardinality(S) /\ Nth(bk, o, l, id, k) = r
<1> DEFINE S == Sharers(bk, o, l, id)
           ahead == [r \in S |-> Served(bk, o, id, r)]
<1>1. IsFiniteSet(S) /\ Cardinality(S) \in Nat /\ S \subseteq Makers(bk, o, id)
  <2>1. S \in SUBSET Makers(bk, o, id)
    BY DEF Sharers
  <2> QED BY <2>1, MakersFacts, FS_Subset, FS_CardinalityType
<1>2. ahead \in [S -> SUBSET S]
  BY SharersFirst
<1>3. /\ \A r \in S : r \notin ahead[r]
      /\ \A r \in S : \A a \in ahead[r] : a \in S /\ ahead[a] \subseteq ahead[r]
      /\ \A r, a \in S : r # a => a \in ahead[r] \/ r \in ahead[a]
  <2>1. \A r \in S : r \notin Served(bk, o, id, r)
    BY <1>1, ServedOrder
  <2>2. \A r \in S : \A a \in Served(bk, o, id, r) :
           a \in S /\ Served(bk, o, id, a) \subseteq Served(bk, o, id, r)
    BY <1>1, ServedOrder, SharersFirst
  <2>3. \A r, a \in S : r # a => a \in Served(bk, o, id, r) \/ r \in Served(bk, o, id, a)
    BY <1>1, ServedOrder
  <2> QED BY <2>1, <2>2, <2>3
<1>4. /\ \A r, a \in S : Cardinality(ahead[r]) = Cardinality(ahead[a]) => r = a
      /\ \A k \in 1 .. Cardinality(S) : \E r \in S : Cardinality(ahead[r]) = k - 1
  <2> HIDE DEF S, ahead
  <2> QED BY <1>1, <1>2, <1>3, Ranks
<1>5. \A r \in S : Cardinality(Served(bk, o, id, r)) \in Nat
  BY <1>1, ShareType, FS_CardinalityType
<1>6. ASSUME NEW k \in 1 .. Cardinality(S)
      PROVE  /\ Nth(bk, o, l, id, k) \in S
             /\ Cardinality(Served(bk, o, id, Nth(bk, o, l, id, k))) = k - 1
  <2>1. \E r \in S : Cardinality(Served(bk, o, id, r)) = k - 1
    BY <1>4
  <2> QED BY <2>1 DEF Nth
<1>7. ASSUME NEW r \in S
      PROVE  LET k == Cardinality(Served(bk, o, id, r)) + 1
             IN  k \in 1 .. Cardinality(S) /\ Nth(bk, o, l, id, k) = r
  <2> DEFINE k == Cardinality(Served(bk, o, id, r)) + 1
  <2>1. k \in 1 .. Cardinality(S)
    <3>1. Served(bk, o, id, r) \in SUBSET S /\ Served(bk, o, id, r) # S
      BY <1>2, <1>3
    <3>2. /\ Cardinality(Served(bk, o, id, r)) <= Cardinality(S)
          /\ Cardinality(Served(bk, o, id, r)) # Cardinality(S)
      BY <1>1, <3>1, FS_Subset
    <3> QED BY <1>1, <1>5, <3>2
  <2>2. Nth(bk, o, l, id, k) \in S
        /\ Cardinality(Served(bk, o, id, Nth(bk, o, l, id, k))) = k - 1
    BY <1>6, <2>1
  <2>3. Cardinality(ahead[Nth(bk, o, l, id, k)]) = Cardinality(ahead[r])
    BY <1>5, <2>2
  <2>4. Nth(bk, o, l, id, k) = r
    BY <1>4, <2>2, <2>3
  <2> QED BY <2>1, <2>4
<1> QED BY <1>1, <1>5, <1>6, <1>7

\* What a call of match() will do depends on its own order and on those in its book.
LEMMA SameCall ==
  ASSUME NEW bk, NEW o, NEW l, NEW p, NEW m, NEW s, Sound(bk, o, l, s), NEW id \in Ids,
         o[id] = p[id], l[id] = m[id],
         \A r \in Ids : Member(bk, r) => o[r] = p[r] /\ l[r] = m[r]
  PROVE  /\ Makers(bk, p, id) = Makers(bk, o, id)
         /\ \A r : Served(bk, p, id, r) = Served(bk, o, id, r)
         /\ \A r \in Makers(bk, o, id) : Share(bk, p, m, id, r) = Share(bk, o, l, id, r)
         /\ Sharers(bk, p, m, id) = Sharers(bk, o, l, id)
         /\ Shares(bk, p, m, id) = Shares(bk, o, l, id)
         /\ \A i \in Ids : l[i] = m[i] => Remains(bk, p, m, id)[i] = Remains(bk, o, l, id)[i]
         /\ TradesMade(bk, p, m, id) = TradesMade(bk, o, l, id)
<1>1. Makers(bk, p, id) = Makers(bk, o, id)
  BY DEF Makers, Member
<1>2. \A r : Served(bk, p, id, r) = Served(bk, o, id, r)
  BY <1>1 DEF Served
<1>3. \A r \in Makers(bk, o, id) : r \in Ids /\ Member(bk, r) /\ o[r] = p[r] /\ l[r] = m[r]
  BY DEF Makers, Member
<1>4. ASSUME NEW r \in Makers(bk, o, id)
      PROVE  Share(bk, p, m, id, r) = Share(bk, o, l, id, r)
  <2> DEFINE S == Served(bk, o, id, r)
  <2>1. IsFiniteSet(S) /\ \A a \in S : m[a] = l[a]
    <3>1. S \subseteq Makers(bk, o, id) /\ IsFiniteSet(S)
      BY ShareType
    <3> QED BY <1>3, <3>1
  <2>2. SumFunctionOnSet(m, S) = SumFunctionOnSet(l, S)
    <3> HIDE DEF S
    <3> QED BY <2>1, SumSame
  <2>3. m[r] = l[r]
    BY <1>3
  <2> QED BY <1>2, <2>2, <2>3 DEF Share
<1>5. Sharers(bk, p, m, id) = Sharers(bk, o, l, id) /\ Shares(bk, p, m, id) = Shares(bk, o, l, id)
  BY <1>1, <1>4 DEF Sharers, Shares
<1>6. ASSUME NEW i \in Ids, l[i] = m[i]
      PROVE  Remains(bk, p, m, id)[i] = Remains(bk, o, l, id)[i]
  BY <1>1, <1>4, <1>5, <1>6 DEF Remains
<1>7. TradesMade(bk, p, m, id) = TradesMade(bk, o, l, id)
  <2> DEFINE K == 1 .. Cardinality(Sharers(bk, o, l, id))
             nth(k) == Nth(bk, o, l, id, k)
  <2>1. \A k : Nth(bk, p, m, id, k) = nth(k)
    BY <1>2, <1>5 DEF Nth
  <2>2. ASSUME NEW k \in K
        PROVE  /\ Share(bk, p, m, id, nth(k)) = Share(bk, o, l, id, nth(k))
               /\ p[nth(k)] = o[nth(k)]
    <3>1. nth(k) \in Makers(bk, o, id)
      BY NthIs
    <3> QED BY <1>3, <1>4, <3>1
  <2> QED BY <1>5, <2>1, <2>2 DEF TradesMade
<1> QED BY <1>1, <1>2, <1>4, <1>5, <1>6, <1>7

-----------------------------------------------------------------------------
\* One turn of the loop leaves of the call what the rest of it will do.

ServedFirst(bk, o, l, id, m) ==
  /\ m \in Makers(bk, o, id)
  /\ Served(bk, o, id, m) = {}
  /\ \A r \in Makers(bk, o, id) : r # m => m \in Served(bk, o, id, r)
  /\ Share(bk, o, l, id, m) = Smaller(l[id], l[m])
  /\ m \in Sharers(bk, o, l, id)

\* The order at the front of the best level.
LEMMA FirstMaker ==
  ASSUME NEW bk, NEW o, NEW l, NEW s, Sound(bk, o, l, s), NEW id \in Ids,
         NEW p \in Prices, bk[Opposite(o[id].side)][p] # <<>>,
         \A q \in Prices : q # p /\ bk[Opposite(o[id].side)][q] # <<>> =>
                             Better(Opposite(o[id].side), p, q),
         Crosses(o[id], p), l[id] > 0
  PROVE  ServedFirst(bk, o, l, id, Head(bk[Opposite(o[id].side)][p]))
<1> DEFINE d == Opposite(o[id].side)
           m == Head(bk[d][p])
<1>0. d \in Sides
  BY DEF Opposite, Sides
<1>1. bk[d][p] \in Seq(Ids) /\ 1 \in DOMAIN bk[d][p] /\ m = bk[d][p][1]
  BY <1>0 DEF Sound
<1>2. m \in Ids /\ o[m].side = d /\ o[m].price = p
  BY <1>0, <1>1, PlaceOf
<1>3. Contains(bk[d][p], m)
  BY <1>1 DEF Contains
<1>4. m \in Makers(bk, o, id)
  BY <1>0, <1>2, <1>3 DEF Makers
<1>5. ASSUME NEW a \in Served(bk, o, id, m) PROVE FALSE
  <2>1. a \in Makers(bk, o, id) /\ InFront(bk, a, m)
    BY DEF Served
  <2>2. /\ o[a].side = d /\ o[a].price \in Prices
        /\ Contains(bk[d][o[a].price], a)
    BY <2>1, MakersFacts
  <2>3. bk[d][o[a].price] # <<>>
    BY <2>2 DEF Contains
  <2>4. \A q \in Prices : q \in Nat
    BY BookAssumption
  <2>5. ~Better(d, o[a].price, p)
    BY <2>2, <2>3, <2>4 DEF Better
  <2>8. o[a].price = p /\ \E i, j \in DOMAIN bk[d][p] :
                             i < j /\ bk[d][p][i] = a /\ bk[d][p][j] = m
    <3> HIDE DEF d, m
    <3> QED BY <1>2, <2>1, <2>2, <2>5, InFrontIs
  <2>6. PICK i \in DOMAIN bk[d][p], j \in DOMAIN bk[d][p] :
           i < j /\ bk[d][p][i] = a /\ bk[d][p][j] = m
    BY <2>8
  <2>7. j = 1
    BY <1>0, <1>1, <2>6 DEF Sound, Distinct
  <2> QED BY <1>1, <2>6, <2>7
<1>6. Served(bk, o, id, m) = {}
  BY <1>5
<1>7. ASSUME NEW r \in Makers(bk, o, id), r # m PROVE m \in Served(bk, o, id, r)
  BY <1>4, <1>5, <1>7, ServedOrder
<1>8. Share(bk, o, l, id, m) = Smaller(l[id], l[m])
  <2>1. l[id] \in Nat
    BY DEF Sound
  <2>2. SumFunctionOnSet(l, Served(bk, o, id, m)) = 0
    BY <1>6, SumOfNothing
  <2>3. l[id] - 0 = l[id] /\ ~(l[id] <= 0)
    BY <2>1
  <2> QED BY <2>2, <2>3 DEF Share
<1>9. m \in Sharers(bk, o, l, id)
  <2>1. l[m] \in Nat /\ l[m] > 0 /\ l[id] \in Nat
    BY <1>4, MakersFacts, LeftIsNat
  <2>2. Smaller(l[id], l[m]) > 0
    BY <2>1 DEF Smaller
  <2> QED BY <1>4, <1>8, <2>2 DEF Sharers
<1> QED BY <1>4, <1>6, <1>7, <1>8, <1>9 DEF ServedFirst

\* The book bk and the quantities l become ck and k when the incoming order id
\* trades with the order m at the front of level p.
Turn(bk, o, l, ck, k, id, p) ==
  LET d == Opposite(o[id].side)
      m == Head(bk[d][p])
      n == Smaller(l[id], l[m])
  IN  /\ bk[d][p] # <<>>
      /\ \A q \in Prices : q # p /\ bk[d][q] # <<>> => Better(d, p, q)
      /\ Crosses(o[id], p)
      /\ l[id] > 0
      /\ ~Member(bk, id)
      /\ \A side \in Sides, q \in Prices : side # d \/ q # p => ck[side][q] = bk[side][q]
      /\ ck[d][p] = IF l[m] = n THEN Tail(bk[d][p]) ELSE bk[d][p]
      /\ k[id] = l[id] - n
      /\ k[m] = l[m] - n
      /\ \A r \in Ids : r # id /\ r # m => k[r] = l[r]

\* What a turn leaves to the rest of the call.
Leaves(bk, o, l, ck, k, id, m) ==
  /\ Makers(bk, o, id) = Makers(ck, o, id) \cup {m}
  /\ Sharers(ck, o, k, id) = Sharers(bk, o, l, id) \ {m}
  /\ m \in Makers(ck, o, id) => Share(ck, o, k, id, m) = 0
  /\ m \notin Makers(ck, o, id) => k[m] = 0
  /\ \A r \in Makers(ck, o, id) : r # m =>
       Share(ck, o, k, id, r) = Share(bk, o, l, id, r)
  /\ \A r \in Sharers(ck, o, k, id) :
       m \notin Served(ck, o, id, r) /\ Served(bk, o, id, r) = Served(ck, o, id, r) \cup {m}

\* It is the front of a queue of the book.
LEMMA TurnQueue ==
  ASSUME NEW bk, NEW o, NEW l, NEW s, Sound(bk, o, l, s), NEW id,
         NEW ck, NEW k, NEW p \in Prices, Turn(bk, o, l, ck, k, id, p)
  PROVE  /\ Opposite(o[id].side) \in Sides
         /\ bk[Opposite(o[id].side)][p] \in Seq(Ids)
         /\ bk[Opposite(o[id].side)][p] # <<>>
<1>1. Opposite(o[id].side) \in Sides
  BY DEF Opposite, Sides
<1>2. bk \in [Sides -> [Prices -> Seq(Ids)]]
  BY DEF Sound
<1>3. bk[Opposite(o[id].side)][p] # <<>>
  BY DEF Turn
<1> QED BY <1>1, <1>2, <1>3

\* The order at the front has something left: the incoming one is done.
LEMMA LastTurn ==
  ASSUME NEW bk, NEW o, NEW l, NEW s, Sound(bk, o, l, s), NEW id \in Ids,
         NEW ck, NEW k, Sound(ck, o, k, s), NEW p \in Prices, Turn(bk, o, l, ck, k, id, p),
         LET m == Head(bk[Opposite(o[id].side)][p]) IN l[m] # Smaller(l[id], l[m])
  PROVE  Leaves(bk, o, l, ck, k, id, Head(bk[Opposite(o[id].side)][p]))
<1> DEFINE d == Opposite(o[id].side)
           m == Head(bk[d][p])
<1>1. /\ m \in Makers(bk, o, id)
      /\ Served(bk, o, id, m) = {}
      /\ \A r \in Makers(bk, o, id) : r # m => m \in Served(bk, o, id, r)
      /\ m \in Sharers(bk, o, l, id)
  <2>1. ServedFirst(bk, o, l, id, m)
    BY FirstMaker DEF Turn
  <2> QED BY <2>1 DEF ServedFirst
<1>2. ck = bk
  <2>1. \A side \in Sides, q \in Prices : ck[side][q] = bk[side][q]
    BY DEF Turn
  <2>2. ck \in [Sides -> [Prices -> Seq(Ids)]] /\ bk \in [Sides -> [Prices -> Seq(Ids)]]
    BY DEF Sound
  <2>3. \A side \in Sides : ck[side] = bk[side]
    BY <2>1, <2>2
  <2> QED BY <2>2, <2>3
<1>3. l[m] \in Nat /\ l[id] \in Nat /\ l[id] < l[m] /\ Smaller(l[id], l[m]) = l[id]
  <2>1. l[m] \in Nat /\ l[id] \in Nat
    BY <1>1, MakersFacts, LeftIsNat
  <2> QED BY <2>1 DEF Smaller
<1>4. k[id] = 0
  <2>1. k[id] = l[id] - Smaller(l[id], l[m])
    BY DEF Turn
  <2> QED BY <1>3, <2>1
<1>5. ASSUME NEW r \in Makers(ck, o, id) PROVE Share(ck, o, k, id, r) = 0
  BY <1>4, ShareType
<1>6. ASSUME NEW r \in Makers(bk, o, id), r # m PROVE Share(bk, o, l, id, r) = 0
  <2> DEFINE S == Served(bk, o, id, r)
  <2>1. m \in S /\ IsFiniteSet(S) /\ SumFunctionOnSet(l, S) \in Nat
        /\ S \in SUBSET Makers(bk, o, id)
    BY <1>1, <1>6, ShareType
  <2>2. \A x \in S : l[x] \in Nat
    BY <2>1, MakersFacts
  <2>3. l[m] <= SumFunctionOnSet(l, S)
    <3>1. IsFiniteSet({m}) /\ {m} \subseteq S
      BY <2>1, FS_Singleton
    <3>2. SumFunctionOnSet(l, {m}) = l[m]
      <4>1. l[m] \in Int /\ m \in {m} /\ \A x \in {m} : x # m => l[x] = 0
        BY <1>3
      <4> HIDE DEF m
      <4> QED BY <3>1, <4>1, SumAtOne
    <3>3. SumFunctionOnSet(l, {m}) <= SumFunctionOnSet(l, S)
      <4> HIDE DEF m, S
      <4> QED BY <2>1, <2>2, <3>1, SumOfPart
    <3> QED BY <3>2, <3>3
  <2>4. l[id] - SumFunctionOnSet(l, S) <= 0
    BY <1>3, <2>1, <2>3
  <2> QED BY <2>4 DEF Share
<1>7. Sharers(ck, o, k, id) = {} /\ Sharers(bk, o, l, id) = {m}
  <2>1. Sharers(ck, o, k, id) = {}
    BY <1>5 DEF Sharers
  <2>2. Sharers(bk, o, l, id) = {m}
    <3> HIDE DEF m
    <3>1. \A r \in Sharers(bk, o, l, id) : r = m
      BY <1>6 DEF Sharers
    <3> QED BY <1>1, <3>1
  <2> QED BY <2>1, <2>2
<1>8. \A r \in Makers(ck, o, id) : r # m => Share(ck, o, k, id, r) = Share(bk, o, l, id, r)
  BY <1>2, <1>5, <1>6
<1> QED BY <1>1, <1>2, <1>5, <1>7, <1>8 DEF Leaves

\* t is the queue q without m, in the same order.
Without(q, t, m) ==
  /\ \A r : Contains(t, r) <=> Contains(q, r) /\ r # m
  /\ \A a, b : a # m =>
       ((\E i, j \in DOMAIN t : i < j /\ t[i] = a /\ t[j] = b) <=>
        (\E i, j \in DOMAIN q : i < j /\ q[i] = a /\ q[j] = b))

\* Taking out the front of a queue keeps the others as they are.
LEMMA TailFacts ==
  ASSUME NEW S, NEW q \in Seq(S), q # <<>>, Distinct(q)
  PROVE  Without(q, Tail(q), Head(q))
<1> DEFINE t == Tail(q)
<1>1. /\ t \in Seq(S) /\ Len(t) = Len(q) - 1 /\ Len(q) \in Nat /\ Len(t) \in Nat
      /\ \A i \in 1 .. Len(t) : t[i] = q[i + 1]
      /\ Head(q) = q[1] /\ 1 \in 1 .. Len(q)
      /\ DOMAIN q = 1 .. Len(q) /\ DOMAIN t = 1 .. Len(t)
  OBVIOUS
<1>2. ASSUME NEW r, Contains(t, r) PROVE Contains(q, r) /\ r # Head(q)
  <2>1. PICK i \in 1 .. Len(t) : t[i] = r
    BY <1>2 DEF Contains
  <2>2. i + 1 \in 1 .. Len(q) /\ q[i + 1] = r /\ i + 1 # 1
    BY <1>1, <2>1
  <2>3. r # q[1]
    BY <1>1, <2>2 DEF Distinct
  <2> QED BY <1>1, <2>2, <2>3 DEF Contains
<1>3. ASSUME NEW r, Contains(q, r), r # Head(q) PROVE Contains(t, r)
  <2>1. PICK i \in 1 .. Len(q) : q[i] = r
    BY <1>3 DEF Contains
  <2>2. i - 1 \in 1 .. Len(t) /\ t[i - 1] = q[(i - 1) + 1] /\ (i - 1) + 1 = i
    <3>1. i # 1
      BY <1>1, <1>3, <2>1
    <3>2. i - 1 \in 1 .. Len(t) /\ (i - 1) + 1 = i
      BY <1>1, <3>1
    <3> QED BY <1>1, <3>2
  <2> QED BY <2>1, <2>2 DEF Contains
<1>4. ASSUME NEW a, NEW b, a # Head(q), NEW i \in DOMAIN t, NEW j \in DOMAIN t,
             i < j, t[i] = a, t[j] = b
      PROVE  \E x, y \in DOMAIN q : x < y /\ q[x] = a /\ q[y] = b
  <2>1. /\ i + 1 \in DOMAIN q /\ j + 1 \in DOMAIN q /\ i + 1 < j + 1
        /\ q[i + 1] = a /\ q[j + 1] = b
    BY <1>1, <1>4
  <2> QED BY <2>1
<1>5. ASSUME NEW a, NEW b, a # Head(q), NEW i \in DOMAIN q, NEW j \in DOMAIN q,
             i < j, q[i] = a, q[j] = b
      PROVE  \E x, y \in DOMAIN t : x < y /\ t[x] = a /\ t[y] = b
  <2>1. i # 1
    BY <1>1, <1>5
  <2>2. /\ i - 1 \in 1 .. Len(t) /\ j - 1 \in 1 .. Len(t) /\ i - 1 < j - 1
        /\ (i - 1) + 1 = i /\ (j - 1) + 1 = j
    BY <1>1, <1>5, <2>1
  <2>3. t[i - 1] = a /\ t[j - 1] = b
    BY <1>1, <1>5, <2>2
  <2> QED BY <1>1, <2>2, <2>3
<1>6. \A r : Contains(t, r) <=> Contains(q, r) /\ r # Head(q)
  BY <1>2, <1>3
<1>7. ASSUME NEW a, NEW b, a # Head(q)
      PROVE  (\E i, j \in DOMAIN t : i < j /\ t[i] = a /\ t[j] = b) <=>
             (\E i, j \in DOMAIN q : i < j /\ q[i] = a /\ q[j] = b)
  <2>1. ASSUME \E i, j \in DOMAIN t : i < j /\ t[i] = a /\ t[j] = b
        PROVE  \E i, j \in DOMAIN q : i < j /\ q[i] = a /\ q[j] = b
    BY <1>4, <1>7, <2>1
  <2>2. ASSUME \E i, j \in DOMAIN q : i < j /\ q[i] = a /\ q[j] = b
        PROVE  \E i, j \in DOMAIN t : i < j /\ t[i] = a /\ t[j] = b
    BY <1>5, <1>7, <2>2
  <2> QED BY <2>1, <2>2
<1> HIDE DEF t
<1>8. Without(q, t, Head(q))
  BY <1>6, <1>7 DEF Without
<1> QED BY <1>8 DEF t

\* The order at the front is executed and leaves its queue.
LEMMA FullTurn ==
  ASSUME NEW bk, NEW o, NEW l, NEW s, Sound(bk, o, l, s), NEW id \in Ids,
         NEW ck, NEW k, Sound(ck, o, k, s), NEW p \in Prices, Turn(bk, o, l, ck, k, id, p),
         LET m == Head(bk[Opposite(o[id].side)][p]) IN l[m] = Smaller(l[id], l[m])
  PROVE  Leaves(bk, o, l, ck, k, id, Head(bk[Opposite(o[id].side)][p]))
<1> DEFINE d == Opposite(o[id].side)
           m == Head(bk[d][p])
<1>1. /\ m \in Makers(bk, o, id)
      /\ o[m].side = d /\ o[m].price = p
      /\ Served(bk, o, id, m) = {}
      /\ \A r \in Makers(bk, o, id) : r # m => m \in Served(bk, o, id, r)
      /\ m \in Sharers(bk, o, l, id)
  <2>1. /\ m \in Makers(bk, o, id)
        /\ Served(bk, o, id, m) = {}
        /\ \A r \in Makers(bk, o, id) : r # m => m \in Served(bk, o, id, r)
        /\ m \in Sharers(bk, o, l, id)
    <3>1. ServedFirst(bk, o, l, id, m)
      BY FirstMaker DEF Turn
    <3> QED BY <3>1 DEF ServedFirst
  <2>2. o[m].side = d /\ o[m].price = p
    <3>1. bk[d][p] # <<>> /\ d \in Sides
      BY TurnQueue
    <3> HIDE DEF d
    <3> QED BY <3>1, HeadPlace
  <2> QED BY <2>1, <2>2
<1>2. /\ m \in Ids /\ l[m] \in Nat /\ l[id] \in Nat /\ d \in Sides
      /\ m # id
  <2> HIDE DEF m
  <2>1. m \in Ids /\ l[m] \in Nat /\ l[id] \in Nat /\ Member(bk, m) /\ d \in Sides
    <3>1. m \in Ids /\ l[m] \in Nat /\ Member(bk, m) /\ o[m].side \in Sides
      BY <1>1, MakersFacts
    <3> QED BY <1>1, <3>1, LeftIsNat
  <2> QED BY <2>1 DEF Turn
<1>3. /\ \A side \in Sides, q \in Prices : side # d \/ q # p => ck[side][q] = bk[side][q]
      /\ ck[d][p] = Tail(bk[d][p])
      /\ k[id] = l[id] - l[m] /\ k[m] = 0
      /\ \A r \in Ids : r # id /\ r # m => k[r] = l[r]
  <2>1. l[m] = Smaller(l[id], l[m])
    OBVIOUS
  <2>2. /\ \A side \in Sides, q \in Prices : side # d \/ q # p => ck[side][q] = bk[side][q]
        /\ ck[d][p] = IF l[m] = Smaller(l[id], l[m]) THEN Tail(bk[d][p]) ELSE bk[d][p]
        /\ k[id] = l[id] - Smaller(l[id], l[m])
        /\ k[m] = l[m] - Smaller(l[id], l[m])
        /\ \A r \in Ids : r # id /\ r # m => k[r] = l[r]
    BY DEF Turn
  <2> HIDE DEF d, m
  <2> QED BY <1>2, <2>1, <2>2
<1>4. Without(bk[d][p], ck[d][p], m)
  <2>1. bk[d][p] \in Seq(Ids) /\ Distinct(bk[d][p])
    <3>1. bk \in [Sides -> [Prices -> Seq(Ids)]]
      BY DEF Sound
    <3>2. \A side \in Sides, q \in Prices : Distinct(bk[side][q])
      BY DEF Sound
    <3> HIDE DEF d, m
    <3> QED BY <1>2, <3>1, <3>2
  <2>2. bk[d][p] # <<>>
    BY DEF Turn
  <2> HIDE DEF d
  <2> QED BY <1>3, <2>1, <2>2, TailFacts
<1> HIDE DEF d, m
\* Where the others are.
<1>5. ASSUME NEW side \in Sides, NEW q \in Prices, NEW r
      PROVE  Contains(ck[side][q], r) <=> Contains(bk[side][q], r) /\ r # m
  <2>1. CASE side = d /\ q = p
    BY <1>4, <2>1 DEF Without
  <2>2. CASE ~(side = d /\ q = p)
    <3>1. ck[side][q] = bk[side][q]
      BY <1>3, <2>2
    <3>2. ~Contains(bk[side][q], m)
      BY <1>1, <2>2, PlaceOfMember
    <3> QED BY <3>1, <3>2
  <2> QED BY <2>1, <2>2
<1>6. Makers(ck, o, id) = Makers(bk, o, id) \ {m}
  BY <1>5 DEF Makers
<1>7. ASSUME NEW a, NEW b, a # m, b # m
      PROVE  InFront(ck, a, b) <=> InFront(bk, a, b)
  <2>1. ASSUME NEW side \in Sides, NEW q \in Prices
        PROVE  (\E i, j \in DOMAIN ck[side][q] : i < j /\ ck[side][q][i] = a /\ ck[side][q][j] = b)
               <=> (\E i, j \in DOMAIN bk[side][q] : i < j /\ bk[side][q][i] = a /\ bk[side][q][j] = b)
    <3>1. CASE side = d /\ q = p
      BY <1>4, <1>7, <3>1 DEF Without
    <3>2. CASE ~(side = d /\ q = p)
      BY <1>3, <3>2
    <3> QED BY <3>1, <3>2
  <2>2. \A side \in Sides, q \in Prices :
          /\ Contains(ck[side][q], a) <=> Contains(bk[side][q], a)
          /\ Contains(ck[side][q], b) <=> Contains(bk[side][q], b)
    BY <1>5, <1>7
  <2> QED BY <2>1, <2>2 DEF InFront
<1>8. ASSUME NEW r \in Makers(ck, o, id)
      PROVE  /\ r # m /\ r \in Makers(bk, o, id)
             /\ m \notin Served(ck, o, id, r)
             /\ Served(bk, o, id, r) = Served(ck, o, id, r) \cup {m}
  <2>1. r # m /\ r \in Makers(bk, o, id)
    BY <1>6
  <2>2. m \in Served(bk, o, id, r)
    BY <1>1, <2>1
  <2>3. m \notin Served(ck, o, id, r)
    BY <1>6 DEF Served
  <2>4. ASSUME NEW a, a # m
        PROVE  a \in Served(bk, o, id, r) <=> a \in Served(ck, o, id, r)
    BY <1>6, <1>7, <2>1, <2>4 DEF Served
  <2> QED BY <2>1, <2>2, <2>3, <2>4
\* What the others get.
<1>9. ASSUME NEW r \in Makers(ck, o, id)
      PROVE  Share(ck, o, k, id, r) = Share(bk, o, l, id, r)
  <2> DEFINE S == Served(bk, o, id, r)
             T == Served(ck, o, id, r)
  <2>1. /\ S \in SUBSET Makers(bk, o, id) /\ IsFiniteSet(S) /\ IsFiniteSet(T)
        /\ SumFunctionOnSet(l, S) \in Nat /\ SumFunctionOnSet(k, T) \in Nat
        /\ T \in SUBSET Makers(ck, o, id)
    BY <1>8, ShareType
  <2>2. S = T \cup {m} /\ m \notin T
    BY <1>8
  <2>3. \A x \in S : x \in Ids /\ l[x] \in Int /\ x # id
    <3>1. \A x \in Makers(bk, o, id) : x \in Ids /\ l[x] \in Nat /\ Member(bk, x)
      BY MakersFacts
    <3>2. ~Member(bk, id)
      BY DEF Turn
    <3> QED BY <2>1, <3>1, <3>2
  <2>4. SumFunctionOnSet(l, S) = l[m] + SumFunctionOnSet(l, T)
    <3> HIDE DEF S, T
    <3> QED BY <2>1, <2>2, <2>3, SumInsert
  <2>5. SumFunctionOnSet(k, T) = SumFunctionOnSet(l, T)
    <3>1. \A x \in T : k[x] = l[x]
      BY <1>3, <2>2, <2>3
    <3> HIDE DEF T
    <3> QED BY <2>1, <3>1, SumSame
  <2>6. k[r] = l[r]
    <3>1. r \in Ids /\ r # id
      <4>1. r \in Ids /\ Member(bk, r)
        BY <1>8, MakersFacts
      <4> QED BY <4>1 DEF Turn
    <3> QED BY <1>3, <1>8, <3>1
  <2>7. k[id] - SumFunctionOnSet(k, T) = l[id] - SumFunctionOnSet(l, S)
    BY <1>2, <1>3, <2>1, <2>4, <2>5
  <2> QED BY <2>6, <2>7 DEF Share
<1>10. Sharers(ck, o, k, id) = Sharers(bk, o, l, id) \ {m}
  BY <1>6, <1>9 DEF Sharers
<1>11. Leaves(bk, o, l, ck, k, id, m)
  BY <1>1, <1>3, <1>6, <1>8, <1>9, <1>10 DEF Leaves, Sharers
<1> QED BY <1>11 DEF d, m

\* Whether or not the order at the front is executed.
LEMMA TurnLeaves ==
  ASSUME NEW bk, NEW o, NEW l, NEW s, Sound(bk, o, l, s), NEW id \in Ids,
         NEW ck, NEW k, Sound(ck, o, k, s), NEW p \in Prices, Turn(bk, o, l, ck, k, id, p)
  PROVE  Leaves(bk, o, l, ck, k, id, Head(bk[Opposite(o[id].side)][p]))
BY LastTurn, FullTurn

\* What the front order of the best level is to the call.
LEMMA FrontIs ==
  ASSUME NEW bk, NEW o, NEW l, NEW s, Sound(bk, o, l, s), NEW id \in Ids,
         NEW ck, NEW k, NEW p \in Prices, Turn(bk, o, l, ck, k, id, p), NEW m,
         m = Head(bk[Opposite(o[id].side)][p])
  PROVE  /\ m \in Ids /\ m # id /\ m \in Makers(bk, o, id) /\ m \in Sharers(bk, o, l, id)
         /\ o[m].side = Opposite(o[id].side) /\ o[m].price = p
         /\ Served(bk, o, id, m) = {}
         /\ \A r \in Makers(bk, o, id) : r # m => m \in Served(bk, o, id, r)
         /\ Share(bk, o, l, id, m) = Smaller(l[id], l[m])
         /\ l[id] \in Nat /\ l[m] \in Nat /\ l[id] > 0
         /\ k[id] = l[id] - Share(bk, o, l, id, m)
         /\ k[m] = l[m] - Share(bk, o, l, id, m)
         /\ \A r \in Ids : r # id /\ r # m => k[r] = l[r]
<1> DEFINE d == Opposite(o[id].side)
<1>1. /\ m \in Makers(bk, o, id)
      /\ Served(bk, o, id, m) = {}
      /\ \A r \in Makers(bk, o, id) : r # m => m \in Served(bk, o, id, r)
      /\ Share(bk, o, l, id, m) = Smaller(l[id], l[m])
      /\ m \in Sharers(bk, o, l, id)
  <2>1. ServedFirst(bk, o, l, id, m)
    BY FirstMaker DEF Turn
  <2> QED BY <2>1 DEF ServedFirst
<1>2. o[m].side = d /\ o[m].price = p
  <2>1. bk[d][p] \in Seq(Ids) /\ bk[d][p] # <<>> /\ d \in Sides
    BY TurnQueue
  <2> HIDE DEF d
  <2>2. 1 \in DOMAIN bk[d][p] /\ m = bk[d][p][1]
    BY <2>1 DEF d
  <2> QED BY <2>1, <2>2, PlaceOf
<1>3. m \in Ids /\ Member(bk, m) /\ l[m] \in Nat /\ l[id] \in Nat
  BY <1>1, MakersFacts, LeftIsNat
<1>4. /\ k[id] = l[id] - Smaller(l[id], l[m])
      /\ k[m] = l[m] - Smaller(l[id], l[m])
      /\ \A r \in Ids : r # id /\ r # m => k[r] = l[r]
      /\ l[id] > 0 /\ ~Member(bk, id)
  BY DEF Turn
<1> QED BY <1>1, <1>2, <1>3, <1>4

\* A turn does not change what the call will have left of each order,
LEMMA TurnKeepsRemains ==
  ASSUME NEW bk, NEW o, NEW l, NEW s, Sound(bk, o, l, s), NEW id \in Ids,
         NEW ck, NEW k, Sound(ck, o, k, s), NEW p \in Prices, Turn(bk, o, l, ck, k, id, p)
  PROVE  Remains(ck, o, k, id) = Remains(bk, o, l, id)
<1> DEFINE m == Head(bk[Opposite(o[id].side)][p])
           n == Share(bk, o, l, id, m)
           M == Makers(bk, o, id)
           N == Makers(ck, o, id)
           f == Shares(bk, o, l, id)
           g == Shares(ck, o, k, id)
<1>1. Leaves(bk, o, l, ck, k, id, m)
  BY TurnLeaves
<1>2. /\ m \in Ids /\ m # id /\ m \in M
      /\ l[id] \in Nat /\ l[m] \in Nat
      /\ k[id] = l[id] - n /\ k[m] = l[m] - n
      /\ \A r \in Ids : r # id /\ r # m => k[r] = l[r]
  BY FrontIs
<1>3. /\ IsFiniteSet(M) /\ IsFiniteSet(N)
      /\ \A r \in M : f[r] = Share(bk, o, l, id, r) /\ f[r] \in Nat
      /\ \A r \in N : g[r] = Share(ck, o, k, id, r) /\ g[r] \in Nat
      /\ DOMAIN f = M /\ DOMAIN g = N
  <2>1. IsFiniteSet(M) /\ IsFiniteSet(N)
    BY MakersFacts
  <2>2. \A r \in M : Share(bk, o, l, id, r) \in Nat
    BY ShareType
  <2>3. \A r \in N : Share(ck, o, k, id, r) \in Nat
    BY ShareType
  <2> QED BY <2>1, <2>2, <2>3 DEF Shares
<1>4. /\ M = N \cup {m}
      /\ m \in N => g[m] = 0
      /\ m \notin N => k[m] = 0
      /\ \A r \in N : r # m => g[r] = f[r]
  BY <1>1, <1>3 DEF Leaves
<1>5. id \notin M
  <2>1. id \in M => Member(bk, id)
    BY MakersFacts
  <2> QED BY <2>1 DEF Turn
<1>6. f[m] = n /\ n \in Nat
  BY <1>2, <1>3
<1> HIDE DEF m, n, M, N, f, g
<1>7. /\ SumFunctionOnSet(f, M) \in Int /\ SumFunctionOnSet(g, N) \in Int
      /\ SumFunctionOnSet(g, N) = SumFunctionOnSet(f, M) - n
  <2> DEFINE R == M \ {m}
  <2>1. IsFiniteSet(R) /\ m \notin R
    BY <1>3, FS_RemoveElement
  <2>2. SumFunctionOnSet(f, M) = f[m] + SumFunctionOnSet(f, R)
    <3>1. \A x \in M : f[x] \in Int
      BY <1>3
    <3> QED BY <1>2, <1>3, <3>1, SumRemove
  <2>3. SumFunctionOnSet(f, R) \in Int
    <3>1. \A x \in R : f[x] \in Int
      BY <1>3
    <3> HIDE DEF R
    <3> QED BY <2>1, <3>1, SumType
  <2>4. SumFunctionOnSet(g, R) = SumFunctionOnSet(f, R)
    <3>1. \A x \in R : g[x] = f[x]
      BY <1>4
    <3> HIDE DEF R
    <3> QED BY <2>1, <3>1, SumSame
  <2>5. SumFunctionOnSet(g, N) = SumFunctionOnSet(g, R)
    <3>1. CASE m \in N
      <4>1. N \ {m} = R
        BY <1>4
      <4>2. \A x \in N : g[x] \in Int
        BY <1>3
      <4>3. SumFunctionOnSet(g, N) = g[m] + SumFunctionOnSet(g, N \ {m})
        BY <1>3, <3>1, <4>2, SumRemove
      <4>4. g[m] = 0
        BY <1>4, <3>1
      <4>5. SumFunctionOnSet(g, N \ {m}) = SumFunctionOnSet(g, R)
        BY <4>1
      <4> HIDE DEF R
      <4> QED BY <2>3, <2>4, <4>3, <4>4, <4>5
    <3>2. CASE m \notin N
      <4>1. N = R
        BY <1>4, <3>2
      <4> HIDE DEF R
      <4> QED BY <4>1
    <3> QED BY <3>1, <3>2
  <2> HIDE DEF R
  <2> QED BY <1>6, <2>2, <2>3, <2>4, <2>5
<1>8. SumFunction(f) = SumFunctionOnSet(f, M) /\ SumFunction(g) = SumFunctionOnSet(g, N)
  BY <1>3 DEF SumFunction
<1>9. ASSUME NEW i \in Ids
      PROVE  (IF i = id THEN k[id] - SumFunction(g)
              ELSE IF i \in N THEN k[i] - g[i] ELSE k[i])
             = (IF i = id THEN l[id] - SumFunction(f)
                ELSE IF i \in M THEN l[i] - f[i] ELSE l[i])
  <2>1. CASE i = id
    <3>1. k[id] - SumFunction(g) = l[id] - SumFunction(f)
      BY <1>2, <1>6, <1>7, <1>8
    <3> QED BY <2>1, <3>1
  <2>2. CASE i = m
    <3>1. (IF m \in N THEN k[m] - g[m] ELSE k[m]) = l[m] - f[m]
      BY <1>2, <1>4, <1>6
    <3> QED BY <1>2, <2>2, <3>1
  <2>3. CASE i # id /\ i # m
    BY <1>2, <1>4, <2>3
  <2> QED BY <2>1, <2>2, <2>3
<1>10. Remains(bk, o, l, id)
         = [i \in Ids |-> IF i = id THEN l[id] - SumFunction(f)
                          ELSE IF i \in M THEN l[i] - f[i] ELSE l[i]]
  BY <1>3 DEF Remains, f, M
<1>11. Remains(ck, o, k, id)
         = [i \in Ids |-> IF i = id THEN k[id] - SumFunction(g)
                          ELSE IF i \in N THEN k[i] - g[i] ELSE k[i]]
  BY <1>3 DEF Remains, g, N
<1> QED BY <1>9, <1>10, <1>11

\* The trades a call will make.
LEMMA TradesMadeType ==
  ASSUME NEW bk, NEW o, NEW l, NEW s, Sound(bk, o, l, s), NEW id \in Ids
  PROVE  /\ TradesMade(bk, o, l, id) \in Seq(Trades)
         /\ Len(TradesMade(bk, o, l, id)) = Cardinality(Sharers(bk, o, l, id))
<1> DEFINE K == Cardinality(Sharers(bk, o, l, id))
<1>1. K \in Nat
  BY NthIs
<1>2. ASSUME NEW i \in 1 .. K
      PROVE  LET r == Nth(bk, o, l, id, i)
             IN  [maker |-> r, quantity |-> Share(bk, o, l, id, r), price |-> o[r].price] \in Trades
  <2> DEFINE r == Nth(bk, o, l, id, i)
  <2>1. r \in Makers(bk, o, id)
    BY NthIs
  <2> HIDE DEF r
  <2>2. r \in Ids /\ o[r].price \in Prices /\ Share(bk, o, l, id, r) \in Nat
    BY <2>1, MakersFacts, ShareType
  <2>3. [maker |-> r, quantity |-> Share(bk, o, l, id, r), price |-> o[r].price] \in Trades
    BY <2>2 DEF Trades
  <2> QED BY <2>3 DEF r
<1> HIDE DEF K
<1> DEFINE t == TradesMade(bk, o, l, id)
<1>3. t \in [1 .. K -> Trades]
  BY <1>2 DEF TradesMade, K
<1> HIDE DEF t
<1>4. t \in Seq(Trades) /\ Len(t) = K
  BY <1>1, <1>3
<1> QED BY <1>4 DEF t, K

\* nor its trades: the one it makes was the first of those to come,
LEMMA TurnKeepsTrades ==
  ASSUME NEW bk, NEW o, NEW l, NEW s, Sound(bk, o, l, s), NEW id \in Ids,
         NEW ck, NEW k, Sound(ck, o, k, s), NEW p \in Prices, Turn(bk, o, l, ck, k, id, p),
         NEW m, m = Head(bk[Opposite(o[id].side)][p]),
         NEW t, t = TradesMade(bk, o, l, id), NEW u, u = TradesMade(ck, o, k, id)
  PROVE  /\ t \in Seq(Trades) /\ u \in Seq(Trades) /\ Len(t) = Len(u) + 1
         /\ t[1] = [maker |-> m, quantity |-> Smaller(l[id], l[m]), price |-> p]
         /\ \A j \in 1 .. Len(u) : t[j + 1] = u[j]
<1> DEFINE S == Sharers(bk, o, l, id)
           R == Sharers(ck, o, k, id)
<1>1. /\ R = S \ {m}
      /\ \A r \in Makers(ck, o, id) : r # m =>
           Share(ck, o, k, id, r) = Share(bk, o, l, id, r)
      /\ \A r \in R : /\ m \notin Served(ck, o, id, r)
                      /\ Served(bk, o, id, r) = Served(ck, o, id, r) \cup {m}
  BY TurnLeaves DEF Leaves
<1>2. /\ m \in S /\ Served(bk, o, id, m) = {} /\ o[m].price = p
      /\ Share(bk, o, l, id, m) = Smaller(l[id], l[m])
  BY FrontIs
<1>3. /\ IsFiniteSet(S) /\ Cardinality(S) \in Nat /\ Cardinality(R) \in Nat
      /\ R \subseteq Makers(ck, o, id)
  BY NthIs
<1>4. Cardinality(S) = Cardinality(R) + 1
  <2> HIDE DEF S, R
  <2>1. Cardinality(S \ {m}) = Cardinality(S) - 1
    BY <1>2, <1>3, FS_RemoveElement
  <2>2. Cardinality(R) = Cardinality(S) - 1
    BY <1>1, <2>1
  <2> QED BY <1>3, <2>2
<1>5. /\ t \in Seq(Trades) /\ u \in Seq(Trades)
      /\ Len(t) = Cardinality(S) /\ Len(u) = Cardinality(R)
  BY TradesMadeType
<1>6. \A i \in 1 .. Cardinality(S) :
        t[i] = [maker |-> Nth(bk, o, l, id, i),
                quantity |-> Share(bk, o, l, id, Nth(bk, o, l, id, i)),
                price |-> o[Nth(bk, o, l, id, i)].price]
  BY DEF TradesMade
<1>7. \A i \in 1 .. Cardinality(R) :
        u[i] = [maker |-> Nth(ck, o, k, id, i),
                quantity |-> Share(ck, o, k, id, Nth(ck, o, k, id, i)),
                price |-> o[Nth(ck, o, k, id, i)].price]
  BY DEF TradesMade
<1> HIDE DEF S, R
<1>8. t[1] = [maker |-> m, quantity |-> Smaller(l[id], l[m]), price |-> p]
  <2>1. Nth(bk, o, l, id, Cardinality(Served(bk, o, id, m)) + 1) = m
    BY <1>2, NthIs DEF S
  <2>2. Cardinality(Served(bk, o, id, m)) + 1 = 1
    BY <1>2, FS_EmptySet
  <2>3. Nth(bk, o, l, id, 1) = m
    BY <2>1, <2>2
  <2>4. 1 \in 1 .. Cardinality(S)
    BY <1>3, <1>4
  <2> QED BY <1>2, <1>6, <2>3, <2>4
<1>9. ASSUME NEW j \in 1 .. Len(u)
      PROVE  t[j + 1] = u[j]
  <2> DEFINE r == Nth(ck, o, k, id, j)
  <2>1. j \in 1 .. Cardinality(R)
    BY <1>5
  <2>2. r \in R /\ Cardinality(Served(ck, o, id, r)) = j - 1
    BY <2>1, NthIs DEF R
  <2> HIDE DEF r
  <2>3. r \in S /\ r # m /\ r \in Makers(ck, o, id)
    BY <1>1, <1>3, <2>2
  <2>4. Cardinality(Served(bk, o, id, r)) = j
    <3>1. IsFiniteSet(Served(ck, o, id, r))
      BY <2>3, ShareType
    <3>2. Cardinality(Served(ck, o, id, r) \cup {m}) = Cardinality(Served(ck, o, id, r)) + 1
      BY <1>1, <2>2, <3>1, FS_AddElement
    <3>3. Cardinality(Served(bk, o, id, r)) = (j - 1) + 1
      BY <1>1, <2>2, <3>2
    <3> QED BY <2>1, <3>3
  <2>5. Nth(bk, o, l, id, j + 1) = r /\ j + 1 \in 1 .. Cardinality(S)
    BY <2>3, <2>4, NthIs DEF S
  <2>6. Share(ck, o, k, id, r) = Share(bk, o, l, id, r)
    BY <1>1, <2>3
  <2>7. u[j] = [maker |-> r, quantity |-> Share(ck, o, k, id, r), price |-> o[r].price]
    BY <1>7, <2>1 DEF r
  <2>8. t[j + 1] = [maker |-> r, quantity |-> Share(bk, o, l, id, r), price |-> o[r].price]
    BY <1>6, <2>5
  <2> QED BY <2>6, <2>7, <2>8
<1> QED BY <1>3, <1>4, <1>5, <1>8, <1>9

OneMore(t, u, e) ==
  /\ t \in Seq(Trades) /\ u \in Seq(Trades) /\ Len(t) = Len(u) + 1
  /\ t[1] = e
  /\ \A j \in 1 .. Len(u) : t[j + 1] = u[j]

LEMMA TurnIsOneTrade ==
  ASSUME NEW bk, NEW o, NEW l, NEW s, Sound(bk, o, l, s), NEW id \in Ids,
         NEW ck, NEW k, Sound(ck, o, k, s), NEW p \in Prices, Turn(bk, o, l, ck, k, id, p),
         NEW m, m = Head(bk[Opposite(o[id].side)][p])
  PROVE  OneMore(TradesMade(bk, o, l, id), TradesMade(ck, o, k, id),
                 [maker |-> m, quantity |-> Smaller(l[id], l[m]), price |-> p])
<1> DEFINE t == TradesMade(bk, o, l, id)
           u == TradesMade(ck, o, k, id)
<1> SUFFICES /\ t \in Seq(Trades) /\ u \in Seq(Trades) /\ Len(t) = Len(u) + 1
             /\ t[1] = [maker |-> m, quantity |-> Smaller(l[id], l[m]), price |-> p]
             /\ \A j \in 1 .. Len(u) : t[j + 1] = u[j]
  BY DEF OneMore
<1> QED BY TurnKeepsTrades

\* What is left of a level once the executed orders are out.
LEMMA EmptiedTail ==
  ASSUME NEW S, NEW q \in Seq(S), q # <<>>, NEW A, A[Head(q)] = 0
  PROVE  Emptied(Tail(q), A) = Emptied(q, A)
<1> DEFINE t == Tail(q)
           C == {i \in DOMAIN q : A[q[i]] = 0}
           D == {i \in DOMAIN t : A[t[i]] = 0}
<1>1. /\ t \in Seq(S) /\ Len(t) = Len(q) - 1 /\ Len(q) \in Nat /\ Len(t) \in Nat
      /\ \A i \in 1 .. Len(t) : t[i] = q[i + 1]
      /\ Head(q) = q[1] /\ 1 \in 1 .. Len(q)
      /\ DOMAIN q = 1 .. Len(q) /\ DOMAIN t = 1 .. Len(t)
  OBVIOUS
<1> HIDE DEF t
<1>2. /\ IsFiniteSet(C) /\ Cardinality(C) \in Nat /\ 1 \in C
      /\ IsFiniteSet(D) /\ Cardinality(D) \in Nat /\ D \subseteq 1 .. Len(t)
  <2>1. IsFiniteSet(1 .. Len(q)) /\ IsFiniteSet(1 .. Len(t))
    BY <1>1, FS_Interval
  <2>2. C \in SUBSET (1 .. Len(q)) /\ D \in SUBSET (1 .. Len(t)) /\ 1 \in C
    BY <1>1
  <2> QED BY <2>1, <2>2, FS_Subset, FS_CardinalityType
<1>3. Cardinality(C) = Cardinality(D) + 1
  <2> DEFINE E == C \ {1}
             f == [i \in D |-> i + 1]
  <2>1. f \in Bijection(D, E)
    <3>1. f \in [D -> E]
      BY <1>1
    <3>2. \A i, j \in D : f[i] = f[j] => i = j
      BY <1>1
    <3>3. ASSUME NEW e \in E PROVE \E i \in D : f[i] = e
      <4>1. e - 1 \in 1 .. Len(t) /\ (e - 1) + 1 = e /\ t[e - 1] = q[(e - 1) + 1]
        BY <1>1
      <4>2. e - 1 \in D
        BY <1>1, <4>1
      <4>3. f[e - 1] = e
        BY <4>1, <4>2
      <4> QED BY <4>2, <4>3
    <3> HIDE DEF f, D, E
    <3> QED BY <3>1, <3>2, <3>3 DEF Bijection, Injection, Surjection, IsInjective
  <2>2. Cardinality(E) = Cardinality(D)
    BY <1>2, <2>1, FS_Bijection DEF ExistsBijection
  <2>3. Cardinality(E) = Cardinality(C) - 1
    BY <1>2, FS_RemoveElement
  <2> QED BY <1>2, <2>2, <2>3
<1>4. Cardinality(D) <= Len(t)
  <2>1. IsFiniteSet(1 .. Len(t)) /\ Cardinality(1 .. Len(t)) = Len(t)
    <3> DEFINE n == Len(t)
    <3>1. n \in Nat /\ 1 \in Int /\ n \in Int
      BY <1>1
    <3> HIDE DEF n
    <3>2. /\ IsFiniteSet(1 .. n)
          /\ Cardinality(1 .. n) = IF 1 > n THEN 0 ELSE n - 1 + 1
      BY <3>1, FS_Interval
    <3>3. Cardinality(1 .. n) = n
      BY <3>1, <3>2
    <3> QED BY <3>2, <3>3 DEF n
  <2> HIDE DEF D
  <2>2. D \in SUBSET (1 .. Len(t))
    BY <1>2
  <2> QED BY <2>1, <2>2, FS_Subset
<1>5. ASSUME NEW c \in Nat, c <= Len(t)
      PROVE  SubSeq(t, 1 + c, Len(t)) = SubSeq(q, 1 + (c + 1), Len(q))
  BY <1>1, <1>5
<1>6. Emptied(q, A) = SubSeq(q, 1 + Cardinality(C), Len(q))
      /\ Emptied(t, A) = SubSeq(t, 1 + Cardinality(D), Len(t))
  BY DEF Emptied
<1> HIDE DEF C, D
<1> QED BY <1>2, <1>3, <1>4, <1>5, <1>6 DEF t

\* nor its book.
LEMMA TurnKeepsBook ==
  ASSUME NEW bk, NEW o, NEW l, NEW s, Sound(bk, o, l, s), NEW id \in Ids,
         NEW ck, NEW k, Sound(ck, o, k, s), NEW p \in Prices, Turn(bk, o, l, ck, k, id, p)
  PROVE  BookAfter(ck, o, Remains(ck, o, k, id), id) = BookAfter(bk, o, Remains(bk, o, l, id), id)
<1> DEFINE d == Opposite(o[id].side)
           m == Head(bk[d][p])
           A == Remains(bk, o, l, id)
<1>1. Remains(ck, o, k, id) = A
  BY TurnKeepsRemains
<1>2. ASSUME NEW side \in Sides, NEW q \in Prices
      PROVE  Emptied(ck[side][q], A) = Emptied(bk[side][q], A)
  <2>1. CASE ~(side = d /\ q = p /\ l[m] = Smaller(l[id], l[m]))
    <3>1. ck[side][q] = bk[side][q]
      BY <2>1 DEF Turn
    <3> QED BY <3>1
  <2>2. CASE side = d /\ q = p /\ l[m] = Smaller(l[id], l[m])
    <3>1. ck[d][p] = Tail(bk[d][p])
      BY <2>2 DEF Turn
    <3>2. bk[d][p] \in Seq(Ids) /\ bk[d][p] # <<>>
      BY TurnQueue
    <3>3. A[m] = 0
      <4>1. m \in Ids /\ m # id /\ m \in Makers(bk, o, id) /\ l[m] \in Nat
            /\ Share(bk, o, l, id, m) = l[m]
        <5>1. m = Head(bk[Opposite(o[id].side)][p])
          OBVIOUS
        <5> HIDE DEF m
        <5>2. /\ m \in Ids /\ m # id /\ m \in Makers(bk, o, id) /\ l[m] \in Nat
              /\ Share(bk, o, l, id, m) = Smaller(l[id], l[m])
          BY <5>1, FrontIs
        <5> QED BY <2>2, <5>2
      <4> HIDE DEF m
      <4>2. A[m] = l[m] - Share(bk, o, l, id, m)
        BY <4>1 DEF Remains
      <4> QED BY <4>1, <4>2
    <3> HIDE DEF A, d
    <3> QED BY <2>2, <3>1, <3>2, <3>3, EmptiedTail
  <2> QED BY <2>1, <2>2
<1> HIDE DEF A
<1>3. EmptiedBook(ck, A) = EmptiedBook(bk, A)
  BY <1>2 DEF EmptiedBook
<1> QED BY <1>1, <1>3 DEF BookAfter, A

\* The loops have ended: nothing more is executed.
LEMMA CallOver ==
  ASSUME NEW bk, NEW o, NEW l, NEW s, Sound(bk, o, l, s), NEW id \in Ids,
         \/ l[id] = 0
         \/ \A p \in Prices : bk[Opposite(o[id].side)][p] # <<>> => ~Crosses(o[id], p)
  PROVE  /\ Remains(bk, o, l, id) = l
         /\ TradesMade(bk, o, l, id) = <<>>
         /\ BookAfter(bk, o, l, id) = Placed(bk, o, l, id)
<1>1. ASSUME NEW r \in Makers(bk, o, id)
      PROVE  Share(bk, o, l, id, r) = 0
  <2>1. CASE l[id] = 0
    BY <2>1, ShareType
  <2>2. CASE \A p \in Prices : bk[Opposite(o[id].side)][p] # <<>> => ~Crosses(o[id], p)
    <3>1. /\ o[r].side = Opposite(o[id].side) /\ o[r].price \in Prices
          /\ Contains(bk[o[r].side][o[r].price], r)
      BY MakersFacts
    <3>2. bk[o[r].side][o[r].price] # <<>>
      BY <3>1 DEF Contains
    <3>3. Crosses(o[id], o[r].price)
      BY DEF Makers
    <3> QED BY <2>2, <3>1, <3>2, <3>3
  <2> QED BY <2>1, <2>2
<1>2. l \in [Ids -> Nat]
  BY DEF Sound
<1>3. SumFunction(Shares(bk, o, l, id)) = 0
  <2> DEFINE f == Shares(bk, o, l, id)
             M == Makers(bk, o, id)
  <2>1. DOMAIN f = M /\ \A r \in M : f[r] = 0
    BY <1>1 DEF Shares
  <2>2. IsFiniteSet(M)
    BY MakersFacts
  <2> HIDE DEF f, M
  <2>3. SumFunctionOnSet(f, M) = 0
    BY <2>1, <2>2, SumOfZeros
  <2> QED BY <2>1, <2>3 DEF SumFunction, f
<1>4. Remains(bk, o, l, id) = l
  <2>1. \A i \in Ids : Remains(bk, o, l, id)[i] = l[i]
    BY <1>1, <1>2, <1>3 DEF Remains
  <2>2. Remains(bk, o, l, id) = [i \in Ids |-> Remains(bk, o, l, id)[i]]
    BY DEF Remains
  <2>3. l = [i \in Ids |-> l[i]]
    BY <1>2
  <2> QED BY <2>1, <2>2, <2>3
<1>5. TradesMade(bk, o, l, id) = <<>>
  <2>1. Sharers(bk, o, l, id) = {}
    BY <1>1 DEF Sharers
  <2>2. Len(TradesMade(bk, o, l, id)) = 0 /\ TradesMade(bk, o, l, id) \in Seq(Trades)
    BY <2>1, TradesMadeType, FS_EmptySet
  <2> HIDE DEF TradesMade
  <2> QED BY <2>2
<1>6. ASSUME NEW side \in Sides, NEW p \in Prices
      PROVE  Emptied(bk[side][p], l) = bk[side][p]
  <2> DEFINE q == bk[side][p]
  <2>1. q \in Seq(Ids) /\ \A i \in DOMAIN q : l[q[i]] > 0
    BY DEF Sound
  <2>2. \A i \in DOMAIN q : l[q[i]] # 0
    <3>1. \A i \in DOMAIN q : l[q[i]] \in Nat
      BY <1>2, <2>1
    <3> QED BY <2>1, <3>1
  <2> HIDE DEF q
  <2>3. {i \in DOMAIN q : l[q[i]] = 0} = {}
    BY <2>2
  <2>4. Cardinality({i \in DOMAIN q : l[q[i]] = 0}) = 0
    BY <2>3, FS_EmptySet
  <2>5. SubSeq(q, 1 + 0, Len(q)) = q
    BY <2>1
  <2>6. Emptied(q, l) = q
    BY <2>4, <2>5 DEF Emptied
  <2> QED BY <2>6 DEF q
<1>7. EmptiedBook(bk, l) = bk
  <2>1. bk \in [Sides -> [Prices -> Seq(Ids)]]
    BY DEF Sound
  <2>2. \A side \in Sides : EmptiedBook(bk, l)[side] = bk[side]
    BY <1>6, <2>1 DEF EmptiedBook
  <2>3. DOMAIN EmptiedBook(bk, l) = Sides /\ EmptiedBook(bk, l) = [side \in Sides |-> EmptiedBook(bk, l)[side]]
    BY DEF EmptiedBook
  <2> QED BY <2>1, <2>2, <2>3
<1> QED BY <1>4, <1>5, <1>7 DEF BookAfter

\* What a call leaves in its book depends on what its own orders have left.
LEMMA SameBookAfter ==
  ASSUME NEW bk, NEW o, NEW l, NEW s, Sound(bk, o, l, s), NEW id, NEW p, o[id] = p[id],
         NEW A, NEW B, A[id] = B[id], \A r \in Ids : Member(bk, r) => A[r] = B[r]
  PROVE  BookAfter(bk, p, B, id) = BookAfter(bk, o, A, id)
<1>1. ASSUME NEW side \in Sides, NEW q \in Prices
      PROVE  Emptied(bk[side][q], B) = Emptied(bk[side][q], A)
  <2> DEFINE t == bk[side][q]
  <2>1. t \in Seq(Ids)
    BY DEF Sound
  <2>2. \A i \in DOMAIN t : t[i] \in Ids /\ A[t[i]] = B[t[i]]
    <3> SUFFICES ASSUME NEW i \in DOMAIN t PROVE t[i] \in Ids /\ Member(bk, t[i])
      OBVIOUS
    <3>1. Contains(t, t[i])
      BY <2>1 DEF Contains
    <3> QED BY <2>1, <3>1 DEF Member
  <2> HIDE DEF t
  <2>3. {i \in DOMAIN t : B[t[i]] = 0} = {i \in DOMAIN t : A[t[i]] = 0}
    BY <2>2
  <2>4. Emptied(t, B) = Emptied(t, A)
    BY <2>3 DEF Emptied
  <2> QED BY <2>4 DEF t
<1>2. EmptiedBook(bk, B) = EmptiedBook(bk, A)
  BY <1>1 DEF EmptiedBook
<1> QED BY <1>2 DEF BookAfter, Placed

-----------------------------------------------------------------------------
\* What a call leaves is a book again.

\* The shares of a call add up to no more than the incoming order has left.
LEMMA SharesBounded ==
  ASSUME NEW bk, NEW o, NEW l, NEW s, Sound(bk, o, l, s), NEW id \in Ids
  PROVE  /\ SumFunction(Shares(bk, o, l, id))
              = SumFunctionOnSet(Shares(bk, o, l, id), Sharers(bk, o, l, id))
         /\ SumFunction(Shares(bk, o, l, id)) \in 0 .. l[id]
<1> DEFINE M == Makers(bk, o, id)
           S == Sharers(bk, o, l, id)
           f == Shares(bk, o, l, id)
<1>1. /\ IsFiniteSet(M) /\ S \subseteq M /\ IsFiniteSet(S) /\ Cardinality(S) \in Nat
      /\ DOMAIN f = M /\ l[id] \in Nat
  BY MakersFacts, NthIs, LeftIsNat DEF Shares
<1>2. \A r \in M : f[r] = Share(bk, o, l, id, r) /\ f[r] \in Nat /\ f[r] <= l[r]
  BY ShareType DEF Shares
<1>3. \A r \in M \ S : f[r] = 0
  BY <1>2 DEF Sharers
<1>4. SumFunction(f) = SumFunctionOnSet(f, S)
  <2> HIDE DEF M, S, f
  <2>1. SumFunction(f) = SumFunctionOnSet(f, M)
    BY <1>1, SumIs
  <2> QED BY <1>1, <1>2, <1>3, <2>1, SumOfSupport
<1>5. SumFunctionOnSet(f, S) \in Nat
  <2> HIDE DEF M, S, f
  <2> QED BY <1>1, <1>2, SumNatural
<1>6. SumFunctionOnSet(f, S) <= l[id]
  <2>1. CASE S = {}
    BY <1>1, <2>1, SumOfNothing
  <2>2. CASE S # {}
    <3> DEFINE n == Cardinality(S)
               r == Nth(bk, o, l, id, n)
               A == Served(bk, o, id, r)
    <3>1. n \in 1 .. n
      BY <1>1, <2>2, FS_EmptySet
    <3>2. r \in S /\ Cardinality(A) = n - 1
      BY <3>1, NthIs
    <3>3. A \subseteq S /\ r \notin A /\ IsFiniteSet(A) /\ SumFunctionOnSet(l, A) \in Nat
      BY <1>1, <3>2, SharersFirst, ServedOrder, ShareType
    <3>4. Share(bk, o, l, id, r) > 0 /\ l[r] \in Nat
      BY <1>1, <3>2, MakersFacts DEF Sharers
    <3>5. f[r] <= l[id] - SumFunctionOnSet(l, A)
      BY <1>1, <1>2, <3>2, <3>3, <3>4 DEF Share, Smaller
    <3>6. \A x \in A : f[x] \in Int /\ l[x] \in Int /\ f[x] <= l[x]
      BY <1>1, <1>2, <3>3, MakersFacts
    <3>7. \A x \in A \cup {r} : f[x] \in Int
      BY <1>1, <1>2, <3>2, <3>6
    <3> HIDE DEF S, f, n, r, A
    <3>8. S = A \cup {r}
      <4>1. IsFiniteSet(A \cup {r}) /\ Cardinality(A \cup {r}) = n
        BY <1>1, <3>1, <3>2, <3>3, FS_AddElement
      <4> QED BY <1>1, <3>2, <3>3, <4>1, FS_Subset DEF n
    <3>9. SumFunctionOnSet(f, A \cup {r}) = f[r] + SumFunctionOnSet(f, A)
      BY <3>3, <3>7, SumInsert
    <3>10. SumFunctionOnSet(f, A) <= SumFunctionOnSet(l, A) /\ SumFunctionOnSet(f, A) \in Int
      BY <3>3, <3>6, SumMonotone, SumType
    <3>11. f[r] \in Int
      BY <3>7
    <3> QED BY <1>1, <3>3, <3>5, <3>8, <3>9, <3>10, <3>11
  <2> QED BY <2>1, <2>2
<1> HIDE DEF f, S
<1> QED BY <1>1, <1>4, <1>5, <1>6 DEF f, S

\* What a call leaves is a quantity, and no more than there was.
LEMMA RemainsType ==
  ASSUME NEW bk, NEW o, NEW l, NEW s, Sound(bk, o, l, s), NEW id \in Ids
  PROVE  /\ Remains(bk, o, l, id) \in [Ids -> Nat]
         /\ \A i \in Ids : Remains(bk, o, l, id)[i] <= l[i]
         /\ \A i \in Ids : i # id /\ i \notin Makers(bk, o, id) =>
              Remains(bk, o, l, id)[i] = l[i]
         /\ \A i \in Ids : i # id /\ i \in Makers(bk, o, id) =>
              Remains(bk, o, l, id)[i] = l[i] - Share(bk, o, l, id, i)
         /\ Remains(bk, o, l, id)[id] = l[id] - SumFunction(Shares(bk, o, l, id))
<1>1. SumFunction(Shares(bk, o, l, id)) \in 0 .. l[id]
  BY SharesBounded
<1>2. \A i \in Ids : l[i] \in Nat
  BY DEF Sound
<1>3. \A i \in Makers(bk, o, id) : Share(bk, o, l, id, i) \in 0 .. l[i] /\ i \in Ids
  BY ShareType, MakersFacts
<1> DEFINE n == SumFunction(Shares(bk, o, l, id))
<1>4. Remains(bk, o, l, id) =
        [i \in Ids |-> IF i = id THEN l[id] - n
                       ELSE IF i \in Makers(bk, o, id) THEN l[i] - Share(bk, o, l, id, i)
                       ELSE l[i]]
  BY DEF Remains
<1> HIDE DEF n
<1>5. \A i \in Ids : Remains(bk, o, l, id)[i] \in 0 .. l[i]
  BY <1>1, <1>2, <1>3, <1>4 DEF n
<1> QED BY <1>2, <1>4, <1>5 DEF n

\* The orders of a level that a call has executed are the oldest.
LEMMA EmptiedIs ==
  ASSUME NEW bk, NEW o, NEW l, NEW s, Sound(bk, o, l, s), NEW id \in Ids, ~Member(bk, id),
         NEW A, A = Remains(bk, o, l, id),
         NEW side \in Sides, NEW p \in Prices, NEW q, q = bk[side][p]
  PROVE  \E m \in 0 .. Len(q) :
           /\ Emptied(q, A) = SubSeq(q, m + 1, Len(q))
           /\ \A i \in m + 1 .. Len(q) : A[q[i]] > 0
<1> DEFINE E == {i \in DOMAIN q : A[q[i]] = 0}
<1>1. q \in Seq(Ids) /\ Len(q) \in Nat /\ DOMAIN q = 1 .. Len(q)
  BY DEF Sound
<1>2. \A i \in 1 .. Len(q) :
        /\ q[i] \in Ids /\ q[i] # id /\ l[q[i]] \in Nat /\ l[q[i]] > 0
        /\ o[q[i]].side = side /\ o[q[i]].price = p
  BY <1>1 DEF Sound, Member, Contains
<1>3. \A i \in Ids : A[i] \in Nat
  BY RemainsType
<1>4. ASSUME NEW j \in 1 .. Len(q), A[q[j]] = 0, NEW i \in 1 .. j - 1
      PROVE  A[q[i]] = 0
  <2>1. i \in 1 .. Len(q) /\ i < j
    BY <1>1
  <2>2. q[j] \in Makers(bk, o, id) /\ Share(bk, o, l, id, q[j]) = l[q[j]]
    <3>1. q[j] \in Makers(bk, o, id)
      BY <1>2, <1>4, RemainsType
    <3>2. Share(bk, o, l, id, q[j]) \in Nat
      BY <3>1, ShareType
    <3> QED BY <1>2, <1>4, <3>1, <3>2, RemainsType
  <2>3. q[j] \in Sharers(bk, o, l, id)
    BY <1>2, <2>2 DEF Sharers
  <2>4. q[i] \in Makers(bk, o, id)
    <3>1. Contains(bk[side][p], q[i])
      BY <1>1, <2>1 DEF Contains
    <3>2. side = Opposite(o[id].side) /\ Crosses(o[id], p)
      BY <1>2, <2>2 DEF Makers
    <3> QED BY <1>2, <2>1, <3>1, <3>2 DEF Makers
  <2>5. InFront(bk, q[i], q[j])
    BY <1>1, <2>1 DEF InFront
  <2>6. q[i] \in Served(bk, o, id, q[j])
    BY <2>4, <2>5 DEF Served
  <2>7. Share(bk, o, l, id, q[i]) = l[q[i]]
    BY <2>3, <2>6, ServedInFull
  <2> QED BY <1>2, <2>1, <2>4, <2>7, RemainsType
<1>5. E \in SUBSET (1 .. Len(q)) /\ \A j \in E : \A i \in 1 .. j : i \in E
  BY <1>1, <1>4
<1>6. Cardinality(E) \in 0 .. Len(q) /\ E = 1 .. Cardinality(E)
  <2> HIDE DEF E
  <2> QED BY <1>1, <1>5, Initial
<1> DEFINE m == Cardinality(E)
<1>7. m + 1 = 1 + Cardinality({i \in DOMAIN q : A[q[i]] = 0})
  BY <1>6
<1>8. Emptied(q, A) = SubSeq(q, m + 1, Len(q))
  BY <1>6, <1>7 DEF Emptied
<1>9. ASSUME NEW i \in m + 1 .. Len(q) PROVE A[q[i]] > 0
  <2>1. i \in 1 .. Len(q) /\ i \notin E
    <3> HIDE DEF E
    <3> QED BY <1>6
  <2> QED BY <1>1, <1>2, <1>3, <2>1
<1> HIDE DEF m
<1> QED BY <1>6, <1>8, <1>9 DEF m

\* t is the queue q, of members of S, without its first m orders.
Later(S, q, t, m) ==
  /\ t \in Seq(S) /\ Len(t) = Len(q) - m
  /\ \A i \in 1 .. Len(t) : t[i] = q[i + m]
  /\ Distinct(t)
  /\ \A x : Contains(t, x) => Contains(q, x)

\* Part of a queue without duplicates has none.
LEMMA PartDistinct ==
  ASSUME NEW S, NEW q \in Seq(S), Distinct(q), NEW m \in 0 .. Len(q)
  PROVE  Later(S, q, SubSeq(q, m + 1, Len(q)), m)
<1> DEFINE t == SubSeq(q, m + 1, Len(q))
<1>1. Len(q) \in Nat /\ DOMAIN q = 1 .. Len(q) /\ m \in Nat /\ m <= Len(q)
  OBVIOUS
<1>2. t \in Seq(S) /\ Len(t) = Len(q) - m /\ \A i \in 1 .. Len(t) : t[i] = q[i + m]
  <2>1. m + 1 \in Int /\ Len(q) \in Int /\ \A i \in m + 1 .. Len(q) : q[i] \in S
    BY <1>1
  <2>2. /\ t \in Seq(S)
        /\ Len(t) = IF m + 1 <= Len(q) THEN Len(q) - (m + 1) + 1 ELSE 0
        /\ \A i \in 1 .. Len(q) - (m + 1) + 1 : t[i] = q[m + 1 + i - 1]
    BY <2>1, SubSeqProperties
  <2> HIDE DEF t
  <2>3. Len(t) = Len(q) - m
    <3>1. CASE m + 1 <= Len(q)
      <4>1. Len(t) = Len(q) - (m + 1) + 1
        BY <2>2, <3>1
      <4>2. \A a, b \in Nat : a - (b + 1) + 1 = a - b
        OBVIOUS
      <4>3. Len(q) \in Nat /\ m \in Nat
        BY <1>1
      <4> QED BY <4>1, <4>2, <4>3
    <3>2. CASE ~(m + 1 <= Len(q))
      <4>1. Len(t) = 0
        BY <2>2, <3>2
      <4>2. \A a, b \in Nat : b <= a /\ ~(b + 1 <= a) => a - b = 0
        OBVIOUS
      <4> QED BY <1>1, <3>2, <4>1, <4>2
    <3> QED BY <3>1, <3>2
  <2>4. ASSUME NEW i \in 1 .. Len(t) PROVE t[i] = q[i + m]
    <3>1. i \in 1 .. Len(q) - (m + 1) + 1 /\ m + 1 + i - 1 = i + m
      BY <1>1, <2>3
    <3> QED BY <2>2, <3>1
  <2> QED BY <2>2, <2>3, <2>4
<1> HIDE DEF t
<1>3. DOMAIN t = 1 .. Len(t)
  BY <1>2
<1>4. \A i \in 1 .. Len(t) : i + m \in 1 .. Len(q)
  BY <1>1, <1>2
<1>5. Distinct(t)
  <2> SUFFICES ASSUME NEW i \in 1 .. Len(t), NEW j \in 1 .. Len(t), t[i] = t[j]
               PROVE  i = j
    BY <1>3 DEF Distinct
  <2>1. i + m \in DOMAIN q /\ j + m \in DOMAIN q /\ q[i + m] = q[j + m]
    BY <1>1, <1>2, <1>4
  <2>2. i + m = j + m
    BY <2>1 DEF Distinct
  <2> QED BY <1>1, <2>2
<1>6. ASSUME NEW x, Contains(t, x) PROVE Contains(q, x)
  <2>1. PICK i \in 1 .. Len(t) : t[i] = x
    BY <1>6 DEF Contains
  <2>2. i + m \in 1 .. Len(q) /\ q[i + m] = x
    BY <1>2, <1>4, <2>1
  <2> QED BY <2>2 DEF Contains
<1> QED BY <1>2, <1>5, <1>6 DEF Later, t

\* Nor has it with a new order at its end.
LEMMA AppendDistinct ==
  ASSUME NEW S, NEW q \in Seq(S), Distinct(q), NEW x \in S, ~Contains(q, x)
  PROVE  /\ Append(q, x) \in Seq(S) /\ Distinct(Append(q, x))
         /\ \A y : Contains(Append(q, x), y) => Contains(q, y) \/ y = x
<1> DEFINE t == Append(q, x)
<1>1. /\ t \in Seq(S) /\ Len(t) = Len(q) + 1 /\ t[Len(q) + 1] = x /\ Len(q) \in Nat
      /\ \A i \in 1 .. Len(q) : t[i] = q[i]
  BY AppendProperties
<1>2. DOMAIN q = 1 .. Len(q) /\ DOMAIN t = 1 .. Len(q) + 1
  BY <1>1
<1>3. \A i \in 1 .. Len(q) : q[i] # x
  BY DEF Contains
<1> HIDE DEF t
<1>4. Distinct(t)
  BY <1>1, <1>2, <1>3 DEF Distinct
<1>5. ASSUME NEW y, Contains(t, y) PROVE Contains(q, y) \/ y = x
  <2>1. PICK i \in 1 .. Len(t) : t[i] = y
    BY <1>5 DEF Contains
  <2>2. i \in 1 .. Len(q) \/ i = Len(q) + 1
    BY <1>1
  <2> QED BY <1>1, <2>1, <2>2 DEF Contains
<1> QED BY <1>1, <1>4, <1>5 DEF t

\* What a call leaves in its book is a sound book.
LEMMA BookAfterSound ==
  ASSUME NEW bk, NEW o, NEW l, NEW s, Sound(bk, o, l, s), NEW id \in Ids, ~Member(bk, id),
         o[id].symbol = s, NEW A, A = Remains(bk, o, l, id),
         NEW ck, ck = BookAfter(bk, o, A, id)
  PROVE  /\ Sound(ck, o, A, s)
         /\ \A r : Member(ck, r) => Member(bk, r) \/ (r = id /\ A[id] > 0)
<1> DEFINE ek == EmptiedBook(bk, A)
<1>1. bk \in [Sides -> [Prices -> Seq(Ids)]] /\ Readable(o) /\ A \in [Ids -> Nat]
  <2>1. A \in [Ids -> Nat]
    BY RemainsType
  <2> QED BY <2>1 DEF Sound
<1>2. \A side \in Sides, p \in Prices :
        /\ bk[side][p] \in Seq(Ids) /\ Distinct(bk[side][p])
        /\ \A i \in 1 .. Len(bk[side][p]) :
             /\ bk[side][p][i] \in Ids
             /\ o[bk[side][p][i]].symbol = s
             /\ o[bk[side][p][i]].side = side
             /\ o[bk[side][p][i]].price = p
  BY DEF Sound
<1>3. ek = [side \in Sides |-> [p \in Prices |-> Emptied(bk[side][p], A)]]
  BY DEF EmptiedBook
<1> HIDE DEF ek
<1>4. ASSUME NEW side \in Sides, NEW p \in Prices
      PROVE  /\ ek[side][p] \in Seq(Ids) /\ Distinct(ek[side][p])
             /\ \A i \in 1 .. Len(ek[side][p]) :
                  LET r == ek[side][p][i]
                  IN  o[r].symbol = s /\ o[r].side = side /\ o[r].price = p /\ A[r] > 0
             /\ \A x : Contains(ek[side][p], x) => Contains(bk[side][p], x)
  <2> DEFINE q == bk[side][p]
             t == ek[side][p]
  <2>1. PICK m \in 0 .. Len(q) :
          /\ Emptied(q, A) = SubSeq(q, m + 1, Len(q))
          /\ \A i \in m + 1 .. Len(q) : A[q[i]] > 0
    BY EmptiedIs
  <2>2. t = SubSeq(q, m + 1, Len(q)) /\ q \in Seq(Ids) /\ Distinct(q) /\ Len(q) \in Nat
    BY <1>2, <1>3, <2>1
  <2>3. Later(Ids, q, t, m)
    <3> HIDE DEF q, t
    <3> QED BY <2>2, PartDistinct
  <2>4. \A i \in 1 .. Len(t) : i + m \in m + 1 .. Len(q) /\ i + m \in 1 .. Len(q)
    <3> HIDE DEF q, t
    <3> QED BY <2>2, <2>3 DEF Later
  <2>5. \A j \in 1 .. Len(q) : o[q[j]].symbol = s /\ o[q[j]].side = side /\ o[q[j]].price = p
    BY <1>2
  <2> HIDE DEF q, t
  <2>6. \A i \in 1 .. Len(t) :
          o[t[i]].symbol = s /\ o[t[i]].side = side /\ o[t[i]].price = p /\ A[t[i]] > 0
    BY <2>1, <2>3, <2>4, <2>5 DEF Later
  <2> QED BY <2>3, <2>6 DEF q, t, Later
<1>5. ek \in [Sides -> [Prices -> Seq(Ids)]]
  BY <1>3, <1>4
<1>6. Sound(ek, o, A, s)
  <2>1. \A side \in Sides, p \in Prices : DOMAIN ek[side][p] = 1 .. Len(ek[side][p])
    BY <1>5
  <2> QED BY <1>1, <1>4, <1>5, <2>1 DEF Sound
<1>7. \A r : Member(ek, r) => Member(bk, r)
  BY <1>4 DEF Member
<1>8. ck = Placed(ek, o, A, id)
  BY DEF BookAfter, ek
<1>9. CASE ~(A[id] > 0 /\ o[id].kind # "MARKET")
  <2>1. ck = ek
    BY <1>8, <1>9 DEF Placed
  <2> QED BY <1>6, <1>7, <2>1
<1>10. CASE A[id] > 0 /\ o[id].kind # "MARKET"
  <2> DEFINE d == o[id].side
             p == o[id].price
             t == Append(ek[d][p], id)
  <2>1. d \in Sides /\ p \in Prices
    <3> HIDE DEF d, p
    <3>1. d = o[id].side /\ p = o[id].price
      BY DEF d, p
    <3> QED BY <1>1, <1>10, <3>1 DEF Readable
  <2>2. ck = [ek EXCEPT ![d][p] = t]
    BY <1>8, <1>10 DEF Placed
  <2>3. ek[d][p] \in Seq(Ids) /\ Distinct(ek[d][p]) /\ ~Contains(ek[d][p], id)
    <3>1. ~Contains(bk[d][p], id)
      BY <2>1 DEF Member
    <3> HIDE DEF d, p
    <3>2. /\ ek[d][p] \in Seq(Ids) /\ Distinct(ek[d][p])
          /\ \A x : Contains(ek[d][p], x) => Contains(bk[d][p], x)
      BY <1>4, <2>1
    <3> QED BY <3>1, <3>2
  <2>4. /\ t \in Seq(Ids) /\ Distinct(t)
        /\ \A y : Contains(t, y) => Contains(ek[d][p], y) \/ y = id
    BY <2>3, AppendDistinct
  <2>5. Len(t) = Len(ek[d][p]) + 1 /\ t[Len(t)] = id /\ Len(ek[d][p]) \in Nat
        /\ \A i \in 1 .. Len(ek[d][p]) : t[i] = ek[d][p][i]
    <3> HIDE DEF d, p
    <3> QED BY <2>3, AppendProperties
  <2>6. \A i \in 1 .. Len(t) :
          o[t[i]].symbol = s /\ o[t[i]].side = d /\ o[t[i]].price = p /\ A[t[i]] > 0
    <3>1. ASSUME NEW i \in 1 .. Len(t), i # Len(t)
          PROVE  o[t[i]].symbol = s /\ o[t[i]].side = d /\ o[t[i]].price = p /\ A[t[i]] > 0
      <4> HIDE DEF t
      <4>1. i \in 1 .. Len(ek[d][p])
        BY <2>5, <3>1
      <4>2. t[i] = ek[d][p][i]
        BY <2>5, <4>1
      <4> HIDE DEF d, p
      <4>3. o[ek[d][p][i]].symbol = s /\ o[ek[d][p][i]].side = d /\ o[ek[d][p][i]].price = p
            /\ A[ek[d][p][i]] > 0
        BY <1>4, <2>1, <4>1
      <4> QED BY <4>2, <4>3
    <3>2. \A i \in 1 .. Len(t) : i = Len(t) => t[i] = id
      BY <2>5
    <3> QED BY <1>10, <3>1, <3>2
  <2> HIDE DEF t
  <2>7. /\ ck \in [Sides -> [Prices -> Seq(Ids)]]
        /\ ck[d][p] = t
        /\ \A side \in Sides, x \in Prices : side # d \/ x # p => ck[side][x] = ek[side][x]
    <3> HIDE DEF d, p
    <3> QED BY <1>5, <2>1, <2>2, <2>4
  <2>8. ASSUME NEW side \in Sides, NEW x \in Prices
        PROVE  /\ \A i \in DOMAIN ck[side][x] :
                    LET r == ck[side][x][i]
                    IN  o[r].symbol = s /\ o[r].side = side /\ o[r].price = x /\ A[r] > 0
               /\ Distinct(ck[side][x])
               /\ \A r : Contains(ck[side][x], r) => Contains(ek[side][x], r) \/ r = id
    <3>1. CASE side = d /\ x = p
      <4>1. DOMAIN t = 1 .. Len(t) /\ ck[side][x] = t
        BY <2>4, <2>7, <3>1
      <4> HIDE DEF d, p
      <4> QED BY <2>4, <2>6, <3>1, <4>1
    <3>2. CASE ~(side = d /\ x = p)
      <4>1. ck[side][x] = ek[side][x] /\ DOMAIN ek[side][x] = 1 .. Len(ek[side][x])
        BY <1>4, <2>7, <3>2
      <4> QED BY <1>4, <4>1
    <3> QED BY <3>1, <3>2
  <2>9. Sound(ck, o, A, s)
    BY <1>1, <2>7, <2>8 DEF Sound
  <2>10. \A r : Member(ck, r) => Member(ek, r) \/ r = id
    BY <2>8 DEF Member
  <2> QED BY <1>7, <1>10, <2>9, <2>10
<1> QED BY <1>9, <1>10

\* A call executes of its order as much as its trades say.
LEMMA TradesAddUp ==
  ASSUME NEW bk, NEW o, NEW l, NEW s, Sound(bk, o, l, s), NEW id \in Ids,
         NEW t, t = TradesMade(bk, o, l, id)
  PROVE  /\ SumFunction([k \in DOMAIN t |-> t[k].quantity]) = l[id] - Remains(bk, o, l, id)[id]
         /\ \A k \in DOMAIN t : /\ t[k].maker \in Makers(bk, o, id)
                                /\ t[k].quantity > 0
<1> DEFINE S == Sharers(bk, o, l, id)
           f == Shares(bk, o, l, id)
           n == Cardinality(S)
           g == [k \in DOMAIN t |-> t[k].quantity]
           h == [k \in 1 .. n |-> Nth(bk, o, l, id, k)]
<1>1. /\ n \in Nat /\ IsFiniteSet(S) /\ S \subseteq Makers(bk, o, id)
      /\ \A k \in 1 .. n : h[k] \in S /\ Cardinality(Served(bk, o, id, h[k])) = k - 1
      /\ \A r \in S : LET k == Cardinality(Served(bk, o, id, r)) + 1
                      IN  k \in 1 .. n /\ h[k] = r
  BY NthIs
<1>2. /\ DOMAIN t = 1 .. n
      /\ \A k \in 1 .. n : t[k].maker = h[k] /\ t[k].quantity = Share(bk, o, l, id, h[k])
  BY DEF TradesMade
<1>3. \A r \in S : f[r] = Share(bk, o, l, id, r) /\ f[r] \in Nat /\ f[r] > 0
  BY <1>1, ShareType DEF Shares, Sharers
<1>4. h \in [1 .. n -> S] /\ IsFiniteSet(1 .. n)
  BY <1>1, FS_Interval
<1>5. \A x, y \in 1 .. n : h[x] = h[y] => x = y
  <2> SUFFICES ASSUME NEW x \in 1 .. n, NEW y \in 1 .. n, h[x] = h[y] PROVE x = y
    OBVIOUS
  <2>1. x - 1 = y - 1
    <3> HIDE DEF h, n
    <3> QED BY <1>1
  <2> QED BY <2>1
<1>6. \A r \in S : \E k \in 1 .. n : h[k] = r
  BY <1>1
<1>7. \A k \in 1 .. n : g[k] \in Int /\ f[h[k]] = g[k]
  BY <1>1, <1>2, <1>3
<1>8. SumFunctionOnSet(f, S) = SumFunctionOnSet(g, 1 .. n)
  <2> DEFINE D == 1 .. n
  <2>1. /\ IsFiniteSet(D) /\ h \in [D -> S]
        /\ \A x, y \in D : h[x] = h[y] => x = y
        /\ \A y \in S : \E x \in D : h[x] = y
        /\ \A x \in D : g[x] \in Int /\ f[h[x]] = g[x]
    BY <1>4, <1>5, <1>6, <1>7
  <2> HIDE DEF f, g, h, S, D, n
  <2>2. SumFunctionOnSet(f, S) = SumFunctionOnSet(g, D)
    BY <2>1, SumRenamed
  <2> QED BY <2>2 DEF D
<1>9. SumFunction(g) = SumFunctionOnSet(g, 1 .. n)
  <2>1. DOMAIN g = 1 .. n
    BY <1>2
  <2> HIDE DEF g
  <2> QED BY <2>1, SumIs
<1>10. SumFunction(f) = SumFunctionOnSet(f, S) /\ SumFunction(f) \in 0 .. l[id] /\ l[id] \in Nat
  BY SharesBounded, LeftIsNat
<1>11. Remains(bk, o, l, id)[id] = l[id] - SumFunction(f)
  BY RemainsType
<1>12. SumFunction(g) = l[id] - Remains(bk, o, l, id)[id]
  <2> HIDE DEF f, g
  <2> QED BY <1>8, <1>9, <1>10, <1>11
<1>13. \A k \in DOMAIN t : t[k].maker \in Makers(bk, o, id) /\ t[k].quantity > 0
  BY <1>1, <1>2, <1>3
<1> QED BY <1>12, <1>13

-----------------------------------------------------------------------------
\* All books, and the one of a call.

AllMakers(Q, o, id) ==
  {r \in Ids : /\ \E s \in Symbols, side \in Sides, p \in Prices : Contains(Q[s][side][p], r)
               /\ o[r].symbol = o[id].symbol
               /\ o[r].side = Opposite(o[id].side)
               /\ Crosses(o[id], o[r].price)}

AnyInFront(Q, a, b) ==
  \E s \in Symbols, side \in Sides :
    \/ \E p, q \in Prices : /\ Better(side, p, q)
                            /\ Contains(Q[s][side][p], a)
                            /\ Contains(Q[s][side][q], b)
    \/ \E p \in Prices : LET l == Q[s][side][p]
                         IN  \E i, j \in DOMAIN l : i < j /\ l[i] = a /\ l[j] = b

\* Every order is in the book of its own symbol.
Tidy(Q, o) ==
  /\ Q \in [Symbols -> [Sides -> [Prices -> Seq(Ids)]]]
  /\ \A t \in Symbols, side \in Sides, p \in Prices, r \in Ids :
       Contains(Q[t][side][p], r) => o[r].symbol = t

\* Only its own book matters to a call.
LEMMA OneBook ==
  ASSUME NEW Q, NEW o, Tidy(Q, o), NEW id, o[id].symbol \in Symbols
  PROVE  /\ AllMakers(Q, o, id) = Makers(Q[o[id].symbol], o, id)
         /\ \A r : {a \in AllMakers(Q, o, id) : AnyInFront(Q, a, r)}
                     = Served(Q[o[id].symbol], o, id, r)
<1> DEFINE s == o[id].symbol
           M == Makers(Q[s], o, id)
<1>1. AllMakers(Q, o, id) = M
  BY DEF AllMakers, Makers, Tidy
<1>2. ASSUME NEW r, NEW a \in M
      PROVE  AnyInFront(Q, a, r) <=> InFront(Q[s], a, r)
  <2>1. a \in Ids /\ o[a].symbol = s
    BY <1>1 DEF AllMakers
  <2>2. ASSUME AnyInFront(Q, a, r) PROVE InFront(Q[s], a, r)
    <3>1. PICK t \in Symbols, side \in Sides :
            \/ \E p, q \in Prices : /\ Better(side, p, q)
                                    /\ Contains(Q[t][side][p], a)
                                    /\ Contains(Q[t][side][q], r)
            \/ \E p \in Prices : LET l == Q[t][side][p]
                                 IN  \E i, j \in DOMAIN l : i < j /\ l[i] = a /\ l[j] = r
      BY <2>2 DEF AnyInFront
    <3>2. \E p \in Prices : Contains(Q[t][side][p], a)
      <4>1. CASE \E p, q \in Prices : /\ Better(side, p, q)
                                      /\ Contains(Q[t][side][p], a)
                                      /\ Contains(Q[t][side][q], r)
        BY <4>1
      <4>2. CASE \E p \in Prices : LET l == Q[t][side][p]
                                   IN  \E i, j \in DOMAIN l : i < j /\ l[i] = a /\ l[j] = r
        <5>1. PICK p \in Prices : \E i \in DOMAIN Q[t][side][p] : Q[t][side][p][i] = a
          BY <4>2
        <5>2. Q[t][side][p] \in Seq(Ids)
          BY DEF Tidy
        <5> QED BY <5>1, <5>2 DEF Contains
      <4> QED BY <3>1, <4>1, <4>2
    <3>3. t = s
      BY <2>1, <3>2 DEF Tidy
    <3> QED BY <3>1, <3>3 DEF InFront
  <2>3. ASSUME InFront(Q[s], a, r) PROVE AnyInFront(Q, a, r)
    BY <2>3 DEF InFront, AnyInFront
  <2> QED BY <2>2, <2>3
<1>3. ASSUME NEW r
      PROVE {a \in AllMakers(Q, o, id) : AnyInFront(Q, a, r)} = Served(Q[s], o, id, r)
  BY <1>1, <1>2 DEF Served
<1> QED BY <1>1, <1>3

\* What BookInv says of each book.
BooksAreSound ==
  /\ Tidy(queue, order)
  /\ \A s \in Symbols : Sound(queue[s], order, left, s)
  /\ \A s \in Symbols : Running(s) =>
       /\ taker[s] \in Ids /\ taker[s] \in entered
       /\ order[taker[s]].symbol = s
       /\ ~Member(queue[s], taker[s])

LEMMA RecordsAreReadable ==
  ASSUME NEW o \in [Ids -> OrderRecords] PROVE Readable(o)
BY DEF OrderRecords, Readable

\* It follows from the invariant of the books.
LEMMA BookInvSound == BookInv => BooksAreSound
<1> SUFFICES ASSUME BookInv PROVE BooksAreSound
  OBVIOUS
<1>1. /\ queue \in [Symbols -> [Sides -> [Prices -> Seq(Ids)]]]
      /\ order \in [Ids -> OrderRecords] /\ left \in [Ids -> Nat]
      /\ taker \in [Symbols -> Ids \cup {NoOrder}]
  BY DEF BookInv, BookTypeOK
<1>2. ASSUME NEW s \in Symbols, NEW side \in Sides, NEW p \in Prices,
             NEW i \in DOMAIN queue[s][side][p]
      PROVE  BelongsAt(s, side, p, queue[s][side][p][i])
  BY DEF BookInv, RestsWhereItBelongs
<1>3. \A s \in Symbols, side \in Sides, p \in Prices : Distinct(queue[s][side][p])
  BY DEF BookInv, RestsWhereItBelongs, Distinct
<1>4. ASSUME NEW s \in Symbols, NEW side \in Sides, NEW p \in Prices, NEW r,
             Contains(queue[s][side][p], r)
      PROVE  BelongsAt(s, side, p, r)
  <2>1. queue[s][side][p] \in Seq(Ids)
    BY <1>1
  <2>2. PICK i \in DOMAIN queue[s][side][p] : queue[s][side][p][i] = r
    BY <1>4, <2>1 DEF Contains
  <2> QED BY <1>2, <2>2
<1>5. Tidy(queue, order)
  BY <1>1, <1>4 DEF Tidy, BelongsAt
<1>6. ASSUME NEW s \in Symbols PROVE Sound(queue[s], order, left, s)
  BY <1>1, <1>2, <1>3, RecordsAreReadable DEF Sound, BelongsAt
<1>7. ASSUME NEW s \in Symbols, Running(s)
      PROVE  /\ taker[s] \in Ids /\ taker[s] \in entered
             /\ order[taker[s]].symbol = s
             /\ ~Member(queue[s], taker[s])
  <2>1. ~Member(queue[s], taker[s])
    BY <1>4 DEF Member, BelongsAt
  <2>2. taker[s] \in Ids /\ taker[s] \in entered /\ order[taker[s]].symbol = s
    BY <1>1, <1>7 DEF Running, BookInv, LockHolder
  <2> QED BY <2>1, <2>2
<1> QED BY <1>5, <1>6, <1>7 DEF BooksAreSound

\* An instance has its own copies of the library's operators, which are the same.
LEMMA NowCardinality == ASSUME NEW S PROVE Now!Cardinality(S) = Cardinality(S)
BY DEF Now!Cardinality, Cardinality

LEMMA NowSum == ASSUME NEW f, NEW S PROVE Now!SumFunctionOnSet(f, S) = SumFunctionOnSet(f, S)
<1>1. Now!SumFunctionOnSet(f, S) = SumsOf(f, S)[S]
  BY DEF Now!SumFunctionOnSet, Now!FoldFunctionOnSet, Now!MapThenFoldSet, SumsOf, Summing,
     Rest, Chosen
<1> QED BY <1>1, SumUnfolds

\* The operators of AtomicBook, in the state as it is, are those of the call's book.
LEMMA NowOperators ==
  ASSUME Tidy(queue, order), NEW id \in Ids, NEW s \in Symbols, order[id].symbol = s
  PROVE  /\ Now!Resters(id) = Makers(queue[s], order, id)
         /\ \A r : Now!Ahead(id, r) = Served(queue[s], order, id, r)
         /\ \A r : Now!Taken(id, r) = Share(queue[s], order, left, id, r)
         /\ Now!Takers(id) = Sharers(queue[s], order, left, id)
<1>1. /\ AllMakers(queue, order, id) = Makers(queue[s], order, id)
      /\ \A r : {a \in AllMakers(queue, order, id) : AnyInFront(queue, a, r)}
                  = Served(queue[s], order, id, r)
  BY OneBook
<1>2. Now!Resters(id) = AllMakers(queue, order, id)
  BY DEF Now!Resters, Now!B!Ids, Ids, Now!B!Resting, Now!B!FoundAt, Now!B!Contains,
       Contains,
     Now!B!Sides, Sides, Now!B!Opposite, Opposite, Now!B!Crosses, Crosses, AllMakers
<1>3. \A a, r : Now!B!Before(a, r) <=> AnyInFront(queue, a, r)
  BY DEF Now!B!Before, AnyInFront, Now!B!FoundAt, Now!B!Contains, Contains,
     Now!B!Sides, Sides, Now!B!Better, Better
<1>4. Now!Resters(id) = Makers(queue[s], order, id)
  BY <1>1, <1>2
<1>5. \A r : Now!Ahead(id, r) = Served(queue[s], order, id, r)
  <2>1. \A r : Now!Ahead(id, r)
                = {a \in AllMakers(queue, order, id) : AnyInFront(queue, a, r)}
    BY <1>2, <1>3 DEF Now!Ahead
  <2> QED BY <1>1, <2>1
<1>6. ASSUME NEW r PROVE Now!Taken(id, r) = Share(queue[s], order, left, id, r)
  <2> DEFINE n == SumFunctionOnSet(left, Served(queue[s], order, id, r))
  <2>1. Now!Total(Now!Ahead(id, r)) = n
    BY <1>5, NowSum DEF Now!Total
  <2>2. Share(queue[s], order, left, id, r)
          = IF left[id] - n <= 0 THEN 0 ELSE Smaller(left[id] - n, left[r])
    BY DEF Share
  <2> HIDE DEF n
  <2>3. Now!Taken(id, r) = IF left[id] - n <= 0 THEN 0 ELSE Now!B!Smaller(left[id] - n, left[r])
    BY <2>1 DEF Now!Taken
  <2> QED BY <2>2, <2>3 DEF Now!B!Smaller, Smaller
<1>7. Now!Takers(id) = Sharers(queue[s], order, left, id)
  BY <1>4, <1>6 DEF Now!Takers, Sharers
<1> QED BY <1>4, <1>5, <1>6, <1>7

\* What a call that begins now would leave and return.
LEMMA NowResults ==
  ASSUME Tidy(queue, order), NEW id \in Ids, NEW s \in Symbols, order[id].symbol = s
  PROVE  /\ Now!LeftAfter(id) = Remains(queue[s], order, left, id)
         /\ Now!TradesAfter(id) = trades[id] \o TradesMade(queue[s], order, left, id)
         /\ Now!QueueAfter(id)
              = BookAfter(queue[s], order, Remains(queue[s], order, left, id), id)
<1>1. /\ Now!Resters(id) = Makers(queue[s], order, id)
      /\ \A r : Now!Ahead(id, r) = Served(queue[s], order, id, r)
      /\ \A r : Now!Taken(id, r) = Share(queue[s], order, left, id, r)
      /\ Now!Takers(id) = Sharers(queue[s], order, left, id)
  BY NowOperators
<1>2. Now!LeftAfter(id) = Remains(queue[s], order, left, id)
  <2> DEFINE f == Shares(queue[s], order, left, id)
             M == Makers(queue[s], order, id)
  <2>1. [r \in Now!Resters(id) |-> Now!Taken(id, r)] = f
    BY <1>1 DEF Shares
  <2>2. Now!SumFunction(f) = SumFunction(f)
    <3> HIDE DEF f
    <3> QED BY NowSum DEF Now!SumFunction, SumFunction
  <2>3. Now!B!Ids = Ids
    BY DEF Now!B!Ids, Ids
  <2> HIDE DEF f, M
  <2>4. Now!LeftAfter(id)
          = [i \in Ids |-> IF i = id THEN left[id] - SumFunction(f)
                           ELSE IF i \in M THEN left[i] - Now!Taken(id, i) ELSE left[i]]
    BY <1>1, <2>1, <2>2, <2>3 DEF Now!LeftAfter, M
  <2>5. Remains(queue[s], order, left, id)
          = [i \in Ids |-> IF i = id THEN left[id] - SumFunction(f)
                           ELSE IF i \in M THEN left[i] - Share(queue[s], order, left, id, i)
                           ELSE left[i]]
    BY DEF Remains, f, M
  <2> QED BY <1>1, <2>4, <2>5
<1>3. Now!TradesAfter(id) = trades[id] \o TradesMade(queue[s], order, left, id)
  <2> DEFINE S == Sharers(queue[s], order, left, id)
             nth(k) == CHOOSE r \in Now!Takers(id) : Now!Cardinality(Now!Ahead(id, r)) = k - 1
  <2>1. \A r : Now!Cardinality(Now!Ahead(id, r)) = Cardinality(Served(queue[s], order, id, r))
    BY <1>1, NowCardinality
  <2>2. \A k : nth(k) = Nth(queue[s], order, left, id, k)
    BY <1>1, <2>1 DEF Nth
  <2>3. Now!Cardinality(Now!Takers(id)) = Cardinality(S)
    BY <1>1, NowCardinality
  <2>4. Now!TradesAfter(id)
          = trades[id] \o [k \in 1 .. Now!Cardinality(Now!Takers(id)) |->
               [maker |-> nth(k), quantity |-> Now!Taken(id, nth(k)), price |-> order[nth(k)].price]]
    BY DEF Now!TradesAfter
  <2> HIDE DEF nth, S
  <2>5. [k \in 1 .. Now!Cardinality(Now!Takers(id)) |->
           [maker |-> nth(k), quantity |-> Now!Taken(id, nth(k)), price |-> order[nth(k)].price]]
          = TradesMade(queue[s], order, left, id)
    BY <1>1, <2>2, <2>3 DEF TradesMade, S
  <2> QED BY <2>4, <2>5
<1>4. Now!QueueAfter(id) = BookAfter(queue[s], order, Now!LeftAfter(id), id)
  <2> DEFINE A == Now!LeftAfter(id)
             kept(q) == SubSeq(q, 1 + Now!Cardinality({i \in DOMAIN q : A[q[i]] = 0}), Len(q))
             all == [side \in Now!B!Sides |-> [p \in Prices |-> kept(queue[s][side][p])]]
  <2>1. Now!QueueAfter(id)
          = IF A[id] > 0 /\ order[id].kind # "MARKET"
              THEN [all EXCEPT ![order[id].side][order[id].price] = Append(@, id)] ELSE all
    BY DEF Now!QueueAfter
  <2> HIDE DEF A
  <2>2. \A q : kept(q) = Emptied(q, A)
    BY NowCardinality DEF Emptied
  <2>3. all = EmptiedBook(queue[s], A)
    BY <2>2 DEF EmptiedBook, Now!B!Sides, Sides
  <2> HIDE DEF all
  <2> QED BY <2>1, <2>3 DEF BookAfter, Placed, A
<1> QED BY <1>2, <1>3, <1>4

LEMMA ThenCardinality == ASSUME NEW S PROVE Atomic!Cardinality(S) = Cardinality(S)
BY DEF Atomic!Cardinality, Cardinality

LEMMA ThenSum == ASSUME NEW f, NEW S PROVE Atomic!SumFunctionOnSet(f, S) = SumFunctionOnSet(f, S)
<1>1. Atomic!SumFunctionOnSet(f, S) = SumsOf(f, S)[S]
  BY DEF Atomic!SumFunctionOnSet, Atomic!FoldFunctionOnSet, Atomic!MapThenFoldSet,
       SumsOf, Summing,
     Rest, Chosen
<1> QED BY <1>1, SumUnfolds

\* The same in the state the mapping sends it to.
LEMMA ThenOperators ==
  ASSUME Tidy(queueThen, order), NEW id \in Ids, NEW s \in Symbols, order[id].symbol = s
  PROVE  /\ Atomic!Resters(id) = Makers(queueThen[s], order, id)
         /\ \A r : Atomic!Ahead(id, r) = Served(queueThen[s], order, id, r)
         /\ \A r : Atomic!Taken(id, r) = Share(queueThen[s], order, leftThen, id, r)
         /\ Atomic!Takers(id) = Sharers(queueThen[s], order, leftThen, id)
<1>1. /\ AllMakers(queueThen, order, id) = Makers(queueThen[s], order, id)
      /\ \A r : {a \in AllMakers(queueThen, order, id) : AnyInFront(queueThen, a, r)}
                  = Served(queueThen[s], order, id, r)
  BY OneBook
<1>2. Atomic!Resters(id) = AllMakers(queueThen, order, id)
  BY DEF Atomic!Resters, Atomic!B!Ids, Ids, Atomic!B!Resting, Atomic!B!FoundAt,
       Atomic!B!Contains, Contains,
     Atomic!B!Sides, Sides, Atomic!B!Opposite, Opposite, Atomic!B!Crosses, Crosses,
     AllMakers
<1>3. \A a, r : Atomic!B!Before(a, r) <=> AnyInFront(queueThen, a, r)
  BY DEF Atomic!B!Before, AnyInFront, Atomic!B!FoundAt, Atomic!B!Contains, Contains,
     Atomic!B!Sides, Sides, Atomic!B!Better, Better
<1>4. Atomic!Resters(id) = Makers(queueThen[s], order, id)
  BY <1>1, <1>2
<1>5. \A r : Atomic!Ahead(id, r) = Served(queueThen[s], order, id, r)
  <2>1. \A r : Atomic!Ahead(id, r)
                = {a \in AllMakers(queueThen, order, id) : AnyInFront(queueThen, a, r)}
    BY <1>2, <1>3 DEF Atomic!Ahead
  <2> QED BY <1>1, <2>1
<1>6. ASSUME NEW r PROVE Atomic!Taken(id, r) = Share(queueThen[s], order, leftThen, id, r)
  <2> DEFINE n == SumFunctionOnSet(leftThen, Served(queueThen[s], order, id, r))
  <2>1. Atomic!Total(Atomic!Ahead(id, r)) = n
    BY <1>5, ThenSum DEF Atomic!Total
  <2>2. Share(queueThen[s], order, leftThen, id, r)
          = IF leftThen[id] - n <= 0 THEN 0 ELSE Smaller(leftThen[id] - n, leftThen[r])
    BY DEF Share
  <2> HIDE DEF n
  <2>3. Atomic!Taken(id, r) = IF leftThen[id] - n <= 0 THEN 0 ELSE Atomic!B!Smaller(leftThen[id] - n, leftThen[r])
    BY <2>1 DEF Atomic!Taken
  <2> QED BY <2>2, <2>3 DEF Atomic!B!Smaller, Smaller
<1>7. Atomic!Takers(id) = Sharers(queueThen[s], order, leftThen, id)
  BY <1>4, <1>6 DEF Atomic!Takers, Sharers
<1> QED BY <1>4, <1>5, <1>6, <1>7

\* What a call that begins there would leave and return.
LEMMA ThenResults ==
  ASSUME Tidy(queueThen, order), NEW id \in Ids, NEW s \in Symbols, order[id].symbol = s
  PROVE  /\ Atomic!LeftAfter(id) = Remains(queueThen[s], order, leftThen, id)
         /\ Atomic!TradesAfter(id) = tradesThen[id] \o TradesMade(queueThen[s], order, leftThen, id)
         /\ Atomic!QueueAfter(id)
              = BookAfter(queueThen[s], order, Remains(queueThen[s], order, leftThen, id), id)
<1>1. /\ Atomic!Resters(id) = Makers(queueThen[s], order, id)
      /\ \A r : Atomic!Ahead(id, r) = Served(queueThen[s], order, id, r)
      /\ \A r : Atomic!Taken(id, r) = Share(queueThen[s], order, leftThen, id, r)
      /\ Atomic!Takers(id) = Sharers(queueThen[s], order, leftThen, id)
  BY ThenOperators
<1>2. Atomic!LeftAfter(id) = Remains(queueThen[s], order, leftThen, id)
  <2> DEFINE f == Shares(queueThen[s], order, leftThen, id)
             M == Makers(queueThen[s], order, id)
  <2>1. [r \in Atomic!Resters(id) |-> Atomic!Taken(id, r)] = f
    BY <1>1 DEF Shares
  <2>2. Atomic!SumFunction(f) = SumFunction(f)
    <3> HIDE DEF f
    <3> QED BY ThenSum DEF Atomic!SumFunction, SumFunction
  <2>3. Atomic!B!Ids = Ids
    BY DEF Atomic!B!Ids, Ids
  <2> HIDE DEF f, M
  <2>4. Atomic!LeftAfter(id)
          = [i \in Ids |-> IF i = id THEN leftThen[id] - SumFunction(f)
                           ELSE IF i \in M THEN leftThen[i] - Atomic!Taken(id, i) ELSE leftThen[i]]
    BY <1>1, <2>1, <2>2, <2>3 DEF Atomic!LeftAfter, M
  <2>5. Remains(queueThen[s], order, leftThen, id)
          = [i \in Ids |-> IF i = id THEN leftThen[id] - SumFunction(f)
                           ELSE IF i \in M THEN leftThen[i] - Share(queueThen[s], order, leftThen, id, i)
                           ELSE leftThen[i]]
    BY DEF Remains, f, M
  <2> QED BY <1>1, <2>4, <2>5
<1>3. Atomic!TradesAfter(id) = tradesThen[id] \o TradesMade(queueThen[s], order, leftThen, id)
  <2> DEFINE S == Sharers(queueThen[s], order, leftThen, id)
             nth(k) == CHOOSE r \in Atomic!Takers(id) : Atomic!Cardinality(Atomic!Ahead(id, r)) = k - 1
  <2>1. \A r : Atomic!Cardinality(Atomic!Ahead(id, r)) = Cardinality(Served(queueThen[s], order, id, r))
    BY <1>1, ThenCardinality
  <2>2. \A k : nth(k) = Nth(queueThen[s], order, leftThen, id, k)
    BY <1>1, <2>1 DEF Nth
  <2>3. Atomic!Cardinality(Atomic!Takers(id)) = Cardinality(S)
    BY <1>1, ThenCardinality
  <2>4. Atomic!TradesAfter(id)
          = tradesThen[id] \o [k \in 1 .. Atomic!Cardinality(Atomic!Takers(id)) |->
               [maker |-> nth(k), quantity |-> Atomic!Taken(id, nth(k)), price |-> order[nth(k)].price]]
    BY DEF Atomic!TradesAfter
  <2> HIDE DEF nth, S
  <2>5. [k \in 1 .. Atomic!Cardinality(Atomic!Takers(id)) |->
           [maker |-> nth(k), quantity |-> Atomic!Taken(id, nth(k)), price |-> order[nth(k)].price]]
          = TradesMade(queueThen[s], order, leftThen, id)
    BY <1>1, <2>2, <2>3 DEF TradesMade, S
  <2> QED BY <2>4, <2>5
<1>4. Atomic!QueueAfter(id) = BookAfter(queueThen[s], order, Atomic!LeftAfter(id), id)
  <2> DEFINE A == Atomic!LeftAfter(id)
             kept(q) == SubSeq(q, 1 + Atomic!Cardinality({i \in DOMAIN q : A[q[i]] = 0}), Len(q))
             all == [side \in Atomic!B!Sides |-> [p \in Prices |-> kept(queueThen[s][side][p])]]
  <2>1. Atomic!QueueAfter(id)
          = IF A[id] > 0 /\ order[id].kind # "MARKET"
              THEN [all EXCEPT ![order[id].side][order[id].price] = Append(@, id)] ELSE all
    BY DEF Atomic!QueueAfter
  <2> HIDE DEF A
  <2>2. \A q : kept(q) = Emptied(q, A)
    BY ThenCardinality DEF Emptied
  <2>3. all = EmptiedBook(queueThen[s], A)
    BY <2>2 DEF EmptiedBook, Atomic!B!Sides, Sides
  <2> HIDE DEF all
  <2> QED BY <2>1, <2>3 DEF BookAfter, Placed, A
<1> QED BY <1>2, <1>3, <1>4

\* Where the mapping sends the state, order by order and book by book.
LeftEnd(i) ==
  LET s == order[i].symbol
  IN  IF Running(s) THEN Remains(queue[s], order, left, taker[s])[i] ELSE left[i]

QueueEnd(s) ==
  IF Running(s)
    THEN BookAfter(queue[s], order, Remains(queue[s], order, left, taker[s]), taker[s])
    ELSE queue[s]

TradesEnd(i) ==
  LET s == order[i].symbol
  IN  IF taker[s] = i THEN trades[i] \o TradesMade(queue[s], order, left, i) ELSE trades[i]

MappedTo ==
  /\ leftThen = [i \in Ids |-> LeftEnd(i)]
  /\ queueThen = [s \in Symbols |-> QueueEnd(s)]
  /\ tradesThen = [i \in Ids |-> TradesEnd(i)]

\* An order is for a symbol.
LEMMA SymbolOfOrder ==
  ASSUME NEW o \in [Ids -> OrderRecords], NEW i \in Ids PROVE o[i].symbol \in Symbols
<1>1. o[i] \in OrderRecords
  OBVIOUS
<1> QED BY <1>1 DEF OrderRecords

\* The mapping of AtomicMatching is this one.
LEMMA MappingIs == BooksAreSound => MappedTo
<1> SUFFICES ASSUME BooksAreSound PROVE MappedTo
  OBVIOUS
<1>1. /\ Tidy(queue, order)
      /\ \A s \in Symbols : Running(s) => taker[s] \in Ids /\ order[taker[s]].symbol = s
      /\ \A i \in Ids : order[i].symbol \in Symbols
  <2>1. \A s \in Symbols : Sound(queue[s], order, left, s)
    BY DEF BooksAreSound
  <2>2. ASSUME NEW i \in Ids PROVE order[i].symbol \in Symbols
    <3>1. Symbols # {}
      BY BookAssumption DEF OrderRecords
    <3>2. Readable(order)
      BY <2>1, <3>1 DEF Sound
    <3> QED BY <3>2 DEF Readable
  <2> QED BY <2>2 DEF BooksAreSound
<1>2. ASSUME NEW i \in Ids
      PROVE  (LET s == order[i].symbol
              IN  IF Running(s) THEN Now!LeftAfter(taker[s])[i] ELSE left[i]) = LeftEnd(i)
  BY <1>1, NowResults DEF LeftEnd
<1>3. ASSUME NEW s \in Symbols
      PROVE  (IF Running(s) THEN Now!QueueAfter(taker[s]) ELSE queue[s]) = QueueEnd(s)
  BY <1>1, NowResults DEF QueueEnd
<1>4. ASSUME NEW i \in Ids
      PROVE  (IF \E s \in Symbols : taker[s] = i THEN Now!TradesAfter(i) ELSE trades[i])
               = TradesEnd(i)
  <2>1. i # NoOrder
    BY BookAssumption DEF Ids, NoOrder
  <2>2. (\E s \in Symbols : taker[s] = i) <=> taker[order[i].symbol] = i
    BY <1>1, <2>1 DEF Running
  <2>3. Now!TradesAfter(i) = trades[i] \o TradesMade(queue[order[i].symbol], order, left, i)
    BY <1>1, NowResults
  <2> QED BY <2>2, <2>3 DEF TradesEnd
<1>5. leftThen = [i \in Ids |-> LeftEnd(i)]
  BY <1>2 DEF leftThen
<1>6. queueThen = [s \in Symbols |-> QueueEnd(s)]
  BY <1>3 DEF queueThen
<1>7. tradesThen = [i \in Ids |-> TradesEnd(i)]
  BY <1>4 DEF tradesThen
<1> QED BY <1>5, <1>6, <1>7 DEF MappedTo

\* A step elsewhere does not change where a book, and its orders, are sent.
LEMMA Elsewhere ==
  ASSUME BooksAreSound, NEW t \in Symbols,
         queue'[t] = queue[t], taker'[t] = taker[t],
         \A r \in Ids : Member(queue[t], r) \/ r = taker[t] =>
                          order[r] = order'[r] /\ left[r] = left'[r]
  PROVE  /\ QueueEnd(t)' = QueueEnd(t)
         /\ \A i \in Ids : order[i].symbol = t /\ order'[i].symbol = t =>
              /\ left'[i] = left[i] => LeftEnd(i)' = LeftEnd(i)
              /\ trades'[i] = trades[i] => TradesEnd(i)' = TradesEnd(i)
<1>1. CASE ~Running(t)
  <2>1. ~Running(t)'
    BY <1>1 DEF Running
  <2>2. \A i \in Ids : taker[t] # i
    BY <1>1, BookAssumption DEF Running, Ids, NoOrder
  <2>3. QueueEnd(t)' = QueueEnd(t)
    BY <1>1, <2>1 DEF QueueEnd
  <2>4. ASSUME NEW i \in Ids, order[i].symbol = t, order'[i].symbol = t, left'[i] = left[i]
        PROVE  LeftEnd(i)' = LeftEnd(i)
    BY <1>1, <2>1, <2>4 DEF LeftEnd
  <2>5. ASSUME NEW i \in Ids, order[i].symbol = t, order'[i].symbol = t, trades'[i] = trades[i]
        PROVE  TradesEnd(i)' = TradesEnd(i)
    BY <2>2, <2>5 DEF TradesEnd
  <2> QED BY <2>3, <2>4, <2>5
<1>2. CASE Running(t)
  <2>1. Running(t)'
    BY <1>2 DEF Running
  <2>2. taker[t] \in Ids /\ Sound(queue[t], order, left, t)
    BY <1>2 DEF BooksAreSound
  <2> DEFINE bk == queue[t]
             id == taker[t]
  <2>3. /\ order[id] = order'[id] /\ left[id] = left'[id]
        /\ \A r \in Ids : Member(bk, r) => order[r] = order'[r] /\ left[r] = left'[r]
    BY <2>2
  <2> HIDE DEF bk, id
  <2>4. /\ \A i \in Ids : left[i] = left'[i] =>
             Remains(bk, order', left', id)[i] = Remains(bk, order, left, id)[i]
        /\ TradesMade(bk, order', left', id) = TradesMade(bk, order, left, id)
    BY <2>2, <2>3, SameCall DEF bk, id
  <2>5. BookAfter(bk, order', Remains(bk, order', left', id), id)
          = BookAfter(bk, order, Remains(bk, order, left, id), id)
    <3> DEFINE A == Remains(bk, order, left, id)
               B == Remains(bk, order', left', id)
    <3>1. A[id] = B[id] /\ \A r \in Ids : Member(bk, r) => A[r] = B[r]
      BY <2>2, <2>3, <2>4 DEF id
    <3>2. Sound(bk, order, left, t)
      BY <2>2 DEF bk
    <3> HIDE DEF A, B
    <3>3. BookAfter(bk, order', B, id) = BookAfter(bk, order, A, id)
      BY <2>3, <3>1, <3>2, SameBookAfter
    <3> QED BY <3>3 DEF A, B
  <2>6. QueueEnd(t) = BookAfter(bk, order, Remains(bk, order, left, id), id)
    BY <1>2 DEF QueueEnd, bk, id
  <2>7. QueueEnd(t)' = BookAfter(bk, order', Remains(bk, order', left', id), id)
    BY <2>1 DEF QueueEnd, bk, id
  <2>8. ASSUME NEW i \in Ids, order[i].symbol = t, order'[i].symbol = t, left'[i] = left[i]
        PROVE  LeftEnd(i)' = LeftEnd(i)
    <3>1. LeftEnd(i) = Remains(bk, order, left, id)[i]
      BY <1>2, <2>8 DEF LeftEnd, bk, id
    <3>2. LeftEnd(i)' = Remains(bk, order', left', id)[i]
      BY <2>1, <2>8 DEF LeftEnd, bk, id
    <3> QED BY <2>4, <2>8, <3>1, <3>2
  <2>9. ASSUME NEW i \in Ids, order[i].symbol = t, order'[i].symbol = t, trades'[i] = trades[i]
        PROVE  TradesEnd(i)' = TradesEnd(i)
    <3>1. TradesEnd(i) = IF id = i THEN trades[i] \o TradesMade(bk, order, left, i) ELSE trades[i]
      BY <2>9 DEF TradesEnd, bk, id
    <3>2. TradesEnd(i)' = IF id = i THEN trades'[i] \o TradesMade(bk, order', left', i) ELSE trades'[i]
      BY <2>9 DEF TradesEnd, bk, id
    <3> QED BY <2>4, <2>9, <3>1, <3>2
  <2> QED BY <2>5, <2>6, <2>7, <2>8, <2>9
<1> QED BY <1>1, <1>2

LEMMA AllSymbols == BookInv => \A i \in Ids : order[i].symbol \in Symbols
BY SymbolOfOrder DEF BookInv, BookTypeOK

\* What the mapping keeps from a step to the next.
LEMMA KeepsMapping ==
  ASSUME MappedTo, MappedTo',
         \A s \in Symbols : QueueEnd(s)' = QueueEnd(s),
         \A i \in Ids : LeftEnd(i)' = LeftEnd(i) /\ TradesEnd(i)' = TradesEnd(i)
  PROVE  UNCHANGED <<leftThen, queueThen, tradesThen>>
BY DEF MappedTo

\* A step of the loop is a turn.
LEMMA FillIsTurn ==
  ASSUME BookInv, NEW s \in Symbols, NEW p \in Prices, FillAt(s, p)
  PROVE  /\ Turn(queue[s], order, left, queue'[s], left', taker[s], p)
         /\ MakerAt(s, p) = Head(queue[s][Opposite(order[taker[s]].side)][p])
         /\ TradedAt(s, p) = Smaller(left[taker[s]], left[MakerAt(s, p)])
<1> DEFINE id == taker[s]
           d == Opposite(order[id].side)
           m == Head(queue[s][d][p])
           n == Smaller(left[id], left[m])
<1>1. /\ CanFillAt(s, p) /\ MakerSide(s) = d /\ MakerAt(s, p) = m /\ TradedAt(s, p) = n
  BY DEF FillAt, MakerSide, MakerAt, TradedAt
<1>2. /\ id \in Ids /\ m \in Ids /\ m # id /\ d \in Sides
      /\ queue[s][d][p] # <<>>
  <2>1. BelongsAt(s, MakerSide(s), p, MakerAt(s, p)) /\ MakerAt(s, p) \in Ids /\ id \in Ids
        /\ MakerSide(s) \in Sides /\ queue[s][MakerSide(s)][p] # <<>>
    BY <1>1, MakerFacts
  <2>2. m # id
    BY <1>1, <2>1 DEF BelongsAt
  <2> QED BY <1>1, <2>1, <2>2
<1>3. /\ Crosses(order[id], p) /\ left[id] > 0 /\ Running(s)
      /\ \A q \in Prices : q # p /\ queue[s][d][q] # <<>> => Better(d, p, q)
  BY <1>1 DEF CanFillAt, IsBest, Levels, Running
<1>4. ~Member(queue[s], id)
  BY <1>3, BookInvSound DEF BooksAreSound
<1>5. /\ left \in [Ids -> Nat]
      /\ queue \in [Symbols -> [Sides -> [Prices -> Seq(Ids)]]]
  BY DEF BookInv, BookTypeOK
<1>6. /\ left' = [left EXCEPT ![id] = @ - n, ![m] = @ - n]
      /\ queue' = IF left[m] = n THEN [queue EXCEPT ![s][d][p] = Tail(@)] ELSE queue
  BY <1>1 DEF FillAt, Reduced
<1> HIDE DEF id, m, n, d
<1>7. /\ left'[id] = left[id] - n /\ left'[m] = left[m] - n
      /\ \A r \in Ids : r # id /\ r # m => left'[r] = left[r]
  BY <1>2, <1>5, <1>6
<1>8. /\ \A side \in Sides, q \in Prices : side # d \/ q # p => queue'[s][side][q] = queue[s][side][q]
      /\ queue'[s][d][p] = IF left[m] = n THEN Tail(queue[s][d][p]) ELSE queue[s][d][p]
  BY <1>2, <1>5, <1>6
<1>9. Turn(queue[s], order, left, queue'[s], left', id, p)
  BY <1>2, <1>3, <1>4, <1>7, <1>8 DEF Turn, m, n, d
<1> QED BY <1>1, <1>9 DEF id, m, n, d

\* A turn of the loop changes nothing for AtomicBook,
LEMMA FillStutters ==
  ASSUME BookInv, BookInv', NEW s \in Symbols, NEW p \in Prices, FillAt(s, p)
  PROVE  UNCHANGED <<leftThen, queueThen, tradesThen>>
<1>0. MappedTo /\ MappedTo' /\ BooksAreSound /\ BooksAreSound'
  <2>1. MappedTo /\ BooksAreSound
    BY BookInvSound, MappingIs
  <2>2. MappedTo' /\ BooksAreSound'
    BY BookInvSound, MappingIs, PTL
  <2> QED BY <2>1, <2>2
<1> DEFINE id == taker[s]
           bk == queue[s]
           ck == queue'[s]
           m == MakerAt(s, p)
<1>1. /\ Turn(bk, order, left, ck, left', id, p)
      /\ m = Head(bk[Opposite(order[id].side)][p])
      /\ TradedAt(s, p) = Smaller(left[id], left[m])
  BY FillIsTurn
<1>2. UNCHANGED <<nextId, order, entered, taker>>
  BY DEF FillAt
<1>3. Running(s) /\ Running(s)' /\ id \in Ids /\ order[id].symbol = s
  <2>1. Running(s)
    BY DEF FillAt, CanFillAt, Running
  <2> QED BY <1>0, <1>2, <2>1 DEF Running, BooksAreSound
<1>4. Sound(bk, order, left, s) /\ Sound(ck, order, left', s)
  <2>1. Sound(queue'[s], order', left', s)
    BY <1>0 DEF BooksAreSound
  <2> QED BY <1>0, <1>2, <2>1 DEF BooksAreSound
<1>5. /\ m \in Ids /\ order[m].symbol = s
      /\ \A r \in Ids : r # id /\ r # m => left'[r] = left[r]
  <2>1. m \in Makers(bk, order, id) /\ m \in Ids /\ \A r \in Ids : r # id /\ r # m => left'[r] = left[r]
    <3> HIDE DEF id, bk, ck, m
    <3> QED BY <1>1, <1>3, <1>4, FrontIs
  <2>2. order[m].symbol = s
    <3> HIDE DEF id, bk, ck, m
    <3> QED BY <1>4, <2>1, MakersFacts
  <2> QED BY <2>1, <2>2
<1>6. /\ \A t \in Symbols : t # s => queue'[t] = queue[t]
      /\ \A i \in Ids : i # id => trades'[i] = trades[i]
      /\ trades'[id] = Append(trades[id], [maker |-> m, quantity |-> TradedAt(s, p), price |-> p])
  <2>1. /\ trades \in [Ids -> Seq(Trades)]
        /\ queue \in [Symbols -> [Sides -> [Prices -> Seq(Ids)]]]
    BY DEF BookInv, BookTypeOK
  <2>2. /\ trades' = [trades EXCEPT ![id] = Append(@, [maker |-> m, quantity |-> TradedAt(s, p), price |-> p])]
        /\ \/ queue' = queue
           \/ queue' = [queue EXCEPT ![s][MakerSide(s)][p] = Tail(@)]
    BY DEF FillAt
  <2> HIDE DEF id, m
  <2>3. \A t \in Symbols : t # s => queue'[t] = queue[t]
    BY <2>1, <2>2
  <2>4. /\ \A i \in Ids : i # id => trades'[i] = trades[i]
        /\ trades'[id] = Append(trades[id], [maker |-> m, quantity |-> TradedAt(s, p), price |-> p])
    BY <1>3, <2>1, <2>2 DEF id
  <2> QED BY <2>3, <2>4
\* The other books.
<1>7. ASSUME NEW t \in Symbols, t # s
      PROVE  /\ QueueEnd(t)' = QueueEnd(t)
             /\ \A i \in Ids : order[i].symbol = t =>
                  LeftEnd(i)' = LeftEnd(i) /\ TradesEnd(i)' = TradesEnd(i)
  <2>1. \A r \in Ids : order[r].symbol = t =>
           r # id /\ r # m /\ left[r] = left'[r] /\ trades'[r] = trades[r]
    BY <1>3, <1>5, <1>6, <1>7
  <2>2. \A r \in Ids : Member(queue[t], r) => order[r].symbol = t
    BY <1>0 DEF BooksAreSound, Tidy, Member
  <2>3. taker[t] \in Ids => order[taker[t]].symbol = t
    BY <1>0, BookAssumption DEF BooksAreSound, Running, Ids, NoOrder
  <2>4. \A r \in Ids : Member(queue[t], r) \/ r = taker[t] => order[r] = order'[r] /\ left[r] = left'[r]
    BY <1>2, <2>1, <2>2, <2>3
  <2>5. queue'[t] = queue[t] /\ taker'[t] = taker[t]
    BY <1>2, <1>6, <1>7
  <2>6. /\ QueueEnd(t)' = QueueEnd(t)
        /\ \A i \in Ids : order[i].symbol = t /\ order'[i].symbol = t =>
              /\ left'[i] = left[i] => LeftEnd(i)' = LeftEnd(i)
              /\ trades'[i] = trades[i] => TradesEnd(i)' = TradesEnd(i)
    BY <1>0, <2>4, <2>5, Elsewhere
  <2> QED BY <1>2, <2>1, <2>6
\* This book.
<1>8. /\ Remains(ck, order, left', id) = Remains(bk, order, left, id)
      /\ BookAfter(ck, order, Remains(ck, order, left', id), id)
           = BookAfter(bk, order, Remains(bk, order, left, id), id)
  <2> HIDE DEF bk, ck, id
  <2> QED BY <1>1, <1>3, <1>4, TurnKeepsRemains, TurnKeepsBook
<1>9. QueueEnd(s)' = QueueEnd(s)
  BY <1>2, <1>3, <1>8 DEF QueueEnd
<1>10. ASSUME NEW i \in Ids, order[i].symbol = s PROVE LeftEnd(i)' = LeftEnd(i)
  BY <1>2, <1>3, <1>8, <1>10 DEF LeftEnd
<1>11. ASSUME NEW i \in Ids, order[i].symbol = s PROVE TradesEnd(i)' = TradesEnd(i)
  <2>1. CASE i # id
    BY <1>2, <1>6, <1>11, <2>1 DEF TradesEnd
  <2>2. CASE i = id
    <3> DEFINE t == TradesMade(bk, order, left, id)
               u == TradesMade(ck, order, left', id)
               e == [maker |-> m, quantity |-> Smaller(left[id], left[m]), price |-> p]
    <3>1. /\ t \in Seq(Trades) /\ u \in Seq(Trades) /\ Len(t) = Len(u) + 1
          /\ t[1] = e
          /\ \A j \in 1 .. Len(u) : t[j + 1] = u[j]
      <4> HIDE DEF bk, ck, id, m
      <4>1. OneMore(t, u, e)
        BY <1>1, <1>3, <1>4, TurnIsOneTrade, Zenon
      <4> HIDE DEF t, u, e
      <4> QED BY <4>1, Zenon DEF OneMore
    <3>2. TradesEnd(i) = trades[id] \o t /\ TradesEnd(i)' = trades'[id] \o u
      BY <1>2, <1>3, <2>2 DEF TradesEnd
    <3>3. trades[id] \in Seq(Trades)
      BY <1>3 DEF BookInv, BookTypeOK
    <3>4. trades'[id] = Append(trades[id], e)
      BY <1>1, <1>6
    <3> DEFINE v == trades[id]
    <3> HIDE DEF t, u, e, v
    <3>5. Append(v, e) \o u = v \o t
      <4>1. e \in Trades /\ v \in Seq(Trades)
        BY <3>1, <3>3 DEF v
      <4> DEFINE w == <<e>> \o u
      <4>2. w \in Seq(Trades) /\ Len(w) = Len(t) /\ w[1] = e
            /\ \A j \in 1 .. Len(u) : w[j + 1] = u[j]
        BY <3>1, <4>1
      <4> HIDE DEF w
      <4>3. ASSUME NEW j \in 1 .. Len(t) PROVE w[j] = t[j]
        <5>1. CASE j = 1
          BY <3>1, <4>2, <5>1
        <5>2. CASE j # 1
          <6>1. j - 1 \in 1 .. Len(u) /\ (j - 1) + 1 = j
            BY <3>1, <5>2
          <6> QED BY <3>1, <4>2, <6>1
        <5> QED BY <5>1, <5>2
      <4>4. w = t
        BY <3>1, <4>2, <4>3
      <4>5. Append(v, e) \o u = v \o w
        <5>1. <<e>> \in Seq(Trades) /\ Append(v, e) = v \o <<e>>
          BY <4>1, AppendIsConcat
        <5>2. (v \o <<e>>) \o u = v \o (<<e>> \o u)
          BY <3>1, <4>1, <5>1, ConcatAssociative
        <5> QED BY <5>1, <5>2 DEF w
      <4> QED BY <4>4, <4>5
    <3> QED BY <3>2, <3>4, <3>5 DEF v
  <2> QED BY <2>1, <2>2
<1>12. \A i \in Ids : LeftEnd(i)' = LeftEnd(i) /\ TradesEnd(i)' = TradesEnd(i)
  BY <1>7, <1>10, <1>11, AllSymbols
<1> QED BY <1>0, <1>7, <1>9, <1>12, KeepsMapping

\* nor does the tail of match();
LEMMA FinishStutters ==
  ASSUME BookInv, BookInv', NEW s \in Symbols, Finish(s)
  PROVE  UNCHANGED <<leftThen, queueThen, tradesThen>>
<1>0. MappedTo /\ MappedTo' /\ BooksAreSound /\ BooksAreSound'
  <2>1. MappedTo /\ BooksAreSound
    BY BookInvSound, MappingIs
  <2>2. MappedTo' /\ BooksAreSound'
    BY BookInvSound, MappingIs, PTL
  <2> QED BY <2>1, <2>2
<1> DEFINE id == taker[s]
           bk == queue[s]
<1>1. UNCHANGED <<nextId, order, left, entered, trades>>
  BY DEF Finish
<1>2. Running(s) /\ id \in Ids /\ order[id].symbol = s
  <2>1. Running(s)
    BY DEF Finish, Running
  <2> QED BY <1>0, <2>1 DEF BooksAreSound
<1>3. /\ taker'[s] = NoOrder
      /\ \A t \in Symbols : t # s => taker'[t] = taker[t]
      /\ \A t \in Symbols : t # s => queue'[t] = queue[t]
      /\ queue'[s] = Placed(bk, order, left, id)
  <2>1. /\ taker \in [Symbols -> Ids \cup {NoOrder}]
        /\ queue \in [Symbols -> [Sides -> [Prices -> Seq(Ids)]]]
    BY DEF BookInv, BookTypeOK
  <2>2. /\ taker' = [taker EXCEPT ![s] = NoOrder]
        /\ queue' = IF left[id] > 0 /\ order[id].kind # "MARKET"
                      THEN [queue EXCEPT ![s][order[id].side][order[id].price] = Append(@, id)]
                      ELSE queue
    BY DEF Finish, Rests, Behind
  <2>3. /\ taker'[s] = NoOrder /\ \A t \in Symbols : t # s => taker'[t] = taker[t]
    BY <2>1, <2>2
  <2> HIDE DEF id
  <2>4. \A t \in Symbols : t # s => queue'[t] = queue[t]
    BY <2>1, <2>2
  <2>5. queue'[s] = Placed(bk, order, left, id)
    <3>1. CASE left[id] > 0 /\ order[id].kind # "MARKET"
      <4>1. queue'[s] = [bk EXCEPT ![order[id].side][order[id].price] = Append(@, id)]
        BY <2>1, <2>2, <3>1
      <4> HIDE DEF bk
      <4> QED BY <3>1, <4>1 DEF Placed
    <3>2. CASE ~(left[id] > 0 /\ order[id].kind # "MARKET")
      BY <2>2, <3>2 DEF Placed
    <3> QED BY <3>1, <3>2
  <2> QED BY <2>3, <2>4, <2>5
<1>4. /\ Remains(bk, order, left, id) = left
      /\ TradesMade(bk, order, left, id) = <<>>
      /\ BookAfter(bk, order, left, id) = Placed(bk, order, left, id)
  <2>1. \/ left[id] = 0
        \/ \A p \in Prices : bk[Opposite(order[id].side)][p] # <<>> => ~Crosses(order[id], p)
    BY DEF Finish, LoopsEnd, Levels, MakerSide
  <2>2. Sound(bk, order, left, s)
    BY <1>0 DEF BooksAreSound
  <2> HIDE DEF id, bk
  <2> QED BY <1>2, <2>1, <2>2, CallOver
<1>5. ASSUME NEW t \in Symbols, t # s
      PROVE  /\ QueueEnd(t)' = QueueEnd(t)
             /\ \A i \in Ids : order[i].symbol = t =>
                  LeftEnd(i)' = LeftEnd(i) /\ TradesEnd(i)' = TradesEnd(i)
  <2>1. queue'[t] = queue[t] /\ taker'[t] = taker[t]
    BY <1>3, <1>5
  <2>2. /\ QueueEnd(t)' = QueueEnd(t)
        /\ \A i \in Ids : order[i].symbol = t /\ order'[i].symbol = t =>
              /\ left'[i] = left[i] => LeftEnd(i)' = LeftEnd(i)
              /\ trades'[i] = trades[i] => TradesEnd(i)' = TradesEnd(i)
    BY <1>0, <1>1, <2>1, Elsewhere
  <2> QED BY <1>1, <2>2
<1>6. ~Running(s)'
  BY <1>3 DEF Running
<1>7. QueueEnd(s)' = QueueEnd(s)
  BY <1>2, <1>3, <1>4, <1>6 DEF QueueEnd
<1>8. ASSUME NEW i \in Ids, order[i].symbol = s PROVE LeftEnd(i)' = LeftEnd(i)
  BY <1>1, <1>2, <1>4, <1>6, <1>8 DEF LeftEnd
<1>9. ASSUME NEW i \in Ids, order[i].symbol = s PROVE TradesEnd(i)' = TradesEnd(i)
  <2>1. i # NoOrder
    BY BookAssumption DEF Ids, NoOrder
  <2>2. TradesEnd(i)' = trades[i]
    BY <1>1, <1>3, <1>9, <2>1 DEF TradesEnd
  <2>3. trades[i] \in Seq(Trades)
    BY DEF BookInv, BookTypeOK
  <2>4. TradesEnd(i) = IF id = i THEN trades[i] \o <<>> ELSE trades[i]
    BY <1>4, <1>9 DEF TradesEnd
  <2> QED BY <2>2, <2>3, <2>4
<1>10. \A i \in Ids : LeftEnd(i)' = LeftEnd(i) /\ TradesEnd(i)' = TradesEnd(i)
  BY <1>5, <1>8, <1>9, AllSymbols
<1> QED BY <1>0, <1>5, <1>7, <1>10, KeepsMapping

\* a new order is one there,
LEMMA BuildBuilds ==
  ASSUME BookInv, BookInv', NEW o \in OrderRecords, Build(o), NEW n, n = nextId
  PROVE  Atomic!Build(o)
<1>0. MappedTo /\ MappedTo' /\ BooksAreSound /\ BooksAreSound'
  <2>1. MappedTo /\ BooksAreSound
    BY BookInvSound, MappingIs
  <2>2. MappedTo' /\ BooksAreSound'
    BY BookInvSound, MappingIs, PTL
  <2> QED BY <2>1, <2>2
<1>1. /\ UNCHANGED <<entered, queue, taker, trades>>
      /\ n \in Ids /\ nextId' = nextId + 1
      /\ order' = [order EXCEPT ![n] = o]
      /\ left' = [left EXCEPT ![n] = o.quantity]
  BY DEF Build
<1>2. /\ order \in [Ids -> OrderRecords] /\ left \in [Ids -> Nat]
      /\ n \notin entered
      /\ \A i \in Ids : order[i].symbol \in Symbols
  <2>1. entered \subseteq 1 .. nextId - 1 /\ n \in Nat
    BY BookAssumption DEF BookInv, BookTypeOK
  <2> QED BY <2>1, AllSymbols DEF BookInv, BookTypeOK
<1>3. /\ \A i \in Ids : i # n => order'[i] = order[i] /\ left'[i] = left[i]
      /\ order'[n] = o /\ left'[n] = o.quantity
  BY <1>1, <1>2
<1>4. \A t \in Symbols : taker[t] # n /\ ~Member(queue[t], n)
  <2>1. ASSUME NEW t \in Symbols, Member(queue[t], n) PROVE FALSE
    <3>1. PICK side \in Sides, p \in Prices : Contains(queue[t][side][p], n)
      BY <2>1 DEF Member
    <3>2. queue[t][side][p] \in Seq(Ids)
      BY DEF BookInv, BookTypeOK
    <3>3. PICK j \in DOMAIN queue[t][side][p] : queue[t][side][p][j] = n
      BY <3>1, <3>2 DEF Contains
    <3>4. n \in entered
      BY <3>3 DEF BookInv, RestsWhereItBelongs, BelongsAt
    <3> QED BY <1>2, <3>4
  <2>2. \A t \in Symbols : taker[t] # n
    BY <1>0, <1>1, <1>2, BookAssumption DEF BooksAreSound, Running, NoOrder, Ids
  <2> QED BY <2>1, <2>2
<1>5. ASSUME NEW t \in Symbols
      PROVE  /\ QueueEnd(t)' = QueueEnd(t)
             /\ \A i \in Ids : i # n /\ order[i].symbol = t =>
                  LeftEnd(i)' = LeftEnd(i) /\ TradesEnd(i)' = TradesEnd(i)
  <2>1. /\ queue'[t] = queue[t] /\ taker'[t] = taker[t]
        /\ \A r \in Ids : Member(queue[t], r) \/ r = taker[t] =>
                            order[r] = order'[r] /\ left[r] = left'[r]
    BY <1>1, <1>3, <1>4
  <2>2. /\ QueueEnd(t)' = QueueEnd(t)
        /\ \A i \in Ids : order[i].symbol = t /\ order'[i].symbol = t =>
              /\ left'[i] = left[i] => LeftEnd(i)' = LeftEnd(i)
              /\ trades'[i] = trades[i] => TradesEnd(i)' = TradesEnd(i)
    BY <1>0, <2>1, Elsewhere
  <2> QED BY <1>1, <1>3, <2>2
\* The new order.
<1>6. TradesEnd(n) = trades[n] /\ TradesEnd(n)' = trades[n]
  <2>1. order'[n].symbol \in Symbols /\ order[n].symbol \in Symbols
    BY <1>1, <1>2, <1>3 DEF OrderRecords
  <2> QED BY <1>1, <1>4, <2>1 DEF TradesEnd
<1>7. LeftEnd(n)' = o.quantity
  <2> DEFINE t == order'[n].symbol
  <2>1. t \in Symbols
    BY <1>3 DEF OrderRecords
  <2>2. n \notin Makers(queue'[t], order', taker'[t]) /\ n # taker'[t]
    BY <1>1, <1>4, <2>1 DEF Makers, Member
  <2>3. Remains(queue'[t], order', left', taker'[t])[n] = left'[n]
    BY <1>1, <2>2 DEF Remains
  <2> QED BY <1>3, <2>3 DEF LeftEnd
<1>8. /\ leftThen' = [leftThen EXCEPT ![n] = o.quantity]
      /\ queueThen' = queueThen /\ tradesThen' = tradesThen
  <2>1. \A i \in Ids : i # n => LeftEnd(i)' = LeftEnd(i)
    BY <1>2, <1>5
  <2>2. \A i \in Ids : TradesEnd(i)' = TradesEnd(i)
    BY <1>2, <1>5, <1>6
  <2>3. leftThen' = [leftThen EXCEPT ![n] = o.quantity]
    BY <1>0, <1>1, <1>7, <2>1 DEF MappedTo
  <2> QED BY <1>0, <1>5, <2>2, <2>3 DEF MappedTo
<1> QED BY <1>1, <1>8 DEF Atomic!Build, Atomic!B!Ids, Ids

\* Where the mapping sends the books, every order is in that of its symbol.
LEMMA ThenTidy ==
  ASSUME BooksAreSound, MappedTo PROVE Tidy(queueThen, order)
<1>1. ASSUME NEW t \in Symbols
      PROVE  /\ QueueEnd(t) \in [Sides -> [Prices -> Seq(Ids)]]
             /\ \A side \in Sides, p \in Prices, r \in Ids :
                  Contains(QueueEnd(t)[side][p], r) => order[r].symbol = t
  <2> DEFINE bk == queue[t]
             id == taker[t]
             A == Remains(bk, order, left, id)
             e == EmptiedBook(bk, A)
  <2>1. /\ bk \in [Sides -> [Prices -> Seq(Ids)]]
        /\ \A side \in Sides, p \in Prices : \A i \in DOMAIN bk[side][p] :
             order[bk[side][p][i]].symbol = t
    BY DEF BooksAreSound, Sound
  <2>2. CASE ~Running(t)
    <3>1. QueueEnd(t) = bk
      BY <2>2 DEF QueueEnd
    <3>2. \A side \in Sides, p \in Prices, r \in Ids : Contains(bk[side][p], r) => order[r].symbol = t
      BY <2>1 DEF Contains
    <3> QED BY <2>1, <3>1, <3>2
  <2>3. CASE Running(t)
    <3>1. id \in Ids /\ order[id].symbol = t
      BY <2>3 DEF BooksAreSound
    <3>2. QueueEnd(t) = Placed(e, order, A, id)
      BY <2>3 DEF QueueEnd, BookAfter
    <3>3. ASSUME NEW side \in Sides, NEW p \in Prices
          PROVE  /\ Emptied(bk[side][p], A) \in Seq(Ids)
                 /\ \A i \in DOMAIN Emptied(bk[side][p], A) :
                      order[Emptied(bk[side][p], A)[i]].symbol = t
      <4> DEFINE q == bk[side][p]
                 C == {i \in DOMAIN q : A[q[i]] = 0}
                 c == Cardinality(C)
                 f == SubSeq(q, 1 + c, Len(q))
      <4>1. q \in Seq(Ids) /\ \A i \in DOMAIN q : order[q[i]].symbol = t
        BY <2>1
      <4>2. c \in Nat
        <5>1. C \in SUBSET (1 .. Len(q)) /\ IsFiniteSet(1 .. Len(q))
          BY <4>1, FS_Interval
        <5> HIDE DEF C
        <5> QED BY <5>1, FS_Subset, FS_CardinalityType
      <4>3. Emptied(q, A) = f
        BY DEF Emptied
      <4> HIDE DEF c, q
      <4>4. f \in Seq(Ids) /\ \A i \in DOMAIN f : i + c \in DOMAIN q /\ f[i] = q[i + c]
        BY <4>1, <4>2
      <4>5. \A i \in DOMAIN f : order[f[i]].symbol = t
        BY <4>1, <4>4
      <4> HIDE DEF f
      <4>6. Emptied(q, A) \in Seq(Ids)
            /\ \A i \in DOMAIN Emptied(q, A) : order[Emptied(q, A)[i]].symbol = t
        BY <4>3, <4>4, <4>5
      <4> QED BY <4>6 DEF q
    <3> HIDE DEF bk, id, A
    <3>4. /\ e \in [Sides -> [Prices -> Seq(Ids)]]
          /\ \A side \in Sides, p \in Prices : \A i \in DOMAIN e[side][p] :
               order[e[side][p][i]].symbol = t
      BY <3>3 DEF EmptiedBook
    <3> HIDE DEF e
    <3>5. ASSUME NEW side \in Sides, NEW p \in Prices
          PROVE  /\ Placed(e, order, A, id)[side][p] \in Seq(Ids)
                 /\ \A r \in Ids : Contains(Placed(e, order, A, id)[side][p], r) => order[r].symbol = t
      <4>1. \/ Placed(e, order, A, id)[side][p] = e[side][p]
            \/ Placed(e, order, A, id)[side][p] = Append(e[side][p], id)
        BY <3>4 DEF Placed
      <4>2. e[side][p] \in Seq(Ids) /\ \A i \in DOMAIN e[side][p] : order[e[side][p][i]].symbol = t
        BY <3>4
      <4> DEFINE q == e[side][p]
      <4> HIDE DEF q
      <4>3. \A r \in Ids : Contains(q, r) => order[r].symbol = t
        BY <4>2 DEF Contains, q
      <4>4. \A r \in Ids : Contains(Append(q, id), r) => Contains(q, r) \/ r = id
        BY <3>1, <4>2 DEF Contains, q
      <4>5. Append(q, id) \in Seq(Ids)
        BY <3>1, <4>2 DEF q
      <4> QED BY <3>1, <4>1, <4>2, <4>3, <4>4, <4>5 DEF q
    <3>6. Placed(e, order, A, id) \in [Sides -> [Prices -> Seq(Ids)]]
      <4>1. /\ DOMAIN Placed(e, order, A, id) = Sides
            /\ \A side \in Sides : DOMAIN Placed(e, order, A, id)[side] = Prices
            /\ Placed(e, order, A, id) = [side \in Sides |-> Placed(e, order, A, id)[side]]
            /\ \A side \in Sides : Placed(e, order, A, id)[side]
                                     = [p \in Prices |-> Placed(e, order, A, id)[side][p]]
        BY <3>4 DEF Placed
      <4>2. \A side \in Sides : Placed(e, order, A, id)[side] \in [Prices -> Seq(Ids)]
        BY <3>5, <4>1
      <4> QED BY <4>1, <4>2
    <3> QED BY <3>2, <3>5, <3>6
  <2> QED BY <2>2, <2>3
<1>2. queueThen = [t \in Symbols |-> QueueEnd(t)]
  BY DEF MappedTo
<1> QED BY <1>1, <1>2 DEF Tidy

\* taking the lock is the whole of match(),
LEMMA EnterMatches ==
  ASSUME BookInv, BookInv', NEW id \in Ids, Enter(id)
  PROVE  Atomic!Match(id)
<1>0. MappedTo /\ MappedTo' /\ BooksAreSound /\ BooksAreSound'
  <2>1. MappedTo /\ BooksAreSound
    BY BookInvSound, MappingIs
  <2>2. MappedTo' /\ BooksAreSound'
    BY BookInvSound, MappingIs, PTL
  <2> QED BY <2>1, <2>2
<1> DEFINE s == order[id].symbol
           bk == queue[s]
<1>1. /\ UNCHANGED <<nextId, order, left, queue, trades>>
      /\ id \in 1 .. nextId - 1 /\ id \notin entered /\ entered' = entered \cup {id}
      /\ taker[s] = NoOrder /\ taker' = [taker EXCEPT ![s] = id]
  BY DEF Enter
<1>2. /\ s \in Symbols /\ id # NoOrder
      /\ taker'[s] = id /\ \A t \in Symbols : t # s => taker'[t] = taker[t]
      /\ \A i \in Ids : order[i].symbol \in Symbols /\ i # NoOrder
  <2>1. \A i \in Ids : i # NoOrder
    BY BookAssumption DEF Ids, NoOrder
  <2>2. taker \in [Symbols -> Ids \cup {NoOrder}] /\ s \in Symbols
    BY AllSymbols DEF BookInv, BookTypeOK
  <2> QED BY <1>1, <2>1, <2>2, AllSymbols
<1>3. ~Running(s) /\ Running(s)'
  BY <1>1, <1>2 DEF Running
<1>4. /\ queueThen[s] = bk
      /\ \A i \in Ids : order[i].symbol = s => leftThen[i] = left[i] /\ tradesThen[i] = trades[i]
  <2>1. QueueEnd(s) = bk
    BY <1>3 DEF QueueEnd
  <2>2. \A i \in Ids : order[i].symbol = s => LeftEnd(i) = left[i] /\ TradesEnd(i) = trades[i]
    BY <1>1, <1>2, <1>3 DEF LeftEnd, TradesEnd
  <2> HIDE DEF s
  <2> QED BY <1>0, <1>2, <2>1, <2>2 DEF MappedTo
<1>5. /\ Atomic!LeftAfter(id) = Remains(bk, order, leftThen, id)
      /\ Atomic!TradesAfter(id) = trades[id] \o TradesMade(bk, order, leftThen, id)
      /\ Atomic!QueueAfter(id) = BookAfter(bk, order, Remains(bk, order, leftThen, id), id)
  <2>1. Tidy(queueThen, order)
    BY <1>0, ThenTidy
  <2>2. /\ Atomic!LeftAfter(id) = Remains(queueThen[s], order, leftThen, id)
        /\ Atomic!TradesAfter(id) = tradesThen[id] \o TradesMade(queueThen[s], order, leftThen, id)
        /\ Atomic!QueueAfter(id)
             = BookAfter(queueThen[s], order, Remains(queueThen[s], order, leftThen, id), id)
    BY <1>2, <2>1, ThenResults
  <2> QED BY <1>4, <2>2
<1>6. Sound(bk, order, left, s)
  BY <1>0, <1>2 DEF BooksAreSound
<1>7. \A r \in Ids : Member(bk, r) => order[r].symbol = s /\ left[r] = leftThen[r]
  BY <1>0, <1>2, <1>4 DEF BooksAreSound, Tidy, Member
<1>8. left[id] = leftThen[id] /\ id \in Ids
  BY <1>4
<1>9. /\ \A i \in Ids : left[i] = leftThen[i] =>
           Remains(bk, order, leftThen, id)[i] = Remains(bk, order, left, id)[i]
      /\ TradesMade(bk, order, leftThen, id) = TradesMade(bk, order, left, id)
  <2> HIDE DEF bk, s
  <2> QED BY <1>6, <1>7, <1>8, SameCall
<1>10. BookAfter(bk, order, Remains(bk, order, leftThen, id), id)
         = BookAfter(bk, order, Remains(bk, order, left, id), id)
  <2> DEFINE A == Remains(bk, order, left, id)
             B == Remains(bk, order, leftThen, id)
  <2>1. A[id] = B[id] /\ \A r \in Ids : Member(bk, r) => A[r] = B[r]
    BY <1>7, <1>8, <1>9
  <2> HIDE DEF A, B, bk, s
  <2>2. BookAfter(bk, order, B, id) = BookAfter(bk, order, A, id)
    BY <1>6, <2>1, SameBookAfter
  <2> QED BY <2>2 DEF A, B
\* The book of the call.
<1>11. QueueEnd(s)' = Atomic!QueueAfter(id)
  BY <1>1, <1>2, <1>3, <1>5, <1>10 DEF QueueEnd
<1>12. TradesEnd(id)' = Atomic!TradesAfter(id)
  BY <1>1, <1>2, <1>5, <1>9 DEF TradesEnd
<1>13. ASSUME NEW i \in Ids, order[i].symbol = s
       PROVE  LeftEnd(i)' = Atomic!LeftAfter(id)[i]
  <2>1. LeftEnd(i)' = Remains(bk, order, left, id)[i]
    BY <1>1, <1>2, <1>3, <1>13 DEF LeftEnd
  <2>2. left[i] = leftThen[i]
    BY <1>4, <1>13
  <2> QED BY <1>5, <1>9, <2>1, <2>2
<1>14. ASSUME NEW i \in Ids, order[i].symbol = s, i # id
       PROVE  TradesEnd(i)' = TradesEnd(i)
  BY <1>1, <1>2, <1>14 DEF TradesEnd
\* The others.
<1>15. ASSUME NEW t \in Symbols, t # s
       PROVE  /\ QueueEnd(t)' = QueueEnd(t)
              /\ \A i \in Ids : order[i].symbol = t =>
                   LeftEnd(i)' = LeftEnd(i) /\ TradesEnd(i)' = TradesEnd(i)
  <2>1. queue'[t] = queue[t] /\ taker'[t] = taker[t]
    BY <1>1, <1>2, <1>15
  <2>2. \A r \in Ids : Member(queue[t], r) \/ r = taker[t] => order[r] = order'[r] /\ left[r] = left'[r]
    BY <1>1
  <2>3. /\ QueueEnd(t)' = QueueEnd(t)
        /\ \A i \in Ids : order[i].symbol = t /\ order'[i].symbol = t =>
              /\ left'[i] = left[i] => LeftEnd(i)' = LeftEnd(i)
              /\ trades'[i] = trades[i] => TradesEnd(i)' = TradesEnd(i)
    BY <1>0, <2>1, <2>2, Elsewhere
  <2> QED BY <1>1, <2>3
<1>16. ASSUME NEW i \in Ids, order[i].symbol # s
       PROVE  leftThen[i] = Atomic!LeftAfter(id)[i]
  <2>1. i \notin Makers(bk, order, id) /\ i # id
    <3>1. i \notin Makers(bk, order, id)
      BY <1>7, <1>16 DEF Makers, Member
    <3> QED BY <1>16, <3>1
  <2> QED BY <1>5, <2>1 DEF Remains
<1>17. leftThen' = Atomic!LeftAfter(id)
  <2>1. Atomic!LeftAfter(id) = [i \in Ids |-> Atomic!LeftAfter(id)[i]]
    BY <1>5 DEF Remains
  <2>2. \A i \in Ids : LeftEnd(i)' = Atomic!LeftAfter(id)[i]
    <3>1. ASSUME NEW i \in Ids, order[i].symbol # s
          PROVE  LeftEnd(i)' = Atomic!LeftAfter(id)[i]
      <4>1. LeftEnd(i)' = LeftEnd(i)
        BY <1>2, <1>15, <3>1
      <4>2. leftThen[i] = LeftEnd(i)
        BY <1>0 DEF MappedTo
      <4> QED BY <1>16, <3>1, <4>1, <4>2
    <3> QED BY <1>13, <3>1
  <2>3. leftThen' = [i \in Ids |-> LeftEnd(i)']
    BY <1>0 DEF MappedTo
  <2> QED BY <2>1, <2>2, <2>3
<1>18. queueThen' = [queueThen EXCEPT ![s] = Atomic!QueueAfter(id)]
  <2>1. queueThen = [t \in Symbols |-> QueueEnd(t)] /\ queueThen' = [t \in Symbols |-> QueueEnd(t)']
    BY <1>0 DEF MappedTo
  <2>2. \A t \in Symbols : QueueEnd(t)' = IF t = s THEN Atomic!QueueAfter(id) ELSE QueueEnd(t)
    BY <1>1, <1>11, <1>15
  <2> HIDE DEF s
  <2> QED BY <1>2, <2>1, <2>2
<1>19. tradesThen' = [tradesThen EXCEPT ![id] = Atomic!TradesAfter(id)]
  <2>1. tradesThen = [i \in Ids |-> TradesEnd(i)] /\ tradesThen' = [i \in Ids |-> TradesEnd(i)']
    BY <1>0 DEF MappedTo
  <2>2. \A i \in Ids : TradesEnd(i)' = IF i = id THEN Atomic!TradesAfter(id) ELSE TradesEnd(i)
    BY <1>2, <1>12, <1>14, <1>15
  <2> QED BY <2>1, <2>2
<1> QED BY <1>1, <1>17, <1>18, <1>19 DEF Atomic!Match

\* and a cancelled order is cancelled there.
LEMMA CancelCancels ==
  ASSUME BookInv, BookInv', NEW s \in Symbols, NEW side \in Sides, NEW p \in Prices,
         NEW id \in Ids, CancelAt(s, side, p, id)
  PROVE  Atomic!Cancel(id)
<1>0. MappedTo /\ MappedTo' /\ BooksAreSound /\ BooksAreSound'
  <2>1. MappedTo /\ BooksAreSound
    BY BookInvSound, MappingIs
  <2>2. MappedTo' /\ BooksAreSound'
    BY BookInvSound, MappingIs, PTL
  <2> QED BY <2>1, <2>2
<1> DEFINE e == Erase(queue[s][side][p], id)
<1>1. /\ UNCHANGED <<nextId, order, left, entered, taker, trades>>
      /\ taker[s] = NoOrder
      /\ Contains(queue[s][side][p], id)
      /\ queue' = [queue EXCEPT ![s][side][p] = e]
  BY DEF CancelAt, FoundAt
<1>2. /\ queue \in [Symbols -> [Sides -> [Prices -> Seq(Ids)]]]
      /\ \A i \in Ids : order[i].symbol \in Symbols /\ i # NoOrder
      /\ ~Running(s) /\ ~Running(s)'
  <2>1. queue \in [Symbols -> [Sides -> [Prices -> Seq(Ids)]]]
    BY DEF BookInv, BookTypeOK
  <2>2. \A i \in Ids : order[i].symbol \in Symbols
    BY AllSymbols DEF BookInv
  <2>3. \A i \in Ids : i # NoOrder
    BY BookAssumption DEF Ids, NoOrder
  <2>4. ~Running(s) /\ ~Running(s)'
    BY <1>1 DEF Running
  <2> QED BY <2>1, <2>2, <2>3, <2>4
<1> HIDE DEF e
<1>3. /\ \A t \in Symbols : t # s => queue'[t] = queue[t]
      /\ queue'[s] = [queue[s] EXCEPT ![side][p] = e]
  BY <1>1, <1>2
<1>4. QueueEnd(s) = queue[s] /\ QueueEnd(s)' = queue'[s]
  BY <1>2 DEF QueueEnd
<1>5. ASSUME NEW i \in Ids, order[i].symbol = s
      PROVE  LeftEnd(i)' = LeftEnd(i) /\ TradesEnd(i)' = TradesEnd(i)
  BY <1>1, <1>2, <1>5 DEF LeftEnd, TradesEnd
<1>6. ASSUME NEW t \in Symbols, t # s
      PROVE  /\ QueueEnd(t)' = QueueEnd(t)
             /\ \A i \in Ids : order[i].symbol = t =>
                  LeftEnd(i)' = LeftEnd(i) /\ TradesEnd(i)' = TradesEnd(i)
  <2>1. queue'[t] = queue[t] /\ taker'[t] = taker[t]
    BY <1>1, <1>3, <1>6
  <2>2. \A r \in Ids : Member(queue[t], r) \/ r = taker[t] => order[r] = order'[r] /\ left[r] = left'[r]
    BY <1>1
  <2>3. /\ QueueEnd(t)' = QueueEnd(t)
        /\ \A i \in Ids : order[i].symbol = t /\ order'[i].symbol = t =>
              /\ left'[i] = left[i] => LeftEnd(i)' = LeftEnd(i)
              /\ trades'[i] = trades[i] => TradesEnd(i)' = TradesEnd(i)
    BY <1>0, <2>1, <2>2, Elsewhere
  <2> QED BY <1>1, <2>3
<1>7. leftThen' = leftThen /\ tradesThen' = tradesThen
  <2>1. \A i \in Ids : LeftEnd(i)' = LeftEnd(i) /\ TradesEnd(i)' = TradesEnd(i)
    BY <1>2, <1>5, <1>6
  <2> QED BY <1>0, <2>1 DEF MappedTo
<1>8. /\ queueThen[s] = queue[s]
      /\ queueThen' = [queueThen EXCEPT ![s][side][p] = e]
  <2>1. queueThen = [t \in Symbols |-> QueueEnd(t)] /\ queueThen' = [t \in Symbols |-> QueueEnd(t)']
    BY <1>0 DEF MappedTo
  <2>2. \A t \in Symbols : QueueEnd(t)' = IF t = s THEN [queue[s] EXCEPT ![side][p] = e] ELSE QueueEnd(t)
    BY <1>3, <1>4, <1>6
  <2>3. queueThen[s] = queue[s]
    BY <1>4, <2>1
  <2> QED BY <2>1, <2>2, <2>3
<1>9. Atomic!B!FoundAt(s, side, p, id)
  <2>1. Contains(queueThen[s][side][p], id)
    BY <1>1, <1>8
  <2> QED BY <2>1 DEF Atomic!B!FoundAt, Atomic!B!Contains, Contains
<1>10. Atomic!B!Erase(queueThen[s][side][p], id) = e
  <2>1. Atomic!B!Erase(queue[s][side][p], id) = Erase(queue[s][side][p], id)
    BY DEF Atomic!B!Erase, Atomic!B!RemoveAt, Erase, RemoveAt
  <2> QED BY <1>8, <2>1 DEF e
<1>11. queueThen' = [queueThen EXCEPT ![s][side][p] = Atomic!B!Erase(@, id)]
  BY <1>8, <1>10
<1>12. side \in Atomic!B!Sides
  BY DEF Atomic!B!Sides, Sides
<1>13. \E t \in Symbols, d \in Atomic!B!Sides, q \in Prices :
          /\ Atomic!B!FoundAt(t, d, q, id)
          /\ queueThen' = [queueThen EXCEPT ![t][d][q] = Atomic!B!Erase(@, id)]
  BY <1>9, <1>11, <1>12
<1> QED BY <1>1, <1>7, <1>13 DEF Atomic!Cancel

\* Empty books are empty there.
LEMMA BookInitMaps == BookInit => Atomic!Init
<1> SUFFICES ASSUME BookInit PROVE Atomic!Init
  OBVIOUS
<1>1. BooksAreSound /\ MappedTo
  BY BookInitInv, BookInvSound, MappingIs
<1>2. \A s \in Symbols : ~Running(s)
  BY DEF BookInit, Running
<1>3. \A i \in Ids : order[i].symbol \in Symbols /\ i # NoOrder
  BY BookInitInv, AllSymbols, BookAssumption DEF Ids, NoOrder
<1>4. \A i \in Ids : LeftEnd(i) = 0 /\ TradesEnd(i) = <<>>
  BY <1>2, <1>3 DEF LeftEnd, TradesEnd, BookInit
<1>5. \A s \in Symbols : QueueEnd(s) = [side \in Sides |-> [p \in Prices |-> <<>>]]
  BY <1>2 DEF QueueEnd, BookInit
<1>6. /\ leftThen = [i \in Ids |-> 0]
      /\ queueThen = [s \in Symbols |-> [side \in Sides |-> [p \in Prices |-> <<>>]]]
      /\ tradesThen = [i \in Ids |-> <<>>]
  BY <1>1, <1>4, <1>5 DEF MappedTo
<1>7. Atomic!B!Ids = Ids /\ Atomic!B!Sides = Sides /\ Atomic!B!Blank = Blank
  BY DEF Atomic!B!Ids, Ids, Atomic!B!Sides, Sides, Atomic!B!Blank, Blank,
     Atomic!B!OrderRecords, OrderRecords
<1> QED BY <1>6, <1>7 DEF Atomic!Init, BookInit

\* Every step of the books is a step of AtomicBook, or changes nothing there.
LEMMA BookStepMaps ==
  ASSUME BookInv, BookInv', [BookNext]_bookVars
  PROVE  [Atomic!Next]_(Atomic!vars)
<1>0. Atomic!B!Ids = Ids /\ Atomic!B!OrderRecords = OrderRecords
  BY DEF Atomic!B!Ids, Ids, Atomic!B!Sides, Sides, Atomic!B!OrderRecords, OrderRecords
<1>1. ASSUME NEW o \in OrderRecords, Build(o) PROVE Atomic!Next
  <2>1. Atomic!Build(o)
    BY <1>1, BuildBuilds
  <2> QED BY <1>0, <2>1 DEF Atomic!Next
<1>2. ASSUME NEW id \in Ids, Enter(id) PROVE Atomic!Next
  <2>1. Atomic!Match(id)
    BY <1>2, EnterMatches
  <2> QED BY <1>0, <2>1 DEF Atomic!Next
<1>3. ASSUME NEW s \in Symbols, Fill(s) PROVE UNCHANGED Atomic!vars
  <2>1. PICK p \in Prices : FillAt(s, p)
    BY <1>3 DEF Fill
  <2>2. UNCHANGED <<leftThen, queueThen, tradesThen>>
    BY <2>1, FillStutters
  <2>3. UNCHANGED <<nextId, order, entered>>
    BY <2>1 DEF FillAt
  <2> QED BY <2>2, <2>3 DEF Atomic!vars
<1>4. ASSUME NEW s \in Symbols, Finish(s) PROVE UNCHANGED Atomic!vars
  <2>1. UNCHANGED <<leftThen, queueThen, tradesThen>>
    BY <1>4, FinishStutters
  <2>2. UNCHANGED <<nextId, order, entered>>
    BY <1>4 DEF Finish
  <2> QED BY <2>1, <2>2 DEF Atomic!vars
<1>5. ASSUME NEW s \in Symbols, NEW id \in Ids, CancelById(s, id) PROVE Atomic!Next
  <2>1. PICK side \in Sides, p \in Prices : CancelAt(s, side, p, id)
    BY <1>5 DEF CancelById
  <2>2. Atomic!Cancel(id)
    BY <2>1, CancelCancels
  <2> QED BY <1>0, <2>2 DEF Atomic!Next
<1>6. ASSUME UNCHANGED bookVars PROVE UNCHANGED Atomic!vars
  <2>1. MappedTo /\ BooksAreSound
    BY BookInvSound, MappingIs
  <2>2. MappedTo' /\ BooksAreSound'
    BY BookInvSound, MappingIs, PTL
  <2>3. UNCHANGED <<nextId, order, left, entered, queue, taker, trades>>
    BY <1>6 DEF bookVars
  <2>4. ASSUME NEW s \in Symbols PROVE QueueEnd(s)' = QueueEnd(s)
    BY <2>3 DEF QueueEnd, Running
  <2>5. ASSUME NEW i \in Ids PROVE LeftEnd(i)' = LeftEnd(i) /\ TradesEnd(i)' = TradesEnd(i)
    BY <2>3 DEF LeftEnd, TradesEnd, Running
  <2>6. UNCHANGED <<leftThen, queueThen, tradesThen>>
    BY <2>1, <2>2, <2>4, <2>5, KeepsMapping
  <2> QED BY <2>3, <2>6 DEF Atomic!vars
<1> QED BY <1>1, <1>2, <1>3, <1>4, <1>5, <1>6 DEF BookNext

\* match() is atomic: the loop that trades order by order under the lock
\* (order_book.cpp:21-57) and the tail that lets the remainder rest do what AtomicBook
\* states in one step: price-time priority in closed form.
THEOREM MatchingIsAtomic == BookSpec => MatchIsAtomic
<1>1. BookInit => Atomic!Init
  BY BookInitMaps
<1>2. BookInv /\ BookInv' /\ [BookNext]_bookVars => [Atomic!Next]_(Atomic!vars)
  BY BookStepMaps
<1>3. BookSpec => []BookInv
  BY BookInvariance
<1> QED BY <1>1, <1>2, <1>3, PTL DEF BookSpec, MatchIsAtomic, Atomic!Spec

-----------------------------------------------------------------------------
\* What AtomicBook keeps, for the systems that are built on it.  Of an order nothing
\* more is asked than that it can be read.

InBooks(r) == \E s \in Symbols : Member(queue[s], r)

\* What the trades of the incoming order i executed of it.
FilledBy(i) == SumFunction([k \in DOMAIN trades[i] |-> trades[i][k].quantity])

AtomicTypes ==
  /\ nextId \in 1 .. MaxOrders + 1
  /\ DOMAIN order = Ids /\ Readable(order)
  /\ left \in [Ids -> Nat]
  /\ entered \subseteq 1 .. nextId - 1
  /\ trades \in [Ids -> Seq(Trades)]

AtomicBooks ==
  /\ Tidy(queue, order)
  /\ \A s \in Symbols : Sound(queue[s], order, left, s)
  /\ \A s \in Symbols, r \in Ids : Member(queue[s], r) => r \in entered

AtomicTrades ==
  \A i \in Ids :
    /\ i \notin entered => trades[i] = <<>>
    /\ \A k \in DOMAIN trades[i] :
         /\ trades[i][k].maker \in entered
         /\ order[trades[i][k].maker].side = Opposite(order[i].side)

AtomicQuantities ==
  \A i \in 1 .. nextId - 1 :
    order[i].quantity \in Nat /\ left[i] + FilledBy(i) <= order[i].quantity

AtomicInv == AtomicTypes /\ AtomicBooks /\ AtomicTrades /\ AtomicQuantities

LEMMA FilledByType ==
  ASSUME AtomicTypes, NEW i \in Ids
  PROVE  FilledBy(i) \in Nat /\ (trades[i] = <<>> => FilledBy(i) = 0)
<1> DEFINE t == trades[i]
           f == [k \in DOMAIN t |-> t[k].quantity]
<1>1. t \in Seq(Trades) /\ DOMAIN t = 1 .. Len(t) /\ Len(t) \in Nat
  BY DEF AtomicTypes
<1>2. IsFiniteSet(DOMAIN t)
  BY <1>1, FS_Interval
<1>3. \A k \in DOMAIN t : f[k] \in Nat
  <2> SUFFICES ASSUME NEW k \in DOMAIN t PROVE t[k].quantity \in Nat
    OBVIOUS
  <2>1. t[k] \in Trades
    BY <1>1
  <2> QED BY <2>1 DEF Trades
<1>4. DOMAIN f = DOMAIN t
  OBVIOUS
<1>5. FilledBy(i) = SumFunctionOnSet(f, DOMAIN t)
  <2>1. FilledBy(i) = SumFunction(f)
    BY DEF FilledBy
  <2> HIDE DEF f, t
  <2> QED BY <1>4, <2>1, SumIs
<1>6. SumFunctionOnSet(f, DOMAIN t) \in Nat
  <2> HIDE DEF f, t
  <2> QED BY <1>2, <1>3, SumNatural
<1>7. t = <<>> => DOMAIN t = {}
  OBVIOUS
<1> HIDE DEF f
<1> QED BY <1>5, <1>6, <1>7, SumOfNothing

LEMMA IdsBelow ==
  ASSUME AtomicTypes
  PROVE  /\ 1 .. nextId - 1 \subseteq Ids /\ entered \subseteq Ids
         /\ nextId \notin 1 .. nextId - 1 /\ nextId \in Nat
BY BookAssumption DEF AtomicTypes, Ids

\* The incoming orders are matched one at a time: only the books of one symbol change.
LEMMA MatchIs ==
  ASSUME AtomicInv, NEW id \in 1 .. nextId - 1, id \notin entered, Now!Match(id),
         NEW s, s = order[id].symbol
  PROVE  /\ s \in Symbols /\ id \in Ids /\ ~Member(queue[s], id)
         /\ left' = Remains(queue[s], order, left, id)
         /\ queue' = [queue EXCEPT ![s] = BookAfter(queue[s], order, left', id)]
         /\ trades' = [trades EXCEPT ![id] = TradesMade(queue[s], order, left, id)]
         /\ entered' = entered \cup {id}
         /\ nextId' = nextId /\ order' = order
<1>1. id \in Ids /\ s \in Symbols
  BY IdsBelow DEF AtomicInv, AtomicTypes, Readable
<1>2. Tidy(queue, order) /\ ~Member(queue[s], id)
  BY <1>1 DEF AtomicInv, AtomicBooks
<1>3. /\ Now!LeftAfter(id) = Remains(queue[s], order, left, id)
      /\ Now!TradesAfter(id) = trades[id] \o TradesMade(queue[s], order, left, id)
      /\ Now!QueueAfter(id)
           = BookAfter(queue[s], order, Remains(queue[s], order, left, id), id)
  BY <1>1, <1>2, NowResults
<1>4. trades[id] = <<>> /\ TradesMade(queue[s], order, left, id) \in Seq(Trades)
  <2>1. Sound(queue[s], order, left, s)
    BY <1>1 DEF AtomicInv, AtomicBooks
  <2>2. TradesMade(queue[s], order, left, id) \in Seq(Trades)
    BY <1>1, <2>1, TradesMadeType
  <2> QED BY <1>1, <2>2 DEF AtomicInv, AtomicTrades
<1>5. Now!TradesAfter(id) = TradesMade(queue[s], order, left, id)
  BY <1>3, <1>4
<1> QED BY <1>1, <1>2, <1>3, <1>5 DEF Now!Match

LEMMA AtomicMatchKeeps ==
  ASSUME AtomicInv, NEW id \in 1 .. nextId - 1, id \notin entered, Now!Match(id)
  PROVE  /\ AtomicInv'
         /\ nextId' = nextId /\ order' = order /\ entered' = entered \cup {id}
         /\ \A i \in Ids : i # id => trades'[i] = trades[i]
         /\ \A r : InBooks(r)' => InBooks(r) \/ r = id
<1> DEFINE s == order[id].symbol
           bk == queue[s]
           A == Remains(bk, order, left, id)
           ck == BookAfter(bk, order, A, id)
           t == TradesMade(bk, order, left, id)
<1>1. /\ s \in Symbols /\ id \in Ids /\ ~Member(bk, id)
      /\ left' = A
      /\ queue' = [queue EXCEPT ![s] = ck]
      /\ trades' = [trades EXCEPT ![id] = t]
      /\ entered' = entered \cup {id}
      /\ nextId' = nextId /\ order' = order
  BY MatchIs
<1>2. /\ queue \in [Symbols -> [Sides -> [Prices -> Seq(Ids)]]]
      /\ \A u \in Symbols : Sound(queue[u], order, left, u)
      /\ Sound(bk, order, left, s)
      /\ trades \in [Ids -> Seq(Trades)] /\ left \in [Ids -> Nat]
      /\ Readable(order)
  BY <1>1 DEF AtomicInv, AtomicBooks, AtomicTypes, Tidy
<1>3. /\ A \in [Ids -> Nat]
      /\ \A i \in Ids : A[i] <= left[i]
      /\ \A i \in Ids : i # id /\ i \notin Makers(bk, order, id) => A[i] = left[i]
  <2> HIDE DEF bk, s
  <2> QED BY <1>1, <1>2, RemainsType
<1>4. /\ Sound(ck, order, A, s)
      /\ \A r : Member(ck, r) => Member(bk, r) \/ (r = id /\ A[id] > 0)
  <2>1. order[id].symbol = s
    OBVIOUS
  <2> HIDE DEF bk, s, A, ck
  <2> QED BY <1>1, <1>2, <2>1, BookAfterSound DEF A, ck
<1>5. t \in Seq(Trades)
  <2> HIDE DEF bk, s
  <2> QED BY <1>1, <1>2, TradesMadeType
<1>6. /\ SumFunction([k \in DOMAIN t |-> t[k].quantity]) = left[id] - A[id]
      /\ \A k \in DOMAIN t : t[k].maker \in Makers(bk, order, id)
  <2> HIDE DEF bk, s
  <2> QED BY <1>1, <1>2, TradesAddUp
<1>7. \A r \in Makers(bk, order, id) :
        /\ r \in Ids /\ Member(bk, r) /\ order[r].symbol = s
        /\ order[r].side = Opposite(order[id].side)
  <2> HIDE DEF bk, s
  <2> QED BY <1>1, <1>2, MakersFacts
<1> HIDE DEF s, bk, A, ck, t
<1>8. AtomicTypes'
  <2>1. trades' \in [Ids -> Seq(Trades)]
    BY <1>1, <1>2, <1>5
  <2>2. entered' \subseteq 1 .. nextId' - 1
    BY <1>1 DEF AtomicInv, AtomicTypes
  <2> QED BY <1>1, <1>3, <2>1, <2>2 DEF AtomicInv, AtomicTypes
<1>9. \A u \in Symbols : queue'[u] = IF u = s THEN ck ELSE queue[u]
  BY <1>1, <1>2
<1>10. ASSUME NEW u \in Symbols PROVE Sound(queue'[u], order, A, u)
  <2>1. CASE u = s
    BY <1>4, <1>9, <2>1
  <2>2. CASE u # s
    <3>1. queue'[u] = queue[u] /\ Sound(queue[u], order, left, u)
      BY <1>2, <1>9, <2>2
    <3>2. ASSUME NEW side \in Sides, NEW p \in Prices, NEW i \in DOMAIN queue[u][side][p]
          PROVE  A[queue[u][side][p][i]] = left[queue[u][side][p][i]]
      <4> DEFINE r == queue[u][side][p][i]
      <4>1. r \in Ids /\ order[r].symbol = u
        BY <3>1, PlaceOf
      <4>2. Contains(queue[u][side][p], r)
        <5>1. queue[u][side][p] \in Seq(Ids)
          BY <1>2
        <5> QED BY <5>1 DEF Contains
      <4>3. Member(queue[u], r)
        BY <4>2 DEF Member
      <4>4. r # id
        BY <4>1, <4>3, <2>2, <1>1 DEF s
      <4> QED BY <1>3, <1>7, <2>2, <4>1, <4>4
    <3> QED BY <1>3, <3>1, <3>2 DEF Sound
  <2> QED BY <2>1, <2>2
<1>11. \A u \in Symbols : \A r : Member(queue'[u], r) => Member(queue[u], r) \/ r = id
  BY <1>4, <1>9 DEF bk
<1>12. AtomicBooks'
  <2>1. queue' \in [Symbols -> [Sides -> [Prices -> Seq(Ids)]]]
    <3>1. ck \in [Sides -> [Prices -> Seq(Ids)]]
      BY <1>4 DEF Sound
    <3> QED BY <1>1, <1>2, <3>1
  <2>2. \A u \in Symbols, side \in Sides, p \in Prices, r \in Ids :
          Contains(queue'[u][side][p], r) => order[r].symbol = u
    BY <1>10, PlaceOfMember
  <2>3. Tidy(queue', order)
    BY <2>1, <2>2 DEF Tidy
  <2>4. \A u \in Symbols, r \in Ids : Member(queue'[u], r) => r \in entered'
    BY <1>1, <1>11 DEF AtomicInv, AtomicBooks
  <2> QED BY <1>1, <1>10, <2>3, <2>4 DEF AtomicBooks
<1>13. AtomicTrades'
  <2> SUFFICES ASSUME NEW i \in Ids
               PROVE  /\ i \notin entered' => trades'[i] = <<>>
                      /\ \A k \in DOMAIN trades'[i] :
                           /\ trades'[i][k].maker \in entered'
                           /\ order[trades'[i][k].maker].side = Opposite(order[i].side)
    BY <1>1 DEF AtomicTrades
  <2>1. CASE i = id
    <3>1. trades'[i] = t
      BY <1>1, <1>2, <2>1
    <3>2. \A r \in Makers(bk, order, id) : r \in entered
      BY <1>1, <1>7 DEF AtomicInv, AtomicBooks, bk
    <3> QED BY <1>1, <1>6, <1>7, <2>1, <3>1, <3>2
  <2>2. CASE i # id
    <3>1. trades'[i] = trades[i]
      BY <1>1, <1>2, <2>2
    <3> QED BY <1>1, <3>1 DEF AtomicInv, AtomicTrades
  <2> QED BY <2>1, <2>2
<1>14. AtomicQuantities'
  <2> SUFFICES ASSUME NEW i \in 1 .. nextId - 1
               PROVE  order[i].quantity \in Nat /\ left'[i] + FilledBy(i)' <= order[i].quantity
    BY <1>1 DEF AtomicQuantities
  <2>1. /\ order[i].quantity \in Nat /\ i \in Ids /\ left[i] \in Nat /\ left'[i] \in Nat /\ left'[i] <= left[i]
        /\ left[i] + FilledBy(i) <= order[i].quantity
    BY <1>1, <1>2, <1>3, IdsBelow DEF AtomicInv, AtomicQuantities
  <2>2. FilledBy(i) \in Nat
    BY <2>1, FilledByType DEF AtomicInv
  <2>3. CASE i = id
    <3>1. trades'[i] = t
      BY <1>1, <1>2, <2>3
    <3>2. FilledBy(i)' = left[id] - A[id]
      BY <1>6, <3>1 DEF FilledBy
    <3>3. FilledBy(i) = 0
      BY <2>1, <2>3, FilledByType DEF AtomicInv, AtomicTrades
    <3> QED BY <1>1, <2>1, <2>3, <3>2, <3>3
  <2>4. CASE i # id
    <3>1. trades'[i] = trades[i]
      BY <1>1, <1>2, <2>1, <2>4
    <3>2. FilledBy(i)' = FilledBy(i)
      BY <3>1 DEF FilledBy
    <3> QED BY <2>1, <2>2, <3>2
  <2> QED BY <2>3, <2>4
<1>15. \A r : InBooks(r)' => InBooks(r) \/ r = id
  BY <1>11 DEF InBooks
<1>16. \A i \in Ids : i # id => trades'[i] = trades[i]
  BY <1>1, <1>2
<1> QED BY <1>1, <1>8, <1>12, <1>13, <1>14, <1>15, <1>16 DEF AtomicInv

\* A new order: of those that exist, nothing changes.
LEMMA AtomicBuildKeeps ==
  ASSUME AtomicInv, NEW o, Now!Build(o), NEW n, n = nextId,
         o.symbol \in Symbols, o.side \in Sides, o.price \in Prices \cup {0},
         (o.kind = "MARKET") <=> (o.price = 0), o.quantity \in Nat
  PROVE  /\ AtomicInv'
         /\ nextId' = n + 1 /\ n \in Ids /\ order' = [order EXCEPT ![n] = o]
         /\ order'[n] = o /\ \A i \in 1 .. n - 1 : order'[i] = order[i]
         /\ left'[n] = o.quantity
         /\ UNCHANGED <<entered, queue, trades>>
<1>1. /\ n \in Ids /\ n \in Nat /\ nextId' = n + 1
      /\ order' = [order EXCEPT ![n] = o]
      /\ left' = [left EXCEPT ![n] = o.quantity]
      /\ entered' = entered /\ queue' = queue /\ trades' = trades
  BY DEF Now!Build, Now!B!Ids, Ids
<1>2. /\ n \notin entered /\ entered \subseteq 1 .. n - 1 /\ 1 .. n - 1 \subseteq Ids
      /\ DOMAIN order = Ids /\ left \in [Ids -> Nat] /\ Readable(order)
      /\ trades \in [Ids -> Seq(Trades)]
  BY IdsBelow DEF AtomicInv, AtomicTypes
<1>3. /\ order'[n] = o /\ \A i \in Ids : i # n => order'[i] = order[i] /\ left'[i] = left[i]
      /\ left'[n] = o.quantity
  BY <1>1, <1>2
<1>4. AtomicTypes'
  <2>1. Readable(order')
    BY <1>2, <1>3 DEF Readable
  <2>2. nextId' \in 1 .. MaxOrders + 1 /\ entered' \subseteq 1 .. nextId' - 1
    BY <1>1, <1>2, BookAssumption DEF Ids
  <2>3. DOMAIN order' = Ids /\ left' \in [Ids -> Nat]
    BY <1>1, <1>2
  <2> QED BY <1>1, <1>2, <2>1, <2>2, <2>3 DEF AtomicTypes
<1>5. \A s \in Symbols, r \in Ids : Member(queue[s], r) => r # n
  BY <1>2 DEF AtomicInv, AtomicBooks
<1>6. AtomicBooks'
  <2>1. Tidy(queue, order')
    <3>1. Tidy(queue, order)
      BY DEF AtomicInv, AtomicBooks
    <3>2. ASSUME NEW t \in Symbols, NEW d \in Sides, NEW p \in Prices, NEW r \in Ids,
                 Contains(queue[t][d][p], r)
          PROVE  order'[r].symbol = t
      <4>1. Member(queue[t], r)
        BY <3>2 DEF Member
      <4>2. order'[r] = order[r]
        BY <1>3, <1>5, <4>1
      <4> QED BY <3>1, <3>2, <4>2 DEF Tidy
    <3> QED BY <3>1, <3>2 DEF Tidy
  <2>2. ASSUME NEW s \in Symbols PROVE Sound(queue[s], order', left', s)
    <3>1. Sound(queue[s], order, left, s) /\ Readable(order') /\ left' \in [Ids -> Nat]
      BY <1>4 DEF AtomicInv, AtomicBooks, AtomicTypes
    <3>2. ASSUME NEW side \in Sides, NEW p \in Prices, NEW i \in DOMAIN queue[s][side][p]
          PROVE  LET r == queue[s][side][p][i]
                 IN  /\ order'[r].symbol = s /\ order'[r].side = side
                     /\ order'[r].price = p /\ left'[r] > 0
      <4> DEFINE r == queue[s][side][p][i]
      <4>1. r \in Ids
        BY <3>1, PlaceOf
      <4>2. Member(queue[s], r)
        <5>1. queue[s][side][p] \in Seq(Ids)
          BY <3>1 DEF Sound
        <5> QED BY <5>1 DEF Contains, Member
      <4>3. order'[r] = order[r] /\ left'[r] = left[r]
        BY <1>3, <1>5, <4>1, <4>2
      <4>4. order[r].symbol = s /\ order[r].side = side /\ order[r].price = p /\ left[r] > 0
        BY <3>1 DEF Sound
      <4> QED BY <4>3, <4>4
    <3>3. /\ queue[s] \in [Sides -> [Prices -> Seq(Ids)]]
          /\ \A side \in Sides, p \in Prices : Distinct(queue[s][side][p])
      BY <3>1 DEF Sound
    <3> QED BY <3>1, <3>2, <3>3 DEF Sound
  <2> QED BY <1>1, <2>1, <2>2 DEF AtomicInv, AtomicBooks
<1>7. AtomicTrades'
  <2> SUFFICES ASSUME NEW i \in Ids
               PROVE  /\ i \notin entered => trades[i] = <<>>
                      /\ \A k \in DOMAIN trades[i] :
                           /\ trades[i][k].maker \in entered
                           /\ order'[trades[i][k].maker].side = Opposite(order'[i].side)
    BY <1>1 DEF AtomicTrades
  <2>1. i \notin entered => trades[i] = <<>>
    BY DEF AtomicInv, AtomicTrades
  <2>2. CASE i \notin entered
    BY <2>1, <2>2
  <2>3. CASE i \in entered
    BY <1>2, <1>3, <2>3 DEF AtomicInv, AtomicTrades
  <2> QED BY <2>2, <2>3
<1>8. AtomicQuantities'
  <2> SUFFICES ASSUME NEW i \in 1 .. n
               PROVE  order'[i].quantity \in Nat /\ left'[i] + FilledBy(i) <= order'[i].quantity
    <3>1. \A i : FilledBy(i)' = FilledBy(i)
      BY <1>1 DEF FilledBy
    <3>2. nextId' - 1 = n
      BY <1>1
    <3> QED BY <3>1, <3>2 DEF AtomicQuantities
  <2>1. CASE i = n
    <3>1. FilledBy(i) = 0
      BY <1>1, <1>2, <2>1, FilledByType DEF AtomicInv, AtomicTrades
    <3> QED BY <1>3, <2>1, <3>1
  <2>2. CASE i # n
    <3>1. i \in 1 .. n - 1
      BY <1>1, <2>2
    <3> QED BY <1>2, <1>3, <2>2, <3>1 DEF AtomicInv, AtomicQuantities
  <2> QED BY <2>1, <2>2
<1>9. \A i \in 1 .. n - 1 : order'[i] = order[i]
  BY <1>1, <1>2, <1>3
<1> QED BY <1>1, <1>3, <1>4, <1>6, <1>7, <1>8, <1>9 DEF AtomicInv

\* An order that is cancelled is in no book any more; the others stay.
LEMMA AtomicCancelKeeps ==
  ASSUME AtomicInv, NEW id, Now!Cancel(id)
  PROVE  /\ AtomicInv'
         /\ UNCHANGED <<nextId, order, left, entered, trades>>
         /\ \A r : InBooks(r)' => InBooks(r) /\ r # id
<1>1. PICK s \in Symbols, d \in Sides, p \in Prices :
        Contains(queue[s][d][p], id) /\ queue' = [queue EXCEPT ![s][d][p] = Erase(@, id)]
  <2>1. \A q : Now!B!Erase(q, id) = Erase(q, id)
    BY DEF Now!B!Erase, Erase, Now!B!RemoveAt, RemoveAt
  <2>2. PICK s \in Symbols, d \in Now!B!Sides, p \in Prices :
          Now!B!FoundAt(s, d, p, id) /\ queue' = [queue EXCEPT ![s][d][p] = Now!B!Erase(@, id)]
    BY DEF Now!Cancel
  <2>3. d \in Sides /\ Contains(queue[s][d][p], id)
    BY <2>2 DEF Now!B!Sides, Sides, Now!B!FoundAt, Now!B!Contains, Contains
  <2>4. queue' = [queue EXCEPT ![s][d][p] = Erase(@, id)]
    BY <2>1, <2>2
  <2> QED BY <2>3, <2>4
<1>2. UNCHANGED <<nextId, order, left, entered, trades>>
  BY DEF Now!Cancel
<1>3. /\ queue \in [Symbols -> [Sides -> [Prices -> Seq(Ids)]]]
      /\ \A u \in Symbols : Sound(queue[u], order, left, u)
  BY DEF AtomicInv, AtomicBooks, Tidy
<1> DEFINE q == queue[s][d][p]
           e == Erase(q, id)
<1>4. q \in Seq(Ids) /\ Distinct(q)
  BY <1>3 DEF Sound
<1>5. /\ e \in Seq(Ids) /\ Distinct(e)
      /\ \A r : Contains(e, r) => Contains(q, r) /\ r # id
  <2> DEFINE n == CHOOSE i \in DOMAIN q : q[i] = id
  <2> HIDE DEF q
  <2>1. n \in 1 .. Len(q) /\ q[n] = id /\ Len(q) \in Nat /\ DOMAIN q = 1 .. Len(q)
    BY <1>1, <1>4 DEF Contains, q
  <2>2. e = RemoveAt(q, n)
    BY DEF Erase
  <2> HIDE DEF n, e
  <2>3. /\ e \in Seq(Ids) /\ Len(e) = Len(q) - 1
        /\ \A j \in 1 .. Len(q) - 1 : e[j] = IF j < n THEN q[j] ELSE q[j + 1]
    BY <1>4, <2>1, <2>2, RemoveAtProperties
  <2>4. DOMAIN e = 1 .. Len(q) - 1
    BY <2>3
  <2>5. Distinct(e)
    <3> SUFFICES ASSUME NEW j \in 1 .. Len(q) - 1, NEW k \in 1 .. Len(q) - 1, e[j] = e[k]
                 PROVE  j = k
      BY <2>4 DEF Distinct
    <3> DEFINE at(x) == IF x < n THEN x ELSE x + 1
    <3>1. at(j) \in DOMAIN q /\ at(k) \in DOMAIN q /\ q[at(j)] = q[at(k)]
      BY <2>1, <2>3
    <3>2. at(j) = at(k)
      <4> HIDE DEF at
      <4> QED BY <1>4, <3>1 DEF Distinct
    <3> QED BY <2>1, <3>2
  <2>6. ASSUME NEW j \in 1 .. Len(q) - 1
        PROVE  e[j] # id /\ \E k \in 1 .. Len(q) : q[k] = e[j]
    <3>1. CASE j < n
      <4>1. e[j] = q[j] /\ j \in 1 .. Len(q) /\ j # n
        BY <2>1, <2>3, <3>1
      <4> QED BY <1>4, <2>1, <4>1 DEF Distinct
    <3>2. CASE ~(j < n)
      <4>1. e[j] = q[j + 1] /\ j + 1 \in 1 .. Len(q) /\ j + 1 # n
        BY <2>1, <2>3, <3>2
      <4> QED BY <1>4, <2>1, <4>1 DEF Distinct
    <3> QED BY <3>1, <3>2
  <2>7. ASSUME NEW r, Contains(e, r) PROVE Contains(q, r) /\ r # id
    <3>1. PICK j \in 1 .. Len(q) - 1 : e[j] = r
      BY <2>3, <2>7 DEF Contains
    <3> QED BY <2>6, <3>1 DEF Contains
  <2> QED BY <2>3, <2>5, <2>7
<1> HIDE DEF e
<1>6. /\ queue' \in [Symbols -> [Sides -> [Prices -> Seq(Ids)]]]
      /\ queue'[s][d][p] = e
      /\ \A u \in Symbols, x \in Sides, y \in Prices :
           u # s \/ x # d \/ y # p => queue'[u][x][y] = queue[u][x][y]
  <2>1. queue' = [queue EXCEPT ![s][d][p] = e]
    BY <1>1 DEF e
  <2>2. \A u \in Symbols, x \in Sides, y \in Prices :
          queue'[u][x][y] = IF u = s /\ x = d /\ y = p THEN e ELSE queue[u][x][y]
    BY <1>1, <1>3, <2>1
  <2>3. \A u \in Symbols, x \in Sides, y \in Prices : queue'[u][x][y] \in Seq(Ids)
    <3> SUFFICES ASSUME NEW u \in Symbols, NEW x \in Sides, NEW y \in Prices
                 PROVE  queue'[u][x][y] \in Seq(Ids)
      OBVIOUS
    <3>1. queue[u][x][y] \in Seq(Ids)
      BY <1>3
    <3>2. CASE u = s /\ x = d /\ y = p
      BY <1>5, <2>2, <3>2
    <3>3. CASE ~(u = s /\ x = d /\ y = p)
      BY <2>2, <3>1, <3>3
    <3> QED BY <3>2, <3>3
  <2>4. queue' \in [Symbols -> [Sides -> [Prices -> Seq(Ids)]]]
    <3> HIDE DEF q
    <3> QED BY <1>1, <1>3, <2>1, <2>3, FunctionsOfQueues
  <2> QED BY <1>1, <2>2, <2>4
<1>7. ASSUME NEW u \in Symbols, NEW x \in Sides, NEW y \in Prices
      PROVE  /\ queue'[u][x][y] \in Seq(Ids) /\ Distinct(queue'[u][x][y])
             /\ \A r : Contains(queue'[u][x][y], r) => Contains(queue[u][x][y], r) /\ r # id
  <2>1. CASE u = s /\ x = d /\ y = p
    BY <1>5, <1>6, <2>1
  <2>2. CASE ~(u = s /\ x = d /\ y = p)
    <3>1. queue'[u][x][y] = queue[u][x][y]
      BY <1>6, <2>2
    <3>2. queue[u][x][y] \in Seq(Ids) /\ Distinct(queue[u][x][y])
      BY <1>3 DEF Sound
    <3>3. ~Contains(queue[u][x][y], id)
      <4>1. Contains(queue[u][x][y], id) => order[id].symbol = u /\ order[id].side = x
                                              /\ order[id].price = y
        BY <1>3, PlaceOfMember
      <4>2. order[id].symbol = s /\ order[id].side = d /\ order[id].price = p
        BY <1>1, <1>3, PlaceOfMember
      <4> QED BY <2>2, <4>1, <4>2
    <3> QED BY <3>1, <3>2, <3>3
  <2> QED BY <2>1, <2>2
<1>8. ASSUME NEW u \in Symbols PROVE Sound(queue'[u], order, left, u)
  <2>1. ASSUME NEW x \in Sides, NEW y \in Prices, NEW i \in DOMAIN queue'[u][x][y]
        PROVE  LET r == queue'[u][x][y][i]
               IN  order[r].symbol = u /\ order[r].side = x /\ order[r].price = y /\ left[r] > 0
    <3> DEFINE r == queue'[u][x][y][i]
    <3>1. Contains(queue'[u][x][y], r)
      <4>1. queue'[u][x][y] \in Seq(Ids)
        BY <1>7
      <4> QED BY <4>1 DEF Contains
    <3>2. Contains(queue[u][x][y], r)
      BY <1>7, <3>1
    <3>3. PICK j \in 1 .. Len(queue[u][x][y]) : queue[u][x][y][j] = r
      BY <3>2 DEF Contains
    <3>4. Sound(queue[u], order, left, u) /\ j \in DOMAIN queue[u][x][y]
      BY <1>3, <3>3
    <3> DEFINE h == queue[u][x][y][j]
    <3>5. order[h].symbol = u /\ order[h].side = x /\ order[h].price = y /\ left[h] > 0
      BY <3>4 DEF Sound
    <3>6. h = r
      BY <3>3
    <3> HIDE DEF h
    <3> QED BY <3>5, <3>6
  <2>2. Readable(order) /\ left \in [Ids -> Nat]
    BY DEF AtomicInv, AtomicTypes
  <2> QED BY <1>6, <1>7, <2>1, <2>2 DEF Sound
<1>9. \A u \in Symbols : \A r : Member(queue'[u], r) => Member(queue[u], r) /\ r # id
  BY <1>7 DEF Member
<1>10. AtomicBooks'
  <2>1. Tidy(queue', order)
    BY <1>6, <1>8, PlaceOfMember DEF Tidy
  <2> QED BY <1>2, <1>8, <1>9, <2>1 DEF AtomicInv, AtomicBooks
<1>11. AtomicTypes' /\ AtomicTrades' /\ AtomicQuantities'
  BY <1>2 DEF AtomicInv, AtomicTypes, AtomicTrades, AtomicQuantities, FilledBy
<1>12. \A r : InBooks(r)' => InBooks(r) /\ r # id
  BY <1>9 DEF InBooks
<1> QED BY <1>2, <1>10, <1>11, <1>12 DEF AtomicInv

LEMMA AtomicStays ==
  ASSUME AtomicInv, UNCHANGED <<nextId, order, left, entered, queue, trades>>
  PROVE  AtomicInv' /\ \A r : InBooks(r)' <=> InBooks(r)
<1>1. AtomicTypes' /\ AtomicBooks' /\ AtomicTrades' /\ AtomicQuantities'
  BY DEF AtomicInv, AtomicTypes, AtomicBooks, AtomicTrades, AtomicQuantities, FilledBy
<1> QED BY <1>1 DEF AtomicInv, InBooks

LEMMA AtomicStarts ==
  ASSUME Now!Init
  PROVE  AtomicInv /\ nextId = 1 /\ \A r : ~InBooks(r)
<1>1. /\ nextId = 1 /\ entered = {} /\ left = [i \in Ids |-> 0]
      /\ order = [i \in Ids |-> Blank] /\ trades = [i \in Ids |-> <<>>]
      /\ queue = [s \in Symbols |-> [d \in Sides |-> [p \in Prices |-> <<>>]]]
  <2>1. Now!B!Blank = Blank /\ Now!B!Ids = Ids /\ Now!B!Sides = Sides
    BY DEF Now!B!Blank, Blank, Now!B!OrderRecords, OrderRecords, Now!B!Sides, Sides,
           Now!B!Ids, Ids
  <2> QED BY <2>1 DEF Now!Init
<1>2. \A s \in Symbols, d \in Sides, p \in Prices : \A r : ~Contains(queue[s][d][p], r)
  BY <1>1 DEF Contains
<1>3. \A s \in Symbols : \A r : ~Member(queue[s], r)
  BY <1>2 DEF Member
<1>4. AtomicTypes
  <2>1. Readable(order) /\ DOMAIN order = Ids
    BY <1>1, BlankIsRecord, RecordsAreReadable
  <2> QED BY <1>1, <2>1, BookAssumption DEF AtomicTypes
<1>5. AtomicBooks
  <2>1. queue \in [Symbols -> [Sides -> [Prices -> Seq(Ids)]]]
    BY <1>1
  <2>2. Tidy(queue, order)
    BY <1>2, <2>1 DEF Tidy
  <2>3. \A s \in Symbols : Sound(queue[s], order, left, s)
    BY <1>1, <1>4, <2>1 DEF Sound, Distinct, AtomicTypes
  <2> QED BY <1>3, <2>2, <2>3 DEF AtomicBooks
<1>6. AtomicTrades /\ AtomicQuantities
  BY <1>1 DEF AtomicTrades, AtomicQuantities
<1> QED BY <1>1, <1>3, <1>4, <1>5, <1>6 DEF AtomicInv, InBooks
=============================================================================
