-------------------------- MODULE SimulationProofs --------------------------
(***************************************************************************)
(* What is proved of a run of the simulation, for any bots, symbols,       *)
(* prices, sizes and bounds: every sample holds all the cash, and no       *)
(* market maker forgets an order that rests.                               *)
(*                                                                         *)
(* RunInv says where every thread is and what the order is like that it    *)
(* works on; it stands on AtomicInv, which OrderBookProofs shows of the    *)
(* books.  QuoteInv adds whose the resting orders are.                     *)
(***************************************************************************)
EXTENDS SimulationRun, SequenceTheorems, SumProofs

\* The books, as far as they are proved about in OrderBookProofs: nobody is inside
\* match() between two steps.
P == INSTANCE OrderBookProofs WITH
  Clients <- Bots, Kinds <- {"MARKET", "LIMIT", "STOP", "LIMIT_STOP"},
  Quantities <- QuoteSizes \cup TakeSizes, taker <- [s \in Symbols |-> NoOrder]

Ids == 1 .. MaxOrders
Sizes == QuoteSizes \cup TakeSizes
AnyKind == {"MARKET", "LIMIT", "STOP", "LIMIT_STOP"}

-----------------------------------------------------------------------------
\* The books of AtomicBook are those of OrderBookProofs.

LEMMA BooksAssume == P!BookAssumption
<1>1. PICK b \in Bots : TRUE
  BY BotAssumption
<1>2. PICK s \in Symbols : TRUE
  BY BotAssumption
<1>3. PICK q \in Sizes : TRUE
  BY BotAssumption DEF Sizes
<1> DEFINE o == [client |-> b, side |-> "BUY", kind |-> "MARKET", symbol |-> s,
                 quantity |-> q, price |-> 0]
<1>4. o \in P!OrderRecords
  BY <1>1, <1>2, <1>3 DEF P!OrderRecords, P!Sides, Sizes
<1>5. P!OrderRecords # {}
  BY <1>4
<1> QED BY <1>5, BotAssumption DEF P!BookAssumption

LEMMA NamesAre ==
  /\ P!Ids = Ids /\ Book!B!Ids = Ids /\ P!Now!B!Ids = Ids
  /\ P!Sides = Sides /\ Book!B!Sides = Sides /\ P!Now!B!Sides = Sides
  /\ \A side : P!Opposite(side) = Opposite(side)
  /\ P!Trades = [maker : Ids, quantity : Nat, price : Prices]
BY DEF P!Ids, Book!B!Ids, P!Now!B!Ids, Ids, P!Sides, Book!B!Sides, P!Now!B!Sides, Sides,
       P!Opposite, Opposite, P!Trades

LEMMA SumsAre ==
  ASSUME NEW f, NEW S
  PROVE  Book!SumFunctionOnSet(f, S) = P!Now!SumFunctionOnSet(f, S)
BY DEF Book!SumFunctionOnSet, Book!FoldFunctionOnSet, Book!MapThenFoldSet,
       P!Now!SumFunctionOnSet, P!Now!FoldFunctionOnSet, P!Now!MapThenFoldSet

LEMMA CardinalitiesAre ==
  ASSUME NEW S PROVE Book!Cardinality(S) = P!Now!Cardinality(S)
BY DEF Book!Cardinality, P!Now!Cardinality

LEMMA OperatorsAre ==
  ASSUME NEW id
  PROVE  /\ Book!Resters(id) = P!Now!Resters(id)
         /\ \A r : Book!Ahead(id, r) = P!Now!Ahead(id, r)
         /\ \A r : Book!Taken(id, r) = P!Now!Taken(id, r)
         /\ Book!Takers(id) = P!Now!Takers(id)
<1>1. Book!Resters(id) = P!Now!Resters(id)
  BY DEF Book!Resters, P!Now!Resters, Book!B!Ids, P!Now!B!Ids, Book!B!Resting,
    P!Now!B!Resting, Book!B!FoundAt, P!Now!B!FoundAt, Book!B!Contains, P!Now!B!Contains,
    Book!B!Sides, P!Now!B!Sides, Book!B!Opposite, P!Now!B!Opposite, Book!B!Crosses,
    P!Now!B!Crosses
<1>2. \A a, r : Book!B!Before(a, r) <=> P!Now!B!Before(a, r)
  BY DEF Book!B!Before, P!Now!B!Before, Book!B!FoundAt, P!Now!B!FoundAt,
    Book!B!Contains, P!Now!B!Contains, Book!B!Sides, P!Now!B!Sides, Book!B!Better,
    P!Now!B!Better
<1>3. \A r : Book!Ahead(id, r) = P!Now!Ahead(id, r)
  BY <1>1, <1>2 DEF Book!Ahead, P!Now!Ahead
<1>4. \A r : Book!Taken(id, r) = P!Now!Taken(id, r)
  BY <1>3, SumsAre DEF Book!Taken, P!Now!Taken, Book!Total, P!Now!Total,
    Book!B!Smaller, P!Now!B!Smaller
<1>5. Book!Takers(id) = P!Now!Takers(id)
  BY <1>1, <1>4 DEF Book!Takers, P!Now!Takers
<1> QED BY <1>1, <1>3, <1>4, <1>5

LEMMA ResultsAre ==
  ASSUME NEW id
  PROVE  /\ Book!LeftAfter(id) = P!Now!LeftAfter(id)
         /\ Book!TradesAfter(id) = P!Now!TradesAfter(id)
         /\ Book!QueueAfter(id) = P!Now!QueueAfter(id)
<1>1. Book!LeftAfter(id) = P!Now!LeftAfter(id)
  <2>1. \A f : Book!SumFunction(f) = P!Now!SumFunction(f)
    BY SumsAre DEF Book!SumFunction, P!Now!SumFunction
  <2>2. [r \in Book!Resters(id) |-> Book!Taken(id, r)]
          = [r \in P!Now!Resters(id) |-> P!Now!Taken(id, r)]
    BY OperatorsAre
  <2> DEFINE n == Book!SumFunction([r \in Book!Resters(id) |-> Book!Taken(id, r)])
  <2>3. n = P!Now!SumFunction([r \in P!Now!Resters(id) |-> P!Now!Taken(id, r)])
    BY <2>1, <2>2
  <2>4. Book!LeftAfter(id)
          = [i \in Ids |-> IF i = id THEN left[id] - n
                           ELSE IF i \in Book!Resters(id) THEN left[i] - Book!Taken(id, i)
                           ELSE left[i]]
    BY NamesAre DEF Book!LeftAfter
  <2>5. P!Now!LeftAfter(id)
          = [i \in Ids |-> IF i = id THEN left[id] - n
                           ELSE IF i \in P!Now!Resters(id) THEN left[i] - P!Now!Taken(id, i)
                           ELSE left[i]]
    BY <2>3, NamesAre DEF P!Now!LeftAfter
  <2> HIDE DEF n
  <2> QED BY <2>4, <2>5, OperatorsAre
<1>2. Book!TradesAfter(id) = P!Now!TradesAfter(id)
  <2> DEFINE nth(k) == CHOOSE r \in Book!Takers(id) : Book!Cardinality(Book!Ahead(id, r)) = k - 1
             now(k) == CHOOSE r \in P!Now!Takers(id) : P!Now!Cardinality(P!Now!Ahead(id, r)) = k - 1
  <2>1. \A k : nth(k) = now(k)
    BY OperatorsAre, CardinalitiesAre
  <2>2. Book!Cardinality(Book!Takers(id)) = P!Now!Cardinality(P!Now!Takers(id))
    BY OperatorsAre, CardinalitiesAre
  <2>3. Book!TradesAfter(id)
          = trades[id] \o [k \in 1 .. Book!Cardinality(Book!Takers(id)) |->
               [maker |-> nth(k), quantity |-> Book!Taken(id, nth(k)), price |-> order[nth(k)].price]]
    BY DEF Book!TradesAfter
  <2>4. P!Now!TradesAfter(id)
          = trades[id] \o [k \in 1 .. P!Now!Cardinality(P!Now!Takers(id)) |->
               [maker |-> now(k), quantity |-> P!Now!Taken(id, now(k)), price |-> order[now(k)].price]]
    BY DEF P!Now!TradesAfter
  <2> HIDE DEF nth, now
  <2> QED BY <2>1, <2>2, <2>3, <2>4, OperatorsAre
<1>3. Book!QueueAfter(id) = P!Now!QueueAfter(id)
  <2> DEFINE A == Book!LeftAfter(id)
             kept(q) == SubSeq(q, 1 + Book!Cardinality({i \in DOMAIN q : A[q[i]] = 0}), Len(q))
             keeps(q) == SubSeq(q, 1 + P!Now!Cardinality({i \in DOMAIN q : A[q[i]] = 0}), Len(q))
             s == order[id].symbol
             all == [side \in Sides |-> [p \in Prices |-> kept(queue[s][side][p])]]
             now == [side \in Sides |-> [p \in Prices |-> keeps(queue[s][side][p])]]
  <2>1. Book!QueueAfter(id)
          = IF A[id] > 0 /\ order[id].kind # "MARKET"
              THEN [all EXCEPT ![order[id].side][order[id].price] = Append(@, id)] ELSE all
    BY NamesAre DEF Book!QueueAfter
  <2>2. P!Now!QueueAfter(id)
          = IF A[id] > 0 /\ order[id].kind # "MARKET"
              THEN [now EXCEPT ![order[id].side][order[id].price] = Append(@, id)] ELSE now
    BY <1>1, NamesAre DEF P!Now!QueueAfter
  <2> HIDE DEF A
  <2>3. \A q : kept(q) = keeps(q)
    BY CardinalitiesAre
  <2> HIDE DEF kept, keeps
  <2>4. all = now
    BY <2>3
  <2> HIDE DEF all, now
  <2> QED BY <2>1, <2>2, <2>4
<1> QED BY <1>1, <1>2, <1>3

LEMMA StepsAre ==
  /\ Book!Init <=> P!Now!Init
  /\ \A o : Book!Build(o) <=> P!Now!Build(o)
  /\ \A id : Book!Match(id) <=> P!Now!Match(id)
  /\ \A id : Book!Cancel(id) <=> P!Now!Cancel(id)
<1>1. Book!Init <=> P!Now!Init
  BY DEF Book!Init, P!Now!Init, Book!B!Ids, P!Now!B!Ids, Book!B!Blank, P!Now!B!Blank,
    Book!B!OrderRecords, P!Now!B!OrderRecords, Book!B!Sides, P!Now!B!Sides
<1>2. \A o : Book!Build(o) <=> P!Now!Build(o)
  BY DEF Book!Build, P!Now!Build, Book!B!Ids, P!Now!B!Ids
<1>3. \A id : Book!Match(id) <=> P!Now!Match(id)
  BY ResultsAre DEF Book!Match, P!Now!Match
<1>4. \A q, id : Book!B!Erase(q, id) = P!Now!B!Erase(q, id)
  BY DEF Book!B!Erase, P!Now!B!Erase, Book!B!RemoveAt, P!Now!B!RemoveAt
<1>5. \A id : Book!Cancel(id) <=> P!Now!Cancel(id)
  BY <1>4 DEF Book!Cancel, P!Now!Cancel, Book!B!Sides, P!Now!B!Sides,
    Book!B!FoundAt, P!Now!B!FoundAt, Book!B!Contains, P!Now!B!Contains
<1> QED BY <1>1, <1>2, <1>3, <1>5

LEMMA RestingIs ==
  ASSUME NEW r PROVE Book!B!Resting(r) <=> P!InBooks(r)
BY DEF Book!B!Resting, P!InBooks, Book!B!FoundAt, P!Member, Book!B!Contains, P!Contains,
       Book!B!Sides, P!Sides

LEMMA FilledIs ==
  ASSUME NEW i PROVE Filled(i) = P!FilledBy(i)
<1>1. \A f, S : P!SumFunctionOnSet(f, S) = SumFunctionOnSet(f, S)
  BY DEF P!SumFunctionOnSet, P!FoldFunctionOnSet, P!MapThenFoldSet,
    SumFunctionOnSet, FoldFunctionOnSet, MapThenFoldSet
<1> QED BY <1>1 DEF Filled, P!FilledBy, P!SumFunction, SumFunction

-----------------------------------------------------------------------------
\* The threads

AtWork == {"submit", "match", "settle", "publish"}
BotPlaces == AtWork \cup {"asleep", "cancel", "quote"}
WatcherPlaces == {"off", "loop", "release", "match", "settle", "publish", "ended"}

\* What a bot may order.
OrdersOf(b) ==
  {o \in [client : {b}, side : Sides, kind : AnyKind, symbol : Symbols,
          quantity : Sizes, price : Prices \cup {0}, expires : BOOLEAN] :
     (o.kind = "MARKET") <=> (o.price = 0)}

BotActs(b, n) ==
  [at : BotPlaces, todo : Seq(OrdersOf(b)), job : 0 .. n - 1, settled : Nat,
   expired : {{}}, last : {FALSE}]

WatcherActs(n) ==
  [at : WatcherPlaces, todo : Seq(1 .. n - 1), job : 0 .. n - 1, settled : Nat,
   expired : SUBSET (1 .. n - 1), last : BOOLEAN]

\* Where a thread is fits the books: n is the next identifier, E the orders that came
\* to a book and T their trades.
Fits(t, a, n, E, T) ==
  /\ IF t = Watcher THEN a \in WatcherActs(n) ELSE a \in BotActs(t, n)
  /\ a.at \in AtWork => a.todo # <<>>
  /\ a.at \notin {"settle", "publish"} => a.settled = 0
  /\ a.at = "settle" => a.job \in E /\ a.settled < Len(T[a.job])
  /\ a.at = "publish" => a.job \in E /\ a.settled \in 1 .. Len(T[a.job])

ActsFit ==
  /\ DOMAIN act = Threads
  /\ \A t \in Threads : Fits(t, act[t], nextId, entered, trades)

Metrics == [submitted : Nat, accepted : Nat, rejected : Nat, queued : Nat, expired : Nat]

FloorTypes ==
  /\ \A i \in Ids : order[i].client \in Bots
  /\ cash \in [Bots -> Int]
  /\ lastPrice \in [Symbols -> Prices]
  /\ waiting \subseteq 1 .. nextId - 1
  /\ metrics \in Metrics
  /\ running \subseteq Bots
  /\ steps \in [Bots -> Nat]
  /\ quote \in [MarketMakers -> [symbol : Symbols, BUY : 0 .. nextId - 1, SELL : 0 .. nextId - 1]]

FloorInv == P!AtomicInv /\ FloorTypes /\ ActsFit

\* What a step of the books does not take from the threads.
Grows ==
  /\ nextId \in Nat /\ nextId' \in Nat /\ nextId <= nextId'
  /\ entered \subseteq entered'
  /\ \A i \in entered : trades'[i] = trades[i]

LEMMA FitsStill ==
  ASSUME NEW n \in Nat, NEW m \in Nat, n <= m, NEW E, NEW F, E \subseteq F, NEW T, NEW U,
         \A i \in E : U[i] = T[i], NEW t, NEW a, Fits(t, a, n, E, T)
  PROVE  Fits(t, a, m, F, U)
<1>1. 1 .. n - 1 \subseteq 1 .. m - 1 /\ 0 .. n - 1 \subseteq 0 .. m - 1
  OBVIOUS
<1>2. Seq(1 .. n - 1) \subseteq Seq(1 .. m - 1)
  BY <1>1
<1>3. t = Watcher => a \in WatcherActs(m)
  BY <1>1, <1>2 DEF Fits, WatcherActs
<1>4. t # Watcher => a \in BotActs(t, m)
  BY <1>1 DEF Fits, BotActs
<1> QED BY <1>3, <1>4 DEF Fits

LEMMA ActsStillFit ==
  ASSUME ActsFit, Grows, NEW t \in Threads, NEW a, act' = [act EXCEPT ![t] = a],
         Fits(t, a, nextId', entered', trades')
  PROVE  ActsFit'
<1>1. DOMAIN act' = Threads
  BY DEF ActsFit
<1>2. ASSUME NEW u \in Threads PROVE Fits(u, act'[u], nextId', entered', trades')
  <2>1. CASE u = t
    BY <2>1 DEF ActsFit
  <2>2. CASE u # t
    <3>1. act'[u] = act[u] /\ Fits(u, act[u], nextId, entered, trades)
      BY <2>2 DEF ActsFit
    <3> QED BY <3>1, FitsStill DEF Grows
  <2> QED BY <2>1, <2>2
<1> QED BY <1>1, <1>2 DEF ActsFit

LEMMA ActsStay ==
  ASSUME ActsFit, UNCHANGED <<nextId, entered, trades, act>>
  PROVE  ActsFit'
BY DEF ActsFit

\* What an act is made of.
LEMMA BotActIs ==
  ASSUME ActsFit, NEW b \in Bots
  PROVE  /\ b \in Threads /\ b # Watcher /\ Fits(b, act[b], nextId, entered, trades)
         /\ act[b] \in BotActs(b, nextId)
         /\ act[b].at \in AtWork => act[b].todo # <<>>
BY BotAssumption DEF ActsFit, Threads, Fits

LEMMA WatcherActIs ==
  ASSUME ActsFit
  PROVE  /\ Watcher \in Threads /\ Fits(Watcher, act[Watcher], nextId, entered, trades)
         /\ act[Watcher] \in WatcherActs(nextId)
         /\ act[Watcher].at \in AtWork => act[Watcher].todo # <<>>
BY DEF ActsFit, Threads, Fits

LEMMA NextIdIs ==
  ASSUME P!AtomicInv
  PROVE  /\ nextId \in Nat \ {0} /\ entered \subseteq Ids /\ entered \subseteq 1 .. nextId - 1
         /\ 1 .. nextId - 1 \subseteq Ids
         /\ IsFiniteSet(1 .. nextId - 1) /\ MaxOrders \in Nat
<1>1. nextId \in 1 .. MaxOrders + 1 /\ MaxOrders \in Nat /\ entered \subseteq 1 .. nextId - 1
  BY BotAssumption DEF P!AtomicInv, P!AtomicTypes
<1>2. IsFiniteSet(1 .. nextId - 1)
  BY <1>1, FS_Interval
<1> QED BY <1>1, <1>2 DEF Ids

LEMMA SameBooks ==
  ASSUME P!AtomicInv, UNCHANGED book
  PROVE  /\ P!AtomicInv' /\ Grows
         /\ \A r : P!InBooks(r)' <=> P!InBooks(r)
<1>1. P!AtomicInv' /\ \A r : P!InBooks(r)' <=> P!InBooks(r)
  BY BooksAssume, P!AtomicStays DEF book
<1>2. Grows
  BY NextIdIs DEF Grows, book
<1> QED BY <1>1, <1>2

\* Of a step that changes nothing but the memory of threads.
LEMMA QuietTypes ==
  ASSUME FloorTypes, UNCHANGED <<book, cash, lastPrice, waiting, metrics>>,
         running' \subseteq Bots, steps' \in [Bots -> Nat],
         quote' \in [MarketMakers -> [symbol : Symbols, BUY : 0 .. nextId - 1, SELL : 0 .. nextId - 1]]
  PROVE  FloorTypes'
BY DEF FloorTypes, book

-----------------------------------------------------------------------------
\* Every step of the floor keeps FloorInv

LEMMA AsleepFits ==
  ASSUME NEW b \in Bots, NEW n \in Nat \ {0}, NEW E, NEW T
  PROVE  /\ Fits(b, Asleep, n, E, T)
         /\ \A p \in {"cancel", "quote"} : Fits(b, [Asleep EXCEPT !.at = p], n, E, T)
         /\ \A q \in Seq(OrdersOf(b)) : q # <<>> =>
              Fits(b, [Asleep EXCEPT !.at = "submit", !.todo = q], n, E, T)
<1>1. b # Watcher
  BY BotAssumption
<1>2. Asleep \in BotActs(b, n)
  BY DEF Asleep, BotActs, BotPlaces, AtWork, NoOrder
<1>3. \A p \in {"cancel", "quote"} : [Asleep EXCEPT !.at = p] \in BotActs(b, n)
  BY <1>2 DEF BotActs, BotPlaces
<1>4. \A q \in Seq(OrdersOf(b)) : [Asleep EXCEPT !.at = "submit", !.todo = q] \in BotActs(b, n)
  BY <1>2 DEF BotActs, BotPlaces, AtWork
<1> QED BY <1>1, <1>2, <1>3, <1>4 DEF Fits, AtWork, Asleep

LEMMA OrderIs ==
  ASSUME NEW b \in Bots, NEW side \in Sides, NEW kind \in AnyKind, NEW s \in Symbols,
         NEW q \in Sizes, NEW p \in Prices \cup {0}, NEW e \in BOOLEAN,
         (kind = "MARKET") <=> (p = 0)
  PROVE  Order(b, side, kind, s, q, p, e) \in OrdersOf(b)
BY DEF Order, OrdersOf

LEMMA NoisePricesAre ==
  ASSUME NEW kind \in AnyKind, NEW side \in Sides, NEW r \in Prices,
         NEW p \in NoisePrices(kind, side, r)
  PROVE  p \in Prices \cup {0} /\ ((kind = "MARKET") <=> (p = 0))
<1>1. \A x : Off(x) \subseteq Prices
  BY DEF Off
<1>2. 0 \notin Prices
  BY BotAssumption
<1>3. CASE kind = "MARKET"
  BY <1>3 DEF NoisePrices
<1>4. CASE kind = "LIMIT"
  <2>1. NoisePrices(kind, side, r) \subseteq Prices
    BY <1>1, <1>4 DEF NoisePrices
  <2> QED BY <1>2, <1>4, <2>1
<1>5. CASE kind = "STOP"
  <2>1. NoisePrices(kind, side, r) \subseteq Prices
    BY <1>1, <1>5 DEF NoisePrices
  <2> QED BY <1>2, <1>5, <2>1
<1>6. CASE kind = "LIMIT_STOP"
  <2>1. NoisePrices(kind, side, r) \subseteq Prices
    BY <1>6 DEF NoisePrices
  <2> QED BY <1>2, <1>6, <2>1
<1> QED BY <1>3, <1>4, <1>5, <1>6 DEF AnyKind

LEMMA WillSubmitFits ==
  ASSUME FloorInv, UNCHANGED book, NEW b \in Bots, NEW q \in Seq(OrdersOf(b)),
         WillSubmit(b, q)
  PROVE  ActsFit'
<1> DEFINE a == IF q = <<>> THEN Asleep ELSE [Asleep EXCEPT !.at = "submit", !.todo = q]
<1>1. act' = [act EXCEPT ![b] = a]
  BY DEF WillSubmit, Become
<1>2. nextId' \in Nat \ {0} /\ ActsFit /\ Grows /\ b \in Threads
  BY NextIdIs, SameBooks DEF FloorInv, book, Threads
<1>3. Fits(b, a, nextId', entered', trades')
  BY <1>2, AsleepFits
<1> HIDE DEF a
<1> QED BY <1>1, <1>2, <1>3, ActsStillFit

LEMMA WakesIs ==
  ASSUME FloorTypes, NEW b \in Bots, Wakes(b)
  PROVE  /\ steps' \in [Bots -> Nat] /\ steps[b] \in Nat
         /\ steps[b] + 1 \in 1 .. MaxSteps[b] /\ MaxSteps[b] \in Nat
<1>1. MaxSteps[b] \in Nat /\ steps \in [Bots -> Nat]
  BY BotAssumption DEF FloorTypes
<1> QED BY <1>1 DEF Wakes

LEMMA NoiseStepKeeps ==
  ASSUME FloorInv, NEW b \in NoiseTraders, NoiseStep(b)
  PROVE  FloorInv'
<1>1. b \in Bots /\ Wakes(b)
  BY DEF NoiseStep, Bots
<1>2. UNCHANGED <<book, cash, holding, lastPrice, waiting, metrics, bus, running, quote>>
  BY DEF NoiseStep
<1>3. PICK s \in Symbols, choice \in NoiseOrders[steps[b] + 1], q \in TakeSizes :
        \E p \in NoisePrices(choice.kind, choice.side, lastPrice[s]) :
          WillSubmit(b, <<Order(b, choice.side, choice.kind, s, q, p, choice.expires)>>)
  BY DEF NoiseStep
<1>4. PICK p \in NoisePrices(choice.kind, choice.side, lastPrice[s]) :
        WillSubmit(b, <<Order(b, choice.side, choice.kind, s, q, p, choice.expires)>>)
  BY <1>3
<1>5. choice.side \in Sides /\ choice.kind \in AnyKind /\ choice.expires \in BOOLEAN
  <2>1. steps[b] + 1 \in 1 .. MaxSteps[b] /\ MaxSteps[b] \in Nat
    BY <1>1, WakesIs DEF FloorInv
  <2>2. MaxSteps[b] <= Len(NoiseOrders) /\ Len(NoiseOrders) \in Nat
    BY BotAssumption
  <2>3. steps[b] + 1 \in 1 .. Len(NoiseOrders)
    BY <2>1, <2>2
  <2>4. NoiseOrders[steps[b] + 1] \subseteq
          [side : {"BUY", "SELL"}, expires : BOOLEAN,
           kind : {"MARKET", "LIMIT", "STOP", "LIMIT_STOP"}]
    BY <2>3, BotAssumption
  <2> QED BY <2>4 DEF Sides, AnyKind
<1>6. lastPrice[s] \in Prices
  BY DEF FloorInv, FloorTypes
<1> DEFINE o == Order(b, choice.side, choice.kind, s, q, p, choice.expires)
<1>7. o \in OrdersOf(b)
  <2>1. p \in Prices \cup {0} /\ ((choice.kind = "MARKET") <=> (p = 0))
    BY <1>5, <1>6, NoisePricesAre
  <2> QED BY <1>1, <1>5, <2>1, OrderIs DEF Sizes
<1> HIDE DEF o
<1>8. <<o>> \in Seq(OrdersOf(b)) /\ WillSubmit(b, <<o>>)
  BY <1>4, <1>7 DEF o
<1>9. ActsFit'
  BY <1>1, <1>2, <1>8, WillSubmitFits
<1>10. FloorTypes'
  BY <1>1, <1>2, WakesIs, QuietTypes DEF FloorInv, FloorTypes, book
<1> QED BY <1>2, <1>9, <1>10, SameBooks DEF FloorInv

LEMMA MomentumStepKeeps ==
  ASSUME FloorInv, NEW b \in MomentumBots, MomentumStep(b)
  PROVE  FloorInv'
<1>1. b \in Bots /\ Wakes(b)
  BY DEF MomentumStep, Bots
<1>2. UNCHANGED <<book, cash, holding, lastPrice, waiting, metrics, bus, running, quote>>
  BY DEF MomentumStep
<1>3. \E q \in Seq(OrdersOf(b)) : WillSubmit(b, q)
  <2>1. PICK s \in Symbols, n \in TakeSizes :
          LET p == lastPrice[s]
              longer == Append(window[b][s], p)
              seen == IF Len(longer) > WindowSize THEN Tail(longer) ELSE longer
              change == p - Head(seen)
              side == IF change > 0 THEN "BUY" ELSE "SELL"
          IN  IF change = 0
                THEN WillSubmit(b, <<>>)
                ELSE \E trigger \in Off(IF side = "BUY" THEN p - StopOffset ELSE p + StopOffset) :
                       WillSubmit(b, <<Order(b, side, "MARKET", s, n, 0, FALSE),
                                       Order(b, Opposite(side), "STOP", s, n, trigger, TRUE)>>)
    BY DEF MomentumStep
  <2>2. \/ WillSubmit(b, <<>>)
        \/ \E side \in Sides, trigger \in Prices :
             WillSubmit(b, <<Order(b, side, "MARKET", s, n, 0, FALSE),
                             Order(b, Opposite(side), "STOP", s, n, trigger, TRUE)>>)
    BY <2>1 DEF Sides, Off
  <2>3. CASE WillSubmit(b, <<>>)
    <3>1. <<>> \in Seq(OrdersOf(b))
      OBVIOUS
    <3> QED BY <2>3, <3>1
  <2>4. CASE \E side \in Sides, trigger \in Prices :
               WillSubmit(b, <<Order(b, side, "MARKET", s, n, 0, FALSE),
                               Order(b, Opposite(side), "STOP", s, n, trigger, TRUE)>>)
    <3>1. PICK side \in Sides, trigger \in Prices :
               WillSubmit(b, <<Order(b, side, "MARKET", s, n, 0, FALSE),
                               Order(b, Opposite(side), "STOP", s, n, trigger, TRUE)>>)
      BY <2>4
    <3> DEFINE o == Order(b, side, "MARKET", s, n, 0, FALSE)
               p == Order(b, Opposite(side), "STOP", s, n, trigger, TRUE)
    <3>2. o \in OrdersOf(b)
      BY <1>1, OrderIs DEF Sizes, AnyKind
    <3>3. Opposite(side) \in Sides /\ trigger # 0
      BY BotAssumption DEF Opposite, Sides
    <3>4. p \in OrdersOf(b)
      BY <1>1, <3>3, OrderIs DEF Sizes, AnyKind
    <3>5. WillSubmit(b, <<o, p>>)
      BY <3>1
    <3> HIDE DEF o, p
    <3>6. <<o, p>> \in Seq(OrdersOf(b))
      BY <3>2, <3>4
    <3> QED BY <3>5, <3>6
  <2> QED BY <2>2, <2>3, <2>4
<1>4. ActsFit'
  BY <1>1, <1>2, <1>3, WillSubmitFits
<1>5. FloorTypes'
  BY <1>1, <1>2, WakesIs, QuietTypes DEF FloorInv, FloorTypes, book
<1> QED BY <1>2, <1>4, <1>5, SameBooks DEF FloorInv

\* A cancelled quote leaves the books, or there was none to cancel.
LEMMA CancelQuoteBooks ==
  ASSUME P!AtomicInv, NEW b, NEW side, CancelQuote(b, side)
  PROVE  /\ P!AtomicInv' /\ Grows
         /\ UNCHANGED <<nextId, order, left, entered, trades>>
         /\ \A r : P!InBooks(r)' => P!InBooks(r)
         /\ Cancellable(b, quote[b][side]) => \A r : P!InBooks(r)' => r # quote[b][side]
<1>1. CASE Cancellable(b, quote[b][side])
  <2> DEFINE id == quote[b][side]
  <2>1. P!Now!Cancel(id)
    BY <1>1, StepsAre DEF CancelQuote
  <2> HIDE DEF id
  <2>2. /\ P!AtomicInv' /\ UNCHANGED <<nextId, order, left, entered, trades>>
        /\ \A r : P!InBooks(r)' => P!InBooks(r) /\ r # id
    BY <2>1, BooksAssume, P!AtomicCancelKeeps
  <2> QED BY <2>2, NextIdIs DEF Grows, id
<1>2. CASE ~Cancellable(b, quote[b][side])
  <2>1. UNCHANGED book
    BY <1>2 DEF CancelQuote
  <2> QED BY <1>2, <2>1, SameBooks DEF book
<1> QED BY <1>1, <1>2

LEMMA CancelQuoteKeeps ==
  ASSUME FloorInv, NEW b \in MarketMakers, NEW side \in Sides, CancelQuote(b, side),
         steps' \in [Bots -> Nat], NEW p \in {"cancel", "quote"},
         act' = [act EXCEPT ![b] = [Asleep EXCEPT !.at = p]]
  PROVE  FloorInv'
<1>1. b \in Bots /\ b \in Threads
  BY DEF Bots, Threads
<1>2. /\ P!AtomicInv' /\ Grows
      /\ UNCHANGED <<nextId, order, left, entered, trades>>
  BY CancelQuoteBooks DEF FloorInv
<1>3. ActsFit'
  <2>1. Fits(b, [Asleep EXCEPT !.at = p], nextId', entered', trades')
    BY <1>1, <1>2, NextIdIs, AsleepFits DEF FloorInv
  <2> QED BY <1>1, <1>2, <2>1, ActsStillFit DEF FloorInv
<1>4. FloorTypes'
  <2>1. UNCHANGED <<cash, lastPrice, waiting, metrics, running>>
    BY DEF CancelQuote
  <2>2. quote' \in [MarketMakers -> [symbol : Symbols, BUY : 0 .. nextId - 1, SELL : 0 .. nextId - 1]]
    <3>1. quote' = [quote EXCEPT ![b][side] = 0] /\ nextId \in Nat \ {0}
      BY NextIdIs DEF CancelQuote, NoOrder, FloorInv
    <3>2. quote \in [MarketMakers -> [symbol : Symbols, BUY : 0 .. nextId - 1, SELL : 0 .. nextId - 1]]
      BY DEF FloorInv, FloorTypes
    <3>3. [quote[b] EXCEPT ![side] = 0] \in [symbol : Symbols, BUY : 0 .. nextId - 1, SELL : 0 .. nextId - 1]
      BY <3>1, <3>2 DEF Sides
    <3>4. quote' = [quote EXCEPT ![b] = [quote[b] EXCEPT ![side] = 0]]
      BY <3>1, <3>2
    <3> QED BY <3>2, <3>3, <3>4
  <2> QED BY <1>2, <2>1, <2>2 DEF FloorInv, FloorTypes
<1> QED BY <1>2, <1>3, <1>4 DEF FloorInv

LEMMA CancelBuyKeeps ==
  ASSUME FloorInv, NEW b \in MarketMakers, CancelBuy(b)
  PROVE  FloorInv'
<1>1. steps' \in [Bots -> Nat]
  BY WakesIs DEF CancelBuy, FloorInv, Bots
<1>2. /\ act' = [act EXCEPT ![b] = [Asleep EXCEPT !.at = "cancel"]]
      /\ CancelQuote(b, "BUY")
  BY DEF CancelBuy, Become
<1> QED BY <1>1, <1>2, CancelQuoteKeeps DEF Sides

LEMMA CancelSellKeeps ==
  ASSUME FloorInv, NEW b \in MarketMakers, CancelSell(b)
  PROVE  FloorInv'
<1>1. steps' \in [Bots -> Nat]
  BY DEF CancelSell, FloorInv, FloorTypes
<1>2. /\ act' = [act EXCEPT ![b] = [Asleep EXCEPT !.at = "quote"]]
      /\ CancelQuote(b, "SELL")
  BY DEF CancelSell, Become
<1> QED BY <1>1, <1>2, CancelQuoteKeeps DEF Sides

\* The two orders of a new quote.
LEMMA PostQuotesIs ==
  ASSUME NEW b \in MarketMakers, PostQuotes(b)
  PROVE  \E s \in Symbols, bought \in QuoteSizes, sold \in QuoteSizes,
           bid \in Prices, ask \in Prices :
           /\ quote' = [quote EXCEPT ![b].symbol = s]
           /\ WillSubmit(b, <<Order(b, "BUY", "LIMIT", s, bought, bid, FALSE),
                              Order(b, "SELL", "LIMIT", s, sold, ask, FALSE)>>)
           /\ Order(b, "BUY", "LIMIT", s, bought, bid, FALSE) \in OrdersOf(b)
           /\ Order(b, "SELL", "LIMIT", s, sold, ask, FALSE) \in OrdersOf(b)
<1>1. PICK s \in Symbols, bought \in QuoteSizes, sold \in QuoteSizes :
        LET mid == lastPrice[s]
        IN  \E bid \in Off(mid - HalfSpread), ask \in Off(mid + HalfSpread) :
             /\ quote' = [quote EXCEPT ![b].symbol = s]
             /\ WillSubmit(b, <<Order(b, "BUY", "LIMIT", s, bought, bid, FALSE),
                                Order(b, "SELL", "LIMIT", s, sold, ask, FALSE)>>)
  BY DEF PostQuotes
<1>2. PICK bid \in Prices, ask \in Prices :
             /\ quote' = [quote EXCEPT ![b].symbol = s]
             /\ WillSubmit(b, <<Order(b, "BUY", "LIMIT", s, bought, bid, FALSE),
                                Order(b, "SELL", "LIMIT", s, sold, ask, FALSE)>>)
  BY <1>1 DEF Off
<1>3. b \in Bots /\ bid # 0 /\ ask # 0
  BY BotAssumption DEF Bots
<1>4. /\ Order(b, "BUY", "LIMIT", s, bought, bid, FALSE) \in OrdersOf(b)
      /\ Order(b, "SELL", "LIMIT", s, sold, ask, FALSE) \in OrdersOf(b)
  BY <1>3, OrderIs DEF Sides, AnyKind, Sizes
<1> QED BY <1>2, <1>4

LEMMA PostQuotesKeeps ==
  ASSUME FloorInv, NEW b \in MarketMakers, PostQuotes(b)
  PROVE  FloorInv'
<1>1. b \in Bots
  BY DEF Bots
<1>2. UNCHANGED <<book, cash, holding, lastPrice, waiting, metrics, bus, running, steps, window>>
  BY DEF PostQuotes
<1>3. PICK s \in Symbols, bought \in QuoteSizes, sold \in QuoteSizes,
           bid \in Prices, ask \in Prices :
           /\ quote' = [quote EXCEPT ![b].symbol = s]
           /\ WillSubmit(b, <<Order(b, "BUY", "LIMIT", s, bought, bid, FALSE),
                              Order(b, "SELL", "LIMIT", s, sold, ask, FALSE)>>)
           /\ Order(b, "BUY", "LIMIT", s, bought, bid, FALSE) \in OrdersOf(b)
           /\ Order(b, "SELL", "LIMIT", s, sold, ask, FALSE) \in OrdersOf(b)
  BY PostQuotesIs
<1> DEFINE o == Order(b, "BUY", "LIMIT", s, bought, bid, FALSE)
           p == Order(b, "SELL", "LIMIT", s, sold, ask, FALSE)
<1>4. ActsFit'
  <2>1. o \in OrdersOf(b) /\ p \in OrdersOf(b) /\ WillSubmit(b, <<o, p>>)
    BY <1>3
  <2> HIDE DEF o, p
  <2>2. <<o, p>> \in Seq(OrdersOf(b))
    BY <2>1
  <2> QED BY <1>1, <1>2, <2>1, <2>2, WillSubmitFits
<1>5. FloorTypes'
  <2>1. quote' = [quote EXCEPT ![b] = [quote[b] EXCEPT !.symbol = s]]
    BY <1>3
  <2>2. quote' \in [MarketMakers -> [symbol : Symbols, BUY : 0 .. nextId - 1, SELL : 0 .. nextId - 1]]
    BY <2>1 DEF FloorInv, FloorTypes
  <2> QED BY <1>2, <2>2, QuietTypes DEF FloorInv, FloorTypes
<1> QED BY <1>2, <1>4, <1>5, SameBooks DEF FloorInv

LEMMA MetricsCount ==
  ASSUME NEW m \in Metrics, NEW n \in Nat
  PROVE  /\ [m EXCEPT !.submitted = @ + 1] \in Metrics
         /\ [m EXCEPT !.accepted = @ + 1] \in Metrics
         /\ [m EXCEPT !.rejected = @ + 1] \in Metrics
         /\ [m EXCEPT !.queued = @ + 1] \in Metrics
         /\ [m EXCEPT !.expired = @ + n] \in Metrics
BY DEF Metrics

LEMMA BotActEdits ==
  ASSUME NEW t, NEW m, NEW a \in BotActs(t, m)
  PROVE  /\ \A p \in BotPlaces : [a EXCEPT !.at = p] \in BotActs(t, m)
         /\ \A q \in Seq(OrdersOf(t)) : [a EXCEPT !.todo = q] \in BotActs(t, m)
         /\ \A j \in 0 .. m - 1 : [a EXCEPT !.job = j] \in BotActs(t, m)
         /\ \A k \in Nat : [a EXCEPT !.settled = k] \in BotActs(t, m)
BY DEF BotActs

LEMMA WatcherActEdits ==
  ASSUME NEW m, NEW a \in WatcherActs(m)
  PROVE  /\ \A p \in WatcherPlaces : [a EXCEPT !.at = p] \in WatcherActs(m)
         /\ \A q \in Seq(1 .. m - 1) : [a EXCEPT !.todo = q] \in WatcherActs(m)
         /\ \A j \in 0 .. m - 1 : [a EXCEPT !.job = j] \in WatcherActs(m)
         /\ \A k \in Nat : [a EXCEPT !.settled = k] \in WatcherActs(m)
BY DEF WatcherActs

LEMMA ActsWiden ==
  ASSUME NEW n \in Nat, NEW m \in Nat, n <= m
  PROVE  /\ WatcherActs(n) \subseteq WatcherActs(m)
         /\ \A t : BotActs(t, n) \subseteq BotActs(t, m)
<1>1. 1 .. n - 1 \subseteq 1 .. m - 1 /\ 0 .. n - 1 \subseteq 0 .. m - 1
  OBVIOUS
<1>2. Seq(1 .. n - 1) \subseteq Seq(1 .. m - 1)
  BY <1>1
<1>3. SUBSET (1 .. n - 1) \subseteq SUBSET (1 .. m - 1)
  BY <1>1
<1> DEFINE A == 1 .. n - 1
           B == 1 .. m - 1
           C == 0 .. n - 1
           D == 0 .. m - 1
<1>4. WatcherActs(n) \subseteq WatcherActs(m)
  <2> HIDE DEF A, B, C, D
  <2>1. C \subseteq D /\ Seq(A) \subseteq Seq(B) /\ SUBSET A \subseteq SUBSET B
    BY <1>1, <1>2, <1>3 DEF A, B, C, D
  <2>2. /\ WatcherActs(n) = [at : WatcherPlaces, todo : Seq(A), job : C, settled : Nat,
                             expired : SUBSET A, last : BOOLEAN]
        /\ WatcherActs(m) = [at : WatcherPlaces, todo : Seq(B), job : D, settled : Nat,
                             expired : SUBSET B, last : BOOLEAN]
    BY DEF WatcherActs, A, B, C, D
  <2> QED BY <2>1, <2>2
<1>5. ASSUME NEW t PROVE BotActs(t, n) \subseteq BotActs(t, m)
  BY <1>1 DEF BotActs
<1> QED BY <1>4, <1>5

\* Back from an order, nothing is expected of the books.
LEMMA AfterFits ==
  ASSUME ActsFit, nextId \in Nat \ {0}, NEW t \in Threads, act[t].at \in AtWork,
         NEW m \in Nat, nextId <= m, NEW E, NEW T
  PROVE  Fits(t, AfterOrder(t), m, E, T)
<1> DEFINE a == act[t]
           rest == Tail(a.todo)
           c == AfterOrder(t)
<1>1. Fits(t, a, nextId, entered, trades)
  BY DEF ActsFit
<1>2. c = [a EXCEPT !.todo = rest, !.job = 0, !.settled = 0,
             !.at = IF t = Watcher THEN "release" ELSE IF rest = <<>> THEN "asleep" ELSE "submit"]
  BY DEF AfterOrder, NoOrder
<1>3. a.todo # <<>>
  BY <1>1 DEF Fits
<1>4. CASE t = Watcher
  <2>1. a \in WatcherActs(m)
    BY <1>1, <1>4, ActsWiden DEF Fits
  <2>2. rest \in Seq(1 .. m - 1)
    BY <1>3, <2>1, HeadTailProperties DEF WatcherActs
  <2> HIDE DEF rest
  <2> DEFINE d == [a EXCEPT !.todo = rest]
             e == [d EXCEPT !.job = 0]
             f == [e EXCEPT !.settled = 0]
  <2>3. d \in WatcherActs(m)
    BY <2>1, <2>2, WatcherActEdits
  <2> HIDE DEF d
  <2>4. e \in WatcherActs(m)
    <3>1. 0 \in 0 .. m - 1
      OBVIOUS
    <3> QED BY <2>3, <3>1, WatcherActEdits
  <2> HIDE DEF e
  <2>5. f \in WatcherActs(m)
    BY <2>4, WatcherActEdits
  <2>6. f.settled = 0
    BY <2>4 DEF WatcherActs
  <2> HIDE DEF f
  <2>7. c = [f EXCEPT !.at = "release"]
    BY <1>2, <1>4 DEF d, e, f
  <2> HIDE DEF c
  <2>8. c \in WatcherActs(m) /\ c.at = "release" /\ c.settled = 0
    BY <2>5, <2>6, <2>7 DEF WatcherActs, WatcherPlaces
  <2> QED BY <1>4, <2>8 DEF Fits, AtWork, c
<1>5. CASE t # Watcher
  <2>1. a \in BotActs(t, m)
    BY <1>1, <1>5, ActsWiden DEF Fits
  <2>2. rest \in Seq(OrdersOf(t))
    BY <1>3, <2>1, HeadTailProperties DEF BotActs
  <2> HIDE DEF rest
  <2> DEFINE d == [a EXCEPT !.todo = rest]
             e == [d EXCEPT !.job = 0]
             f == [e EXCEPT !.settled = 0]
             p == IF rest = <<>> THEN "asleep" ELSE "submit"
  <2>3. d \in BotActs(t, m) /\ d.todo = rest
    BY <2>1, <2>2 DEF BotActs
  <2> HIDE DEF d
  <2>4. e \in BotActs(t, m) /\ e.todo = rest
    <3>1. 0 \in 0 .. m - 1
      OBVIOUS
    <3> QED BY <2>3, <3>1 DEF BotActs
  <2> HIDE DEF e
  <2>5. f \in BotActs(t, m) /\ f.settled = 0 /\ f.todo = rest
    BY <2>4 DEF BotActs
  <2> HIDE DEF f
  <2>6. c = [f EXCEPT !.at = p]
    BY <1>2, <1>5 DEF d, e, f
  <2> HIDE DEF c
  <2>7. /\ c \in BotActs(t, m) /\ c.settled = 0 /\ c.todo = rest
        /\ c.at = IF rest = <<>> THEN "asleep" ELSE "submit"
    BY <2>5, <2>6 DEF BotActs, BotPlaces, AtWork
  <2> QED BY <1>5, <2>7 DEF Fits, AtWork, c
<1> QED BY <1>4, <1>5

\* What a bot hands to submit_order, and what the books make of it.
LEMMA SubmitIs ==
  ASSUME FloorInv, NEW b \in Bots, SubmitOrder(b), NEW n, n = nextId, NEW o, o = Head(act[b].todo)
  PROVE  /\ P!AtomicInv' /\ Grows /\ o \in OrdersOf(b)
         /\ nextId' = n + 1 /\ n \in Ids
         /\ order'[n] = o /\ \A i \in Ids : i # n => order'[i] = order[i]
         /\ left'[n] = o.quantity
         /\ UNCHANGED <<entered, queue, trades>>
         /\ \A r : P!InBooks(r)' <=> P!InBooks(r)
<1>1. Book!Build(o)
  BY DEF SubmitOrder
<1>2. o \in OrdersOf(b)
  <2>1. act[b].at \in AtWork
    BY DEF SubmitOrder, AtWork
  <2>2. act[b].todo \in Seq(OrdersOf(b)) /\ act[b].todo # <<>>
    BY <2>1, BotActIs DEF FloorInv, BotActs
  <2> QED BY <2>2
<1>3. /\ o.symbol \in Symbols /\ o.side \in P!Sides /\ o.price \in Prices \cup {0}
      /\ (o.kind = "MARKET") <=> (o.price = 0)
      /\ o.quantity \in Nat
  BY <1>2, BotAssumption DEF OrdersOf, Sides, P!Sides, Sizes
<1>4. P!Now!Build(o)
  BY <1>1, StepsAre
<1>5. /\ P!AtomicInv'
      /\ nextId' = n + 1 /\ n \in P!Ids /\ order' = [order EXCEPT ![n] = o]
      /\ order'[n] = o
      /\ left'[n] = o.quantity
      /\ UNCHANGED <<entered, queue, trades>>
  BY <1>3, <1>4, BooksAssume, P!AtomicBuildKeeps DEF FloorInv
<1>6. \A r : P!InBooks(r)' <=> P!InBooks(r)
  BY <1>5 DEF P!InBooks
<1>7. Grows
  BY <1>5, NextIdIs DEF Grows, FloorInv
<1>8. DOMAIN order = Ids
  BY NamesAre DEF FloorInv, P!AtomicInv, P!AtomicTypes
<1>9. n \in Ids /\ \A i \in Ids : i # n => order'[i] = order[i]
  BY <1>5, <1>8, NamesAre
<1> QED BY <1>2, <1>5, <1>6, <1>7, <1>9

LEMMA SubmitKeeps ==
  ASSUME FloorInv, NEW b \in Bots, SubmitOrder(b)
  PROVE  FloorInv'
<1> DEFINE n == nextId
           o == Head(act[b].todo)
<1>1. /\ P!AtomicInv' /\ Grows /\ o \in OrdersOf(b)
      /\ nextId' = n + 1 /\ n \in Ids
      /\ order'[n] = o /\ \A i \in Ids : i # n => order'[i] = order[i]
      /\ UNCHANGED <<entered, queue, trades>>
  BY SubmitIs
<1>2. n \in Nat \ {0} /\ b \in Threads /\ act[b].at = "submit" /\ b # Watcher
  BY NextIdIs, BotAssumption DEF FloorInv, Threads, SubmitOrder
<1>3. ActsFit /\ act[b] \in BotActs(b, n) /\ Fits(b, act[b], n, entered, trades)
  BY BotActIs DEF FloorInv
<1> DEFINE a == [act[b] EXCEPT !.at = "match", !.job = n]
<1>4. \/ act' = [act EXCEPT ![b] = AfterOrder(b)]
      \/ act' = [act EXCEPT ![b] = a]
  BY DEF SubmitOrder, Reject, Queue, Become
<1>5. Fits(b, AfterOrder(b), n + 1, entered', trades')
  BY <1>2, <1>3, AfterFits DEF AtWork
<1>6. Fits(b, a, n + 1, entered', trades')
  <2>1. /\ a \in BotActs(b, n + 1) /\ a.at = "match" /\ a.todo = act[b].todo
        /\ a.settled = act[b].settled
    <3> HIDE DEF n
    <3> DEFINE d == [act[b] EXCEPT !.at = "match"]
    <3>1. n \in 0 .. n + 1 - 1 /\ n + 1 \in Nat
      BY <1>2
    <3>2. act[b] \in BotActs(b, n + 1)
      BY <1>2, <1>3, <3>1, ActsWiden
    <3>3. d \in BotActs(b, n + 1) /\ d.at = "match" /\ d.todo = act[b].todo /\ d.settled = act[b].settled
      BY <3>2 DEF BotActs, BotPlaces, AtWork
    <3> HIDE DEF d
    <3>4. a = [d EXCEPT !.job = n]
      BY DEF d
    <3>5. [d EXCEPT !.job = n] \in BotActs(b, n + 1)
      BY <3>1, <3>3, BotActEdits
    <3> HIDE DEF a
    <3> QED BY <3>3, <3>4, <3>5 DEF BotActs
  <2> HIDE DEF a
  <2> QED BY <1>2, <1>3, <2>1 DEF Fits, AtWork
<1>7. ActsFit'
  <2> HIDE DEF a
  <2> QED BY <1>1, <1>2, <1>3, <1>4, <1>5, <1>6, ActsStillFit
<1>8. FloorTypes'
  <2>1. \A i \in Ids : order'[i].client \in Bots
    BY <1>1 DEF FloorInv, FloorTypes, OrdersOf
  <2>2. waiting' = waiting \/ waiting' = waiting \cup {n}
    BY DEF SubmitOrder, Reject, Queue
  <2>3. waiting' \subseteq 1 .. nextId' - 1
    <3>1. waiting \subseteq 1 .. n - 1
      BY DEF FloorInv, FloorTypes
    <3>2. 1 .. nextId' - 1 = 1 .. n
      BY <1>1, <1>2
    <3>3. 1 .. n - 1 \subseteq 1 .. n /\ n \in 1 .. n
      BY <1>2
    <3> QED BY <2>2, <3>1, <3>2, <3>3
  <2>4. metrics \in Metrics
    BY DEF FloorInv, FloorTypes
  <2>5. metrics' \in Metrics
    <3> DEFINE m == [metrics EXCEPT !.submitted = @ + 1]
    <3>1. \/ metrics' = m
          \/ metrics' = [m EXCEPT !.rejected = @ + 1]
          \/ metrics' = [m EXCEPT !.queued = @ + 1]
      BY DEF SubmitOrder, Reject, Queue
    <3>2. m \in Metrics
      BY <2>4, MetricsCount
    <3> HIDE DEF m
    <3> QED BY <3>1, <3>2, MetricsCount
  <2>6. quote' \in [MarketMakers -> [symbol : Symbols, BUY : 0 .. nextId' - 1, SELL : 0 .. nextId' - 1]]
    <3>1. 0 .. n - 1 \subseteq 0 .. nextId' - 1
      BY <1>1, <1>2
    <3>2. quote' = quote
      BY DEF SubmitOrder
    <3> QED BY <3>1, <3>2 DEF FloorInv, FloorTypes
  <2>7. UNCHANGED <<cash, lastPrice, running, steps>>
    BY DEF SubmitOrder
  <2> QED BY <2>1, <2>3, <2>5, <2>6, <2>7 DEF FloorInv, FloorTypes
<1> QED BY <1>1, <1>7, <1>8 DEF FloorInv

\* What a match() does to the books.
LEMMA MatchBooks ==
  ASSUME P!AtomicInv, NEW id, Book!Match(id)
  PROVE  /\ P!AtomicInv' /\ Grows
         /\ id \in 1 .. nextId - 1 /\ id \notin entered /\ entered' = entered \cup {id}
         /\ UNCHANGED <<nextId, order>>
         /\ \A i \in Ids : i # id => trades'[i] = trades[i]
         /\ \A r : P!InBooks(r)' => P!InBooks(r) \/ r = id
<1>1. id \in 1 .. nextId - 1 /\ id \notin entered
  BY DEF Book!Match
<1>2. P!Now!Match(id)
  BY StepsAre
<1>3. /\ P!AtomicInv'
      /\ nextId' = nextId /\ order' = order /\ entered' = entered \cup {id}
      /\ \A i \in P!Ids : i # id => trades'[i] = trades[i]
      /\ \A r : P!InBooks(r)' => P!InBooks(r) \/ r = id
  BY <1>1, <1>2, BooksAssume, P!AtomicMatchKeeps
<1>4. Grows
  BY <1>1, <1>3, NextIdIs, NamesAre DEF Grows
<1> QED BY <1>1, <1>3, <1>4, NamesAre

\* What a thread that has a trade to settle does when it is through with it.
LEMMA RememberKeeps ==
  ASSUME FloorInv, NEW t, NEW id \in 1 .. nextId - 1,
         UNCHANGED quote \/ Remember(t, id), nextId' = nextId, order' = order
  PROVE  quote' \in [MarketMakers -> [symbol : Symbols, BUY : 0 .. nextId' - 1, SELL : 0 .. nextId' - 1]]
<1> DEFINE Q == [symbol : Symbols, BUY : 0 .. nextId - 1, SELL : 0 .. nextId - 1]
           side == order[id].side
<1>1. quote \in [MarketMakers -> Q]
  BY DEF FloorInv, FloorTypes
<1>2. side \in Sides
  BY NextIdIs, NamesAre DEF FloorInv, P!AtomicInv, P!AtomicTypes, P!Readable
<1>3. CASE quote' = quote
  BY <1>1, <1>3
<1>4. CASE quote' # quote
  <2>1. t \in MarketMakers /\ quote' = [quote EXCEPT ![t][side] = id]
    BY <1>4 DEF Remember
  <2>2. quote' = [quote EXCEPT ![t] = [quote[t] EXCEPT ![side] = id]]
    BY <1>1, <2>1
  <2>3. [quote[t] EXCEPT ![side] = id] \in Q
    BY <1>1, <1>2, <2>1 DEF Sides
  <2> HIDE DEF Q
  <2>4. quote' \in [MarketMakers -> Q]
    BY <1>1, <2>1, <2>2, <2>3
  <2> QED BY <2>4 DEF Q
<1> QED BY <1>3, <1>4

LEMMA MatchKeeps ==
  ASSUME FloorInv, NEW t \in Threads, Match(t)
  PROVE  FloorInv'
<1> DEFINE id == act[t].job
<1>1. /\ P!AtomicInv' /\ Grows
      /\ id \in 1 .. nextId - 1 /\ id \notin entered /\ entered' = entered \cup {id}
      /\ nextId' = nextId /\ order' = order
      /\ \A i \in Ids : i # id => trades'[i] = trades[i]
  BY MatchBooks DEF FloorInv, Match
<1>2. nextId \in Nat \ {0} /\ id \in Ids /\ act[t].at = "match"
  BY <1>1, NextIdIs DEF FloorInv, Match
<1>3. ActsFit /\ Fits(t, act[t], nextId, entered, trades)
  BY DEF FloorInv, ActsFit
<1> DEFINE a == [act[t] EXCEPT !.at = "settle"]
<1>4. \/ act' = [act EXCEPT ![t] = AfterOrder(t)]
      \/ act' = [act EXCEPT ![t] = a] /\ trades'[id] # <<>>
  BY DEF Match, Finished, NotYet, Become
<1>5. Fits(t, AfterOrder(t), nextId', entered', trades')
  BY <1>1, <1>2, <1>3, AfterFits DEF AtWork
<1>6. ASSUME trades'[id] # <<>> PROVE Fits(t, a, nextId', entered', trades')
  <2>1. 0 < Len(trades'[id])
    <3>1. trades'[id] \in Seq(P!Trades)
      BY <1>1, <1>2, NamesAre DEF P!AtomicInv, P!AtomicTypes
    <3> QED BY <1>6, <3>1
  <2>2. /\ a.at = "settle" /\ a.todo = act[t].todo /\ a.settled = 0 /\ a.job = id
        /\ a.todo # <<>>
        /\ IF t = Watcher THEN a \in WatcherActs(nextId) ELSE a \in BotActs(t, nextId)
    BY <1>2, <1>3 DEF Fits, BotActs, WatcherActs, BotPlaces, WatcherPlaces, AtWork
  <2> HIDE DEF a
  <2> QED BY <1>1, <2>1, <2>2 DEF Fits, AtWork
<1>7. ActsFit'
  <2> HIDE DEF a
  <2> QED BY <1>1, <1>3, <1>4, <1>5, <1>6, ActsStillFit
<1>8. FloorTypes'
  <2>1. quote' \in [MarketMakers -> [symbol : Symbols, BUY : 0 .. nextId' - 1, SELL : 0 .. nextId' - 1]]
    <3>1. UNCHANGED quote \/ Remember(t, id)
      BY DEF Match, Finished, NotYet
    <3> QED BY <1>1, <3>1, RememberKeeps
  <2>2. UNCHANGED <<cash, lastPrice, waiting, running, steps>>
    BY DEF Match
  <2>3. metrics' \in Metrics
    <3>1. metrics \in Metrics /\ metrics' = [metrics EXCEPT !.accepted = @ + 1]
      BY DEF Match, FloorInv, FloorTypes
    <3> QED BY <3>1, MetricsCount
  <2> QED BY <1>1, <2>1, <2>2, <2>3 DEF FloorInv, FloorTypes
<1> QED BY <1>1, <1>7, <1>8 DEF FloorInv

\* What two bots settle leaves the money of all of them as it was.
LEMMA ShiftKeepsTotal ==
  ASSUME NEW f \in [Bots -> Int], NEW from \in Bots, NEW to \in Bots, NEW n \in Int
  PROVE  /\ Shift(f, from, to, n) \in [Bots -> Int]
         /\ TotalOf(Shift(f, from, to, n)) = TotalOf(f)
<1> DEFINE paid == [b \in Bots |-> f[b] - (IF b = from THEN n ELSE 0)]
           shifted == Shift(f, from, to, n)
<1>1. IsFiniteSet(Bots)
  BY BotAssumption
<1>2. paid \in [Bots -> Int] /\ shifted \in [Bots -> Int]
  BY DEF Shift
<1>3. SumFunctionOnSet(paid, Bots) = SumFunctionOnSet(f, Bots) - f[from] + paid[from]
  <2>1. \A b \in Bots : f[b] \in Int /\ paid[b] \in Int /\ (b # from => f[b] = paid[b])
    OBVIOUS
  <2> HIDE DEF paid
  <2> QED BY <1>1, <2>1, SumUpdate
<1>4. SumFunctionOnSet(shifted, Bots) = SumFunctionOnSet(paid, Bots) - paid[to] + shifted[to]
  <2>1. \A b \in Bots : shifted[b] \in Int /\ paid[b] \in Int /\ (b # to => paid[b] = shifted[b])
    BY DEF Shift
  <2> HIDE DEF paid, shifted
  <2> QED BY <1>1, <2>1, SumUpdate
<1>5. paid[from] = f[from] - n /\ shifted[to] = paid[to] + n
  BY DEF Shift
<1>6. SumFunctionOnSet(f, Bots) \in Int /\ SumFunctionOnSet(paid, Bots) \in Int
  <2>1. (\A b \in Bots : f[b] \in Int) /\ \A b \in Bots : paid[b] \in Int
    OBVIOUS
  <2> HIDE DEF paid
  <2> QED BY <1>1, <2>1, SumType
<1>7. f[from] \in Int /\ paid[to] \in Int
  BY <1>2
<1> HIDE DEF paid, shifted
<1>8. TotalOf(shifted) = TotalOf(f)
  BY <1>3, <1>4, <1>5, <1>6, <1>7 DEF TotalOf
<1> QED BY <1>2, <1>8 DEF shifted

TradeEvents ==
  [kind : {"trade"}, symbol : Symbols, quantity : Nat, price : Prices, buyer : Bots,
   seller : Bots]

\* The parties of a trade are those of its two orders, which are on different sides.
LEMMA TradeIs ==
  ASSUME FloorInv, NEW id \in entered, NEW k \in 1 .. Len(trades[id])
  PROVE  TradeOf(id, k) \in TradeEvents /\ TradeOf(id, k).symbol = order[id].symbol
<1> DEFINE trade == trades[id][k]
           party(side) == order[CHOOSE i \in {id, trade.maker} : order[i].side = side].client
<1>1. id \in Ids /\ entered \subseteq Ids
  BY NextIdIs DEF FloorInv
<1>2. trades[id] \in Seq(P!Trades) /\ k \in DOMAIN trades[id]
  <2>1. trades[id] \in Seq(P!Trades)
    BY <1>1, NamesAre DEF FloorInv, P!AtomicInv, P!AtomicTypes
  <2> QED BY <2>1
<1>3. trade \in P!Trades
  BY <1>2
<1>4. trade.quantity \in Nat /\ trade.price \in Prices
  BY <1>3, NamesAre
<1>5. trade.maker \in Ids /\ order[trade.maker].side = Opposite(order[id].side)
  BY <1>1, <1>2, NamesAre DEF FloorInv, P!AtomicInv, P!AtomicTrades
<1>6. /\ \A i \in Ids : order[i].side \in Sides /\ order[i].symbol \in Symbols
      /\ \A i \in Ids : order[i].client \in Bots
  BY NamesAre DEF FloorInv, FloorTypes, P!AtomicInv, P!AtomicTypes, P!Readable
<1>7. ASSUME NEW side \in Sides PROVE party(side) \in Bots
  <2> DEFINE i == CHOOSE i \in {id, trade.maker} : order[i].side = side
  <2>1. order[id].side = side \/ order[trade.maker].side = side
    BY <1>1, <1>5, <1>6 DEF Sides, Opposite
  <2>2. \E j \in {id, trade.maker} : order[j].side = side
    BY <2>1
  <2>3. i \in {id, trade.maker}
    BY <2>2
  <2> HIDE DEF i, trade
  <2>4. i \in Ids
    BY <1>1, <1>5, <2>3
  <2> QED BY <1>6, <2>4 DEF i
<1>8. party("BUY") \in Bots /\ party("SELL") \in Bots
  BY <1>7 DEF Sides
<1>9. TradeOf(id, k) = [kind |-> "trade", symbol |-> order[id].symbol, quantity |-> trade.quantity,
                        price |-> trade.price, buyer |-> party("BUY"), seller |-> party("SELL")]
  BY DEF TradeOf
<1> HIDE DEF trade, party
<1> QED BY <1>1, <1>4, <1>6, <1>8, <1>9 DEF TradeEvents

\* The trade a thread is about to settle, or to publish.
LEMMA AtTrade ==
  ASSUME FloorInv, NEW t \in Threads, act[t].at \in {"settle", "publish"}, NEW k,
         k = IF act[t].at = "settle" THEN act[t].settled + 1 ELSE act[t].settled
  PROVE  /\ act[t].job \in entered /\ k \in 1 .. Len(trades[act[t].job])
         /\ act[t].job \in 1 .. nextId - 1
         /\ TradeOf(act[t].job, k) \in TradeEvents
         /\ Len(trades[act[t].job]) \in Nat /\ act[t].settled \in Nat
<1>1. ActsFit /\ Fits(t, act[t], nextId, entered, trades)
  BY DEF FloorInv, ActsFit
<1>2. act[t].settled \in Nat
  BY <1>1 DEF Fits, BotActs, WatcherActs
<1>3. act[t].job \in entered /\ act[t].job \in 1 .. nextId - 1
  BY <1>1, NextIdIs DEF Fits, FloorInv
<1>4. trades[act[t].job] \in Seq(P!Trades)
  BY <1>3, NextIdIs, NamesAre DEF FloorInv, P!AtomicInv, P!AtomicTypes
<1>5. Len(trades[act[t].job]) \in Nat
  BY <1>4
<1>6. k \in 1 .. Len(trades[act[t].job])
  <2>1. CASE act[t].at = "settle"
    <3>1. act[t].settled < Len(trades[act[t].job]) /\ k = act[t].settled + 1
      BY <1>1, <2>1 DEF Fits
    <3> QED BY <1>2, <1>5, <3>1
  <2>2. CASE act[t].at = "publish"
    BY <1>1, <2>2 DEF Fits
  <2> QED BY <2>1, <2>2
<1>7. TradeOf(act[t].job, k) \in TradeEvents
  BY <1>3, <1>6, TradeIs
<1> QED BY <1>2, <1>3, <1>5, <1>6, <1>7

LEMMA SettleIs ==
  ASSUME FloorInv, NEW t \in Threads, Settle(t)
  PROVE  /\ cash' \in [Bots -> Int] /\ TotalOf(cash') = TotalOf(cash)
         /\ \E trade \in TradeEvents :
              /\ trade = TradeOf(act[t].job, act[t].settled + 1)
              /\ cash' = Shift(cash, trade.buyer, trade.seller, trade.quantity * trade.price)
<1> DEFINE trade == TradeOf(act[t].job, act[t].settled + 1)
<1>1. trade \in TradeEvents
  BY AtTrade DEF Settle
<1>2. cash' = Shift(cash, trade.buyer, trade.seller, trade.quantity * trade.price)
  BY DEF Settle
<1> HIDE DEF trade
<1>3. /\ trade.buyer \in Bots /\ trade.seller \in Bots
      /\ trade.quantity \in Nat /\ trade.price \in Prices /\ Prices \subseteq Nat
  BY <1>1, BotAssumption DEF TradeEvents
<1>4. trade.quantity * trade.price \in Int /\ cash \in [Bots -> Int]
  <2>1. \A n, p \in Int : n * p \in Int
    OBVIOUS
  <2>2. trade.quantity \in Nat /\ trade.price \in Nat
    BY <1>3
  <2> QED BY <2>1, <2>2 DEF FloorInv, FloorTypes
<1>5. cash' \in [Bots -> Int] /\ TotalOf(cash') = TotalOf(cash)
  BY <1>2, <1>3, <1>4, ShiftKeepsTotal
<1>6. /\ trade = TradeOf(act[t].job, act[t].settled + 1)
      /\ cash' = Shift(cash, trade.buyer, trade.seller, trade.quantity * trade.price)
  BY <1>2 DEF trade
<1> QED BY <1>1, <1>5, <1>6

LEMMA SettleKeeps ==
  ASSUME FloorInv, NEW t \in Threads, Settle(t)
  PROVE  FloorInv'
<1> DEFINE a == act[t]
           k == a.settled + 1
           d == [a EXCEPT !.at = "publish"]
           c == [d EXCEPT !.settled = k]
<1>1. /\ a.job \in entered /\ k \in 1 .. Len(trades[a.job]) /\ a.settled \in Nat
      /\ a.at = "settle"
  BY AtTrade DEF Settle
<1>2. UNCHANGED <<book, lastPrice, waiting, metrics, bus, running, steps, quote, window>>
  BY DEF Settle
<1>3. ActsFit /\ Fits(t, a, nextId, entered, trades)
  BY DEF FloorInv, ActsFit
<1>4. act' = [act EXCEPT ![t] = c]
  BY DEF Settle, Become
<1>5. /\ c.at = "publish" /\ c.settled = k /\ c.job = a.job /\ c.todo = a.todo
      /\ IF t = Watcher THEN c \in WatcherActs(nextId) ELSE c \in BotActs(t, nextId)
  <2>1. CASE t = Watcher
    <3>1. a \in WatcherActs(nextId)
      BY <1>3, <2>1 DEF Fits
    <3>2. d \in WatcherActs(nextId) /\ d.at = "publish" /\ d.job = a.job /\ d.todo = a.todo
      BY <3>1 DEF WatcherActs, WatcherPlaces
    <3>3. k \in Nat
      BY <1>1
    <3> HIDE DEF d, k
    <3> QED BY <2>1, <3>2, <3>3 DEF WatcherActs
  <2>2. CASE t # Watcher
    <3>1. a \in BotActs(t, nextId)
      BY <1>3, <2>2 DEF Fits
    <3>2. d \in BotActs(t, nextId) /\ d.at = "publish" /\ d.job = a.job /\ d.todo = a.todo
      BY <3>1 DEF BotActs, BotPlaces, AtWork
    <3>3. k \in Nat
      BY <1>1
    <3> HIDE DEF d, k
    <3> QED BY <2>2, <3>2, <3>3 DEF BotActs
  <2> QED BY <2>1, <2>2
<1>6. Fits(t, c, nextId', entered', trades')
  <2>1. a.todo # <<>>
    BY <1>1, <1>3 DEF Fits, AtWork
  <2> HIDE DEF a, c, k
  <2> QED BY <1>1, <1>2, <1>5, <2>1 DEF Fits, AtWork, book
<1>7. P!AtomicInv' /\ Grows
  BY <1>2, SameBooks DEF FloorInv
<1>8. ActsFit'
  <2> HIDE DEF c
  <2> QED BY <1>3, <1>4, <1>6, <1>7, ActsStillFit
<1>9. FloorTypes'
  BY <1>2, SettleIs DEF FloorInv, FloorTypes, book
<1> QED BY <1>7, <1>8, <1>9 DEF FloorInv

LEMMA PublishKeeps ==
  ASSUME FloorInv, NEW t \in Threads, Publish(t)
  PROVE  FloorInv'
<1> DEFINE a == act[t]
           id == a.job
           trade == TradeOf(id, a.settled)
           c == [a EXCEPT !.at = "settle"]
<1>1. /\ id \in entered /\ a.settled \in 1 .. Len(trades[id]) /\ a.settled \in Nat
      /\ a.at = "publish" /\ trade \in TradeEvents /\ id \in 1 .. nextId - 1
      /\ Len(trades[id]) \in Nat
  BY AtTrade DEF Publish
<1>2. UNCHANGED <<book, cash, holding, waiting, metrics, running, steps, window>>
  BY DEF Publish
<1>3. ActsFit /\ Fits(t, a, nextId, entered, trades)
  BY DEF FloorInv, ActsFit
<1>4. \/ act' = [act EXCEPT ![t] = AfterOrder(t)]
      \/ act' = [act EXCEPT ![t] = c] /\ a.settled # Len(trades[id])
  BY DEF Publish, Finished, NotYet, Become
<1>5. P!AtomicInv' /\ Grows /\ nextId \in Nat \ {0}
  BY <1>2, SameBooks, NextIdIs DEF FloorInv
<1>6. Fits(t, AfterOrder(t), nextId', entered', trades')
  BY <1>1, <1>2, <1>3, <1>5, AfterFits DEF AtWork, book
<1>7. ASSUME a.settled # Len(trades[id]) PROVE Fits(t, c, nextId', entered', trades')
  <2>1. /\ c.at = "settle" /\ c.settled = a.settled /\ c.job = a.job /\ c.todo = a.todo
        /\ IF t = Watcher THEN c \in WatcherActs(nextId) ELSE c \in BotActs(t, nextId)
    <3>1. CASE t = Watcher
      <4>1. a \in WatcherActs(nextId)
        BY <1>3, <3>1 DEF Fits
      <4> QED BY <3>1, <4>1 DEF WatcherActs, WatcherPlaces
    <3>2. CASE t # Watcher
      <4>1. a \in BotActs(t, nextId)
        BY <1>3, <3>2 DEF Fits
      <4> QED BY <3>2, <4>1 DEF BotActs, BotPlaces, AtWork
    <3> QED BY <3>1, <3>2
  <2>2. a.todo # <<>>
    BY <1>1, <1>3 DEF Fits, AtWork
  <2>3. a.settled < Len(trades[id])
    BY <1>1, <1>7
  <2> HIDE DEF a, c
  <2> QED BY <1>1, <1>2, <2>1, <2>2, <2>3 DEF Fits, AtWork, book
<1>8. ActsFit'
  <2> HIDE DEF c
  <2> QED BY <1>3, <1>4, <1>5, <1>6, <1>7, ActsStillFit
<1>9. FloorTypes'
  <2>1. lastPrice' \in [Symbols -> Prices]
    <3>1. lastPrice' = [lastPrice EXCEPT ![trade.symbol] = trade.price]
      BY DEF Publish
    <3>2. trade.price \in Prices
      BY <1>1 DEF TradeEvents
    <3>3. lastPrice \in [Symbols -> Prices]
      BY DEF FloorInv, FloorTypes
    <3> HIDE DEF trade
    <3> QED BY <3>1, <3>2, <3>3
  <2>2. quote' \in [MarketMakers -> [symbol : Symbols, BUY : 0 .. nextId' - 1, SELL : 0 .. nextId' - 1]]
    <3>1. UNCHANGED quote \/ Remember(t, id)
      BY DEF Publish, Finished, NotYet
    <3>2. nextId' = nextId /\ order' = order
      BY <1>2 DEF book
    <3> QED BY <1>1, <3>1, <3>2, RememberKeeps
  <2> QED BY <1>2, <2>1, <2>2 DEF FloorInv, FloorTypes, book
<1> QED BY <1>5, <1>8, <1>9 DEF FloorInv

\* A sequence of all the elements of a finite set, each once.
LEMMA SetToSeqIs ==
  ASSUME NEW S, IsFiniteSet(S)
  PROVE  /\ SetToSeq(S) \in Seq(S) /\ Len(SetToSeq(S)) = Cardinality(S)
         /\ \A i, j \in 1 .. Len(SetToSeq(S)) : SetToSeq(S)[i] = SetToSeq(S)[j] => i = j
<1> DEFINE n == Cardinality(S)
           q == SetToSeq(S)
<1>1. n \in Nat /\ ExistsBijection(1 .. n, S)
  BY FS_CardinalityType
<1>2. PICK f \in [1 .. n -> S] : \A i, j \in 1 .. n : f[i] = f[j] => i = j
  BY <1>1 DEF ExistsBijection, Bijection, Injection, IsInjective
<1>3. q \in [1 .. n -> S] /\ \A i, j \in 1 .. n : q[i] = q[j] => i = j
  <2>1. \E g \in [1 .. n -> S] : IsInjective(g)
    BY <1>2 DEF IsInjective
  <2>2. q = CHOOSE g \in [1 .. n -> S] : IsInjective(g)
    BY DEF SetToSeq
  <2> HIDE DEF q
  <2>3. q \in [1 .. n -> S] /\ IsInjective(q)
    BY <2>1, <2>2
  <2> QED BY <2>3 DEF IsInjective
<1> HIDE DEF q, n
<1>4. q \in Seq(S) /\ Len(q) = n
  BY <1>1, <1>3
<1>5. \A i, j \in 1 .. Len(q) : q[i] = q[j] => i = j
  BY <1>3, <1>4
<1> QED BY <1>4, <1>5 DEF q, n

LEMMA WatcherAsleep ==
  ASSUME NEW n \in Nat \ {0}, NEW p \in WatcherPlaces \ AtWork, NEW E, NEW T
  PROVE  /\ [Asleep EXCEPT !.at = p] \in WatcherActs(n)
         /\ [Asleep EXCEPT !.at = p].at = p
         /\ [Asleep EXCEPT !.at = p].settled = 0
         /\ Fits(Watcher, [Asleep EXCEPT !.at = p], n, E, T)
<1> DEFINE a == [Asleep EXCEPT !.at = p]
           A == [at : {"asleep"} \cup WatcherPlaces, todo : Seq(1 .. n - 1), job : 0 .. n - 1,
                 settled : {0}, expired : SUBSET (1 .. n - 1), last : BOOLEAN]
<1>1. Asleep \in A
  <2>1. <<>> \in Seq(1 .. n - 1) /\ 0 \in 0 .. n - 1
    OBVIOUS
  <2> QED BY <2>1 DEF Asleep, NoOrder
<1>2. a \in A /\ a.at = p
  <2> HIDE DEF A
  <2>1. A = [at : {"asleep"} \cup WatcherPlaces, todo : Seq(1 .. n - 1), job : 0 .. n - 1,
                 settled : {0}, expired : SUBSET (1 .. n - 1), last : BOOLEAN]
    BY DEF A
  <2> QED BY <1>1, <2>1
<1> HIDE DEF a
<1>3. a \in WatcherActs(n) /\ a.settled = 0
  BY <1>2 DEF WatcherActs
<1>4. Fits(Watcher, a, n, E, T)
  BY <1>2, <1>3 DEF Fits, AtWork
<1> QED BY <1>2, <1>3, <1>4 DEF a

\* Of a step of the watcher that leaves the books alone.
LEMMA WatcherMoves ==
  ASSUME FloorInv, NEW a, act' = [act EXCEPT ![Watcher] = a],
         Fits(Watcher, a, nextId, entered, trades), UNCHANGED book,
         UNCHANGED <<cash, lastPrice, running, steps, quote>>,
         metrics' \in Metrics, waiting' \subseteq waiting
  PROVE  FloorInv'
<1>1. P!AtomicInv' /\ Grows /\ Watcher \in Threads /\ ActsFit
  BY SameBooks DEF FloorInv, Threads
<1>2. Fits(Watcher, a, nextId', entered', trades')
  BY DEF book
<1>3. ActsFit'
  BY <1>1, <1>2, ActsStillFit
<1>4. FloorTypes'
  BY DEF FloorInv, FloorTypes, book
<1> QED BY <1>1, <1>3, <1>4 DEF FloorInv

LEMMA ScanKeeps ==
  ASSUME FloorInv, NEW stop \in BOOLEAN, NEW S \in SUBSET Symbols, Scan(stop, S)
  PROVE  FloorInv'
<1>1. PICK expired \in SUBSET {id \in waiting : order[id].symbol \in S /\ order[id].expires} :
       LET due == {id \in waiting \ expired : order[id].symbol \in S /\ InBand(order[id])}
           after == IF due \cup expired # {} THEN "release" ELSE IF stop THEN "ended" ELSE "loop"
       IN  /\ waiting' = waiting \ (due \cup expired)
           /\ Become(Watcher, [Asleep EXCEPT !.at = after, !.last = stop,
                                             !.todo = SetToSeq(due), !.expired = expired])
  BY DEF Scan
<1> DEFINE due == {id \in waiting \ expired : order[id].symbol \in S /\ InBand(order[id])}
           after == IF due \cup expired # {} THEN "release" ELSE IF stop THEN "ended" ELSE "loop"
           todo == SetToSeq(due)
           a == [Asleep EXCEPT !.at = after, !.last = stop, !.todo = todo, !.expired = expired]
<1>2. waiting' = waiting \ (due \cup expired) /\ act' = [act EXCEPT ![Watcher] = a]
  BY <1>1 DEF Become
<1>3. expired \subseteq waiting /\ due \subseteq waiting /\ waiting \subseteq 1 .. nextId - 1
  BY DEF FloorInv, FloorTypes
<1> HIDE DEF due
<1>4. todo \in Seq(1 .. nextId - 1)
  <2> DEFINE U == 1 .. nextId - 1
  <2>1. IsFiniteSet(U) /\ due \subseteq U
    BY <1>3, NextIdIs DEF FloorInv
  <2> HIDE DEF U
  <2>2. IsFiniteSet(due)
    BY <2>1, FS_Subset
  <2>3. todo \in Seq(due)
    BY <2>2, SetToSeqIs
  <2> HIDE DEF todo
  <2>4. todo \in Seq(U)
    BY <2>1, <2>3
  <2> QED BY <2>4 DEF U
<1>5. after \in {"release", "ended", "loop"}
  OBVIOUS
<1> HIDE DEF after, todo
<1>6. nextId \in Nat \ {0} /\ after \in WatcherPlaces \ AtWork
  BY <1>5, NextIdIs DEF FloorInv, WatcherPlaces, AtWork
<1> DEFINE c == [Asleep EXCEPT !.at = after]
           d == [c EXCEPT !.last = stop]
           e == [d EXCEPT !.todo = todo]
<1>7. c \in WatcherActs(nextId) /\ c.at = after /\ c.settled = 0
  BY <1>6, WatcherAsleep
<1> HIDE DEF c
<1>8. d \in WatcherActs(nextId) /\ d.at = after /\ d.settled = 0
  BY <1>7 DEF WatcherActs
<1> HIDE DEF d
<1>12. e \in WatcherActs(nextId) /\ e.at = after /\ e.settled = 0
  BY <1>4, <1>8 DEF WatcherActs
<1> HIDE DEF e
<1>13. a \in WatcherActs(nextId) /\ a.at = after /\ a.settled = 0
  <2>1. a = [e EXCEPT !.expired = expired]
    BY DEF c, d, e
  <2> HIDE DEF a
  <2>2. expired \in SUBSET (1 .. nextId - 1)
    BY <1>3
  <2> QED BY <1>12, <2>1, <2>2 DEF WatcherActs
<1> HIDE DEF a
<1>9. Fits(Watcher, a, nextId, entered, trades)
  BY <1>5, <1>13 DEF Fits, AtWork
<1>10. UNCHANGED <<book, cash, holding, lastPrice, metrics, bus, running, steps, quote, window>>
  BY DEF Scan
<1>11. metrics' \in Metrics /\ waiting' \subseteq waiting
  BY <1>2, <1>10 DEF FloorInv, FloorTypes
<1> QED BY <1>2, <1>9, <1>10, <1>11, WatcherMoves

LEMMA ReleaseKeeps ==
  ASSUME FloorInv, Release
  PROVE  FloorInv'
<1> DEFINE w == act[Watcher]
           d == [w EXCEPT !.at = "match"]
           a == [d EXCEPT !.job = Head(w.todo)]
<1>1. w \in WatcherActs(nextId) /\ w.todo # <<>> /\ w.at = "release" /\ w.settled = 0
  <2>1. Fits(Watcher, w, nextId, entered, trades) /\ w.at = "release" /\ w.todo # <<>>
    BY WatcherActIs DEF FloorInv, Release
  <2> QED BY <2>1 DEF Fits
<1>2. act' = [act EXCEPT ![Watcher] = a]
  BY DEF Release, Become
<1>3. Head(w.todo) \in 0 .. nextId - 1
  <2>1. w.todo \in Seq(1 .. nextId - 1)
    BY <1>1 DEF WatcherActs
  <2>2. Head(w.todo) \in 1 .. nextId - 1
    BY <1>1, <2>1, HeadTailProperties
  <2> QED BY <2>2, NextIdIs DEF FloorInv
<1>4. d \in WatcherActs(nextId) /\ d.at = "match" /\ d.todo = w.todo /\ d.settled = 0
  BY <1>1 DEF WatcherActs, WatcherPlaces
<1> DEFINE first1 == Head(w.todo)
<1> HIDE DEF d, first1
<1>5. a \in WatcherActs(nextId) /\ a.at = "match" /\ a.todo = w.todo /\ a.settled = 0
  <2>1. first1 \in 0 .. nextId - 1 /\ a = [d EXCEPT !.job = first1]
    BY <1>3 DEF first1
  <2> HIDE DEF a
  <2> QED BY <1>4, <2>1 DEF WatcherActs
<1>6. Fits(Watcher, a, nextId, entered, trades)
  <2> HIDE DEF a
  <2> QED BY <1>1, <1>5 DEF Fits, AtWork
<1>7. UNCHANGED <<book, cash, holding, lastPrice, waiting, metrics, bus, running, steps, quote, window>>
  BY DEF Release
<1>8. metrics' \in Metrics /\ waiting' \subseteq waiting
  BY <1>7 DEF FloorInv, FloorTypes
<1> HIDE DEF a
<1> QED BY <1>2, <1>6, <1>7, <1>8, WatcherMoves

LEMMA ExpireKeeps ==
  ASSUME FloorInv, Expire
  PROVE  FloorInv'
<1> DEFINE n == Cardinality(act[Watcher].expired)
           place == IF act[Watcher].last THEN "ended" ELSE "loop"
           a == [Asleep EXCEPT !.at = place]
<1>1. act' = [act EXCEPT ![Watcher] = a] /\ metrics' = [metrics EXCEPT !.expired = @ + n]
  BY DEF Expire, Become
<1>2. n \in Nat
  <2>1. act[Watcher].expired \subseteq 1 .. nextId - 1
    BY WatcherActIs DEF FloorInv, WatcherActs
  <2>2. IsFiniteSet(1 .. nextId - 1)
    BY NextIdIs DEF FloorInv
  <2> QED BY <2>1, <2>2, FS_Subset, FS_CardinalityType
<1>3. place \in {"ended", "loop"}
  OBVIOUS
<1>4. nextId \in Nat \ {0}
  BY NextIdIs DEF FloorInv
<1> HIDE DEF n, place
<1>5. place \in WatcherPlaces \ AtWork
  BY <1>3 DEF WatcherPlaces, AtWork
<1>7. Fits(Watcher, a, nextId, entered, trades)
  BY <1>4, <1>5, WatcherAsleep
<1> HIDE DEF a
<1>8. UNCHANGED <<book, cash, holding, lastPrice, waiting, running, steps, quote, window>>
  BY DEF Expire
<1>9. metrics' \in Metrics /\ waiting' \subseteq waiting
  BY <1>1, <1>2, <1>8, MetricsCount DEF FloorInv, FloorTypes
<1> QED BY <1>1, <1>7, <1>8, <1>9, WatcherMoves

-----------------------------------------------------------------------------
\* FloorInv is an invariant of a run.

LEMMA FloorStarts == FloorInit => FloorInv
<1> SUFFICES ASSUME FloorInit PROVE FloorInv
  OBVIOUS
<1>1. P!AtomicInv /\ nextId = 1 /\ \A i \in Ids : order[i].client \in Bots
  <2>1. P!Now!Init
    BY StepsAre DEF FloorInit
  <2>2. P!AtomicInv
    BY <2>1, BooksAssume, P!AtomicStarts
  <2>3. \A i \in Ids : order[i].client \in Bots
    <3>1. P!Now!B!Blank \in P!Now!B!OrderRecords
      <4>1. P!Now!B!OrderRecords = P!OrderRecords
        BY NamesAre DEF P!Now!B!OrderRecords, P!OrderRecords
      <4>2. P!OrderRecords # {}
        BY BooksAssume DEF P!BookAssumption
      <4> QED BY <4>1, <4>2 DEF P!Now!B!Blank
    <3>2. P!Now!B!Blank.client \in Bots
      BY <3>1 DEF P!Now!B!OrderRecords
    <3>3. \A i \in Ids : order[i] = P!Now!B!Blank
      BY <2>1, NamesAre DEF P!Now!Init
    <3> QED BY <3>2, <3>3
  <2> QED BY <2>1, <2>2, <2>3 DEF P!Now!Init
<1>2. FloorTypes
  <2>1. cash \in [Bots -> Int] /\ lastPrice \in [Symbols -> Prices] /\ waiting = {}
    BY BotAssumption DEF FloorInit
  <2>2. metrics \in Metrics /\ running = {} /\ steps \in [Bots -> Nat]
    BY DEF FloorInit, Metrics
  <2>3. quote \in [MarketMakers -> [symbol : Symbols, BUY : 0 .. nextId - 1, SELL : 0 .. nextId - 1]]
    <3> DEFINE s == CHOOSE s \in Symbols : TRUE
    <3>1. s \in Symbols
      BY BotAssumption
    <3>2. quote = [b \in MarketMakers |-> [symbol |-> s, BUY |-> 0, SELL |-> 0]]
      BY DEF FloorInit, NoOrder
    <3>3. 0 \in 0 .. nextId - 1
      BY <1>1
    <3> HIDE DEF s
    <3> QED BY <3>1, <3>2, <3>3
  <2> QED BY <1>1, <2>1, <2>2, <2>3 DEF FloorTypes
<1>3. ActsFit
  <2>1. act = [t \in Threads |-> [Asleep EXCEPT !.at = IF t = Watcher THEN "off" ELSE "asleep"]]
    BY DEF FloorInit
  <2>2. ASSUME NEW t \in Threads PROVE Fits(t, act[t], nextId, entered, trades)
    <3>1. CASE t = Watcher
      <4> DEFINE a == [Asleep EXCEPT !.at = "off"]
      <4>1. act[t] = a
        BY <2>1, <3>1 DEF Threads
      <4>2. "off" \in WatcherPlaces \ AtWork /\ nextId \in Nat \ {0}
        BY <1>1 DEF WatcherPlaces, AtWork
      <4> QED BY <3>1, <4>1, <4>2, WatcherAsleep
    <3>2. CASE t # Watcher
      <4>1. t \in Bots
        BY <3>2 DEF Threads
      <4>2. act[t] = Asleep
        BY <2>1, <3>2 DEF Asleep
      <4>3. nextId \in Nat \ {0}
        BY <1>1
      <4> QED BY <4>1, <4>2, <4>3, AsleepFits
    <3> QED BY <3>1, <3>2
  <2> QED BY <2>1, <2>2 DEF ActsFit
<1> QED BY <1>1, <1>2, <1>3 DEF FloorInv

LEMMA MatchAndSettleKeeps ==
  ASSUME FloorInv, NEW t \in Threads, MatchAndSettle(t)
  PROVE  FloorInv'
BY MatchKeeps, SettleKeeps, PublishKeeps DEF MatchAndSettle

LEMMA ThreadStepKeeps ==
  ASSUME FloorInv, stopWatcher \in BOOLEAN, NEW t \in Threads, ThreadStep(t)
  PROVE  FloorInv'
<1>1. CASE t = Watcher
  <2>1. WatcherStep(stopWatcher)
    BY <1>1 DEF ThreadStep
  <2>2. ASSUME NEW S \in SUBSET Symbols, Scan(stopWatcher, S) PROVE FloorInv'
    BY <2>2, ScanKeeps
  <2>3. CASE Release
    BY <2>3, ReleaseKeeps
  <2>4. CASE Expire
    BY <2>4, ExpireKeeps
  <2>5. CASE MatchAndSettle(Watcher)
    BY <1>1, <2>5, MatchAndSettleKeeps
  <2> QED BY <2>1, <2>2, <2>3, <2>4, <2>5 DEF WatcherStep
<1>2. CASE t # Watcher
  <2>1. t \in Bots /\ BotStep(t)
    BY <1>2 DEF ThreadStep, Threads
  <2>2. CASE t \in NoiseTraders /\ NoiseStep(t)
    BY <2>2, NoiseStepKeeps
  <2>3. CASE t \in MomentumBots /\ MomentumStep(t)
    BY <2>3, MomentumStepKeeps
  <2>4. CASE t \in MarketMakers /\ (CancelBuy(t) \/ CancelSell(t) \/ PostQuotes(t))
    BY <2>4, CancelBuyKeeps, CancelSellKeeps, PostQuotesKeeps
  <2>5. CASE SubmitOrder(t)
    BY <2>1, <2>5, SubmitKeeps
  <2>6. CASE MatchAndSettle(t)
    BY <2>6, MatchAndSettleKeeps
  <2> QED BY <2>1, <2>2, <2>3, <2>4, <2>5, <2>6 DEF BotStep
<1> QED BY <1>1, <1>2

RunInv == FloorInv /\ stopWatcher \in BOOLEAN

\* The main thread leaves the floor alone, but for the watcher it starts and the bots
\* it stops.
LEMMA MainStepIs ==
  ASSUME MainStep
  PROVE  /\ UNCHANGED <<book, cash, holding, lastPrice, waiting, metrics, bus, steps, quote,
                        window, data>>
         /\ running' \subseteq running \/ running' = Bots
         /\ stopWatcher' \in {stopWatcher, TRUE}
         /\ \/ UNCHANGED act
            \/ act' = [act EXCEPT ![Watcher] = [Asleep EXCEPT !.at = "loop"]]
<1> USE DEF Main
<1>1. CASE StartWatcher
  BY <1>1 DEF StartWatcher, Become, recorder
<1>2. CASE StartRecorder
  BY <1>2 DEF StartRecorder
<1>3. CASE StartBots
  BY <1>3 DEF StartBots
<1>4. CASE JoinBot
  BY <1>4 DEF JoinBot
<1>5. CASE StopWatcher
  BY <1>5 DEF StopWatcher
<1>6. CASE JoinWatcher
  BY <1>6 DEF JoinWatcher
<1>7. CASE StopRecorder
  BY <1>7 DEF StopRecorder
<1>8. CASE NotifySampler
  BY <1>8 DEF NotifySampler
<1>9. CASE JoinSampler
  BY <1>9 DEF JoinSampler
<1>10. CASE Flush
  BY <1>10 DEF Flush
<1>11. CASE LastSample
  BY <1>11 DEF LastSample
<1>12. CASE ReadEngine
  BY <1>12 DEF ReadEngine
<1>13. CASE WriteReport
  BY <1>13 DEF WriteReport
<1>14. ASSUME NEW b \in Bots, StopBot(b)
       PROVE  /\ UNCHANGED <<book, cash, holding, lastPrice, waiting, metrics, bus, steps, quote,
                             window, data>>
              /\ running' \subseteq running /\ UNCHANGED <<stopWatcher, act>>
  BY <1>14 DEF StopBot
<1> QED BY <1>1, <1>2, <1>3, <1>4, <1>5, <1>6, <1>7, <1>8, <1>9, <1>10, <1>11, <1>12, <1>13,
          <1>14 DEF MainStep

LEMMA MainStepKeeps ==
  ASSUME RunInv, MainStep
  PROVE  RunInv'
<1>1. /\ UNCHANGED <<book, cash, lastPrice, waiting, metrics, steps, quote>>
      /\ running' \subseteq running \/ running' = Bots
      /\ stopWatcher' \in {stopWatcher, TRUE}
      /\ \/ UNCHANGED act
         \/ act' = [act EXCEPT ![Watcher] = [Asleep EXCEPT !.at = "loop"]]
  BY MainStepIs
<1>2. P!AtomicInv' /\ Grows /\ ActsFit /\ nextId \in Nat \ {0} /\ Watcher \in Threads
  BY <1>1, SameBooks, NextIdIs DEF RunInv, FloorInv, Threads
<1>3. FloorTypes'
  BY <1>1, QuietTypes DEF RunInv, FloorInv, FloorTypes
<1>4. ActsFit'
  <2>1. CASE UNCHANGED act
    BY <1>1, <1>2, <2>1, ActsStay DEF book
  <2>2. CASE act' = [act EXCEPT ![Watcher] = [Asleep EXCEPT !.at = "loop"]]
    <3>1. "loop" \in WatcherPlaces \ AtWork /\ nextId' \in Nat \ {0}
      BY <1>1, <1>2 DEF WatcherPlaces, AtWork, book
    <3>5. Fits(Watcher, [Asleep EXCEPT !.at = "loop"], nextId', entered', trades')
      BY <3>1, WatcherAsleep
    <3> QED BY <1>2, <2>2, <3>5, ActsStillFit
  <2> QED BY <1>1, <2>1, <2>2
<1> QED BY <1>1, <1>2, <1>3, <1>4 DEF RunInv, FloorInv

\* Of a step that leaves the floor alone, but for the bus and the holdings.
LEMMA FloorStays ==
  ASSUME RunInv,
         UNCHANGED <<book, cash, lastPrice, waiting, metrics, running, steps, act, quote, stopWatcher>>
  PROVE  RunInv'
<1>1. P!AtomicInv'
  BY SameBooks DEF RunInv, FloorInv
<1>2. FloorTypes'
  BY DEF RunInv, FloorInv, FloorTypes, book
<1>3. ActsFit'
  BY ActsStay DEF RunInv, FloorInv, book
<1> QED BY <1>1, <1>2, <1>3 DEF RunInv, FloorInv

LEMMA RunStarts == Init => RunInv
BY FloorStarts DEF Init, RunInv

LEMMA RunKeeps == RunInv /\ [Next]_vars => RunInv'
<1> SUFFICES ASSUME RunInv, [Next]_vars PROVE RunInv'
  OBVIOUS
<1>1. CASE Deliver
  BY <1>1, FloorStays DEF Deliver
<1>2. CASE MainStep
  BY <1>2, MainStepKeeps
<1>3. CASE TimesOut
  <2>1. UNCHANGED <<floor, main, stopWatcher>>
    BY <1>3 DEF TimesOut, SamplerGo
  <2> QED BY <2>1, FloorStays DEF floor
<1>4. ASSUME NEW t \in Threads, ThreadStep(t) PROVE RunInv'
  <2>1. FloorInv'
    BY <1>4, ThreadStepKeeps DEF RunInv
  <2>2. UNCHANGED stopWatcher
    BY <1>4 DEF ThreadStep
  <2> QED BY <2>1, <2>2 DEF RunInv
<1>5. CASE UNCHANGED vars
  BY <1>5, FloorStays DEF vars, floor
<1> QED BY <1>1, <1>2, <1>3, <1>4, <1>5 DEF Next

LEMMA RunInvariant == Spec => []RunInv
BY RunStarts, RunKeeps, PTL DEF Spec

-----------------------------------------------------------------------------
\* The samples

AllTheCash == TotalOf([b \in Bots |-> InitialCash])

CashInv == RunInv /\ TotalOf(cash) = AllTheCash /\ sampledCash \subseteq {AllTheCash}

LEMMA ThreadsKeepTheCash ==
  ASSUME RunInv, NEW t \in Threads, ThreadStep(t)
  PROVE  TotalOf(cash') = TotalOf(cash) /\ UNCHANGED sampledCash
<1>1. UNCHANGED sampledCash
  BY DEF ThreadStep, recorder
<1>2. CASE Settle(t)
  BY <1>1, <1>2, SettleIs DEF RunInv
<1>3. CASE ~Settle(t)
  <2>1. UNCHANGED cash
    <3>1. CASE t = Watcher
      <4>1. \/ \E S \in SUBSET Symbols : Scan(stopWatcher, S)
            \/ Release \/ Expire \/ Match(t) \/ Publish(t)
        BY <1>3, <3>1 DEF ThreadStep, WatcherStep, MatchAndSettle
      <4> QED BY <4>1 DEF Scan, Release, Expire, Match, Publish
    <3>2. CASE t # Watcher
      <4>1. \/ NoiseStep(t) \/ MomentumStep(t) \/ CancelBuy(t) \/ CancelSell(t)
            \/ PostQuotes(t) \/ SubmitOrder(t) \/ Match(t) \/ Publish(t)
        BY <1>3, <3>2 DEF ThreadStep, BotStep, MatchAndSettle
      <4> QED BY <4>1 DEF NoiseStep, MomentumStep, CancelBuy, CancelSell, CancelQuote,
                PostQuotes, SubmitOrder, Match, Publish
    <3> QED BY <3>1, <3>2
  <2> QED BY <1>1, <2>1
<1> QED BY <1>2, <1>3

\* The samples of the main thread, and its other steps.
LEMMA MainSamples ==
  ASSUME MainStep
  PROVE  UNCHANGED sampledCash \/ sampledCash' = sampledCash \cup {TotalOf(cash)}
<1> USE DEF recorder
<1>1. ASSUME StartRecorder \/ LastSample
      PROVE  sampledCash' = sampledCash \cup {TotalOf(cash)}
  BY <1>1 DEF StartRecorder, LastSample, TakeSample
<1>2. ASSUME StartWatcher \/ StartBots \/ JoinBot \/ StopWatcher \/ JoinWatcher
      PROVE  UNCHANGED sampledCash
  BY <1>2 DEF StartWatcher, StartBots, JoinBot, StopWatcher, JoinWatcher
<1>3. ASSUME StopRecorder \/ NotifySampler \/ JoinSampler \/ Flush \/ ReadEngine \/ WriteReport
      PROVE  UNCHANGED sampledCash
  BY <1>3 DEF StopRecorder, NotifySampler, JoinSampler, Flush, ReadEngine, WriteReport
<1>4. ASSUME NEW b \in Bots, StopBot(b) PROVE UNCHANGED sampledCash
  BY <1>4 DEF StopBot
<1> QED BY <1>1, <1>2, <1>3, <1>4 DEF MainStep

LEMMA CashStarts == Init => CashInv
<1> SUFFICES ASSUME Init PROVE CashInv
  OBVIOUS
<1>1. cash = [b \in Bots |-> InitialCash] /\ sampledCash = {}
  BY DEF Init, FloorInit
<1> QED BY <1>1, RunStarts DEF CashInv, AllTheCash

LEMMA CashKeeps == CashInv /\ [Next]_vars => CashInv'
<1> SUFFICES ASSUME CashInv, [Next]_vars PROVE CashInv'
  OBVIOUS
<1>1. RunInv /\ RunInv' /\ TotalOf(cash) = AllTheCash /\ sampledCash \subseteq {AllTheCash}
  BY RunKeeps DEF CashInv
<1>2. AllTheCash' = AllTheCash
  BY DEF AllTheCash, TotalOf
<1>3. SUFFICES /\ TotalOf(cash') = TotalOf(cash)
               /\ UNCHANGED sampledCash \/ sampledCash' = sampledCash \cup {TotalOf(cash)}
  <2>1. TotalOf(cash)' = TotalOf(cash')
    BY DEF TotalOf
  <2> QED BY <1>1, <1>2, <1>3, <2>1 DEF CashInv
<1>4. CASE Deliver
  BY <1>4 DEF Deliver
<1>5. CASE MainStep
  BY <1>5, MainStepIs, MainSamples
<1>6. CASE TimesOut
  BY <1>6 DEF TimesOut, SamplerGo, TakeSample, floor
<1>7. ASSUME NEW t \in Threads, ThreadStep(t)
      PROVE  TotalOf(cash') = TotalOf(cash) /\ UNCHANGED sampledCash
  BY <1>1, <1>7, ThreadsKeepTheCash
<1>8. CASE UNCHANGED vars
  BY <1>8 DEF vars, floor, recorder
<1> QED BY <1>4, <1>5, <1>6, <1>7, <1>8 DEF Next

\* However the bots, the watcher, the bus and the sampler interleave, every sample of
\* the recorder finds all the cash there is: none sees a buyer charged and the seller
\* not yet paid.
THEOREM SamplesAddUp == Spec => []SamplesHoldAllTheCash
<1>1. Init => CashInv
  BY CashStarts
<1>2. CashInv /\ [Next]_vars => CashInv'
  BY CashKeeps
<1>3. CashInv => SamplesHoldAllTheCash
  BY DEF CashInv, SamplesHoldAllTheCash, AllTheCash
<1> QED BY <1>1, <1>2, <1>3, PTL DEF Spec

-----------------------------------------------------------------------------
\* The quotes

RestingOf(b) == {id \in Ids : order[id].client = b /\ P!InBooks(id)}

\* A market maker at a with the memory q and the orders R in the books: what is still to
\* be submitted or remembered has a free place in the memory.
QuoteFits(a, q, o, R) ==
  /\ R \subseteq {q.BUY, q.SELL} \cup (IF a.at \in {"settle", "publish"} THEN {a.job} ELSE {})
  /\ \A id \in R : o[id].symbol = q.symbol
  /\ a.at \in {"cancel", "quote"} => q.BUY = NoOrder
  /\ a.at = "quote" => q.SELL = NoOrder
  /\ \A i \in 1 .. Len(a.todo) :
       /\ a.todo[i].kind = "LIMIT" /\ a.todo[i].symbol = q.symbol
       /\ q[a.todo[i].side] = NoOrder
       /\ \A j \in 1 .. Len(a.todo) : a.todo[j].side = a.todo[i].side => j = i

\* A bot matches and settles the order it has just submitted.
JobFits(a, o, n) ==
  a.at \in {"match", "settle", "publish"} =>
    a.job \in 1 .. n - 1 /\ o[a.job] = Head(a.todo)

\* No order of a market maker ever waits: the watcher brings none of them to a book.
Patient(w, W, o, n) ==
  /\ \A id \in W : o[id].client \notin MarketMakers
  /\ \A i \in 1 .. Len(w.todo) : o[w.todo[i]].client \notin MarketMakers
  /\ w.at = "match" => w.job \in 1 .. n - 1 /\ o[w.job].client \notin MarketMakers

QuoteInv ==
  /\ RunInv
  /\ \A b \in MarketMakers : QuoteFits(act[b], quote[b], order, RestingOf(b))
  /\ \A b \in Bots : JobFits(act[b], order, nextId)
  /\ Patient(act[Watcher], waiting, order, nextId)

LEMMA RestingAre ==
  ASSUME FloorInv, NEW b
  PROVE  /\ RestingOf(b) \subseteq entered /\ RestingOf(b) \subseteq 1 .. nextId - 1
         /\ RestingOf(b) = {id \in 1 .. nextId - 1 : order[id].client = b /\ Resting(id)}
         /\ \A id \in RestingOf(b) : id \in Nat \ {0} /\ left[id] \in Nat \ {0}
<1>1. \A s \in Symbols, r \in Ids : P!Member(queue[s], r) => r \in entered
  BY NamesAre DEF FloorInv, P!AtomicInv, P!AtomicBooks
<1>2. entered \subseteq 1 .. nextId - 1 /\ 1 .. nextId - 1 \subseteq Ids
  BY NextIdIs DEF FloorInv
<1>3. \A id \in Ids : P!InBooks(id) => id \in entered
  BY <1>1 DEF P!InBooks
<1>4. \A id \in 1 .. nextId - 1 : Resting(id) <=> P!InBooks(id)
  BY RestingIs DEF Resting
<1>5. ASSUME NEW id \in RestingOf(b) PROVE id \in Nat \ {0} /\ left[id] \in Nat \ {0}
  <2>1. PICK s \in Symbols : P!Member(queue[s], id)
    BY DEF RestingOf, P!InBooks
  <2>2. P!Sound(queue[s], order, left, s)
    BY DEF FloorInv, P!AtomicInv, P!AtomicBooks
  <2>3. id \in Ids /\ left[id] \in Nat
    BY NamesAre DEF FloorInv, P!AtomicInv, P!AtomicTypes, RestingOf
  <2>4. PICK side \in P!Sides, p \in Prices :
          \E k \in DOMAIN queue[s][side][p] : queue[s][side][p][k] = id
    BY <2>1 DEF P!Member, P!Contains
  <2>5. \A k \in DOMAIN queue[s][side][p] : left[queue[s][side][p][k]] > 0
    BY <2>2, <2>4 DEF P!Sound
  <2> QED BY <2>3, <2>4, <2>5 DEF Ids
<1> QED BY <1>2, <1>3, <1>4, <1>5 DEF RestingOf

\* An order in the books is not executed in full.
LEMMA RestingHasMore ==
  ASSUME FloorInv, NEW b, NEW id \in RestingOf(b)
  PROVE  Filled(id) < order[id].quantity
<1>1. id \in 1 .. nextId - 1 /\ id \in Ids /\ left[id] \in Nat \ {0}
  BY RestingAre DEF RestingOf
<1>2. order[id].quantity \in Nat /\ left[id] + P!FilledBy(id) <= order[id].quantity
  BY <1>1 DEF FloorInv, P!AtomicInv, P!AtomicQuantities
<1>3. P!FilledBy(id) \in Nat
  BY <1>1, BooksAssume, NamesAre, P!FilledByType DEF FloorInv, P!AtomicInv
<1>4. Filled(id) = P!FilledBy(id)
  BY FilledIs
<1> QED BY <1>1, <1>2, <1>3, <1>4

-----------------------------------------------------------------------------
\* What the step of one thread leaves to the others.

LEMMA LessRests ==
  ASSUME NEW a, NEW q, NEW o, NEW R, QuoteFits(a, q, o, R), NEW S, S \subseteq R, NEW p,
         \A id \in S : p[id] = o[id]
  PROVE  QuoteFits(a, q, p, S)
BY DEF QuoteFits

\* Of a step that brings no order of b to a book.
LEMMA RestingShrinks ==
  ASSUME FloorInv, FloorInv', NEW b, \A i \in 1 .. nextId - 1 : order'[i] = order[i],
         \A r \in Ids : P!InBooks(r)' => P!InBooks(r) \/ order'[r].client # b
  PROVE  RestingOf(b)' \subseteq RestingOf(b)
<1> SUFFICES ASSUME NEW r \in RestingOf(b)' PROVE r \in RestingOf(b)
  OBVIOUS
<1>1. r \in Ids /\ order'[r].client = b /\ P!InBooks(r)'
  BY DEF RestingOf, Ids
<1>2. P!InBooks(r)
  BY <1>1
<1>3. r \in entered
  BY <1>1, <1>2, NamesAre DEF FloorInv, P!AtomicInv, P!AtomicBooks, P!InBooks
<1>4. order'[r] = order[r]
  BY <1>3, NextIdIs DEF FloorInv
<1> QED BY <1>1, <1>2, <1>4 DEF RestingOf

LEMMA QuotesStand ==
  ASSUME QuoteInv, RunInv', NEW t,
         nextId \in Nat, nextId' \in Nat, nextId <= nextId',
         \A i \in 1 .. nextId - 1 : order'[i] = order[i],
         \A u \in Threads : u # t => act'[u] = act[u],
         \A b \in MarketMakers : b # t =>
           quote'[b] = quote[b] /\ RestingOf(b)' \subseteq RestingOf(b),
         t \in MarketMakers => QuoteFits(act'[t], quote'[t], order', RestingOf(t)'),
         t \in Bots => JobFits(act'[t], order', nextId'),
         Patient(act'[Watcher], waiting', order', nextId')
  PROVE  QuoteInv'
<1>1. ASSUME NEW b \in MarketMakers
      PROVE  QuoteFits(act'[b], quote'[b], order', RestingOf(b)')
  <2>1. CASE b = t
    BY <2>1
  <2>2. CASE b # t
    <3>1. act'[b] = act[b] /\ quote'[b] = quote[b] /\ RestingOf(b)' \subseteq RestingOf(b)
      BY <2>2 DEF Threads, Bots
    <3>2. \A id \in RestingOf(b)' : order'[id] = order[id]
      BY <3>1, RestingAre DEF QuoteInv, RunInv
    <3>3. QuoteFits(act[b], quote[b], order, RestingOf(b))
      BY DEF QuoteInv
    <3> QED BY <3>1, <3>2, <3>3, LessRests
  <2> QED BY <2>1, <2>2
<1>2. ASSUME NEW b \in Bots PROVE JobFits(act'[b], order', nextId')
  <2>1. CASE b = t
    BY <2>1
  <2>2. CASE b # t
    <3>1. act'[b] = act[b] /\ JobFits(act[b], order, nextId)
      BY <2>2 DEF Threads, QuoteInv
    <3> QED BY <3>1 DEF JobFits
  <2> QED BY <2>1, <2>2
<1> QED BY <1>1, <1>2 DEF QuoteInv

LEMMA StillBelow ==
  ASSUME NEW n \in Nat, NEW m \in Nat, n <= m
  PROVE  1 .. n - 1 \subseteq 1 .. m - 1
OBVIOUS

\* The watcher's orders stay what they are.
LEMMA PatientStill ==
  ASSUME QuoteInv, nextId \in Nat, nextId' \in Nat, nextId <= nextId',
         \A i \in 1 .. nextId - 1 : order'[i] = order[i],
         NEW W, W \subseteq waiting
  PROVE  Patient(act[Watcher], W, order', nextId')
<1>1. Patient(act[Watcher], waiting, order, nextId)
  BY DEF QuoteInv
<1>2. waiting \subseteq 1 .. nextId - 1 /\ act[Watcher] \in WatcherActs(nextId)
  BY WatcherActIs DEF QuoteInv, RunInv, FloorInv, FloorTypes
<1>3. \A i \in 1 .. Len(act[Watcher].todo) : act[Watcher].todo[i] \in 1 .. nextId - 1
  <2>1. act[Watcher].todo \in Seq(1 .. nextId - 1)
    BY <1>2 DEF WatcherActs
  <2> QED BY <2>1
<1>4. \A i \in W : i \in 1 .. nextId - 1
  BY <1>2
<1>5. \A i \in 1 .. nextId - 1 : i \in 1 .. nextId' - 1
  BY StillBelow, Zenon
<1>6. \A i \in W : order'[i].client \notin MarketMakers
  BY <1>1, <1>4 DEF Patient
<1>7. \A i \in 1 .. Len(act[Watcher].todo) : order'[act[Watcher].todo[i]].client \notin MarketMakers
  BY <1>1, <1>3 DEF Patient
<1>8. act[Watcher].at = "match" =>
        /\ act[Watcher].job \in 1 .. nextId' - 1
        /\ order'[act[Watcher].job].client \notin MarketMakers
  BY <1>1, <1>5 DEF Patient
<1> QED BY <1>6, <1>7, <1>8 DEF Patient

\* Of a step of bot t after which no order waits that did not.
LEMMA BotQuotes ==
  ASSUME QuoteInv, RunInv', NEW t \in Bots, NEW a, act' = [act EXCEPT ![t] = a],
         nextId \in Nat, nextId' \in Nat, nextId <= nextId',
         \A i \in 1 .. nextId - 1 : order'[i] = order[i],
         UNCHANGED waiting,
         \A b \in MarketMakers : b # t =>
           quote'[b] = quote[b] /\ RestingOf(b)' \subseteq RestingOf(b),
         t \in MarketMakers => QuoteFits(a, quote'[t], order', RestingOf(t)'),
         JobFits(a, order', nextId')
  PROVE  QuoteInv'
<1>1. DOMAIN act = Threads /\ t \in Threads /\ t # Watcher /\ Watcher \in Threads
  BY BotAssumption DEF QuoteInv, RunInv, FloorInv, ActsFit, Threads
<1>2. act'[t] = a /\ \A u \in Threads : u # t => act'[u] = act[u]
  BY <1>1
<1>3. act'[Watcher] = act[Watcher]
  BY <1>1, <1>2
<1>4. Patient(act'[Watcher], waiting', order', nextId')
  BY <1>3, PatientStill
<1> QED BY <1>2, <1>4, QuotesStand

LEMMA BookRests ==
  ASSUME UNCHANGED book
  PROVE  \A b : RestingOf(b)' = RestingOf(b)
BY DEF RestingOf, P!InBooks, P!Member, P!Contains, book

\* Of a step of a bot that leaves the books alone.
LEMMA QuietQuotes ==
  ASSUME QuoteInv, RunInv', NEW t \in Bots, NEW a, act' = [act EXCEPT ![t] = a],
         UNCHANGED <<book, waiting>>,
         \A b \in MarketMakers : b # t => quote'[b] = quote[b],
         t \in MarketMakers => QuoteFits(a, quote'[t], order, RestingOf(t)),
         JobFits(a, order, nextId)
  PROVE  QuoteInv'
<1>1. nextId \in Nat /\ nextId' = nextId /\ order' = order
  BY NextIdIs DEF QuoteInv, RunInv, FloorInv, book
<1>2. \A b : RestingOf(b)' = RestingOf(b)
  BY BookRests
<1>3. /\ t \in MarketMakers => QuoteFits(a, quote'[t], order', RestingOf(t)')
      /\ JobFits(a, order', nextId')
      /\ nextId' \in Nat /\ nextId <= nextId'
  BY <1>1, <1>2
<1>4. \A b \in MarketMakers : b # t =>
        quote'[b] = quote[b] /\ RestingOf(b)' \subseteq RestingOf(b)
  BY <1>2
<1> QED BY <1>1, <1>3, <1>4, BotQuotes

LEMMA OthersSubmit ==
  ASSUME QuoteInv, RunInv', NEW b \in Bots, b \notin MarketMakers, NEW q, WillSubmit(b, q),
         UNCHANGED <<book, waiting, quote>>
  PROVE  QuoteInv'
<1> DEFINE a == IF q = <<>> THEN Asleep ELSE [Asleep EXCEPT !.at = "submit", !.todo = q]
<1>1. act' = [act EXCEPT ![b] = a]
  BY DEF WillSubmit, Become
<1>2. a.at \in {"asleep", "submit"}
  BY DEF Asleep
<1> HIDE DEF a
<1>3. JobFits(a, order, nextId)
  BY <1>2 DEF JobFits
<1> QED BY <1>1, <1>3, QuietQuotes

LEMMA NoiseStepQuotes ==
  ASSUME QuoteInv, RunInv', NEW b \in NoiseTraders, NoiseStep(b)
  PROVE  QuoteInv'
<1>1. b \in Bots /\ b \notin MarketMakers
  BY BotAssumption DEF Bots
<1>2. (\E q : WillSubmit(b, q)) /\ UNCHANGED <<book, waiting, quote>>
  BY DEF NoiseStep
<1> QED BY <1>1, <1>2, OthersSubmit

LEMMA MomentumStepQuotes ==
  ASSUME QuoteInv, RunInv', NEW b \in MomentumBots, MomentumStep(b)
  PROVE  QuoteInv'
<1>1. b \in Bots /\ b \notin MarketMakers
  BY BotAssumption DEF Bots
<1>2. (\E q : WillSubmit(b, q)) /\ UNCHANGED <<book, waiting, quote>>
  BY DEF MomentumStep
<1> QED BY <1>1, <1>2, OthersSubmit

\* Of a cancelled quote nothing is left in the books.
LEMMA CancelQuoteRests ==
  ASSUME QuoteInv, RunInv', NEW b \in MarketMakers, NEW side \in Sides, CancelQuote(b, side)
  PROVE  /\ RestingOf(b)' \subseteq RestingOf(b) \ {quote[b][side]}
         /\ \A c : RestingOf(c)' \subseteq RestingOf(c)
         /\ order' = order /\ nextId' = nextId /\ UNCHANGED waiting
         /\ quote' = [quote EXCEPT ![b][side] = NoOrder]
<1>1. /\ UNCHANGED <<nextId, order>>
      /\ \A r : P!InBooks(r)' => P!InBooks(r)
      /\ Cancellable(b, quote[b][side]) => \A r : P!InBooks(r)' => r # quote[b][side]
  BY CancelQuoteBooks DEF QuoteInv, RunInv, FloorInv
<1>2. \A c : RestingOf(c)' \subseteq RestingOf(c)
  BY <1>1 DEF RestingOf, Ids
<1>3. ASSUME quote[b][side] \in RestingOf(b)' PROVE FALSE
  <2>1. quote[b][side] \in RestingOf(b)
    BY <1>2, <1>3
  <2>2. QuoteFits(act[b], quote[b], order, RestingOf(b))
    BY DEF QuoteInv
  <2>3. order[quote[b][side]].symbol = quote[b].symbol
    BY <2>1, <2>2 DEF QuoteFits
  <2>4. Resting(quote[b][side])
    BY <2>1, RestingAre DEF QuoteInv, RunInv
  <2>5. \A r : P!InBooks(r)' => r # quote[b][side]
    BY <1>1, <2>3, <2>4 DEF Cancellable
  <2> QED BY <1>3, <2>5 DEF RestingOf
<1>4. UNCHANGED waiting /\ quote' = [quote EXCEPT ![b][side] = NoOrder]
  BY DEF CancelQuote
<1> QED BY <1>1, <1>2, <1>3, <1>4

LEMMA CancelQuoteQuotes ==
  ASSUME QuoteInv, RunInv', NEW b \in MarketMakers, NEW side \in Sides, CancelQuote(b, side),
         NEW p \in {"cancel", "quote"}, act' = [act EXCEPT ![b] = [Asleep EXCEPT !.at = p]],
         act[b].at \in {"asleep", "cancel"},
         side = "SELL" => act[b].at = "cancel",
         p = "quote" => side = "SELL", p = "cancel" => side = "BUY"
  PROVE  QuoteInv'
<1> DEFINE a == [Asleep EXCEPT !.at = p]
           R == RestingOf(b)
           q == quote[b]
<1>1. b \in Bots
  BY DEF Bots
<1>2. /\ RestingOf(b)' \subseteq R \ {q[side]}
      /\ \A c : RestingOf(c)' \subseteq RestingOf(c)
      /\ order' = order /\ nextId' = nextId /\ UNCHANGED waiting
      /\ quote' = [quote EXCEPT ![b][side] = NoOrder]
  BY CancelQuoteRests
<1>3. quote \in [MarketMakers -> [symbol : Symbols, BUY : 0 .. nextId - 1, SELL : 0 .. nextId - 1]]
  BY DEF QuoteInv, RunInv, FloorInv, FloorTypes
<1>4. /\ quote'[b].symbol = q.symbol
      /\ side = "BUY" => quote'[b].BUY = NoOrder /\ quote'[b].SELL = q.SELL
      /\ side = "SELL" => quote'[b].SELL = NoOrder /\ quote'[b].BUY = q.BUY
      /\ \A c \in MarketMakers : c # b => quote'[c] = quote[c]
  BY <1>2, <1>3 DEF Sides
<1>5. QuoteFits(act[b], q, order, R)
  BY DEF QuoteInv
<1>6. a.at = p /\ a.todo = <<>>
  BY DEF Asleep
<1>7. R \subseteq {q.BUY, q.SELL} /\ \A id \in R : order[id].symbol = q.symbol
  BY <1>5 DEF QuoteFits
<1>8. side = "SELL" => q.BUY = NoOrder
  BY <1>5 DEF QuoteFits
<1>9. QuoteFits(a, quote'[b], order', RestingOf(b)')
  <2> HIDE DEF a
  <2>1. \A i \in 1 .. Len(a.todo) : FALSE
    BY <1>6
  <2>2. RestingOf(b)' \subseteq {quote'[b].BUY, quote'[b].SELL}
    BY <1>2, <1>4, <1>7 DEF Sides
  <2>3. \A id \in RestingOf(b)' : order'[id].symbol = quote'[b].symbol
    BY <1>2, <1>4, <1>7
  <2>4. /\ p \in {"cancel", "quote"} => quote'[b].BUY = NoOrder
        /\ p = "quote" => quote'[b].SELL = NoOrder
    BY <1>4, <1>8 DEF Sides
  <2> QED BY <1>6, <2>1, <2>2, <2>3, <2>4 DEF QuoteFits
<1>10. JobFits(a, order', nextId')
  BY <1>6 DEF JobFits
<1>11. nextId \in Nat
  BY NextIdIs DEF QuoteInv, RunInv, FloorInv
<1>12. \A c \in MarketMakers : c # b =>
         quote'[c] = quote[c] /\ RestingOf(c)' \subseteq RestingOf(c)
  BY <1>2, <1>4
<1>13. nextId' \in Nat /\ nextId <= nextId' /\ \A i \in 1 .. nextId - 1 : order'[i] = order[i]
  BY <1>2, <1>11
<1> HIDE DEF a, q, R
<1> QED BY <1>1, <1>2, <1>9, <1>10, <1>11, <1>12, <1>13, BotQuotes DEF a

LEMMA CancelBuyQuotes ==
  ASSUME QuoteInv, RunInv', NEW b \in MarketMakers, CancelBuy(b)
  PROVE  QuoteInv'
<1>1. /\ act' = [act EXCEPT ![b] = [Asleep EXCEPT !.at = "cancel"]]
      /\ CancelQuote(b, "BUY") /\ act[b].at = "asleep"
  BY DEF CancelBuy, Become, Wakes
<1> QED BY <1>1, CancelQuoteQuotes DEF Sides

LEMMA CancelSellQuotes ==
  ASSUME QuoteInv, RunInv', NEW b \in MarketMakers, CancelSell(b)
  PROVE  QuoteInv'
<1>1. /\ act' = [act EXCEPT ![b] = [Asleep EXCEPT !.at = "quote"]]
      /\ CancelQuote(b, "SELL") /\ act[b].at = "cancel"
  BY DEF CancelSell, Become
<1> QED BY <1>1, CancelQuoteQuotes DEF Sides

LEMMA PostQuotesQuotes ==
  ASSUME QuoteInv, RunInv', NEW b \in MarketMakers, PostQuotes(b)
  PROVE  QuoteInv'
<1>1. b \in Bots /\ act[b].at = "quote" /\ UNCHANGED <<book, waiting>>
  BY DEF Bots, PostQuotes
<1>2. PICK s \in Symbols, bought \in QuoteSizes, sold \in QuoteSizes,
           bid \in Prices, ask \in Prices :
           /\ quote' = [quote EXCEPT ![b].symbol = s]
           /\ WillSubmit(b, <<Order(b, "BUY", "LIMIT", s, bought, bid, FALSE),
                              Order(b, "SELL", "LIMIT", s, sold, ask, FALSE)>>)
  BY PostQuotesIs
<1> DEFINE o == Order(b, "BUY", "LIMIT", s, bought, bid, FALSE)
           p == Order(b, "SELL", "LIMIT", s, sold, ask, FALSE)
           todo == <<o, p>>
           a == [Asleep EXCEPT !.at = "submit", !.todo = todo]
           R == RestingOf(b)
           q == quote[b]
<1>3. act' = [act EXCEPT ![b] = a]
  BY <1>2 DEF WillSubmit, Become
<1>4. a.at = "submit" /\ a.todo = todo
  BY DEF Asleep
<1>5. /\ o.side = "BUY" /\ o.kind = "LIMIT" /\ o.symbol = s
      /\ p.side = "SELL" /\ p.kind = "LIMIT" /\ p.symbol = s
  BY DEF Order
<1>6. quote \in [MarketMakers -> [symbol : Symbols, BUY : 0 .. nextId - 1, SELL : 0 .. nextId - 1]]
  BY DEF QuoteInv, RunInv, FloorInv, FloorTypes
<1>7. /\ quote'[b].symbol = s /\ quote'[b].BUY = q.BUY /\ quote'[b].SELL = q.SELL
      /\ \A c \in MarketMakers : c # b => quote'[c] = quote[c]
  BY <1>2, <1>6
<1>8. QuoteFits(act[b], q, order, R)
  BY DEF QuoteInv
<1>9. q.BUY = NoOrder /\ q.SELL = NoOrder /\ R = {}
  <2>1. q.BUY = NoOrder /\ q.SELL = NoOrder /\ R \subseteq {NoOrder}
    BY <1>1, <1>8 DEF QuoteFits
  <2>2. NoOrder \notin R
    BY RestingAre DEF NoOrder, QuoteInv, RunInv
  <2> QED BY <2>1, <2>2
<1> HIDE DEF o, p
<1>10. Len(todo) = 2 /\ todo[1] = o /\ todo[2] = p
  OBVIOUS
<1> HIDE DEF a, R, q, todo
<1>11. QuoteFits(a, quote'[b], order, R)
  <2>1. ASSUME NEW i \in 1 .. Len(a.todo)
        PROVE  /\ a.todo[i].kind = "LIMIT" /\ a.todo[i].symbol = quote'[b].symbol
               /\ quote'[b][a.todo[i].side] = NoOrder
               /\ \A j \in 1 .. Len(a.todo) : a.todo[j].side = a.todo[i].side => j = i
    <3>1. i = 1 \/ i = 2
      BY <1>4, <1>10
    <3>2. \A j \in 1 .. Len(a.todo) : j = 1 \/ j = 2
      BY <1>4, <1>10
    <3> QED BY <3>1, <3>2, <1>4, <1>5, <1>7, <1>9, <1>10
  <2> QED BY <2>1, <1>4, <1>9 DEF QuoteFits
<1>12. JobFits(a, order, nextId)
  BY <1>4 DEF JobFits
<1> QED BY <1>1, <1>3, <1>7, <1>11, <1>12, QuietQuotes DEF R

\* What the next place of a bot is after an order: the rest of what it submits.
LEMMA AfterIs ==
  ASSUME ActsFit, NEW t \in Bots, act[t].at \in AtWork
  PROVE  /\ act[t].todo \in Seq(OrdersOf(t)) /\ act[t].todo # <<>>
         /\ Head(act[t].todo) = act[t].todo[1] /\ Head(act[t].todo) \in OrdersOf(t)
         /\ AfterOrder(t).at \in {"asleep", "submit"}
         /\ Len(act[t].todo) \in Nat \ {0}
         /\ Len(AfterOrder(t).todo) = Len(act[t].todo) - 1
         /\ \A i \in 1 .. Len(act[t].todo) - 1 : AfterOrder(t).todo[i] = act[t].todo[i + 1]
<1> DEFINE todo == act[t].todo
           c == AfterOrder(t)
<1>1. act[t] \in BotActs(t, nextId) /\ todo # <<>> /\ t # Watcher
  BY BotActIs
<1>2. todo \in Seq(OrdersOf(t))
  BY <1>1 DEF BotActs
<1>3. c.at \in {"asleep", "submit"} /\ c.todo = Tail(todo)
  BY <1>1 DEF AfterOrder, BotActs
<1> HIDE DEF c, todo
<1>4. /\ Head(todo) = todo[1] /\ Head(todo) \in OrdersOf(t) /\ Len(todo) \in Nat \ {0}
      /\ Len(Tail(todo)) = Len(todo) - 1
      /\ \A i \in 1 .. Len(todo) - 1 : Tail(todo)[i] = todo[i + 1]
  <2>1. todo # <<>>
    BY <1>1 DEF todo
  <2> QED BY <1>2, <2>1, HeadTailProperties
<1> QED BY <1>1, <1>2, <1>3, <1>4 DEF c, todo

\* A market maker that is through with its order and remembers it, if something is left.
LEMMA AfterQuoteFits ==
  ASSUME ActsFit, NEW t \in Bots, act[t].at \in AtWork,
         NEW q, q \in [symbol : Symbols, BUY : Nat, SELL : Nat], NEW o, NEW R, NEW S, NEW p, NEW id,
         QuoteFits(act[t], q, o, R), NEW r,
         S \subseteq {q.BUY, q.SELL, id}, 0 \notin S,
         \A i \in S : p[i].symbol = q.symbol,
         \/ r = [q EXCEPT ![Head(act[t].todo).side] = id]
         \/ r = q /\ id \notin S
  PROVE  QuoteFits(AfterOrder(t), r, p, S)
<1> DEFINE todo == act[t].todo
           c == AfterOrder(t)
           side == Head(todo).side
<1>1. /\ todo \in Seq(OrdersOf(t)) /\ todo # <<>>
      /\ Head(todo) = todo[1] /\ Head(todo) \in OrdersOf(t)
      /\ c.at \in {"asleep", "submit"}
      /\ Len(todo) \in Nat \ {0} /\ Len(c.todo) = Len(todo) - 1
      /\ \A i \in 1 .. Len(todo) - 1 : c.todo[i] = todo[i + 1]
  BY AfterIs
<1>2. \A i \in 1 .. Len(todo) :
        /\ todo[i].kind = "LIMIT" /\ todo[i].symbol = q.symbol /\ q[todo[i].side] = NoOrder
        /\ \A j \in 1 .. Len(todo) : todo[j].side = todo[i].side => j = i
  BY DEF QuoteFits
<1>3. side \in Sides /\ q[side] = NoOrder
  <2>1. 1 \in 1 .. Len(todo)
    BY <1>1
  <2>2. side \in Sides
    BY <1>1 DEF OrdersOf
  <2>3. side = todo[1].side
    BY <1>1
  <2> QED BY <1>2, <2>1, <2>2, <2>3
<1>4. /\ r.symbol = q.symbol
      /\ \A x \in Sides : x # side => r[x] = q[x]
      /\ (r = q /\ id \notin S) \/ r[side] = id
  BY <1>3 DEF Sides
<1>5. S \subseteq {r.BUY, r.SELL}
  <2>1. S \subseteq {q.BUY, q.SELL, id} \ {0}
    OBVIOUS
  <2>2. CASE r = q /\ id \notin S
    BY <2>1, <2>2, <1>3 DEF NoOrder
  <2>3. CASE r[side] = id
    <3>1. CASE side = "BUY"
      BY <1>3, <1>4, <2>1, <2>3, <3>1 DEF Sides, NoOrder
    <3>2. CASE side = "SELL"
      BY <1>3, <1>4, <2>1, <2>3, <3>2 DEF Sides, NoOrder
    <3> QED BY <1>3, <3>1, <3>2 DEF Sides
  <2> QED BY <1>4, <2>2, <2>3
<1>6. ASSUME NEW i \in 1 .. Len(c.todo)
      PROVE  /\ c.todo[i].kind = "LIMIT" /\ c.todo[i].symbol = r.symbol
             /\ r[c.todo[i].side] = NoOrder
             /\ \A j \in 1 .. Len(c.todo) : c.todo[j].side = c.todo[i].side => j = i
  <2> HIDE DEF c, todo
  <2>1. \A j \in 1 .. Len(c.todo) : j + 1 \in 1 .. Len(todo) /\ c.todo[j] = todo[j + 1] /\ j + 1 # 1
    <3> SUFFICES ASSUME NEW j \in 1 .. Len(c.todo)
                 PROVE  j + 1 \in 1 .. Len(todo) /\ c.todo[j] = todo[j + 1] /\ j + 1 # 1
      OBVIOUS
    <3>1. j \in Nat \ {0} /\ j <= Len(todo) - 1 /\ Len(todo) \in Nat
      BY <1>1
    <3>2. c.todo[j] = todo[j + 1]
      BY <1>1, <3>1
    <3> QED BY <3>1, <3>2
  <2>2. c.todo[i] = todo[i + 1] /\ i + 1 \in 1 .. Len(todo)
    BY <2>1
  <2>3. \A j \in 1 .. Len(c.todo) : c.todo[j].side = c.todo[i].side => j = i
    <3> SUFFICES ASSUME NEW j \in 1 .. Len(c.todo), c.todo[j].side = c.todo[i].side PROVE j = i
      OBVIOUS
    <3>1. j + 1 \in 1 .. Len(todo) /\ c.todo[j] = todo[j + 1]
      BY <2>1
    <3>2. todo[j + 1].side = todo[i + 1].side
      BY <2>2, <3>1
    <3>3. j + 1 = i + 1
      BY <1>2, <2>2, <3>1, <3>2, Zenon
    <3>4. i \in Int /\ j \in Int
      OBVIOUS
    <3> QED BY <3>3, <3>4
  <2>4. todo[i + 1].side # todo[1].side
    <3>1. 1 \in 1 .. Len(todo)
      BY <1>1
    <3> QED BY <1>2, <2>1, <2>2, <3>1
  <2>5. todo[i + 1].side \in Sides
    <3>1. todo[i + 1] \in OrdersOf(t)
      BY <1>1, <2>2
    <3> QED BY <3>1 DEF OrdersOf
  <2>6. r[todo[i + 1].side] = q[todo[i + 1].side]
    BY <1>1, <1>4, <2>4, <2>5
  <2> QED BY <1>2, <1>4, <2>2, <2>3, <2>6
<1> HIDE DEF c
<1>7. \A i \in S : p[i].symbol = r.symbol
  BY <1>4
<1> QED BY <1>1, <1>5, <1>6, <1>7 DEF QuoteFits, c

LEMMA QuoteIs ==
  ASSUME FloorInv, NEW b \in MarketMakers
  PROVE  quote[b] \in [symbol : Symbols, BUY : Nat, SELL : Nat]
<1>1. quote[b] \in [symbol : Symbols, BUY : 0 .. nextId - 1, SELL : 0 .. nextId - 1]
  BY DEF FloorInv, FloorTypes
<1> QED BY <1>1

LEMMA SubmitQuotes ==
  ASSUME QuoteInv, RunInv', NEW b \in Bots, SubmitOrder(b)
  PROVE  QuoteInv'
<1> DEFINE n == nextId
           o == Head(act[b].todo)
<1>1. /\ o \in OrdersOf(b)
      /\ nextId' = n + 1 /\ n \in Ids
      /\ order'[n] = o /\ \A i \in Ids : i # n => order'[i] = order[i]
      /\ \A r : P!InBooks(r)' <=> P!InBooks(r)
  BY SubmitIs DEF QuoteInv, RunInv
<1>2. /\ n \in Nat \ {0} /\ 1 .. n - 1 \subseteq Ids /\ ActsFit
      /\ act[b].at \in AtWork /\ act[b].at = "submit"
  BY NextIdIs DEF QuoteInv, RunInv, FloorInv, SubmitOrder, AtWork
<1>3. /\ nextId' \in Nat /\ n <= nextId' /\ n \in Nat
      /\ \A i \in 1 .. n - 1 : order'[i] = order[i]
  <2>1. \A i \in 1 .. n - 1 : i # n
    BY <1>2
  <2> QED BY <1>1, <1>2, <2>1
<1>4. FloorInv /\ FloorInv'
  BY DEF QuoteInv, RunInv
<1>5. \A c : RestingOf(c)' \subseteq RestingOf(c)
  BY <1>1, <1>3, <1>4, RestingShrinks
<1>6. quote' = quote
  BY DEF SubmitOrder
<1> DEFINE d == [act[b] EXCEPT !.at = "match", !.job = n]
<1>7. d.at = "match" /\ d.job = n /\ d.todo = act[b].todo
  BY <1>2, BotActIs DEF BotActs
<1>8. b \in MarketMakers => QuoteFits(act[b], quote[b], order, RestingOf(b))
  BY DEF QuoteInv
<1>9. ASSUME b \in MarketMakers
      PROVE  /\ QuoteFits(AfterOrder(b), quote'[b], order', RestingOf(b)')
             /\ QuoteFits(d, quote'[b], order', RestingOf(b)')
             /\ o.kind = "LIMIT"
  <2> DEFINE S == RestingOf(b)'
  <2>1. S \subseteq RestingOf(b) /\ RestingOf(b) \subseteq 1 .. n - 1 /\ 0 \notin RestingOf(b)
    BY <1>4, <1>5, RestingAre
  <2>2. RestingOf(b) \subseteq {quote[b].BUY, quote[b].SELL}
    BY <1>2, <1>8, <1>9 DEF QuoteFits
  <2>3. \A i \in S : order'[i].symbol = quote[b].symbol
    BY <1>3, <1>8, <1>9, <2>1 DEF QuoteFits
  <2>4. quote[b] \in [symbol : Symbols, BUY : Nat, SELL : Nat]
    BY <1>4, <1>9, QuoteIs
  <2> HIDE DEF S
  <2>5. QuoteFits(AfterOrder(b), quote[b], order', S)
    <3>1. S \subseteq {quote[b].BUY, quote[b].SELL, 0} /\ 0 \notin S
      BY <2>1, <2>2
    <3> QED BY <1>2, <1>8, <1>9, <2>3, <2>4, <3>1, AfterQuoteFits
  <2>6. QuoteFits(d, quote[b], order', S)
    <3> HIDE DEF d
    <3>1. S \subseteq {quote[b].BUY, quote[b].SELL}
      BY <2>1, <2>2
    <3> QED BY <1>7, <1>8, <1>9, <2>3, <3>1 DEF QuoteFits
  <2>7. o.kind = "LIMIT"
    <3>1. 1 \in 1 .. Len(act[b].todo) /\ o = act[b].todo[1]
      BY <1>2, AfterIs
    <3> QED BY <1>8, <1>9, <3>1 DEF QuoteFits
  <2> QED BY <1>6, <2>5, <2>6, <2>7 DEF S
<1>10. JobFits(AfterOrder(b), order', nextId')
  BY <1>2, AfterIs DEF JobFits
<1>11. JobFits(d, order', nextId')
  <2> HIDE DEF d
  <2>1. n \in 1 .. nextId' - 1
    BY <1>1, <1>2
  <2> QED BY <1>1, <1>7, <2>1 DEF JobFits
<1>12. \/ act' = [act EXCEPT ![b] = AfterOrder(b)] /\ UNCHANGED waiting
       \/ /\ act' = [act EXCEPT ![b] = AfterOrder(b)] /\ waiting' = waiting \cup {n}
          /\ ~InBand(o)
       \/ act' = [act EXCEPT ![b] = d] /\ UNCHANGED waiting
  BY DEF SubmitOrder, Reject, Queue, Become
<1>13. \A c \in MarketMakers : c # b =>
         quote'[c] = quote[c] /\ RestingOf(c)' \subseteq RestingOf(c)
  BY <1>5, <1>6
<1>14. CASE act' = [act EXCEPT ![b] = AfterOrder(b)] /\ UNCHANGED waiting
  BY <1>3, <1>9, <1>10, <1>13, <1>14, BotQuotes
<1>15. CASE act' = [act EXCEPT ![b] = d] /\ UNCHANGED waiting
  <2> HIDE DEF d
  <2> QED BY <1>3, <1>9, <1>11, <1>13, <1>15, BotQuotes
<1>16. CASE /\ act' = [act EXCEPT ![b] = AfterOrder(b)] /\ waiting' = waiting \cup {n}
            /\ ~InBand(o)
  <2>1. DOMAIN act = Threads /\ b \in Threads /\ b # Watcher /\ Watcher \in Threads
    BY <1>2, BotAssumption DEF ActsFit, Threads
  <2>2. act'[b] = AfterOrder(b) /\ \A u \in Threads : u # b => act'[u] = act[u]
    BY <1>16, <2>1
  <2>3. order'[n].client \notin MarketMakers
    <3>1. o.kind # "LIMIT"
      BY <1>16 DEF InBand
    <3>2. b \notin MarketMakers
      BY <1>9, <3>1
    <3>3. o.client = b
      BY <1>1 DEF OrdersOf
    <3> QED BY <1>1, <3>2, <3>3
  <2>4. Patient(act[Watcher], waiting, order', nextId')
    BY <1>3, PatientStill
  <2>5. Patient(act'[Watcher], waiting', order', nextId')
    <3>1. act'[Watcher] = act[Watcher]
      BY <2>1, <2>2
    <3> QED BY <1>16, <2>3, <2>4, <3>1 DEF Patient
  <2> QED BY <1>3, <1>9, <1>10, <1>13, <2>2, <2>5, QuotesStand
<1> QED BY <1>12, <1>14, <1>15, <1>16

LEMMA RestingHasMoreNext ==
  (FloorInv => \A b : \A id \in RestingOf(b) : Filled(id) < order[id].quantity)'
<1>1. FloorInv => \A b : \A id \in RestingOf(b) : Filled(id) < order[id].quantity
  BY RestingHasMore
<1> QED BY <1>1, PTL

\* A bot that matches or settles brings its own order to the books, and no other.
LEMMA JobStep ==
  ASSUME QuoteInv, RunInv', NEW t \in Bots, act[t].at \in {"match", "settle", "publish"},
         NEW id, id = act[t].job, order' = order, nextId' = nextId,
         \A r \in Ids : P!InBooks(r)' => P!InBooks(r) \/ r = id
  PROVE  /\ order[id] = Head(act[t].todo) /\ id \in 1 .. nextId - 1
         /\ \A b \in MarketMakers : b # t => RestingOf(b)' \subseteq RestingOf(b)
         /\ t \in MarketMakers =>
              /\ RestingOf(t)' \subseteq {quote[t].BUY, quote[t].SELL, id}
              /\ 0 \notin RestingOf(t)'
              /\ \A i \in RestingOf(t)' : order'[i].symbol = quote[t].symbol
<1>1. FloorInv /\ FloorInv' /\ ActsFit /\ act[t].at \in AtWork
  BY DEF QuoteInv, RunInv, FloorInv, AtWork
<1>2. order[id] = Head(act[t].todo) /\ id \in 1 .. nextId - 1
  BY DEF QuoteInv, JobFits
<1>3. order[id].client = t /\ 1 \in 1 .. Len(act[t].todo) /\ Head(act[t].todo) = act[t].todo[1]
  <2>1. /\ Head(act[t].todo) \in OrdersOf(t) /\ Head(act[t].todo) = act[t].todo[1]
        /\ Len(act[t].todo) \in Nat \ {0}
    BY <1>1, AfterIs
  <2>2. order[id].client = t
    BY <1>2, <2>1 DEF OrdersOf
  <2> QED BY <2>1, <2>2
<1>4. ASSUME NEW b \in MarketMakers, b # t PROVE RestingOf(b)' \subseteq RestingOf(b)
  <2>1. \A r \in Ids : P!InBooks(r)' => P!InBooks(r) \/ order'[r].client # b
    BY <1>3, <1>4
  <2> QED BY <1>1, <2>1, RestingShrinks
<1>5. ASSUME t \in MarketMakers
      PROVE  /\ RestingOf(t)' \subseteq {quote[t].BUY, quote[t].SELL, id}
             /\ 0 \notin RestingOf(t)'
             /\ \A i \in RestingOf(t)' : order'[i].symbol = quote[t].symbol
  <2>1. QuoteFits(act[t], quote[t], order, RestingOf(t))
    BY <1>5 DEF QuoteInv
  <2>2. RestingOf(t)' \subseteq RestingOf(t) \cup {id}
    BY DEF RestingOf, Ids
  <2>3. RestingOf(t) \subseteq {quote[t].BUY, quote[t].SELL, id}
    BY <2>1 DEF QuoteFits
  <2>4. order[id].symbol = quote[t].symbol
    BY <1>2, <1>3, <2>1 DEF QuoteFits
  <2>5. \A i \in RestingOf(t) : order[i].symbol = quote[t].symbol
    BY <2>1 DEF QuoteFits
  <2>6. 0 \notin RestingOf(t)'
    BY DEF RestingOf, Ids
  <2> QED BY <2>2, <2>3, <2>4, <2>5, <2>6
<1> QED BY <1>2, <1>4, <1>5

LEMMA FinishedQuotes ==
  ASSUME QuoteInv, RunInv', NEW t \in Bots, act[t].at \in {"match", "publish"},
         NEW id, id = act[t].job, Finished(t),
         order' = order, nextId' = nextId, UNCHANGED waiting, trades'[id] = trades[id],
         \A r \in Ids : P!InBooks(r)' => P!InBooks(r) \/ r = id
  PROVE  QuoteInv'
<1>1. FloorInv /\ FloorInv' /\ ActsFit /\ act[t].at \in AtWork /\ nextId \in Nat
  BY NextIdIs DEF QuoteInv, RunInv, FloorInv, AtWork
<1>2. /\ order[id] = Head(act[t].todo) /\ id \in 1 .. nextId - 1
      /\ \A b \in MarketMakers : b # t => RestingOf(b)' \subseteq RestingOf(b)
      /\ t \in MarketMakers =>
           /\ RestingOf(t)' \subseteq {quote[t].BUY, quote[t].SELL, id}
           /\ 0 \notin RestingOf(t)'
           /\ \A i \in RestingOf(t)' : order'[i].symbol = quote[t].symbol
  BY JobStep
<1> DEFINE side == order[id].side
<1>3. /\ act' = [act EXCEPT ![t] = AfterOrder(t)]
      /\ quote' = IF t \in MarketMakers /\ Filled(id) < order[id].quantity
                    THEN [quote EXCEPT ![t][side] = id] ELSE quote
  BY DEF Finished, Remember, Become
<1>4. quote \in [MarketMakers -> [symbol : Symbols, BUY : 0 .. nextId - 1, SELL : 0 .. nextId - 1]]
  BY <1>1 DEF FloorInv, FloorTypes
<1>5. \A b \in MarketMakers : b # t =>
        quote'[b] = quote[b] /\ RestingOf(b)' \subseteq RestingOf(b)
  BY <1>2, <1>3, <1>4
<1>6. ASSUME t \in MarketMakers
      PROVE  QuoteFits(AfterOrder(t), quote'[t], order', RestingOf(t)')
  <2> DEFINE S == RestingOf(t)'
             q == quote[t]
             r == quote'[t]
  <2>1. QuoteFits(act[t], q, order, RestingOf(t))
    BY <1>6 DEF QuoteInv
  <2>2. q \in [symbol : Symbols, BUY : Nat, SELL : Nat]
    BY <1>1, <1>6, QuoteIs
  <2>3. \/ r = [q EXCEPT ![Head(act[t].todo).side] = id]
        \/ r = q /\ id \notin S
    <3>1. CASE Filled(id) < order[id].quantity
      <4>1. quote' = [quote EXCEPT ![t][Head(act[t].todo).side] = id]
        BY <1>2, <1>3, <1>6, <3>1
      <4> QED BY <1>4, <1>6, <4>1
    <3>2. CASE ~(Filled(id) < order[id].quantity)
      <4>1. r = q
        BY <1>3, <3>2
      <4>2. ASSUME id \in S PROVE FALSE
        <5>1. (Filled(id) < order[id].quantity)'
          BY <1>1, <4>2, RestingHasMoreNext
        <5>2. Filled(id)' = Filled(id)
          BY DEF Filled
        <5> QED BY <3>2, <5>1, <5>2
      <4> QED BY <4>1, <4>2
    <3> QED BY <3>1, <3>2
  <2>4. S \subseteq {q.BUY, q.SELL, id} /\ 0 \notin S /\ \A i \in S : order'[i].symbol = q.symbol
    BY <1>2, <1>6
  <2> HIDE DEF S, q, r
  <2>5. QuoteFits(AfterOrder(t), r, order', S)
    BY <1>1, <2>1, <2>2, <2>3, <2>4, AfterQuoteFits
  <2> QED BY <2>5 DEF S, r
<1>7. JobFits(AfterOrder(t), order', nextId')
  BY <1>1, AfterIs DEF JobFits
<1>8. nextId' \in Nat /\ nextId <= nextId' /\ \A i \in 1 .. nextId - 1 : order'[i] = order[i]
  BY <1>1
<1> QED BY <1>1, <1>3, <1>5, <1>6, <1>7, <1>8, BotQuotes

\* On the way through the trades of an order, and to them.
LEMMA UnfinishedQuotes ==
  ASSUME QuoteInv, RunInv', NEW t \in Bots, act[t].at \in {"match", "settle", "publish"},
         NEW id, id = act[t].job, UNCHANGED quote,
         NEW a, act' = [act EXCEPT ![t] = a], a.at \in {"settle", "publish"},
         a.todo = act[t].todo, a.job = id,
         order' = order, nextId' = nextId, UNCHANGED waiting,
         \A r \in Ids : P!InBooks(r)' => P!InBooks(r) \/ r = id
  PROVE  QuoteInv'
<1>1. nextId \in Nat
  BY NextIdIs DEF QuoteInv, RunInv, FloorInv
<1>2. /\ order[id] = Head(act[t].todo) /\ id \in 1 .. nextId - 1
      /\ \A b \in MarketMakers : b # t => RestingOf(b)' \subseteq RestingOf(b)
      /\ t \in MarketMakers =>
           /\ RestingOf(t)' \subseteq {quote[t].BUY, quote[t].SELL, id}
           /\ 0 \notin RestingOf(t)'
           /\ \A i \in RestingOf(t)' : order'[i].symbol = quote[t].symbol
  BY JobStep
<1>3. \A b \in MarketMakers : b # t =>
        quote'[b] = quote[b] /\ RestingOf(b)' \subseteq RestingOf(b)
  BY <1>2
<1>4. t \in MarketMakers => QuoteFits(a, quote'[t], order', RestingOf(t)')
  <2>1. t \in MarketMakers => QuoteFits(act[t], quote[t], order, RestingOf(t))
    BY DEF QuoteInv
  <2> QED BY <1>2, <2>1 DEF QuoteFits
<1>5. JobFits(a, order', nextId')
  BY <1>2 DEF JobFits
<1>6. nextId' \in Nat /\ nextId <= nextId' /\ \A i \in 1 .. nextId - 1 : order'[i] = order[i]
  BY <1>1
<1> QED BY <1>1, <1>3, <1>4, <1>5, <1>6, BotQuotes

\* What an EXCEPT at one or two fields of an act leaves.
LEMMA ActEdits ==
  ASSUME ActsFit, NEW t \in Threads, NEW p, NEW k
  PROVE  /\ [act[t] EXCEPT !.at = p].at = p /\ [act[t] EXCEPT !.at = p].todo = act[t].todo
         /\ [act[t] EXCEPT !.at = p].job = act[t].job
         /\ [act[t] EXCEPT !.at = p, !.settled = k].at = p
         /\ [act[t] EXCEPT !.at = p, !.settled = k].todo = act[t].todo
         /\ [act[t] EXCEPT !.at = p, !.settled = k].job = act[t].job
<1>1. CASE t = Watcher
  BY <1>1, WatcherActIs DEF WatcherActs
<1>2. CASE t # Watcher
  BY <1>2, BotActIs DEF BotActs, Threads
<1> QED BY <1>1, <1>2

LEMMA MatchQuotes ==
  ASSUME QuoteInv, RunInv', NEW t \in Bots, Match(t)
  PROVE  QuoteInv'
<1> DEFINE id == act[t].job
<1>1. FloorInv /\ ActsFit /\ t \in Threads /\ act[t].at = "match" /\ Book!Match(id) /\ UNCHANGED waiting
  BY DEF QuoteInv, RunInv, FloorInv, Threads, Match
<1>2. /\ id \in 1 .. nextId - 1 /\ id \notin entered
      /\ nextId' = nextId /\ order' = order
      /\ \A r : P!InBooks(r)' => P!InBooks(r) \/ r = id
  BY <1>1, MatchBooks DEF FloorInv
<1>3. trades[id] = <<>>
  BY <1>1, <1>2, NextIdIs, NamesAre DEF FloorInv, P!AtomicInv, P!AtomicTrades
<1>4. CASE trades'[id] = <<>>
  <2>1. Finished(t)
    BY <1>4 DEF Match
  <2> QED BY <1>1, <1>2, <1>3, <1>4, <2>1, FinishedQuotes
<1>5. CASE trades'[id] # <<>>
  <2>1. UNCHANGED quote /\ act' = [act EXCEPT ![t] = [act[t] EXCEPT !.at = "settle"]]
    BY <1>5 DEF Match, NotYet, Become
  <2> DEFINE a == [act[t] EXCEPT !.at = "settle"]
  <2>2. a.at = "settle" /\ a.todo = act[t].todo /\ a.job = id
    BY <1>1, ActEdits
  <2> HIDE DEF a
  <2> QED BY <1>1, <1>2, <2>1, <2>2, UnfinishedQuotes DEF a
<1> QED BY <1>4, <1>5

LEMMA SettleQuotes ==
  ASSUME QuoteInv, RunInv', NEW t \in Bots, Settle(t)
  PROVE  QuoteInv'
<1> DEFINE a == [act[t] EXCEPT !.at = "publish", !.settled = @ + 1]
<1>1. /\ act[t].at = "settle" /\ UNCHANGED <<book, waiting, quote>>
      /\ act' = [act EXCEPT ![t] = a]
  BY DEF Settle, Become
<1>2. a.at = "publish" /\ a.todo = act[t].todo /\ a.job = act[t].job
  BY ActEdits DEF QuoteInv, RunInv, FloorInv, Threads
<1>3. order' = order /\ nextId' = nextId /\ \A r : P!InBooks(r)' => P!InBooks(r)
  BY <1>1, SameBooks DEF QuoteInv, RunInv, FloorInv, book
<1> HIDE DEF a
<1> QED BY <1>1, <1>2, <1>3, UnfinishedQuotes

LEMMA PublishQuotes ==
  ASSUME QuoteInv, RunInv', NEW t \in Bots, Publish(t)
  PROVE  QuoteInv'
<1> DEFINE id == act[t].job
<1>1. act[t].at = "publish" /\ UNCHANGED <<book, waiting>>
  BY DEF Publish
<1>2. order' = order /\ nextId' = nextId /\ trades' = trades /\ \A r : P!InBooks(r)' => P!InBooks(r)
  BY <1>1, SameBooks DEF QuoteInv, RunInv, FloorInv, book
<1>3. CASE Finished(t)
  BY <1>1, <1>2, <1>3, FinishedQuotes
<1>4. CASE NotYet(t)
  <2>1. UNCHANGED quote /\ act' = [act EXCEPT ![t] = [act[t] EXCEPT !.at = "settle"]]
    BY <1>4 DEF NotYet, Become
  <2> DEFINE a == [act[t] EXCEPT !.at = "settle"]
  <2>2. a.at = "settle" /\ a.todo = act[t].todo /\ a.job = id
    BY ActEdits DEF QuoteInv, RunInv, FloorInv, Threads
  <2> HIDE DEF a
  <2> QED BY <1>1, <1>2, <2>1, <2>2, UnfinishedQuotes DEF a
<1> QED BY <1>3, <1>4 DEF Publish

-----------------------------------------------------------------------------
\* The watcher

LEMMA WatcherQuotes ==
  ASSUME QuoteInv, RunInv', NEW a, act' = [act EXCEPT ![Watcher] = a], quote' = quote,
         order' = order, nextId' = nextId,
         \A b \in MarketMakers : RestingOf(b)' \subseteq RestingOf(b),
         Patient(a, waiting', order, nextId)
  PROVE  QuoteInv'
<1>1. DOMAIN act = Threads /\ Watcher \in Threads /\ Watcher \notin Bots /\ nextId \in Nat
  BY BotAssumption, NextIdIs DEF QuoteInv, RunInv, FloorInv, ActsFit, Threads
<1>2. act'[Watcher] = a /\ \A u \in Threads : u # Watcher => act'[u] = act[u]
  BY <1>1
<1>3. Watcher \notin MarketMakers
  BY <1>1 DEF Bots
<1>4. Patient(act'[Watcher], waiting', order', nextId')
  BY <1>2
<1>5. nextId' \in Nat /\ nextId <= nextId' /\ \A i \in 1 .. nextId - 1 : order'[i] = order[i]
  BY <1>1
<1> QED BY <1>1, <1>2, <1>3, <1>4, <1>5, QuotesStand

LEMMA WatcherIdle ==
  ASSUME NEW a, a.todo = <<>>, a.at # "match", NEW W, W \subseteq waiting, QuoteInv
  PROVE  Patient(a, W, order, nextId)
<1>1. \A i \in 1 .. Len(a.todo) : FALSE
  OBVIOUS
<1> QED BY <1>1 DEF Patient, QuoteInv

LEMMA ScanQuotes ==
  ASSUME QuoteInv, RunInv', NEW stop, NEW S, Scan(stop, S)
  PROVE  QuoteInv'
<1>1. PICK expired \in SUBSET {id \in waiting : order[id].symbol \in S /\ order[id].expires} :
       LET due == {id \in waiting \ expired : order[id].symbol \in S /\ InBand(order[id])}
           after == IF due \cup expired # {} THEN "release" ELSE IF stop THEN "ended" ELSE "loop"
       IN  /\ waiting' = waiting \ (due \cup expired)
           /\ Become(Watcher, [Asleep EXCEPT !.at = after, !.last = stop,
                                             !.todo = SetToSeq(due), !.expired = expired])
  BY DEF Scan
<1> DEFINE due == {id \in waiting \ expired : order[id].symbol \in S /\ InBand(order[id])}
           after == IF due \cup expired # {} THEN "release" ELSE IF stop THEN "ended" ELSE "loop"
           todo == SetToSeq(due)
           a == [Asleep EXCEPT !.at = after, !.last = stop, !.todo = todo, !.expired = expired]
<1>2. waiting' = waiting \ (due \cup expired) /\ act' = [act EXCEPT ![Watcher] = a]
  BY <1>1 DEF Become
<1>3. after # "match"
  OBVIOUS
<1>4. due \subseteq waiting
  OBVIOUS
<1> HIDE DEF after
<1>5. a.todo = todo /\ a.at = after
  BY DEF Asleep
<1> HIDE DEF due
<1>6. \A i \in 1 .. Len(todo) : todo[i] \in waiting
  <2>1. IsFiniteSet(waiting)
    <3>1. waiting \subseteq 1 .. nextId - 1 /\ IsFiniteSet(1 .. nextId - 1)
      BY NextIdIs DEF QuoteInv, RunInv, FloorInv, FloorTypes
    <3> QED BY <3>1, FS_Subset
  <2>2. IsFiniteSet(due)
    BY <1>4, <2>1, FS_Subset
  <2>3. todo \in Seq(due)
    BY <2>2, SetToSeqIs
  <2> HIDE DEF todo
  <2> QED BY <1>4, <2>3
<1> HIDE DEF a, todo
<1>7. Patient(a, waiting', order, nextId)
  BY <1>2, <1>3, <1>5, <1>6 DEF Patient, QuoteInv
<1>8. UNCHANGED <<book, quote>>
  BY DEF Scan
<1> QED BY <1>2, <1>7, <1>8, BookRests, WatcherQuotes DEF book

LEMMA ReleaseQuotes ==
  ASSUME QuoteInv, RunInv', Release
  PROVE  QuoteInv'
<1> DEFINE w == act[Watcher]
           a == [w EXCEPT !.at = "match", !.job = Head(w.todo)]
<1>1. w \in WatcherActs(nextId) /\ w.todo # <<>> /\ act' = [act EXCEPT ![Watcher] = a]
  BY WatcherActIs DEF QuoteInv, RunInv, FloorInv, Release, Become
<1>2. w.todo \in Seq(1 .. nextId - 1)
  BY <1>1 DEF WatcherActs
<1>3. Head(w.todo) = w.todo[1] /\ 1 \in 1 .. Len(w.todo) /\ Head(w.todo) \in 1 .. nextId - 1
  <2> DEFINE t == w.todo
  <2> HIDE DEF t
  <2>1. t \in Seq(1 .. nextId - 1) /\ t # <<>>
    BY <1>1, <1>2 DEF t
  <2>2. Head(t) = t[1] /\ 1 \in 1 .. Len(t)
    BY <2>1
  <2>3. Head(t) \in 1 .. nextId - 1
    BY <2>1, HeadTailProperties
  <2> QED BY <2>2, <2>3 DEF t
<1>4. a.todo = w.todo /\ a.job = Head(w.todo)
  BY <1>1 DEF WatcherActs
<1> HIDE DEF a
<1>5. Patient(w, waiting, order, nextId)
  BY DEF QuoteInv
<1>6. UNCHANGED <<book, waiting, quote>>
  BY DEF Release
<1>7. Patient(a, waiting', order, nextId)
  BY <1>3, <1>4, <1>5, <1>6 DEF Patient
<1> QED BY <1>1, <1>6, <1>7, BookRests, WatcherQuotes DEF book

LEMMA ExpireQuotes ==
  ASSUME QuoteInv, RunInv', Expire
  PROVE  QuoteInv'
<1> DEFINE a == [Asleep EXCEPT !.at = IF act[Watcher].last THEN "ended" ELSE "loop"]
<1>1. act' = [act EXCEPT ![Watcher] = a] /\ UNCHANGED <<book, waiting, quote>>
  BY DEF Expire, Become
<1>2. a.todo = <<>> /\ a.at # "match"
  BY DEF Asleep
<1> HIDE DEF a
<1>3. Patient(a, waiting', order, nextId)
  BY <1>1, <1>2, WatcherIdle
<1> QED BY <1>1, <1>3, BookRests, WatcherQuotes DEF book

\* After an order the watcher has the rest of those it has released.
LEMMA WatcherAfter ==
  ASSUME QuoteInv, act[Watcher].at \in AtWork
  PROVE  Patient(AfterOrder(Watcher), waiting, order, nextId)
<1> DEFINE w == act[Watcher]
           c == AfterOrder(Watcher)
<1>1. w \in WatcherActs(nextId) /\ w.todo # <<>>
  BY WatcherActIs DEF QuoteInv, RunInv, FloorInv
<1>2. w.todo \in Seq(1 .. nextId - 1)
  BY <1>1 DEF WatcherActs
<1>3. c.at = "release" /\ c.todo = Tail(w.todo)
  BY <1>1 DEF AfterOrder, WatcherActs
<1>4. \A i \in 1 .. Len(c.todo) : i + 1 \in 1 .. Len(w.todo) /\ c.todo[i] = w.todo[i + 1]
  <2> DEFINE t == w.todo
  <2> HIDE DEF t, c
  <2>1. t \in Seq(1 .. nextId - 1) /\ t # <<>> /\ c.todo = Tail(t)
    BY <1>1, <1>2, <1>3 DEF t
  <2>2. Len(Tail(t)) = Len(t) - 1 /\ \A i \in 1 .. Len(Tail(t)) : Tail(t)[i] = t[i + 1]
    BY <2>1, HeadTailProperties
  <2>3. Len(t) \in Nat
    BY <2>1
  <2>4. \A i \in 1 .. Len(t) - 1 : i + 1 \in 1 .. Len(t)
    BY <2>3
  <2> QED BY <2>1, <2>2, <2>4 DEF t
<1> HIDE DEF c
<1>5. Patient(w, waiting, order, nextId)
  BY DEF QuoteInv
<1> QED BY <1>3, <1>4, <1>5 DEF Patient, c

LEMMA WatcherSettlesQuotes ==
  ASSUME QuoteInv, RunInv', MatchAndSettle(Watcher)
  PROVE  QuoteInv'
<1> DEFINE w == act[Watcher]
<1>1. FloorInv /\ ActsFit /\ Watcher \in Threads /\ Watcher \notin MarketMakers
  BY BotAssumption DEF QuoteInv, RunInv, FloorInv, Threads, Bots
<1>2. Patient(w, waiting, order, nextId) /\ Patient(AfterOrder(Watcher), waiting, order, nextId)
  <2>1. w.at \in AtWork
    BY DEF MatchAndSettle, Match, Settle, Publish, AtWork
  <2> QED BY <2>1, WatcherAfter DEF QuoteInv
<1>3. ASSUME NEW p \in {"settle", "publish"}, NEW k
      PROVE  /\ Patient([w EXCEPT !.at = p], waiting, order, nextId)
             /\ Patient([w EXCEPT !.at = p, !.settled = k], waiting, order, nextId)
  <2> DEFINE c == [w EXCEPT !.at = p]
             d == [w EXCEPT !.at = p, !.settled = k]
  <2>1. c.at = p /\ c.todo = w.todo /\ d.at = p /\ d.todo = w.todo
    BY <1>1, ActEdits
  <2> HIDE DEF c, d
  <2>2. Patient(c, waiting, order, nextId) /\ Patient(d, waiting, order, nextId)
    BY <1>2, <2>1 DEF Patient
  <2> QED BY <2>2 DEF c, d
<1>4. CASE Match(Watcher)
  <2> DEFINE id == w.job
  <2>1. /\ id \in 1 .. nextId - 1 /\ nextId' = nextId /\ order' = order
        /\ \A r : P!InBooks(r)' => P!InBooks(r) \/ r = id
    BY <1>1, <1>4, MatchBooks DEF Match, FloorInv
  <2>2. order[id].client \notin MarketMakers
    BY <1>2, <1>4 DEF Patient, Match
  <2>3. ASSUME NEW b \in MarketMakers PROVE RestingOf(b)' \subseteq RestingOf(b)
    BY <2>1, <2>2 DEF RestingOf, Ids
  <2>4. /\ quote' = quote /\ UNCHANGED waiting
        /\ \/ act' = [act EXCEPT ![Watcher] = AfterOrder(Watcher)]
           \/ act' = [act EXCEPT ![Watcher] = [w EXCEPT !.at = "settle"]]
    BY <1>1, <1>4 DEF Match, Finished, NotYet, Remember, Become
  <2> QED BY <1>2, <1>3, <2>1, <2>3, <2>4, WatcherQuotes
<1>5. CASE Settle(Watcher)
  <2>1. /\ UNCHANGED <<book, waiting, quote>>
        /\ act' = [act EXCEPT ![Watcher] = [w EXCEPT !.at = "publish", !.settled = @ + 1]]
    BY <1>5 DEF Settle, Become
  <2> DEFINE d == [w EXCEPT !.at = "publish", !.settled = @ + 1]
  <2>2. Patient(d, waiting, order, nextId)
    BY <1>3
  <2> HIDE DEF d
  <2> QED BY <2>1, <2>2, BookRests, WatcherQuotes DEF book, d
<1>6. CASE Publish(Watcher)
  <2>1. /\ UNCHANGED <<book, waiting>> /\ quote' = quote
        /\ \/ act' = [act EXCEPT ![Watcher] = AfterOrder(Watcher)]
           \/ act' = [act EXCEPT ![Watcher] = [w EXCEPT !.at = "settle"]]
    BY <1>1, <1>6 DEF Publish, Finished, NotYet, Remember, Become
  <2> QED BY <1>2, <1>3, <2>1, BookRests, WatcherQuotes DEF book
<1> QED BY <1>4, <1>5, <1>6 DEF MatchAndSettle

-----------------------------------------------------------------------------

LEMMA ThreadStepQuotes ==
  ASSUME QuoteInv, RunInv', NEW t \in Threads, ThreadStep(t)
  PROVE  QuoteInv'
<1>1. CASE t = Watcher
  <2>1. WatcherStep(stopWatcher)
    BY <1>1 DEF ThreadStep
  <2> QED BY <2>1, ScanQuotes, ReleaseQuotes, ExpireQuotes, WatcherSettlesQuotes DEF WatcherStep
<1>2. CASE t # Watcher
  <2>1. t \in Bots /\ BotStep(t)
    BY <1>2 DEF ThreadStep, Threads
  <2>2. CASE t \in NoiseTraders /\ NoiseStep(t)
    BY <2>2, NoiseStepQuotes
  <2>3. CASE t \in MomentumBots /\ MomentumStep(t)
    BY <2>3, MomentumStepQuotes
  <2>4. CASE t \in MarketMakers /\ (CancelBuy(t) \/ CancelSell(t) \/ PostQuotes(t))
    BY <2>4, CancelBuyQuotes, CancelSellQuotes, PostQuotesQuotes
  <2>5. CASE SubmitOrder(t)
    BY <2>1, <2>5, SubmitQuotes
  <2>6. CASE MatchAndSettle(t)
    BY <2>1, <2>6, MatchQuotes, SettleQuotes, PublishQuotes DEF MatchAndSettle
  <2> QED BY <2>1, <2>2, <2>3, <2>4, <2>5, <2>6 DEF BotStep
<1> QED BY <1>1, <1>2

LEMMA QuotesSame ==
  ASSUME QuoteInv, RunInv', UNCHANGED <<book, waiting, act, quote>>
  PROVE  QuoteInv'
<1>1. \A b : RestingOf(b)' = RestingOf(b)
  BY BookRests
<1> QED BY <1>1 DEF QuoteInv, book

LEMMA QuotesStart == Init => QuoteInv
<1> SUFFICES ASSUME Init PROVE QuoteInv
  OBVIOUS
<1>1. RunInv /\ FloorInit
  BY RunStarts DEF Init
<1>2. act = [t \in Threads |-> [Asleep EXCEPT !.at = IF t = Watcher THEN "off" ELSE "asleep"]]
  BY <1>1 DEF FloorInit
<1>3. act[Watcher].at = "off" /\ act[Watcher].todo = <<>> /\ waiting = {}
  BY <1>1, <1>2 DEF Threads, Asleep, FloorInit
<1>4. ASSUME NEW b \in Bots PROVE act[b].at = "asleep" /\ act[b].todo = <<>>
  BY <1>2, BotAssumption DEF Threads, Asleep
<1>5. ASSUME NEW b \in MarketMakers PROVE QuoteFits(act[b], quote[b], order, RestingOf(b))
  <2>1. entered = {}
    BY <1>1, StepsAre DEF FloorInit, P!Now!Init
  <2>2. RestingOf(b) = {}
    BY <1>1, <2>1, RestingAre DEF RunInv
  <2>3. act[b].at = "asleep" /\ act[b].todo = <<>>
    BY <1>4 DEF Bots
  <2>4. \A i \in 1 .. Len(act[b].todo) : FALSE
    BY <2>3
  <2> QED BY <2>2, <2>3, <2>4 DEF QuoteFits
<1>6. \A b \in Bots : JobFits(act[b], order, nextId)
  BY <1>4 DEF JobFits
<1>7. Patient(act[Watcher], waiting, order, nextId)
  <2>1. \A i \in 1 .. Len(act[Watcher].todo) : FALSE
    BY <1>3
  <2> QED BY <1>3, <2>1 DEF Patient
<1> QED BY <1>1, <1>5, <1>6, <1>7 DEF QuoteInv

LEMMA QuotesKeep == QuoteInv /\ [Next]_vars => QuoteInv'
<1> SUFFICES ASSUME QuoteInv, [Next]_vars PROVE QuoteInv'
  OBVIOUS
<1>1. RunInv'
  BY RunKeeps DEF QuoteInv
<1>2. CASE Deliver
  BY <1>1, <1>2, QuotesSame DEF Deliver
<1>3. CASE MainStep
  <2>1. /\ UNCHANGED <<book, waiting, quote>>
        /\ \/ UNCHANGED act
           \/ act' = [act EXCEPT ![Watcher] = [Asleep EXCEPT !.at = "loop"]]
    BY <1>3, MainStepIs
  <2>2. CASE UNCHANGED act
    BY <1>1, <2>1, <2>2, QuotesSame
  <2>3. CASE act' = [act EXCEPT ![Watcher] = [Asleep EXCEPT !.at = "loop"]]
    <3> DEFINE a == [Asleep EXCEPT !.at = "loop"]
    <3>1. a.todo = <<>> /\ a.at # "match"
      BY DEF Asleep
    <3> HIDE DEF a
    <3>2. Patient(a, waiting', order, nextId)
      BY <2>1, <3>1, WatcherIdle
    <3> QED BY <1>1, <2>1, <2>3, <3>2, BookRests, WatcherQuotes DEF book, a
  <2> QED BY <2>1, <2>2, <2>3
<1>4. CASE TimesOut
  BY <1>1, <1>4, QuotesSame DEF TimesOut, SamplerGo, floor
<1>5. ASSUME NEW t \in Threads, ThreadStep(t) PROVE QuoteInv'
  BY <1>1, <1>5, ThreadStepQuotes
<1>6. CASE UNCHANGED vars
  BY <1>1, <1>6, QuotesSame DEF vars, floor
<1> QED BY <1>2, <1>3, <1>4, <1>5, <1>6 DEF Next

\* A market maker never loses sight of an order it has in a book, whoever trades with it
\* in the meantime: what it cancels at the next step is all it has there.
THEOREM NoQuoteIsForgotten == Spec => []QuotesAreRemembered
<1>1. Init => QuoteInv
  BY QuotesStart
<1>2. QuoteInv /\ [Next]_vars => QuoteInv'
  BY QuotesKeep
<1>3. QuoteInv => QuotesAreRemembered
  <2> SUFFICES ASSUME QuoteInv, NEW b \in MarketMakers, act[b].at = "asleep"
               PROVE  {id \in 1 .. nextId - 1 : order[id].client = b /\ Resting(id)}
                        \subseteq {quote[b].BUY, quote[b].SELL}
    BY DEF QuotesAreRemembered
  <2>1. RestingOf(b) = {id \in 1 .. nextId - 1 : order[id].client = b /\ Resting(id)}
    BY RestingAre DEF QuoteInv, RunInv
  <2>2. RestingOf(b) \subseteq {quote[b].BUY, quote[b].SELL}
    BY DEF QuoteInv, QuoteFits
  <2> QED BY <2>1, <2>2
<1> QED BY <1>1, <1>2, <1>3, PTL DEF Spec

=============================================================================
