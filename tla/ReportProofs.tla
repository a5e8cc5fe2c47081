---------------------------- MODULE ReportProofs ----------------------------
(***************************************************************************)
(* What is proved of the report a run of the simulation prints, for any    *)
(* bots, symbols, prices, sizes and bounds: the report adds up.            *)
(*                                                                         *)
(* ReportInv, above RunInv of SimulationProofs, keeps the accounts: cash,  *)
(* volumes and counts are what the recorded events, those on the bus and   *)
(* the work in the threads' hands make of them, and the main thread has    *)
(* waited for that work when it writes the report.                         *)
(***************************************************************************)
EXTENDS SimulationProofs

-----------------------------------------------------------------------------
\* What is told of the orders and the trades

Events == TradeEvents \cup [kind : {"rejected", "queued", "expired"}]

\* What an event is worth to bot b, to the volume of symbol s, to a count of its kind.
EarnedBy(b) ==
  [e \in Events |->
     IF e.kind = "trade"
       THEN (IF e.seller = b THEN e.quantity * e.price ELSE 0)
            - (IF e.buyer = b THEN e.quantity * e.price ELSE 0)
       ELSE 0]

TradedIn(s) == [e \in TradeEvents |-> IF e.symbol = s THEN e.quantity ELSE 0]

Told(kind) == [e \in Events |-> IF e.kind = kind THEN 1 ELSE 0]

LEMMA ValuesAre ==
  /\ \A b : EarnedBy(b) \in [Events -> Int]
  /\ \A s : TradedIn(s) \in [TradeEvents -> Int]
  /\ \A kind : Told(kind) \in [Events -> Int]
<1>1. ASSUME NEW b, NEW e \in Events PROVE EarnedBy(b)[e] \in Int
  <2>1. CASE e.kind = "trade"
    <3>1. e \in TradeEvents
      BY <2>1 DEF Events
    <3>2. e.quantity \in Nat /\ e.price \in Nat
      <4>1. e.quantity \in Nat /\ e.price \in Prices
        BY <3>1 DEF TradeEvents
      <4>2. Prices \subseteq Nat
        BY BotAssumption
      <4> QED BY <4>1, <4>2
    <3>3. \A n, p \in Int : n * p \in Int
      OBVIOUS
    <3> DEFINE m == e.quantity * e.price
    <3>4. m \in Int
      BY <3>2, <3>3
    <3> HIDE DEF m
    <3>5. EarnedBy(b)[e] = (IF e.seller = b THEN m ELSE 0) - (IF e.buyer = b THEN m ELSE 0)
      BY <2>1 DEF EarnedBy, m
    <3> QED BY <3>4, <3>5
  <2>2. CASE e.kind # "trade"
    BY <2>2 DEF EarnedBy
  <2> QED BY <2>1, <2>2
<1>2. ASSUME NEW b PROVE EarnedBy(b) \in [Events -> Int]
  BY <1>1 DEF EarnedBy
<1>3. ASSUME NEW s PROVE TradedIn(s) \in [TradeEvents -> Int]
  BY DEF TradedIn, TradeEvents
<1>4. ASSUME NEW kind PROVE Told(kind) \in [Events -> Int]
  BY DEF Told
<1> QED BY <1>2, <1>3, <1>4

LEMMA GainIs ==
  ASSUME NEW b, NEW q \in Seq(TradeEvents)
  PROVE  Gain(b, q) = SumOver(EarnedBy(b), q)
<1> DEFINE earned(trade) == (IF trade.seller = b THEN trade.quantity * trade.price ELSE 0)
                            - (IF trade.buyer = b THEN trade.quantity * trade.price ELSE 0)
<1>1. \A i \in DOMAIN q : q[i] \in TradeEvents
  OBVIOUS
<1>2. \A e \in TradeEvents : earned(e) = EarnedBy(b)[e]
  BY DEF EarnedBy, Events, TradeEvents
<1>3. Gain(b, q) = SumFunction([i \in DOMAIN q |-> earned(q[i])])
  BY DEF Gain
<1> HIDE DEF earned
<1>4. [i \in DOMAIN q |-> earned(q[i])] = [i \in DOMAIN q |-> EarnedBy(b)[q[i]]]
  BY <1>1, <1>2
<1> QED BY <1>3, <1>4 DEF SumOver

LEMMA VolumeIs ==
  ASSUME NEW s, NEW q \in Seq(TradeEvents)
  PROVE  Volume(s, q) = SumOver(TradedIn(s), q)
<1>1. \A i \in DOMAIN q : q[i] \in TradeEvents
  OBVIOUS
<1>2. [i \in DOMAIN q |-> IF q[i].symbol = s THEN q[i].quantity ELSE 0]
        = [i \in DOMAIN q |-> TradedIn(s)[q[i]]]
  BY <1>1 DEF TradedIn
<1> QED BY <1>2 DEF SumOver, Volume

-----------------------------------------------------------------------------
\* Between settle() and publish() a trade is in the books of the bots and not yet told.

TradeFrom(o, T, id, k) ==
  LET trade == T[id][k]
      party(side) == o[CHOOSE i \in {id, trade.maker} : o[i].side = side].client
  IN  [kind |-> "trade", symbol |-> o[id].symbol, quantity |-> trade.quantity,
       price |-> trade.price, buyer |-> party("BUY"), seller |-> party("SELL")]

OwedAt(b, a, o, T) ==
  IF a.at = "publish" THEN EarnedBy(b)[TradeFrom(o, T, a.job, a.settled)] ELSE 0

Pending(b) == SumFunctionOnSet([t \in Threads |-> OwedAt(b, act[t], order, trades)], Threads)

LEMMA TradeFromIs ==
  ASSUME NEW id, NEW k PROVE TradeOf(id, k) = TradeFrom(order, trades, id, k)
BY DEF TradeOf, TradeFrom

LEMMA OwedType ==
  ASSUME FloorInv, NEW t \in Threads, NEW b
  PROVE  OwedAt(b, act[t], order, trades) \in Int
<1>1. CASE act[t].at = "publish"
  <2>1. TradeOf(act[t].job, act[t].settled) \in TradeEvents
    BY <1>1, AtTrade
  <2>2. TradeFrom(order, trades, act[t].job, act[t].settled) \in Events
    BY <2>1, TradeFromIs DEF Events
  <2>3. EarnedBy(b) \in [Events -> Int]
    BY ValuesAre
  <2> QED BY <1>1, <2>2, <2>3 DEF OwedAt
<1>2. CASE act[t].at # "publish"
  BY <1>2 DEF OwedAt
<1> QED BY <1>1, <1>2

LEMMA OwedTypeNext ==
  (FloorInv => \A t \in Threads : \A b : OwedAt(b, act[t], order, trades) \in Int)'
<1>1. FloorInv => \A t \in Threads : \A b : OwedAt(b, act[t], order, trades) \in Int
  BY OwedType
<1> QED BY <1>1, PTL

\* The trades of the orders in the books stay as they are.
LEMMA TradeSame ==
  ASSUME FloorInv, Grows, \A i \in 1 .. nextId - 1 : order'[i] = order[i],
         NEW id \in entered, NEW k \in 1 .. Len(trades[id])
  PROVE  TradeFrom(order', trades', id, k) = TradeFrom(order, trades, id, k)
<1> DEFINE trade == trades[id][k]
<1>1. id \in Ids /\ id \in 1 .. nextId - 1 /\ entered \subseteq 1 .. nextId - 1
  BY NextIdIs DEF FloorInv
<1>2. trades[id] \in Seq(P!Trades)
  BY <1>1, NamesAre DEF FloorInv, P!AtomicInv, P!AtomicTypes
<1>3. k \in DOMAIN trades[id]
  BY <1>2
<1>4. trade.maker \in entered
  BY <1>1, <1>3, NamesAre DEF FloorInv, P!AtomicInv, P!AtomicTrades
<1>5. trades'[id] = trades[id]
  BY DEF Grows
<1>6. \A i \in {id, trade.maker} : order'[i] = order[i]
  BY <1>1, <1>4
<1>7. trades'[id][k] = trade
  BY <1>5
<1> HIDE DEF trade
<1> DEFINE chosen(side) == CHOOSE i \in {id, trade.maker} : order[i].side = side
           next(side) == CHOOSE i \in {id, trade.maker} : order'[i].side = side
<1>8. ASSUME NEW side \in Sides PROVE chosen(side) = next(side) /\ chosen(side) \in {id, trade.maker}
  <2>1. chosen(side) = next(side)
    BY <1>6
  <2>2. \E i \in {id, trade.maker} : order[i].side = side
    <3>1. order[trade.maker].side = Opposite(order[id].side)
      BY <1>1, <1>3, NamesAre DEF FloorInv, P!AtomicInv, P!AtomicTrades, trade
    <3>2. order[id].side \in Sides
      BY <1>1, NamesAre DEF FloorInv, P!AtomicInv, P!AtomicTypes, P!Readable
    <3> QED BY <3>1, <3>2 DEF Sides, Opposite
  <2> QED BY <2>1, <2>2
<1>9. \A side \in Sides : order'[next(side)].client = order[chosen(side)].client
  <2> HIDE DEF chosen, next
  <2> QED BY <1>6, <1>8
<1>10. TradeFrom(order, trades, id, k)
         = [kind |-> "trade", symbol |-> order[id].symbol, quantity |-> trade.quantity,
            price |-> trade.price, buyer |-> order[chosen("BUY")].client,
            seller |-> order[chosen("SELL")].client]
  BY DEF TradeFrom, trade
<1>11. TradeFrom(order', trades', id, k)
         = [kind |-> "trade", symbol |-> order'[id].symbol, quantity |-> trade.quantity,
            price |-> trade.price, buyer |-> order'[next("BUY")].client,
            seller |-> order'[next("SELL")].client]
  BY <1>7 DEF TradeFrom
<1> HIDE DEF chosen, next
<1>12. "BUY" \in Sides /\ "SELL" \in Sides
  BY DEF Sides
<1> QED BY <1>6, <1>9, <1>10, <1>11, <1>12

LEMMA OwedStays ==
  ASSUME FloorInv, Grows, \A i \in 1 .. nextId - 1 : order'[i] = order[i],
         NEW u \in Threads, NEW b, act'[u] = act[u]
  PROVE  OwedAt(b, act'[u], order', trades') = OwedAt(b, act[u], order, trades)
<1>1. CASE act[u].at = "publish"
  <2>1. act[u].job \in entered /\ act[u].settled \in 1 .. Len(trades[act[u].job])
    BY <1>1, AtTrade
  <2>2. TradeFrom(order', trades', act[u].job, act[u].settled)
          = TradeFrom(order, trades, act[u].job, act[u].settled)
    BY <2>1, TradeSame
  <2> QED BY <1>1, <2>2 DEF OwedAt
<1>2. CASE act[u].at # "publish"
  BY <1>2 DEF OwedAt
<1> QED BY <1>1, <1>2

\* What the step of one thread changes in what is pending.
LEMMA PendingChanges ==
  ASSUME FloorInv, FloorInv', Grows, \A i \in 1 .. nextId - 1 : order'[i] = order[i],
         NEW t \in Threads, \A u \in Threads : u # t => act'[u] = act[u], NEW b
  PROVE  /\ Pending(b)' = Pending(b) - OwedAt(b, act[t], order, trades)
                                     + OwedAt(b, act'[t], order', trades')
         /\ Pending(b) \in Int
<1> DEFINE f == [u \in Threads |-> OwedAt(b, act[u], order, trades)]
           g == [u \in Threads |-> OwedAt(b, act'[u], order', trades')]
<1>1. IsFiniteSet(Threads)
  BY BotAssumption, FS_AddElement DEF Threads
<1>2. \A u \in Threads : f[u] \in Int /\ g[u] \in Int /\ (u # t => f[u] = g[u])
  <2>1. \A u \in Threads : f[u] \in Int
    BY OwedType
  <2>2. \A u \in Threads : g[u] \in Int
    BY OwedTypeNext
  <2>3. \A u \in Threads : u # t => f[u] = g[u]
    BY OwedStays
  <2> QED BY <2>1, <2>2, <2>3
<1>3. /\ Pending(b) = SumFunctionOnSet(f, Threads)
      /\ Pending(b)' = SumFunctionOnSet(g, Threads)
  BY DEF Pending
<1>4. f[t] = OwedAt(b, act[t], order, trades) /\ g[t] = OwedAt(b, act'[t], order', trades')
  OBVIOUS
<1> HIDE DEF f, g
<1>5. SumFunctionOnSet(g, Threads) = SumFunctionOnSet(f, Threads) - f[t] + g[t]
  BY <1>1, <1>2, SumUpdate
<1>6. SumFunctionOnSet(f, Threads) \in Int
  BY <1>1, <1>2, SumType
<1> QED BY <1>3, <1>4, <1>5, <1>6

-----------------------------------------------------------------------------
\* The accounts of a run

\* The money: what is traded is settled, published, delivered and recorded.
MoneyAddsUp ==
  \A b \in Bots : cash[b] = InitialCash + SumOver(EarnedBy(b), rec.trades)
                            + SumOver(EarnedBy(b), bus) + Pending(b)

VolumesAddUp == \A s \in Symbols : data[s].volume = SumOver(TradedIn(s), rec.trades)

EventsAddUp ==
  /\ metrics.rejected = rec.rejected + SumOver(Told("rejected"), bus)
  /\ metrics.expired = rec.expired + SumOver(Told("expired"), bus)

\* The orders a thread has taken and not yet brought to a book, or told of.
OpenAt(t, a) ==
  IF t = Watcher
    THEN Len(a.todo) - (IF a.at \in {"settle", "publish"} THEN 1 ELSE 0) + Cardinality(a.expired)
    ELSE IF a.at = "match" THEN 1 ELSE 0

Opened == SumFunctionOnSet([t \in Threads |-> OpenAt(t, act[t])], Threads)

SubmittedAddUp ==
  metrics.submitted = metrics.accepted + metrics.rejected + metrics.expired
                      + Cardinality(waiting) + Opened

WatcherPauses == {"off", "loop", "ended"}

WatcherIsClean ==
  act[Watcher].at \in WatcherPauses => act[Watcher].todo = <<>> /\ act[Watcher].expired = {}

Early == {"start", "record"}
Late == {"stop recorder", "notify", "join sampler", "flush", "sample", "read", "write", "ended"}

\* Before the recorder is started nothing has happened.
Untouched ==
  /\ running = {} /\ waiting = {} /\ bus = <<>>
  /\ \A b \in Bots : cash[b] = InitialCash /\ act[b].at = "asleep" /\ first[b] = {}
  /\ act[Watcher].at \in WatcherPauses
  /\ sampler = "off"

BotsJoined == \A b \in Bots \ running : act[b].at = "asleep"

\* What the main thread has waited for.
Phases ==
  /\ main \in Early => Untouched
  /\ main \notin Early => subscribed /\ \A b \in Bots : first[b] = {InitialCash}
  /\ main \in {"stop", "join watcher"} \cup Late => BotsJoined
  /\ main \in {"join watcher"} \cup Late => running = {}
  /\ main \in Late => act[Watcher].at = "ended"
  /\ main \in {"sample", "read", "write", "ended"} => bus = <<>>
  /\ main \in {"write", "ended"} => final = [cash |-> cash, waiting |-> Cardinality(waiting)]
  /\ report = IF main = "ended"
                THEN {[trades |-> rec.trades, summary |-> Summary, volume |-> SymbolLines]}
                ELSE {}

ReportTypes ==
  /\ bus \in Seq(Events)
  /\ rec \in [trades : Seq(TradeEvents), rejected : Nat, queued : Nat, expired : Nat]
  /\ data \in [Symbols -> [last : Nat, volume : Nat, notional : Int]]

ReportInv ==
  /\ RunInv /\ ReportTypes
  /\ MoneyAddsUp /\ VolumesAddUp /\ EventsAddUp /\ SubmittedAddUp
  /\ WatcherIsClean /\ Phases

-----------------------------------------------------------------------------
\* The events

LEMMA NoticesAre ==
  ASSUME NEW kind \in {"rejected", "queued", "expired"}, NEW e, e = [kind |-> kind]
  PROVE  /\ e \in Events
         /\ \A b : EarnedBy(b)[e] = 0
         /\ \A k : Told(k)[e] = IF k = kind THEN 1 ELSE 0
<1>1. e \in Events /\ e.kind = kind
  BY DEF Events
<1> QED BY <1>1 DEF EarnedBy, Told

LEMMA TradesAre ==
  ASSUME NEW e \in TradeEvents
  PROVE  /\ e \in Events /\ e.kind = "trade"
         /\ \A k \in {"rejected", "queued", "expired"} : Told(k)[e] = 0
<1>1. e \in Events /\ e.kind = "trade"
  BY DEF Events, TradeEvents
<1> QED BY <1>1 DEF Told

\* An event that is not a trade.
LEMMA OthersAre ==
  ASSUME NEW e \in Events, e.kind # "trade"
  PROVE  /\ e.kind \in {"rejected", "queued", "expired"}
         /\ \A b : EarnedBy(b)[e] = 0
<1>1. e.kind \in {"rejected", "queued", "expired"}
  BY DEF Events, TradeEvents
<1> QED BY <1>1 DEF EarnedBy

LEMMA EarnedIs ==
  ASSUME NEW b \in Bots, NEW e \in TradeEvents, NEW f \in [Bots -> Int]
  PROVE  Shift(f, e.buyer, e.seller, e.quantity * e.price)[b] = f[b] + EarnedBy(b)[e]
<1> DEFINE n == e.quantity * e.price
<1>1. n \in Int
  <2>1. e.quantity \in Nat /\ e.price \in Prices /\ Prices \subseteq Nat
    BY BotAssumption DEF TradeEvents
  <2>2. e.quantity \in Nat /\ e.price \in Nat
    BY <2>1
  <2>3. \A k, p \in Int : k * p \in Int
    OBVIOUS
  <2> QED BY <2>2, <2>3
<1>2. EarnedBy(b)[e] = (IF e.seller = b THEN n ELSE 0) - (IF e.buyer = b THEN n ELSE 0)
  BY TradesAre DEF EarnedBy
<1> HIDE DEF n
<1>3. Shift(f, e.buyer, e.seller, n)[b]
        = f[b] - (IF b = e.buyer THEN n ELSE 0) + (IF b = e.seller THEN n ELSE 0)
  BY DEF Shift
<1>4. f[b] \in Int
  OBVIOUS
<1> QED BY <1>1, <1>2, <1>3, <1>4 DEF n

\* What is published comes after what already is.
LEMMA BusGrows ==
  ASSUME bus \in Seq(Events), NEW e \in Seq(Events), bus' = bus \o e, NEW v \in [Events -> Int]
  PROVE  bus' \in Seq(Events) /\ SumOver(v, bus') = SumOver(v, bus) + SumOver(v, e)
BY SumOverBoth

-----------------------------------------------------------------------------
\* The steps of the threads

LEMMA OneActs ==
  ASSUME ActsFit, NEW t \in Threads, NEW a, Become(t, a)
  PROVE  act'[t] = a /\ \A u \in Threads : u # t => act'[u] = act[u]
BY DEF ActsFit, Become

\* A bot that decides what to do takes nothing but notes.
Plans(b) ==
  \/ NoiseStep(b) \/ MomentumStep(b)
  \/ b \in MarketMakers /\ (CancelBuy(b) \/ CancelSell(b) \/ PostQuotes(b))

LEMMA WillSubmitIs ==
  ASSUME FloorInv, NEW b \in Bots, NEW q, WillSubmit(b, q)
  PROVE  /\ act'[b].at \in {"asleep", "submit"}
         /\ \A u \in Threads : u # b => act'[u] = act[u]
<1> DEFINE a == IF q = <<>> THEN Asleep ELSE [Asleep EXCEPT !.at = "submit", !.todo = q]
<1>1. Become(b, a) /\ b \in Threads /\ ActsFit
  BY DEF WillSubmit, FloorInv, Threads
<1>2. a.at \in {"asleep", "submit"}
  BY DEF Asleep
<1> HIDE DEF a
<1> QED BY <1>1, <1>2, OneActs

LEMMA PlansAre ==
  ASSUME FloorInv, NEW b \in Bots, Plans(b)
  PROVE  /\ act[b].at \in {"asleep", "cancel", "quote"}
         /\ act[b].at = "asleep" => b \in running
         /\ act'[b].at \in {"asleep", "cancel", "quote", "submit"}
         /\ \A u \in Threads : u # b => act'[u] = act[u]
         /\ UNCHANGED <<nextId, order, cash, waiting, metrics, bus, running>> /\ Grows
<1>1. CASE NoiseStep(b)
  <2>1. \E q : WillSubmit(b, q)
    BY <1>1 DEF NoiseStep
  <2>2. act[b].at = "asleep" /\ b \in running /\ UNCHANGED <<book, cash, waiting, metrics, bus, running>>
    BY <1>1 DEF NoiseStep, Wakes
  <2> QED BY <2>1, <2>2, WillSubmitIs, SameBooks DEF FloorInv, book
<1>2. CASE MomentumStep(b)
  <2>1. \E q : WillSubmit(b, q)
    BY <1>2 DEF MomentumStep
  <2>2. act[b].at = "asleep" /\ b \in running /\ UNCHANGED <<book, cash, waiting, metrics, bus, running>>
    BY <1>2 DEF MomentumStep, Wakes
  <2> QED BY <2>1, <2>2, WillSubmitIs, SameBooks DEF FloorInv, book
<1>3. CASE PostQuotes(b)
  <2>1. \E q : WillSubmit(b, q)
    BY <1>3 DEF PostQuotes
  <2>2. act[b].at = "quote" /\ UNCHANGED <<book, cash, waiting, metrics, bus, running>>
    BY <1>3 DEF PostQuotes
  <2> QED BY <2>1, <2>2, WillSubmitIs, SameBooks DEF FloorInv, book
<1>4. CASE CancelBuy(b)
  <2>1. /\ CancelQuote(b, "BUY") /\ act[b].at = "asleep" /\ b \in running
        /\ Become(b, [Asleep EXCEPT !.at = "cancel"])
    BY <1>4 DEF CancelBuy, Wakes
  <2>2. [Asleep EXCEPT !.at = "cancel"].at = "cancel"
    BY DEF Asleep
  <2>3. act'[b].at = "cancel" /\ \A u \in Threads : u # b => act'[u] = act[u]
    BY <2>1, <2>2, OneActs DEF FloorInv, Threads
  <2>4. UNCHANGED <<cash, waiting, metrics, bus, running>>
    BY <2>1 DEF CancelQuote
  <2>5. UNCHANGED <<nextId, order>> /\ Grows
    BY <2>1, CancelQuoteBooks DEF FloorInv
  <2> QED BY <2>1, <2>3, <2>4, <2>5
<1>5. CASE CancelSell(b)
  <2>1. /\ CancelQuote(b, "SELL") /\ act[b].at = "cancel"
        /\ Become(b, [Asleep EXCEPT !.at = "quote"])
    BY <1>5 DEF CancelSell
  <2>2. [Asleep EXCEPT !.at = "quote"].at = "quote"
    BY DEF Asleep
  <2>3. act'[b].at = "quote" /\ \A u \in Threads : u # b => act'[u] = act[u]
    BY <2>1, <2>2, OneActs DEF FloorInv, Threads
  <2>4. UNCHANGED <<cash, waiting, metrics, bus, running>>
    BY <2>1 DEF CancelQuote
  <2>5. UNCHANGED <<nextId, order>> /\ Grows
    BY <2>1, CancelQuoteBooks DEF FloorInv
  <2> QED BY <2>1, <2>3, <2>4, <2>5
<1> QED BY <1>1, <1>2, <1>3, <1>4, <1>5 DEF Plans

\* What is sent, and what that adds to the accounts.
LEMMA NoticesSent ==
  ASSUME bus \in Seq(Events), NEW kind \in {"rejected", "queued", "expired"}, NEW n \in Nat,
         bus' = bus \o [i \in 1 .. n |-> [kind |-> kind]]
  PROVE  /\ bus' \in Seq(Events)
         /\ \A b : SumOver(EarnedBy(b), bus') = SumOver(EarnedBy(b), bus)
         /\ \A k : SumOver(Told(k), bus') = SumOver(Told(k), bus) + IF k = kind THEN n ELSE 0
<1> DEFINE e == [kind |-> kind]
           sent == [i \in 1 .. n |-> e]
<1>1. /\ e \in Events /\ \A b : EarnedBy(b)[e] = 0
      /\ \A k : Told(k)[e] = IF k = kind THEN 1 ELSE 0
  BY NoticesAre
<1> HIDE DEF e
<1>2. bus' = bus \o sent
  BY DEF e
<1>3. sent \in Seq(Events) /\ Len(sent) = n /\ \A i \in 1 .. n : sent[i] = e
  BY <1>1
<1> HIDE DEF sent
<1>4. ASSUME NEW v \in [Events -> Int]
      PROVE  /\ v[e] = 0 => SumOver(v, sent) = 0
             /\ v[e] = 1 => SumOver(v, sent) = n
  BY <1>3, SumOverSame
<1>6. bus' \in Seq(Events)
  BY <1>2, <1>3
<1>5. ASSUME NEW v \in [Events -> Int], NEW m \in {0, 1}, v[e] = m
      PROVE  SumOver(v, bus') = SumOver(v, bus) + IF m = 1 THEN n ELSE 0
  <2>1. SumOver(v, bus') = SumOver(v, bus) + SumOver(v, sent)
    BY <1>2, <1>3, BusGrows
  <2> QED BY <1>4, <1>5, <2>1
<1>7. ASSUME NEW b PROVE SumOver(EarnedBy(b), bus') = SumOver(EarnedBy(b), bus)
  <2> DEFINE v == EarnedBy(b)
  <2>1. v \in [Events -> Int] /\ v[e] = 0
    BY <1>1, ValuesAre
  <2> HIDE DEF v
  <2>2. SumOver(v, bus') = SumOver(v, bus) + IF 0 = 1 THEN n ELSE 0
    BY <1>5, <2>1
  <2>3. SumOver(v, bus) \in Int
    BY <2>1, SumOverIs
  <2>4. SumOver(v, bus') = SumOver(v, bus)
    BY <2>2, <2>3
  <2> QED BY <2>4 DEF v
<1>8. ASSUME NEW k
      PROVE  SumOver(Told(k), bus') = SumOver(Told(k), bus) + IF k = kind THEN n ELSE 0
  <2> DEFINE v == Told(k)
  <2>1. v \in [Events -> Int] /\ v[e] = IF k = kind THEN 1 ELSE 0
    BY <1>1, ValuesAre
  <2> HIDE DEF v
  <2>2. CASE k = kind
    <3>1. SumOver(v, bus') = SumOver(v, bus) + IF 1 = 1 THEN n ELSE 0
      BY <1>5, <2>1, <2>2
    <3> QED BY <2>2, <3>1 DEF v
  <2>3. CASE k # kind
    <3>1. SumOver(v, bus') = SumOver(v, bus) + IF 0 = 1 THEN n ELSE 0
      BY <1>5, <2>1, <2>3
    <3> QED BY <2>3, <3>1 DEF v
  <2> QED BY <2>2, <2>3
<1> QED BY <1>6, <1>7, <1>8

LEMMA NoticeSent ==
  ASSUME bus \in Seq(Events), NEW kind \in {"rejected", "queued", "expired"},
         bus' = bus \o <<[kind |-> kind]>>
  PROVE  /\ bus' \in Seq(Events)
         /\ \A b : SumOver(EarnedBy(b), bus') = SumOver(EarnedBy(b), bus)
         /\ \A k : SumOver(Told(k), bus') = SumOver(Told(k), bus) + IF k = kind THEN 1 ELSE 0
<1> DEFINE e == [kind |-> kind]
<1>1. bus' = bus \o <<e>>
  OBVIOUS
<1> HIDE DEF e
<1>2. <<e>> = [i \in 1 .. 1 |-> e]
  OBVIOUS
<1>3. bus' = bus \o [i \in 1 .. 1 |-> [kind |-> kind]]
  BY <1>1, <1>2 DEF e
<1> QED BY <1>3, NoticesSent

LEMMA TradeSent ==
  ASSUME bus \in Seq(Events), NEW e \in TradeEvents, bus' = bus \o <<e>>
  PROVE  /\ bus' \in Seq(Events)
         /\ \A b : SumOver(EarnedBy(b), bus') = SumOver(EarnedBy(b), bus) + EarnedBy(b)[e]
         /\ \A k \in {"rejected", "queued", "expired"} :
              SumOver(Told(k), bus') = SumOver(Told(k), bus)
<1>1. e \in Events /\ \A k \in {"rejected", "queued", "expired"} : Told(k)[e] = 0
  BY TradesAre
<1>2. <<e>> \in Seq(Events)
  BY <1>1
<1>3. ASSUME NEW v \in [Events -> Int] PROVE SumOver(v, bus') = SumOver(v, bus) + v[e]
  <2>1. SumOver(v, bus') = SumOver(v, bus) + SumOver(v, <<e>>)
    BY <1>2, BusGrows
  <2>2. SumOver(v, <<e>>) = v[e]
    BY <1>1, SumOverOne
  <2> QED BY <2>1, <2>2
<1>4. ASSUME NEW b PROVE SumOver(EarnedBy(b), bus') = SumOver(EarnedBy(b), bus) + EarnedBy(b)[e]
  BY <1>3, ValuesAre
<1>5. ASSUME NEW k \in {"rejected", "queued", "expired"}
      PROVE  SumOver(Told(k), bus') = SumOver(Told(k), bus)
  <2>1. Told(k) \in [Events -> Int] /\ SumOver(Told(k), bus) \in Int /\ Told(k)[e] = 0
    BY <1>1, ValuesAre, SumOverIs
  <2> QED BY <1>3, <2>1
<1> QED BY <1>2, <1>4, <1>5

-----------------------------------------------------------------------------
\* What the step of a thread brings to the accounts

SameBefore == \A i \in 1 .. nextId - 1 : order'[i] = order[i]

SameOthers(t) == \A u \in Threads : u # t => act'[u] = act[u]

MoneyMoves(t) ==
  \A b \in Bots :
    cash'[b] + SumOver(EarnedBy(b), bus) + OwedAt(b, act[t], order, trades)
      = cash[b] + SumOver(EarnedBy(b), bus') + OwedAt(b, act'[t], order', trades')

EventsMove ==
  /\ metrics'.rejected + SumOver(Told("rejected"), bus)
       = metrics.rejected + SumOver(Told("rejected"), bus')
  /\ metrics'.expired + SumOver(Told("expired"), bus)
       = metrics.expired + SumOver(Told("expired"), bus')

Counted(m, w) == m.accepted + m.rejected + m.expired + Cardinality(w)

OrdersMove(t) ==
  metrics'.submitted + Counted(metrics, waiting) + OpenAt(t, act[t])
    = metrics.submitted + Counted(metrics', waiting') + OpenAt(t, act'[t])

Ledger(t) ==
  /\ Grows /\ SameBefore /\ SameOthers(t) /\ bus' \in Seq(Events)
  /\ MoneyMoves(t) /\ EventsMove /\ OrdersMove(t)
  /\ WatcherIsClean' /\ UNCHANGED running

\* Of a step that settles and publishes no trade.
LEMMA MoneyStays ==
  ASSUME NEW t, act[t].at # "publish", act'[t].at # "publish", UNCHANGED cash,
         \A b : SumOver(EarnedBy(b), bus') = SumOver(EarnedBy(b), bus)
  PROVE  MoneyMoves(t)
BY DEF MoneyMoves, OwedAt

LEMMA CountsAre ==
  ASSUME FloorInv
  PROVE  /\ metrics.submitted \in Nat /\ metrics.accepted \in Nat /\ metrics.rejected \in Nat
         /\ metrics.expired \in Nat
         /\ IsFiniteSet(waiting) /\ Cardinality(waiting) \in Nat
         /\ waiting \subseteq 1 .. nextId - 1
<1>1. metrics \in Metrics /\ waiting \subseteq 1 .. nextId - 1
  BY DEF FloorInv, FloorTypes
<1>2. IsFiniteSet(waiting)
  BY <1>1, NextIdIs, FS_Subset DEF FloorInv
<1> QED BY <1>1, <1>2, FS_CardinalityType DEF Metrics

\* The number of orders a thread has open.
LEMMA OpenIs ==
  ASSUME FloorInv, NEW t \in Threads
  PROVE  OpenAt(t, act[t]) \in Int
<1>1. CASE t = Watcher
  <2>1. act[t] \in WatcherActs(nextId)
    BY <1>1, WatcherActIs DEF FloorInv
  <2>2. Len(act[t].todo) \in Nat
    BY <2>1 DEF WatcherActs
  <2>3. Cardinality(act[t].expired) \in Nat
    <3>1. act[t].expired \subseteq 1 .. nextId - 1
      BY <2>1 DEF WatcherActs
    <3> QED BY <3>1, NextIdIs, FS_Subset, FS_CardinalityType DEF FloorInv
  <2>4. OpenAt(t, act[t]) = Len(act[t].todo) - (IF act[t].at \in {"settle", "publish"} THEN 1 ELSE 0)
                            + Cardinality(act[t].expired)
    BY <1>1 DEF OpenAt
  <2> DEFINE n == Len(act[t].todo)
             m == Cardinality(act[t].expired)
             k == IF act[t].at \in {"settle", "publish"} THEN 1 ELSE 0
  <2>5. n \in Int /\ m \in Int /\ k \in Int
    BY <2>2, <2>3
  <2> HIDE DEF n, m, k
  <2>6. n - k + m \in Int
    BY <2>5
  <2> QED BY <2>4, <2>6 DEF n, m, k
<1>2. CASE t # Watcher
  BY <1>2 DEF OpenAt
<1> QED BY <1>1, <1>2

LEMMA OpenIsNext ==
  (FloorInv => \A t \in Threads : OpenAt(t, act[t]) \in Int)'
<1>1. FloorInv => \A t \in Threads : OpenAt(t, act[t]) \in Int
  BY OpenIs
<1> QED BY <1>1, PTL

\* The step of a bot is not one of the watcher.
LEMMA CleanStays ==
  ASSUME WatcherIsClean, NEW b \in Bots, SameOthers(b)
  PROVE  WatcherIsClean'
<1>1. Watcher \in Threads /\ Watcher # b
  BY BotAssumption DEF Threads
<1>2. act'[Watcher] = act[Watcher]
  BY <1>1 DEF SameOthers
<1> QED BY <1>2 DEF WatcherIsClean

LEMMA PlansLedger ==
  ASSUME FloorInv, bus \in Seq(Events), WatcherIsClean, NEW b \in Bots, Plans(b)
  PROVE  Ledger(b)
<1>1. /\ act[b].at \in {"asleep", "cancel", "quote"}
      /\ act'[b].at \in {"asleep", "cancel", "quote", "submit"}
      /\ UNCHANGED <<nextId, order, cash, waiting, metrics, bus, running>> /\ Grows
      /\ SameOthers(b)
  BY PlansAre DEF SameOthers
<1>2. b # Watcher
  BY BotAssumption
<1>3. OpenAt(b, act[b]) = 0 /\ OpenAt(b, act'[b]) = 0
  BY <1>1, <1>2 DEF OpenAt
<1>4. MoneyMoves(b)
  BY <1>1, MoneyStays
<1>5. EventsMove
  BY <1>1 DEF EventsMove
<1>6. OrdersMove(b)
  BY <1>1, <1>3 DEF OrdersMove
<1>7. WatcherIsClean'
  BY <1>1, CleanStays
<1> QED BY <1>1, <1>4, <1>5, <1>6, <1>7 DEF Ledger, SameBefore

Matching == {"match", "settle", "publish"}

\* An order is open no more once it came to the books.
LEMMA OpenAfter ==
  ASSUME FloorInv, NEW t \in Threads, act[t].at \in Matching
  PROVE  /\ OpenAt(t, AfterOrder(t)) = OpenAt(t, act[t]) - (IF act[t].at = "match" THEN 1 ELSE 0)
         /\ AfterOrder(t).at \in {"release", "asleep", "submit"}
<1>1. ActsFit /\ act[t].at \in AtWork
  BY DEF FloorInv, Matching, AtWork
<1>2. CASE t = Watcher
  <2>1. act[t] \in WatcherActs(nextId) /\ act[t].todo # <<>>
    BY <1>1, <1>2, WatcherActIs
  <2> DEFINE todo == act[t].todo
             a == AfterOrder(t)
  <2>2. a.at = "release" /\ a.todo = Tail(todo) /\ a.expired = act[t].expired
    BY <1>2, <2>1 DEF AfterOrder, WatcherActs
  <2>3. todo \in Seq(1 .. nextId - 1)
    BY <2>1 DEF WatcherActs
  <2>4. Len(Tail(todo)) = Len(todo) - 1 /\ Len(todo) \in Nat
    BY <2>1, <2>3, HeadTailProperties
  <2>5. OpenAt(t, a) = Len(a.todo) - 0 + Cardinality(a.expired)
    BY <1>2, <2>2 DEF OpenAt
  <2>6. OpenAt(t, act[t]) = Len(todo) - (IF act[t].at = "match" THEN 0 ELSE 1)
                             + Cardinality(act[t].expired)
    BY <1>2 DEF OpenAt, Matching
  <2>7. Cardinality(act[t].expired) \in Nat
    <3>1. act[t].expired \subseteq 1 .. nextId - 1
      BY <2>1 DEF WatcherActs
    <3> QED BY <3>1, NextIdIs, FS_Subset, FS_CardinalityType DEF FloorInv
  <2> HIDE DEF a
  <2>8. OpenAt(t, a) = OpenAt(t, act[t]) - (IF act[t].at = "match" THEN 1 ELSE 0)
    <3> DEFINE n == Len(todo)
               m == Cardinality(act[t].expired)
    <3>1. OpenAt(t, a) = n - 1 - 0 + m
      BY <2>2, <2>4, <2>5
    <3>2. OpenAt(t, act[t]) = n - (IF act[t].at = "match" THEN 0 ELSE 1) + m
      BY <2>6
    <3>3. n \in Nat /\ m \in Nat
      BY <2>4, <2>7
    <3> HIDE DEF n, m
    <3> QED BY <3>1, <3>2, <3>3
  <2> QED BY <2>2, <2>8 DEF a
<1>3. CASE t # Watcher
  <2>1. t \in Bots
    BY <1>3 DEF Threads
  <2>2. AfterOrder(t).at \in {"asleep", "submit"}
    BY <1>1, <2>1, AfterIs
  <2> HIDE DEF AfterOrder
  <2> QED BY <1>3, <2>2 DEF OpenAt, Matching
<1> QED BY <1>2, <1>3

LEMMA OpenSettling ==
  ASSUME FloorInv, NEW t \in Threads, act[t].at \in Matching, NEW c,
         c.at \in {"settle", "publish"}, c.todo = act[t].todo, c.expired = act[t].expired
  PROVE  OpenAt(t, c) = OpenAt(t, act[t]) - (IF act[t].at = "match" THEN 1 ELSE 0)
<1>1. CASE t = Watcher
  <2>1. act[t] \in WatcherActs(nextId)
    BY <1>1, WatcherActIs DEF FloorInv
  <2> DEFINE n == Len(act[t].todo)
             m == Cardinality(act[t].expired)
  <2>2. n \in Nat
    BY <2>1 DEF WatcherActs
  <2>3. m \in Nat
    <3>1. act[t].expired \subseteq 1 .. nextId - 1
      BY <2>1 DEF WatcherActs
    <3> QED BY <3>1, NextIdIs, FS_Subset, FS_CardinalityType DEF FloorInv
  <2>4. OpenAt(t, c) = n - 1 + m
    BY <1>1 DEF OpenAt
  <2>5. OpenAt(t, act[t]) = n - (IF act[t].at = "match" THEN 0 ELSE 1) + m
    BY <1>1 DEF OpenAt, Matching
  <2> HIDE DEF n, m
  <2> QED BY <2>2, <2>3, <2>4, <2>5
<1>2. CASE t # Watcher
  BY <1>2 DEF OpenAt, Matching
<1> QED BY <1>1, <1>2

LEMMA CleanWorks ==
  ASSUME WatcherIsClean, NEW t \in Threads, SameOthers(t), act'[t].at \notin WatcherPauses
  PROVE  WatcherIsClean'
<1>1. t # Watcher => act'[Watcher] = act[Watcher]
  BY DEF SameOthers, Threads
<1> QED BY <1>1 DEF WatcherIsClean

LEMMA MetricsAre ==
  ASSUME metrics \in Metrics, NEW n \in Nat
  PROVE  /\ metrics' = [metrics EXCEPT !.submitted = @ + 1, !.rejected = @ + 1] =>
              /\ metrics'.submitted = metrics.submitted + 1
              /\ metrics'.rejected = metrics.rejected + 1
              /\ metrics'.accepted = metrics.accepted /\ metrics'.expired = metrics.expired
         /\ metrics' = [metrics EXCEPT !.submitted = @ + 1, !.queued = @ + 1] =>
              /\ metrics'.submitted = metrics.submitted + 1
              /\ metrics'.rejected = metrics.rejected
              /\ metrics'.accepted = metrics.accepted /\ metrics'.expired = metrics.expired
         /\ metrics' = [metrics EXCEPT !.submitted = @ + 1] =>
              /\ metrics'.submitted = metrics.submitted + 1
              /\ metrics'.rejected = metrics.rejected
              /\ metrics'.accepted = metrics.accepted /\ metrics'.expired = metrics.expired
         /\ metrics' = [metrics EXCEPT !.accepted = @ + 1] =>
              /\ metrics'.submitted = metrics.submitted
              /\ metrics'.rejected = metrics.rejected
              /\ metrics'.accepted = metrics.accepted + 1 /\ metrics'.expired = metrics.expired
         /\ metrics' = [metrics EXCEPT !.expired = @ + n] =>
              /\ metrics'.submitted = metrics.submitted
              /\ metrics'.rejected = metrics.rejected
              /\ metrics'.accepted = metrics.accepted /\ metrics'.expired = metrics.expired + n
BY DEF Metrics

LEMMA SumsAreInts ==
  ASSUME bus \in Seq(Events)
  PROVE  /\ \A b : SumOver(EarnedBy(b), bus) \in Int
         /\ \A k : SumOver(Told(k), bus) \in Int
<1>1. \A b : SumOver(EarnedBy(b), bus) \in Int
  BY ValuesAre, SumOverIs
<1>2. \A k : SumOver(Told(k), bus) \in Int
  BY ValuesAre, SumOverIs
<1> QED BY <1>1, <1>2

LEMMA OrdersBalance ==
  ASSUME FloorInv, NEW t \in Threads,
         NEW s \in Int, NEW a \in Int, NEW r \in Int, NEW x \in Int, NEW w \in Int, NEW o \in Int,
         metrics'.submitted = metrics.submitted + s, metrics'.accepted = metrics.accepted + a,
         metrics'.rejected = metrics.rejected + r, metrics'.expired = metrics.expired + x,
         Cardinality(waiting') = Cardinality(waiting) + w,
         OpenAt(t, act'[t]) = OpenAt(t, act[t]) + o,
         s = a + r + x + w + o
  PROVE  OrdersMove(t)
<1> DEFINE S == metrics.submitted
           A == metrics.accepted
           R == metrics.rejected
           X == metrics.expired
           W == Cardinality(waiting)
           O == OpenAt(t, act[t])
<1>1. S \in Int /\ A \in Int /\ R \in Int /\ X \in Int /\ W \in Int /\ O \in Int
  BY CountsAre, OpenIs
<1>2. /\ metrics'.submitted = S + s
      /\ Counted(metrics, waiting) = A + R + X + W
      /\ Counted(metrics', waiting') = (A + a) + (R + r) + (X + x) + (W + w)
      /\ OpenAt(t, act[t]) = O /\ OpenAt(t, act'[t]) = O + o
  BY DEF Counted
<1> HIDE DEF S, A, R, X, W, O
<1>3. (S + s) + (A + R + X + W) + O = S + ((A + a) + (R + r) + (X + x) + (W + w)) + (O + o)
  BY <1>1
<1> QED BY <1>2, <1>3 DEF OrdersMove, S

LEMMA SubmitLedger ==
  ASSUME FloorInv, bus \in Seq(Events), WatcherIsClean, NEW b \in Bots, SubmitOrder(b)
  PROVE  Ledger(b)
<1> DEFINE n == nextId
           o == Head(act[b].todo)
           m == [act[b] EXCEPT !.at = "match", !.job = n]
<1>1. /\ Grows /\ n \in Ids /\ \A i \in Ids : i # n => order'[i] = order[i]
  BY SubmitIs
<1>2. SameBefore
  <2>1. \A i \in 1 .. nextId - 1 : i \in Ids /\ i # n
    BY NextIdIs DEF FloorInv
  <2> QED BY <1>1, <2>1 DEF SameBefore
<1>3. /\ b \in Threads /\ b # Watcher /\ act[b].at = "submit" /\ ActsFit
      /\ act[b].at \in AtWork /\ act[b] \in BotActs(b, nextId)
      /\ UNCHANGED <<cash, running>>
  BY BotAssumption, BotActIs DEF Threads, SubmitOrder, FloorInv, AtWork
<1>4. AfterOrder(b).at \in {"asleep", "submit"}
  BY <1>3, AfterIs
<1>5. m.at = "match"
  BY <1>3 DEF BotActs
<1>6. metrics \in Metrics
  BY DEF FloorInv, FloorTypes
<1>7. OpenAt(b, act[b]) = 0
  BY <1>3 DEF OpenAt
<1> HIDE DEF m, AfterOrder
<1>8. CASE Reject(b)
  <2>1. /\ bus' = bus \o <<[kind |-> "rejected"]>>
        /\ metrics' = [metrics EXCEPT !.submitted = @ + 1, !.rejected = @ + 1]
        /\ Become(b, AfterOrder(b)) /\ UNCHANGED waiting
    BY <1>8 DEF Reject, Send
  <2>2. act'[b] = AfterOrder(b) /\ SameOthers(b)
    BY <1>3, <2>1, OneActs DEF SameOthers
  <2>3. /\ bus' \in Seq(Events)
        /\ \A c : SumOver(EarnedBy(c), bus') = SumOver(EarnedBy(c), bus)
        /\ \A k : SumOver(Told(k), bus') = SumOver(Told(k), bus) + IF k = "rejected" THEN 1 ELSE 0
    BY <2>1, NoticeSent
  <2>4. /\ metrics'.submitted = metrics.submitted + 1 /\ metrics'.rejected = metrics.rejected + 1
        /\ metrics'.accepted = metrics.accepted /\ metrics'.expired = metrics.expired
    BY <1>6, <2>1, MetricsAre
  <2>5. MoneyMoves(b)
    BY <1>3, <1>4, <2>2, <2>3, MoneyStays
  <2>6. EventsMove
    BY <2>3, <2>4, SumsAreInts, CountsAre DEF EventsMove
  <2>7. OpenAt(b, act'[b]) = 0
    BY <1>3, <1>4, <2>2 DEF OpenAt
  <2>8. OrdersMove(b)
    <3>1. Cardinality(waiting') = Cardinality(waiting) + 0
      BY <2>1, CountsAre
    <3>2. OpenAt(b, act'[b]) = OpenAt(b, act[b]) + 0
      BY <1>7, <2>7
    <3>3. /\ metrics'.accepted = metrics.accepted + 0 /\ metrics'.expired = metrics.expired + 0
          /\ 1 = 0 + 1 + 0 + 0 + 0
      BY <2>4, CountsAre
    <3> QED BY <1>3, <2>4, <3>1, <3>2, <3>3, OrdersBalance
  <2> QED BY <1>1, <1>2, <1>3, <2>2, <2>3, <2>5, <2>6, <2>8, CleanStays DEF Ledger
<1>9. CASE Queue(b)
  <2>1. /\ bus' = bus \o <<[kind |-> "queued"]>>
        /\ metrics' = [metrics EXCEPT !.submitted = @ + 1, !.queued = @ + 1]
        /\ Become(b, AfterOrder(b)) /\ waiting' = waiting \cup {n}
    BY <1>9 DEF Queue, Send
  <2>2. act'[b] = AfterOrder(b) /\ SameOthers(b)
    BY <1>3, <2>1, OneActs DEF SameOthers
  <2>3. /\ bus' \in Seq(Events)
        /\ \A c : SumOver(EarnedBy(c), bus') = SumOver(EarnedBy(c), bus)
        /\ \A k : SumOver(Told(k), bus') = SumOver(Told(k), bus) + IF k = "queued" THEN 1 ELSE 0
    BY <2>1, NoticeSent
  <2>4. /\ metrics'.submitted = metrics.submitted + 1 /\ metrics'.rejected = metrics.rejected
        /\ metrics'.accepted = metrics.accepted /\ metrics'.expired = metrics.expired
    BY <1>6, <2>1, MetricsAre
  <2>5. MoneyMoves(b)
    BY <1>3, <1>4, <2>2, <2>3, MoneyStays
  <2>6. EventsMove
    BY <2>3, <2>4, SumsAreInts, CountsAre DEF EventsMove
  <2>7. OpenAt(b, act'[b]) = 0
    BY <1>3, <1>4, <2>2 DEF OpenAt
  <2>8. Cardinality(waiting') = Cardinality(waiting) + 1
    <3>1. n \notin waiting
      BY CountsAre, NextIdIs DEF FloorInv
    <3> QED BY <2>1, <3>1, CountsAre, FS_AddElement
  <2>9. OrdersMove(b)
    <3>1. OpenAt(b, act'[b]) = OpenAt(b, act[b]) + 0
      BY <1>7, <2>7
    <3>2. /\ metrics'.accepted = metrics.accepted + 0 /\ metrics'.expired = metrics.expired + 0
          /\ metrics'.rejected = metrics.rejected + 0 /\ 1 = 0 + 0 + 0 + 1 + 0
      BY <2>4, CountsAre
    <3> QED BY <1>3, <2>4, <2>8, <3>1, <3>2, OrdersBalance
  <2> QED BY <1>1, <1>2, <1>3, <2>2, <2>3, <2>5, <2>6, <2>9, CleanStays DEF Ledger
<1>10. CASE /\ metrics' = [metrics EXCEPT !.submitted = @ + 1]
            /\ Become(b, m) /\ UNCHANGED <<waiting, bus>>
  <2>1. act'[b] = m /\ SameOthers(b)
    BY <1>3, <1>10, OneActs DEF SameOthers
  <2>2. /\ metrics'.submitted = metrics.submitted + 1 /\ metrics'.rejected = metrics.rejected
        /\ metrics'.accepted = metrics.accepted /\ metrics'.expired = metrics.expired
    BY <1>6, <1>10, MetricsAre
  <2>3. MoneyMoves(b)
    BY <1>3, <1>5, <1>10, <2>1, MoneyStays
  <2>4. EventsMove
    BY <1>10, <2>2 DEF EventsMove
  <2>5. OpenAt(b, act'[b]) = 1
    BY <1>3, <1>5, <2>1 DEF OpenAt
  <2>6. OrdersMove(b)
    BY <1>7, <1>10, <2>2, <2>5, CountsAre DEF OrdersMove, Counted
  <2> QED BY <1>1, <1>2, <1>3, <1>10, <2>1, <2>3, <2>4, <2>6, CleanStays DEF Ledger
<1> QED BY <1>8, <1>9, <1>10 DEF SubmitOrder, m

LEMMA MatchLedger ==
  ASSUME FloorInv, bus \in Seq(Events), WatcherIsClean, NEW t \in Threads, Match(t)
  PROVE  Ledger(t)
<1> DEFINE a == [act[t] EXCEPT !.at = "settle"]
<1>1. /\ act[t].at = "match" /\ UNCHANGED <<cash, waiting, bus, running>>
      /\ metrics' = [metrics EXCEPT !.accepted = @ + 1]
  BY DEF Match
<1>2. Grows /\ SameBefore
  BY MatchBooks DEF FloorInv, Match, SameBefore
<1>3. ActsFit /\ act[t].at \in Matching /\ Fits(t, act[t], nextId, entered, trades)
  BY <1>1 DEF FloorInv, ActsFit, Matching
<1>4. Become(t, AfterOrder(t)) \/ Become(t, a)
  BY DEF Match, Finished, NotYet
<1>5. /\ OpenAt(t, AfterOrder(t)) = OpenAt(t, act[t]) - 1
      /\ AfterOrder(t).at \in {"release", "asleep", "submit"}
  BY <1>1, <1>3, OpenAfter
<1>6. a.at = "settle" /\ a.todo = act[t].todo /\ a.expired = act[t].expired
  BY <1>3 DEF Fits, WatcherActs, BotActs
<1>7. OpenAt(t, a) = OpenAt(t, act[t]) - 1
  <2> HIDE DEF a
  <2> QED BY <1>1, <1>3, <1>6, OpenSettling
<1> HIDE DEF a, AfterOrder
<1>8. /\ act'[t] \in {a, AfterOrder(t)} /\ SameOthers(t)
  BY <1>3, <1>4, OneActs DEF SameOthers
<1>9. /\ act'[t].at \in {"release", "asleep", "submit", "settle"}
      /\ OpenAt(t, act'[t]) = OpenAt(t, act[t]) - 1
  BY <1>5, <1>6, <1>7, <1>8
<1>10. MoneyMoves(t)
  BY <1>1, <1>9, MoneyStays
<1>11. metrics \in Metrics
  BY DEF FloorInv, FloorTypes
<1>12. /\ metrics'.submitted = metrics.submitted /\ metrics'.rejected = metrics.rejected
       /\ metrics'.accepted = metrics.accepted + 1 /\ metrics'.expired = metrics.expired
  BY <1>1, <1>11, MetricsAre
<1>13. EventsMove
  BY <1>1, <1>12 DEF EventsMove
<1>14. OrdersMove(t)
  <2>1. /\ metrics'.submitted = metrics.submitted + 0 /\ metrics'.rejected = metrics.rejected + 0
        /\ metrics'.expired = metrics.expired + 0
        /\ Cardinality(waiting') = Cardinality(waiting) + 0
    BY <1>1, <1>12, CountsAre
  <2> DEFINE gone == 0 - 1
  <2>2. OpenAt(t, act'[t]) = OpenAt(t, act[t]) + gone
    BY <1>9, OpenIs
  <2>3. gone \in Int /\ 0 = 1 + 0 + 0 + 0 + gone
    OBVIOUS
  <2> HIDE DEF gone
  <2> QED BY <1>12, <2>1, <2>2, <2>3, OrdersBalance
<1>15. WatcherIsClean'
  BY <1>8, <1>9, CleanWorks DEF WatcherPauses
<1> QED BY <1>1, <1>2, <1>8, <1>10, <1>13, <1>14, <1>15 DEF Ledger

LEMMA SettleLedger ==
  ASSUME FloorInv, bus \in Seq(Events), WatcherIsClean, NEW t \in Threads, Settle(t)
  PROVE  Ledger(t)
<1> DEFINE k == act[t].settled + 1
           e == TradeOf(act[t].job, k)
           a == [act[t] EXCEPT !.at = "publish", !.settled = @ + 1]
<1>1. /\ act[t].at = "settle"
      /\ cash' = Shift(cash, e.buyer, e.seller, e.quantity * e.price)
      /\ Become(t, a)
      /\ UNCHANGED <<book, waiting, metrics, bus, running>>
  BY DEF Settle
<1>2. Grows /\ SameBefore
  BY <1>1, SameBooks DEF FloorInv, SameBefore, book
<1>3. ActsFit /\ act[t].at \in Matching /\ Fits(t, act[t], nextId, entered, trades)
  BY <1>1 DEF FloorInv, ActsFit, Matching
<1>4. e \in TradeEvents
  BY <1>1, AtTrade
<1>5. /\ a.at = "publish" /\ a.todo = act[t].todo /\ a.expired = act[t].expired
      /\ a.job = act[t].job /\ a.settled = k
  BY <1>3 DEF Fits, WatcherActs, BotActs
<1>6. act'[t] = a /\ SameOthers(t)
  BY <1>1, <1>3, OneActs DEF SameOthers
<1> HIDE DEF a
<1>7. OpenAt(t, act'[t]) = OpenAt(t, act[t])
  <2>1. OpenAt(t, a) = OpenAt(t, act[t]) - 0
    BY <1>1, <1>3, <1>5, OpenSettling
  <2> QED BY <1>6, <2>1, OpenIs
<1>8. MoneyMoves(t)
  <2> SUFFICES ASSUME NEW b \in Bots
               PROVE  cash'[b] + SumOver(EarnedBy(b), bus) + OwedAt(b, act[t], order, trades)
                        = cash[b] + SumOver(EarnedBy(b), bus') + OwedAt(b, act'[t], order', trades')
    BY DEF MoneyMoves
  <2>1. OwedAt(b, act[t], order, trades) = 0
    BY <1>1 DEF OwedAt
  <2>2. OwedAt(b, act'[t], order', trades') = EarnedBy(b)[e]
    <3>1. order' = order /\ trades' = trades
      BY <1>1 DEF book
    <3>2. e = TradeFrom(order, trades, act[t].job, k)
      BY TradeFromIs
    <3> HIDE DEF e, k
    <3> QED BY <1>5, <1>6, <3>1, <3>2 DEF OwedAt
  <2>3. cash \in [Bots -> Int]
    BY DEF FloorInv, FloorTypes
  <2> HIDE DEF e
  <2>4. cash'[b] = cash[b] + EarnedBy(b)[e]
    BY <1>1, <1>4, <2>3, EarnedIs
  <2>5. EarnedBy(b)[e] \in Int /\ cash[b] \in Int /\ SumOver(EarnedBy(b), bus) \in Int
    BY <1>4, <2>3, ValuesAre, TradesAre, SumsAreInts
  <2>6. SumOver(EarnedBy(b), bus') = SumOver(EarnedBy(b), bus)
    BY <1>1
  <2> DEFINE x == EarnedBy(b)[e]
             y == SumOver(EarnedBy(b), bus)
  <2> HIDE DEF x, y
  <2>7. cash[b] + x + y + 0 = cash[b] + y + x
    BY <2>5 DEF x, y
  <2> QED BY <2>1, <2>2, <2>4, <2>6, <2>7 DEF x, y
<1>9. EventsMove
  BY <1>1 DEF EventsMove
<1>10. OrdersMove(t)
  BY <1>1, <1>7 DEF OrdersMove, Counted
<1>11. WatcherIsClean'
  BY <1>5, <1>6, CleanWorks DEF WatcherPauses
<1> QED BY <1>1, <1>2, <1>6, <1>8, <1>9, <1>10, <1>11 DEF Ledger

LEMMA PublishLedger ==
  ASSUME FloorInv, bus \in Seq(Events), WatcherIsClean, NEW t \in Threads, Publish(t)
  PROVE  Ledger(t)
<1> DEFINE e == TradeOf(act[t].job, act[t].settled)
           a == [act[t] EXCEPT !.at = "settle"]
<1>1. /\ act[t].at = "publish" /\ bus' = bus \o <<e>>
      /\ UNCHANGED <<book, cash, waiting, metrics, running>>
      /\ Become(t, AfterOrder(t)) \/ Become(t, a)
  BY DEF Publish, Send, Finished, NotYet
<1>2. Grows /\ SameBefore
  BY <1>1, SameBooks DEF FloorInv, SameBefore, book
<1>3. ActsFit /\ act[t].at \in Matching /\ Fits(t, act[t], nextId, entered, trades)
  BY <1>1 DEF FloorInv, ActsFit, Matching
<1>4. e \in TradeEvents
  BY <1>1, AtTrade
<1>5. /\ OpenAt(t, AfterOrder(t)) = OpenAt(t, act[t]) - 0
      /\ AfterOrder(t).at \in {"release", "asleep", "submit"}
  BY <1>1, <1>3, OpenAfter
<1>6. a.at = "settle" /\ a.todo = act[t].todo /\ a.expired = act[t].expired
  BY <1>3 DEF Fits, WatcherActs, BotActs
<1>7. OpenAt(t, a) = OpenAt(t, act[t]) - 0
  <2> HIDE DEF a
  <2> QED BY <1>1, <1>3, <1>6, OpenSettling
<1> HIDE DEF a, AfterOrder
<1>8. /\ act'[t] \in {a, AfterOrder(t)} /\ SameOthers(t)
  BY <1>1, <1>3, OneActs DEF SameOthers
<1>9. /\ act'[t].at \in {"release", "asleep", "submit", "settle"}
      /\ OpenAt(t, act'[t]) = OpenAt(t, act[t])
  BY <1>5, <1>6, <1>7, <1>8, OpenIs
<1>10. /\ bus' \in Seq(Events)
       /\ \A b : SumOver(EarnedBy(b), bus') = SumOver(EarnedBy(b), bus) + EarnedBy(b)[e]
       /\ \A k \in {"rejected", "queued", "expired"} :
            SumOver(Told(k), bus') = SumOver(Told(k), bus)
  <2> HIDE DEF e
  <2> QED BY <1>1, <1>4, TradeSent
<1>11. MoneyMoves(t)
  <2> SUFFICES ASSUME NEW b \in Bots
               PROVE  cash'[b] + SumOver(EarnedBy(b), bus) + OwedAt(b, act[t], order, trades)
                        = cash[b] + SumOver(EarnedBy(b), bus') + OwedAt(b, act'[t], order', trades')
    BY DEF MoneyMoves
  <2>1. OwedAt(b, act'[t], order', trades') = 0
    BY <1>9 DEF OwedAt
  <2>2. OwedAt(b, act[t], order, trades) = EarnedBy(b)[e]
    BY <1>1, TradeFromIs DEF OwedAt
  <2> HIDE DEF e
  <2>3. EarnedBy(b)[e] \in Int /\ cash[b] \in Int /\ SumOver(EarnedBy(b), bus) \in Int
    BY <1>4, ValuesAre, TradesAre, SumsAreInts DEF FloorInv, FloorTypes
  <2> DEFINE x == EarnedBy(b)[e]
             y == SumOver(EarnedBy(b), bus)
  <2>4. SumOver(EarnedBy(b), bus') = y + x
    BY <1>10
  <2>5. OwedAt(b, act[t], order, trades) = x /\ x \in Int /\ y \in Int
    BY <2>2, <2>3
  <2> HIDE DEF x
  <2>6. cash[b] + y + x = cash[b] + (y + x) + 0
    BY <2>3, <2>5
  <2> QED BY <1>1, <2>1, <2>4, <2>5, <2>6
<1>12. EventsMove
  BY <1>1, <1>10 DEF EventsMove
<1>13. OrdersMove(t)
  BY <1>1, <1>9 DEF OrdersMove, Counted
<1>14. WatcherIsClean'
  BY <1>8, <1>9, CleanWorks DEF WatcherPauses
<1> QED BY <1>1, <1>2, <1>8, <1>10, <1>11, <1>12, <1>13, <1>14 DEF Ledger

-----------------------------------------------------------------------------
\* The steps of the watcher

\* A watcher that is through with its work has no order open.
LEMMA PauseIs ==
  ASSUME NEW p \in WatcherPauses
  PROVE  /\ [Asleep EXCEPT !.at = p].at = p
         /\ [Asleep EXCEPT !.at = p].todo = <<>> /\ [Asleep EXCEPT !.at = p].expired = {}
         /\ OpenAt(Watcher, [Asleep EXCEPT !.at = p]) = 0
<1> DEFINE a == [Asleep EXCEPT !.at = p]
<1>1. a.at = p /\ a.todo = <<>> /\ a.expired = {}
  BY DEF Asleep
<1> HIDE DEF a
<1>2. OpenAt(Watcher, a) = Len(<<>>) - 0 + Cardinality({})
  BY <1>1 DEF OpenAt, WatcherPauses
<1>3. OpenAt(Watcher, a) = 0
  BY <1>2, FS_EmptySet
<1> QED BY <1>1, <1>3 DEF a

LEMMA CleanIsClosed ==
  ASSUME WatcherIsClean, act[Watcher].at \in WatcherPauses
  PROVE  OpenAt(Watcher, act[Watcher]) = 0
<1>1. act[Watcher].todo = <<>> /\ act[Watcher].expired = {}
  BY DEF WatcherIsClean
<1>2. OpenAt(Watcher, act[Watcher]) = Len(<<>>) - 0 + Cardinality({})
  BY <1>1 DEF OpenAt, WatcherPauses
<1> QED BY <1>2, FS_EmptySet

LEMMA TwoParts ==
  ASSUME NEW W, NEW S, NEW T, IsFiniteSet(W), S \subseteq W, T \subseteq W, S \cap T = {},
         NEW X, X = W \ (S \cup T)
  PROVE  /\ IsFiniteSet(S) /\ IsFiniteSet(T)
         /\ Cardinality(S) \in Nat /\ Cardinality(T) \in Nat /\ Cardinality(W) \in Nat
         /\ Cardinality(X) = Cardinality(W) - (Cardinality(S) + Cardinality(T))
<1> DEFINE U == S \cup T
<1>1. IsFiniteSet(S) /\ IsFiniteSet(T) /\ U \subseteq W
  BY FS_Subset
<1>2. Cardinality(S) \in Nat /\ Cardinality(T) \in Nat /\ Cardinality(W) \in Nat
  BY <1>1, FS_CardinalityType
<1>3. Cardinality(U) = Cardinality(S) + Cardinality(T)
  <2>1. Cardinality(S \cap T) = 0
    BY FS_EmptySet
  <2>2. Cardinality(U) = Cardinality(S) + Cardinality(T) - Cardinality(S \cap T)
    BY <1>1, FS_Union
  <2> QED BY <1>2, <2>1, <2>2
<1>4. Cardinality(W \ U) = Cardinality(W) - Cardinality(U)
  <2> HIDE DEF U
  <2>1. Cardinality(W \ U) = Cardinality(W) - Cardinality(W \cap U)
    BY FS_Difference
  <2>2. W \cap U = U
    BY <1>1
  <2> QED BY <2>1, <2>2
<1> QED BY <1>1, <1>2, <1>3, <1>4

LEMMA ScanLedger ==
  ASSUME FloorInv, bus \in Seq(Events), WatcherIsClean, NEW stop, NEW S, Scan(stop, S)
  PROVE  Ledger(Watcher)
<1>1. PICK expired \in SUBSET {id \in waiting : order[id].symbol \in S /\ order[id].expires} :
       LET due == {id \in waiting \ expired : order[id].symbol \in S /\ InBand(order[id])}
           after == IF due \cup expired # {} THEN "release" ELSE IF stop THEN "ended" ELSE "loop"
       IN  /\ waiting' = waiting \ (due \cup expired)
           /\ Become(Watcher, [Asleep EXCEPT !.at = after, !.last = stop,
                                             !.todo = SetToSeq(due), !.expired = expired])
  BY DEF Scan
<1> DEFINE due == {id \in waiting \ expired : order[id].symbol \in S /\ InBand(order[id])}
           after == IF due \cup expired # {} THEN "release" ELSE IF stop THEN "ended" ELSE "loop"
           todo == SetToSeq(due)
           a == [Asleep EXCEPT !.at = after, !.last = stop, !.todo = todo, !.expired = expired]
<1>2. waiting' = waiting \ (due \cup expired) /\ Become(Watcher, a)
  BY <1>1
<1>3. due \in SUBSET waiting /\ expired \in SUBSET waiting /\ due \cap expired = {}
  OBVIOUS
<1>4. UNCHANGED <<book, cash, metrics, bus, running>> /\ act[Watcher].at = "loop"
  BY DEF Scan
<1> HIDE DEF due
<1>5. /\ after \in {"release", "ended", "loop"}
      /\ after # "release" => due = {} /\ expired = {}
  OBVIOUS
<1> HIDE DEF after, todo
<1>6. a.at = after /\ a.todo = todo /\ a.expired = expired
  BY DEF Asleep
<1> HIDE DEF a
<1>7. Grows /\ SameBefore
  BY <1>4, SameBooks DEF FloorInv, SameBefore, book
<1>8. act'[Watcher] = a /\ SameOthers(Watcher) /\ Watcher \in Threads
  BY <1>2, OneActs DEF FloorInv, SameOthers, Threads
<1>9. /\ IsFiniteSet(due) /\ Cardinality(due) \in Nat /\ Cardinality(expired) \in Nat
      /\ Cardinality(waiting') = Cardinality(waiting) + (0 - Cardinality(due) - Cardinality(expired))
  <2> DEFINE W == waiting
             X == W \ (due \cup expired)
  <2>1. IsFiniteSet(W) /\ due \subseteq W /\ expired \subseteq W /\ due \cap expired = {}
    BY <1>3, CountsAre
  <2>2. waiting' = X
    BY <1>2
  <2>5. X = W \ (due \cup expired)
    OBVIOUS
  <2> HIDE DEF W, X
  <2>3. /\ IsFiniteSet(due) /\ Cardinality(due) \in Nat /\ Cardinality(expired) \in Nat
        /\ Cardinality(W) \in Nat /\ Cardinality(X) = Cardinality(W) - (Cardinality(due) + Cardinality(expired))
    <3>1. IsFiniteSet(due) /\ IsFiniteSet(expired)
      BY <2>1, FS_Subset
    <3>2. Cardinality(due) \in Nat
      BY <3>1, FS_CardinalityType
    <3>3. Cardinality(expired) \in Nat
      BY <3>1, FS_CardinalityType
    <3>4. Cardinality(W) \in Nat
      BY <2>1, <2>5, TwoParts
    <3>5. Cardinality(X) = Cardinality(W) - (Cardinality(due) + Cardinality(expired))
      BY <2>1, <2>5, TwoParts
    <3> QED BY <3>1, <3>2, <3>3, <3>4, <3>5
  <2>4. Cardinality(waiting') = Cardinality(W) + (0 - Cardinality(due) - Cardinality(expired))
    BY <2>2, <2>3
  <2> QED BY <2>3, <2>4 DEF W
<1>10. todo \in Seq(due) /\ Len(todo) = Cardinality(due)
  BY <1>9, SetToSeqIs DEF todo
<1>11. OpenAt(Watcher, act[Watcher]) = 0
  BY <1>4, CleanIsClosed DEF WatcherPauses
<1>12. OpenAt(Watcher, act'[Watcher]) = Cardinality(due) + Cardinality(expired)
  <2>1. OpenAt(Watcher, a) = Len(a.todo) - 0 + Cardinality(a.expired)
    BY <1>5, <1>6 DEF OpenAt
  <2> QED BY <1>6, <1>8, <1>9, <1>10, <2>1
<1>13. OrdersMove(Watcher)
  <2> DEFINE w == 0 - Cardinality(due) - Cardinality(expired)
             o == Cardinality(due) + Cardinality(expired)
  <2>1. w \in Int /\ o \in Int /\ 0 = 0 + 0 + 0 + w + o
    BY <1>9
  <2>2. /\ Cardinality(waiting') = Cardinality(waiting) + w
        /\ OpenAt(Watcher, act'[Watcher]) = OpenAt(Watcher, act[Watcher]) + o
    BY <1>9, <1>11, <1>12
  <2>3. /\ metrics'.submitted = metrics.submitted + 0 /\ metrics'.accepted = metrics.accepted + 0
        /\ metrics'.rejected = metrics.rejected + 0 /\ metrics'.expired = metrics.expired + 0
    BY <1>4, CountsAre
  <2> HIDE DEF w, o
  <2> QED BY <1>8, <2>1, <2>2, <2>3, OrdersBalance
<1>14. MoneyMoves(Watcher)
  BY <1>4, <1>5, <1>6, <1>8, MoneyStays
<1>15. EventsMove
  BY <1>4 DEF EventsMove
<1>16. WatcherIsClean'
  <2>1. ASSUME a.at \in WatcherPauses PROVE a.todo = <<>> /\ a.expired = {}
    <3>1. due = {} /\ expired = {}
      BY <1>5, <1>6, <2>1 DEF WatcherPauses
    <3>2. Len(todo) = 0
      BY <1>10, <3>1, FS_EmptySet
    <3>3. todo = <<>>
      BY <1>10, <3>2
    <3> QED BY <1>6, <3>1, <3>3
  <2> QED BY <1>8, <2>1 DEF WatcherIsClean
<1> QED BY <1>4, <1>7, <1>8, <1>13, <1>14, <1>15, <1>16 DEF Ledger

LEMMA ReleaseLedger ==
  ASSUME FloorInv, bus \in Seq(Events), WatcherIsClean, Release
  PROVE  Ledger(Watcher)
<1> DEFINE w == act[Watcher]
           a == [w EXCEPT !.at = "match", !.job = Head(w.todo)]
<1>1. /\ UNCHANGED <<book, cash, waiting, metrics, bus, running>>
      /\ w.at = "release" /\ Become(Watcher, a)
  BY DEF Release
<1>2. w \in WatcherActs(nextId)
  BY WatcherActIs DEF FloorInv
<1>3. a.at = "match" /\ a.todo = w.todo /\ a.expired = w.expired
  BY <1>2 DEF WatcherActs
<1>4. Grows /\ SameBefore
  BY <1>1, SameBooks DEF FloorInv, SameBefore, book
<1>5. act'[Watcher] = a /\ SameOthers(Watcher) /\ Watcher \in Threads
  BY <1>1, OneActs DEF FloorInv, SameOthers, Threads
<1> HIDE DEF a
<1>6. OpenAt(Watcher, act'[Watcher]) = OpenAt(Watcher, act[Watcher])
  BY <1>1, <1>3, <1>5 DEF OpenAt
<1>7. MoneyMoves(Watcher)
  BY <1>1, <1>3, <1>5, MoneyStays
<1>8. EventsMove
  BY <1>1 DEF EventsMove
<1>9. OrdersMove(Watcher)
  BY <1>1, <1>6 DEF OrdersMove, Counted
<1>10. WatcherIsClean'
  BY <1>3, <1>5, CleanWorks DEF WatcherPauses
<1> QED BY <1>1, <1>4, <1>5, <1>7, <1>8, <1>9, <1>10 DEF Ledger

LEMMA ExpireLedger ==
  ASSUME FloorInv, bus \in Seq(Events), WatcherIsClean, Expire
  PROVE  Ledger(Watcher)
<1> DEFINE n == Cardinality(act[Watcher].expired)
           place == IF act[Watcher].last THEN "ended" ELSE "loop"
           a == [Asleep EXCEPT !.at = place]
<1>1. /\ UNCHANGED <<book, cash, waiting, running>> /\ Become(Watcher, a)
      /\ act[Watcher].at = "release" /\ act[Watcher].todo = <<>>
      /\ bus' = bus \o [i \in 1 .. n |-> [kind |-> "expired"]]
      /\ metrics' = [metrics EXCEPT !.expired = @ + n]
  BY DEF Expire, Send
<1>2. n \in Nat
  <2>1. act[Watcher].expired \subseteq 1 .. nextId - 1
    BY WatcherActIs DEF FloorInv, WatcherActs
  <2> QED BY <2>1, NextIdIs, FS_Subset, FS_CardinalityType DEF FloorInv
<1>3. OpenAt(Watcher, act[Watcher]) = n
  <2>1. OpenAt(Watcher, act[Watcher]) = Len(<<>>) - 0 + n
    BY <1>1 DEF OpenAt
  <2> QED BY <1>2, <2>1
<1>4. place \in WatcherPauses
  BY DEF WatcherPauses
<1> HIDE DEF n, place
<1>5. a.at = place /\ a.todo = <<>> /\ a.expired = {} /\ OpenAt(Watcher, a) = 0
  BY <1>4, PauseIs
<1> HIDE DEF a
<1>6. Grows /\ SameBefore
  BY <1>1, SameBooks DEF FloorInv, SameBefore, book
<1>7. act'[Watcher] = a /\ SameOthers(Watcher) /\ Watcher \in Threads
  BY <1>1, OneActs DEF FloorInv, SameOthers, Threads
<1>8. /\ bus' \in Seq(Events)
      /\ \A c : SumOver(EarnedBy(c), bus') = SumOver(EarnedBy(c), bus)
      /\ \A k : SumOver(Told(k), bus') = SumOver(Told(k), bus) + IF k = "expired" THEN n ELSE 0
  BY <1>1, <1>2, NoticesSent
<1>9. metrics \in Metrics
  BY DEF FloorInv, FloorTypes
<1>10. /\ metrics'.submitted = metrics.submitted /\ metrics'.rejected = metrics.rejected
       /\ metrics'.accepted = metrics.accepted /\ metrics'.expired = metrics.expired + n
  BY <1>1, <1>2, <1>9, MetricsAre
<1>11. MoneyMoves(Watcher)
  BY <1>1, <1>4, <1>5, <1>7, <1>8, MoneyStays DEF WatcherPauses
<1>12. EventsMove
  <2>1. SumOver(Told("rejected"), bus') = SumOver(Told("rejected"), bus)
    <3>1. SumOver(Told("rejected"), bus) \in Int
      BY <1>1, SumsAreInts
    <3> QED BY <1>8, <3>1
  <2>2. SumOver(Told("expired"), bus') = SumOver(Told("expired"), bus) + n
    BY <1>8
  <2>3. SumOver(Told("expired"), bus) \in Int /\ metrics.expired \in Nat
    BY <1>1, SumsAreInts, CountsAre
  <2>4. metrics.expired + n + SumOver(Told("expired"), bus)
          = metrics.expired + (SumOver(Told("expired"), bus) + n)
    BY <1>2, <2>3
  <2> QED BY <1>10, <2>1, <2>2, <2>4 DEF EventsMove
<1>13. OrdersMove(Watcher)
  <2> DEFINE o == 0 - n
  <2>1. o \in Int /\ n \in Int /\ 0 = 0 + 0 + n + 0 + o
    BY <1>2
  <2>2. OpenAt(Watcher, act'[Watcher]) = OpenAt(Watcher, act[Watcher]) + o
    BY <1>2, <1>3, <1>5, <1>7
  <2>3. /\ metrics'.submitted = metrics.submitted + 0 /\ metrics'.accepted = metrics.accepted + 0
        /\ metrics'.rejected = metrics.rejected + 0
        /\ Cardinality(waiting') = Cardinality(waiting) + 0
    BY <1>1, <1>10, CountsAre
  <2> HIDE DEF o
  <2> QED BY <1>7, <1>10, <2>1, <2>2, <2>3, OrdersBalance
<1>14. WatcherIsClean'
  BY <1>5, <1>7 DEF WatcherIsClean
<1> QED BY <1>1, <1>6, <1>7, <1>8, <1>11, <1>12, <1>13, <1>14 DEF Ledger

\* Every step of a thread balances.
LEMMA StepBalances ==
  ASSUME FloorInv, bus \in Seq(Events), WatcherIsClean, NEW t \in Threads, ThreadStep(t)
  PROVE  Ledger(t)
<1>1. CASE MatchAndSettle(t)
  BY <1>1, MatchLedger, SettleLedger, PublishLedger DEF MatchAndSettle
<1>2. CASE t = Watcher /\ ~MatchAndSettle(t)
  <2>1. (\E S : Scan(stopWatcher, S)) \/ Release \/ Expire
    BY <1>2 DEF ThreadStep, WatcherStep
  <2> QED BY <1>2, <2>1, ScanLedger, ReleaseLedger, ExpireLedger
<1>3. CASE t # Watcher /\ ~MatchAndSettle(t)
  <2>1. t \in Bots
    BY <1>3 DEF Threads
  <2>2. Plans(t) \/ SubmitOrder(t)
    BY <1>3 DEF ThreadStep, BotStep, Plans
  <2> QED BY <2>1, <2>2, PlansLedger, SubmitLedger
<1> QED BY <1>1, <1>2, <1>3

-----------------------------------------------------------------------------
\* The steps of the threads keep the accounts.

\* Who may take a step.
LEMMA MayStep ==
  ASSUME FloorInv, NEW t \in Threads, ThreadStep(t)
  PROVE  /\ t # Watcher => t \in running \/ act[t].at # "asleep"
         /\ t = Watcher => act[t].at \notin {"off", "ended"}
         /\ t = Watcher /\ act[t].at = "loop" => \E S : Scan(stopWatcher, S)
<1>1. CASE MatchAndSettle(t)
  BY <1>1 DEF MatchAndSettle, Match, Settle, Publish
<1>2. CASE t = Watcher /\ ~MatchAndSettle(t)
  <2>1. (\E S : Scan(stopWatcher, S)) \/ Release \/ Expire
    BY <1>2 DEF ThreadStep, WatcherStep
  <2>2. (\E S : Scan(stopWatcher, S)) => act[Watcher].at = "loop"
    BY DEF Scan
  <2>3. Release \/ Expire => act[Watcher].at = "release"
    BY DEF Release, Expire
  <2> QED BY <1>2, <2>1, <2>2, <2>3
<1>3. CASE t # Watcher /\ ~MatchAndSettle(t)
  <2>1. t \in Bots
    BY <1>3 DEF Threads
  <2>2. Plans(t) \/ SubmitOrder(t)
    BY <1>3 DEF ThreadStep, BotStep, Plans
  <2>3. CASE Plans(t)
    BY <1>3, <2>1, <2>3, PlansAre
  <2>4. CASE SubmitOrder(t)
    BY <1>3, <2>4 DEF SubmitOrder
  <2> QED BY <2>2, <2>3, <2>4
<1> QED BY <1>1, <1>2, <1>3

LEMMA OpenedChanges ==
  ASSUME FloorInv, FloorInv', NEW t \in Threads, SameOthers(t)
  PROVE  /\ Opened' = Opened - OpenAt(t, act[t]) + OpenAt(t, act'[t])
         /\ Opened \in Int /\ OpenAt(t, act[t]) \in Int /\ OpenAt(t, act'[t]) \in Int
<1> DEFINE f == [u \in Threads |-> OpenAt(u, act[u])]
           g == [u \in Threads |-> OpenAt(u, act'[u])]
<1>1. IsFiniteSet(Threads)
  BY BotAssumption, FS_AddElement DEF Threads
<1>2. \A u \in Threads : f[u] \in Int /\ g[u] \in Int /\ (u # t => f[u] = g[u])
  <2>1. \A u \in Threads : f[u] \in Int
    BY OpenIs
  <2>2. \A u \in Threads : g[u] \in Int
    <3>1. \A u \in Threads : OpenAt(u, act[u])' \in Int
      BY OpenIsNext
    <3>2. \A u \in Threads : OpenAt(u, act[u])' = OpenAt(u, act'[u])
      BY DEF OpenAt
    <3> QED BY <3>1, <3>2
  <2> QED BY <2>1, <2>2 DEF SameOthers
<1>3. Opened = SumFunctionOnSet(f, Threads) /\ Opened' = SumFunctionOnSet(g, Threads)
  BY DEF Opened, OpenAt
<1>4. f[t] = OpenAt(t, act[t]) /\ g[t] = OpenAt(t, act'[t])
  OBVIOUS
<1> HIDE DEF f, g
<1>5. SumFunctionOnSet(g, Threads) = SumFunctionOnSet(f, Threads) - f[t] + g[t]
  BY <1>1, <1>2, SumUpdate
<1>6. SumFunctionOnSet(f, Threads) \in Int
  BY <1>1, <1>2, SumType
<1> QED BY <1>2, <1>3, <1>4, <1>5, <1>6

\* What is owed has the type of money, before the step and after it.
LEMMA OwedAre ==
  ASSUME FloorInv, FloorInv', NEW t \in Threads, NEW b
  PROVE  /\ OwedAt(b, act[t], order, trades) \in Int
         /\ OwedAt(b, act'[t], order', trades') \in Int
<1>1. OwedAt(b, act[t], order, trades) \in Int
  BY OwedType
<1>2. OwedAt(b, act'[t], order', trades') \in Int
  BY OwedTypeNext
<1> QED BY <1>1, <1>2

LEMMA RecordedAre ==
  ASSUME ReportTypes
  PROVE  /\ rec.trades \in Seq(TradeEvents) /\ rec.trades \in Seq(Events)
         /\ rec.rejected \in Nat /\ rec.queued \in Nat /\ rec.expired \in Nat
         /\ \A b : SumOver(EarnedBy(b), rec.trades) \in Int
         /\ \A s : SumOver(TradedIn(s), rec.trades) \in Int
<1>1. /\ rec.trades \in Seq(TradeEvents)
      /\ rec.rejected \in Nat /\ rec.queued \in Nat /\ rec.expired \in Nat
  BY DEF ReportTypes
<1>2. TradeEvents \subseteq Events
  BY DEF Events
<1>3. rec.trades \in Seq(Events)
  BY <1>1, <1>2
<1>4. \A b : SumOver(EarnedBy(b), rec.trades) \in Int
  BY <1>3, ValuesAre, SumOverIs
<1>5. \A s : SumOver(TradedIn(s), rec.trades) \in Int
  BY <1>1, ValuesAre, SumOverIs
<1> QED BY <1>1, <1>3, <1>4, <1>5

LEMMA ThreadMoney ==
  ASSUME ReportInv, FloorInv', NEW t \in Threads, Ledger(t), rec' = rec
  PROVE  MoneyAddsUp'
<1> SUFFICES ASSUME NEW b \in Bots
             PROVE  cash'[b] = InitialCash + SumOver(EarnedBy(b), rec'.trades)
                               + SumOver(EarnedBy(b), bus') + Pending(b)'
  BY DEF MoneyAddsUp, EarnedBy, Events, TradeEvents, SumOver
<1> DEFINE r == SumOver(EarnedBy(b), rec.trades)
           e == SumOver(EarnedBy(b), bus)
           d == SumOver(EarnedBy(b), bus')
           p == Pending(b)
           o == OwedAt(b, act[t], order, trades)
           w == OwedAt(b, act'[t], order', trades')
           c == cash[b]
           k == cash'[b]
<1>1. FloorInv /\ ReportTypes /\ bus \in Seq(Events) /\ bus' \in Seq(Events)
  BY DEF ReportInv, RunInv, ReportTypes, Ledger
<1>2. /\ r \in Int /\ e \in Int /\ d \in Int
  <2>1. EarnedBy(b) \in [Events -> Int]
    BY ValuesAre
  <2> QED BY <1>1, <2>1, RecordedAre, SumOverIs
<1>3. Pending(b)' = p - o + w /\ p \in Int
  BY <1>1, PendingChanges DEF Ledger, SameBefore, SameOthers
<1>4. o \in Int /\ w \in Int
  BY <1>1, OwedAre
<1>5. c \in Int /\ k \in Int /\ InitialCash \in Int
  BY <1>1, BotAssumption DEF FloorInv, FloorTypes
<1>6. c = InitialCash + r + e + p
  BY DEF ReportInv, MoneyAddsUp
<1>7. k + e + o = c + d + w
  BY DEF Ledger, MoneyMoves
<1> HIDE DEF r, e, d, p, o, w, c, k
<1>8. k = InitialCash + r + d + (p - o + w)
  BY <1>2, <1>3, <1>4, <1>5, <1>6, <1>7
<1> QED BY <1>3, <1>8 DEF r, d, k

LEMMA CountsAreNext ==
  (FloorInv => Cardinality(waiting) \in Nat)'
<1>1. FloorInv => Cardinality(waiting) \in Nat
  BY CountsAre
<1> QED BY <1>1, PTL

LEMMA ThreadCounts ==
  ASSUME ReportInv, FloorInv', NEW t \in Threads, Ledger(t), rec' = rec
  PROVE  EventsAddUp' /\ SubmittedAddUp'
<1>1. FloorInv /\ ReportTypes /\ bus \in Seq(Events) /\ bus' \in Seq(Events)
  BY DEF ReportInv, RunInv, ReportTypes, Ledger
<1>2. \A k : SumOver(Told(k), bus) \in Int /\ SumOver(Told(k), bus') \in Int
  BY <1>1, ValuesAre, SumOverIs
<1>3. /\ metrics.submitted \in Nat /\ metrics.accepted \in Nat /\ metrics.rejected \in Nat
      /\ metrics.expired \in Nat /\ Cardinality(waiting) \in Nat
  BY <1>1, CountsAre
<1>4. /\ metrics'.submitted \in Nat /\ metrics'.accepted \in Nat /\ metrics'.rejected \in Nat
      /\ metrics'.expired \in Nat
  BY DEF FloorInv, FloorTypes, Metrics
<1>5. Cardinality(waiting') \in Nat
  BY CountsAreNext
<1>6. /\ Opened' = Opened - OpenAt(t, act[t]) + OpenAt(t, act'[t])
      /\ Opened \in Int /\ OpenAt(t, act[t]) \in Int /\ OpenAt(t, act'[t]) \in Int
  BY <1>1, OpenedChanges DEF Ledger
<1>7. EventsAddUp'
  <2> DEFINE j == SumOver(Told("rejected"), bus)
             k == SumOver(Told("expired"), bus)
             l == SumOver(Told("rejected"), bus')
             m == SumOver(Told("expired"), bus')
  <2>1. j \in Int /\ k \in Int /\ l \in Int /\ m \in Int
    BY <1>2
  <2>2. metrics.rejected = rec.rejected + j /\ metrics.expired = rec.expired + k
    BY DEF ReportInv, EventsAddUp
  <2>3. metrics'.rejected + j = metrics.rejected + l /\ metrics'.expired + k = metrics.expired + m
    BY DEF Ledger, EventsMove
  <2>4. rec.rejected \in Nat /\ rec.expired \in Nat
    BY <1>1, RecordedAre
  <2> HIDE DEF j, k, l, m
  <2>5. metrics'.rejected = rec.rejected + l /\ metrics'.expired = rec.expired + m
    BY <1>3, <1>4, <2>1, <2>2, <2>3, <2>4
  <2>6. /\ metrics'.rejected = rec'.rejected + SumOver(Told("rejected"), bus')
        /\ metrics'.expired = rec'.expired + SumOver(Told("expired"), bus')
    BY <2>5 DEF l, m
  <2> QED BY <2>6 DEF EventsAddUp, SumOver, Told, Events, TradeEvents
<1>8. SubmittedAddUp'
  <2> DEFINE o == OpenAt(t, act[t])
             w == OpenAt(t, act'[t])
             W == Cardinality(waiting)
             X == Cardinality(waiting')
  <2>1. /\ metrics.submitted = metrics.accepted + metrics.rejected + metrics.expired + W + Opened
    BY DEF ReportInv, SubmittedAddUp
  <2>2. metrics'.submitted + (metrics.accepted + metrics.rejected + metrics.expired + W) + o
          = metrics.submitted + (metrics'.accepted + metrics'.rejected + metrics'.expired + X) + w
    BY DEF Ledger, OrdersMove, Counted
  <2>3. o \in Int /\ w \in Int /\ W \in Int /\ X \in Int
    BY <1>3, <1>5, <1>6
  <2>4. Opened' = Opened - o + w
    BY <1>6
  <2> HIDE DEF o, w, W, X
  <2>5. metrics'.submitted = metrics'.accepted + metrics'.rejected + metrics'.expired + X + Opened'
    BY <1>3, <1>4, <1>6, <2>1, <2>2, <2>3, <2>4
  <2> QED BY <2>5 DEF SubmittedAddUp, X
<1> QED BY <1>7, <1>8

\* Nothing happens before the recorder is started.
LEMMA UntouchedStays ==
  ASSUME FloorInv, WatcherIsClean, Untouched, NEW t \in Threads, ThreadStep(t), Ledger(t)
  PROVE  Untouched'
<1>1. t = Watcher
  <2>1. t # Watcher => t \in Bots
    BY DEF Threads
  <2> QED BY <2>1, MayStep DEF Untouched
<1>2. act[Watcher].at = "loop"
  BY <1>1, MayStep DEF Untouched, WatcherPauses
<1>3. PICK S : Scan(stopWatcher, S)
  BY <1>1, <1>2, MayStep
<1>4. PICK expired \in SUBSET {id \in waiting : order[id].symbol \in S /\ order[id].expires} :
       LET due == {id \in waiting \ expired : order[id].symbol \in S /\ InBand(order[id])}
           after == IF due \cup expired # {} THEN "release" ELSE IF stopWatcher THEN "ended" ELSE "loop"
       IN  /\ waiting' = waiting \ (due \cup expired)
           /\ Become(Watcher, [Asleep EXCEPT !.at = after, !.last = stopWatcher,
                                             !.todo = SetToSeq(due), !.expired = expired])
  BY <1>3 DEF Scan
<1> DEFINE due == {id \in waiting \ expired : order[id].symbol \in S /\ InBand(order[id])}
           after == IF due \cup expired # {} THEN "release" ELSE IF stopWatcher THEN "ended" ELSE "loop"
           todo == SetToSeq(due)
           a == [Asleep EXCEPT !.at = after, !.last = stopWatcher, !.todo = todo, !.expired = expired]
<1>5. waiting' = waiting \ (due \cup expired) /\ Become(Watcher, a)
  BY <1>4
<1>6. waiting = {} /\ due = {} /\ expired = {}
  BY DEF Untouched
<1>7. after \in WatcherPauses
  BY <1>6 DEF WatcherPauses
<1> HIDE DEF due, after, todo
<1>8. a.at = after
  BY DEF Asleep
<1> HIDE DEF a
<1>9. act'[Watcher] = a
  BY <1>1, <1>5, OneActs DEF FloorInv
<1>10. UNCHANGED <<cash, bus, running>>
  BY <1>3 DEF Scan
<1>11. UNCHANGED <<first, sampler>>
  BY DEF ThreadStep, recorder
<1>12. \A b \in Bots : act'[b] = act[b]
  BY <1>1, BotAssumption DEF Ledger, SameOthers, Threads
<1> QED BY <1>5, <1>6, <1>7, <1>8, <1>9, <1>10, <1>11, <1>12 DEF Untouched

LEMMA JoinedStay ==
  ASSUME FloorInv, BotsJoined, NEW t \in Threads, ThreadStep(t), Ledger(t)
  PROVE  BotsJoined'
<1>1. running' = running
  BY DEF Ledger
<1>2. ASSUME NEW b \in Bots \ running PROVE act'[b].at = "asleep"
  <2>1. act[b].at = "asleep" /\ b # Watcher /\ b \in Threads
    BY BotAssumption DEF BotsJoined, Threads
  <2>2. b # t
    BY <2>1, MayStep
  <2> QED BY <2>1, <2>2 DEF Ledger, SameOthers
<1> QED BY <1>1, <1>2 DEF BotsJoined

LEMMA NoneLate ==
  ASSUME ReportInv, NEW t \in Threads, ThreadStep(t)
  PROVE  main \notin Late
<1> SUFFICES ASSUME main \in Late PROVE FALSE
  OBVIOUS
<1>1. BotsJoined /\ running = {} /\ act[Watcher].at = "ended" /\ FloorInv
  BY DEF ReportInv, Phases, RunInv
<1>2. t # Watcher => t \in Bots
  BY DEF Threads
<1> QED BY <1>1, <1>2, MayStep DEF BotsJoined

LEMMA ThreadStepReports ==
  ASSUME ReportInv, RunInv', NEW t \in Threads, ThreadStep(t)
  PROVE  ReportInv'
<1>1. /\ FloorInv /\ FloorInv' /\ ReportTypes /\ bus \in Seq(Events) /\ WatcherIsClean
      /\ Phases /\ VolumesAddUp
  BY DEF ReportInv, RunInv, ReportTypes
<1>2. Ledger(t)
  BY <1>1, StepBalances
<1>3. UNCHANGED <<main, stopWatcher, data, recording, sampler, subscribed, first, sampledCash,
                  rec, final, report>>
  BY DEF ThreadStep, recorder
<1>4. MoneyAddsUp' /\ EventsAddUp' /\ SubmittedAddUp'
  BY <1>1, <1>2, <1>3, ThreadMoney, ThreadCounts
<1>5. ReportTypes'
  BY <1>1, <1>2, <1>3 DEF ReportTypes, Ledger, Events, TradeEvents
<1>6. VolumesAddUp'
  <2>1. ASSUME NEW s \in Symbols
        PROVE  data'[s].volume = SumOver(TradedIn(s), rec'.trades)
    BY <1>1, <1>3 DEF VolumesAddUp
  <2> QED BY <2>1 DEF VolumesAddUp, SumOver, TradedIn, TradeEvents
<1>7. WatcherIsClean'
  BY <1>2 DEF Ledger
<1>8. Phases'
  <2>1. main \notin Late /\ main' = main
    BY <1>3, NoneLate
  <2>2. main \in Early => Untouched'
    BY <1>1, <1>2, UntouchedStays DEF Phases
  <2>3. main \notin Early => subscribed' /\ \A b \in Bots : first'[b] = {InitialCash}
    BY <1>1, <1>3 DEF Phases
  <2>4. main \in {"stop", "join watcher"} => BotsJoined'
    BY <1>1, <1>2, JoinedStay DEF Phases
  <2>5. main = "join watcher" => running' = {}
    BY <1>1, <1>2 DEF Phases, Ledger
  <2>6. report' = {}
    BY <1>1, <1>3, <2>1 DEF Phases, Late
  <2> QED BY <2>1, <2>2, <2>3, <2>4, <2>5, <2>6 DEF Phases, Late
<1> QED BY <1>4, <1>5, <1>6, <1>7, <1>8 DEF ReportInv

-----------------------------------------------------------------------------
\* The worker of the bus

LEMMA SumOverMore ==
  ASSUME NEW E, NEW v \in [E -> Int], NEW q \in Seq(E), NEW e \in E
  PROVE  Append(q, e) \in Seq(E) /\ SumOver(v, Append(q, e)) = SumOver(v, q) + v[e]
<1>1. Append(q, e) = q \o <<e>> /\ Append(q, e) \in Seq(E) /\ <<e>> \in Seq(E)
  OBVIOUS
<1>2. SumOver(v, q \o <<e>>) = SumOver(v, q) + SumOver(v, <<e>>)
  BY <1>1, SumOverBoth
<1> QED BY <1>1, <1>2, SumOverOne

\* What is delivered is no longer on its way.
LEMMA Delivered ==
  ASSUME bus \in Seq(Events), Deliver, NEW v \in [Events -> Int]
  PROVE  /\ Head(bus) \in Events /\ bus' \in Seq(Events)
         /\ SumOver(v, bus) = v[Head(bus)] + SumOver(v, bus')
         /\ v[Head(bus)] \in Int /\ SumOver(v, bus') \in Int
<1>1. bus # <<>> /\ bus' = Tail(bus)
  BY DEF Deliver
<1>2. Head(bus) \in Events /\ bus' \in Seq(Events)
  BY <1>1, HeadTailProperties
<1>3. SumOver(v, bus) = v[Head(bus)] + SumOver(v, bus')
  BY <1>1, SumOverFirst
<1>4. SumOver(v, bus') \in Int
  BY <1>2, SumOverIs
<1> QED BY <1>2, <1>3, <1>4

\* What the recorder makes of an event: EarnedBy, TradedIn and Told say what it is worth.
LEMMA Recorded ==
  ASSUME ReportTypes, subscribed, Deliver
  PROVE  /\ ReportTypes'
         /\ \A b : SumOver(EarnedBy(b), rec'.trades)
                     = SumOver(EarnedBy(b), rec.trades) + EarnedBy(b)[Head(bus)]
         /\ rec'.rejected = rec.rejected + Told("rejected")[Head(bus)]
         /\ rec'.expired = rec.expired + Told("expired")[Head(bus)]
<1> DEFINE e == Head(bus)
           R == [trades : Seq(TradeEvents), rejected : Nat, queued : Nat, expired : Nat]
<1>1. e \in Events /\ bus' \in Seq(Events)
  <2>1. \E v : v \in [Events -> Int]
    BY ValuesAre
  <2> QED BY <2>1, Delivered DEF ReportTypes
<1>2. rec \in R
  BY DEF ReportTypes
<1>3. ASSUME NEW b PROVE SumOver(EarnedBy(b), rec.trades) \in Int
  BY RecordedAre
<1>4. OnEvent(e) /\ IF e.kind = "trade" THEN OnTrade(e) ELSE UNCHANGED data
  BY DEF Deliver
<1>5. CASE e.kind = "trade"
  <2>1. e \in TradeEvents
    BY <1>1, <1>5 DEF Events
  <2>2. rec' = [rec EXCEPT !.trades = Append(rec.trades, e)]
    BY <1>4, <1>5 DEF OnEvent
  <2> HIDE DEF e
  <2>3. Append(rec.trades, e) \in Seq(TradeEvents)
    BY <1>2, <2>1
  <2>4. /\ rec' \in R /\ rec'.trades = Append(rec.trades, e) /\ rec'.rejected = rec.rejected
        /\ rec'.expired = rec.expired
    BY <1>2, <2>2, <2>3
  <2>5. data' \in [Symbols -> [last : Nat, volume : Nat, notional : Int]]
    <3>1. data' = [data EXCEPT ![e.symbol] =
                     [last |-> e.price, volume |-> data[e.symbol].volume + e.quantity,
                      notional |-> data[e.symbol].notional + e.quantity * e.price]]
      BY <1>4, <1>5 DEF OnTrade
    <3>2. data \in [Symbols -> [last : Nat, volume : Nat, notional : Int]]
      BY DEF ReportTypes
    <3>3. e.symbol \in Symbols /\ e.quantity \in Nat /\ e.price \in Nat
      <4>1. e.symbol \in Symbols /\ e.quantity \in Nat /\ e.price \in Prices
        BY <2>1 DEF TradeEvents
      <4>2. Prices \subseteq Nat
        BY BotAssumption
      <4> QED BY <4>1, <4>2
    <3>4. \A m, n \in Nat : m * n \in Int
      OBVIOUS
    <3>5. e.quantity * e.price \in Int
      BY <3>3, <3>4
    <3> DEFINE m == e.quantity * e.price
               d == [last |-> e.price, volume |-> data[e.symbol].volume + e.quantity,
                     notional |-> data[e.symbol].notional + m]
    <3> HIDE DEF m
    <3>6. d \in [last : Nat, volume : Nat, notional : Int]
      BY <3>2, <3>3, <3>5 DEF m
    <3>7. data' = [data EXCEPT ![e.symbol] = d]
      BY <3>1 DEF m
    <3> HIDE DEF d
    <3> QED BY <3>2, <3>6, <3>7
  <2>6. ReportTypes'
    BY <1>1, <2>4, <2>5 DEF ReportTypes, Events, TradeEvents
  <2>7. ASSUME NEW b
        PROVE  SumOver(EarnedBy(b), rec'.trades) = SumOver(EarnedBy(b), rec.trades) + EarnedBy(b)[e]
    <3> DEFINE v == EarnedBy(b)
    <3>1. v \in [Events -> Int] /\ rec.trades \in Seq(Events)
      BY ValuesAre, RecordedAre
    <3> HIDE DEF v
    <3>2. SumOver(v, Append(rec.trades, e)) = SumOver(v, rec.trades) + v[e]
      BY <1>1, <3>1, SumOverMore DEF e
    <3> QED BY <2>4, <3>2 DEF v
  <2>8. Told("rejected")[e] = 0 /\ Told("expired")[e] = 0
    BY <2>1, TradesAre
  <2>9. rec.rejected \in Nat /\ rec.expired \in Nat
    BY <1>2
  <2> QED BY <2>4, <2>6, <2>7, <2>8, <2>9 DEF e
<1>6. CASE e.kind # "trade"
  <2>1. e.kind \in {"rejected", "queued", "expired"} /\ \A b : EarnedBy(b)[e] = 0
    <3> HIDE DEF e
    <3> QED BY <1>1, <1>6, OthersAre
  <2>2. \A k : Told(k)[e] = IF e.kind = k THEN 1 ELSE 0
    BY <1>1 DEF Told
  <2>3. \/ e.kind = "rejected" /\ rec' = [rec EXCEPT !.rejected = @ + 1]
        \/ e.kind = "queued" /\ rec' = [rec EXCEPT !.queued = @ + 1]
        \/ e.kind = "expired" /\ rec' = [rec EXCEPT !.expired = @ + 1]
    BY <1>4, <2>1 DEF OnEvent
  <2>4. data' = data
    BY <1>4, <1>6
  <2> HIDE DEF e
  <2>5. /\ rec' \in R /\ rec'.trades = rec.trades
        /\ rec'.rejected = rec.rejected + (IF e.kind = "rejected" THEN 1 ELSE 0)
        /\ rec'.expired = rec.expired + (IF e.kind = "expired" THEN 1 ELSE 0)
    BY <1>2, <2>3
  <2>6. ReportTypes'
    BY <1>1, <2>4, <2>5 DEF ReportTypes, Events, TradeEvents
  <2>7. ASSUME NEW b
        PROVE  SumOver(EarnedBy(b), rec'.trades) = SumOver(EarnedBy(b), rec.trades) + EarnedBy(b)[e]
    BY <1>3, <2>1, <2>5
  <2> QED BY <2>2, <2>5, <2>6, <2>7 DEF e
<1> QED BY <1>5, <1>6

LEMMA VolumeRecorded ==
  ASSUME ReportTypes, subscribed, Deliver, VolumesAddUp
  PROVE  VolumesAddUp'
<1> DEFINE e == Head(bus)
<1>1. e \in Events
  <2>1. \E v : v \in [Events -> Int]
    BY ValuesAre
  <2> QED BY <2>1, Delivered DEF ReportTypes
<1>2. OnEvent(e) /\ IF e.kind = "trade" THEN OnTrade(e) ELSE UNCHANGED data
  BY DEF Deliver
<1>3. SUFFICES ASSUME NEW s \in Symbols
               PROVE  data'[s].volume = SumOver(TradedIn(s), rec'.trades)
  BY DEF VolumesAddUp, SumOver, TradedIn, TradeEvents
<1>4. data[s].volume = SumOver(TradedIn(s), rec.trades)
  BY DEF VolumesAddUp
<1>5. /\ data \in [Symbols -> [last : Nat, volume : Nat, notional : Int]]
      /\ rec \in [trades : Seq(TradeEvents), rejected : Nat, queued : Nat, expired : Nat]
  BY DEF ReportTypes
<1>6. CASE e.kind = "trade"
  <2>1. e \in TradeEvents
    BY <1>1, <1>6 DEF Events
  <2>2. /\ rec' = [rec EXCEPT !.trades = Append(rec.trades, e)]
        /\ data' = [data EXCEPT ![e.symbol] =
                     [last |-> e.price, volume |-> data[e.symbol].volume + e.quantity,
                      notional |-> data[e.symbol].notional + e.quantity * e.price]]
    BY <1>2, <1>6 DEF OnEvent, OnTrade
  <2>3. e.symbol \in Symbols /\ e.quantity \in Nat
    BY <2>1 DEF TradeEvents
  <2> HIDE DEF e
  <2>4. rec'.trades = Append(rec.trades, e)
    BY <1>5, <2>2
  <2>5. SumOver(TradedIn(s), rec'.trades) = SumOver(TradedIn(s), rec.trades) + TradedIn(s)[e]
    <3> DEFINE v == TradedIn(s)
    <3>1. v \in [TradeEvents -> Int] /\ rec.trades \in Seq(TradeEvents)
      BY <1>5, ValuesAre
    <3> HIDE DEF v
    <3>2. SumOver(v, Append(rec.trades, e)) = SumOver(v, rec.trades) + v[e]
      BY <2>1, <3>1, SumOverMore
    <3> QED BY <2>4, <3>2 DEF v
  <2>6. TradedIn(s)[e] = IF e.symbol = s THEN e.quantity ELSE 0
    BY <2>1 DEF TradedIn
  <2>7. data'[s].volume = data[s].volume + IF e.symbol = s THEN e.quantity ELSE 0
    <3>1. CASE e.symbol = s
      <4> DEFINE d == [last |-> e.price, volume |-> data[s].volume + e.quantity,
                       notional |-> data[s].notional + e.quantity * e.price]
      <4>1. d.volume = data[s].volume + e.quantity
        OBVIOUS
      <4>2. data' = [data EXCEPT ![s] = d]
        BY <2>2, <3>1
      <4> HIDE DEF d
      <4>3. data'[s] = d
        BY <1>5, <4>2
      <4> QED BY <3>1, <4>1, <4>3
    <3>2. CASE e.symbol # s
      <4>1. data'[s] = data[s]
        <5> DEFINE d == [last |-> e.price, volume |-> data[e.symbol].volume + e.quantity,
                         notional |-> data[e.symbol].notional + e.quantity * e.price]
        <5>1. data' = [data EXCEPT ![e.symbol] = d]
          BY <2>2
        <5> HIDE DEF d
        <5> QED BY <1>5, <3>2, <5>1
      <4>2. data[s].volume \in Nat
        BY <1>5
      <4> QED BY <3>2, <4>1, <4>2
    <3> QED BY <3>1, <3>2
  <2> QED BY <1>4, <2>5, <2>6, <2>7
<1>7. CASE e.kind # "trade"
  <2>1. data' = data
    BY <1>2, <1>7
  <2>2. e.kind \in {"rejected", "queued", "expired"}
    BY <1>1, <1>7 DEF Events, TradeEvents
  <2>3. \/ rec' = [rec EXCEPT !.rejected = @ + 1]
        \/ rec' = [rec EXCEPT !.queued = @ + 1]
        \/ rec' = [rec EXCEPT !.expired = @ + 1]
    BY <1>2, <2>2 DEF OnEvent
  <2>4. rec'.trades = rec.trades
    BY <1>5, <2>3
  <2> QED BY <1>4, <2>1, <2>4
<1> QED BY <1>6, <1>7

LEMMA DeliverReports ==
  ASSUME ReportInv, RunInv', Deliver
  PROVE  ReportInv'
<1> DEFINE e == Head(bus)
<1>1. /\ FloorInv /\ ReportTypes /\ bus \in Seq(Events) /\ WatcherIsClean
      /\ Phases /\ VolumesAddUp /\ MoneyAddsUp /\ EventsAddUp /\ SubmittedAddUp
  BY DEF ReportInv, RunInv, ReportTypes
<1>2. /\ bus # <<>> /\ UNCHANGED <<book, cash, waiting, metrics, running, act, main, sampler,
                                   subscribed, first, final, report>>
  BY DEF Deliver
<1>3. main \notin Early /\ main \notin {"sample", "read", "write", "ended"}
  BY <1>1, <1>2 DEF Phases, Untouched
<1>4. subscribed
  BY <1>1, <1>3 DEF Phases
<1>5. /\ ReportTypes'
      /\ \A b : SumOver(EarnedBy(b), rec'.trades)
                     = SumOver(EarnedBy(b), rec.trades) + EarnedBy(b)[e]
      /\ rec'.rejected = rec.rejected + Told("rejected")[e]
      /\ rec'.expired = rec.expired + Told("expired")[e]
  BY <1>1, <1>4, Recorded
<1>6. VolumesAddUp'
  BY <1>1, <1>4, VolumeRecorded
<1> HIDE DEF e
<1>7. MoneyAddsUp'
  <2> SUFFICES ASSUME NEW b \in Bots
               PROVE  cash'[b] = InitialCash + SumOver(EarnedBy(b), rec'.trades)
                                 + SumOver(EarnedBy(b), bus') + Pending(b)'
    BY DEF MoneyAddsUp, EarnedBy, Events, TradeEvents, SumOver
  <2> DEFINE r == SumOver(EarnedBy(b), rec.trades)
             s == SumOver(EarnedBy(b), bus)
             d == SumOver(EarnedBy(b), bus')
             x == EarnedBy(b)[e]
             p == Pending(b)
  <2>1. EarnedBy(b) \in [Events -> Int]
    BY ValuesAre
  <2>2. s = x + d /\ x \in Int /\ d \in Int
    BY <1>1, <2>1, Delivered DEF e
  <2>3. r \in Int
    BY <1>1, RecordedAre
  <2>4. Pending(b)' = p /\ p \in Int
    <3>1. Pending(b)' = p
      BY <1>2 DEF Pending, OwedAt, TradeFrom, EarnedBy, Events, TradeEvents, book
    <3>2. p \in Int
      <4> DEFINE f == [u \in Threads |-> OwedAt(b, act[u], order, trades)]
      <4>1. IsFiniteSet(Threads)
        BY BotAssumption, FS_AddElement DEF Threads
      <4>2. \A u \in Threads : f[u] \in Int
        BY <1>1, OwedType
      <4>3. p = SumFunctionOnSet(f, Threads)
        BY DEF Pending
      <4> HIDE DEF f, p
      <4> QED BY <4>1, <4>2, <4>3, SumType
    <3> QED BY <3>1, <3>2
  <2>5. cash[b] = InitialCash + r + s + p /\ InitialCash \in Int
    BY <1>1, BotAssumption DEF MoneyAddsUp
  <2>6. SumOver(EarnedBy(b), rec'.trades) = r + x
    BY <1>5
  <2>7. cash'[b] = cash[b]
    BY <1>2
  <2> HIDE DEF r, s, d, x, p
  <2>8. cash[b] = InitialCash + (r + x) + d + p
    BY <2>2, <2>3, <2>4, <2>5
  <2> QED BY <2>4, <2>6, <2>7, <2>8 DEF d
<1>8. EventsAddUp'
  <2> SUFFICES /\ metrics'.rejected = rec'.rejected + SumOver(Told("rejected"), bus')
               /\ metrics'.expired = rec'.expired + SumOver(Told("expired"), bus')
    BY DEF EventsAddUp, Told, Events, TradeEvents, SumOver
  <2>1. ASSUME NEW k
        PROVE  /\ SumOver(Told(k), bus) = Told(k)[e] + SumOver(Told(k), bus')
               /\ Told(k)[e] \in Int /\ SumOver(Told(k), bus') \in Int
    <3>1. Told(k) \in [Events -> Int]
      BY ValuesAre
    <3> QED BY <1>1, <3>1, Delivered DEF e
  <2>2. rec.rejected \in Nat /\ rec.expired \in Nat
    BY <1>1, RecordedAre
  <2>3. /\ metrics'.rejected = rec.rejected + SumOver(Told("rejected"), bus)
        /\ metrics'.expired = rec.expired + SumOver(Told("expired"), bus)
    BY <1>1, <1>2 DEF EventsAddUp
  <2>4. ASSUME NEW m, NEW n \in Nat, NEW l, NEW k, m = n + SumOver(Told(k), bus), l = n + Told(k)[e]
        PROVE  m = l + SumOver(Told(k), bus')
    BY <2>1, <2>4
  <2> QED BY <1>5, <2>2, <2>3, <2>4
<1>9. SubmittedAddUp' /\ WatcherIsClean'
  <2>1. Opened' = Opened
    BY <1>2 DEF Opened, OpenAt
  <2> QED BY <1>1, <1>2, <2>1 DEF SubmittedAddUp, WatcherIsClean
<1>10. Phases'
  <2>1. report' = {} /\ main' = main
    BY <1>1, <1>2, <1>3 DEF Phases
  <2>2. main \notin Early => subscribed' /\ \A b \in Bots : first'[b] = {InitialCash}
    BY <1>1, <1>2 DEF Phases
  <2>3. BotsJoined => BotsJoined'
    BY <1>2 DEF BotsJoined
  <2> QED BY <1>1, <1>2, <1>3, <2>1, <2>2, <2>3 DEF Phases
<1> QED BY <1>5, <1>6, <1>7, <1>8, <1>9, <1>10 DEF ReportInv

-----------------------------------------------------------------------------
\* The main thread and the sampler

\* With nobody between settle() and publish(), nothing is pending; with nobody at
\* work, no order is open.
LEMMA NothingPending ==
  (\A t \in Threads : act[t].at # "publish") => \A b : Pending(b) = 0
<1> SUFFICES ASSUME \A t \in Threads : act[t].at # "publish", NEW b PROVE Pending(b) = 0
  OBVIOUS
<1> DEFINE f == [t \in Threads |-> OwedAt(b, act[t], order, trades)]
<1>1. \A t \in Threads : f[t] = 0
  BY DEF OwedAt
<1>2. Pending(b) = SumFunctionOnSet(f, Threads)
  BY DEF Pending
<1>3. IsFiniteSet(Threads)
  BY BotAssumption, FS_AddElement DEF Threads
<1> HIDE DEF f
<1> QED BY <1>1, <1>2, <1>3, SumOfZeros

LEMMA NothingOpen ==
  (/\ \A b \in Bots : act[b].at # "match"
   /\ WatcherIsClean /\ act[Watcher].at \in WatcherPauses) => Opened = 0
<1> SUFFICES ASSUME \A b \in Bots : act[b].at # "match",
                    WatcherIsClean, act[Watcher].at \in WatcherPauses
             PROVE  Opened = 0
  OBVIOUS
<1> DEFINE f == [t \in Threads |-> OpenAt(t, act[t])]
<1>1. \A t \in Threads : f[t] = 0
  <2> SUFFICES ASSUME NEW t \in Threads PROVE OpenAt(t, act[t]) = 0
    OBVIOUS
  <2>1. CASE t = Watcher
    BY <2>1, CleanIsClosed
  <2>2. CASE t # Watcher
    BY <2>2 DEF OpenAt, Threads
  <2> QED BY <2>1, <2>2
<1>2. Opened = SumFunctionOnSet(f, Threads)
  BY DEF Opened
<1>3. IsFiniteSet(Threads)
  BY BotAssumption, FS_AddElement DEF Threads
<1> HIDE DEF f
<1> QED BY <1>1, <1>2, <1>3, SumOfZeros

LEMMA NothingNext ==
  /\ ((\A t \in Threads : act[t].at # "publish") => \A b : Pending(b) = 0)'
  /\ ((/\ \A b \in Bots : act[b].at # "match"
       /\ WatcherIsClean /\ act[Watcher].at \in WatcherPauses) => Opened = 0)'
BY NothingPending, NothingOpen, PTL

\* Of a step that changes nothing that is counted.
LEMMA AccountsStay ==
  ASSUME ReportInv, UNCHANGED <<book, cash, waiting, metrics, bus, data, rec>>,
         \/ UNCHANGED act
         \/ Untouched /\ act' = [act EXCEPT ![Watcher] = [Asleep EXCEPT !.at = "loop"]]
  PROVE  /\ ReportTypes' /\ MoneyAddsUp' /\ VolumesAddUp' /\ EventsAddUp' /\ SubmittedAddUp'
         /\ WatcherIsClean'
<1>1. /\ FloorInv /\ ReportTypes /\ WatcherIsClean
      /\ VolumesAddUp /\ MoneyAddsUp /\ EventsAddUp /\ SubmittedAddUp
  BY DEF ReportInv, RunInv
<1>2. ReportTypes'
  BY <1>1 DEF ReportTypes, Events, TradeEvents
<1>3. VolumesAddUp'
  <2>1. ASSUME NEW s \in Symbols
        PROVE  data'[s].volume = SumOver(TradedIn(s), rec'.trades)
    BY <1>1 DEF VolumesAddUp
  <2> QED BY <2>1 DEF VolumesAddUp, SumOver, TradedIn, TradeEvents
<1>4. EventsAddUp'
  <2>1. /\ metrics'.rejected = rec'.rejected + SumOver(Told("rejected"), bus')
        /\ metrics'.expired = rec'.expired + SumOver(Told("expired"), bus')
    BY <1>1 DEF EventsAddUp
  <2> QED BY <2>1 DEF EventsAddUp, Told, Events, TradeEvents, SumOver
<1>5. (\A b \in Bots : Pending(b)' = Pending(b)) /\ Opened' = Opened /\ WatcherIsClean'
  <2>1. CASE UNCHANGED act
    <3>1. \A b \in Bots : Pending(b)' = Pending(b)
      BY <2>1 DEF Pending, OwedAt, TradeFrom, EarnedBy, Events, TradeEvents, book
    <3>2. Opened' = Opened
      BY <2>1 DEF Opened, OpenAt
    <3> QED BY <1>1, <2>1, <3>1, <3>2 DEF WatcherIsClean
  <2>2. CASE Untouched /\ act' = [act EXCEPT ![Watcher] = [Asleep EXCEPT !.at = "loop"]]
    <3> DEFINE a == [Asleep EXCEPT !.at = "loop"]
    <3>1. a.at = "loop" /\ a.todo = <<>> /\ a.expired = {}
      BY PauseIs DEF WatcherPauses
    <3>2. act' = [act EXCEPT ![Watcher] = a]
      BY <2>2
    <3> HIDE DEF a
    <3>3. Watcher \in Threads /\ Watcher \notin Bots /\ DOMAIN act = Threads
      BY <1>1, BotAssumption DEF Threads, FloorInv, ActsFit
    <3>4. act'[Watcher] = a /\ \A b \in Bots : act'[b] = act[b]
      BY <3>2, <3>3 DEF Threads
    <3>5. /\ \A b \in Bots : act[b].at = "asleep" /\ act'[b].at = "asleep"
          /\ act[Watcher].at \in WatcherPauses /\ act'[Watcher].at = "loop"
      BY <2>2, <3>1, <3>4 DEF Untouched
    <3>6. WatcherIsClean'
      BY <3>1, <3>4 DEF WatcherIsClean
    <3>7. \A t \in Threads : act[t].at # "publish" /\ act'[t].at # "publish"
      BY <3>5 DEF Threads, WatcherPauses
    <3>8. \A b \in Bots : Pending(b) = 0
      BY <3>7, NothingPending
    <3>9. \A b \in Bots : Pending(b)' = 0
      BY <3>7, NothingNext
    <3>10. Opened = 0
      BY <1>1, <3>5, NothingOpen
    <3>11. Opened' = 0
      <4>1. act'[Watcher].at \in WatcherPauses'
        BY <3>5 DEF WatcherPauses
      <4> QED BY <3>5, <3>6, <4>1, NothingNext
    <3> QED BY <3>6, <3>8, <3>9, <3>10, <3>11
  <2> QED BY <2>1, <2>2
<1>6. MoneyAddsUp'
  <2> SUFFICES ASSUME NEW b \in Bots
               PROVE  cash'[b] = InitialCash + SumOver(EarnedBy(b), rec'.trades)
                                 + SumOver(EarnedBy(b), bus') + Pending(b)'
    BY DEF MoneyAddsUp, EarnedBy, Events, TradeEvents, SumOver
  <2> QED BY <1>1, <1>5 DEF MoneyAddsUp
<1>7. SubmittedAddUp'
  BY <1>1, <1>5 DEF SubmittedAddUp
<1> QED BY <1>2, <1>3, <1>4, <1>5, <1>6, <1>7

LEMMA SampledOnce ==
  ASSUME TakeSample
  PROVE  /\ (\A b \in Bots : first[b] = {InitialCash}) => \A b \in Bots : first'[b] = {InitialCash}
         /\ (\A b \in Bots : first[b] = {} /\ cash[b] = InitialCash)
              => \A b \in Bots : first'[b] = {InitialCash}
BY DEF TakeSample

\* The main thread goes on only when what it waits for has happened.
LEMMA MainPhases ==
  ASSUME Phases, MainStep
  PROVE  Phases'
<1> USE DEF Main, recorder
<1>1. CASE StartWatcher
  <2>1. Untouched /\ report = {} /\ main' = "record"
    BY <1>1 DEF StartWatcher, Phases, Early
  <2>2. Untouched'
    <3> DEFINE a == [Asleep EXCEPT !.at = "loop"]
    <3>1. Become(Watcher, a) /\ UNCHANGED <<running, waiting, bus, cash, first, sampler>>
      BY <1>1 DEF StartWatcher
    <3>2. a.at \in WatcherPauses
      BY PauseIs DEF WatcherPauses
    <3> HIDE DEF a
    <3>3. \A b \in Bots : b # Watcher
      BY BotAssumption
    <3>4. act' = [act EXCEPT ![Watcher] = a]
      BY <3>1 DEF Become
    <3>5. \A b \in Bots : act'[b].at = "asleep"
      BY <2>1, <3>3, <3>4 DEF Untouched
    <3>6. act'[Watcher].at \in WatcherPauses
      BY <2>1, <3>2, <3>4 DEF Untouched
    <3> QED BY <2>1, <3>1, <3>5, <3>6 DEF Untouched
  <2>3. report' = {}
    BY <1>1, <2>1 DEF StartWatcher
  <2> QED BY <2>1, <2>2, <2>3 DEF Phases, Early, Late
<1>2. CASE StartRecorder
  <2>1. Untouched /\ report = {} /\ main' = "launch"
    BY <1>2 DEF StartRecorder, Phases, Early
  <2>2. TakeSample /\ subscribed' = TRUE /\ report' = report
    BY <1>2 DEF StartRecorder
  <2>3. \A b \in Bots : first'[b] = {InitialCash}
    BY <2>1, <2>2, SampledOnce DEF Untouched
  <2> QED BY <2>1, <2>2, <2>3 DEF Phases, Early, Late
<1>3. CASE StartBots
  <2>1. /\ main = "launch" /\ main' = "stop" /\ running' = Bots /\ UNCHANGED <<subscribed, first, report>>
    BY <1>3 DEF StartBots
  <2>2. BotsJoined'
    BY <2>1 DEF BotsJoined
  <2> QED BY <2>1, <2>2 DEF Phases, Early, Late
<1>4. CASE JoinBot
  <2>1. /\ main = "join" /\ main' = "stop" /\ UNCHANGED <<subscribed, first, report>>
        /\ BotsJoined'
    BY <1>4 DEF JoinBot, BotsJoined
  <2> QED BY <2>1 DEF Phases, Early, Late
<1>5. CASE StopWatcher
  <2>1. /\ main = "stop" /\ main' = "join watcher" /\ running' = {}
        /\ UNCHANGED <<subscribed, first, report, act, running>>
    BY <1>5 DEF StopWatcher
  <2>2. BotsJoined'
    BY <2>1 DEF Phases, BotsJoined
  <2> QED BY <2>1, <2>2 DEF Phases, Early, Late
<1>6. CASE JoinWatcher
  <2>1. /\ main = "join watcher" /\ main' = "stop recorder" /\ act'[Watcher].at = "ended"
        /\ UNCHANGED <<subscribed, first, report, act, running>>
    BY <1>6 DEF JoinWatcher
  <2>2. BotsJoined' /\ running' = {}
    BY <2>1 DEF Phases, BotsJoined
  <2> QED BY <2>1, <2>2 DEF Phases, Early, Late
<1>7. ASSUME StopRecorder \/ NotifySampler \/ JoinSampler \/ Flush PROVE Phases'
  <2>1. /\ main \in {"stop recorder", "notify", "join sampler", "flush"}
        /\ main' \in {"notify", "join sampler", "flush", "sample"}
        /\ UNCHANGED <<subscribed, first, report, act, running>>
        /\ main' = "sample" => bus' = <<>>
    BY <1>7 DEF StopRecorder, NotifySampler, JoinSampler, Flush
  <2>2. BotsJoined'
    BY <2>1 DEF Phases, BotsJoined, Late
  <2> QED BY <2>1, <2>2 DEF Phases, Early, Late
<1>8. CASE LastSample
  <2>1. /\ main = "sample" /\ main' = "read" /\ TakeSample
        /\ UNCHANGED <<subscribed, report, act, running, bus>>
    BY <1>8 DEF LastSample
  <2>2. \A b \in Bots : first[b] = {InitialCash}
    BY <2>1 DEF Phases, Early
  <2>3. BotsJoined' /\ \A b \in Bots : first'[b] = {InitialCash}
    BY <2>1, <2>2, SampledOnce DEF Phases, BotsJoined, Late
  <2> QED BY <2>1, <2>3 DEF Phases, Early, Late
<1>9. CASE ReadEngine
  <2>1. /\ main = "read" /\ main' = "write"
        /\ final' = [cash |-> cash', waiting |-> Cardinality(waiting')]
        /\ UNCHANGED <<subscribed, first, report, act, running, bus>>
    BY <1>9 DEF ReadEngine
  <2>2. BotsJoined'
    BY <2>1 DEF Phases, BotsJoined, Late
  <2> QED BY <2>1, <2>2 DEF Phases, Early, Late
<1>10. CASE WriteReport
  <2>1. /\ main = "write" /\ main' = "ended"
        /\ report' = {[trades |-> rec.trades, summary |-> Summary, volume |-> SymbolLines]}
        /\ UNCHANGED <<subscribed, first, act, running, bus, cash, waiting, final, rec, metrics, data>>
    BY <1>10 DEF WriteReport
  <2>2. BotsJoined'
    BY <2>1 DEF Phases, BotsJoined, Late
  <2>3. report' = {[trades |-> rec.trades, summary |-> Summary, volume |-> SymbolLines]}'
    BY <2>1 DEF Summary, SymbolLines
  <2> QED BY <2>1, <2>2, <2>3 DEF Phases, Early, Late
<1>11. ASSUME NEW b \in Bots, StopBot(b) PROVE Phases'
  <2>1. /\ main = "stop" /\ main' = "join" /\ UNCHANGED <<subscribed, first, report>>
    BY <1>11 DEF StopBot
  <2> QED BY <2>1 DEF Phases, Early, Late
<1> QED BY <1>1, <1>2, <1>3, <1>4, <1>5, <1>6, <1>7, <1>8, <1>9, <1>10, <1>11 DEF MainStep

LEMMA MainKeepsRecords ==
  ASSUME MainStep
  PROVE  UNCHANGED rec
<1> USE DEF recorder
<1>1. ASSUME NEW b \in Bots, StopBot(b) PROVE UNCHANGED rec
  BY <1>1 DEF StopBot
<1> QED BY <1>1 DEF MainStep, StartWatcher, StartRecorder, StartBots, JoinBot, StopWatcher,
          JoinWatcher, StopRecorder, NotifySampler, JoinSampler, Flush, LastSample,
          ReadEngine, WriteReport

-----------------------------------------------------------------------------
\* ReportInv is an invariant of a run.

\* The counts of the first state: no event, no trade, no order.
LEMMA ActsAtFirst ==
  ASSUME FloorInit
  PROVE  /\ \A b \in Bots : act[b].at = "asleep"
         /\ act[Watcher].at = "off" /\ WatcherIsClean
         /\ Opened = 0 /\ \A b : Pending(b) = 0
<1> DEFINE a == [Asleep EXCEPT !.at = "off"]
           s == [Asleep EXCEPT !.at = "asleep"]
<1>1. Watcher \in Threads /\ Watcher \notin Bots /\ \A b \in Bots : b \in Threads
  BY BotAssumption DEF Threads
<1>2. act[Watcher] = a
  BY <1>1 DEF FloorInit
<1>3. \A b \in Bots : act[b] = s
  BY <1>1 DEF FloorInit
<1>4. a.at = "off" /\ a.todo = <<>> /\ a.expired = {}
  BY PauseIs DEF WatcherPauses
<1>5. s.at = "asleep"
  BY DEF Asleep
<1> HIDE DEF a, s
<1>6. WatcherIsClean
  BY <1>2, <1>4 DEF WatcherIsClean
<1>7. \A t \in Threads : act[t].at # "publish"
  BY <1>2, <1>3, <1>4, <1>5 DEF Threads
<1>8. act[Watcher].at \in WatcherPauses
  BY <1>2, <1>4 DEF WatcherPauses
<1>9. Opened = 0
  BY <1>3, <1>5, <1>6, <1>8, NothingOpen
<1>10. \A b : Pending(b) = 0
  BY <1>7, NothingPending
<1> QED BY <1>2, <1>3, <1>4, <1>5, <1>6, <1>9, <1>10

LEMMA ReportStarts == Init => ReportInv
<1> SUFFICES ASSUME Init PROVE ReportInv
  OBVIOUS
<1>1. RunInv
  BY RunStarts
<1>2. FloorInit
  BY DEF Init
<1>3. /\ bus = <<>> /\ waiting = {} /\ running = {} /\ \A b \in Bots : cash[b] = InitialCash
      /\ metrics = [submitted |-> 0, accepted |-> 0, rejected |-> 0, queued |-> 0, expired |-> 0]
  BY <1>2 DEF FloorInit
<1>4. /\ main = "start" /\ sampler = "off" /\ report = {}
      /\ data = [s \in Symbols |-> [last |-> 0, volume |-> 0, notional |-> 0]]
      /\ \A b \in Bots : first[b] = {}
      /\ rec = [trades |-> <<>>, rejected |-> 0, queued |-> 0, expired |-> 0]
  BY DEF Init
<1>5. ReportTypes
  BY <1>3, <1>4 DEF ReportTypes
<1>6. MoneyAddsUp
  <2>1. ASSUME NEW b \in Bots
        PROVE  cash[b] = InitialCash + SumOver(EarnedBy(b), rec.trades)
                                     + SumOver(EarnedBy(b), bus) + Pending(b)
    <3>1. SumOver(EarnedBy(b), rec.trades) = 0 /\ SumOver(EarnedBy(b), bus) = 0
      BY <1>3, <1>4, SumOverNone
    <3>2. Pending(b) = 0
      BY <1>2, ActsAtFirst
    <3>3. cash[b] = InitialCash /\ InitialCash \in Int
      BY <1>3, BotAssumption
    <3> QED BY <3>1, <3>2, <3>3
  <2> QED BY <2>1 DEF MoneyAddsUp
<1>7. VolumesAddUp
  <2>1. ASSUME NEW s \in Symbols PROVE data[s].volume = SumOver(TradedIn(s), rec.trades)
    <3>1. SumOver(TradedIn(s), rec.trades) = 0
      BY <1>4, SumOverNone
    <3> QED BY <1>4, <3>1
  <2> QED BY <2>1 DEF VolumesAddUp
<1>8. EventsAddUp
  <2>1. SumOver(Told("rejected"), bus) = 0 /\ SumOver(Told("expired"), bus) = 0
    BY <1>3, SumOverNone
  <2> QED BY <1>3, <1>4, <2>1 DEF EventsAddUp
<1>9. SubmittedAddUp
  <2>1. Cardinality(waiting) = 0 /\ Opened = 0
    BY <1>2, <1>3, FS_EmptySet, ActsAtFirst
  <2> QED BY <1>3, <2>1 DEF SubmittedAddUp
<1>10. WatcherIsClean /\ Untouched
  BY <1>2, <1>3, <1>4, ActsAtFirst DEF Untouched, WatcherPauses
<1>11. Phases
  BY <1>4, <1>10 DEF Phases, Early, Late
<1> QED BY <1>1, <1>5, <1>6, <1>7, <1>8, <1>9, <1>10, <1>11 DEF ReportInv

\* Only the start of the watcher, before anything happens, touches a thread.
LEMMA MainActs ==
  ASSUME Phases, MainStep
  PROVE  \/ UNCHANGED act
         \/ Untouched /\ act' = [act EXCEPT ![Watcher] = [Asleep EXCEPT !.at = "loop"]]
<1> USE DEF Main, recorder
<1>1. CASE StartWatcher
  BY <1>1 DEF StartWatcher, Become, Phases, Early
<1>2. ASSUME StartRecorder \/ StartBots \/ JoinBot \/ StopWatcher \/ JoinWatcher PROVE UNCHANGED act
  BY <1>2 DEF StartRecorder, StartBots, JoinBot, StopWatcher, JoinWatcher
<1>3. ASSUME \/ StopRecorder \/ NotifySampler \/ JoinSampler \/ Flush \/ LastSample
             \/ ReadEngine \/ WriteReport
      PROVE  UNCHANGED act
  BY <1>3 DEF StopRecorder, NotifySampler, JoinSampler, Flush, LastSample, ReadEngine, WriteReport
<1>4. ASSUME NEW b \in Bots, StopBot(b) PROVE UNCHANGED act
  BY <1>4 DEF StopBot
<1> QED BY <1>1, <1>2, <1>3, <1>4 DEF MainStep

LEMMA MainReports ==
  ASSUME ReportInv, RunInv', MainStep
  PROVE  ReportInv'
<1>1. Phases
  BY DEF ReportInv
<1>2. UNCHANGED <<book, cash, waiting, metrics, bus, data, rec>>
  BY MainStepIs, MainKeepsRecords
<1>3. \/ UNCHANGED act
      \/ Untouched /\ act' = [act EXCEPT ![Watcher] = [Asleep EXCEPT !.at = "loop"]]
  BY <1>1, MainActs
<1>4. /\ ReportTypes' /\ MoneyAddsUp' /\ VolumesAddUp' /\ EventsAddUp' /\ SubmittedAddUp'
      /\ WatcherIsClean'
  BY <1>2, <1>3, AccountsStay
<1>5. Phases'
  BY <1>1, MainPhases
<1> QED BY <1>4, <1>5 DEF ReportInv

\* Of a step that leaves everything but the samples alone.
LEMMA PhasesStay ==
  ASSUME Phases,
         UNCHANGED <<running, waiting, bus, cash, act, main, subscribed, final, report, data,
                     metrics, rec>>,
         \/ UNCHANGED <<first, sampler>>
         \/ sampler # "off" /\ (TakeSample \/ UNCHANGED first)
  PROVE  Phases'
<1>1. BotsJoined => BotsJoined'
  BY DEF BotsJoined
<1>2. Untouched => Untouched'
  BY DEF Untouched, WatcherPauses
<1>3. (\A b \in Bots : first[b] = {InitialCash}) => \A b \in Bots : first'[b] = {InitialCash}
  BY SampledOnce
<1>4. main \in Early => main' \in Early /\ Untouched'
  BY <1>2 DEF Phases, Early
<1>5. main' \notin Early => subscribed' /\ \A b \in Bots : first'[b] = {InitialCash}
  BY <1>3 DEF Phases, Early
<1>6. main' \in {"stop", "join watcher"} \cup Late => BotsJoined'
  BY <1>1 DEF Phases
<1>7. report' = IF main' = "ended"
                  THEN {[trades |-> rec.trades, summary |-> Summary, volume |-> SymbolLines]}'
                  ELSE {}
  BY DEF Phases, Summary, SymbolLines
<1> QED BY <1>4, <1>5, <1>6, <1>7 DEF Phases, Early, Late

LEMMA ReportKeeps == ReportInv /\ [Next]_vars => ReportInv'
<1> SUFFICES ASSUME ReportInv, [Next]_vars PROVE ReportInv'
  OBVIOUS
<1>1. RunInv' /\ Phases
  BY RunKeeps DEF ReportInv
<1>2. CASE Deliver
  BY <1>1, <1>2, DeliverReports
<1>3. CASE MainStep
  BY <1>1, <1>3, MainReports
<1>4. ASSUME NEW t \in Threads, ThreadStep(t) PROVE ReportInv'
  BY <1>1, <1>4, ThreadStepReports
<1>5. ASSUME TimesOut \/ UNCHANGED vars PROVE ReportInv'
  <2>1. /\ UNCHANGED <<book, cash, waiting, metrics, bus, running, act, main, data, subscribed,
                       rec, final, report>>
        /\ \/ UNCHANGED <<first, sampler>>
           \/ sampler # "off" /\ (TakeSample \/ UNCHANGED first)
    <3>1. CASE TimesOut
      <4>1. SamplerGo("waiting", IF recording THEN "waiting" ELSE "ended")
        BY <3>1 DEF TimesOut
      <4>2. sampler # "off" /\ (TakeSample \/ UNCHANGED first)
        BY <3>1, <4>1 DEF TimesOut, SamplerGo
      <4>3. UNCHANGED <<floor, main, data, subscribed, rec, final, report>>
        BY <4>1 DEF SamplerGo
      <4>4. UNCHANGED <<book, cash, waiting, metrics, bus, running, act>>
        BY <4>3 DEF floor
      <4> QED BY <4>2, <4>3, <4>4
    <3>2. CASE UNCHANGED vars
      BY <3>2 DEF vars, floor, recorder
    <3> QED BY <1>5, <3>1, <3>2
  <2>2. /\ ReportTypes' /\ MoneyAddsUp' /\ VolumesAddUp' /\ EventsAddUp' /\ SubmittedAddUp'
        /\ WatcherIsClean'
    BY <2>1, AccountsStay
  <2>3. Phases'
    BY <1>1, <2>1, PhasesStay
  <2> QED BY <1>1, <2>2, <2>3 DEF ReportInv
<1> QED BY <1>2, <1>3, <1>4, <1>5 DEF Next

\* When the report is written nothing is on its way: what is recorded is all there is.
LEMMA ReportIsComplete == ReportInv => ReportAddsUp
<1> SUFFICES ASSUME ReportInv, NEW r \in report PROVE TradesExplainTheMoney(r) /\ OrdersAddUp(r)
  BY DEF ReportAddsUp
<1>1. /\ Phases /\ ReportTypes /\ WatcherIsClean
      /\ MoneyAddsUp /\ VolumesAddUp /\ EventsAddUp /\ SubmittedAddUp
  BY DEF ReportInv
<1>2. /\ main = "ended"
      /\ r = [trades |-> rec.trades, summary |-> Summary, volume |-> SymbolLines]
  BY <1>1 DEF Phases
<1>3. /\ bus = <<>> /\ act[Watcher].at = "ended" /\ running = {} /\ BotsJoined
      /\ final = [cash |-> cash, waiting |-> Cardinality(waiting)]
      /\ \A b \in Bots : first[b] = {InitialCash}
  BY <1>1, <1>2 DEF Phases, Early, Late
<1>4. Opened = 0 /\ \A b : Pending(b) = 0
  <2>1. \A b \in Bots : act[b].at = "asleep"
    BY <1>3 DEF BotsJoined
  <2>2. act[Watcher].at \in WatcherPauses
    BY <1>3 DEF WatcherPauses
  <2>3. \A t \in Threads : act[t].at # "publish"
    BY <1>3, <2>1 DEF Threads
  <2>4. Opened = 0
    BY <1>1, <2>1, <2>2, NothingOpen
  <2>5. \A b : Pending(b) = 0
    BY <2>3, NothingPending
  <2> QED BY <2>4, <2>5
<1>5. \A v : SumOver(v, bus) = 0
  BY <1>3, SumOverNone
<1>6. r.summary.cash = cash /\ r.trades = rec.trades /\ r.volume = SymbolLines
  BY <1>2, <1>3 DEF Summary
<1>7. ASSUME NEW b \in Bots PROVE first[b] = {r.summary.cash[b] - Gain(b, r.trades)}
  <2> DEFINE gain == SumOver(EarnedBy(b), rec.trades)
  <2>1. gain \in Int /\ Gain(b, rec.trades) = gain
    BY <1>1, RecordedAre, GainIs
  <2>2. cash[b] = InitialCash + gain + SumOver(EarnedBy(b), bus) + Pending(b)
    BY <1>1 DEF MoneyAddsUp
  <2> HIDE DEF gain
  <2>3. InitialCash \in Int
    BY BotAssumption
  <2>4. cash[b] = InitialCash + gain
    BY <1>4, <1>5, <2>1, <2>2, <2>3
  <2>5. cash[b] - gain = InitialCash
    BY <2>1, <2>3, <2>4
  <2> QED BY <1>3, <1>6, <2>1, <2>5
<1>8. ASSUME NEW s \in Symbols PROVE r.volume[s] = Volume(s, r.trades)
  <2>1. Volume(s, rec.trades) = SumOver(TradedIn(s), rec.trades)
    BY <1>1, RecordedAre, VolumeIs
  <2>2. SymbolLines[s] = data[s].volume
    BY DEF SymbolLines
  <2> QED BY <1>1, <1>6, <2>1, <2>2 DEF VolumesAddUp
<1>9. OrdersAddUp(r)
  <2>1. /\ r.summary.submitted = metrics.submitted /\ r.summary.accepted = metrics.accepted
        /\ r.summary.rejected = rec.rejected /\ r.summary.expired = rec.expired
        /\ r.summary.waiting = Cardinality(waiting)
    BY <1>2, <1>3 DEF Summary
  <2>2. metrics.rejected = rec.rejected /\ metrics.expired = rec.expired
    BY <1>1, <1>5, RecordedAre DEF EventsAddUp
  <2>3. metrics.submitted = metrics.accepted + metrics.rejected + metrics.expired
                            + Cardinality(waiting) + 0
    BY <1>1, <1>4 DEF SubmittedAddUp
  <2>4. /\ metrics.accepted \in Nat /\ metrics.rejected \in Nat /\ metrics.expired \in Nat
        /\ Cardinality(waiting) \in Nat
    BY CountsAre DEF ReportInv, RunInv
  <2> QED BY <2>1, <2>2, <2>3, <2>4 DEF OrdersAddUp
<1> QED BY <1>7, <1>8, <1>9 DEF TradesExplainTheMoney

\* In every run, whatever the bots and the watcher do and in whichever order they are
\* scheduled, the report adds up: its trades take every bot from the cash it was first
\* sampled with to the cash it ends with, its volumes are those of its trades, and
\* every order submitted was accepted, rejected, dropped, or still waits.
THEOREM ReportIsRight == Spec => []ReportAddsUp
<1>1. Init => ReportInv
  BY ReportStarts
<1>2. ReportInv /\ [Next]_vars => ReportInv'
  BY ReportKeeps
<1>3. ReportInv => ReportAddsUp
  BY ReportIsComplete
<1> QED BY <1>1, <1>2, <1>3, PTL DEF Spec
=============================================================================
