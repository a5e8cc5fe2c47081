----------------------------- MODULE BotTrading -----------------------------
(***************************************************************************)
(* The bots of simulation.x on the engine (bot.cpp, bot.hpp), with the     *)
(* watcher that releases their stops.  A bot is a client of its own, on a  *)
(* thread of its own.  The books are those of AtomicBook, which OrderBook  *)
(* implements; a command of the engine is cut where another thread can see *)
(* the difference in what the bots and the report read, and MatchingEngine *)
(* cuts it further.  Random choices are any choice.                        *)
(***************************************************************************)
EXTENDS Integers, SequencesExt

CONSTANTS
  Symbols,
  NoiseTraders, MomentumBots, MarketMakers, Watcher,   \* the threads
  NoiseOrders,             \* step -> sides, kinds and expiries a noise trader chooses from
  Prices,
  QuoteSizes, TakeSizes,   \* quantities of a quote, of any other order
  HalfSpread, StopOffset,  \* a quote and a stop, away from the reference price
  WindowSize,              \* kWindowSize
  InitialPrice, InitialCash, InitialShares,
  MaxSteps,                \* bound: bot -> steps it takes
  MaxOrders,               \* the orders these steps can submit
  MaxBacklog               \* bound: the events published and not yet delivered

Bots == NoiseTraders \cup MomentumBots \cup MarketMakers
Threads == Bots \cup {Watcher}

ASSUME BotAssumption ==
  /\ IsFiniteSet(Bots) /\ Bots # {} /\ Symbols # {}
  /\ NoiseTraders \cap MomentumBots = {}
  /\ (NoiseTraders \cup MomentumBots) \cap MarketMakers = {}
  /\ Watcher \notin Bots
  /\ Prices \subseteq Nat \ {0}
  /\ QuoteSizes \cup TakeSizes \subseteq Nat \ {0}
  /\ QuoteSizes \cup TakeSizes # {}
  /\ InitialCash \in Int
  /\ NoiseOrders \in Seq(SUBSET [side : {"BUY", "SELL"}, expires : BOOLEAN,
                                  kind : {"MARKET", "LIMIT", "STOP", "LIMIT_STOP"}])
  /\ MaxSteps \in [Bots -> Nat]
  /\ \A b \in NoiseTraders : MaxSteps[b] <= Len(NoiseOrders)
  /\ MaxOrders \in Nat
  /\ WindowSize \in Nat \ {0, 1}
  /\ InitialPrice \in Prices

VARIABLES
  nextId, order, left, entered, queue, trades,   \* the books (AtomicBook)
  cash, holding,   \* bot -> cash; bot -> symbol -> shares
  lastPrice, waiting,
  metrics,         \* MetricsRegistry
  bus,             \* events published and not yet delivered
  running,         \* the bots whose running_ is set
  steps,
  act,             \* thread -> where it is in its step
  quote,           \* market maker -> last_quote_symbol_ and the two orders
  window           \* momentum bot -> symbol -> price_history_

book == <<nextId, order, left, entered, queue, trades>>
floor == <<book, cash, holding, lastPrice, waiting, metrics, bus, running, steps,
           act, quote, window>>

Book == INSTANCE AtomicBook WITH
  Clients <- Bots, Kinds <- {"MARKET", "LIMIT", "STOP", "LIMIT_STOP"},
  Quantities <- QuoteSizes \cup TakeSizes

NoOrder == 0
Sides == {"BUY", "SELL"}
Opposite(side) == IF side = "BUY" THEN "SELL" ELSE "BUY"

\* Of expires_at, only whether there is one.
Order(b, side, kind, s, quantity, price, expires) ==
  [client |-> b, side |-> side, kind |-> kind, symbol |-> s,
   quantity |-> quantity, price |-> price, expires |-> expires]

Send(events) ==
  /\ Len(bus) + Len(events) <= MaxBacklog
  /\ bus' = bus \o events

Resting(id) == id \in 1 .. nextId - 1 /\ Book!B!Resting(id)

\* A price a little off the reference price, never below the smallest.
Off(p) == {IF p < 1 THEN 1 ELSE p} \cap Prices

-----------------------------------------------------------------------------
\* What the engine tells of an order.

PassesRiskCheck(o) ==
  IF o.side = "SELL" THEN holding[o.client][o.symbol] >= o.quantity
  ELSE IF o.kind = "MARKET" THEN cash[o.client] * 10 >= o.quantity * lastPrice[o.symbol] * 11
  ELSE cash[o.client] >= o.quantity * o.price

\* The release band of a stop, and of a noise trader's LIMIT_STOP.
InBand(o) ==
  LET p == lastPrice[o.symbol]
  IN  CASE o.kind \in {"MARKET", "LIMIT"} -> TRUE
        [] o.kind = "STOP" -> IF o.side = "BUY" THEN p >= o.price ELSE p <= o.price
        [] o.kind = "LIMIT_STOP" -> p \in o.price - StopOffset .. o.price + StopOffset

-----------------------------------------------------------------------------
\* The threads.  A bot asleep takes a step while running_ is set; a step ends in
\* orders to submit, one after the other.

Asleep == [at |-> "asleep", todo |-> <<>>, job |-> NoOrder, settled |-> 0,
           expired |-> {}, last |-> FALSE]

Become(t, record) == act' = [act EXCEPT ![t] = record]

\* Back from an order: the next one, or the end of the step.
AfterOrder(t) ==
  LET rest == Tail(act[t].todo)
  IN  [act[t] EXCEPT !.todo = rest, !.job = NoOrder, !.settled = 0,
         !.at = IF t = Watcher THEN "release" ELSE IF rest = <<>> THEN "asleep" ELSE "submit"]

Wakes(b) ==
  /\ b \in running
  /\ act[b].at = "asleep"
  /\ steps[b] < MaxSteps[b]
  /\ steps' = [steps EXCEPT ![b] = @ + 1]

WillSubmit(b, orders) ==
  Become(b, IF orders = <<>> THEN Asleep ELSE [Asleep EXCEPT !.at = "submit", !.todo = orders])

NoisePrices(kind, side, p) ==
  CASE kind = "MARKET" -> {0}
    [] kind = "LIMIT" -> Off(p - HalfSpread) \cup Off(p + HalfSpread)
    [] kind = "STOP" -> Off(IF side = "SELL" THEN p - StopOffset ELSE p + StopOffset)
    [] kind = "LIMIT_STOP" -> {p}

NoiseStep(b) ==
  /\ Wakes(b)
  /\ \E s \in Symbols, choice \in NoiseOrders[steps[b] + 1], q \in TakeSizes :
       \E p \in NoisePrices(choice.kind, choice.side, lastPrice[s]) :
         WillSubmit(b, <<Order(b, choice.side, choice.kind, s, q, p, choice.expires)>>)
  /\ UNCHANGED <<book, cash, holding, lastPrice, waiting, metrics, bus, running, quote, window>>

\* The window moves on by one price; a change of it is followed, and protected.
MomentumStep(b) ==
  /\ Wakes(b)
  /\ \E s \in Symbols, q \in TakeSizes :
       LET p == lastPrice[s]
           longer == Append(window[b][s], p)
           seen == IF Len(longer) > WindowSize THEN Tail(longer) ELSE longer
           change == p - Head(seen)
           side == IF change > 0 THEN "BUY" ELSE "SELL"
       IN  /\ window' = [window EXCEPT ![b][s] = seen]
           /\ IF change = 0
                THEN WillSubmit(b, <<>>)
                ELSE \E trigger \in Off(IF side = "BUY" THEN p - StopOffset ELSE p + StopOffset) :
                       WillSubmit(b, <<Order(b, side, "MARKET", s, q, 0, FALSE),
                                       Order(b, Opposite(side), "STOP", s, q, trigger, TRUE)>>)
  /\ UNCHANGED <<book, cash, holding, lastPrice, waiting, metrics, bus, running, quote>>

\* cancel_order of a remembered quote, in the book of last_quote_symbol_.  It may be
\* gone by now.
Cancellable(b, id) == Resting(id) /\ order[id].symbol = quote[b].symbol

CancelQuote(b, side) ==
  /\ IF Cancellable(b, quote[b][side]) THEN Book!Cancel(quote[b][side]) ELSE UNCHANGED book
  /\ quote' = [quote EXCEPT ![b][side] = NoOrder]
  /\ UNCHANGED <<cash, holding, lastPrice, waiting, metrics, bus, running, window>>

CancelBuy(b) ==
  /\ Wakes(b)
  /\ CancelQuote(b, "BUY")
  /\ Become(b, [Asleep EXCEPT !.at = "cancel"])

CancelSell(b) ==
  /\ act[b].at = "cancel"
  /\ CancelQuote(b, "SELL")
  /\ Become(b, [Asleep EXCEPT !.at = "quote"])
  /\ UNCHANGED steps

PostQuotes(b) ==
  /\ act[b].at = "quote"
  /\ \E s \in Symbols, bought \in QuoteSizes, sold \in QuoteSizes :
       LET mid == lastPrice[s]
       IN  \E bid \in Off(mid - HalfSpread), ask \in Off(mid + HalfSpread) :
             /\ quote' = [quote EXCEPT ![b].symbol = s]
             /\ WillSubmit(b, <<Order(b, "BUY", "LIMIT", s, bought, bid, FALSE),
                                Order(b, "SELL", "LIMIT", s, sold, ask, FALSE)>>)
  /\ UNCHANGED <<book, cash, holding, lastPrice, waiting, metrics, bus, running, steps, window>>

-----------------------------------------------------------------------------
\* submit_order

Reject(b) ==
  /\ Send(<<[kind |-> "rejected"]>>)
  /\ metrics' = [metrics EXCEPT !.submitted = @ + 1, !.rejected = @ + 1]
  /\ Become(b, AfterOrder(b))
  /\ UNCHANGED waiting

Queue(b) ==
  /\ Send(<<[kind |-> "queued"]>>)
  /\ metrics' = [metrics EXCEPT !.submitted = @ + 1, !.queued = @ + 1]
  /\ waiting' = waiting \cup {nextId}
  /\ Become(b, AfterOrder(b))

SubmitOrder(b) ==
  /\ act[b].at = "submit"
  /\ LET o == Head(act[b].todo)
     IN  /\ Book!Build(o)
         /\ \/ ~PassesRiskCheck(o) /\ Reject(b)
            \/ PassesRiskCheck(o) /\ ~InBand(o) /\ Queue(b)
            \/ /\ PassesRiskCheck(o) /\ InBand(o)
               /\ metrics' = [metrics EXCEPT !.submitted = @ + 1]
               /\ Become(b, [act[b] EXCEPT !.at = "match", !.job = nextId])
               /\ UNCHANGED <<waiting, bus>>
  /\ UNCHANGED <<cash, holding, lastPrice, running, steps, quote, window>>

\* match_and_settle.  What a market maker does with the result touches nothing but
\* its own memory, and is done with the last step.

Filled(id) == SumFunction([k \in DOMAIN trades[id] |-> trades[id][k].quantity])

\* Slip: both quotes are stored in last_buy_order_.
RememberAsBuy(t, id) ==
  quote' = IF t \in MarketMakers /\ Filled(id) < order[id].quantity
             THEN [quote EXCEPT ![t].BUY = id] ELSE quote

\* A market maker remembers a quote of which something is left.
Remember(t, id) ==
  LET side == order[id].side
  IN  quote' = IF t \in MarketMakers /\ Filled(id) < order[id].quantity
                 THEN [quote EXCEPT ![t][side] = id] ELSE quote

Finished(t) == Remember(t, act[t].job) /\ Become(t, AfterOrder(t))

NotYet(t) == UNCHANGED quote /\ Become(t, [act[t] EXCEPT !.at = "settle"])

Match(t) ==
  /\ act[t].at = "match"
  /\ Book!Match(act[t].job)
  /\ metrics' = [metrics EXCEPT !.accepted = @ + 1]
  /\ IF trades'[act[t].job] = <<>> THEN Finished(t) ELSE NotYet(t)
  /\ UNCHANGED <<cash, holding, lastPrice, waiting, bus, running, steps, window>>

\* The trade thread t is about to settle, or has just settled.
TradeOf(id, k) ==
  LET trade == trades[id][k]
      party(side) == order[CHOOSE i \in {id, trade.maker} : order[i].side = side].client
  IN  [kind |-> "trade", symbol |-> order[id].symbol, quantity |-> trade.quantity,
       price |-> trade.price, buyer |-> party("BUY"), seller |-> party("SELL")]

Shift(f, from, to, n) ==
  [b \in Bots |-> f[b] - (IF b = from THEN n ELSE 0) + (IF b = to THEN n ELSE 0)]

Settle(t) ==
  /\ act[t].at = "settle"
  /\ LET trade == TradeOf(act[t].job, act[t].settled + 1)
         shares == [b \in Bots |-> holding[b][trade.symbol]]
         moved == Shift(shares, trade.seller, trade.buyer, trade.quantity)
     IN  /\ cash' = Shift(cash, trade.buyer, trade.seller, trade.quantity * trade.price)
         /\ holding' = [b \in Bots |-> [holding[b] EXCEPT ![trade.symbol] = moved[b]]]
  /\ Become(t, [act[t] EXCEPT !.at = "publish", !.settled = @ + 1])
  /\ UNCHANGED <<book, lastPrice, waiting, metrics, bus, running, steps, quote, window>>

Publish(t) ==
  /\ act[t].at = "publish"
  /\ LET trade == TradeOf(act[t].job, act[t].settled)
     IN  /\ lastPrice' = [lastPrice EXCEPT ![trade.symbol] = trade.price]
         /\ Send(<<trade>>)
  /\ IF act[t].settled = Len(trades[act[t].job]) THEN Finished(t) ELSE NotYet(t)
  /\ UNCHANGED <<book, cash, holding, waiting, metrics, running, steps, window>>

-----------------------------------------------------------------------------
\* run_release_watcher and try_release_waiting_orders.  When what expires does and
\* which symbols are dirty is left open: MatchingEngine has the clock and the dirty
\* set.

\* One turn of the loop: the flag is tested, and the scan of a watcher that is told
\* to stop is its last and a full one.
Scan(stop, S) ==
  /\ act[Watcher].at = "loop"
  /\ stop => S = Symbols
  /\ \E expired \in SUBSET {id \in waiting : order[id].symbol \in S /\ order[id].expires} :
       LET due == {id \in waiting \ expired : order[id].symbol \in S /\ InBand(order[id])}
           after == IF due \cup expired # {} THEN "release" ELSE IF stop THEN "ended" ELSE "loop"
       IN  /\ waiting' = waiting \ (due \cup expired)
           /\ Become(Watcher, [Asleep EXCEPT !.at = after, !.last = stop,
                                             !.todo = SetToSeq(due), !.expired = expired])
  /\ UNCHANGED <<book, cash, holding, lastPrice, metrics, bus, running, steps, quote, window>>

Release ==
  /\ act[Watcher].at = "release"
  /\ act[Watcher].todo # <<>>
  /\ Become(Watcher, [act[Watcher] EXCEPT !.at = "match", !.job = Head(act[Watcher].todo)])
  /\ UNCHANGED <<book, cash, holding, lastPrice, waiting, metrics, bus, running, steps, quote, window>>

\* The expired orders are published when the released ones have been matched.
Expire ==
  /\ act[Watcher].at = "release"
  /\ act[Watcher].todo = <<>>
  /\ LET n == Cardinality(act[Watcher].expired)
     IN  /\ Send([i \in 1 .. n |-> [kind |-> "expired"]])
         /\ metrics' = [metrics EXCEPT !.expired = @ + n]
  /\ Become(Watcher, [Asleep EXCEPT !.at = IF act[Watcher].last THEN "ended" ELSE "loop"])
  /\ UNCHANGED <<book, cash, holding, lastPrice, waiting, running, steps, quote, window>>

-----------------------------------------------------------------------------

FloorInit ==
  /\ Book!Init
  /\ cash = [b \in Bots |-> InitialCash]
  /\ holding = [b \in Bots |-> [s \in Symbols |-> InitialShares]]
  /\ lastPrice = [s \in Symbols |-> InitialPrice]
  /\ waiting = {}
  /\ metrics = [submitted |-> 0, accepted |-> 0, rejected |-> 0, queued |-> 0, expired |-> 0]
  /\ bus = <<>>
  /\ running = {}
  /\ steps = [b \in Bots |-> 0]
  /\ act = [t \in Threads |-> [Asleep EXCEPT !.at = IF t = Watcher THEN "off" ELSE "asleep"]]
  /\ quote = [b \in MarketMakers |-> [symbol |-> CHOOSE s \in Symbols : TRUE,
                                      BUY |-> NoOrder, SELL |-> NoOrder]]
  /\ window = [b \in MomentumBots |-> [s \in Symbols |-> <<>>]]

MatchAndSettle(t) == Match(t) \/ Settle(t) \/ Publish(t)

WatcherStep(stop) ==
  \/ \E S \in SUBSET Symbols : Scan(stop, S)
  \/ Release
  \/ MatchAndSettle(Watcher)
  \/ Expire

BotStep(b) ==
  \/ b \in NoiseTraders /\ NoiseStep(b)
  \/ b \in MomentumBots /\ MomentumStep(b)
  \/ b \in MarketMakers /\ (CancelBuy(b) \/ CancelSell(b) \/ PostQuotes(b))
  \/ SubmitOrder(b)
  \/ MatchAndSettle(b)

-----------------------------------------------------------------------------

\* "instead of maintaining just its current two-sided quote" (bot.cpp:140): between
\* two steps, every order a market maker has in a book is one of the two it
\* remembers and will cancel.
QuotesAreRemembered ==
  \A b \in MarketMakers :
    act[b].at = "asleep" =>
      {id \in 1 .. nextId - 1 : order[id].client = b /\ Resting(id)}
        \subseteq {quote[b].BUY, quote[b].SELL}
=============================================================================
