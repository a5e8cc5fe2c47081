--------------------------- MODULE MatchingEngine ---------------------------
(***************************************************************************)
(* The in-memory exchange of Src_Simulation (src/matching_engine.cpp) with *)
(* its registry of waiting orders (src/order_registry.cpp): worker threads *)
(* (a client's connection, a bot) submit and cancel orders, the watcher    *)
(* thread releases the waiting ones.  Each lock protects one table only,   *)
(* so every section under a lock is an action of its own and threads       *)
(* interleave between them.  The books are those of OrderBook: each step   *)
(* of a thread that touches one is a step of that module.                  *)
(*                                                                         *)
(* Events are not published here: the bus is a module of its own, and no   *)
(* step of the engine depends on it.  Metrics are left out.                *)
(***************************************************************************)
EXTENDS OrderBook

CONSTANTS
  Workers,         \* threads that submit and cancel
  Watcher,         \* the thread of watcher_loop / run_release_watcher
  Listed,          \* symbols passed to register_symbol before trading starts
  Requests,        \* the OrderRequests the workers may submit
  InitialCash,     \* ensure_client
  InitialHolding,  \* grant_initial_holdings, for each symbol
  InitialPrice,    \* the reference price given to register_symbol
  MaxTime          \* bound: ticks of the clock

Threads == Workers \cup {Watcher}

\* A request: the order, the optional trigger_lower and trigger_upper (0 when
\* absent), not_before_in (0 when absent) and expires_in (Never when absent).
Never == MaxTime + 1

RequestRecords ==
  [order : OrderRecords, lower : Prices \cup {0}, upper : Prices \cup {0},
   delay : Nat, life : Nat]

ASSUME EngineAssumption ==
  /\ Watcher \notin Workers
  /\ Listed \subseteq Symbols
  /\ Requests \subseteq RequestRecords
  /\ Requests # {}
  /\ InitialCash \in Nat
  /\ InitialHolding \in Nat
  /\ InitialPrice \in Prices
  /\ MaxTime \in Nat

VARIABLES
  request,    \* the request each order was built from
  stamp,      \* Order::submitted_at
  cash,       \* portfolios_: client -> cash
  holding,    \* portfolios_: symbol -> client -> shares
  lastPrice,  \* last_prices_
  dirty,      \* dirty_symbols_
  waiting,    \* waiting_by_symbol_: an order's bucket is its symbol's
  fate,       \* how an order ended other than by trading: what callers were told
  settled,    \* how many of its own trades were settled, per incoming order
  clock,      \* Clock::now(), in ticks
  pc,         \* where each thread is
  job,        \* the order each thread is working on
  scanTime,   \* the watcher's `now'
  toScan,     \* the buckets the watcher's pass has still to scan
  released    \* scan.released: taken out of the registry, not yet matched

engineVars == <<request, stamp, cash, holding, lastPrice, dirty, waiting, fate,
                settled, clock, pc, job, scanTime, toScan, released>>
vars == <<bookVars, engineVars>>

moneyVars == <<cash, holding, settled>>
watcherVars == <<scanTime, toScan, released>>

Idle == "idle"
Fates == {"none", "rejected", "cancelled", "expired"}
WorkerStates == {Idle, "risk", "band", "hold", "fallback",
                 "enter", "match", "settle", "price", "mark"}
WatcherStates == {Idle, "dirty scan", "full scan", "release",
                  "enter", "match", "settle", "price", "mark"}

-----------------------------------------------------------------------------

\* Slip: every STOP is released at or below its trigger, whatever its side.
BandIgnoringSide(r) ==
  {p \in Prices : (r.lower = 0 \/ p >= r.lower) /\ (r.upper = 0 \/ p <= r.upper)}

\* build_order: the reference prices in the release band.  A STOP with no
\* trigger_upper is triggered at its own price; a BUY stop at or above the
\* trigger, a SELL stop at or below it.  Other kinds take the band as given.
Band(r) ==
  LET trigger == IF r.upper # 0 THEN r.upper ELSE r.order.price
  IN  IF r.order.kind = "STOP"
        THEN {p \in Prices : IF r.order.side = "BUY" THEN p >= trigger ELSE p <= trigger}
        ELSE {p \in Prices : (r.lower = 0 \/ p >= r.lower) /\ (r.upper = 0 \/ p <= r.upper)}

NotBefore(id) == stamp[id] + request[id].delay
Expires(id) == stamp[id] + request[id].life

\* submit_order's own tests (a price is positive in every OrderRecord but that
\* of a MARKET order, for which it is not read).
Valid(o) == o.quantity > 0 /\ o.symbol \in Listed

\* Slip: every buy is valued at the last price.
PassesAtLastPrice(o) ==
  IF o.side = "SELL" THEN holding[o.symbol][o.client] >= o.quantity
  ELSE cash[o.client] * 10 >= o.quantity * lastPrice[o.symbol] * 11

\* passes_risk_check: a seller must hold the shares, a buyer have the cash at
\* its limit, or at the last price plus 10% for a MARKET order.
PassesRiskCheck(o) ==
  IF o.side = "SELL" THEN holding[o.symbol][o.client] >= o.quantity
  ELSE IF o.kind = "MARKET" THEN cash[o.client] * 10 >= o.quantity * lastPrice[o.symbol] * 11
  ELSE cash[o.client] >= o.quantity * o.price

SymbolOf(t) == order[job[t]].symbol

Go(t, state) == pc' = [pc EXCEPT ![t] = state]

Return(t) ==
  /\ Go(t, Idle)
  /\ job' = [job EXCEPT ![t] = NoOrder]

\* Slip: any thread goes on with what the watcher has released.
EndOfAnyMatch(t) ==
  IF released # {}
    THEN Go(t, "release") /\ job' = [job EXCEPT ![t] = NoOrder]
    ELSE Return(t)

\* match_and_settle returns to submit_order's caller, or to the loop of
\* try_release_waiting_orders over what is left of scan.released.
EndOfMatch(t) ==
  IF t = Watcher /\ released # {}
    THEN Go(t, "release") /\ job' = [job EXCEPT ![t] = NoOrder]
    ELSE Return(t)

-----------------------------------------------------------------------------
\* submit_order

\* The identifier is drawn and the request validated.
Submit(t, r) ==
  /\ pc[t] = Idle
  /\ Build(r.order)
  /\ request' = [request EXCEPT ![nextId] = r]
  /\ IF Valid(r.order)
       THEN /\ Go(t, "risk")
            /\ job' = [job EXCEPT ![t] = nextId]
            /\ UNCHANGED fate
       ELSE /\ fate' = [fate EXCEPT ![nextId] = "rejected"]
            /\ UNCHANGED <<pc, job>>
  /\ UNCHANGED <<stamp, moneyVars, lastPrice, dirty, waiting, clock, watcherVars>>

\* The risk check, under the portfolios' lock; an approved order is time-stamped.
RiskCheck(t) ==
  /\ pc[t] = "risk"
  /\ IF PassesRiskCheck(order[job[t]])
       THEN /\ Go(t, "band")
            /\ stamp' = [stamp EXCEPT ![job[t]] = clock]
            /\ UNCHANGED <<fate, job>>
       ELSE /\ fate' = [fate EXCEPT ![job[t]] = "rejected"]
            /\ Return(t)
            /\ UNCHANGED stamp
  /\ UNCHANGED <<bookVars, request, moneyVars, lastPrice, dirty, waiting, clock,
                 watcherVars>>

\* started && band_satisfied: the order goes to the book at once, or is held.
BandCheck(t) ==
  /\ pc[t] = "band"
  /\ Go(t, IF /\ request[job[t]].delay = 0
              /\ lastPrice[SymbolOf(t)] \in Band(request[job[t]])
             THEN "enter" ELSE "hold")
  /\ UNCHANGED <<bookVars, request, stamp, moneyVars, lastPrice, dirty, waiting,
                 fate, clock, job, watcherVars>>

\* The watcher keeps the registry's lock over all the buckets of a full scan.
RegistryFree == pc[Watcher] # "full scan"

\* registry_.add
Hold(t) ==
  /\ pc[t] = "hold"
  /\ RegistryFree
  /\ waiting' = waiting \cup {job[t]}
  /\ Return(t)
  /\ UNCHANGED <<bookVars, request, stamp, moneyVars, lastPrice, dirty, fate, clock,
                 watcherVars>>

-----------------------------------------------------------------------------
\* match_and_settle, by a worker or by the watcher

EnterBook(t) ==
  /\ pc[t] = "enter"
  /\ Enter(job[t])
  /\ Go(t, "match")
  /\ UNCHANGED <<request, stamp, moneyVars, lastPrice, dirty, waiting, fate, clock,
                 job, watcherVars>>

Match(t) ==
  /\ pc[t] = "match"
  /\ Fill(SymbolOf(t))
  /\ UNCHANGED engineVars

LeaveBook(t) ==
  /\ pc[t] = "match"
  /\ Finish(SymbolOf(t))
  /\ IF trades[job[t]] # <<>>
       THEN Go(t, "settle") /\ UNCHANGED job
       ELSE EndOfMatch(t)
  /\ UNCHANGED <<request, stamp, moneyVars, lastPrice, dirty, waiting, fate, clock,
                 watcherVars>>

CurrentTrade(t) == trades[job[t]][settled[job[t]] + 1]

\* Slip: the incoming order is taken for the buyer's.
IncomingBuyer(id, trade) == order[id].client

Buyer(id, trade) ==
  IF order[id].side = "BUY" THEN order[id].client ELSE order[trade.maker].client
Seller(id, trade) ==
  IF order[id].side = "SELL" THEN order[id].client ELSE order[trade.maker].client

\* One balance is written, then the other, which may be the same client's.
Moved(f, from, to, n) == [[f EXCEPT ![from] = @ - n] EXCEPT ![to] = @ + n]

\* settle(), under the portfolios' lock.
Settle(t) ==
  LET id == job[t]
      trade == CurrentTrade(t)
      buyer == Buyer(id, trade)
      seller == Seller(id, trade)
  IN  /\ pc[t] = "settle"
      /\ cash' = Moved(cash, buyer, seller, trade.quantity * trade.price)
      /\ holding' = [holding EXCEPT ![SymbolOf(t)] =
                        Moved(@, seller, buyer, trade.quantity)]
      /\ settled' = [settled EXCEPT ![id] = @ + 1]
      /\ Go(t, "price")
      /\ UNCHANGED <<bookVars, request, stamp, lastPrice, dirty, waiting, fate, clock,
                     job, watcherVars>>

\* last_prices_[trade.symbol] = trade.price, after the book's lock was released.
SetPrice(t) ==
  /\ pc[t] = "price"
  /\ lastPrice' = [lastPrice EXCEPT ![SymbolOf(t)] = trades[job[t]][settled[job[t]]].price]
  /\ Go(t, "mark")
  /\ UNCHANGED <<bookVars, request, stamp, moneyVars, dirty, waiting, fate, clock, job,
                 watcherVars>>

\* Slip: only the first trade is settled.
FirstTradeOnly(t) == FALSE

MoreTrades(t) == settled[job[t]] < Len(trades[job[t]])

\* mark_dirty, then the next trade.
MarkDirty(t) ==
  /\ pc[t] = "mark"
  /\ dirty' = dirty \cup {SymbolOf(t)}
  /\ IF MoreTrades(t)
       THEN Go(t, "settle") /\ UNCHANGED job
       ELSE EndOfMatch(t)
  /\ UNCHANGED <<bookVars, request, stamp, moneyVars, lastPrice, waiting, fate, clock,
                 watcherVars>>

-----------------------------------------------------------------------------
\* Cancelling: the server's CANCEL looks in the book first and then in the
\* registry; CANCEL_BOOK and CANCEL_WAITING are its two halves.  A client can
\* name any identifier that was drawn.

CancelInBook(t, id) ==
  /\ pc[t] = Idle
  /\ CancelById(order[id].symbol, id)
  /\ fate' = [fate EXCEPT ![id] = "cancelled"]
  /\ UNCHANGED <<request, stamp, moneyVars, lastPrice, dirty, waiting, clock, pc, job,
                 watcherVars>>

\* CANCEL found nothing in the book.
MissInBook(t, id) ==
  /\ pc[t] = Idle
  /\ id < nextId
  /\ taker[order[id].symbol] = NoOrder
  /\ ~Resting(id)
  /\ Go(t, "fallback")
  /\ job' = [job EXCEPT ![t] = id]
  /\ UNCHANGED <<bookVars, request, stamp, moneyVars, lastPrice, dirty, waiting, fate,
                 clock, watcherVars>>

\* Slip: not found counts as removed.
AlwaysFound(t) == TRUE

IsWaiting(t) == job[t] \in waiting

\* OrderRegistry::cancel, as the second half of CANCEL: OK or NOT_FOUND.
CancelFallback(t) ==
  /\ pc[t] = "fallback"
  /\ RegistryFree
  /\ waiting' = waiting \ {job[t]}
  /\ fate' = IF IsWaiting(t) THEN [fate EXCEPT ![job[t]] = "cancelled"] ELSE fate
  /\ Return(t)
  /\ UNCHANGED <<bookVars, request, stamp, moneyVars, lastPrice, dirty, clock,
                 watcherVars>>

\* CANCEL_WAITING
CancelWaiting(t, id) ==
  /\ pc[t] = Idle
  /\ RegistryFree
  /\ id \in waiting
  /\ waiting' = waiting \ {id}
  /\ fate' = [fate EXCEPT ![id] = "cancelled"]
  /\ UNCHANGED <<bookVars, request, stamp, moneyVars, lastPrice, dirty, clock, pc, job,
                 watcherVars>>

-----------------------------------------------------------------------------
\* try_release_waiting_orders

\* A pass over the symbols that traded since the last one.
DirtyScan ==
  /\ pc[Watcher] = Idle
  /\ dirty # {}
  /\ toScan' = dirty
  /\ dirty' = {}
  /\ scanTime' = clock
  /\ Go(Watcher, "dirty scan")
  /\ UNCHANGED <<bookVars, request, stamp, moneyVars, lastPrice, waiting, fate, clock,
                 job, released>>

\* Slip: the full pass, too, looks at the symbols that traded only.
DirtyBuckets == dirty

\* The buckets of a full pass.
AllBuckets == Listed

\* A full pass, which leaves the dirty set alone.
FullScan ==
  /\ pc[Watcher] = Idle
  /\ toScan' = AllBuckets
  /\ scanTime' = clock
  /\ Go(Watcher, "full scan")
  /\ UNCHANGED <<bookVars, request, stamp, moneyVars, lastPrice, dirty, waiting, fate,
                 clock, job, released>>

\* scan_bucket_locked's tests; the reference price is read once per bucket.
Overdue(id) == scanTime >= Expires(id)

\* Slip: the start date is not tested.
DueInBand(id, price) == price \in Band(request[id])

Due(id, price) == scanTime >= NotBefore(id) /\ price \in Band(request[id])

\* Slip: a released order stays in its bucket.
ErasedExpired(expired, due) == expired

Erased(expired, due) == expired \cup due

Scanning == pc[Watcher] \in {"dirty scan", "full scan"}

ScanBucket(s) ==
  LET bucket == {id \in waiting : order[id].symbol = s}
      expired == {id \in bucket : Overdue(id)}
      due == {id \in bucket \ expired : Due(id, lastPrice[s])}
  IN  /\ Scanning
      /\ s \in toScan
      /\ toScan' = toScan \ {s}
      /\ waiting' = waiting \ Erased(expired, due)
      /\ released' = released \cup due
      /\ fate' = [id \in Ids |-> IF id \in expired THEN "expired" ELSE fate[id]]
      /\ UNCHANGED <<bookVars, request, stamp, moneyVars, lastPrice, dirty, clock, pc,
                     job, scanTime>>

\* The scan is over (and with it the registry's lock).
EndOfScan ==
  /\ Scanning
  /\ toScan = {}
  /\ Go(Watcher, IF released = {} THEN Idle ELSE "release")
  /\ scanTime' = 0
  /\ UNCHANGED <<bookVars, request, stamp, moneyVars, lastPrice, dirty, waiting, fate,
                 clock, job, toScan, released>>

\* The next released order is handed to match_and_settle: no second risk check.
Release(id) ==
  /\ pc[Watcher] = "release"
  /\ id \in released
  /\ released' = released \ {id}
  /\ job' = [job EXCEPT ![Watcher] = id]
  /\ Go(Watcher, "enter")
  /\ UNCHANGED <<bookVars, request, stamp, moneyVars, lastPrice, dirty, waiting, fate,
                 clock, scanTime, toScan>>

Tick ==
  /\ clock < MaxTime
  /\ clock' = clock + 1
  /\ UNCHANGED <<bookVars, request, stamp, moneyVars, lastPrice, dirty, waiting, fate,
                 pc, job, watcherVars>>

-----------------------------------------------------------------------------

Init ==
  /\ BookInit
  /\ request = [i \in Ids |-> CHOOSE r \in Requests : TRUE]
  /\ stamp = [i \in Ids |-> 0]
  /\ cash = [c \in Clients |-> InitialCash]
  /\ holding = [s \in Symbols |-> [c \in Clients |-> InitialHolding]]
  /\ lastPrice = [s \in Symbols |-> InitialPrice]
  /\ dirty = {}
  /\ waiting = {}
  /\ fate = [i \in Ids |-> "none"]
  /\ settled = [i \in Ids |-> 0]
  /\ clock = 0
  /\ pc = [t \in Threads |-> Idle]
  /\ job = [t \in Threads |-> NoOrder]
  /\ scanTime = 0
  /\ toScan = {}
  /\ released = {}

MatchAndSettle(t) ==
  EnterBook(t) \/ Match(t) \/ LeaveBook(t) \/ Settle(t) \/ SetPrice(t) \/ MarkDirty(t)

\* What a worker does once a command has started.
WorkerStep(t) ==
  RiskCheck(t) \/ BandCheck(t) \/ Hold(t) \/ CancelFallback(t) \/ MatchAndSettle(t)

WatcherStep ==
  \/ \E s \in Symbols : ScanBucket(s)
  \/ EndOfScan
  \/ \E id \in Ids : Release(id)
  \/ MatchAndSettle(Watcher)

ThreadStep ==
  \/ \E t \in Workers, r \in Requests : Submit(t, r)
  \/ \E t \in Workers : WorkerStep(t)
  \/ \E t \in Workers, id \in Ids :
       CancelInBook(t, id) \/ MissInBook(t, id) \/ CancelWaiting(t, id)
  \/ DirtyScan
  \/ FullScan
  \/ WatcherStep

Next == ThreadStep \/ Tick

\* Threads are scheduled and the mutexes they wait for are granted in the end.
\* The watcher makes a full pass every so many ticks; nobody has to submit.
Fairness ==
  /\ \A t \in Workers : SF_vars(WorkerStep(t))
  /\ SF_vars(WatcherStep)
  /\ SF_vars(FullScan)
  /\ WF_vars(Tick)

Spec == Init /\ [][Next]_vars /\ Fairness
-----------------------------------------------------------------------------
\* Properties

EngineTypeOK ==
  /\ request \in [Ids -> Requests]
  /\ stamp \in [Ids -> 0 .. MaxTime]
  /\ cash \in [Clients -> Int]
  /\ holding \in [Symbols -> [Clients -> Int]]
  /\ lastPrice \in [Symbols -> Prices]
  /\ dirty \subseteq Listed
  /\ waiting \subseteq Ids
  /\ fate \in [Ids -> Fates]
  /\ settled \in [Ids -> Nat]
  /\ clock \in 0 .. MaxTime
  /\ pc \in [Threads -> WorkerStates \cup WatcherStates]
  /\ \A t \in Workers : pc[t] \in WorkerStates
  /\ pc[Watcher] \in WatcherStates
  /\ job \in [Threads -> Ids \cup {NoOrder}]
  /\ scanTime \in 0 .. MaxTime
  /\ toScan \subseteq Listed
  /\ released \subseteq Ids

\* The places an order can be in: the hands of a thread that has not matched it
\* yet or is matching it, the registry, the watcher's list, a book; or it has
\* ended, by trading (a MARKET order's remainder being dropped) or otherwise.
InHand(t, id) == job[t] = id /\ pc[t] \in {"risk", "band", "hold", "enter", "match"}

Done(id) ==
  /\ id \in entered
  /\ taker[order[id].symbol] # id
  /\ left[id] = 0 \/ order[id].kind = "MARKET"

Places(id) ==
  {<<"hand", t>> : t \in {u \in Threads : InHand(u, id)}}
    \cup (IF id \in waiting THEN {<<"registry">>} ELSE {})
    \cup (IF id \in released THEN {<<"released">>} ELSE {})
    \cup (IF Resting(id) THEN {<<"book">>} ELSE {})
    \cup (IF fate[id] # "none" THEN {<<"told">>} ELSE {})
    \cup (IF Done(id) THEN {<<"done">>} ELSE {})

\* Every order is in exactly one place: it is never both waiting and in a book,
\* never released twice, never expired or cancelled and still alive, and never
\* lost on the way from one place to another.
OneOwner == \A id \in 1 .. nextId - 1 : \E p \in Places(id) : Places(id) = {p}

Unsettled(id) == settled[id] < Len(trades[id])

\* A trade that was made is settled by the thread that made it: no thread goes
\* back to its caller, or to the next order, with a trade of its order unsettled.
NoTradeForgotten ==
  \A id \in Ids :
    /\ settled[id] <= Len(trades[id])
    /\ Unsettled(id) => \E t \in Threads :
         job[t] = id /\ pc[t] \in {"match", "settle", "price", "mark"}

\* An order that was rejected, cancelled or expired stays so, is never handed to
\* a book again, and nothing of it is traded ever after.
DeadStaysDead ==
  [][\A id \in Ids : fate[id] # "none" =>
       /\ fate'[id] = fate[id]
       /\ left'[id] = left[id]
       /\ id \in entered' => id \in entered]_vars

\* No order reaches a book before its start date or expires before its deadline,
\* however late the watcher comes.
OnTime ==
  \A id \in Ids :
    /\ id \in entered => clock >= NotBefore(id)
    /\ fate[id] = "expired" => clock >= Expires(id)

\* No STOP order reaches a book unless the reference price it started from, or
\* the price of a settled trade, had reached its trigger from the right side
\* (matching_engine.cpp:145-150).
StopsAreTriggered ==
  \A id \in entered :
    order[id].kind = "STOP" =>
      LET r == request[id]
          trigger == IF r.upper # 0 THEN r.upper ELSE r.order.price
          reached(p) == IF r.order.side = "BUY" THEN p >= trigger ELSE p <= trigger
      IN  \/ reached(InitialPrice)
          \/ \E i \in Ids : \E k \in 1 .. settled[i] :
               order[i].symbol = order[id].symbol /\ reached(trades[i][k].price)

\* A waiting order whose start date has come does not wait for ever while the
\* reference price stays in its band, even when the price entered the band
\* between the submitter's test and registry_.add, so that no later trade marks
\* its symbol: the full pass is the backstop (order_registry.hpp:32).
DueIsReleased ==
  \A id \in Ids :
    LET due == id \in waiting /\ clock >= NotBefore(id)
                 /\ lastPrice[order[id].symbol] \in Band(request[id])
    IN  due ~> ~due

\* Whatever the other threads do, every command returns to its caller.
CommandsReturn == \A t \in Workers : pc[t] # Idle ~> pc[t] = Idle
=============================================================================
