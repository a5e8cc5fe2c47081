# Verification of the stock market simulator

TLA+ models of the exchanges in this repository, TLC configurations that check
them on small instances, and TLAPS proofs of their main invariants. All the
definitions are read from the code under `src/`; `PROJECT.json` gives, for each
of them, the lines it models.

## 1. The system

The repository holds two exchanges and the experiments they grew out of.

`Src_Simulation` is an in-memory, multi-threaded exchange. Its parts:

| component | state | operations | properties that make it correct |
|---|---|---|---|
| `OrderBook` (one per symbol, one lock each) | `bids_`, `asks_`: price -> FIFO of orders | `match`, two `cancel`s, read-only queries | price-time priority; never crossed; limits honoured; no quantity lost or made |
| `OrderRegistry` (one lock) | waiting orders by symbol, index by id | `add`, `cancel`, scan of one symbol, scan of all | an order is released once, cancelled once or expired once |
| `MatchingEngine` | portfolios, last prices, dirty symbols, id counter, each behind its own lock | `submit_order`, `match_and_settle`, `try_release_waiting_orders`, cancels | value conserved; every trade settled once; no order in two places or none |
| `NotificationBus` | queue, subscribers, one worker thread | `publish`, `subscribe`, `unsubscribe`, `flush`, destructor | in order, exactly once, nothing after `unsubscribe`, drained at the end |
| `SimulationServer`, `ClientDirectory`, `PersistenceStore` | connections, accounts, tokens, the snapshot file | commands of a connection, periodic and final save, `stop`, load at start | ids unique, snapshot whole, nothing saved is forgotten |
| `Simulation` | bots, watcher, recorder | `run` | start and stop in the right order; every run ends |
| `MarketData`, `MarketRecorder` | prices, bars, samples, trades | subscribers of the bus; sampler thread; report | the report's trades explain its money, its orders add up, samples hold all the cash |
| bots | quotes of a market maker, window of a momentum bot | one decision per interval | no quote is forgotten |
| protocol, `ClientConnection`, `sim_client` | the connection; of a market maker the ids and the symbol of its last quotes | send a command and wait 30 s at most; the bots' ticks | an answer is taken for the command it answers; no quote is lost track of; the bot ends |
| metrics, logger, seeds, programs | | counters, parsing | |

`Src_SQL` is an older exchange over a SQL database. Its parts:

| component | state | operations | properties that make it correct |
|---|---|---|---|
| database (one mutex, taken per query) | clients, portfolios, prices, orders of each status | the queries | |
| `Market` (under the mutex of `server.cpp`) | `Buy_Orders`, `Sell_Orders` in memory | insertion by priority, fixing, continuous sweep, settlement | books and PENDING rows are two records of the same orders; an auction trades the most it can; nothing left that could trade |
| sessions (`handle_client`, a detached thread each) | the order or the withdrawal in hand | place an order, deposit, withdraw | cash that is checked is there when it is taken |
| `trigger_and_expiration_watcher` | the scan of the WAITING rows | expire, keep, move to the book | an order is in one place |
| `market_session` | the phase | fixing, continuous, fixing, shutdown | the day ends |
| registry of sockets, `accept_clients` | client -> descriptor | register, look up and push, erase | a push reaches its client, and only its client |
| client program (two threads) | `is_running`, its id | authenticate, type, listen, exit | the program ends |

`Test_Functionnalities` are stand-alone experiments, `NRT` the regression tests,
`Data` scripts and CSV files.

How they interact: a connection thread or a bot calls the engine; the engine
calls the book of the symbol, then settles each trade, sets the last price and
marks the symbol dirty; the watcher thread drains the dirty symbols, scans the
registry and hands what is due to the same `match_and_settle`; the engine
publishes events to the bus, whose worker calls market data, recorder and
logger. A network client sends one command at a time over its connection, whose
thread in the server answers each before it reads the next. The persistence thread
copies accounts, portfolios and prices to a file.
In the SQL exchange every thread queries the one database; a session checks an
order outside the mutex, inserts it and sweeps its action inside; the watcher
does the same with the orders whose band is reached; whoever trades looks up the
other client's descriptor and pushes a notification.

What is hard in it: every table has its own lock, so whatever spans two of them
is not atomic (risk check and settlement, book and last price, test of the band
and entry in the registry, book and registry in CANCEL, the two halves of
REGISTER, the three reads of a save, a check of cash and its use in SQL);
threads that outlive `stop()` or `main`; answers that come after their receiver
has given up; descriptors that outlive their
connection; crashes; condition variables. `PROJECT.json` lists each hazard at its line with the
properties that would catch it.

## 2. The modules

| module | models | checked by |
|---|---|---|
| `OrderBook` | the books, trade by trade under the lock | `MCOrderBook.cfg` |
| `AtomicBook` | what `match()` promises, in one step and closed form | refinement in `MCOrderBook.cfg` |
| `AtomicMatching` (extends `OrderBook`) | how the books' state maps to that of `AtomicBook` | `MCOrderBook.cfg` |
| `SumProofs` | lemmas about the library's `SumFunctionOnSet` over finite sets, and about sums over sequences | TLAPS |
| `OrderBookProofs` | theorems about `OrderBook`, that it implements `AtomicBook`, and what `AtomicBook` keeps | TLAPS |
| `MatchingEngine` (extends `OrderBook`) | workers, watcher, registry, settlement, prices, clock | `MCEngine` |
| `EngineProofs` (on top of `OrderBookProofs`) | theorems about `MatchingEngine`; the engine implements the safety of `Settlement`; careful clients stay solvent | TLAPS |
| `Settlement` | what the engine promises about money | refinement in `MCEngine` |
| `EngineMoney` (extends `MatchingEngine`) | how the engine's state maps to that of `Settlement` | `MCEngine` |
| `Solvency` (extends `MatchingEngine`) | what the risk check is worth, with a history variable | `MCSolvency` |
| `NotificationBus` | the event bus | `MCBus.cfg` |
| `SimulationServer` | accounts, sessions, saves, shutdown, crash, restart | `MCServer` |
| `NetworkMaker` | a market maker over the wire, its connection, the server's thread for it | `MCNetworkMaker` |
| `ServerProofs` | theorems about `SimulationServer`, `NotificationBus` and `NetworkMaker` | TLAPS |
| `BotTrading` (books: an instance of `AtomicBook`) | the bots on the engine, its watcher, the events it publishes | `MCSimulation` |
| `SimulationRun` (extends `BotTrading`) | the driver, `MarketData`, the recorder and its sampler, the report | `MCSimulation` |
| `SimulationProofs` (books: an instance of `OrderBookProofs`) | theorems about `BotTrading` and the samples of `SimulationRun` | TLAPS |
| `ReportProofs` (extends `SimulationProofs`) | the report of `SimulationRun` adds up | TLAPS |
| `SqlStore` | the tables of the SQL exchange and the queries on them | `MCSqlServer` |
| `SqlMarket` (extends `SqlStore`) | the books in memory and the sweeps | `MCSqlServer` |
| `SqlServer` (extends `SqlMarket`) | order placement, watcher, market session, crash and restart | `MCSqlServer` |
| `SqlAuction` (extends `SqlServer`) | the two fixings as auctions, with a history variable | `MCSqlServer` |
| `SqlServerProofs` | theorems about `SqlServer` | TLAPS |
| `SqlSessions` | client programs, connections, the registry of descriptors, pushes | `MCSqlSessions` |
| `SqlSessionsProofs` | theorems about `SqlSessions` | TLAPS |

Some modules define, next to an operator, a variant whose comment begins with
"Slip:". It is the operator as a plausible mistake would have it, and is used
nowhere in the model; `PROJECT.json` pairs each with the property that fails
when it takes the operator's place.

### How state and actions correspond to the code

`OrderBook`. `queue[symbol][side][price]` is the deque of a price level, holding
identifiers; the immutable fields of an `Order` are in `order`, its quantity in
`left`. `taker[symbol]` is the call of `match()` that holds the book's exclusive
lock. `Enter` takes the lock, each `Fill` is one turn of the inner loop of
`match_incoming_buy` or `match_incoming_sell` (the two are mirror images, so one
action with `Opposite` and `Better` stands for both), `Finish` is the tail of
`match()`, where a remainder rests. `CancelAt` and `CancelById` are the two
overloads of `cancel()`. In the code a book's lock hides the intermediate states;
the model keeps them to let other books and other threads move in between, and
to show by refinement (`MatchIsAtomic`) that the loop computes the allocation
that `AtomicBook` states in closed form.

`MatchingEngine`. A thread has a program counter `pc` and a `job`, the order it
carries. The labels are the critical sections of `submit_order` and
`match_and_settle` in the order of the code: `risk`, `band`, `hold`, `enter`,
`match`, `settle`, `price`, `mark`. `CANCEL` is two sections, `CancelInBook` or
`MissInBook` followed by `CancelFallback`. The watcher's pass scans bucket by
bucket: each bucket under the registry's lock for a pass over the dirty symbols,
all of them under one hold of it for a full pass (`RegistryFree`). Orders it
takes out are in `released` until `match_and_settle` has them.

`NotificationBus`. A section under the queue's mutex is one action; the
notification of a condition variable that follows it is another, and waiters
that sleep are woken only by it, or spuriously. The subscribers' mutex is held
while `worker = "round"`. `published`, `mark`, `since` and `received` are
history variables.

`SimulationServer`. REGISTER is `Register`, `Ensure`, `Grant` per symbol and
`Registered`, with the saves' three reads (`SaveAccounts`, `SavePortfolios`,
`SavePrices`) in between. `Trade` and `SetPrice` stand for what any order command
does to the tables a snapshot holds. A crash, or the end of `main`, resets
everything but `file`.

`NetworkMaker`. `stage` is the command the bot is at in its tick and `awaiting`
whether it is in `recv_framed`; `RecvFramed` gives the next frame, or none because
30 seconds have passed or the peer is gone. `toServer` and `toClient` are the two
directions of the socket. An answer is the two fields the bot looks for in it,
`last` and `order_id`, and whether it begins with OK; `to`, the number of the command
it answers, is a ghost: the code's frames carry no such thing. The server's thread
serves one command per step; what the engine does with an order is any of its
outcomes, and `Fill` stands for what other clients do.

`BotTrading`. A book's `match()` is one step here, the one `AtomicBook` states
and `OrderBook` is shown to implement; a command of the engine is cut where bots,
samples or the report can see the difference (queued or rejected, matched, each
trade settled, each event published). `act[t]` is where a thread is in its step.
A settlement is one step: `settle` holds the portfolios' lock for both sides.
`metrics` are the counters the report prints.

`SimulationRun`. `main` walks through `Simulation::run` call by call, and through
`MarketRecorder::stop` and `write_report` piece by piece, since the sampler, the
watcher and the bus's worker go on beside them. `Deliver` is one event of the
worker for both subscribers; the bus is the queue `NotificationBus` shows it to
be. `NotifySampler` may find the sampler between its test and its wait.

`SqlStore`, `SqlMarket`, `SqlServer`. `orders` holds the rows whose status is
PENDING or WAITING, `completed` the sums of the COMPLETED ones. `mtx` is the
mutex of `server.cpp`, `sweep` where its holder is in `process_fixing` or
`process_continuous_trading`: find a pair, take the buyer's cash, add the shares,
pay the seller, take the shares, close both rows, write the leftover. The
database's own mutex is held per query, so sessions check and move cash in
between. `hand[t]` is an order that is in no table: between a session's checks
and `Enter`, or between the watcher's removal of a WAITING row and its entry.
`draw[c]` is a withdrawal that was checked and not yet made. Every other row
changes in one query. Taken as one step although they are several queries:
`can_afford`'s two (balance and pending orders) and the four that close two
orders. `Down` stands for the end of the process, in `Exit` or by `Crash`; the
tables stay, the books do not, and nothing loads them again (`orphans`). Money is
counted in tenths, because a MARKET order reserves 1.10 times the price.

`SqlAuction` adds to `SqlServer` what each fixing found in a book (`offers`) and
what it traded of it (`volume`, `prices`). `process_fixing` computes no price for the
auction; `EquilibriumVolume` is what its best single price would trade.

A validity is coded by `utility.cpp:94-100` with the full year and a month from
1, and compared with a date that `utility.cpp:55-65` codes with `tm_year` and
`tm_mon`. So a date typed with a year of this century never comes;
`DateOfText` and `DateOfClock` keep the difference, and the runs contain the one
kind of date that does expire.

`SqlSessions`. A connection is a stream each way and a descriptor, the smallest
free one as the kernel gives it. `LookUp` reads the registry under its mutex,
`Push` or `PushFails` sends without it. A command typed is only a reason to push
(`PlaceOrder`, `Trade`): what it does to the market is in `SqlServer`. A session
reads what has arrived as one buffer, so several messages can be read as one
(`server.cpp:56`).

## 3. What is checked

| run | instance | states | what it shows |
|---|---|---|---|
| `order_book` | 1 book, 3 orders, MARKET or LIMIT (the other kinds rest like a LIMIT), 2 prices, quantities 1 and 2 | 93,455 | sorted, uncrossed, complete books; price-time priority; the loop implements `AtomicBook` |
| `engine` | 2 workers and the watcher, 3 orders, full interleaving, self-trades | 141,120 | `OneOwner`, `NoTradeForgotten`, `DeadStaysDead`, stops triggered on the right side, settlement refines `Settlement`, backstop liveness, no deadlock; time stands still (`TimelessSpec`) |
| `solvency` | 2 workers, clients that can afford one order of a side, clock 0..1, one unlisted symbol | 3,080,468 | only a client with competing orders, or a MARKET buyer, can go below zero; start dates and deadlines against a late watcher |
| `bus` | 2 threads, 2 subscriptions, 2 events | 106,921 | order, exactly once, flush, unsubscribe, no lost wake-up, every call returns |
| `server` | 2 users, 2 connections, 1 trade, 2 starts, disk failures | 1,711,742 (modulo symmetry) | unique ids, cash backed, whole snapshots, durability |
| `simulation` | a market maker with 2 steps, a noise trader with 2, a momentum bot with 2, the watcher, sampler and worker | 366,773 | quotes remembered, report adds up, the run ends |
| `network_maker` | 2 symbols, 3 ticks, any delays, hang-ups and fills | 42,171 | an answer lags by the timeouts; no quote is forgotten before one; the bot ends |
| `sql` | 2 clients with a session each, a seller with two shares, 3 orders, a deposit or a withdrawal, 2 launches | 874,250 | books match rows, complete sweeps, only raced spending overdraws, a fixing trades as much as the equilibrium price would, the day ends |
| `sql_sessions` | 2 programs of one client, of two, or one of nobody; 1 command or trade | 1,231,110 | pushes reach their client, who stays reachable; programs end |

Three runs show where the code does not do what it says (section 5):
`server_restart`, `sql_settlement` and `sql_auction_price`, all on models that a
passing run checks.

`UnracedNeverOverdrawn`, `ReachableUnlessRaced`, `PushesReachTheirClient` and
`RememberedUnlessLate` are what is left of larger claims that do not hold: the
clients two of whose threads have met, the pushes that come to a descriptor used
again, and the bots whose connection timed out are left out of them, and section 5
says what happens to those.

Bounds. Three orders are the least that let one order trade with two others, or
two orders queue at a price before a third. Two workers and the watcher are the
three threads that a race over the book, the registry and the prices needs. Two
prices distinguish inside from outside a band and a limit; two quantities, a
partial fill from a full one. On the bus two events are one in the queue behind
one in flight; the proofs have no bound. Two starts of the server are a crash or
a shutdown and what is restored afterwards; two launches of the SQL server, a
session and one on the tables it left. A market maker's second step is the first
that has quotes to cancel, and `WindowSize` 2 the smallest window with a change
in it; `MaxBacklog` 2 lets an event wait behind another while commands go on,
and holds a command up, which the code's unbounded queue never does, only when
the worker is two events behind. In `sql`, `MaxOrders` 3 gives a trade and an
order that competes with it or inherits its leftover, and an auction of one order with
two others; `MaxMoves` 1 is the one
withdrawal that a sweep can race; one client has one session, so two spenders
of one client are its session and whoever sweeps. In `sql_sessions` two programs
are the least for a descriptor that is used again, and `MaxEvents` 1 is the push
that is then under way. In `network_maker` two symbols let a tick cancel quotes of
another book than the one it quotes in; the second tick has quotes to cancel, and the
third those that replaced them.

Fairness. In `OrderBook`: a call that holds the lock runs to its end. In
`MatchingEngine`: strong fairness of each thread's steps, because a mutex that
is asked for again and again is granted in the end, although it may be taken by
others in between; strong fairness of the full pass, as `watcher_loop` makes one
every `full_scan_every_n_ticks` ticks, a positive number; time passes. No one
has to submit or cancel. In `NotificationBus`: weak fairness of the worker (so
callbacks return) and of threads inside a call; none of spurious wake-ups. In
`SimulationServer`: the saver and the main thread go on; nobody has to connect,
crash or stop. In `SimulationRun`: weak fairness of `Next` as a whole, the least
there is: some thread that can move does; intervals end and the run's duration
passes. In `NetworkMaker`: weak fairness of the bot alone, which
runs and whose receives end, by the timeout `connect` sets if by nothing else; the
server may never answer, and nobody has to fill an order. In `SqlServer`: weak
fairness of the market session, of the watcher and
of whoever holds the mutex; no client has to ask for anything. Weak fairness is
enough for the market thread although the mutex is contended, since the mutex is
taken a bounded number of times. In `SqlSessions`: weak fairness of the threads
that run, as a whole; nobody has to start a program, type, trade or close the
market.

Deadlock is checked in `engine` and `solvency`. The others
switch it off, since there everything may have been used up: the bound on
orders, a destroyed bus, a bot that has ended, a program that was stopped for good, a run or a market
day that is over.

## 4. What is proved

`SumProofs` has no theorem of its own. Sums of cash and quantities are
`SumFunctionOnSet`, which the community modules define by a recursive function on
the subsets of a set, with `CHOOSE` for the order. The library's induction theorems
cannot be used (they take an operator), so the module argues by a set of the
smallest size for which a fact fails (`SmallestFailure`, from the well-foundedness
of `<`): that the function exists (`SumsExist`), that any element may be taken out
first (`SumRemove`), and from there how a sum changes with one or two of its terms,
and with the first or the last element of a sequence (`SumOver`).

`OrderBookProofs`, for all values of the constants that meet `BookAssumption`:

* `BookTypeCorrect`, `RestingOrdersBelong`, `BooksNeverCross` and
  `EveryTradeHonoursLimits`: the four safety invariants of the book;
* `PriorityIsKept`: price-time priority, an action property;
* `QuantityIsConserved`: what an order has left and what its trades executed of it,
  as incoming or as resting order, is what it was built with;
* `MatchingIsAtomic`: the books implement `AtomicBook`, step by step.

None of the invariants is inductive alone. `BookInv` adds `LockHolder` (whoever holds a book's lock
was handed to that book) and `TradersEntered` (only orders handed to a book
trade). The argument has one lemma per action. The interesting one is `Finish`:
when the loop has ended with a remainder, every level of the other side fails the
limit test, so the level where the remainder rests cannot cross; and as `Fill`
trades only at a level that passes it, no trade is worse than a limit.
`BookStep` states preservation for `[BookNext]_bookVars`, so that any module
whose steps are steps of the books inherits it. For `PriorityIsKept` the orders at a
level keep their order whatever is erased from it (`RemoveAtProperties`), and `Fill`
trades with the first of the best level. `QuantityIsConserved` adds up, for an
order, its trades as incoming order and those as resting order (`ExecutedOf`); a
`Fill` adds one trade and takes its quantity from both parties.

For `MatchingIsAtomic` the state while a call of `match()` is under way is mapped to
what the rest of that call will leave (`leftThen`, `queueThen`, `tradesThen`). Taking
the lock is then all of `Match`, and a turn of the loop must change none of the
three. The operators of `AtomicBook` are restated of a single book (`Makers`,
`Served`, `Share`), where the orders a call can take from stand in one line
(`ServedOrder`). The one at the front of the best level is the first of them
(`FirstMaker`); a turn takes its share, and ends with the incoming order done
(`LastTurn`) or with that one out of its queue and the line one shorter (`FullTurn`).
Either way the rest of the call gives every order the quantity (`TurnKeepsRemains`),
the call the trades (`TurnKeepsTrades`) and each level the queue (`TurnKeepsBook`)
that the whole of it would have. That the k-th trade has exactly one partner is a
fact about ranks in a finite order (`Ranks`, in `SumProofs`). When the loop has ended
nothing is left to share (`CallOver`), so the tail does what was promised; and a step
of another book, or a new order, disturbs neither (`Elsewhere`, `SameCall`).

The last section is about `AtomicBook` itself, for the modules whose `match()` is one
step. `AtomicInv` says that its books are sound and hold entered orders only, that an
order trades with entered orders of the other side, and that what an order has left and
what it traded as incoming order never exceed its quantity. `BookAfterSound`, from the
refinement, says of a whole `Match` what the former needs.

`EngineProofs`, for all workers, clients, symbols, requests and bounds that meet
`EngineAssumption`, under full interleaving:

* its books never cross and its trades honour the limits (`BooksSoundInEngine`) and
  keep price-time priority (`PriorityInEngine`), and every `match()` is one step of
  `AtomicBook` (`MatchingIsAtomicInEngine`). The engine is written on top of the
  actions of `OrderBook`, so that what holds of every step of the books holds of it
  (lemma `StepsOfTheBooks`, which says no more than that);
* `EveryOrderHasOneOwner`, `EveryTradeIsSettled`, `NeverEarly` and
  `EngineTypeCorrect` (invariants) and `TheDeadStayDead` (an action property).

`OneOwner` counts the places an order is in and cannot be inductive: it says
nothing of the locks. `OwnerInv` states instead, of each place, what is true of
the orders that are there: what a thread carries was built, is carried by no
other thread, and is entered or not, locked or not, according to the thread's
label (`JobInv`, `LoneInv`, `PhaseInv`); a held lock has a holder (`LockInv`);
what is in the registry or in the watcher's list was never handed to a book and
is in nobody's hands (`HeldInv`); what has ended left its book with something
unexecuted (`FateInv`); and every order has some place (`KnownInv`,
`EnteredInv`). Exclusion and existence follow case by case (`PlacesExclude`,
`PlacesCover`). The steps come in families with a lemma each: those that move no
order (`QuietStep`), take one along (`CarryStep`), let go of one (`LetGoStep`),
or take orders out of the registry (`RegistryStep`); the book's own steps need
what each does to the set of resting orders (`FillResting`, `FinishResting`,
`CancelResting`). `DeadStaysDead` follows because whatever a step touches is in
a place where `fate` is still "none". `NeverEarly` needs `TimeInv` besides: the
watcher's `now` is never ahead of the clock, and an order on its way to a book is
already due.

On the same invariant:

* `StopsWaitForTheirTrigger`: `StopsAreTriggered` for every request and schedule.

The reference price that let an order through may be another one by the time the
order is matched, so the invariant speaks of the prices its symbol was ever quoted
at (`Quoted`, `Triggered`): the first, and those of settled trades. A thread settles
a trade before it sets the price, so every reference price is one of them, and as
orders, trades and settlements only grow (`Grows`), none is ever taken back.

And, with `Settlement` and `Solvency`:

* `EveryTradeIsPaidOnce`: the engine implements `Settlement`, but for the promise
  that a trade is settled in the end;
* `TheCarefulStaySolvent`: `Solvent`, for every request, price and schedule.

What is due are the trades of each incoming order past the `settled[id]`-th, what
is done are those up to it (`EngineMoney`). A trade is named by its incoming order
and its place among that order's trades: a new one is at a place that never was due
or done (`MatchExecutes`), and settling takes the first that is due (`SettleSettles`).
No step may change who the parties of a trade are while it is due: orders that exist
keep their fields, also while others are built (`DueTradeStays`). `settle()` moves the
amount in two steps, which come to one also if buyer and seller are the same client
(`MovedIs`). Every other step leaves the money alone (`MoneyStep`).

`Solvent` speaks of balances only, and the risk check reserves nothing; what keeps a
careful client above zero is what is still open of its orders. `Open(id)` is the
quantity of an approved order less what its settled trades took, be the rest held,
in a book, or traded and not settled yet. `CarefulInv` says that a careful client
can bear all that is open of each of its orders (`Bears`) and that no two of them
compete for the same cash or shares (`Alone`). An approval makes it so: either it
finds nothing that competes, or the client becomes careless. Settling a trade takes
from the balance at most what it takes from `Open`, as a trade honours the limit
(`EveryTradeHonoursLimits`), and never more than is open (`QuantityConserved`). What
others settle only adds to it.

`ServerProofs`, for all users, connections, symbols and bounds that meet
`ServerAssumption`:

* `SnapshotIsWhole`, `UniqueIds` and `NothingKeptIsLost`: the file never mixes two
  saves, ids are given out once across restarts, and what a complete save has kept
  stays;
* `NoMoneyFromNowhere`: the portfolios in memory and in the file hold the cash their
  clients were given.

Each of the first three speaks of the file or of answers already given, and is broken by a step that
looks harmless unless it is known what a save has written so far. `ServerInv` adds
who can run at all, and that the final save waits for the persistence thread
(`ThreadInv`); that the parts in the temporary file are the saver's own
(`WholeInv`); that also the table in the temporary file has distinct ids below the
next one (`IdInv`); and that what was noted when a save began is answered, and is
in what it has written (`KeptInv`). A save reads the accounts before the
portfolios, and an account answered by then has its portfolio already: that is the
order in which `Register`, `Ensure` and `Registered` come. That the next id after a
start is past every restored one needs a greatest element of a bounded set of
numbers (`MaxBounds`), from the well-foundedness of `<`. `CashInv` says of the
portfolios in memory, in the temporary file and in the file that their cash adds up:
a save copies a whole table, a trade moves cash between two entries of one
(`SumProofs`), and a start takes back what was written.

The same module, of the bus, for all sets of threads and subscribers and any number
of events:

* `BusTypeCorrect`, `DeliveredInOrder`, `NoCallAfterUnsubscribe`,
  `DestroyedDrained` (invariants; the last is proved only, no run checks it) and `FlushKeepsPromise` (an action property).

`InOrder` says nothing of events still to come, so it cannot be inductive.
`BusInv` adds where the worker is in the stream of events: the queue holds the
last ones published (`QueueInv`), the one being dispatched is the last taken out
(`WorkerInv`), and what a subscriber received are consecutive events that end at
the last it was due and begin no later than the first after it subscribed
(`ReceivedInv`, with `Owed` and `Reached`). Publishing moves the end of the
queue only; taking an event out makes every subscriber owed; beginning a round
and a callback move the debt about; ending a callback pays it. `flush()` and the
destructor return when the queue is empty and no dispatch is under way: then
nothing is owed, and `GotAll` gives what they promise.

And of `NetworkMaker`, for any symbols and any number of ticks:

* `AnswersLag` and `NetworkQuotesRemembered`, the two invariants of its run, and
  `MakerTypeCorrect`, its type invariant.

`WireInv` numbers what is under way: the answers, then the commands, are consecutive
and end at the last one sent, as many as receives have timed out and the one awaited.
`StageInv` says what the bot has forgotten by the time it places quotes: both, and
the sell until after the buy. `MemoryInv` says that, as long as nothing timed out, the
one frame under way is of the bot's stage and names what it remembers (`AsksFor`,
`Tells`), and that every order that rests is remembered or in that answer: the answer
to a CANCEL is only heard when the order it named is gone.

`SqlServerProofs`, for all clients, connections, actions, orders and amounts that
meet the assumptions of `SqlStore`, `SqlMarket` and `SqlServer`:

* `SqlTablesSound`: the inductive invariant `TablesInv`;
* `BooksAndRowsAgree`: `BooksMatchRows`, on it;
* `SqlTradesAreFair` and `SqlSweptIsUncrossed`, action properties;
* `SqlUnracedNeverOverdrawn`: `UnracedNeverOverdrawn`, with `CashInv` besides.

Books and rows change in different queries of one trade, so that `BooksMatchRows`
holds between sweeps only. `TablesInv` says what they are in the middle of one: who
sweeps holds the mutex (`MutexInv`); the trade under way is of the two heads of a
book, and their rows are untouched until both are closed (`TradeInv`); the books
hold the live rows and, while a leftover is put back, the head that is about to be
one again (`BooksInv`, with `Known` and `Closing`), sorted as `Ahead` has it;
orders in a thread's hands are in no table (`HandsInv`); the watcher and the orphans
of an earlier launch keep to their rows (`RowsInv`); and a free id remains
(`CountInv`), by the pigeonhole principle. `CashInv` says that as long as one
thread at most is about to take a client's cash, what it found is still there.

`SqlSessionsProofs`, for any finite set of programs, any clients, any assignment of
clients to programs and any number of commands and trades:

* `PushesFindTheirClient`: a push goes to its client unless the connection it was
  looked up for is gone;
* `OneSessionStaysReachable`: a client is in the registry unless two of its
  sessions, or a push that outlives one, have met.

`SessionsInv` follows a client's identity from its program through what it sends to
its session (`IdentityInv`), from there to the registry, which names only
descriptors of that client's sessions that have still to take them out
(`RegistryInv`), to what the pushing threads have looked up (`HandInv`) and to the
stream (`MailInv`); `FdInv` says that a descriptor is of one open connection. That
a free one exists is the pigeonhole principle, hence the finite set of programs.
`ReachableUnlessRaced` is preserved by the steps of other sessions because they
could erase the entry only if they were of the same client, which `raced` then
holds (`TwoRace`, `ReachableStep`).

`SimulationProofs`, for any bots, symbols, prices, sizes and bounds that meet
`BotAssumption`:

* `SamplesAddUp`: `SamplesHoldAllTheCash`;
* `NoQuoteIsForgotten`: `QuotesAreRemembered`.

The books of `BotTrading` are those of `AtomicBook` with `taker` constant, which is an
instance of `OrderBookProofs`: `AtomicInv` holds of them after every `Build`, `Match`
and `Cancel`. Around it `FloorInv` says where each thread is in its step and that what
it carries is there: a trade still to be settled or told is one of its order's trades
(`Fits`). `RunInv` is preserved by every step of a bot, of the watcher, of the main
thread and of the recorder. Between two settlements the cash of all bots is then the
same sum, as `settle` adds to one bot what it takes from another, or does nothing
between a bot and itself.

`QuotesAreRemembered` speaks of a bot between its steps and says nothing of the middle
of one. `QuoteInv` says what a market maker's memory is then: whatever of its orders
rests is remembered or the one in its hands; what is still to be submitted is of a side
whose place in the memory is free (`QuoteFits`); the order in its hands is the first of
those (`JobFits`); and no order of a market maker waits, so the watcher never brings one
to a book behind its back (`Patient`). Other threads only ever take its orders out of
the books (`RestingShrinks`). A quote of which nothing is left may be forgotten, since
it does not rest (`RestingHasMore`).

`ReportProofs`, of the same runs:

* `ReportIsRight`: `ReportAddsUp`.

The report is one moment, the accounts are kept through all of the run (`ReportInv`).
A bot's cash is the initial one, and what the recorded trades, those on the bus and
those settled and not yet published are worth to it (`MoneyAddsUp`, `Pending`);
rejected and expired orders are counted, recorded or on the bus (`EventsAddUp`); and of
the submitted orders some may be in a thread's hands (`SubmittedAddUp`, `Opened`).
Every step of a thread moves an amount from one of these places to another (`Ledger`,
one lemma per action), a delivery moves an event from the bus to the records, and the
main thread moves nothing. `Phases` says what the main thread has waited for at each of
its places: bots asleep once joined, the watcher ended, the bus empty after the flush.
By the time it writes, nothing is in a thread's hands (`NothingPending`), so what is
left of the accounts is what the report claims.

TLAPS reaches neither liveness under fairness nor `ENABLED`. With TLC only stay the
liveness half of `SettlesEveryTradeOnce` and everything with `~>` or `<>`. So does
`FixingTradesTheMost`: its sums over the orders of an auction are for TLC. Every
other safety invariant and action property that a passing run checks is a theorem.

Some theorems state what no run checks, since they are plain once the others are
known: `RestingOrdersBelong`, `DestroyedDrained`, `SamplesAddUp`, `SqlTradesAreFair`,
`MakerTypeCorrect`. `SqlTradesAreFair` asks of every trade that it is between the best
buy and the best sell at a price within both limits. It does not say which price: the
documents promise one the code does not take (section 5).

## 5. Findings

* `server_restart`: a snapshot taken between `register_client` and
  `ensure_client` restores an account without portfolio, whose orders are
  rejected for ever, against `persistence.hpp:9`.
* `sql_settlement`: when a trade is settled, the buyer's own row is still PENDING
  and counts in `can_afford` (`client.cpp:335`): a buyer with less than twice the
  cost gets no shares and pays nothing, yet the seller is paid, and both orders
  are COMPLETED (`market.cpp:621`).
* `sql_auction_price`: a fixing gives every pair of orders a price of its own
  (`market.cpp:578`), against the README of `Src_SQL` (lines 32-33), which has all
  orders executed at one equilibrium price. The volume is the promised one
  (`FixingTradesTheMost`).

Seen while modelling, and not stated as runs. Against what the repository says:

* the reference price is written after the book's lock was released
  (`matching_engine.cpp:197`); two threads may write in the other order, and
  `last_price()` is then not the last traded price;
* connection threads are detached and go on after the final save; a REGISTER
  answered OK then is lost by a graceful shutdown, against the comment at
  `simulation_server.cpp:181`;
* between two LIMIT orders the seller's price is taken (`market.cpp:409`), also when
  the buyer's order is the older one, against the comment at line 391;
* a MARKET order for quantity 0 is accepted and, once first in its book, nothing
  behind it trades (`market.cpp:572`), against the immediate matching of the README
  of `Src_SQL` (lines 34-35). `SweptIsUncrossed` and `FixingTradesTheMost` make the
  exception;
* after a receive timeout every answer is taken for that to the next command
  (`client_connection.cpp:56`), and a quote is forgotten whatever was answered to
  its cancellation, so quotes pile up in the book, which `sim_client_main.cpp:218`
  says they do not.

And besides:

* a client that registers between a save's reads of accounts and portfolios
  leaves a portfolio without account; after a restart its id is given out again,
  and the next client inherits the cash and is granted the shares a second time;
* a session that ends, or a push that fails, erases its client's entry in the
  registry whichever connection the entry names (`server.cpp:733`): a client with
  two connections can be connected and unreachable (`ReachableUnlessRaced` is
  stated for the others);
* a session's check and its insertion or withdrawal can be passed by another session of
  its client or by a sweep, and the client overdrawn (`UnracedNeverOverdrawn` is
  stated for the others);
* a push looked up before its connection was closed can arrive on the descriptor's
  next connection, which is another client's;
* a CANCEL that looks in the book while the watcher still carries the order, and in
  the registry after it was taken out, answers NOT_FOUND for an order that lives on;
* validities of this century never expire (section 2);
* PENDING rows outlive the process, their books do not: such an order counts
  against its client's cash and is never traded.

## 6. What is not modelled, and the plan

Left out for good: text formats, and of the wire a frame that is cut by a
timeout in its middle, after which the stream is read from the wrong place; of
`sim_client` the noise and momentum bots, which remember no order, the interactive
mode and the discovery of symbols; the metrics series and latencies, the logger,
hashing, seeding and command lines, the stand-alone experiments. Prices are integers here
and doubles in the code: rounding is not modelled. Of `MarketData` the bars, the
ring buffer and the VWAP quotient; of the recorder the prices, depths and
net worths, and the report that is not written because its directory cannot be made
(`market_recorder.cpp:169-174`): `ReportAddsUp` speaks of those that are. The nesting
of the engine's price and portfolio locks, each held for one access. Of the SQL
exchange the views, summaries, keys and the log of messages; `deaccumulate_order`, `remove_client` and `remove_action`, which
nothing calls; the probe that asks whether a server runs; the keyword searches
in what a session reads, but for the coalescing of messages; and a session that
names another client's id, which the client program never does. The
price of an action is read from its latest row; of two rows with one time stamp
the later is taken for the latest.

What a continuation would take up next is a proof of `FixingTradesTheMost`, over the
sums of `SumProofs`; that an order leaves the registry once its deadline has passed,
under a clock and a watcher that comes late; and runs for the disagreements of
section 5 that have none.
