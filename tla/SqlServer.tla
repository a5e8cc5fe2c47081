----------------------------- MODULE SqlServer -----------------------------
(***************************************************************************)
(* The server of the SQLite-backed exchange (server.cpp): a thread for     *)
(* each session (handle_client), the watcher of the orders that wait, the  *)
(* thread that leads the market through its phases, and the life of the    *)
(* process around them.  What a handler refuses leaves no trace but a log  *)
(* line, so a refusal is a step that is not taken.  The unsynchronised     *)
(* flag of the continuous phase is read when the mutex is taken.           *)
(***************************************************************************)
EXTENDS SqlMarket

CONSTANTS
  Connections,   \* the sessions, each of one client (client_account.cpp puts its id
                 \* before what it sends)
  Owner,
  Requests,      \* client -> the orders it may ask for
  Amounts,       \* client -> what it deposits or withdraws
  MaxMoves, MaxPlays     \* bounds: movements of cash, launches of the server

\* What a client may send: any words and numbers, a price below max_number.
RequestRecords ==
  [side : STRING, kind : STRING, action : Actions \cup STRING, quantity : Int,
   price : {p \in Int : p < MaxNumber}, lower : Int, upper : Int, until : SUBSET Int]

ASSUME ServerAssumption ==
  /\ IsFiniteSet(Connections)
  /\ Owner \in [Connections -> Clients]
  /\ \A c \in Clients : Requests[c] \subseteq RequestRecords /\ Amounts[c] \subseteq Int
  /\ Threads = Connections \cup {"watcher", "market"}
  /\ "watcher" \notin Connections /\ "market" \notin Connections
  /\ Nobody \notin Threads
  /\ MaxMoves \in Nat /\ MaxPlays \in Nat \ {0}

VARIABLES
  hand,      \* thread -> the order it holds that is in no table (a set)
  draw,      \* connection -> the amount it found it may withdraw (a set)
  late,      \* connections whose session ended with the market
  watch,     \* the scan of the watcher
  phase,     \* the phase of the market, or "down"
  placed, moves, plays,
  orphans,   \* ghost: PENDING rows whose book died with an earlier process
  raced      \* ghost: clients whose cash two threads were about to take

vars == <<store, market, hand, draw, late, watch, phase, placed, moves, plays,
          orphans, raced>>

Up == phase # "down"
Closed == phase = "closed"              \* shutdown_flag
IsContinuous == phase = "continuous"    \* is_continuous_trading_period
Asleep == [stage |-> "asleep", left |-> {}]

\* Sessions are short and a day apart.
today == plays
InHand == {o.id : o \in UNION {hand[t] : t \in Threads}}

-----------------------------------------------------------------------------
\* Parsing an order: its place in the book and the band of its trigger.

MarketBand(r) ==
  [price |-> IF r.side = "BUY" THEN MaxNumber ELSE 0, lower |-> 0, upper |-> MaxNumber]
LimitBand(r) == [price |-> r.price, lower |-> r.lower, upper |-> MaxNumber]
StopBand(r) == [price |-> r.price, lower |-> 0, upper |-> r.upper]
LimitStopBand(r) == [price |-> r.price, lower |-> r.lower, upper |-> r.upper]

Band(r) ==
  CASE r.kind = "MARKET" -> MarketBand(r)
    [] r.kind = "LIMIT" -> LimitBand(r)
    [] r.kind = "STOP" -> StopBand(r)
    [] r.kind = "LIMIT_STOP" -> LimitStopBand(r)

\* A price and the bounds a kind needs are given, and positive.
LimitIsComplete(r) == r.price > 0 /\ r.lower > 0
StopIsComplete(r) == r.price > 0 /\ r.upper > 0
LimitStopIsComplete(r) == r.price > 0 /\ r.lower > 0 /\ r.upper > 0

WellFormed(r) ==
  \/ r.kind = "MARKET"
  \/ r.kind = "LIMIT" /\ LimitIsComplete(r)
  \/ r.kind = "STOP" /\ StopIsComplete(r)
  \/ r.kind = "LIMIT_STOP" /\ LimitStopIsComplete(r)

\* The validity it leaves out is none.
Validity(r) == IF r.until = {} THEN NoExpiry ELSE DateOfText(CHOOSE d \in r.until : TRUE)

RowOf(client, r) ==
  [status |-> "WAITING", client |-> client, side |-> r.side, quantity |-> r.quantity,
   action |-> r.action, kind |-> r.kind, price |-> Band(r).price,
   lower |-> Band(r).lower, upper |-> Band(r).upper,
   validity |-> Validity(r), stamp |-> placed + 1]

-----------------------------------------------------------------------------
\* Sessions

\* A session that reads a request.  It sees shutdown_flag only when it is done
\* with one: a session that was already reading serves one more.
Served(c) ==
  /\ Up
  /\ hand[c] = {} /\ draw[c] = {} /\ mtx # c
  /\ c \notin late
  /\ late' = IF Closed THEN late \cup {c} ELSE late

\* An order is checked against the tables and gets its id.  The client is told
\* that it was created.
AdmitOrder(c) ==
  /\ Served(c)
  /\ placed < MaxOrders
  /\ \E r \in Requests[Owner[c]] :
       LET row == RowOf(Owner[c], r)
       IN  /\ WellFormed(r) /\ r.side \in Sides /\ r.action \in Actions
           /\ IF r.side = "BUY" THEN CanAfford(row.client, row.quantity, row.price, row.action)
                                ELSE HasShares(row.client, row.action, row.quantity)
           /\ hand' = [hand EXCEPT ![c] = {[id |-> NewOrderId(InHand), row |-> row]}]
  /\ placed' = placed + 1
  /\ UNCHANGED <<store, market, draw, watch, phase, moves, plays, orphans>>

\* What a thread has in hand goes into its book.
Enter(t) ==
  /\ \E o \in hand[t] :
       /\ t # "watcher" => o.row.kind = "MARKET"
       /\ AccumulateOrder(t, o.id, o.row, IsContinuous)
  /\ hand' = [hand EXCEPT ![t] = {}]
  /\ UNCHANGED <<balance, portfolio, price, completed, draw, late, watch, phase,
                 placed, moves, plays, orphans>>

\* An order with a trigger waits in the tables.
WaitForTrigger(c) ==
  /\ \E o \in hand[c] :
       /\ o.row.kind # "MARKET"
       /\ AddWaitingOrder(o.id, o.row)
  /\ hand' = [hand EXCEPT ![c] = {}]
  /\ UNCHANGED <<balance, portfolio, price, completed, market, draw, late, watch, phase,
                 placed, moves, plays, orphans>>

DepositCash(c) ==
  /\ Served(c)
  /\ moves < MaxMoves
  /\ \E amount \in Amounts[Owner[c]] : Deposit(Owner[c], 10 * amount)
  /\ moves' = moves + 1
  /\ UNCHANGED <<portfolio, price, orders, completed, market, hand, draw, watch, phase,
                 placed, plays, orphans>>

\* can_afford(client, 1, amount, -1), and then the withdrawal.
CheckWithdrawal(c) ==
  /\ Served(c)
  /\ moves < MaxMoves
  /\ \E amount \in Amounts[Owner[c]] :
       /\ amount >= 0 /\ 10 * amount <= Available(Owner[c])
       /\ draw' = [draw EXCEPT ![c] = {amount}]
  /\ moves' = moves + 1
  /\ UNCHANGED <<store, market, hand, watch, phase, placed, plays, orphans>>

WithdrawCash(c) ==
  /\ \E amount \in draw[c] : Withdraw(Owner[c], 10 * amount)
  /\ draw' = [draw EXCEPT ![c] = {}]
  /\ UNCHANGED <<portfolio, price, orders, completed, market, hand, late, watch, phase,
                 placed, moves, plays, orphans>>

-----------------------------------------------------------------------------
\* trigger_and_expiration_watcher

Scan ==
  /\ Up
  /\ watch.stage = "asleep"
  /\ Having("WAITING") # {}
  /\ watch' = [stage |-> "scan", left |-> Having("WAITING")]
  /\ UNCHANGED <<store, market, hand, draw, late, phase, placed, moves, plays, orphans>>

Expired(row) == row.validity # NoExpiry /\ row.validity <= DateOfClock(today)
InBand(row) == price[row.action] \in row.lower .. row.upper

\* Looking at one order of the scan, with the thread's hand empty.
Looks(i) ==
  /\ watch.stage = "scan" /\ hand["watcher"] = {} /\ mtx # "watcher"
  /\ i \in watch.left
  /\ watch' = [watch EXCEPT !.left = @ \ {i}]
  /\ UNCHANGED <<balance, portfolio, price, completed, market, draw, late, phase,
                 placed, moves, plays, orphans>>

Expire(i) ==
  /\ Looks(i)
  /\ Expired(orders[i])
  /\ RemoveWaitingOrder(i)
  /\ UNCHANGED hand

KeepWaiting(i) ==
  /\ Looks(i)
  /\ ~Expired(orders[i]) /\ ~InBand(orders[i])
  /\ UNCHANGED <<orders, hand>>

\* The row is removed before the mutex is asked for.
Take(i) ==
  /\ Looks(i)
  /\ ~Expired(orders[i]) /\ InBand(orders[i])
  /\ RemoveWaitingOrder(i)
  /\ hand' = [hand EXCEPT !["watcher"] = {[id |-> i, row |-> orders[i]]}]

\* Slip: the watcher does not look at shutdown_flag.
EndScanForEver ==
  /\ Up /\ watch.stage = "scan"
  /\ watch.left = {} /\ hand["watcher"] = {} /\ mtx # "watcher"
  /\ watch' = Asleep
  /\ UNCHANGED <<store, market, hand, draw, late, phase, placed, moves, plays, orphans>>

EndScan ==
  /\ Up
  /\ watch.stage \in {"asleep", "scan"}
  /\ watch.left = {} /\ hand["watcher"] = {} /\ mtx # "watcher"
  /\ watch.stage = "asleep" => Closed /\ Having("WAITING") = {}
  /\ watch' = [Asleep EXCEPT !.stage = IF Closed THEN "stopped" ELSE "asleep"]
  /\ UNCHANGED <<store, market, hand, draw, late, phase, placed, moves, plays, orphans>>

-----------------------------------------------------------------------------
\* market_session

GoTo(next) ==
  /\ phase' = next
  /\ UNCHANGED <<store, hand, draw, late, watch, placed, moves, plays, orphans>>

Fixing ==
  \/ phase = "preopen"  /\ ProcessFixing("market") /\ GoTo("open")
  \/ phase = "preclose" /\ ProcessFixing("market") /\ GoTo("close")

BeginContinuous == phase = "open" /\ mtx # "market" /\ GoTo("continuous") /\ UNCHANGED market
EndContinuous == phase = "continuous" /\ GoTo("preclose") /\ UNCHANGED market
ShutDown == phase = "close" /\ mtx # "market" /\ GoTo("closed") /\ UNCHANGED market

Sweep ==
  /\ SweepStep(InHand)
  /\ UNCHANGED <<hand, draw, late, watch, phase, placed, moves, plays, orphans>>

-----------------------------------------------------------------------------
\* The process

\* Whatever is in memory is lost with the process, and the threads stop where
\* they are.
Down ==
  /\ phase' = "down"
  /\ hand' = [t \in Threads |-> {}]
  /\ draw' = [c \in Connections |-> {}]
  /\ watch' = Asleep /\ late' = {}
  /\ book' = [a \in Actions |-> [side \in Sides |-> <<>>]]
  /\ mtx' = Nobody /\ sweep' = NoSweep
  /\ orphans' = Having("PENDING")
  /\ UNCHANGED <<store, placed, moves, plays>>

\* main joins the market, the acceptor and the watcher; sessions are detached.
Exit == Closed /\ watch.stage = "stopped" /\ Down

Crash == Up /\ plays < MaxPlays /\ Down

\* `play` on the tables of the last session.
Play ==
  /\ phase = "down" /\ plays < MaxPlays
  /\ phase' = "preopen"
  /\ plays' = plays + 1
  /\ UNCHANGED <<store, market, hand, draw, late, watch, placed, moves, orphans>>

\* The threads that have found a client's cash sufficient and not yet taken it, and
\* the clients who have more than one.
Spenders(cl) ==
  {t \in Connections : Owner[t] = cl /\ draw[t] # {}}
    \cup {t \in {mtx} : sweep.stage = "pay" /\ sweep.trade.buy.client = cl}

Contended == {cl \in Clients : Cardinality(Spenders(cl)) > 1}

Init ==
  /\ StoreInit /\ MarketInit
  /\ hand = [t \in Threads |-> {}]
  /\ draw = [c \in Connections |-> {}]
  /\ late = {} /\ watch = Asleep
  /\ phase = "preopen" /\ placed = 0 /\ moves = 0 /\ plays = 1
  /\ orphans = {} /\ raced = {}

Session(c) ==
  \/ AdmitOrder(c) \/ Enter(c) \/ WaitForTrigger(c)
  \/ DepositCash(c) \/ CheckWithdrawal(c) \/ WithdrawCash(c)

Watcher ==
  \/ Scan \/ EndScan \/ Enter("watcher")
  \/ \E i \in watch.left : Expire(i) \/ KeepWaiting(i) \/ Take(i)

MarketSession == Fixing \/ BeginContinuous \/ EndContinuous \/ ShutDown

Next ==
  /\ \/ \E c \in Connections : Session(c)
     \/ Watcher \/ MarketSession \/ Sweep
     \/ Exit \/ Crash \/ Play
  /\ raced' = raced \cup Contended'

\* The threads of the server are scheduled; a client may never ask for anything.
Fairness ==
  /\ WF_vars((Sweep \/ Exit) /\ raced' = raced \cup Contended')
  /\ WF_vars(MarketSession /\ raced' = raced \cup Contended')
  /\ WF_vars(Watcher /\ raced' = raced \cup Contended')

Spec == Init /\ [][Next]_vars /\ Fairness

-----------------------------------------------------------------------------
\* Properties

Row(i) == orders[i]
Live(a) == {i \in Having("PENDING") \ orphans : Row(i).action = a}

\* The book in memory and the PENDING rows are two records of the same orders:
\* when nobody holds the mutex each PENDING row of this process is in exactly
\* one place of the right side of its book, in price-time order, and an order a
\* thread has in hand is in no table and in no other hand, whichever of the
\* sessions, the watcher and the sweeps touched them in between.
BooksMatchRows ==
  /\ mtx = Nobody /\ Up => \A a \in Actions :
       /\ Live(a) = ToSet(book[a]["BUY"]) \cup ToSet(book[a]["SELL"])
       /\ \A side \in Sides : LET ids == book[a][side] IN
            /\ IsInjective(ids)
            /\ \A k \in DOMAIN ids : Row(ids[k]).side = side /\ Row(ids[k]).action = a
            /\ \A j, k \in DOMAIN ids : j < k => ~Ahead(Row(ids[k]), Row(ids[j]))
  /\ InHand \cap DOMAIN orders = {}
  /\ \A s, t \in Threads : s # t => hand[s] \cap hand[t] = {}

\* Whom a trade brings together: the best pending buy and the best pending sell
\* of the tables, at a price both accept that is never a placeholder.  The one
\* price of an auction that the documents promise is in SqlAuction.
TradesAreFair ==
  [][sweep.stage = "match" /\ sweep'.trade # NoTrade =>
      LET trade == sweep'.trade
          buy == trade.buy
          sell == trade.sell
      IN  /\ \A i \in Live(buy.action) :
               /\ Row(i).side = "BUY" => ~Ahead(Row(i), buy)
               /\ Row(i).side = "SELL" => ~Ahead(Row(i), sell)
          /\ trade.at \in 1 .. MaxNumber - 1
          /\ sell.price <= trade.at /\ trade.at <= buy.price]_vars

\* A sweep leaves an action only when none of its pending orders could trade,
\* or when an order of no quantity, which is accepted, stands in the way.
SweptIsUncrossed ==
  [][\A a \in Actions :
       Up /\ Up' /\ sweep.stage = "match" /\ Head(sweep.todo) = a
         /\ (sweep'.stage = "none" \/ sweep'.todo # sweep.todo) =>
       \/ \E i \in Live(a) : Row(i).quantity = 0
       \/ \A i, j \in Live(a) :
            Row(i).side = "BUY" /\ Row(j).side = "SELL" => Row(i).price < Row(j).price]_vars

\* Cash is checked in one query and taken in another, by sessions and by
\* sweeps.  A balance goes below zero only if two threads were between the two
\* for the same client at once: one spender alone never overdraws.
UnracedNeverOverdrawn == \A cl \in Clients : cl \notin raced => balance[cl] >= 0
=============================================================================
