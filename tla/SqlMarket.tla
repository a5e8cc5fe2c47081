----------------------------- MODULE SqlMarket -----------------------------
(***************************************************************************)
(* The live order book of the SQLite-backed exchange (market.cpp) and the  *)
(* sweeps that trade on it.  The books and the flag of the continuous      *)
(* phase belong to the mutex mtx of server.cpp; the tables of SqlStore do  *)
(* not, so a sweep is a sequence of steps between which sessions read and  *)
(* write them.                                                             *)
(***************************************************************************)
EXTENDS SqlStore

CONSTANTS Threads, Nobody

VARIABLES
  book,        \* action -> side -> ids, best first (Buy_Orders, Sell_Orders)
  mtx,         \* the thread that holds the mutex, or Nobody
  sweep        \* what the holder is doing

market == <<book, mtx, sweep>>

NoTrade == [bought |-> 0, sold |-> 0, buy |-> <<>>, sell |-> <<>>, quantity |-> 0, at |-> 0]
NoSweep == [stage |-> "none", todo |-> <<>>, trade |-> NoTrade]

-----------------------------------------------------------------------------
\* buy_order_priority and sell_order_priority: a better price, then the time.
Ahead(r, s) ==
  \/ r.side = "BUY"  /\ r.price > s.price
  \/ r.side = "SELL" /\ r.price < s.price
  \/ r.price = s.price /\ r.stamp < s.stamp

\* Slip: the order goes to the end of its side.
InsertLast(ids, id, row) == Append(ids, id)

\* std::lower_bound and vector::insert.
InsertByPriority(ids, id, row) ==
  InsertAt(ids, 1 + Cardinality({i \in DOMAIN ids : Ahead(orders[ids[i]], row)}), id)

\* The price of a trade.  The price of a MARKET order only ranks it.  An action
\* with no last price has no MARKET buy, so Exchange_Price is never needed.
ResolveExecutionPrice(buy, sell) ==
  CASE buy.kind = "MARKET" /\ sell.kind = "MARKET" -> price[buy.action]
    [] buy.kind # "MARKET" /\ sell.kind = "MARKET" -> buy.price
    [] OTHER -> sell.price

Crosses(buy, sell) == buy.price >= sell.price

\* Slip: the loop stops one order short of the end of a side.
TradableOffByOne(a) ==
  /\ Len(book[a]["BUY"]) > 1 /\ Len(book[a]["SELL"]) > 1
  /\ LET buy == orders[Head(book[a]["BUY"])]
         sell == orders[Head(book[a]["SELL"])]
     IN  Crosses(buy, sell) /\ buy.quantity > 0 /\ sell.quantity > 0

\* Both heads of an action cross and both quantities are positive.
Tradable(a) ==
  /\ book[a]["BUY"] # <<>> /\ book[a]["SELL"] # <<>>
  /\ LET buy == orders[Head(book[a]["BUY"])]
         sell == orders[Head(book[a]["SELL"])]
     IN  Crosses(buy, sell) /\ buy.quantity > 0 /\ sell.quantity > 0

-----------------------------------------------------------------------------
\* A thread takes the mutex, enters an order and, in the continuous phase, goes
\* on to sweep its action with the mutex held.
AccumulateOrder(t, id, row, sweeping) ==
  /\ mtx = Nobody
  /\ AddPendingOrder(id, row)
  /\ book' = [book EXCEPT ![row.action][row.side] = InsertByPriority(@, id, row)]
  /\ IF sweeping
       THEN mtx' = t /\ sweep' = [NoSweep EXCEPT !.stage = "match", !.todo = <<row.action>>]
       ELSE UNCHANGED <<mtx, sweep>>

\* Fixing sweeps every action that has a side of buyers, in any order.
ProcessFixing(t) ==
  /\ mtx = Nobody
  /\ mtx' = t
  /\ \E todo \in {s \in [1 .. Cardinality(Actions) -> Actions] : IsInjective(s)} :
       sweep' = [NoSweep EXCEPT !.stage = "match", !.todo = todo]
  /\ UNCHANGED <<store, book>>

\* Slip: the buyer pays, for the order was found covered when it was admitted.
MatchUnchecked ==
  /\ sweep.stage = "match"
  /\ LET a == Head(sweep.todo)
         bought == Head(book[a]["BUY"])
         sold == Head(book[a]["SELL"])
         buy == orders[bought]
         sell == orders[sold]
     IN  /\ Tradable(a)
         /\ sweep' = [sweep EXCEPT
              !.stage = "pay",
              !.trade = [bought |-> bought, sold |-> sold, buy |-> buy, sell |-> sell,
                         quantity |-> Min({buy.quantity, sell.quantity}),
                         at |-> ResolveExecutionPrice(buy, sell)]]
  /\ UNCHANGED <<store, book, mtx>>

\* The loop looks at the two heads, and finds whether the buyer can pay.
Match ==
  /\ sweep.stage = "match"
  /\ LET a == Head(sweep.todo)
         bought == Head(book[a]["BUY"])
         sold == Head(book[a]["SELL"])
         buy == orders[bought]
         sell == orders[sold]
         quantity == Min({buy.quantity, sell.quantity})
         at == ResolveExecutionPrice(buy, sell)
     IN  /\ Tradable(a)
         /\ sweep' = [sweep EXCEPT
              !.stage = IF CanAfford(buy.client, quantity, at, a) THEN "pay" ELSE "deliver",
              !.trade = [bought |-> bought, sold |-> sold, buy |-> buy, sell |-> sell,
                         quantity |-> quantity, at |-> at]]
  /\ UNCHANGED <<store, book, mtx>>

\* The buyer's leg of update_portfolio: withdraw, then add_action.
BuyerPays ==
  /\ sweep.stage = "pay"
  /\ Withdraw(sweep.trade.buy.client, 10 * sweep.trade.at * sweep.trade.quantity)
  /\ sweep' = [sweep EXCEPT !.stage = "receive"]
  /\ UNCHANGED <<portfolio, price, orders, completed, book, mtx>>

BuyerReceives ==
  /\ sweep.stage = "receive"
  /\ LET trade == sweep.trade
     IN  AddShares(trade.buy.client, trade.buy.action, trade.quantity, trade.at)
  /\ sweep' = [sweep EXCEPT !.stage = "deliver"]
  /\ UNCHANGED <<balance, orders, completed, book, mtx>>

\* The seller's leg: deposit, then remove_action.  It does not depend on the
\* buyer's: a buyer who could not pay has no shares, and the seller is paid all
\* the same.
SellerIsPaid ==
  /\ sweep.stage = "deliver"
  /\ LET trade == sweep.trade
         has == HasShares(trade.sell.client, trade.sell.action, trade.quantity)
     IN  /\ IF has THEN Deposit(trade.sell.client, 10 * trade.at * trade.quantity)
                   ELSE UNCHANGED balance
         /\ sweep' = [sweep EXCEPT !.stage = IF has THEN "remove" ELSE "close"]
  /\ UNCHANGED <<portfolio, price, orders, completed, book, mtx>>

SellerDelivers ==
  /\ sweep.stage = "remove"
  /\ LET trade == sweep.trade
     IN  RemoveShares(trade.sell.client, trade.sell.action, trade.quantity, trade.at)
  /\ sweep' = [sweep EXCEPT !.stage = "close"]
  /\ UNCHANGED <<balance, orders, completed, book, mtx>>

\* Both orders leave the PENDING rows and the traded quantity goes to the
\* COMPLETED ones, of both clients.
CloseOrders ==
  /\ sweep.stage = "close"
  /\ LET trade == sweep.trade
     IN  /\ RemovePendingOrders({trade.bought, trade.sold})
         /\ completed' = AddCompletedOrder(AddCompletedOrder(completed, trade.buy, trade.quantity),
                                           trade.sell, trade.quantity)
  /\ sweep' = [sweep EXCEPT !.stage = "reopen"]
  /\ UNCHANGED <<balance, portfolio, price, book, mtx>>

\* What is left of a partly filled order takes its place with a new id, and an
\* order that is filled leaves the book.
Reopen(taken) ==
  /\ sweep.stage = "reopen"
  /\ LET trade == sweep.trade
         a == trade.buy.action
         left == [side \in Sides |-> IF side = "BUY" THEN trade.buy ELSE trade.sell]
         open == {side \in Sides : left[side].quantity > trade.quantity}
         fresh == NewOrderId(taken)
     IN  /\ IF open = {} THEN UNCHANGED orders
            ELSE LET row == left[CHOOSE side \in open : TRUE]
                 IN  AddPendingOrder(fresh, [row EXCEPT !.quantity = @ - trade.quantity])
         /\ book' = [book EXCEPT ![a] = [side \in Sides |->
              IF side \in open THEN <<fresh>> \o Tail(@[side]) ELSE Tail(@[side])]]
  /\ sweep' = [sweep EXCEPT !.stage = "match", !.trade = NoTrade]
  /\ UNCHANGED <<balance, portfolio, price, completed, mtx>>

\* The heads do not trade: on to the next action, or the mutex is released.
NextAction ==
  /\ sweep.stage = "match"
  /\ ~Tradable(Head(sweep.todo))
  /\ IF Len(sweep.todo) > 1
       THEN sweep' = [sweep EXCEPT !.todo = Tail(@)] /\ UNCHANGED mtx
       ELSE sweep' = NoSweep /\ mtx' = Nobody
  /\ UNCHANGED <<store, book>>

\* One step of the loop of process_continuous_trading and process_fixing.
SweepStep(taken) ==
  \/ Match \/ BuyerPays \/ BuyerReceives \/ SellerIsPaid \/ SellerDelivers
  \/ CloseOrders \/ Reopen(taken) \/ NextAction

\* A session starts with no order in memory, whatever the tables hold.
MarketInit ==
  /\ book = [a \in Actions |-> [side \in Sides |-> <<>>]]
  /\ mtx = Nobody
  /\ sweep = NoSweep
=============================================================================
