------------------------------ MODULE SqlStore ------------------------------
(***************************************************************************)
(* The tables of the SQLite-backed exchange (Src_SQL) and the queries made *)
(* on them.  Every query takes the mutex of Database_Manager for itself    *)
(* (database_management.cpp:41), so one query is one step and two queries  *)
(* are two, unless nothing can change between them.                        *)
(*                                                                         *)
(* Prices are small integers and money is counted in tenths, because a     *)
(* MARKET order reserves 1.10 times the last price.  An order id is random *)
(* and free (database_management.cpp:114); here it is the smallest free    *)
(* one.  The rows of COMPLETED orders are kept as totals.                  *)
(***************************************************************************)
EXTENDS Integers, Sequences, FiniteSets, FiniteSetsExt, SequencesExt

CONSTANTS
  Clients, Actions,
  MaxOrders,        \* bound: how many orders are placed
  MaxNumber,        \* max_number, above every price a client may name
  InitialBalance, InitialShares, InitialPrice

ASSUME StoreAssumption ==
  /\ IsFiniteSet(Actions) /\ Actions # {}
  /\ MaxOrders \in Nat
  /\ MaxNumber \in Nat
  /\ InitialPrice \in 1 .. MaxNumber - 1
  /\ InitialBalance \in [Clients -> Nat]
  /\ InitialShares \in [Clients -> [Actions -> Nat]]

VARIABLES
  balance,     \* client -> cash, in tenths
  portfolio,   \* client -> action -> quantity
  price,       \* action -> the last price of the prices table
  orders,      \* order id -> row whose status is PENDING or WAITING
  completed    \* client -> action -> quantity of its COMPLETED buys less sells

store == <<balance, portfolio, price, orders, completed>>

Sides == {"BUY", "SELL"}
Kinds == {"MARKET", "LIMIT", "STOP", "LIMIT_STOP"}

\* Leftovers of partly filled orders get an id too.
Ids == 1 .. 2 * MaxOrders
NoExpiry == MaxNumber

-----------------------------------------------------------------------------
\* Dates.  The clock of the model counts days, and get_date_time is their code.
\* A date typed by a client is coded from the full year and the month counted
\* from 1, where tm_year counts from 1900 and tm_mon from 0.

DateOfClock(day) == day
DateOfText(day) == day + 31 * (1 + 12 * 1900)

-----------------------------------------------------------------------------
\* Queries

\* What a row keeps back of its client's balance, whichever side it is of.
Reserved(row) ==
  row.quantity * (IF row.kind = "MARKET" THEN 11 * price[row.action]
                                         ELSE 10 * row.price)

RowsOf(c) == {i \in DOMAIN orders : orders[i].client = c}

Available(c) ==
  balance[c] - SumFunction([i \in RowsOf(c) |-> Reserved(orders[i])])

CanAfford(c, quantity, limit, a) ==
  LET amount == quantity * (IF limit = MaxNumber THEN 11 * price[a] ELSE 10 * limit)
  IN  /\ limit = MaxNumber => price[a] > 0
      /\ amount >= 0
      /\ amount <= Available(c)

HasShares(c, a, quantity) == quantity > 0 /\ quantity <= portfolio[c][a]

\* The rows the watcher asks for (get_waiting_orders), and the pending ones.
Having(status) == {i \in DOMAIN orders : orders[i].status = status}

\* A free id, other than those orders have that are in no table.
NewOrderId(taken) == Min({i \in Ids : i \notin DOMAIN orders \cup taken})

-----------------------------------------------------------------------------
\* Updates.  Each is an action on the tables it names.

\* What is not positive is not paid in.
Deposit(c, amount) ==
  balance' = IF amount > 0 THEN [balance EXCEPT ![c] = @ + amount] ELSE balance

\* Whoever withdraws has asked can_afford before.
Withdraw(c, amount) == balance' = [balance EXCEPT ![c] = @ - amount]

AddShares(c, a, quantity, at) ==
  /\ portfolio' = [portfolio EXCEPT ![c][a] = @ + quantity]
  /\ price' = [price EXCEPT ![a] = at]

RemoveShares(c, a, quantity, at) ==
  /\ portfolio' = [portfolio EXCEPT ![c][a] = Max({@ - quantity, 0})]
  /\ price' = [price EXCEPT ![a] = at]

WithRow(id, row) == [i \in DOMAIN orders \cup {id} |-> IF i = id THEN row ELSE orders[i]]
WithoutRows(ids) == [i \in DOMAIN orders \ ids |-> orders[i]]

AddPendingOrder(id, row) == orders' = WithRow(id, [row EXCEPT !.status = "PENDING"])
AddWaitingOrder(id, row) == orders' = WithRow(id, [row EXCEPT !.status = "WAITING"])

\* A row leaves the table only from the status it is looked for in.
RemovePendingOrders(ids) == orders' = WithoutRows(ids \cap Having("PENDING"))
RemoveWaitingOrder(id) == orders' = WithoutRows({id} \cap Having("WAITING"))

\* The totals, with one more COMPLETED row.
AddCompletedOrder(totals, row, quantity) ==
  [totals EXCEPT ![row.client][row.action] =
     @ + (IF row.side = "BUY" THEN quantity ELSE -quantity)]

-----------------------------------------------------------------------------
\* The tables as `reset` and `init` leave them.

CreateTables ==
  /\ orders = [i \in {} |-> 0]
  /\ completed = [c \in Clients |-> [a \in Actions |-> 0]]

AddActions == price = [a \in Actions |-> InitialPrice]
AddClients == balance = InitialBalance /\ portfolio = InitialShares

StoreInit == CreateTables /\ AddActions /\ AddClients
=============================================================================
