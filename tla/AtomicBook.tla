----------------------------- MODULE AtomicBook -----------------------------
(***************************************************************************)
(* What OrderBook::match promises (include/order_book.hpp, the comments of *)
(* match and of its two helpers): the incoming order is executed in one    *)
(* step against the resting orders of the other side that it crosses, best *)
(* price first and oldest first within a price, each at its own price; the *)
(* remainder of a LIMIT-like order rests, that of a MARKET order is        *)
(* dropped.  The allocation is given in closed form: a resting order gets  *)
(* what the orders with priority over it leave.                            *)
(***************************************************************************)
EXTENDS Integers, Sequences, FiniteSets, Functions

CONSTANTS Symbols, Clients, Kinds, Prices, Quantities, MaxOrders

VARIABLES nextId, order, left, entered, queue, trades

B == INSTANCE OrderBook WITH taker <- [s \in Symbols |-> 0]

vars == <<nextId, order, left, entered, queue, trades>>

Resters(id) ==
  {r \in B!Ids : /\ B!Resting(r)
                 /\ order[r].symbol = order[id].symbol
                 /\ order[r].side = B!Opposite(order[id].side)
                 /\ B!Crosses(order[id], order[r].price)}

Ahead(id, r) == {a \in Resters(id) : B!Before(a, r)}

Total(S) == SumFunctionOnSet(left, S)

\* What the resting order r sells to (or buys from) the incoming order id.
Taken(id, r) ==
  LET rest == left[id] - Total(Ahead(id, r))
  IN  IF rest <= 0 THEN 0 ELSE B!Smaller(rest, left[r])

Takers(id) == {r \in Resters(id) : Taken(id, r) > 0}

LeftAfter(id) ==
  [i \in B!Ids |->
     IF i = id
       THEN left[id] - SumFunction([r \in Resters(id) |-> Taken(id, r)])
     ELSE IF i \in Resters(id) THEN left[i] - Taken(id, i) ELSE left[i]]

TradesAfter(id) ==
  LET nth(k) == CHOOSE r \in Takers(id) : Cardinality(Ahead(id, r)) = k - 1
  IN  trades[id] \o [k \in 1 .. Cardinality(Takers(id)) |->
         [maker |-> nth(k), quantity |-> Taken(id, nth(k)),
          price |-> order[nth(k)].price]]

\* What is executed of a level are its oldest orders.
QueueAfter(id) ==
  LET after == LeftAfter(id)
      o == order[id]
      executed(q) == {i \in DOMAIN q : after[q[i]] = 0}
      kept(q) == SubSeq(q, 1 + Cardinality(executed(q)), Len(q))
      emptied == [side \in B!Sides |->
                    [p \in Prices |-> kept(queue[o.symbol][side][p])]]
      rests == after[id] > 0 /\ o.kind # "MARKET"
  IN  IF rests THEN [emptied EXCEPT ![o.side][o.price] = Append(@, id)] ELSE emptied

Init ==
  /\ nextId = 1
  /\ order = [i \in B!Ids |-> B!Blank]
  /\ left = [i \in B!Ids |-> 0]
  /\ entered = {}
  /\ queue = [s \in Symbols |-> [side \in B!Sides |-> [p \in Prices |-> <<>>]]]
  /\ trades = [i \in B!Ids |-> <<>>]

Build(o) ==
  /\ nextId \in B!Ids
  /\ nextId' = nextId + 1
  /\ order' = [order EXCEPT ![nextId] = o]
  /\ left' = [left EXCEPT ![nextId] = o.quantity]
  /\ UNCHANGED <<entered, queue, trades>>

Match(id) ==
  /\ id \in 1 .. nextId - 1
  /\ id \notin entered
  /\ entered' = entered \cup {id}
  /\ left' = LeftAfter(id)
  /\ queue' = [queue EXCEPT ![order[id].symbol] = QueueAfter(id)]
  /\ trades' = [trades EXCEPT ![id] = TradesAfter(id)]
  /\ UNCHANGED <<nextId, order>>

Cancel(id) ==
  /\ \E s \in Symbols, side \in B!Sides, p \in Prices :
       /\ B!FoundAt(s, side, p, id)
       /\ queue' = [queue EXCEPT ![s][side][p] = B!Erase(@, id)]
  /\ UNCHANGED <<nextId, order, left, entered, trades>>

Next ==
  \/ \E o \in B!OrderRecords : Build(o)
  \/ \E id \in B!Ids : Match(id) \/ Cancel(id)

Spec == Init /\ [][Next]_vars
=============================================================================
