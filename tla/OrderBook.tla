----------------------------- MODULE OrderBook -----------------------------
(***************************************************************************)
(* The live order books of Src_Simulation: one OrderBook per symbol, each  *)
(* behind its own lock (src/order_book.cpp).  A call of match() holds the  *)
(* lock of the book while it runs, so it is modelled the way it executes:  *)
(* Enter takes the lock, every Fill is one turn of the inner loop, Finish  *)
(* is the tail of the function.  Books of different symbols interleave.    *)
(*                                                                         *)
(* An Order object lives in exactly one place at a time and is moved       *)
(* between them, so the model keeps its immutable fields in `order', its   *)
(* mutable quantity in `left', and the book's queues hold identifiers.     *)
(***************************************************************************)
EXTENDS Integers, SequencesExt

CONSTANTS
  Symbols,     \* symbols a book may exist for
  Clients,     \* owners of orders
  Kinds,       \* the order kinds in use, among MARKET, LIMIT, STOP, LIMIT_STOP
  Prices,      \* limit prices
  Quantities,  \* quantities of an order
  MaxOrders    \* bound: orders built over a behaviour

Sides == {"BUY", "SELL"}

OrderRecords ==
  {o \in [client : Clients, side : Sides, kind : Kinds, symbol : Symbols,
          quantity : Quantities, price : Prices \cup {0}] :
      (o.kind = "MARKET") <=> (o.price = 0)}

ASSUME BookAssumption ==
  /\ Prices \subseteq Nat \ {0}
  /\ Quantities \subseteq Nat
  /\ MaxOrders \in Nat
  /\ Kinds \subseteq {"MARKET", "LIMIT", "STOP", "LIMIT_STOP"}
  /\ OrderRecords # {}

Ids == 1 .. MaxOrders
NoOrder == 0
Blank == CHOOSE o \in OrderRecords : TRUE

Trades == [maker : Ids, quantity : Nat, price : Prices]

VARIABLES
  nextId,   \* next_order_id_: identifiers below it are taken
  order,    \* the fields of each order that never change
  left,     \* Order::quantity, the quantity still to execute
  entered,  \* orders handed to match() so far
  queue,    \* bids_ and asks_: symbol -> side -> price -> FIFO of orders
  taker,    \* the order whose match() holds the book's lock, or NoOrder
  trades    \* what match() returned for each order, oldest first

bookVars == <<nextId, order, left, entered, queue, taker, trades>>

-----------------------------------------------------------------------------

Opposite(side) == IF side = "BUY" THEN "SELL" ELSE "BUY"

\* The order of the maps bids_ (highest first) and asks_ (lowest first).
Better(side, p, q) == IF side = "BUY" THEN p > q ELSE p < q

\* The keys of the map: a level exists while its queue is not empty.
Levels(s, side) == {p \in Prices : queue[s][side][p] # <<>>}

AnyLevel(s, side, p) == p \in Levels(s, side)   \* slip: not the best level

IsBest(s, side, p) ==
  /\ p \in Levels(s, side)
  /\ \A q \in Levels(s, side) \ {p} : Better(side, p, q)

\* Slip: a price equal to the limit does not cross.
CrossesStrictly(o, p) ==
  \/ o.kind = "MARKET"
  \/ o.side = "BUY" /\ o.price > p
  \/ o.side = "SELL" /\ o.price < p

\* The test at the head of the outer loop: a MARKET order takes any price.
Crosses(o, p) ==
  \/ o.kind = "MARKET"
  \/ o.side = "BUY" /\ o.price >= p
  \/ o.side = "SELL" /\ o.price <= p

\* Erasing one order from the deque of a level.
Erase(q, id) == RemoveAt(q, CHOOSE i \in DOMAIN q : q[i] = id)

FoundAt(s, side, p, id) == Contains(queue[s][side][p], id)

Resting(id) ==
  \E s \in Symbols, side \in Sides, p \in Prices : FoundAt(s, side, p, id)

First(a, b) == a   \* slip: the whole incoming quantity is traded
Smaller(a, b) == IF a <= b THEN a ELSE b

-----------------------------------------------------------------------------

BookInit ==
  /\ nextId = 1
  /\ order = [i \in Ids |-> Blank]
  /\ left = [i \in Ids |-> 0]
  /\ entered = {}
  /\ queue = [s \in Symbols |-> [side \in Sides |-> [p \in Prices |-> <<>>]]]
  /\ taker = [s \in Symbols |-> NoOrder]
  /\ trades = [i \in Ids |-> <<>>]

\* A new order object, numbered by the engine's atomic counter.
Build(o) ==
  /\ nextId \in Ids
  /\ nextId' = nextId + 1
  /\ order' = [order EXCEPT ![nextId] = o]
  /\ left' = [left EXCEPT ![nextId] = o.quantity]
  /\ UNCHANGED <<entered, queue, taker, trades>>

\* match(): the exclusive lock is taken.
Enter(id) ==
  LET s == order[id].symbol
  IN  /\ id \in 1 .. nextId - 1
      /\ id \notin entered
      /\ taker[s] = NoOrder
      /\ entered' = entered \cup {id}
      /\ taker' = [taker EXCEPT ![s] = id]
      /\ UNCHANGED <<nextId, order, left, queue, trades>>

\* The side the running match() takes from, the order at the front of one of
\* its levels, and what would be traded with it.
MakerSide(s) == Opposite(order[taker[s]].side)
MakerAt(s, p) == Head(queue[s][MakerSide(s)][p])
TradedAt(s, p) == Smaller(left[taker[s]], left[MakerAt(s, p)])

\* Slip: the limit is not tested.
CanFillAnywhere(s, p) ==
  /\ taker[s] # NoOrder
  /\ left[taker[s]] > 0
  /\ IsBest(s, MakerSide(s), p)

\* The trade the running match() would make next is with the front of level p.
CanFillAt(s, p) ==
  /\ taker[s] # NoOrder
  /\ left[taker[s]] > 0
  /\ IsBest(s, MakerSide(s), p)
  /\ Crosses(order[taker[s]], p)

\* Slip: only the incoming quantity is reduced.
ReducedOnce(l, id, maker, qty) == [l EXCEPT ![id] = @ - qty]

Reduced(l, id, maker, qty) == [l EXCEPT ![id] = @ - qty, ![maker] = @ - qty]

\* One turn of the inner loop of match_incoming_buy / match_incoming_sell.
FillAt(s, p) ==
  LET id == taker[s]
      maker == MakerAt(s, p)
      qty == TradedAt(s, p)
  IN  /\ CanFillAt(s, p)
      /\ left' = Reduced(left, id, maker, qty)
      /\ queue' = IF left[maker] = qty
                    THEN [queue EXCEPT ![s][MakerSide(s)][p] = Tail(@)]
                    ELSE queue
      /\ trades' = [trades EXCEPT ![id] =
                      Append(@, [maker |-> maker, quantity |-> qty, price |-> p])]
      /\ UNCHANGED <<nextId, order, entered, taker>>

Fill(s) == \E p \in Prices : FillAt(s, p)

\* Slip: the loops have no break.
LoopsEndExecuted(s) == left[taker[s]] = 0

\* The loops end: nothing is left, or no level of the other side is crossed
\* (the map is sorted, so the code looks at its first level only).
LoopsEnd(s) ==
  \/ left[taker[s]] = 0
  \/ \A p \in Levels(s, MakerSide(s)) : ~Crosses(order[taker[s]], p)

\* A remainder rests; a MARKET order is Immediate-Or-Cancel and never does.
Rests(s) == left[taker[s]] > 0 /\ order[taker[s]].kind # "MARKET"

\* Slip: push_front.
InFrontOf(q, id) == <<id>> \o q

Behind(q, id) == Append(q, id)

\* The tail of match(): the remainder rests behind its level; the lock is released.
Finish(s) ==
  LET id == taker[s]
      o == order[id]
  IN  /\ id # NoOrder
      /\ LoopsEnd(s)
      /\ queue' = IF Rests(s) THEN [queue EXCEPT ![s][o.side][o.price] = Behind(@, id)]
                             ELSE queue
      /\ taker' = [taker EXCEPT ![s] = NoOrder]
      /\ UNCHANGED <<nextId, order, left, entered, trades>>

\* Both overloads of cancel() erase a resting order under the exclusive lock;
\* the one that is told the side and price looks at that level only, the other
\* scans every level.  Each returns false, changing nothing, if it finds none.
CancelAt(s, side, p, id) ==
  /\ taker[s] = NoOrder
  /\ FoundAt(s, side, p, id)
  /\ queue' = [queue EXCEPT ![s][side][p] = Erase(@, id)]
  /\ UNCHANGED <<nextId, order, left, entered, taker, trades>>

CancelById(s, id) ==
  \E side \in Sides, p \in Prices : CancelAt(s, side, p, id)

BookNext ==
  \/ \E o \in OrderRecords : Build(o)
  \/ \E id \in Ids : Enter(id)
  \/ \E s \in Symbols : Fill(s)
  \/ \E s \in Symbols : Finish(s)
  \/ \E s \in Symbols, id \in Ids : CancelById(s, id)

\* match() runs to its end once it has the lock; nothing makes anyone call it.
BookFairness ==
  \A s \in Symbols : WF_bookVars(Fill(s)) /\ WF_bookVars(Finish(s))

BookSpec == BookInit /\ [][BookNext]_bookVars /\ BookFairness

-----------------------------------------------------------------------------
\* Properties

BookTypeOK ==
  /\ nextId \in 1 .. MaxOrders + 1
  /\ order \in [Ids -> OrderRecords]
  /\ left \in [Ids -> Nat]
  /\ entered \subseteq 1 .. nextId - 1
  /\ queue \in [Symbols -> [Sides -> [Prices -> Seq(Ids)]]]
  /\ taker \in [Symbols -> Ids \cup {NoOrder}]
  /\ trades \in [Ids -> Seq(Trades)]

BelongsAt(s, side, p, id) ==
  /\ id \in entered
  /\ order[id].symbol = s
  /\ order[id].side = side
  /\ order[id].price = p
  /\ left[id] > 0
  /\ taker[s] # id

\* What an order resting at a level of a book is: it was handed to that book,
\* rests on its own side at its own limit, still has quantity to execute, is not
\* a MARKET order and rests once.  (order_book.cpp:59-61: a MARKET remainder
\* never rests; :49-51: an exhausted order leaves its queue.)
RestsWhereItBelongs ==
  \A s \in Symbols, side \in Sides, p \in Prices :
    LET q == queue[s][side][p]
    IN  /\ \A i \in DOMAIN q : BelongsAt(s, side, p, q[i])
        /\ \A i, j \in DOMAIN q : q[i] = q[j] => i = j

\* The book is never crossed or locked, not even inside match(): every bid is
\* below every ask, so no two resting orders could trade with each other.
NeverCrossed ==
  \A s \in Symbols : \A b \in Levels(s, "BUY"), a \in Levels(s, "SELL") : b < a

HonoursLimits(id, t) ==
  /\ t.maker # id
  /\ order[t.maker].symbol = order[id].symbol
  /\ order[t.maker].side = Opposite(order[id].side)
  /\ order[t.maker].price = t.price
  /\ Crosses(order[id], t.price)
  /\ t.quantity > 0

\* A trade is made at the limit of the resting order (order_book.cpp:43) and
\* never outside the limit of the incoming one, between opposite sides of one
\* symbol.
TradesHonourLimits ==
  \A id \in Ids : \A i \in DOMAIN trades[id] : HonoursLimits(id, trades[id][i])

\* What the trades of the incoming order i executed of the order id, and what
\* all trades did.
ExecutedBy(i, id) ==
  SumFunction([k \in DOMAIN trades[i] |->
                 IF id \in {i, trades[i][k].maker} THEN trades[i][k].quantity ELSE 0])

Executed(id) == SumFunction([i \in Ids |-> ExecutedBy(i, id)])

\* No quantity is lost or executed twice, on either side of any trade: what an
\* order has left and what the trades say was executed of it make up what it
\* was built with.
QuantityConserved ==
  \A id \in 1 .. nextId - 1 : order[id].quantity = left[id] + Executed(id)

\* a has priority over b: both rest on the same side, a at a better price, or
\* at the same price and in front.
Before(a, b) ==
  \E s \in Symbols, side \in Sides :
    \/ \E p, q \in Prices : /\ Better(side, p, q)
                            /\ FoundAt(s, side, p, a)
                            /\ FoundAt(s, side, q, b)
    \/ \E p \in Prices : LET l == queue[s][side][p]
                         IN  \E i, j \in DOMAIN l : i < j /\ l[i] = a /\ l[j] = b

\* Price-time priority over any number of calls: while an order rests, none of
\* the orders it has priority over trades; priority between two resting orders
\* never changes; an order that starts to rest gets priority over nobody who is
\* already at its price or better.
PriorityStep ==
  \A a, b \in Ids :
    /\ Before(a, b) => left'[b] = left[b]
    /\ Before(a, b) /\ Resting(a)' /\ Resting(b)' => Before(a, b)'
    /\ /\ Resting(a) /\ ~Resting(b) /\ Resting(b)'
       /\ order[a].symbol = order[b].symbol /\ order[a].side = order[b].side
       => Before(a, b)' \/ Better(order[b].side, order[b].price, order[a].price)

PriceTimePriority == [][PriorityStep]_bookVars
=============================================================================
