--------------------------- MODULE AtomicMatching ---------------------------
(***************************************************************************)
(* How the state of OrderBook maps to that of AtomicBook: a match() that   *)
(* has started counts as done, so the step that takes the lock is the step *)
(* of Match, and the turns of the loop and its tail change nothing.        *)
(***************************************************************************)
EXTENDS OrderBook

Now == INSTANCE AtomicBook

Running(s) == taker[s] # NoOrder

leftThen ==
  [i \in Ids |->
     LET s == order[i].symbol
     IN  IF Running(s) THEN Now!LeftAfter(taker[s])[i] ELSE left[i]]

queueThen ==
  [s \in Symbols |-> IF Running(s) THEN Now!QueueAfter(taker[s]) ELSE queue[s]]

tradesThen ==
  [i \in Ids |->
     IF \E s \in Symbols : taker[s] = i THEN Now!TradesAfter(i) ELSE trades[i]]

Atomic ==
  INSTANCE AtomicBook WITH left <- leftThen, queue <- queueThen, trades <- tradesThen

\* The loop of match(), trade by trade under the lock, implements the atomic
\* allocation by price-time priority that order_book.hpp promises.
MatchIsAtomic == Atomic!Spec
=============================================================================
