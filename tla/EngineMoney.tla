----------------------------- MODULE EngineMoney -----------------------------
(***************************************************************************)
(* How the state of MatchingEngine maps to that of Settlement: a trade of  *)
(* an incoming order is due until its thread has settled it.               *)
(***************************************************************************)
EXTENDS MatchingEngine

\* The trade as its two parties see it: the two orders say who bought.
DueTrade(id, k) ==
  LET trade == trades[id][k]
      party(side) == order[CHOOSE i \in {id, trade.maker} : order[i].side = side].client
  IN  [key |-> <<id, k>>, symbol |-> order[id].symbol,
       buyer |-> party("BUY"), seller |-> party("SELL"),
       quantity |-> trade.quantity, price |-> trade.price]

Unpaid == UNION {{DueTrade(id, k) : k \in settled[id] + 1 .. Len(trades[id])} : id \in Ids}
Paid == UNION {{<<id, k>> : k \in 1 .. settled[id]} : id \in Ids}

Money == INSTANCE Settlement WITH due <- Unpaid, done <- Paid

\* Every trade a book makes is settled exactly once, in the end, by a transfer
\* between its buyer and its seller, and nothing else moves money or shares.
SettlesEveryTradeOnce == Money!Spec

\* The same but for the promise that it is settled in the end.
MoneyMovesByTrades == Money!Init /\ [][Money!Next]_(Money!money)
=============================================================================
