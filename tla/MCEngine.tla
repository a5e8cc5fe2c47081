------------------------------ MODULE MCEngine ------------------------------
(***************************************************************************)
(* Instances of MatchingEngine for TLC.                                    *)
(***************************************************************************)
EXTENDS EngineMoney

CONSTANTS a, b, x, w1, w2

Order(client, side, kind, quantity, price) ==
  [client |-> client, side |-> side, kind |-> kind, symbol |-> x,
   quantity |-> quantity, price |-> price]

Plain(o) == [order |-> o, lower |-> 0, upper |-> 0, delay |-> 0, life |-> Never]

\* A sale that a resting buyer can wait for, a seller who may buy from himself or
\* sell twice what he has, and a stop that the first trade triggers.
ConcurrentRequests ==
  {Plain(Order(a, "SELL", "LIMIT", 1, 2)),
   Plain(Order(a, "BUY", "MARKET", 2, 0)),
   Plain(Order(b, "BUY", "LIMIT", 1, 2)),
   [Plain(Order(b, "BUY", "STOP", 1, 2)) EXCEPT !.upper = 2]}

\* Time stands still: dates are the matter of MCSolvency.
TimelessSpec == Init /\ [][ThreadStep]_vars /\ Fairness
=============================================================================
