----------------------------- MODULE MCSolvency -----------------------------
(***************************************************************************)
(* An instance of Solvency for TLC.                                        *)
(***************************************************************************)
EXTENDS Solvency

CONSTANTS a, b, x, y, w1, w2

Plain(client, side, kind, quantity, price) ==
  [order |-> [client |-> client, side |-> side, kind |-> kind, symbol |-> x,
              quantity |-> quantity, price |-> price],
   lower |-> 0, upper |-> 0, delay |-> 0, life |-> Never]

\* Either client can afford one of its orders, not two of a side, and b cannot
\* afford to buy two before it has sold.  A sale starts later, an order with
\* a band may expire first, and y is not listed.
TightRequests ==
  {Plain(a, "SELL", "LIMIT", 1, 1),
   [Plain(a, "SELL", "LIMIT", 1, 2) EXCEPT !.delay = 1],
   [Plain(b, "BUY", "LIMIT_STOP", 1, 2) EXCEPT !.lower = 2, !.upper = 2, !.life = 1],
   Plain(b, "BUY", "LIMIT", 2, 2),
   Plain(b, "BUY", "LIMIT", 2, 1),
   [Plain(b, "BUY", "LIMIT", 1, 2) EXCEPT !.order.symbol = y]}
=============================================================================
