---------------------------- MODULE MCSqlServer ----------------------------
(***************************************************************************)
(* Two clients with a session each, one action they trade and one nobody   *)
(* does.  The orders they may ask for meet, fill in part, find no shares,  *)
(* have no quantity, wait in their band or out of it, and expire (which    *)
(* only a validity typed with a year long before this one ever does).      *)
(***************************************************************************)
EXTENDS SqlAuction

CONSTANTS buyer, seller, c1, c2, x, y

TheThreads == {c1, c2, "watcher", "market"}
TheOwner == c1 :> buyer @@ c2 :> seller
Balances == buyer :> 75 @@ seller :> 0
Shares == buyer :> (x :> 0 @@ y :> 0) @@ seller :> (x :> 2 @@ y :> 0)

Ask(side, kind, quantity, at, lower, upper, until) ==
  [side |-> side, kind |-> kind, quantity |-> quantity, action |-> x, price |-> at,
   lower |-> lower, upper |-> upper, until |-> until]

\* A typed day that is coded as the day d of the clock.
TypedFor(d) == d - DateOfText(0)

TheRequests ==
  buyer :> { Ask("BUY", "MARKET", 1, 0, 0, 0, {}), Ask("BUY", "MARKET", 0, 0, 0, 0, {}),
             Ask("BUY", "LIMIT_STOP", 2, 2, 2, 2, {}) }
  @@ seller :> { Ask("SELL", "MARKET", 1, 0, 0, 0, {}),
                 Ask("SELL", "LIMIT", 1, 3, 2, 0, {TypedFor(2)}) }

\* A buyer with more than an order needs, and a seller with all the shares.
PlainRequests ==
  buyer :> {Ask("BUY", "LIMIT", 2, 2, 1, 0, {})}
  @@ seller :> {Ask("SELL", "MARKET", 1, 0, 0, 0, {})}
PlainBalances == buyer :> 50 @@ seller :> 0

\* A buy that takes two sells, at a price each.
AuctionRequests ==
  buyer :> {Ask("BUY", "LIMIT", 2, 3, 1, 0, {})}
  @@ seller :> {Ask("SELL", "LIMIT", 1, 2, 1, 0, {}), Ask("SELL", "MARKET", 1, 0, 0, 0, {})}

TheAmounts == buyer :> {5} @@ seller :> {}

-----------------------------------------------------------------------------
\* The session ends: every phase comes, both fixings get the mutex, the watcher
\* stops, and the process exits.
SessionEnds == phase = "preopen" ~> phase = "down"

-----------------------------------------------------------------------------
\* Stated by the code and not so.

\* "add executed portion to completed orders" (market.cpp:621, 776): the
\* completed orders of a client are what its portfolio gained.
CompletedMeansSettled ==
  mtx = Nobody /\ plays = 1 /\ Up => \A cl \in Clients, a \in Actions :
    portfolio[cl][a] - InitialShares[cl][a] = completed[cl][a]
=============================================================================
