----------------------------- MODULE SqlAuction -----------------------------
(***************************************************************************)
(* The two fixings of a session (process_fixing) seen as auctions: a       *)
(* history variable keeps the orders each found in the book of an action,  *)
(* and what it traded of them.                                             *)
(***************************************************************************)
EXTENDS SqlServer

VARIABLE auction   \* action -> the fixing of this phase

auctionVars == <<vars, auction>>

NoAuction == [offers |-> {}, prices |-> {}, volume |-> 0]
NoAuctions == [a \in Actions |-> NoAuction]

\* A fixing takes the mutex, on what is pending.
Opened ==
  [a \in Actions |->
     [NoAuction EXCEPT !.offers = {[id |-> i, row |-> Row(i)] : i \in Live(a)}]]

\* It makes one more trade.
WithTrade(trade) ==
  [auction EXCEPT ![trade.buy.action] =
     [@ EXCEPT !.prices = @ \cup {trade.at}, !.volume = @ + trade.quantity]]

AuctionNext ==
  /\ Next
  /\ auction' =
       IF phase' \notin {"open", "close"} THEN NoAuctions
       ELSE IF mtx # "market" /\ mtx' = "market" THEN Opened
       ELSE IF mtx = "market" /\ sweep.stage = "match" /\ sweep'.trade # NoTrade
         THEN WithTrade(sweep'.trade)
       ELSE auction

\* No fixing is under way when the server starts.
AuctionInit == Init /\ auction = NoAuctions

AuctionSpec ==
  AuctionInit /\ [][AuctionNext]_auctionVars /\ Fairness

-----------------------------------------------------------------------------
\* The best an auction could do

Quantities(offers) ==
  MapThenSumSet(LAMBDA o : o.row.quantity, offers)

Demand(a, p) == Quantities({o \in auction[a].offers : o.row.side = "BUY" /\ o.row.price >= p})
Supply(a, p) == Quantities({o \in auction[a].offers : o.row.side = "SELL" /\ o.row.price <= p})

\* What could be traded at the single price p, and at the best one.
VolumeAt(a, p) == Min({Demand(a, p), Supply(a, p)})
EquilibriumVolume(a) == Max({VolumeAt(a, p) : p \in 0 .. MaxNumber})

-----------------------------------------------------------------------------
\* Properties

\* Pair by pair, best against best, a fixing trades as much as the auction at
\* the equilibrium price would, whatever was entered, by whom and in what order,
\* and although an order that is filled in part comes back under another id.  An
\* order of no quantity is the exception: it ends the loop.
FixingTradesTheMost ==
  phase \in {"open", "close"} /\ mtx # "market" => \A a \in Actions :
    \/ auction[a].volume = EquilibriumVolume(a)
    \/ \E o \in auction[a].offers : o.row.quantity = 0

-----------------------------------------------------------------------------
\* Stated by the documentation and not so.

\* An auction "computes the equilibrium price that maximizes the traded volume,
\* and executes the accumulated orders at that single price"
\* (Src_SQL/README.md:32-33).
AuctionHasOnePrice == \A a \in Actions : Cardinality(auction[a].prices) <= 1
=============================================================================
