------------------------------ MODULE Solvency ------------------------------
(***************************************************************************)
(* What the pre-trade risk check of MatchingEngine is worth.  It compares  *)
(* an order with the portfolio of the moment and reserves nothing, so it   *)
(* protects a client only as far as the client's orders do not compete.    *)
(* The history variable remembers who went further.                        *)
(***************************************************************************)
EXTENDS MatchingEngine

VARIABLE careless   \* clients who once had two competing orders approved

\* Two orders compete for the client's cash, or for its shares of one symbol.
Compete(o, p) ==
  /\ o.client = p.client
  /\ o.side = p.side
  /\ o.side = "SELL" => o.symbol = p.symbol

\* Something of the order may still have to be paid or delivered: it was approved
\* and has not ended, or a trade of it is not settled.
Pending(id) ==
  \/ \E t \in Threads : job[t] = id /\ pc[t] \in {"band", "hold", "enter", "match"}
  \/ id \in waiting \cup released
  \/ Resting(id)
  \/ \E i \in Ids : \E k \in settled[i] + 1 .. Len(trades[i]) :
       i = id \/ trades[i][k].maker = id

\* The approval thread t is about to give is more than one order can bear: there
\* is a competing order, or the price of a MARKET buy is anybody's guess.
Overreaches(t) ==
  LET o == order[job[t]]
  IN  \/ o.side = "BUY" /\ o.kind = "MARKET"
      \/ \E id \in 1 .. nextId - 1 :
           id # job[t] /\ Pending(id) /\ Compete(o, order[id])

WatchedNext ==
  /\ Next
  /\ careless' = careless \cup
       {order[job[t]].client : t \in {u \in Workers :
          pc[u] = "risk" /\ pc'[u] = "band" /\ Overreaches(u)}}

WatchedSpec == Init /\ careless = {} /\ [][WatchedNext]_<<vars, careless>>

\* A client whose approved orders never competed and who never bought at MARKET
\* owes nobody anything: neither its cash nor any of its holdings is ever negative,
\* although nothing is reserved and a released order is not checked again.
Solvent ==
  \A c \in Clients \ careless :
    cash[c] >= 0 /\ \A s \in Symbols : holding[s][c] >= 0
=============================================================================
