----------------------------- MODULE Settlement -----------------------------
(***************************************************************************)
(* What the exchange promises about money (include/matching_engine.hpp,    *)
(* NRT/test_concurrency.cpp): a trade only ever moves value between two    *)
(* clients.  A trade that was executed is due; it is settled once, in one  *)
(* step that debits the buyer and credits the seller, and so for the       *)
(* shares; nothing else changes a portfolio.                               *)
(***************************************************************************)
EXTENDS Integers

CONSTANTS Clients, Symbols, InitialCash, InitialHolding

VARIABLES cash, holding,
          due,   \* trades executed and not yet settled, each with its key
          done   \* the keys of the trades settled

money == <<cash, holding, due, done>>

Init ==
  /\ cash = [c \in Clients |-> InitialCash]
  /\ holding = [s \in Symbols |-> [c \in Clients |-> InitialHolding]]
  /\ due = {}
  /\ done = {}

Execute ==
  \E d \in due' :
    /\ \A e \in due : e.key # d.key
    /\ d.key \notin done
    /\ due' = due \cup {d}
    /\ UNCHANGED <<cash, holding, done>>

\* What client c gains by d, as buyer, as seller, or as both.
CashGain(c, d) ==
  (IF c = d.seller THEN d.quantity * d.price ELSE 0)
    - (IF c = d.buyer THEN d.quantity * d.price ELSE 0)

SharesGain(c, s, d) ==
  IF s # d.symbol THEN 0
  ELSE (IF c = d.buyer THEN d.quantity ELSE 0) - (IF c = d.seller THEN d.quantity ELSE 0)

Settle(d) ==
  /\ due' = due \ {d}
  /\ done' = done \cup {d.key}
  /\ cash' = [c \in Clients |-> cash[c] + CashGain(c, d)]
  /\ holding' = [s \in Symbols |->
                   [c \in Clients |-> holding[s][c] + SharesGain(c, s, d)]]

SettleOne == \E d \in due : Settle(d)

Next == Execute \/ SettleOne

Spec == Init /\ [][Next]_money /\ WF_money(SettleOne)
=============================================================================
