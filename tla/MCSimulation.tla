---------------------------- MODULE MCSimulation ----------------------------
(***************************************************************************)
(* An instance of SimulationRun for TLC.                                   *)
(***************************************************************************)
EXTENDS SimulationRun

CONSTANTS noise, momentum, mm, x

\* The market maker quotes twice, so that it has something to cancel, and the
\* momentum bot looks twice, so that it can see a change.  The noise trader leaves a
\* stop and then sells, which can move the price to it, or wants to buy with too
\* little cash.
Steps == (mm :> 2) @@ (momentum :> 2) @@ (noise :> 2)

StopThenMarket ==
  <<{[side |-> "SELL", kind |-> "STOP", expires |-> FALSE]},
    [side : Sides, kind : {"MARKET"}, expires : {FALSE}]>>
=============================================================================
