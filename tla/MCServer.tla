------------------------------ MODULE MCServer ------------------------------
(***************************************************************************)
(* Instances of SimulationServer for TLC.                                  *)
(***************************************************************************)
EXTENDS SimulationServer

\* Users are interchangeable, and so are connections.
Interchangeable == Permutations(Names) \cup Permutations(Connections)
=============================================================================
