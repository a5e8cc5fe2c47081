--------------------------- MODULE MCSqlSessions ---------------------------
(***************************************************************************)
(* An instance of SqlSessions for TLC: two programs, which may be of one   *)
(* client, at once or one after the other, or of two clients, so that one  *)
(* gets the descriptor of the connection the other has closed.             *)
(***************************************************************************)
EXTENDS SqlSessions, TLC

CONSTANTS ann, bob, p1, p2

TheOwners == {p1 :> ann @@ p2 :> ann, p1 :> ann @@ p2 :> bob, p1 :> ann @@ p2 :> Nobody}
=============================================================================
