--------------------------- MODULE MCConnections ---------------------------
(* A small instance of Connections. *)
EXTENDS Connections

MCGood == {1}
=============================================================================
