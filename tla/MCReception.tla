---------------------------- MODULE MCReception ----------------------------
(* A small instance of every component of Reception. *)
EXTENDS Reception

MCValues == {101, 102, 103}
=============================================================================
