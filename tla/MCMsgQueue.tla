----------------------------- MODULE MCMsgQueue -----------------------------
(* MsgQueue for TLC: two producing tasks and the loop. *)
EXTENDS MsgQueue, TLC

CONSTANTS ble, meter, loop

MCMaxDocs == (ble :> 2) @@ (meter :> 1) @@ (loop :> 1)
MCFewDocs == (ble :> 1) @@ (meter :> 1) @@ (loop :> 1)
MCTornSizes == {0, QueueSize + 1}
=============================================================================
