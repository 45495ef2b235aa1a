------------------------------- MODULE Outbox -------------------------------
(***************************************************************************)
(* What the gateway's document queue promises to the modules that feed it. *)
(*                                                                         *)
(* A document that was accepted waits in `pending`, is taken in arrival    *)
(* order, one at a time, and leaves either published or dropped: at most   *)
(* once, never out of order, and nothing that was not accepted is ever     *)
(* sent.  Waiting documents are thrown away only by a restart.             *)
(***************************************************************************)
EXTENDS Sequences

CONSTANTS Doc,     \* the documents the modules can produce
          NoDoc    \* "no document in hand"

VARIABLES pending,     \* accepted, not yet taken
          inHand,      \* the document being dispatched, or NoDoc
          sent,        \* everything that was published, in order (never reset)
          restarting   \* ESPRestart has begun

vars == <<pending, inHand, sent, restarting>>

Init ==
    /\ pending = <<>>
    /\ inHand = NoDoc
    /\ sent = <<>>
    /\ restarting = FALSE

Accept(d) ==
    /\ pending' = Append(pending, d)
    /\ UNCHANGED <<inHand, sent, restarting>>

Take ==
    /\ inHand = NoDoc
    /\ pending # <<>>
    /\ inHand' = Head(pending)
    /\ pending' = Tail(pending)
    /\ UNCHANGED <<sent, restarting>>

Publish ==
    /\ inHand # NoDoc
    /\ sent' = Append(sent, inHand)
    /\ inHand' = NoDoc
    /\ UNCHANGED <<pending, restarting>>

Drop ==
    /\ inHand # NoDoc
    /\ inHand' = NoDoc
    /\ UNCHANGED <<pending, sent, restarting>>

StartRestart ==
    /\ restarting' = TRUE
    /\ UNCHANGED <<pending, inHand, sent>>

Discard ==
    /\ restarting
    /\ pending # <<>>
    /\ pending' = Tail(pending)
    /\ UNCHANGED <<inHand, sent, restarting>>

Reboot ==
    /\ restarting
    /\ pending' = <<>>
    /\ inHand' = NoDoc
    /\ restarting' = FALSE
    /\ UNCHANGED sent

Next ==
    \/ \E d \in Doc : Accept(d)
    \/ Take \/ Publish \/ Drop
    \/ StartRestart \/ Discard \/ Reboot

Spec == Init /\ [][Next]_vars
=============================================================================
