----------------------------- MODULE SerialLink -----------------------------
(***************************************************************************)
(* Two gateways on a serial line (gatewaySERIAL.cpp): the sender, built    *)
(* with SENDER_SERIAL_HEARTBEAT, has no network and hands its documents to *)
(* the receiver, which publishes them.  The sender asks every              *)
(* heartbeatInterval whether the receiver is there; the receiver answers   *)
(* while its own state is BROKER_CONNECTED.                                *)
(*                                                                         *)
(* A turn is 5 seconds (heartbeatAckCheckInterval), the first interval; a  *)
(* message arrives in the turn it is sent in or is lost.  The interval     *)
(* grows by a turn instead of by a quarter.                                *)
(***************************************************************************)
EXTENDS Integers

CONSTANTS
    SENDER_SERIAL_HEARTBEAT,
    heartbeatTimeout,       \* in turns: 3
    maxHeartbeatInterval,   \* in turns: 12
    MaxGone                 \* bound: turns counted without a broker

\* What the constants must be (assumed where they get their values).
SerialAssumption ==
    /\ SENDER_SERIAL_HEARTBEAT \in BOOLEAN
    /\ heartbeatTimeout \in Nat \ {0} /\ maxHeartbeatInterval \in Nat \ {0}
    /\ MaxGone \in Nat

VARIABLES
    receiverReady, heartbeatInterval, isOverflow,
    sinceSent,      \* turns since lastHeartbeatSent
    sinceAck,       \* turns since lastHeartbeatAckReceived, from boot at first
    firstStart, ProcessLock,    \* of the sender
    gatewayState,   \* of the receiver
    gone,           \* history: turns since the receiver last answered to its broker
    published       \* what became of the last document: "none", "refused" by the
                    \* sender, "lost" on its way, or "queued" by the receiver

serialVars == <<receiverReady, heartbeatInterval, isOverflow, sinceSent, sinceAck,
                firstStart, ProcessLock, gatewayState, gone, published>>

ReceiverStates == {"BROKER_CONNECTED", "BROKER_DISCONNECTED", "ERROR"}
AtMost(n, max) == IF n > max THEN max ELSE n

Init ==
    /\ receiverReady = FALSE /\ heartbeatInterval = 1 /\ isOverflow = FALSE
    /\ sinceSent = 0 /\ sinceAck = 0
    /\ firstStart = TRUE /\ ProcessLock = TRUE
    /\ gatewayState \in ReceiverStates \ {"ERROR"}
    /\ gone = 0 /\ published = "none"

-----------------------------------------------------------------------------
\* Mutant of handleHeartbeat: the receiver always answers.
handleHeartbeatAlways(arrives) == arrives
handleHeartbeat(arrives) == arrives /\ gatewayState = "BROKER_CONNECTED"

sendsHeartbeat == SENDER_SERIAL_HEARTBEAT /\ ~isOverflow /\ sinceSent >= heartbeatInterval
ackIsLate == sinceAck >= heartbeatTimeout

\* SERIALtoX of the sender, every turn: the check comes before the answer is read.
SERIALtoX ==
    \E arrives \in BOOLEAN :
        LET acked == sendsHeartbeat /\ handleHeartbeat(arrives)
        IN  /\ sinceSent' = IF sendsHeartbeat THEN 0
                            ELSE AtMost(sinceSent + 1, maxHeartbeatInterval)
            /\ sinceAck' = IF acked THEN 0 ELSE AtMost(sinceAck + 1, heartbeatTimeout)
            /\ heartbeatInterval' = IF SENDER_SERIAL_HEARTBEAT /\ ackIsLate
                                    THEN AtMost(heartbeatInterval + 1, maxHeartbeatInterval)
                                    ELSE 1
            /\ receiverReady' = \/ ~SENDER_SERIAL_HEARTBEAT \/ acked
                                \/ (receiverReady /\ ~ackIsLate)
            /\ isOverflow' = (isOverflow /\ ~acked)
            /\ gone' = IF gatewayState = "BROKER_CONNECTED" THEN 0 ELSE AtMost(gone + 1, MaxGone)
            /\ UNCHANGED <<firstStart, ProcessLock, gatewayState, published>>

\* What else comes in from the receiver: a message of its own (a command, with
\* "target"), or one that does not parse, ends an overflow; a line that goes on for too
\* long begins one; a tail without a head is thrown away.
Receives ==
    /\ isOverflow' \in BOOLEAN
    /\ UNCHANGED <<receiverReady, heartbeatInterval, sinceSent, sinceAck, firstStart,
                   ProcessLock, gatewayState, gone, published>>

\* loop() of the sender: its modules start when the receiver is there for the first time.
Starts ==
    /\ firstStart /\ receiverReady
    /\ firstStart' = FALSE /\ ProcessLock' = FALSE
    /\ UNCHANGED <<receiverReady, heartbeatInterval, isOverflow, sinceSent, sinceAck,
                   gatewayState, gone, published>>

\* jsonDispatch, XtoSERIAL: a document is taken for sent whatever becomes of it.
XtoSERIAL ==
    /\ ~ProcessLock
    /\ published' \in IF receiverReady THEN {"lost", "queued"} ELSE {"refused"}
    /\ UNCHANGED <<receiverReady, heartbeatInterval, isOverflow, sinceSent, sinceAck,
                   firstStart, ProcessLock, gatewayState, gone>>

\* The receiver's broker goes and comes back.  ERROR (a document without origin, a
\* mutex not taken) stays until the broker comes back.
ReceiverChanges ==
    /\ \/ gatewayState' = "BROKER_DISCONNECTED"
       \/ gatewayState = "BROKER_DISCONNECTED" /\ gatewayState' = "BROKER_CONNECTED"
       \/ gatewayState' = "ERROR"
    /\ UNCHANGED <<receiverReady, heartbeatInterval, isOverflow, sinceSent, sinceAck,
                   firstStart, ProcessLock, gone, published>>

Next == SERIALtoX \/ Receives \/ Starts \/ XtoSERIAL \/ ReceiverChanges

Spec == Init /\ [][Next]_serialVars

-----------------------------------------------------------------------------
TypeOK ==
    /\ receiverReady \in BOOLEAN /\ isOverflow \in BOOLEAN
    /\ heartbeatInterval \in 1..maxHeartbeatInterval
    /\ sinceSent \in 0..maxHeartbeatInterval /\ sinceAck \in 0..heartbeatTimeout
    /\ firstStart \in BOOLEAN /\ ProcessLock \in BOOLEAN
    /\ gatewayState \in ReceiverStates /\ gone \in 0..MaxGone
    /\ published \in {"none", "refused", "lost", "queued"}

\* A receiver that has been without its broker for longer than the timeout is not taken
\* for ready, whatever the line loses, repeats or garbles: documents are refused at the
\* sender instead of being thrown away at the other end.
SenderNotices ==
    SENDER_SERIAL_HEARTBEAT /\ gone > heartbeatTimeout => ~receiverReady
=============================================================================
