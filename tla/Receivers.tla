----------------------------- MODULE Receivers -----------------------------
(***************************************************************************)
(* The RF receivers that share one radio: which one listens, at which      *)
(* frequency, and what the commands that transmit leave behind             *)
(* (commonRF.cpp, rf/RFConfiguration.cpp, gatewayRF.cpp, gatewayRF2.cpp,   *)
(* gatewayPilight.cpp, gatewayRTL_433.cpp, actuatorSomfy.cpp).             *)
(*                                                                         *)
(* Every handler runs to its end in the loop task, so it is one step: a    *)
(* function from what the receivers and the radio are set to before it to  *)
(* what they are set to after it.  The libraries are external: a receiver  *)
(* listens once it is enabled and until it is disabled.  The CC1101, when  *)
(* there is one, answers.  What is sent, and how, is left out.             *)
(***************************************************************************)
EXTENDS FiniteSets

CONSTANTS
    Built,          \* receivers built in: of "Pilight", "RF", "RTL" and "RF2"
    Frequencies,    \* valid ones; others are never accepted (validFrequency)
    RF_FREQUENCY, ACTIVE_RECEIVER,  \* the defaults
    ZradioCC1101,   \* TRUE if the radio is a CC1101
    Selectable,     \* receivers a message may select, built in or not
    Remotes         \* Somfy remotes a message may name: "exists", "unknown"

\* What the constants must be (assumed where they get their values).
ReceiversAssumption ==
    /\ Built \subseteq {"Pilight", "RF", "RTL", "RF2"}
    /\ ACTIVE_RECEIVER \in Built
    /\ RF_FREQUENCY \in Frequencies
    /\ ZradioCC1101 \in BOOLEAN
    /\ Built \subseteq Selectable
    /\ Remotes \subseteq {"exists", "unknown"}

VARIABLES
    rf,         \* iRFConfig, the receivers and the radio
    RFConfig    \* what is stored under "RFConfig", or NotStored

rfVars == <<rf, RFConfig>>

NotStored == [freq |-> RF_FREQUENCY, active |-> "nothing"]

\* The CC1101 receives at a frequency, or transmits.
Radio == {"off", "tx"} \cup Frequencies

reInit(s) == [s EXCEPT !.freq = RF_FREQUENCY, !.active = ACTIVE_RECEIVER]

-----------------------------------------------------------------------------
\* Receivers and radio.

initCC1101(s) == IF ZradioCC1101 THEN [s EXCEPT !.radio = s.freq] ELSE s
SetTx(s) == IF ZradioCC1101 THEN [s EXCEPT !.radio = "tx"] ELSE s

\* NewRemoteReceiver is enabled by a flag; it hears once init has attached it.
Listen(s, r) ==
    [s EXCEPT !.listening = @ \cup {r}, !.attached = @ \/ r = "RF2"]
Mute(s, r) == [s EXCEPT !.listening = @ \ {r}]

disableCurrentReceiver(s) ==
    IF s.isDriverEnabled /\ s.currentReceiver \in Built
    THEN [Mute(s, s.currentReceiver) EXCEPT !.isDriverEnabled = FALSE]
    ELSE s

enableActiveReceiver(s) ==
    IF ~s.isDriverEnabled /\ s.active \in Built
    THEN [Listen(initCC1101(s), s.active) EXCEPT !.currentReceiver = s.active,
                                                 !.isDriverEnabled = TRUE]
    ELSE s

-----------------------------------------------------------------------------
\* RFConfiguration.

fromJson(s, freq, active) ==
    [s EXCEPT !.freq = IF freq \in Frequencies THEN freq ELSE @,
              !.active = IF active \in Selectable THEN active ELSE @]

loadFromStorage(s) ==
    IF RFConfig = NotStored THEN s ELSE fromJson(s, RFConfig.freq, RFConfig.active)

\* Mutant of XtoRFset: the receiver that listens is not disabled first.
XtoRFsetOver(first, freq, active, last) ==
    LET base == CASE first = "init" -> reInit(rf)
                  [] first = "load" -> loadFromStorage(rf)
                  [] OTHER -> rf
        s == fromJson(base, freq, active)
    IN  /\ rf' = enableActiveReceiver(s)
        /\ RFConfig' = CASE last = "erase" -> NotStored
                         [] last = "save" -> [freq |-> s.freq, active |-> s.active]
                         [] OTHER -> RFConfig

\* XtoRFset with loadFromMessage: the defaults or the stored values first, then
\* those of the message, then the receiver starts anew.
XtoRFset(first, freq, active, last) ==
    LET base == CASE first = "init" -> reInit(rf)
                  [] first = "load" -> loadFromStorage(rf)
                  [] OTHER -> rf
        s == fromJson(base, freq, active)
    IN  /\ rf' = enableActiveReceiver(disableCurrentReceiver(s))
        /\ RFConfig' = CASE last = "erase" -> NotStored
                         [] last = "save" -> [freq |-> s.freq, active |-> s.active]
                         [] OTHER -> RFConfig

PowerOn ==
    [freq |-> RF_FREQUENCY, active |-> ACTIVE_RECEIVER, currentReceiver |-> "none",
     isDriverEnabled |-> FALSE, listening |-> {}, attached |-> FALSE, radio |-> "off"]

\* setupCommonRF, after any restart.
setupCommonRF ==
    /\ rf' = enableActiveReceiver(disableCurrentReceiver(loadFromStorage(reInit(PowerOn))))
    /\ UNCHANGED RFConfig

Init ==
    /\ RFConfig = NotStored
    /\ rf = enableActiveReceiver(disableCurrentReceiver(reInit(PowerOn)))

-----------------------------------------------------------------------------
\* Commands that transmit.  "nothing" is a message without what must be sent.

XtoRF(nothing) ==
    /\ "RF" \in Built
    /\ rf' = enableActiveReceiver(
                 IF nothing THEN rf ELSE SetTx(initCC1101(disableCurrentReceiver(rf))))
    /\ UNCHANGED RFConfig

XtoRF2(nothing) ==
    /\ "RF2" \in Built
    /\ rf' = enableActiveReceiver(
                 IF nothing THEN rf ELSE SetTx(initCC1101(disableCurrentReceiver(rf))))
    /\ UNCHANGED RFConfig

\* A message for MQTTtoPilight; sent or not, the receiver starts anew.
XtoPilight ==
    /\ "Pilight" \in Built
    /\ rf' = enableActiveReceiver(SetTx(initCC1101(disableCurrentReceiver(rf))))
    /\ UNCHANGED RFConfig

\* MQTTtoPilightProtocol with "rawEnabled": Pilight starts anew if it is current.
XtoPilightProtocol ==
    /\ "Pilight" \in Built
    /\ rf' = IF rf.currentReceiver = "Pilight"
             THEN Listen(initCC1101(Mute(rf, "Pilight")), "Pilight") ELSE rf
    /\ UNCHANGED RFConfig

\* actuatorSomfy; an unknown remote returns early.
XtoSomfy(remote) ==
    LET s == IF ZradioCC1101 THEN SetTx(disableCurrentReceiver(rf)) ELSE rf
    IN  /\ rf' = IF remote = "exists" THEN enableActiveReceiver(initCC1101(s)) ELSE s
        /\ UNCHANGED RFConfig

-----------------------------------------------------------------------------
\* Any message that is not JSON, whatever its topic: both simple handlers run.
\* RF2 tells its receiver to pause only when it has something to send.
XtoRFSimple(s) ==
    IF "RF" \notin Built THEN s
    ELSE IF ~ZradioCC1101 THEN Mute(s, "RF")
    ELSE Listen([SetTx(disableCurrentReceiver(s)) EXCEPT !.radio = s.freq], "RF")

XtoRF2Simple(s, nothing) ==
    LET sent == SetTx(initCC1101(disableCurrentReceiver(s)))
        again == IF nothing THEN sent
                 ELSE IF sent.attached THEN Listen(sent, "RF2") ELSE sent
    IN  IF "RF2" \notin Built THEN s
        ELSE enableActiveReceiver(IF ZradioCC1101 THEN [again EXCEPT !.radio = s.freq]
                                  ELSE again)

PlainMessage(nothing) ==
    /\ rf' = XtoRF2Simple(XtoRFSimple(rf), nothing)
    /\ UNCHANGED RFConfig

-----------------------------------------------------------------------------
\* Commands in JSON, and restarts.
JsonNext ==
    \/ \E first \in {"init", "load", "none"}, freq \in Frequencies \cup {"invalid"},
          active \in Selectable \cup {"absent"}, last \in {"erase", "save", "none"} :
          XtoRFset(first, freq, active, last)
    \/ \E nothing \in BOOLEAN : XtoRF(nothing) \/ XtoRF2(nothing)
    \/ XtoPilight
    \/ XtoPilightProtocol
    \/ \E remote \in Remotes : XtoSomfy(remote)
    \/ setupCommonRF

Next ==
    \/ JsonNext
    \/ \E nothing \in BOOLEAN : PlainMessage(nothing)

JsonSpec == Init /\ [][JsonNext]_rfVars
Spec == Init /\ [][Next]_rfVars

-----------------------------------------------------------------------------
TypeOK ==
    /\ rf \in [freq : Frequencies, active : Selectable,
               currentReceiver : Built \cup {"none"}, isDriverEnabled : BOOLEAN,
               listening : SUBSET Built, attached : BOOLEAN, radio : Radio]
    /\ RFConfig \in [freq : Frequencies, active : Selectable] \cup {NotStored}

ActiveListens == rf.listening = {rf.active} \cap Built
BackToReceive == ZradioCC1101 /\ rf.active \in Built => rf.radio = rf.freq

\* Between commands the receiver the status message names listens, and no other
\* (docs/use/rf.md 57), at the frequency that is configured, whatever was sent, loaded
\* or selected before (docs/use/rf.md 202).  Of JsonSpec only: after a message that is
\* not JSON the receiver of gatewayRF may listen besides the active one, or be mute.
ReceiverRestored == ActiveListens /\ BackToReceive
=============================================================================
