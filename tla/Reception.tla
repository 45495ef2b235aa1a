----------------------------- MODULE Reception -----------------------------
(***************************************************************************)
(* The components that deal with what the gateway receives: the filter of  *)
(* repeated codes, the RF receivers, discovery, the serial link, the table *)
(* of BLE devices, and the BLE gateway's configuration and tasks.  They    *)
(* share no variables: a behaviour is one of a single component, and the   *)
(* others rest in their initial state.                                     *)
(***************************************************************************)
EXTENDS SignalFilter

CONSTANTS
    Units           \* the components a behaviour may be about

\* Receivers
CONSTANTS Built, Frequencies, RF_FREQUENCY, ACTIVE_RECEIVER, ZradioCC1101, Selectable, Remotes

\* Discovery
CONSTANTS Build, Keys, QueueSize, discovery_republish_on_reconnect, MaxOthers, MaxInputs

\* SerialLink
CONSTANTS SENDER_SERIAL_HEARTBEAT, heartbeatTimeout, maxHeartbeatInterval, MaxGone

\* BleTable; MaxSeen bounds its clock
CONSTANTS Macs, Kinds, MaxBLEDevices, AwayTimer, ignoreWBlist, filterConnectable, MaxSeen

\* BleLife
CONSTANTS Intervals, MinTimeBtwScan, TimeBtwRead, TimeBtwActive, AdaptiveBLEScan, HassPresence,
          EnableBT, MaxTasks, MaxKeys

VARIABLES rf, RFConfig

VARIABLES jsonQueue, queueLength, connected, connectedOnce, SYSdiscovery, devices, isDisc,
          newDevices, localDevices, overrideDiscovery, retained, inputs, whole

VARIABLES receiverReady, heartbeatInterval, isOverflow, sinceSent, sinceAck, firstStart,
          ProcessLock, gatewayState, gone, published

VARIABLES heap, bleDevices, oneWhite, bleNewDevices, semaphore, tablePc, call, found,
          bleLocalDevices, tableClock

VARIABLES BTConfig, nvs, BTProcessLock, handle, stray, scanning, crashed, loaded

VARIABLE unit       \* the component the behaviour is about

Receiver == INSTANCE Receivers
Announce == INSTANCE Discovery
Serial == INSTANCE SerialLink
Table == INSTANCE BleTable WITH
    MaxTime <- MaxSeen, devices <- bleDevices, newDevices <- bleNewDevices,
    localDevices <- bleLocalDevices, pc <- tablePc, clock <- tableClock
Life == INSTANCE BleLife

ASSUME ReceptionConstants ==
    /\ Receiver!ReceiversAssumption /\ Announce!DiscoveryAssumption
    /\ Serial!SerialAssumption /\ Table!BleTableAssumption /\ Life!BleLifeAssumption

receivers == <<rf, RFConfig>>
discovery == <<jsonQueue, queueLength, connected, connectedOnce, SYSdiscovery, devices,
               isDisc, newDevices, localDevices, overrideDiscovery, retained, inputs, whole>>
serial == <<receiverReady, heartbeatInterval, isOverflow, sinceSent, sinceAck, firstStart,
            ProcessLock, gatewayState, gone, published>>
table == <<heap, bleDevices, oneWhite, bleNewDevices, semaphore, tablePc, call, found,
           bleLocalDevices, tableClock>>
life == <<BTConfig, nvs, BTProcessLock, handle, stray, scanning, crashed, loaded>>
receptionVars == <<unit, vars, receivers, discovery, serial, table, life>>

ReceptionInit ==
    /\ unit \in Units
    /\ Init /\ Receiver!Init /\ Announce!Init /\ Serial!Init /\ Table!Init /\ Life!Init
    /\ unit # "serial" => gatewayState = "BROKER_CONNECTED"

ReceptionNext ==
    \/ /\ unit = "filter" /\ Next
       /\ UNCHANGED <<unit, receivers, discovery, serial, table, life>>
    \/ /\ unit = "receivers" /\ Receiver!JsonNext
       /\ UNCHANGED <<unit, vars, discovery, serial, table, life>>
    \/ /\ unit = "discovery" /\ Announce!Next
       /\ UNCHANGED <<unit, vars, receivers, serial, table, life>>
    \/ /\ unit = "serial" /\ Serial!Next
       /\ UNCHANGED <<unit, vars, receivers, discovery, table, life>>
    \/ /\ unit = "table" /\ Table!Next
       /\ UNCHANGED <<unit, vars, receivers, discovery, serial, life>>
    \/ /\ unit = "life" /\ Life!Next
       /\ UNCHANGED <<unit, vars, receivers, discovery, serial, table>>

ReceptionSpec == ReceptionInit /\ [][ReceptionNext]_receptionVars

-----------------------------------------------------------------------------
\* The variables of every component have their types.
TypesOK ==
    /\ TypeOK /\ Receiver!TypeOK /\ Announce!TypeOK /\ Serial!TypeOK /\ Table!TypeOK
    /\ Life!TypeOK

\* gatewayRF and its like: the active receiver listens again after every command.
ReceiverRestored == Receiver!ReceiverRestored

\* mqttDiscovery: an announcement is taken whole, although longer than the queue.
AllAnnounced == Announce!AllAnnounced

\* gatewayRTL_433: a device that is heard while a launch runs is announced by the next.
LaunchIsDue == Announce!LaunchIsDue

\* gatewaySERIAL: a receiver without its broker is noticed within the timeout.
SenderNotices == Serial!SenderNotices

\* createOrUpdateDevice: one entry per MAC, and a bounded table.
OneEntryPerMac == Table!OneEntryPerMac
OnlyListedOutgrow == Table!OnlyListedOutgrow

\* BTConfig_fromJson: active scans are never more frequent than scans, and what was
\* saved is what is loaded.
ActiveNotShorter == Life!ActiveNotShorter
SavedIsLoaded == Life!SavedIsLoaded
=============================================================================
