-------------------------- MODULE ReceptionProofs --------------------------
(***************************************************************************)
(* Theorems about Reception, for every value of its constants but where a  *)
(* hypothesis is named (Selected, LongEnough).                             *)
(*                                                                         *)
(* A behaviour of the composition is one of each of its components         *)
(* (EachComponent), so that what is proved of a component holds of it.     *)
(* The BLE table and the BLE life cycle have proof modules of their own:   *)
(* each is instantiated, and lemmas say that its copy of the component is  *)
(* that of Reception.  The receivers, the serial link and discovery are    *)
(* proved about here, each with its inductive invariant.                   *)
(***************************************************************************)
EXTENDS Reception, SignalFilterProofs, FiniteSetTheorems, WellFoundedInduction,
        SequenceTheorems, TLAPS

\* Whatever the composition does is a behaviour of each component.
THEOREM EachComponent ==
    ReceptionSpec => /\ Spec /\ Receiver!JsonSpec /\ Announce!Spec /\ Serial!Spec
                     /\ Table!Spec /\ Life!Spec
<1>1. ReceptionInit => /\ Init /\ Receiver!Init /\ Announce!Init /\ Serial!Init
                       /\ Table!Init /\ Life!Init
  BY DEF ReceptionInit
<1> DEFINE Steps == /\ [Next]_vars /\ [Receiver!JsonNext]_(Receiver!rfVars)
                    /\ [Announce!Next]_(Announce!discoveryVars)
                    /\ [Serial!Next]_(Serial!serialVars)
                    /\ [Table!Next]_(Table!tableVars) /\ [Life!Next]_(Life!btVars)
<1>2. [ReceptionNext]_receptionVars => Steps
  <2> USE DEF receptionVars, receivers, discovery, serial, table, life, Receiver!rfVars,
              Announce!discoveryVars, Serial!serialVars, Table!tableVars, Life!btVars, vars
  <2> SUFFICES ASSUME [ReceptionNext]_receptionVars PROVE Steps
    OBVIOUS
  <2>1. CASE unit = "filter" /\ ReceptionNext
    BY <2>1 DEF ReceptionNext
  <2>2. CASE unit = "receivers" /\ ReceptionNext
    BY <2>2 DEF ReceptionNext
  <2>3. CASE unit = "discovery" /\ ReceptionNext
    BY <2>3 DEF ReceptionNext
  <2>4. CASE unit = "serial" /\ ReceptionNext
    BY <2>4 DEF ReceptionNext
  <2>5. CASE unit = "table" /\ ReceptionNext
    BY <2>5 DEF ReceptionNext
  <2>6. CASE unit = "life" /\ ReceptionNext
    BY <2>6 DEF ReceptionNext
  <2>7. CASE UNCHANGED receptionVars
    BY <2>7
  <2> QED
    BY <2>1, <2>2, <2>3, <2>4, <2>5, <2>6, <2>7 DEF ReceptionNext
<1> QED
  BY <1>1, <1>2, PTL DEF ReceptionSpec, Spec, Receiver!JsonSpec, Announce!Spec, Serial!Spec,
                         Table!Spec, Life!Spec

-----------------------------------------------------------------------------
\* The components whose theorems are in modules of their own.
TableProofs == INSTANCE BleTableProofs WITH
    MaxTime <- MaxSeen, devices <- bleDevices, newDevices <- bleNewDevices,
    localDevices <- bleLocalDevices, pc <- tablePc, clock <- tableClock
LifeProofs == INSTANCE BleLifeProofs

\* The table of Reception and that of its proof module are the same.
LEMMA SameTableConstants == Table!BleTableAssumption => TableProofs!BleTableAssumption
BY DEF Table!KindsOf, TableProofs!KindsOf, Table!BleTableAssumption,
       TableProofs!BleTableAssumption

LEMMA SameTableSpec == Table!Spec <=> TableProofs!Spec
<1>1. \A mac : Table!getDeviceByMac(mac) = TableProofs!getDeviceByMac(mac)
  BY DEF Table!getDeviceByMac, TableProofs!getDeviceByMac, Table!NotFound,
         TableProofs!NotFound
<1>2. \A d : Table!Passes(d) <=> TableProofs!Passes(d)
  BY DEF Table!Passes, TableProofs!Passes, Table!isWhite, TableProofs!isWhite,
         Table!isBlack, TableProofs!isBlack, Table!NotFound, TableProofs!NotFound
<1>3. Table!Evicted = TableProofs!Evicted
  BY DEF Table!Evicted, TableProofs!Evicted, Table!Evictable, TableProofs!Evictable,
         Table!RemoveAt, TableProofs!RemoveAt
<1>4. \A c : Table!Add(c) <=> TableProofs!Add(c)
  BY <1>3 DEF Table!Add, TableProofs!Add
<1>5. \A d, c : Table!Update(d, c) <=> TableProofs!Update(d, c)
  BY DEF Table!Update, TableProofs!Update, Table!UNKNOWN_MODEL,
         TableProofs!UNKNOWN_MODEL
<1>6. Table!Init <=> TableProofs!Init
  BY DEF Table!Init, TableProofs!Init, Table!Tasks, TableProofs!Tasks, Table!NoCall,
         TableProofs!NoCall, Table!NotFound, TableProofs!NotFound, Table!UNKNOWN_MODEL,
         TableProofs!UNKNOWN_MODEL
<1>7. \A t : Table!Take(t) <=> TableProofs!Take(t)
  BY <1>1 DEF Table!Take, TableProofs!Take, Table!Goto, TableProofs!Goto, Table!table,
         TableProofs!table
<1>8. \A t : Table!TakeTimesOut(t) <=> TableProofs!TakeTimesOut(t)
  BY DEF Table!TakeTimesOut, TableProofs!TakeTimesOut, Table!NoCall, TableProofs!NoCall,
         Table!Goto, TableProofs!Goto, Table!After, TableProofs!After, Table!table,
         TableProofs!table, Table!UNKNOWN_MODEL, TableProofs!UNKNOWN_MODEL
<1>9. \A t : Table!createOrUpdateDevice(t) <=> TableProofs!createOrUpdateDevice(t)
  BY <1>4, <1>5 DEF Table!createOrUpdateDevice, TableProofs!createOrUpdateDevice,
         Table!NotFound, TableProofs!NotFound, Table!NoCall, TableProofs!NoCall,
         Table!Goto, TableProofs!Goto, Table!After, TableProofs!After,
         Table!UNKNOWN_MODEL, TableProofs!UNKNOWN_MODEL
<1>10. \A mac, kind : Table!Advertisement(mac, kind) <=> TableProofs!Advertisement(mac, kind)
  BY <1>1, <1>2 DEF Table!Advertisement, TableProofs!Advertisement, Table!Tick,
         TableProofs!Tick, Table!NotFound, TableProofs!NotFound, Table!process_bledata,
         TableProofs!process_bledata, Table!Goto, TableProofs!Goto, Table!table,
         TableProofs!table
<1>11. Table!updateDevicesStatus <=> TableProofs!updateDevicesStatus
  BY <1>2 DEF Table!updateDevicesStatus, TableProofs!updateDevicesStatus, Table!ToSet,
         TableProofs!ToSet, Table!Away, TableProofs!Away, Table!Goto, TableProofs!Goto
<1>12. \A mac, color : Table!updateWorB(mac, color) <=> TableProofs!updateWorB(mac, color)
  BY DEF Table!updateWorB, TableProofs!updateWorB, Table!Tick, TableProofs!Tick,
         Table!UNKNOWN_MODEL, TableProofs!UNKNOWN_MODEL, Table!Goto, TableProofs!Goto,
         Table!table, TableProofs!table
<1>13. \A mac : Table!TrackerSync(mac) <=> TableProofs!TrackerSync(mac)
  BY <1>1 DEF Table!TrackerSync, TableProofs!TrackerSync, Table!Tick, TableProofs!Tick,
         Table!NotFound, TableProofs!NotFound
<1>14. Table!launchBTDiscovery <=> TableProofs!launchBTDiscovery
  BY DEF Table!launchBTDiscovery, TableProofs!launchBTDiscovery, Table!Goto,
         TableProofs!Goto
<1>15. Table!Discover <=> TableProofs!Discover
  BY DEF Table!Discover, TableProofs!Discover, Table!Goto, TableProofs!Goto,
         Table!table, TableProofs!table
<1>16. Table!Discovered <=> TableProofs!Discovered
  BY DEF Table!Discovered, TableProofs!Discovered, Table!Goto, TableProofs!Goto
<1>17. Table!Next <=> TableProofs!Next
  BY <1>7, <1>8, <1>9, <1>10, <1>11, <1>12, <1>13, <1>14, <1>15, <1>16 DEF Table!Next,
         TableProofs!Next, Table!Tasks, TableProofs!Tasks
<1>18. [Table!Next]_(Table!tableVars) <=> [TableProofs!Next]_(TableProofs!tableVars)
  BY <1>17 DEF Table!tableVars, TableProofs!tableVars
<1> QED
  BY <1>6, <1>18, PTL DEF Table!Spec, TableProofs!Spec

LEMMA SameTableTypeOK == Table!TypeOK <=> TableProofs!TypeOK
BY DEF Table!Tasks, TableProofs!Tasks, Table!UNKNOWN_MODEL, TableProofs!UNKNOWN_MODEL,
       Table!Device, TableProofs!Device, Table!TypeOK, TableProofs!TypeOK,
       Table!ToSet, TableProofs!ToSet

LEMMA SameTableOneEntryPerMac == Table!OneEntryPerMac <=> TableProofs!OneEntryPerMac
BY DEF Table!OneEntryPerMac, TableProofs!OneEntryPerMac

LEMMA SameTableOnlyListedOutgrow == Table!OnlyListedOutgrow <=> TableProofs!OnlyListedOutgrow
BY DEF Table!Evictable, TableProofs!Evictable, Table!OnlyListedOutgrow,
       TableProofs!OnlyListedOutgrow, Table!Cardinality, TableProofs!Cardinality,
       Table!ToSet, TableProofs!ToSet

\* The life cycle of Reception and that of its proof module are the same.
LEMMA SameLifeConstants == Life!BleLifeAssumption => LifeProofs!BleLifeAssumption
BY DEF Life!BleLifeAssumption, LifeProofs!BleLifeAssumption

LEMMA SameLifeSpec == Life!Spec <=> LifeProofs!Spec
<1>1. Life!Commands = LifeProofs!Commands
  BY DEF Life!Commands, LifeProofs!Commands, Life!Messages, LifeProofs!Messages,
         Life!KeyCount, LifeProofs!KeyCount, Life!Opt, LifeProofs!Opt, Life!Cardinality,
         LifeProofs!Cardinality
<1>2. Life!BTConfig_init = LifeProofs!BTConfig_init
  BY DEF Life!BTConfig_init, LifeProofs!BTConfig_init
<1>3. \A key, old : Life!Value(key, old) = LifeProofs!Value(key, old)
  BY DEF Life!Value, LifeProofs!Value
<1>4. \A key, old : Life!Changes(key, old) <=> LifeProofs!Changes(key, old)
  BY <1>3 DEF Life!Changes, LifeProofs!Changes
<1>5. \A c, m : Life!Completed(c, m) = LifeProofs!Completed(c, m)
  BY <1>4 DEF Life!Completed, LifeProofs!Completed
<1>6. \A c, interval : Life!SetInterval(c, interval) = LifeProofs!SetInterval(c, interval)
  BY <1>3 DEF Life!SetInterval, LifeProofs!SetInterval
<1>7. \A c, intervalacts : Life!SetActive(c, intervalacts) = LifeProofs!SetActive(c, intervalacts)
  BY <1>3 DEF Life!SetActive, LifeProofs!SetActive
<1>8. \A c, m, startup :
         Life!BTConfig_fromJson(c, m, startup) = LifeProofs!BTConfig_fromJson(c, m, startup)
  <2> SUFFICES ASSUME NEW c, NEW m, NEW startup
               PROVE  Life!BTConfig_fromJson(c, m, startup)
                          = LifeProofs!BTConfig_fromJson(c, m, startup)
    OBVIOUS
  <2> DEFINE p == IF startup THEN m ELSE LifeProofs!Completed(c, m)
             s == LifeProofs!SetInterval([c EXCEPT !.presenceEnable =
                                              LifeProofs!Value(p.hasspresence, @)], p.interval)
             d == LifeProofs!SetActive(s, p.intervalacts)
  <2>1. (IF startup THEN m ELSE Life!Completed(c, m)) = p
    BY <1>5
  <2> HIDE DEF p
  <2>2. Life!SetInterval([c EXCEPT !.presenceEnable = Life!Value(p.hasspresence, @)],
                         p.interval) = s
    BY <1>3, <1>6
  <2> HIDE DEF s
  <2>3. Life!SetActive(s, p.intervalacts) = d
    BY <1>7
  <2> HIDE DEF d
  <2>4. Life!BTConfig_fromJson(c, m, startup)
            = [d EXCEPT !.adaptiveScan = Life!Value(p.adaptivescan, @),
                        !.enabled = Life!Value(p.enabled, @)]
    BY <2>1, <2>2, <2>3 DEF Life!BTConfig_fromJson
  <2>5. LifeProofs!BTConfig_fromJson(c, m, startup)
            = [d EXCEPT !.adaptiveScan = LifeProofs!Value(p.adaptivescan, @),
                        !.enabled = LifeProofs!Value(p.enabled, @)]
    BY DEF LifeProofs!BTConfig_fromJson, d, s, p
  <2> QED
    BY <1>3, <2>4, <2>5
<1>9. \A c : Life!BTConfig_load(c) = LifeProofs!BTConfig_load(c)
  BY <1>8 DEF Life!BTConfig_load, LifeProofs!BTConfig_load, Life!AsMessage,
         LifeProofs!AsMessage
<1>10. Life!Init <=> LifeProofs!Init
  BY <1>2 DEF Life!Init, LifeProofs!Init, Life!NotStored, LifeProofs!NotStored
<1>11. \A m : Life!XtoBT(m) <=> LifeProofs!XtoBT(m)
  BY <1>2, <1>4, <1>8, <1>9 DEF Life!XtoBT, LifeProofs!XtoBT, Life!tasks,
         LifeProofs!tasks, Life!stopProcessing, LifeProofs!stopProcessing,
         Life!setupBTTasksAndBLE, LifeProofs!setupBTTasksAndBLE, Life!NotStored,
         LifeProofs!NotStored, Life!Stored, LifeProofs!Stored, Life!Deletes,
         LifeProofs!Deletes
<1>12. Life!ScanBegins <=> LifeProofs!ScanBegins
  BY DEF Life!ScanBegins, LifeProofs!ScanBegins
<1>13. Life!ScanEnds <=> LifeProofs!ScanEnds
  BY DEF Life!ScanEnds, LifeProofs!ScanEnds
<1>14. \A acts, cont : Life!Adapts(acts, cont) <=> LifeProofs!Adapts(acts, cont)
  BY DEF Life!Adapts, LifeProofs!Adapts, Life!tasks, LifeProofs!tasks
<1>15. Life!setupBT <=> LifeProofs!setupBT
  BY <1>2, <1>9 DEF Life!setupBT, LifeProofs!setupBT, Life!Boots, LifeProofs!Boots
<1>16. Life!Next <=> LifeProofs!Next
  BY <1>1, <1>11, <1>12, <1>13, <1>14, <1>15 DEF Life!Next, LifeProofs!Next
<1>17. [Life!Next]_(Life!btVars) <=> [LifeProofs!Next]_(LifeProofs!btVars)
  BY <1>16 DEF Life!btVars, LifeProofs!btVars
<1> QED
  BY <1>10, <1>17, PTL DEF Life!Spec, LifeProofs!Spec

LEMMA SameLifeTypeOK == Life!TypeOK <=> LifeProofs!TypeOK
BY DEF Life!Config, LifeProofs!Config, Life!NotStored, LifeProofs!NotStored,
       Life!TypeOK, LifeProofs!TypeOK

LEMMA SameLifeActiveNotShorter == Life!ActiveNotShorter <=> LifeProofs!ActiveNotShorter
BY DEF Life!ActiveNotShorter, LifeProofs!ActiveNotShorter

LEMMA SameLifeSavedIsLoaded == Life!SavedIsLoaded <=> LifeProofs!SavedIsLoaded
BY DEF Life!SavedIsLoaded, LifeProofs!SavedIsLoaded

-----------------------------------------------------------------------------
\* The serial link.  SenderNotices is not inductive: that no answer came says nothing of
\* receiverReady before the timeout.  What links them is that no answer is given while the
\* receiver is without its broker, so that the sender has been without an answer for at
\* least as long, up to the timeout, where it stops to count.

\* The sender has waited for an answer as long as the receiver was without its broker.
WaitedAsLong == gone <= sinceAck \/ sinceAck = heartbeatTimeout

\* The inductive invariant.
SerialInv == Serial!TypeOK /\ WaitedAsLong /\ SenderNotices

\* A count stays between what it was and its bound.
LEMMA CountBounded ==
    ASSUME NEW max \in Nat, NEW n \in 0..max
    PROVE  /\ Serial!AtMost(n + 1, max) \in 0..max
           /\ Serial!AtMost(n + 1, max) = n + 1 \/ (n = max /\ Serial!AtMost(n + 1, max) = max)
BY DEF Serial!AtMost

LEMMA SerialInit ==
    ASSUME Serial!SerialAssumption, Serial!Init
    PROVE  SerialInv
<1>1. {receiverReady, isOverflow, firstStart, ProcessLock} \subseteq BOOLEAN
  BY DEF Serial!Init
<1>2. /\ heartbeatInterval \in 1..maxHeartbeatInterval
      /\ sinceSent \in 0..maxHeartbeatInterval /\ sinceAck \in 0..heartbeatTimeout
      /\ gone \in 0..MaxGone
  BY DEF Serial!Init, Serial!SerialAssumption
<1>3. gatewayState \in Serial!ReceiverStates /\ published \in {"none", "refused", "lost", "queued"}
  BY DEF Serial!Init
<1>4. ~receiverReady /\ gone <= sinceAck
  BY DEF Serial!Init
<1> QED
  BY <1>1, <1>2, <1>3, <1>4
     DEF SerialInv, Serial!TypeOK, WaitedAsLong, SenderNotices, Serial!SenderNotices

\* The turn of the sender, the only step that counts.
LEMMA TurnHolds ==
    ASSUME Serial!SerialAssumption, SerialInv, Serial!SERIALtoX
    PROVE  SerialInv'
<1> USE DEF SerialInv
<1>1. PICK arrives \in BOOLEAN :
        LET acked == Serial!sendsHeartbeat /\ Serial!handleHeartbeat(arrives)
        IN  /\ sinceSent' = IF Serial!sendsHeartbeat THEN 0
                            ELSE Serial!AtMost(sinceSent + 1, maxHeartbeatInterval)
            /\ sinceAck' = IF acked THEN 0 ELSE Serial!AtMost(sinceAck + 1, heartbeatTimeout)
            /\ heartbeatInterval' = IF SENDER_SERIAL_HEARTBEAT /\ Serial!ackIsLate
                                    THEN Serial!AtMost(heartbeatInterval + 1, maxHeartbeatInterval)
                                    ELSE 1
            /\ receiverReady' = \/ ~SENDER_SERIAL_HEARTBEAT \/ acked
                                \/ (receiverReady /\ ~Serial!ackIsLate)
            /\ isOverflow' = (isOverflow /\ ~acked)
            /\ gone' = IF gatewayState = "BROKER_CONNECTED" THEN 0 ELSE Serial!AtMost(gone + 1, MaxGone)
            /\ UNCHANGED <<firstStart, ProcessLock, gatewayState, published>>
  BY DEF Serial!SERIALtoX
<1> DEFINE acked == Serial!sendsHeartbeat /\ Serial!handleHeartbeat(arrives)
<1>2. acked => gatewayState = "BROKER_CONNECTED"
  BY DEF Serial!handleHeartbeat
<1> HIDE DEF acked
<1>3. /\ sinceSent \in 0..maxHeartbeatInterval /\ sinceAck \in 0..heartbeatTimeout
      /\ heartbeatInterval \in 0..maxHeartbeatInterval /\ gone \in 0..MaxGone
      /\ maxHeartbeatInterval \in Nat \ {0} /\ heartbeatTimeout \in Nat \ {0}
      /\ MaxGone \in Nat
  BY DEF Serial!TypeOK, Serial!SerialAssumption
<1>4. /\ sinceSent' \in 0..maxHeartbeatInterval
      /\ heartbeatInterval' \in 1..maxHeartbeatInterval
  BY <1>1, <1>3, CountBounded DEF Serial!TypeOK
<1>5. \/ sinceAck' = 0 /\ acked
      \/ sinceAck' = sinceAck + 1 /\ sinceAck + 1 \in 0..heartbeatTimeout
      \/ sinceAck' = heartbeatTimeout /\ sinceAck = heartbeatTimeout
  BY <1>1, <1>3, CountBounded DEF acked
<1>6. \/ gone' = 0 /\ gatewayState = "BROKER_CONNECTED"
      \/ /\ gatewayState # "BROKER_CONNECTED" /\ gone' \in 0..MaxGone
         /\ gone' = gone + 1 \/ gone' = gone
  BY <1>1, <1>3, CountBounded
<1>7. /\ receiverReady' \in BOOLEAN /\ isOverflow' \in BOOLEAN
      /\ firstStart' \in BOOLEAN /\ ProcessLock' \in BOOLEAN
  BY <1>1, Zenon DEF Serial!TypeOK
<1>8. Serial!TypeOK'
  <2>1. sinceAck' \in 0..heartbeatTimeout /\ gone' \in 0..MaxGone
    BY <1>3, <1>5, <1>6
  <2>2. gatewayState' \in Serial!ReceiverStates /\ published' \in {"none", "refused", "lost", "queued"}
    BY <1>1 DEF Serial!TypeOK
  <2> QED
    BY <1>4, <1>7, <2>1, <2>2 DEF Serial!TypeOK
<1>9. WaitedAsLong'
  BY <1>2, <1>3, <1>5, <1>6 DEF WaitedAsLong
<1>10. SenderNotices'
  <2>1. SUFFICES ASSUME SENDER_SERIAL_HEARTBEAT, gone' > heartbeatTimeout
                 PROVE  ~receiverReady'
    BY DEF SenderNotices, Serial!SenderNotices
  <2>2. gatewayState # "BROKER_CONNECTED" /\ gone >= heartbeatTimeout
    BY <1>3, <1>6, <2>1
  <2>3. Serial!ackIsLate /\ ~acked
    BY <1>2, <1>3, <2>2 DEF WaitedAsLong, Serial!ackIsLate
  <2> QED
    BY <1>1, <2>1, <2>3 DEF acked
<1> QED
  BY <1>8, <1>9, <1>10

LEMMA SerialStep ==
    ASSUME Serial!SerialAssumption, SerialInv, [Serial!Next]_(Serial!serialVars)
    PROVE  SerialInv'
<1> USE DEF SerialInv, WaitedAsLong, SenderNotices, Serial!SenderNotices
<1>1. CASE Serial!SERIALtoX
  BY <1>1, TurnHolds
<1>2. CASE Serial!Receives
  BY <1>2 DEF Serial!Receives, Serial!TypeOK
<1>3. CASE Serial!Starts
  BY <1>3 DEF Serial!Starts, Serial!TypeOK
<1>4. CASE Serial!XtoSERIAL
  <2>1. published' \in {"refused", "lost", "queued"}
    BY <1>4 DEF Serial!XtoSERIAL
  <2> QED
    BY <1>4, <2>1 DEF Serial!XtoSERIAL, Serial!TypeOK
<1>5. CASE Serial!ReceiverChanges
  BY <1>5 DEF Serial!ReceiverChanges, Serial!ReceiverStates, Serial!TypeOK
<1>6. CASE UNCHANGED Serial!serialVars
  BY <1>6 DEF Serial!serialVars, Serial!TypeOK
<1> QED
  BY <1>1, <1>2, <1>3, <1>4, <1>5, <1>6 DEF Serial!Next

\* A receiver that has been without its broker for longer than the timeout is not taken
\* for ready, whatever the line loses, repeats or garbles (gatewaySERIAL.cpp 196-245).
THEOREM SerialHolds ==
    ASSUME Serial!SerialAssumption
    PROVE  Serial!Spec => [](Serial!TypeOK /\ SenderNotices)
<1>1. SerialInv => Serial!TypeOK /\ SenderNotices
  BY DEF SerialInv
<1> QED
  BY <1>1, SerialInit, SerialStep, PTL DEF Serial!Spec

-----------------------------------------------------------------------------
\* The receivers.
Radios == [freq : Frequencies, active : Selectable,
           currentReceiver : Built \cup {"none"}, isDriverEnabled : BOOLEAN,
           listening : SUBSET Built, attached : BOOLEAN, radio : Receiver!Radio]

\* What a handler is called with: the receiver that is driven listens, whichever is active.
Driven(s) == IF s.isDriverEnabled
             THEN s.currentReceiver \in Built /\ s.listening = {s.currentReceiver}
             ELSE s.listening = {}

\* ... what it works on, ...
Resting(s) == ~s.isDriverEnabled /\ s.listening = {}

\* ... and what it leaves behind: the active receiver is driven, if it is built in.
Settled(s) == IF s.active \in Built
              THEN /\ s.isDriverEnabled /\ s.currentReceiver = s.active
                   /\ s.listening = {s.active} /\ (ZradioCC1101 => s.radio = s.freq)
              ELSE Resting(s)

\* The inductive invariant.
ReceiverInv ==
    /\ rf \in Radios /\ Settled(rf)
    /\ RFConfig \in [freq : Frequencies, active : Selectable] \cup {Receiver!NotStored}

\* What the code leaves to whoever commands it: a Somfy command names a remote that exists,
\* or there is no CC1101 (actuatorSomfy.cpp 70); and no receiver can be selected that is
\* not built in, or Pilight is not.  Without the latter Pilight, which stays the current
\* receiver when one that is missing is selected, is made to listen again by rawEnabled
\* (gatewayPilight.cpp 198).
Selected ==
    /\ ZradioCC1101 => "unknown" \notin Remotes
    /\ Selectable \subseteq Built \/ "Pilight" \notin Built

LEMMA DisableRests ==
    ASSUME NEW s \in Radios, Driven(s)
    PROVE  LET d == Receiver!disableCurrentReceiver(s)
           IN  d \in Radios /\ Resting(d) /\ d.active = s.active /\ d.freq = s.freq
<1>1. CASE s.isDriverEnabled
  <2>1. Receiver!disableCurrentReceiver(s)
            = [[s EXCEPT !.listening = s.listening \ {s.currentReceiver}]
                   EXCEPT !.isDriverEnabled = FALSE]
    BY <1>1 DEF Receiver!disableCurrentReceiver, Receiver!Mute, Driven
  <2> QED
    BY <1>1, <2>1 DEF Radios, Resting, Driven
<1>2. CASE ~s.isDriverEnabled
  BY <1>2 DEF Receiver!disableCurrentReceiver, Resting, Driven
<1> QED
  BY <1>1, <1>2

LEMMA InitAndTxRest ==
    ASSUME NEW s \in Radios, Resting(s)
    PROVE  /\ Receiver!initCC1101(s) \in Radios /\ Resting(Receiver!initCC1101(s))
           /\ Receiver!SetTx(s) \in Radios /\ Resting(Receiver!SetTx(s))
BY DEF Receiver!initCC1101, Receiver!SetTx, Radios, Resting, Receiver!Radio

LEMMA EnableSettles ==
    ASSUME NEW s \in Radios, Resting(s)
    PROVE  Receiver!enableActiveReceiver(s) \in Radios
           /\ Settled(Receiver!enableActiveReceiver(s))
<1>1. CASE s.active \in Built
  <2> DEFINE i == Receiver!initCC1101(s)
             e == [[[i EXCEPT !.listening = i.listening \cup {s.active},
                              !.attached = i.attached \/ s.active = "RF2"]
                       EXCEPT !.currentReceiver = s.active] EXCEPT !.isDriverEnabled = TRUE]
  <2>1. /\ i \in Radios /\ i.active = s.active /\ i.freq = s.freq /\ i.listening = {}
        /\ ZradioCC1101 => i.radio = i.freq
    BY DEF Receiver!initCC1101, Radios, Resting, Receiver!Radio
  <2> HIDE DEF i
  <2>2. (i.attached \/ s.active = "RF2") \in BOOLEAN
    OBVIOUS
  <2>3. e \in Radios /\ Settled(e)
    BY <1>1, <2>1, <2>2 DEF Radios, Settled
  <2>4. Receiver!enableActiveReceiver(s) = e
    BY <1>1 DEF Receiver!enableActiveReceiver, Receiver!Listen, Resting, i
  <2> QED
    BY <2>3, <2>4
<1>2. CASE s.active \notin Built
  BY <1>2 DEF Receiver!enableActiveReceiver, Settled
<1> QED
  BY <1>1, <1>2

LEMMA SettledIsDriven ==
    ASSUME NEW s \in Radios, Settled(s)
    PROVE  Driven(s) /\ Receiver!enableActiveReceiver(s) = s
BY DEF Settled, Driven, Resting, Receiver!enableActiveReceiver

\* The active receiver is enabled anew, whatever it was set to in between.
LEMMA StartsAnew ==
    ASSUME NEW s \in Radios, Driven(s)
    PROVE  LET d == Receiver!disableCurrentReceiver(s)
               t == Receiver!SetTx(Receiver!initCC1101(d))
           IN  /\ Receiver!enableActiveReceiver(d) \in Radios
               /\ Settled(Receiver!enableActiveReceiver(d))
               /\ Receiver!enableActiveReceiver(t) \in Radios
               /\ Settled(Receiver!enableActiveReceiver(t))
BY DisableRests, InitAndTxRest, EnableSettles

\* A configuration, from a message or from the flash, changes what is active, and not
\* what is driven.
LEMMA Configured ==
    ASSUME NEW s \in Radios, Driven(s), NEW freq, NEW active
    PROVE  LET c == Receiver!fromJson(s, freq, active)
           IN  c \in Radios /\ Driven(c)
BY DEF Receiver!fromJson, Radios, Driven

LEMMA Loaded ==
    ASSUME NEW s \in Radios, Driven(s)
    PROVE  LET c == Receiver!loadFromStorage(s)
           IN  c \in Radios /\ Driven(c)
BY Configured DEF Receiver!loadFromStorage

LEMMA Defaults ==
    ASSUME Receiver!ReceiversAssumption, NEW s \in Radios, Driven(s)
    PROVE  LET c == Receiver!reInit(s)
           IN  c \in Radios /\ Driven(c)
BY DEF Receiver!reInit, Receiver!ReceiversAssumption, Radios, Driven

LEMMA PoweredOn ==
    ASSUME Receiver!ReceiversAssumption
    PROVE  Receiver!PowerOn \in Radios /\ Driven(Receiver!PowerOn)
BY DEF Receiver!PowerOn, Receiver!ReceiversAssumption, Radios, Driven, Receiver!Radio

LEMMA ReceiverInit ==
    ASSUME Receiver!ReceiversAssumption, Receiver!Init
    PROVE  ReceiverInv
BY PoweredOn, Defaults, StartsAnew DEF Receiver!Init, ReceiverInv

\* XtoRFset: what is stored is what was valid.
LEMMA ConfigurationHolds ==
    ASSUME Receiver!ReceiversAssumption, ReceiverInv,
           NEW first, NEW freq, NEW active, NEW final,
           Receiver!XtoRFset(first, freq, active, final)
    PROVE  ReceiverInv'
<1> DEFINE base == CASE first = "init" -> Receiver!reInit(rf)
                     [] first = "load" -> Receiver!loadFromStorage(rf)
                     [] OTHER -> rf
           s == Receiver!fromJson(base, freq, active)
<1>1. rf \in Radios /\ Driven(rf)
  BY SettledIsDriven DEF ReceiverInv
<1>2. base \in Radios /\ Driven(base)
  <2>1. CASE first = "init"
    BY <1>1, <2>1, Defaults
  <2>2. CASE first = "load"
    BY <1>1, <2>2, Loaded
  <2>3. CASE first # "init" /\ first # "load"
    BY <1>1, <2>3
  <2> QED
    BY <2>1, <2>2, <2>3
<1>3. /\ rf' = Receiver!enableActiveReceiver(Receiver!disableCurrentReceiver(s))
      /\ RFConfig' = CASE final = "erase" -> Receiver!NotStored
                       [] final = "save" -> [freq |-> s.freq, active |-> s.active]
                       [] OTHER -> RFConfig
  BY DEF Receiver!XtoRFset
<1> HIDE DEF base
<1>4. s \in Radios /\ Driven(s)
  BY <1>2, Configured
<1> HIDE DEF s
<1>5. rf' \in Radios /\ Settled(rf')
  BY <1>3, <1>4, StartsAnew
<1>6. [freq |-> s.freq, active |-> s.active] \in [freq : Frequencies, active : Selectable]
  BY <1>4 DEF Radios
<1>7. RFConfig' \in [freq : Frequencies, active : Selectable] \cup {Receiver!NotStored}
  BY <1>3, <1>6 DEF ReceiverInv
<1> QED
  BY <1>5, <1>7 DEF ReceiverInv

LEMMA ReceiverStep ==
    ASSUME Receiver!ReceiversAssumption, Selected, ReceiverInv,
           [Receiver!JsonNext]_(Receiver!rfVars)
    PROVE  ReceiverInv'
<1>0. rf \in Radios /\ Settled(rf) /\ Driven(rf) /\ Receiver!enableActiveReceiver(rf) = rf
  BY SettledIsDriven DEF ReceiverInv
<1>1. ASSUME rf' \in Radios, Settled(rf'), UNCHANGED RFConfig
      PROVE  ReceiverInv'
  BY <1>1 DEF ReceiverInv
<1>2. ASSUME NEW first, NEW freq, NEW active, NEW final,
             Receiver!XtoRFset(first, freq, active, final)
      PROVE  ReceiverInv'
  BY <1>2, ConfigurationHolds
<1>3. ASSUME NEW nothing \in BOOLEAN, Receiver!XtoRF(nothing) \/ Receiver!XtoRF2(nothing)
      PROVE  ReceiverInv'
  <2>1. CASE nothing
    BY <1>0, <1>1, <1>3, <2>1 DEF Receiver!XtoRF, Receiver!XtoRF2
  <2>2. CASE ~nothing
    BY <1>0, <1>1, <1>3, <2>2, StartsAnew DEF Receiver!XtoRF, Receiver!XtoRF2
  <2> QED
    BY <2>1, <2>2
<1>4. CASE Receiver!XtoPilight
  BY <1>0, <1>1, <1>4, StartsAnew DEF Receiver!XtoPilight
<1>5. CASE Receiver!XtoPilightProtocol
  <2>1. CASE rf.currentReceiver = "Pilight"
    <3>1. rf.active \in Built
      BY <1>0, <1>5 DEF Selected, Radios, Receiver!XtoPilightProtocol
    <3>2. rf.active = "Pilight" /\ rf.listening = {"Pilight"} /\ rf.isDriverEnabled
      BY <1>0, <2>1, <3>1 DEF Settled
    <3> DEFINE m == [rf EXCEPT !.listening = rf.listening \ {"Pilight"}]
               i == Receiver!initCC1101(m)
    <3>3. rf' = [i EXCEPT !.listening = i.listening \cup {"Pilight"},
                          !.attached = i.attached \/ "Pilight" = "RF2"]
      BY <1>5, <2>1 DEF Receiver!XtoPilightProtocol, Receiver!Listen, Receiver!Mute
    <3>4. /\ i \in Radios /\ i.active = rf.active /\ i.isDriverEnabled
          /\ i.currentReceiver = rf.currentReceiver /\ i.listening = {}
          /\ ZradioCC1101 => i.radio = i.freq
      BY <1>0, <3>2 DEF Receiver!initCC1101, Radios, Receiver!Radio
    <3> HIDE DEF i
    <3>5. (i.attached \/ "Pilight" = "RF2") \in BOOLEAN
      OBVIOUS
    <3>6. rf' \in Radios /\ Settled(rf')
      BY <2>1, <3>1, <3>2, <3>3, <3>4, <3>5 DEF Radios, Settled
    <3> QED
      BY <1>1, <1>5, <3>6 DEF Receiver!XtoPilightProtocol
  <2>2. CASE rf.currentReceiver # "Pilight"
    BY <1>0, <1>1, <1>5, <2>2 DEF Receiver!XtoPilightProtocol
  <2> QED
    BY <2>1, <2>2
<1>6. ASSUME NEW remote \in Remotes, Receiver!XtoSomfy(remote)
      PROVE  ReceiverInv'
  <2> DEFINE d == Receiver!disableCurrentReceiver(rf)
  <2>1. CASE ZradioCC1101
    <3>1. remote = "exists"
      BY <2>1 DEF Selected, Receiver!ReceiversAssumption
    <3>2. rf' = Receiver!enableActiveReceiver(Receiver!initCC1101(Receiver!SetTx(d)))
      BY <1>6, <2>1, <3>1 DEF Receiver!XtoSomfy
    <3>3. rf' \in Radios /\ Settled(rf')
      BY <1>0, <3>2, DisableRests, InitAndTxRest, EnableSettles
    <3> QED
      BY <1>1, <1>6, <3>3 DEF Receiver!XtoSomfy
  <2>2. CASE ~ZradioCC1101
    BY <1>0, <1>1, <1>6, <2>2 DEF Receiver!XtoSomfy, Receiver!initCC1101
  <2> QED
    BY <2>1, <2>2
<1>7. CASE Receiver!setupCommonRF
  <2>1. rf' \in Radios /\ Settled(rf')
    BY <1>7, PoweredOn, Defaults, Loaded, StartsAnew DEF Receiver!setupCommonRF
  <2> QED
    BY <1>1, <1>7, <2>1 DEF Receiver!setupCommonRF
<1>8. CASE UNCHANGED Receiver!rfVars
  BY <1>0, <1>1, <1>8 DEF Receiver!rfVars
<1> QED
  BY <1>2, <1>3, <1>4, <1>5, <1>6, <1>7, <1>8 DEF Receiver!JsonNext

\* The active receiver listens again, alone and at the frequency that is configured, after
\* every command in JSON and every restart (commonRF.cpp 158-242).
THEOREM ReceiverListensAgain ==
    ASSUME Receiver!ReceiversAssumption, Selected
    PROVE  Receiver!JsonSpec => [](Receiver!TypeOK /\ ReceiverRestored)
<1>1. ReceiverInv => Receiver!TypeOK /\ ReceiverRestored
  BY DEF ReceiverInv, Settled, Resting, Radios, Receiver!TypeOK, ReceiverRestored,
         Receiver!ReceiverRestored, Receiver!ActiveListens, Receiver!BackToReceive
<1> QED
  BY <1>1, ReceiverInit, ReceiverStep, PTL DEF Receiver!JsonSpec

-----------------------------------------------------------------------------
\* What is announced is finite, and none of it is another document.
Announced(S) == IsFiniteSet(S) /\ Announce!Other \notin S

LEMMA Enumerated ==
    ASSUME NEW a, NEW b, NEW c, NEW d, NEW e, NEW f
    PROVE  /\ IsFiniteSet({}) /\ IsFiniteSet({a}) /\ IsFiniteSet({a, b})
           /\ IsFiniteSet({a, b, c}) /\ IsFiniteSet({a, b, c, d})
           /\ IsFiniteSet({a, b, c, d, e}) /\ IsFiniteSet({a, b, c, d, e, f})
<1>1. IsFiniteSet({}) /\ IsFiniteSet({a})
  BY FS_EmptySet, FS_Singleton
<1>2. IsFiniteSet({a, b})
  <2>1. {a, b} = {a} \cup {b}
    OBVIOUS
  <2> QED
    BY <1>1, <2>1, FS_AddElement
<1>3. IsFiniteSet({a, b, c})
  <2>1. {a, b, c} = {a, b} \cup {c}
    OBVIOUS
  <2> QED
    BY <1>2, <2>1, FS_AddElement
<1>4. IsFiniteSet({a, b, c, d})
  <2>1. {a, b, c, d} = {a, b, c} \cup {d}
    OBVIOUS
  <2> QED
    BY <1>3, <2>1, FS_AddElement
<1>5. IsFiniteSet({a, b, c, d, e})
  <2>1. {a, b, c, d, e} = {a, b, c, d} \cup {e}
    OBVIOUS
  <2> QED
    BY <1>4, <2>1, FS_AddElement
<1>6. IsFiniteSet({a, b, c, d, e, f})
  <2>1. {a, b, c, d, e, f} = {a, b, c, d, e} \cup {f}
    OBVIOUS
  <2> QED
    BY <1>5, <2>1, FS_AddElement
<1> QED
  BY <1>1, <1>2, <1>3, <1>4, <1>5, <1>6

\* The components of Home Assistant the gateway has entities of.
HassComponents == {"sensor", "binary_sensor", "switch", "button", "number", "update"}

LEMMA ListAnnounced ==
    ASSUME NEW component \in HassComponents, NEW ids, IsFiniteSet(ids)
    PROVE  Announced(Announce!createDiscoveryFromList(component, ids))
<1> DEFINE L == {<<component, id>> : id \in ids}
           f == [id \in ids |-> <<component, id>>]
<1>1. f \in Surjection(ids, L)
  BY DEF Surjection
<1>2. IsFiniteSet(L)
  BY <1>1, FS_Surjection
<1>3. Announce!Other \notin L
  BY DEF Announce!Other, HassComponents
<1> QED
  BY <1>2, <1>3 DEF Announced, Announce!createDiscoveryFromList, Announce!createDiscovery

LEMMA EntitiesAnnounced ==
    ASSUME NEW c \in HassComponents, NEW i, NEW d \in HassComponents, NEW j,
           NEW e \in HassComponents, NEW k
    PROVE  /\ Announced({<<c, i>>}) /\ Announced({<<c, i>>, <<d, j>>})
           /\ Announced({<<c, i>>, <<d, j>>, <<e, k>>})
BY Enumerated DEF Announced, Announce!Other, HassComponents

LEMMA BothAnnounced ==
    ASSUME NEW S, NEW T, Announced(S), Announced(T)
    PROVE  Announced(S \cup T)
BY FS_Union DEF Announced

LEMMA WithAnnounced ==
    ASSUME NEW S, Announced(S), NEW option
    PROVE  Announced(Announce!With(option, S))
BY FS_EmptySet DEF Announced, Announce!With

LEMMA AllEntitiesAnnounced == Announced(Announce!Entities)
<1> DEFINE List(c, ids) == Announce!createDiscoveryFromList(c, ids)
<1>0. {"sensor", "binary_sensor", "switch", "button", "number", "update"} \subseteq HassComponents
  BY DEF HassComponents
<1>1. Announced(Announce!SystemEntities)
  <2>1. Announced(List("sensor", {"uptime", "freemem", "ip"}))
    BY <1>0, Enumerated, ListAnnounced
  <2>2. Announced(List("button", {"restart", "erase"}))
    BY <1>0, Enumerated, ListAnnounced
  <2>3. Announced({<<"binary_sensor", "connectivity">>, <<"switch", "disc">>})
    BY <1>0, EntitiesAnnounced
  <2>4. Announced(Announce!With("WiFi", {<<"sensor", "rssi">>}))
    BY <1>0, EntitiesAnnounced, WithAnnounced
  <2>5. Announced(Announce!With("SecondaryModule", {<<"sensor", "uptime-2">>,
                      <<"sensor", "freemem-2">>, <<"button", "restart-2">>}))
    BY <1>0, EntitiesAnnounced, WithAnnounced
  <2> QED
    BY <2>1, <2>2, <2>3, <2>4, <2>5, BothAnnounced DEF Announce!SystemEntities
<1>2. Announced(Announce!BoardEntities)
  <2>1. Announced(Announce!With("LED_ADDRESSABLE", {<<"number", "rgbb">>}))
    BY <1>0, EntitiesAnnounced, WithAnnounced
  <2>2. Announced(Announce!With("ZdisplaySSD1306", {<<"switch", "onstate">>,
                      <<"switch", "displayMetric">>, <<"number", "brightness">>}))
    BY <1>0, EntitiesAnnounced, WithAnnounced
  <2>3. Announced(Announce!With("ESP32", {<<"sensor", "tempc">>}))
    BY <1>0, EntitiesAnnounced, WithAnnounced
  <2>4. Announced(Announce!With("M5STICKC",
            List("sensor", {"m5batvoltage", "m5batcurrent", "m5battlevel"})
            \cup {<<"binary_sensor", "m5ischarging">>}))
    <3>1. Announced(List("sensor", {"m5batvoltage", "m5batcurrent", "m5battlevel"}))
      BY <1>0, Enumerated, ListAnnounced
    <3>2. Announced({<<"binary_sensor", "m5ischarging">>})
      BY <1>0, EntitiesAnnounced
    <3> QED
      BY <3>1, <3>2, BothAnnounced, WithAnnounced
  <2>5. Announced(Announce!With("M5STACK", {<<"sensor", "m5battlevel">>,
            <<"binary_sensor", "m5ischarging">>, <<"binary_sensor", "m5ischargefull">>}))
    BY <1>0, EntitiesAnnounced, WithAnnounced
  <2>6. Announced(Announce!With("MQTT_HTTPS_FW_UPDATE", {<<"update", "update">>}))
    BY <1>0, EntitiesAnnounced, WithAnnounced
  <2> QED
    BY <2>1, <2>2, <2>3, <2>4, <2>5, <2>6, BothAnnounced DEF Announce!BoardEntities
<1>3. ASSUME NEW option, NEW ids, IsFiniteSet(ids)
      PROVE  /\ Announced(Announce!With(option, List("sensor", ids)))
             /\ Announced(Announce!With(option, List("binary_sensor", ids)))
             /\ Announced(Announce!With(option, List("switch", ids)))
  BY <1>0, <1>3, ListAnnounced, WithAnnounced
<1>4. Announced(Announce!SensorEntities)
  <2> DEFINE Sensors(option, ids) == Announce!With(option, List("sensor", ids))
             Binary(option, ids) == Announce!With(option, List("binary_sensor", ids))
  <2> HIDE DEF List
  <2>1. /\ Announced(Sensors("BME280", {"bme-temp", "bme-pressure", "bme-humidity",
                                        "bme-altim", "bme-altift"}))
        /\ Announced(Sensors("HTU21", {"htu-temp", "htu-hum"}))
        /\ Announced(Sensors("LM75", {"lm75-temp"}))
        /\ Announced(Sensors("AHTx0", {"aht-temp", "aht-hum"}))
        /\ Announced(Sensors("DHT", {"dht-temp", "dht-hum"}))
        /\ Announced(Sensors("ADC", {"adc"}))
    BY <1>3, Enumerated
  <2>2. /\ Announced(Sensors("BH1750", {"BH1750-lux", "BH1750-ftcd", "BH1750-wm2"}))
        /\ Announced(Sensors("MQ2", {"MQ2-gas"})) /\ Announced(Binary("MQ2", {"MQ2"}))
        /\ Announced(Sensors("TEMT6000", {"TEMT6000-lux", "TEMT6000-ftcd", "TEMT6000-wm2"}))
        /\ Announced(Sensors("TSL2561", {"TSL2561-lux", "TSL2561-ftcd", "TSL2561-wm2"}))
    BY <1>3, Enumerated
  <2>3. /\ Announced(Binary("HCSR501", {"hcsr501"}))
        /\ Announced(Binary("GPIOInput", {"GPIOInput"}))
        /\ Announced(Sensors("INA226", {"INA226-volt", "INA226-current", "INA226-power"}))
    BY <1>3, Enumerated
  <2> HIDE DEF Sensors, Binary
  <2>4. Announced(Sensors("BME280", {"bme-temp", "bme-pressure", "bme-humidity",
                                     "bme-altim", "bme-altift"})
                  \cup Sensors("HTU21", {"htu-temp", "htu-hum"}) \cup Sensors("LM75", {"lm75-temp"})
                  \cup Sensors("AHTx0", {"aht-temp", "aht-hum"})
                  \cup Sensors("DHT", {"dht-temp", "dht-hum"})
                  \cup Sensors("ADC", {"adc"}))
    BY <2>1, BothAnnounced
  <2> QED
    BY <2>2, <2>3, <2>4, BothAnnounced DEF Announce!SensorEntities, Sensors, Binary, List
<1>5. Announced(Announce!OneWireEntities)
  BY <1>0, EntitiesAnnounced, WithAnnounced DEF Announce!OneWireEntities
<1>6. Announced(Announce!ActuatorEntities)
  <2>1. Announced(Announce!With("ONOFF", {<<"switch", "actuatorONOFF">>}))
    BY <1>0, EntitiesAnnounced, WithAnnounced
  <2>2. Announced(Announce!With("RN8209", List("sensor", {"volt", "current", "power"})
                                          \cup {<<"binary_sensor", "inUse">>}))
    <3>1. Announced(List("sensor", {"volt", "current", "power"}))
      BY <1>0, Enumerated, ListAnnounced
    <3>2. Announced({<<"binary_sensor", "inUse">>})
      BY <1>0, EntitiesAnnounced
    <3> QED
      BY <3>1, <3>2, BothAnnounced, WithAnnounced
  <2> QED
    BY <2>1, <2>2, BothAnnounced DEF Announce!ActuatorEntities
<1>7. Announced(Announce!GatewayEntities)
  <2> DEFINE all == {"gatewayRF", "gatewayRF2", "gatewayRFM69", "gatewayLORA", "gatewaySRFB",
                     "gatewayPilight", "gatewayIR", "gateway2G"}
  <2>1. IsFiniteSet(all)
    <3>1. all = {"gatewayRF", "gatewayRF2", "gatewayRFM69", "gatewayLORA", "gatewaySRFB",
                 "gatewayPilight"} \cup {"gatewayIR", "gateway2G"}
      OBVIOUS
    <3> HIDE DEF all
    <3> QED
      BY <3>1, Enumerated, FS_Union
  <2>2. IsFiniteSet(Build \cap all)
    <3> HIDE DEF all
    <3> QED
      BY <2>1, FS_Subset
  <2>3. Announced(List("sensor", Build \cap all))
    BY <1>0, <2>2, ListAnnounced
  <2>4. Announced(Announce!With("gatewayLORA",
                      List("switch", {"enablecrc", "invertiq", "onlyknown"})))
    BY <1>3, Enumerated
  <2> QED
    BY <2>3, <2>4, BothAnnounced DEF Announce!GatewayEntities
<1>8. Announced(Announce!BTEntities)
  <2>1. Announced(List("number", {"intervalcnct", "scanduration"}))
    BY <1>0, Enumerated, ListAnnounced
  <2>2. Announced(List("button", {"force_scan", "erase_bt_config"}))
    BY <1>0, Enumerated, ListAnnounced
  <2>3. Announced(List("switch", {"only_sensors", "adaptive_scan", "enabled",
                                  "hasspresence", "pubadvdata", "bleconnect"}))
    BY <1>0, Enumerated, ListAnnounced
  <2>4. Announced(Announce!With("LowPower", {<<"switch", "powermode">>}))
    BY <1>0, EntitiesAnnounced, WithAnnounced
  <2> QED
    BY <2>1, <2>2, <2>3, <2>4, BothAnnounced, WithAnnounced DEF Announce!BTEntities
<1>9. Announced(Announce!btScanParametersDiscovery)
  <2>1. Announced(List("number", {"interval", "intervalacts"}))
    BY <1>0, Enumerated, ListAnnounced
  <2> QED
    BY <2>1, WithAnnounced DEF Announce!btScanParametersDiscovery
<1>10. Announced(Announce!btPresenceParametersDiscovery)
  BY <1>0, EntitiesAnnounced, WithAnnounced DEF Announce!btPresenceParametersDiscovery
<1> QED
  BY <1>1, <1>2, <1>4, <1>5, <1>6, <1>7, <1>8, <1>9, <1>10, BothAnnounced DEF Announce!Entities

\* The sequence of a set, from those of the smaller ones.
Any(s) == CHOOSE x \in s : TRUE
Longer(g, s) == IF s = {} THEN <<>> ELSE Append(g[s \ {Any(s)}], Any(s))
Ordering(S, g, n) == \A s \in SUBSET S : Cardinality(s) <= n => g[s] = Longer(g, s)

LEMMA SmallerSubset ==
    ASSUME NEW S, IsFiniteSet(S), NEW s \in SUBSET S
    PROVE  /\ Cardinality(s) \in Nat /\ IsFiniteSet(s)
           /\ s = {} <=> Cardinality(s) = 0
           /\ s # {} => /\ Any(s) \in s /\ s \ {Any(s)} \in SUBSET S
                        /\ Cardinality(s \ {Any(s)}) = Cardinality(s) - 1
<1>1. IsFiniteSet(s) /\ Cardinality(s) \in Nat
  BY FS_Subset, FS_CardinalityType
<1>2. s # {} => Any(s) \in s
  BY DEF Any
<1> QED
  BY <1>1, <1>2, FS_EmptySet, FS_RemoveElement

LEMMA OrderingExists ==
    ASSUME NEW S, IsFiniteSet(S), NEW n \in Nat
    PROVE  \E g : Ordering(S, g, n)
<1> DEFINE Bad == {m \in Nat : ~ \E g : Ordering(S, g, m)}
<1>1. SUFFICES ASSUME Bad # {} PROVE FALSE
  OBVIOUS
<1>2. PICK m \in Bad : \A i \in Bad : m <= i
  BY <1>1, Smallest
<1>3. CASE m = 0
  <2> DEFINE g == [s \in SUBSET S |-> <<>>]
  <2>1. ASSUME NEW s \in SUBSET S, Cardinality(s) <= 0
        PROVE  g[s] = Longer(g, s)
    <3>1. s = {}
      <4>1. Cardinality(s) \in Nat /\ (s = {} <=> Cardinality(s) = 0)
        BY SmallerSubset
      <4> QED
        BY <2>1, <4>1
    <3> QED
      BY <3>1 DEF Longer
  <2> QED
    BY <1>2, <1>3, <2>1 DEF Ordering
<1>4. CASE m # 0
  <2>1. m - 1 \in Nat /\ m - 1 \notin Bad /\ m \in Nat
    BY <1>2, <1>4
  <2>2. PICK g : Ordering(S, g, m - 1)
    BY <2>1
  <2> DEFINE h == [s \in SUBSET S |-> IF Cardinality(s) = m THEN Longer(g, s) ELSE g[s]]
  <2>3. ASSUME NEW s \in SUBSET S, Cardinality(s) <= m
        PROVE  h[s] = Longer(h, s)
    <3>1. h[s] = Longer(g, s)
      <4>1. CASE Cardinality(s) = m
        BY <4>1
      <4>2. CASE Cardinality(s) # m
        <5>1. Cardinality(s) <= m - 1
          <6>1. Cardinality(s) \in Nat
            BY SmallerSubset
          <6> QED
            BY <2>1, <2>3, <4>2, <6>1
        <5> QED
          BY <2>2, <4>2, <5>1 DEF Ordering
      <4> QED
        BY <4>1, <4>2
    <3>2. CASE s = {}
      BY <3>1, <3>2 DEF Longer
    <3>3. CASE s # {}
      <4> DEFINE x == Any(s)
      <4>1. /\ s \ {x} \in SUBSET S /\ Cardinality(s \ {x}) = Cardinality(s) - 1
            /\ Cardinality(s) \in Nat
        BY <3>3, SmallerSubset
      <4>2. h[s \ {x}] = g[s \ {x}]
        BY <2>1, <2>3, <4>1
      <4> HIDE DEF h
      <4> QED
        BY <3>1, <3>3, <4>2 DEF Longer
    <3> QED
      BY <3>2, <3>3
  <2> HIDE DEF h
  <2>4. Ordering(S, h, m)
    BY <2>3 DEF Ordering
  <2> QED
    BY <1>2, <2>4
<1> QED
  BY <1>3, <1>4

LEMMA InAnyOrderIs ==
    ASSUME NEW S, IsFiniteSet(S)
    PROVE  \E g : Ordering(S, g, Cardinality(S)) /\ Announce!InAnyOrder(S) = g[S]
<1> DEFINE iter == CHOOSE g : g = [s \in SUBSET S |-> Longer(g, s)]
<1>1. PICK g : Ordering(S, g, Cardinality(S))
  BY OrderingExists, FS_CardinalityType
<1>2. \A s \in SUBSET S : g[s] = Longer(g, s)
  BY <1>1, FS_Subset DEF Ordering
<1> DEFINE f == [s \in SUBSET S |-> g[s]]
<1>3. \A s \in SUBSET S : Longer(f, s) = Longer(g, s)
  <2> SUFFICES ASSUME NEW s \in SUBSET S PROVE Longer(f, s) = Longer(g, s)
    OBVIOUS
  <2>1. CASE s = {}
    BY <2>1 DEF Longer
  <2>2. CASE s # {}
    <3>1. s \ {Any(s)} \in SUBSET S
      OBVIOUS
    <3>2. f[s \ {Any(s)}] = g[s \ {Any(s)}]
      BY <3>1
    <3> HIDE DEF f
    <3> QED
      BY <2>2, <3>2 DEF Longer
  <2> QED
    BY <2>1, <2>2
<1>4. f = [s \in SUBSET S |-> Longer(f, s)]
  BY <1>2, <1>3
<1> HIDE DEF f
<1>5. \E e : e = [s \in SUBSET S |-> Longer(e, s)]
  BY <1>4
<1>6. iter = [s \in SUBSET S |-> Longer(iter, s)]
  BY <1>5
<1>7. Ordering(S, iter, Cardinality(S))
  <2> HIDE DEF iter
  <2> QED
    BY <1>6 DEF Ordering
<1>8. Announce!InAnyOrder(S) = iter[S]
  BY DEF Announce!InAnyOrder, Announce!FoldSet, Announce!MapThenFoldSet, Longer, Any
<1> HIDE DEF iter
<1> QED
  BY <1>7, <1>8

\* Whatever the order, nothing is left out and nothing comes in.
LEMMA InAnyOrderProperties ==
    ASSUME NEW S, IsFiniteSet(S)
    PROVE  /\ Announce!InAnyOrder(S) \in Seq(S)
           /\ \A x \in S : \E i \in DOMAIN Announce!InAnyOrder(S) :
                  Announce!InAnyOrder(S)[i] = x
<1>1. PICK g : Ordering(S, g, Cardinality(S)) /\ Announce!InAnyOrder(S) = g[S]
  BY InAnyOrderIs
<1>2. \A s \in SUBSET S : g[s] = Longer(g, s)
  BY <1>1, FS_Subset DEF Ordering
<1> DEFINE Good(s) == g[s] \in Seq(s) /\ \A x \in s : \E i \in DOMAIN g[s] : g[s][i] = x
           Sizes == {n \in Nat : \E s \in SUBSET S : Cardinality(s) = n /\ ~Good(s)}
<1>3. SUFFICES ASSUME NEW t \in SUBSET S, ~Good(t) PROVE FALSE
  <2>1. S \in SUBSET S
    OBVIOUS
  <2>2. Good(S)
    BY <1>3, <2>1
  <2> QED
    BY <1>1, <2>2
<1>4. Cardinality(t) \in Sizes
  BY <1>3, SmallerSubset
<1>5. PICK n \in Sizes : \A m \in Sizes : n <= m
  BY <1>4, Smallest
<1>6. PICK s \in SUBSET S : Cardinality(s) = n /\ ~Good(s)
  OBVIOUS
<1>7. CASE s = {}
  <2>1. g[s] = <<>>
    BY <1>2, <1>7 DEF Longer
  <2> QED
    BY <1>6, <1>7, <2>1
<1>8. CASE s # {}
  <2> DEFINE x == Any(s)
             r == s \ {x}
  <2>1. /\ x \in s /\ r \in SUBSET S /\ Cardinality(r) = Cardinality(s) - 1
        /\ Cardinality(s) \in Nat /\ Cardinality(r) \in Nat
    BY <1>8, SmallerSubset
  <2>2. g[s] = Append(g[r], x)
    BY <1>2, <1>8 DEF Longer
  <2> HIDE DEF x
  <2>3. Good(r)
    <3>1. Cardinality(r) \notin Sizes
      <4>1. ~(n <= Cardinality(r))
        BY <1>6, <2>1
      <4> HIDE DEF Sizes
      <4> QED
        BY <1>5, <4>1
    <3> QED
      BY <2>1, <3>1
  <2>4. g[r] \in Seq(s)
    <3>1. r \subseteq s
      OBVIOUS
    <3> QED
      BY <2>3, <3>1, SeqMonotonic
  <2> DEFINE q == g[r]
  <2>5. /\ Append(q, x) \in Seq(s) /\ Len(q) \in Nat
        /\ Len(Append(q, x)) = Len(q) + 1
        /\ \A i \in 1..Len(q) : Append(q, x)[i] = q[i]
        /\ Append(q, x)[Len(q) + 1] = x
    <3> HIDE DEF q
    <3>1. q \in Seq(s)
      BY <2>4 DEF q
    <3> QED
      BY <2>1, <3>1, AppendProperties
  <2>6. DOMAIN g[s] = 1..(Len(q) + 1) /\ DOMAIN q = 1..Len(q)
    BY <2>2, <2>4, <2>5
  <2>7. \A y \in r : \E i \in DOMAIN q : q[i] = y
    BY <2>3
  <2> HIDE DEF q, r
  <2>8. g[s] = Append(q, x) /\ \A y \in s : y = x \/ y \in r
    BY <2>2 DEF q, r
  <2>9. ASSUME NEW y \in s PROVE \E i \in DOMAIN g[s] : g[s][i] = y
    <3>1. CASE y = x
      BY <2>5, <2>6, <2>8, <3>1
    <3>2. CASE y \in r
      <4>1. PICK i \in DOMAIN q : q[i] = y
        BY <2>7, <3>2
      <4> QED
        BY <2>5, <2>6, <2>8, <4>1
    <3> QED
      BY <2>8, <3>1, <3>2
  <2> QED
    BY <1>6, <2>5, <2>8, <2>9
<1> QED
  BY <1>7, <1>8

-----------------------------------------------------------------------------
\* Discovery.  The inductive invariant: what the two properties say, and the types, with
\* the devices that are new counted among those there are.
DiscoveryInv ==
    /\ Announce!TypeOK /\ newDevices <= Cardinality(devices)
    /\ LaunchIsDue /\ AllAnnounced

IsIn(entity, queue) == \E i \in DOMAIN queue : queue[i] = entity

\* A set of documents that is enqueued: whole, after what is there, or not at all.
LEMMA EnqueuedWhole ==
    ASSUME NEW docs \in SUBSET Announce!Documents, IsFiniteSet(docs),
           jsonQueue \in Seq(Announce!Documents), queueLength \in Int,
           Announce!DiscoveryAssumption
    PROVE  LET queue == Announce!EnqueueAll(Announce!InAnyOrder(docs))
           IN  /\ queue \in Seq(Announce!Documents)
               /\ \A e : IsIn(e, jsonQueue) => IsIn(e, queue)
               /\ queueLength < QueueSize => \A e \in docs : IsIn(e, queue)
<1> DEFINE s == Announce!InAnyOrder(docs)
           queue == jsonQueue \o s
<1>1. s \in Seq(docs) /\ \A e \in docs : IsIn(e, s)
  BY InAnyOrderProperties DEF IsIn
<1>2. s \in Seq(Announce!Documents)
  BY <1>1, SeqMonotonic
<1> HIDE DEF s
<1>3. /\ queue \in Seq(Announce!Documents) /\ Len(queue) = Len(jsonQueue) + Len(s)
      /\ \A i \in 1..(Len(jsonQueue) + Len(s)) :
             queue[i] = IF i <= Len(jsonQueue) THEN jsonQueue[i] ELSE s[i - Len(jsonQueue)]
      /\ DOMAIN jsonQueue = 1..Len(jsonQueue) /\ DOMAIN s = 1..Len(s)
      /\ DOMAIN queue = 1..Len(queue)
      /\ Len(jsonQueue) \in Nat /\ Len(s) \in Nat
  BY <1>2, ConcatProperties
<1> HIDE DEF queue
<1>4. ASSUME NEW e, IsIn(e, jsonQueue) PROVE IsIn(e, queue)
  <2>1. PICK i \in DOMAIN jsonQueue : jsonQueue[i] = e
    BY <1>4 DEF IsIn
  <2>2. i \in DOMAIN queue /\ queue[i] = e
    BY <1>3, <2>1
  <2> QED
    BY <2>2 DEF IsIn
<1>5. ASSUME NEW e, IsIn(e, s) PROVE IsIn(e, queue)
  <2>1. PICK i \in DOMAIN s : s[i] = e
    BY <1>5 DEF IsIn
  <2>2. Len(jsonQueue) + i \in DOMAIN queue /\ queue[Len(jsonQueue) + i] = e
    BY <1>3, <2>1
  <2> QED
    BY <2>2 DEF IsIn
<1>6. CASE queueLength >= QueueSize
  <2>1. Announce!EnqueueAll(s) = jsonQueue
    BY <1>6 DEF Announce!EnqueueAll
  <2>2. ~(queueLength < QueueSize)
    BY <1>6 DEF Announce!DiscoveryAssumption
  <2> QED
    BY <2>1, <2>2 DEF s
<1>7. CASE ~(queueLength >= QueueSize)
  <2>1. Announce!EnqueueAll(s) = queue
    BY <1>7 DEF Announce!EnqueueAll, queue
  <2> QED
    BY <1>1, <1>3, <1>4, <1>5, <2>1 DEF s
<1> QED
  BY <1>6, <1>7

LEMMA SameFinite ==
    ASSUME NEW S
    PROVE  /\ Announce!IsFiniteSet(S) <=> IsFiniteSet(S)
           /\ Announce!Cardinality(S) = Cardinality(S)
BY DEF Announce!IsFiniteSet, IsFiniteSet, Announce!Cardinality, Cardinality

\* The devices a launch walks are devices there are, and no more of them than keys.
LEMMA DevicesAre ==
    ASSUME Announce!DiscoveryAssumption, Announce!TypeOK
    PROVE  /\ devices \subseteq Keys /\ IsFiniteSet(devices)
           /\ Cardinality(devices) \in Nat /\ Cardinality(devices) <= Cardinality(Keys)
           /\ Cardinality(Keys) \in Nat
           /\ devices # Announce!NoLaunch
           /\ ~Announce!LoopIsFree => localDevices \subseteq devices
           /\ newDevices \in Nat
<1>1. devices \subseteq Keys /\ IsFiniteSet(Keys)
  BY SameFinite DEF Announce!DiscoveryAssumption, Announce!TypeOK
<1>2. /\ IsFiniteSet(devices) /\ Cardinality(devices) \in Nat
      /\ Cardinality(devices) <= Cardinality(Keys) /\ Cardinality(Keys) \in Nat
  BY <1>1, FS_Subset, FS_CardinalityType
<1>3. devices # Announce!NoLaunch
  BY <1>1 DEF Announce!DiscoveryAssumption, Announce!NoLaunch
<1>4. newDevices \in Nat
  BY <1>2, SameFinite DEF Announce!TypeOK
<1> QED
  BY <1>1, <1>2, <1>3, <1>4 DEF Announce!TypeOK


LEMMA DiscoveryInit ==
    ASSUME Announce!DiscoveryAssumption, Announce!Init
    PROVE  DiscoveryInv
<1>1. Announce!TypeOK /\ newDevices <= Cardinality(devices)
  <2>1. Cardinality({}) = 0 /\ Cardinality(Keys) \in Nat
    BY SameFinite, FS_EmptySet, FS_CardinalityType DEF Announce!DiscoveryAssumption
  <2>2. jsonQueue \in Seq(Announce!Documents)
    BY DEF Announce!Init
  <2>3. newDevices \in 0..Announce!Cardinality(Keys) /\ newDevices <= Cardinality(devices)
    BY <2>1, SameFinite DEF Announce!Init
  <2>4. /\ queueLength \in Nat \cup {-1} /\ isDisc \subseteq devices /\ devices \subseteq Keys
        /\ Announce!LoopIsFree /\ inputs \in 0..MaxInputs
    BY DEF Announce!Init, Announce!LoopIsFree, Announce!DiscoveryAssumption
  <2>5. {connected, connectedOnce, SYSdiscovery, overrideDiscovery, whole} \subseteq BOOLEAN
    BY DEF Announce!Init
  <2> QED
    BY <2>2, <2>3, <2>4, <2>5 DEF Announce!TypeOK
<1>2. LaunchIsDue
  BY DEF Announce!Init, LaunchIsDue, Announce!LaunchIsDue
<1>3. AllAnnounced
  BY DEF Announce!Init, AllAnnounced, Announce!AllAnnounced
<1> QED
  BY <1>1, <1>2, <1>3 DEF DiscoveryInv

\* pubMqttDiscovery: with the queue admitting it, all that is announced is in the queue.
LEMMA PublishedWhole ==
    ASSUME Announce!DiscoveryAssumption, DiscoveryInv, Announce!pubMqttDiscovery,
           connected' \in BOOLEAN
    PROVE  /\ jsonQueue' \in Seq(Announce!Documents) /\ whole' \in BOOLEAN
           /\ AllAnnounced'
<1>1. /\ Announce!Entities \in SUBSET Announce!Documents /\ IsFiniteSet(Announce!Entities)
      /\ jsonQueue \in Seq(Announce!Documents) /\ queueLength \in Int
  BY AllEntitiesAnnounced DEF Announced, Announce!Documents, DiscoveryInv, Announce!TypeOK
<1>2. /\ jsonQueue' = Announce!EnqueueAll(Announce!InAnyOrder(Announce!Entities))
      /\ retained' = retained \ Announce!obsoleteEntities
      /\ whole' = (queueLength < QueueSize /\ connected')
  BY DEF Announce!pubMqttDiscovery
<1>3. /\ jsonQueue' \in Seq(Announce!Documents)
      /\ queueLength < QueueSize => \A e \in Announce!Entities : IsIn(e, jsonQueue')
  BY <1>1, <1>2, EnqueuedWhole
<1>4. whole' => \A e \in Announce!Entities : IsIn(e, jsonQueue')
  BY <1>2, <1>3
<1>5. AllAnnounced'
  BY <1>2, <1>4 DEF AllAnnounced, Announce!AllAnnounced, Announce!InQueue, IsIn
<1> QED
  BY <1>2, <1>3, <1>5

\* The queue grows, and nothing else is said of what has been announced.
LEMMA QueueGrows ==
    ASSUME AllAnnounced, \A e : IsIn(e, jsonQueue) => IsIn(e, jsonQueue'),
           UNCHANGED <<retained, whole>>
    PROVE  AllAnnounced'
BY DEF AllAnnounced, Announce!AllAnnounced, Announce!InQueue, IsIn

\* A step that leaves the devices and the launches alone.
LEMMA LaunchKept ==
    ASSUME DiscoveryInv, UNCHANGED <<devices, isDisc, newDevices, localDevices>>
    PROVE  /\ LaunchIsDue' /\ newDevices' <= Cardinality(devices')
           /\ isDisc' \subseteq devices' /\ devices' \subseteq Keys
           /\ newDevices' \in 0..Announce!Cardinality(Keys)
           /\ Announce!LoopIsFree' \/ localDevices' \subseteq devices'
BY DEF DiscoveryInv, LaunchIsDue, Announce!LaunchIsDue, Announce!TypeOK, Announce!LoopIsFree

LEMMA ConnectsHolds ==
    ASSUME Announce!DiscoveryAssumption, DiscoveryInv, Announce!Connects
    PROVE  DiscoveryInv'
<1>1. /\ connected' = TRUE /\ connectedOnce' = TRUE
      /\ UNCHANGED <<queueLength, SYSdiscovery, devices, isDisc, inputs>>
  BY DEF Announce!Connects
<1>2. CASE SYSdiscovery /\ (~connectedOnce \/ discovery_republish_on_reconnect)
  <2>1. /\ Announce!pubMqttDiscovery
        /\ localDevices' = devices /\ overrideDiscovery' = TRUE /\ newDevices' = 0
    BY <1>2 DEF Announce!Connects
  <2>2. connected' \in BOOLEAN
    BY <1>1
  <2>3. jsonQueue' \in Seq(Announce!Documents) /\ whole' \in BOOLEAN /\ AllAnnounced'
    BY <2>1, <2>2, PublishedWhole
  <2>4. /\ newDevices' \in 0..Announce!Cardinality(Keys) /\ newDevices' <= Cardinality(devices')
        /\ localDevices' \subseteq devices'
    BY <1>1, <2>1, DevicesAre, SameFinite DEF DiscoveryInv
  <2>5. LaunchIsDue'
    BY <1>1, <2>1, DevicesAre DEF LaunchIsDue, Announce!LaunchIsDue, DiscoveryInv
  <2>6. /\ queueLength' \in Nat \cup {-1} /\ inputs' \in 0..MaxInputs
        /\ isDisc' \subseteq devices' /\ devices' \subseteq Keys
    BY <1>1 DEF DiscoveryInv, Announce!TypeOK
  <2>7. {connected', connectedOnce', SYSdiscovery', overrideDiscovery'} \subseteq BOOLEAN
    BY <1>1, <2>1, Zenon DEF DiscoveryInv, Announce!TypeOK
  <2>8. Announce!TypeOK'
    BY <2>3, <2>4, <2>6, <2>7 DEF Announce!TypeOK
  <2> QED
    BY <2>3, <2>4, <2>5, <2>8 DEF DiscoveryInv
<1>3. CASE ~(SYSdiscovery /\ (~connectedOnce \/ discovery_republish_on_reconnect))
  <2>1. UNCHANGED <<jsonQueue, retained, whole, localDevices, overrideDiscovery, newDevices>>
    BY <1>3 DEF Announce!Connects
  <2>2. LaunchIsDue' /\ newDevices' <= Cardinality(devices')
    BY <1>1, <2>1, LaunchKept
  <2>3. AllAnnounced'
    BY <2>1, QueueGrows DEF DiscoveryInv
  <2>4. Announce!TypeOK'
    BY <1>1, <2>1 DEF DiscoveryInv, Announce!TypeOK, Announce!LoopIsFree
  <2> QED
    BY <2>2, <2>3, <2>4 DEF DiscoveryInv
<1> QED
  BY <1>2, <1>3

\* Commands, and losses of the broker.
LEMMA InputHolds ==
    ASSUME Announce!DiscoveryAssumption, DiscoveryInv,
           \/ Announce!Disconnects \/ Announce!AutoOff
           \/ \E disc \in BOOLEAN : Announce!XtoSYSdisc(disc)
    PROVE  DiscoveryInv'
<1>1. CASE Announce!Disconnects
  <2>1. UNCHANGED <<jsonQueue, queueLength, connectedOnce, SYSdiscovery, devices, isDisc,
                    newDevices, localDevices, overrideDiscovery, retained, whole>>
    BY <1>1 DEF Announce!Disconnects
  <2>2. connected' \in BOOLEAN /\ inputs' \in 0..MaxInputs
    <3>1. connected' \in BOOLEAN
      BY <1>1 DEF Announce!Disconnects
    <3>2. inputs < MaxInputs /\ inputs' = inputs + 1
      BY <1>1 DEF Announce!Disconnects
    <3>3. inputs' \in 0..MaxInputs
      BY <3>2 DEF DiscoveryInv, Announce!TypeOK, Announce!DiscoveryAssumption
    <3> QED
      BY <3>1, <3>3
  <2>3. Announce!TypeOK'
    BY <2>1, <2>2 DEF DiscoveryInv, Announce!TypeOK, Announce!LoopIsFree
  <2>4. LaunchIsDue' /\ newDevices' <= Cardinality(devices')
    BY <2>1, LaunchKept
  <2>5. AllAnnounced'
    BY <2>1, QueueGrows DEF DiscoveryInv
  <2> QED
    BY <2>3, <2>4, <2>5 DEF DiscoveryInv
<1>2. CASE Announce!AutoOff
  <2>1. UNCHANGED <<jsonQueue, queueLength, connected, connectedOnce, devices, isDisc,
                    newDevices, localDevices, overrideDiscovery, retained, inputs, whole>>
    BY <1>2 DEF Announce!AutoOff
  <2>2. SYSdiscovery' \in BOOLEAN
    BY <1>2 DEF Announce!AutoOff
  <2>3. Announce!TypeOK'
    BY <2>1, <2>2 DEF DiscoveryInv, Announce!TypeOK, Announce!LoopIsFree
  <2>4. LaunchIsDue' /\ newDevices' <= Cardinality(devices')
    BY <2>1, LaunchKept
  <2>5. AllAnnounced'
    BY <2>1, QueueGrows DEF DiscoveryInv
  <2> QED
    BY <2>3, <2>4, <2>5 DEF DiscoveryInv
<1>3. ASSUME NEW disc \in BOOLEAN, Announce!XtoSYSdisc(disc)
      PROVE  DiscoveryInv'
  <2>1. /\ UNCHANGED <<queueLength, connected, connectedOnce, devices, isDisc, newDevices,
                       localDevices, overrideDiscovery>>
        /\ SYSdiscovery' = disc
    BY <1>3 DEF Announce!XtoSYSdisc
  <2>2. inputs' \in 0..MaxInputs
    BY <1>3 DEF Announce!XtoSYSdisc, DiscoveryInv, Announce!TypeOK, Announce!DiscoveryAssumption
  <2>3. LaunchIsDue' /\ newDevices' <= Cardinality(devices')
    BY <2>1, LaunchKept
  <2>4. connected' \in BOOLEAN
    BY <2>1 DEF DiscoveryInv, Announce!TypeOK
  <2>5. jsonQueue' \in Seq(Announce!Documents) /\ whole' \in BOOLEAN /\ AllAnnounced'
    <3>1. CASE disc
      BY <1>3, <2>4, <3>1, PublishedWhole DEF Announce!XtoSYSdisc
    <3>2. CASE ~disc
      <4>1. UNCHANGED <<jsonQueue, retained, whole>>
        BY <1>3, <3>2 DEF Announce!XtoSYSdisc
      <4> QED
        BY <4>1, QueueGrows DEF DiscoveryInv, Announce!TypeOK
    <3> QED
      BY <3>1, <3>2
  <2>6. Announce!TypeOK'
    <3>1. /\ SYSdiscovery' \in BOOLEAN
          /\ queueLength' \in Nat \cup {-1} /\ connectedOnce' \in BOOLEAN
          /\ overrideDiscovery' \in BOOLEAN
      BY <2>1 DEF DiscoveryInv, Announce!TypeOK
    <3> QED
      BY <2>1, <2>2, <2>4, <2>5, <3>1, LaunchKept DEF Announce!TypeOK
  <2> QED
    BY <2>3, <2>5, <2>6 DEF DiscoveryInv
<1> QED
  BY <1>1, <1>2, <1>3

LEMMA DeviceHolds ==
    ASSUME Announce!DiscoveryAssumption, DiscoveryInv,
           NEW k \in Keys, Announce!createOrUpdateDevice(k)
    PROVE  DiscoveryInv'
<1>1. /\ k \notin devices /\ devices' = devices \cup {k} /\ newDevices' = newDevices + 1
      /\ UNCHANGED <<jsonQueue, queueLength, connected, connectedOnce, SYSdiscovery, isDisc,
                     localDevices, overrideDiscovery, retained, inputs, whole>>
  BY DEF Announce!createOrUpdateDevice
<1>2. /\ IsFiniteSet(devices) /\ Cardinality(devices) \in Nat /\ newDevices \in Nat
      /\ newDevices <= Cardinality(devices) /\ devices \subseteq Keys
  BY DevicesAre DEF DiscoveryInv
<1>3. devices' \subseteq Keys /\ IsFiniteSet(Keys)
  BY <1>1, <1>2, SameFinite DEF Announce!DiscoveryAssumption
<1>4. /\ Cardinality(devices') = Cardinality(devices) + 1
      /\ Cardinality(devices') <= Cardinality(Keys) /\ Cardinality(Keys) \in Nat
  BY <1>1, <1>2, <1>3, FS_AddElement, FS_Subset, FS_CardinalityType
<1>5. newDevices' \in 0..Announce!Cardinality(Keys) /\ newDevices' <= Cardinality(devices')
  BY <1>1, <1>2, <1>4, SameFinite
<1>6. LaunchIsDue'
  BY <1>1, <1>2 DEF LaunchIsDue, Announce!LaunchIsDue
<1>7. AllAnnounced'
  BY <1>1, QueueGrows DEF DiscoveryInv
<1>8. Announce!TypeOK'
  BY <1>1, <1>3, <1>5 DEF DiscoveryInv, Announce!TypeOK, Announce!LoopIsFree
<1> QED
  BY <1>5, <1>6, <1>7, <1>8 DEF DiscoveryInv

LEMMA LaunchHolds ==
    ASSUME Announce!DiscoveryAssumption, DiscoveryInv,
           Announce!LaunchBegins \/ Announce!LaunchEnds
    PROVE  DiscoveryInv'
<1>1. CASE Announce!LaunchBegins
  <2>1. /\ localDevices' = devices /\ overrideDiscovery' = FALSE /\ newDevices' = 0
        /\ UNCHANGED <<jsonQueue, queueLength, connected, connectedOnce, SYSdiscovery, devices,
                       isDisc, retained, inputs, whole>>
    BY <1>1 DEF Announce!LaunchBegins
  <2>2. newDevices' \in 0..Announce!Cardinality(Keys) /\ newDevices' <= Cardinality(devices')
    BY <2>1, DevicesAre, SameFinite DEF DiscoveryInv
  <2>3. LaunchIsDue'
    BY <2>1, DevicesAre DEF LaunchIsDue, Announce!LaunchIsDue, DiscoveryInv
  <2>4. AllAnnounced'
    BY <2>1, QueueGrows DEF DiscoveryInv
  <2>5. overrideDiscovery' \in BOOLEAN
    BY <2>1
  <2>6. Announce!TypeOK'
    BY <2>1, <2>2, <2>5 DEF DiscoveryInv, Announce!TypeOK
  <2> QED
    BY <2>2, <2>3, <2>4, <2>6 DEF DiscoveryInv
<1>2. CASE Announce!LaunchEnds
  <2> DEFINE docs == {Announce!DeviceTopic(k) : k \in Announce!LaunchTargets}
  <2>1. /\ ~Announce!LoopIsFree /\ jsonQueue' = Announce!EnqueueAll(Announce!InAnyOrder(docs))
        /\ isDisc' = isDisc \cup localDevices /\ localDevices' = Announce!NoLaunch
        /\ UNCHANGED <<queueLength, connected, connectedOnce, SYSdiscovery, devices, newDevices,
                       overrideDiscovery, retained, inputs, whole>>
    BY <1>2 DEF Announce!LaunchEnds
  <2>2. /\ localDevices \subseteq devices /\ devices \subseteq Keys /\ IsFiniteSet(devices)
        /\ newDevices \in Nat
    BY <2>1, DevicesAre DEF DiscoveryInv
  <2>3. docs \in SUBSET Announce!Documents /\ IsFiniteSet(docs)
    <3> DEFINE f == [k \in Announce!LaunchTargets |-> Announce!DeviceTopic(k)]
    <3>1. Announce!LaunchTargets \subseteq devices
      BY <2>2 DEF Announce!LaunchTargets
    <3>2. IsFiniteSet(Announce!LaunchTargets)
      BY <2>2, <3>1, FS_Subset
    <3>3. f \in Surjection(Announce!LaunchTargets, docs)
      BY DEF Surjection
    <3>4. docs \subseteq Announce!Documents
      BY <2>2, <3>1 DEF Announce!Documents
    <3> QED
      BY <3>2, <3>3, <3>4, FS_Surjection
  <2> HIDE DEF docs
  <2>4. /\ jsonQueue' \in Seq(Announce!Documents)
        /\ \A e : IsIn(e, jsonQueue) => IsIn(e, jsonQueue')
    <3>1. jsonQueue \in Seq(Announce!Documents) /\ queueLength \in Int
      BY DEF DiscoveryInv, Announce!TypeOK
    <3> QED
      BY <2>1, <2>3, <3>1, EnqueuedWhole
  <2>5. AllAnnounced'
    BY <2>1, <2>4, QueueGrows DEF DiscoveryInv
  <2>6. LaunchIsDue'
    BY <2>1, <2>2 DEF DiscoveryInv, LaunchIsDue, Announce!LaunchIsDue
  <2>7. Announce!TypeOK'
    BY <2>1, <2>2, <2>4 DEF DiscoveryInv, Announce!TypeOK, Announce!LoopIsFree
  <2>8. newDevices' <= Cardinality(devices')
    BY <2>1 DEF DiscoveryInv
  <2> QED
    BY <2>5, <2>6, <2>7, <2>8 DEF DiscoveryInv
<1> QED
  BY <1>1, <1>2

\* A turn of the loop ends.  The broker takes the document, or it is lost, and then the
\* announcement is not whole any more if the document was part of it.
LEMMA TurnEnds ==
    ASSUME Announce!DiscoveryAssumption, DiscoveryInv, Announce!emptyQueue
    PROVE  DiscoveryInv'
<1>1. /\ queueLength' = Len(jsonQueue)
      /\ UNCHANGED <<connected, connectedOnce, SYSdiscovery, devices, isDisc, newDevices,
                     localDevices, overrideDiscovery, inputs>>
  BY DEF Announce!emptyQueue
<1>2. jsonQueue \in Seq(Announce!Documents) /\ Len(jsonQueue) \in Nat
  BY DEF DiscoveryInv, Announce!TypeOK
<1>3. LaunchIsDue' /\ newDevices' <= Cardinality(devices')
  BY <1>1, LaunchKept
<1>4. jsonQueue' \in Seq(Announce!Documents) /\ whole' \in BOOLEAN /\ AllAnnounced'
  <2>1. CASE jsonQueue = <<>>
    <3>1. UNCHANGED <<jsonQueue, retained, whole>>
      BY <2>1 DEF Announce!emptyQueue
    <3> QED
      BY <3>1, QueueGrows DEF DiscoveryInv, Announce!TypeOK
  <2>2. CASE jsonQueue # <<>>
    <3> DEFINE h == Head(jsonQueue)
    <3>1. /\ jsonQueue' = Tail(jsonQueue)
          /\ retained' = IF connected /\ h # Announce!Other
                         THEN retained \cup {h} ELSE retained
          /\ whole' = (whole /\ (connected \/ h \notin Announce!Entities))
      BY <2>2 DEF Announce!emptyQueue
    <3>2. /\ h \in Announce!Documents /\ Tail(jsonQueue) \in Seq(Announce!Documents)
          /\ h = jsonQueue[1]
          /\ Len(Tail(jsonQueue)) = Len(jsonQueue) - 1 /\ Len(jsonQueue) > 0
          /\ \A i \in 1..(Len(jsonQueue) - 1) : Tail(jsonQueue)[i] = jsonQueue[i + 1]
      BY <1>2, <2>2
    <3> HIDE DEF h
    <3>3. ASSUME NEW e, IsIn(e, jsonQueue) PROVE e = h \/ IsIn(e, jsonQueue')
      <4>1. PICK i \in 1..Len(jsonQueue) : jsonQueue[i] = e
        BY <1>2, <3>3 DEF IsIn
      <4>2. CASE i = 1
        BY <3>2, <4>1, <4>2
      <4>3. CASE i # 1
        <5>1. i - 1 \in 1..(Len(jsonQueue) - 1) /\ jsonQueue'[i - 1] = e
          BY <1>2, <3>1, <3>2, <4>1, <4>3
        <5>2. i - 1 \in DOMAIN jsonQueue'
          BY <3>1, <3>2, <5>1
        <5> QED
          BY <5>1, <5>2 DEF IsIn
      <4> QED
        BY <4>2, <4>3
    <3>4. ASSUME whole'
          PROVE  /\ \A e \in Announce!Entities : e \in retained' \/ IsIn(e, jsonQueue')
                 /\ retained' \cap (Announce!obsoleteEntities \ Announce!Entities) = {}
      <4>1. /\ whole /\ (connected \/ h \notin Announce!Entities)
            /\ \A e \in Announce!Entities : e \in retained \/ IsIn(e, jsonQueue)
            /\ retained \cap (Announce!obsoleteEntities \ Announce!Entities) = {}
        BY <3>1, <3>4 DEF DiscoveryInv, AllAnnounced, Announce!AllAnnounced, Announce!InQueue, IsIn
      <4>2. ASSUME NEW e \in Announce!Entities PROVE e \in retained' \/ IsIn(e, jsonQueue')
        <5>1. e # Announce!Other
          BY AllEntitiesAnnounced DEF Announced
        <5> QED
          BY <3>1, <3>3, <4>1, <5>1
      <4>3. h = Announce!Other \/ h \notin Announce!obsoleteEntities \ Announce!Entities
        BY <3>2 DEF Announce!Documents, Announce!DiscoveryAssumption
      <4> QED
        BY <3>1, <4>1, <4>2, <4>3
    <3>5. AllAnnounced'
      BY <3>4 DEF AllAnnounced, Announce!AllAnnounced, Announce!InQueue, IsIn
    <3>6. whole' \in BOOLEAN
      BY <3>1
    <3> QED
      BY <3>1, <3>2, <3>5, <3>6
  <2> QED
    BY <2>1, <2>2
<1>5. Announce!TypeOK'
  <2>1. queueLength' \in Nat \cup {-1}
    BY <1>1, <1>2
  <2> QED
    BY <1>1, <1>4, <2>1, LaunchKept DEF DiscoveryInv, Announce!TypeOK
<1> QED
  BY <1>3, <1>4, <1>5 DEF DiscoveryInv

LEMMA DiscoveryStep ==
    ASSUME Announce!DiscoveryAssumption, DiscoveryInv,
           [Announce!Next]_(Announce!discoveryVars)
    PROVE  DiscoveryInv'
<1>1. CASE Announce!Enqueue
  <2>1. /\ jsonQueue' = Append(jsonQueue, Announce!Other)
        /\ UNCHANGED <<queueLength, connected, connectedOnce, SYSdiscovery, devices, isDisc,
                       newDevices, localDevices, overrideDiscovery, retained, inputs, whole>>
    BY <1>1 DEF Announce!Enqueue
  <2>2. jsonQueue \in Seq(Announce!Documents) /\ Announce!Other \in Announce!Documents
    BY DEF DiscoveryInv, Announce!TypeOK, Announce!Documents
  <2>3. jsonQueue' \in Seq(Announce!Documents)
    BY <2>1, <2>2
  <2>4. ASSUME NEW e, IsIn(e, jsonQueue) PROVE IsIn(e, jsonQueue')
    <3>1. PICK i \in DOMAIN jsonQueue : jsonQueue[i] = e
      BY <2>4 DEF IsIn
    <3>2. i \in DOMAIN jsonQueue' /\ jsonQueue'[i] = e
      BY <2>1, <2>2, <3>1
    <3> QED
      BY <3>2 DEF IsIn
  <2>5. AllAnnounced'
    BY <2>1, <2>4, QueueGrows DEF DiscoveryInv
  <2>6. LaunchIsDue' /\ newDevices' <= Cardinality(devices')
    BY <2>1, LaunchKept
  <2>7. Announce!TypeOK'
    BY <2>1, <2>3 DEF DiscoveryInv, Announce!TypeOK, Announce!LoopIsFree
  <2> QED
    BY <2>5, <2>6, <2>7 DEF DiscoveryInv
<1>2. CASE UNCHANGED Announce!discoveryVars
  BY <1>2 DEF Announce!discoveryVars, DiscoveryInv, Announce!TypeOK, Announce!LoopIsFree,
         LaunchIsDue, Announce!LaunchIsDue, AllAnnounced, Announce!AllAnnounced, Announce!InQueue
<1> QED
  BY <1>1, <1>2, ConnectsHolds, InputHolds, DeviceHolds, LaunchHolds, TurnEnds DEF Announce!Next

\* Whatever the length of the queue, an announcement is taken whole or not at all, and a
\* device heard while a launch walks the table is not forgotten (mqttDiscovery.cpp
\* 718-1162, gatewayRTL_433.cpp 77-128).
THEOREM DiscoveryHolds ==
    ASSUME Announce!DiscoveryAssumption
    PROVE  Announce!Spec => [](Announce!TypeOK /\ LaunchIsDue /\ AllAnnounced)
<1>1. DiscoveryInv => Announce!TypeOK /\ LaunchIsDue /\ AllAnnounced
  BY DEF DiscoveryInv
<1> QED
  BY <1>1, DiscoveryInit, DiscoveryStep, PTL DEF Announce!Spec

-----------------------------------------------------------------------------
\* The composition.  What the theorems need of the constants, beside what Reception
\* assumes: receivers that can be selected, and scan intervals the code does not refuse.
ReceptionHypotheses == Selected /\ LifeProofs!LongEnough

\* Every variable of every component has its type.
THEOREM TypesCorrect ==
    ASSUME ReceptionHypotheses
    PROVE  ReceptionSpec => []TypesOK
<1>1. Spec => []TypeOK
  BY TypeCorrect
<1>2. Table!Spec => []Table!TypeOK
  <2>1. TableProofs!Spec => []TableProofs!TypeOK
    BY ReceptionConstants, SameTableConstants, TableProofs!TypeCorrect
  <2> QED
    BY <2>1, SameTableSpec, SameTableTypeOK, PTL
<1>3. Life!Spec => []Life!TypeOK
  <2>1. LifeProofs!Spec => []LifeProofs!TypeOK
    BY ReceptionConstants, SameLifeConstants, LifeProofs!TypeCorrect DEF ReceptionHypotheses
  <2> QED
    BY <2>1, SameLifeSpec, SameLifeTypeOK, PTL
<1>4. Receiver!JsonSpec => [](Receiver!TypeOK /\ ReceiverRestored)
  BY ReceptionConstants, ReceiverListensAgain DEF ReceptionHypotheses
<1>5. Serial!Spec => [](Serial!TypeOK /\ SenderNotices)
  BY ReceptionConstants, SerialHolds
<1>6. Announce!Spec => [](Announce!TypeOK /\ LaunchIsDue /\ AllAnnounced)
  BY ReceptionConstants, DiscoveryHolds
<1>7. TypesOK <=> /\ TypeOK /\ Receiver!TypeOK /\ Announce!TypeOK /\ Serial!TypeOK
                  /\ Table!TypeOK /\ Life!TypeOK
  BY DEF TypesOK
<1> QED
  BY <1>1, <1>2, <1>3, <1>4, <1>5, <1>6, <1>7, EachComponent, PTL

\* gatewayRF and its like: whatever is commanded or configured, the active receiver, if it
\* is built in, listens again afterwards, and no other does (commonRF.cpp 126-285).
THEOREM ReceiverIsRestored ==
    ASSUME Selected
    PROVE  ReceptionSpec => []ReceiverRestored
<1>1. Receiver!JsonSpec => [](Receiver!TypeOK /\ ReceiverRestored)
  BY ReceptionConstants, ReceiverListensAgain
<1> QED
  BY <1>1, EachComponent, PTL

\* A receiver without its broker is noticed within the timeout (gatewaySERIAL.cpp 196-245).
THEOREM SenderHasNoticed == ReceptionSpec => []SenderNotices
<1>1. Serial!Spec => [](Serial!TypeOK /\ SenderNotices)
  BY ReceptionConstants, SerialHolds
<1> QED
  BY <1>1, EachComponent, PTL

\* An announcement is taken whole, although longer than the queue (mqttDiscovery.cpp
\* 718-1162, main.cpp 450-464).
THEOREM WholeAnnouncement == ReceptionSpec => []AllAnnounced
<1>1. Announce!Spec => [](Announce!TypeOK /\ LaunchIsDue /\ AllAnnounced)
  BY ReceptionConstants, DiscoveryHolds
<1> QED
  BY <1>1, EachComponent, PTL

\* A device that is heard while a launch runs is announced by the next (gatewayRTL_433.cpp
\* 77-128).
THEOREM LaunchRemembered == ReceptionSpec => []LaunchIsDue
<1>1. Announce!Spec => [](Announce!TypeOK /\ LaunchIsDue /\ AllAnnounced)
  BY ReceptionConstants, DiscoveryHolds
<1> QED
  BY <1>1, EachComponent, PTL

\* createOrUpdateDevice: a MAC has one entry, whichever tasks look for it before they take
\* the semaphore (gatewayBT.cpp 340-445).
THEOREM OneEntryEach == ReceptionSpec => []OneEntryPerMac
<1>1. TableProofs!Spec => []TableProofs!OneEntryPerMac
  BY TableProofs!OneEntry
<1>2. OneEntryPerMac <=> Table!OneEntryPerMac
  BY DEF OneEntryPerMac
<1> QED
  BY <1>1, <1>2, SameTableSpec, SameTableOneEntryPerMac, EachComponent, PTL

\* ... and the table outgrows its maximum only by devices that are white- or blacklisted.
THEOREM ListedOutgrow == ReceptionSpec => []OnlyListedOutgrow
<1>1. TableProofs!Spec => []TableProofs!OnlyListedOutgrow
  BY ReceptionConstants, SameTableConstants, TableProofs!ListedOutgrow
<1>2. OnlyListedOutgrow <=> Table!OnlyListedOutgrow
  BY DEF OnlyListedOutgrow
<1> QED
  BY <1>1, <1>2, SameTableSpec, SameTableOnlyListedOutgrow, EachComponent, PTL

\* BTConfig_fromJson and the adaptive scan: active scans are never more frequent than
\* scans, whoever wrote the intervals last (gatewayBT.cpp 194-250).
THEOREM IntervalsOrdered ==
    ASSUME LifeProofs!LongEnough
    PROVE  ReceptionSpec => []ActiveNotShorter
<1>1. LifeProofs!Spec => []LifeProofs!ActiveNotShorter
  BY ReceptionConstants, SameLifeConstants, LifeProofs!IntervalsOrdered
<1>2. ActiveNotShorter <=> Life!ActiveNotShorter
  BY DEF ActiveNotShorter
<1> QED
  BY <1>1, <1>2, SameLifeSpec, SameLifeActiveNotShorter, EachComponent, PTL

\* ... and a restart loads the configuration that was saved, field by field.
THEOREM SavedIsBack ==
    ASSUME LifeProofs!LongEnough
    PROVE  ReceptionSpec => []SavedIsLoaded
<1>1. LifeProofs!Spec => []LifeProofs!SavedIsLoaded
  BY ReceptionConstants, SameLifeConstants, LifeProofs!SavedIsBack
<1>2. SavedIsLoaded <=> Life!SavedIsLoaded
  BY DEF SavedIsLoaded
<1> QED
  BY <1>1, <1>2, SameLifeSpec, SameLifeSavedIsLoaded, EachComponent, PTL
=============================================================================
