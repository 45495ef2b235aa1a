--------------------------- MODULE PlatformProofs ---------------------------
(***************************************************************************)
(* Theorems about Platform, for every value of its constants but where a   *)
(* hypothesis is named (OnlyOne).                                          *)
(*                                                                         *)
(* A behaviour of the composition is one of each of its components         *)
(* (EachComponent), so that what is proved of a component holds of it.     *)
(* A component has a section of its own: its inductive invariant, the      *)
(* lemmas that it holds at first and that every step keeps it, and, last,  *)
(* that it holds in every behaviour (the lemmas named ...Holds at their    *)
(* ends).  The theorems close the module.                                  *)
(***************************************************************************)
EXTENDS Platform, WellFoundedInduction, SequenceTheorems, TLAPS

\* Whatever the composition does is a behaviour of each component.
THEOREM EachComponent ==
    PlatformSpec => /\ Init /\ [][Next]_vars
                    /\ Actuator!Spec
                    /\ Led!Init /\ [][Led!LedNext]_(Led!ledVars)
                    /\ Light!Spec /\ Sensor!Spec /\ Screen!Spec /\ Console!Spec /\ Forms!Spec
<1>1. PlatformInit => /\ Init /\ Actuator!Init /\ Led!Init /\ Light!Init /\ Sensor!Init
                      /\ Screen!Init /\ Console!Init /\ Forms!Init
  BY DEF PlatformInit
<1> DEFINE Steps == /\ [Next]_vars /\ [Actuator!Next]_(Actuator!vars)
                    /\ [Led!LedNext]_(Led!ledVars) /\ [Light!Next]_(Light!lightVars)
                    /\ [Sensor!Next]_(Sensor!sensorVars)
                    /\ [Screen!Next]_(Screen!displayVars)
                    /\ [Console!Next]_(Console!consoleVars)
                    /\ [Forms!Next]_(Forms!formVars)
<1>2. [PlatformNext]_platformVars => Steps
  <2> USE DEF platformVars, vars, actuator, status, pwm, strip, sensor, display, console,
              forms, Actuator!vars, Led!ledVars, Light!pwmVars, Light!ledVars,
              Light!lightVars, Sensor!sensorVars, Screen!displayVars, Console!consoleVars,
              Forms!formVars
  <2> SUFFICES ASSUME [PlatformNext]_platformVars PROVE Steps
    OBVIOUS
  <2>1. CASE unit = "supervisor" /\ PlatformNext
    BY <2>1 DEF PlatformNext
  <2>2. CASE unit = "actuator" /\ PlatformNext
    BY <2>2 DEF PlatformNext
  <2>3. CASE unit = "led" /\ PlatformNext
    BY <2>3 DEF PlatformNext
  <2>4. CASE unit = "pwm" /\ PlatformNext
    BY <2>4 DEF PlatformNext, Light!Next
  <2>5. CASE unit = "strip" /\ PlatformNext
    BY <2>5 DEF PlatformNext, Light!Next
  <2>6. CASE unit = "sensor" /\ PlatformNext
    BY <2>6 DEF PlatformNext
  <2>7. CASE unit = "display" /\ PlatformNext
    BY <2>7 DEF PlatformNext
  <2>8. CASE unit = "console" /\ PlatformNext
    BY <2>8 DEF PlatformNext
  <2>9. CASE unit = "forms" /\ PlatformNext
    BY <2>9 DEF PlatformNext
  <2>10. CASE UNCHANGED platformVars
    BY <2>10
  <2> QED
    BY <2>1, <2>2, <2>3, <2>4, <2>5, <2>6, <2>7, <2>8, <2>9, <2>10 DEF PlatformNext
<1> QED
  BY <1>1, <1>2, PTL DEF PlatformSpec, Actuator!Spec, Light!Spec, Sensor!Spec, Screen!Spec,
                         Console!Spec, Forms!Spec

-----------------------------------------------------------------------------
\* Supervisor.  A gateway that is connected is unlocked unless its client is about to be
\* set up: the lock that a failed connection, a restart or a portal leaves goes when the
\* client is prepared.

\* The types of the flags, and of the other variables.
SupervisorFlags ==
    /\ configFile \in BOOLEAN /\ ap \in BOOLEAN /\ server \in BOOLEAN /\ link \in BOOLEAN
    /\ client \in BOOLEAN /\ connected \in BOOLEAN /\ ProcessLock \in BOOLEAN
    /\ firstStart \in BOOLEAN /\ mqttSetupPending \in BOOLEAN
    /\ ready_to_sleep \in BOOLEAN /\ phone \in BOOLEAN

SupervisorOthers ==
    /\ at \in {"reset", "load", "setup", "portal", "failsafe", "loop", "trying",
              "asleep", "crashed"}
    /\ SYSConfig \in Config /\ nvs \in Config
    /\ credentials \in {"none", "right", "wrong"}
    /\ previous \in {"none", "right", "wrong"}
    /\ gatewayState \in States
    /\ failure_number_ntwk \in 0..maxRetryWatchDog
    /\ failure_number_mqtt \in 0..maxRetryWatchDog
    /\ inputs \in 0..MaxInputs

\* Together they are the type invariant.
LEMMA SupervisorTypes == TypeOK <=> SupervisorFlags /\ SupervisorOthers
BY DEF TypeOK, SupervisorFlags, SupervisorOthers

\* The configuration a gateway starts from is one.
LEMMA ConfigInit == SYSConfig_init \in Config
BY DEF SYSConfig_init, Config, PowerModes

\* A gateway that was never used has its types.
LEMMA InitSupervisor == Init => SupervisorFlags /\ SupervisorOthers
<1> SUFFICES ASSUME Init PROVE SupervisorFlags /\ SupervisorOthers
  OBVIOUS
<1>1. SupervisorFlags
  BY DEF Init, SupervisorFlags
<1>2. SupervisorOthers
  BY ConfigInit, SupervisorAssumption DEF Init, SupervisorOthers, States
<1> QED BY <1>1, <1>2

\* What a restart clears has its types again.
LEMMA ClearedTypes ==
    ASSUME Cleared, at' \in {"reset", "asleep", "crashed"}, nvs' \in Config,
           credentials' \in {"none", "right", "wrong"},
           previous' \in {"none", "right", "wrong"}, configFile' \in BOOLEAN, ap' \in BOOLEAN,
           server' \in BOOLEAN, phone' \in BOOLEAN, inputs' \in 0..MaxInputs
    PROVE  SupervisorFlags' /\ SupervisorOthers'
<1>1. SupervisorFlags'
  BY DEF Cleared, SupervisorFlags
<1>2. SupervisorOthers'
  BY ConfigInit, SupervisorAssumption DEF Cleared, SupervisorOthers, States
<1> QED BY <1>1, <1>2

\* The WiFi manager keeps the types.
LEMMA ManagerTypes ==
    ASSUME SupervisorFlags, SupervisorOthers, NEW next \in {"load", "loop"},
           setupWiFiManager(next), UNCHANGED <<flash, world>>, inputs' \in 0..MaxInputs
    PROVE  SupervisorFlags' /\ SupervisorOthers'
<1>0. /\ nvs' \in Config /\ credentials' \in {"none", "right", "wrong"}
      /\ previous' \in {"none", "right", "wrong"}
     /\ configFile' \in BOOLEAN /\ ap' \in BOOLEAN /\ server' \in BOOLEAN /\ phone' \in BOOLEAN
  BY DEF SupervisorFlags, SupervisorOthers, flash, world
<1>1. CASE Cleared /\ at' \in {"reset", "asleep"}
  BY <1>0, <1>1, ClearedTypes
<1>2. CASE /\ UNCHANGED <<SYSConfig, mqttVars, failure_number_ntwk, ready_to_sleep>>
           /\ at' \in {"load", "loop", "failsafe", "portal"}
           /\ gatewayState' \in {"NTWK_CONNECTED", "ONBOARDING"}
           /\ link' \in BOOLEAN
  <2>1. SupervisorFlags' BY <1>0, <1>2 DEF SupervisorFlags, mqttVars
  <2>2. SupervisorOthers' BY <1>0, <1>2 DEF SupervisorOthers, mqttVars, States
  <2> QED BY <2>1, <2>2
<1>3. link \in BOOLEAN
  BY DEF SupervisorFlags
<1> QED
  BY <1>1, <1>2, <1>3 DEF setupWiFiManager, NetworkReady, ConnectFailed

\* A command leaves the world alone, and is one more input.
LEMMA CommandedTypes ==
    ASSUME SupervisorFlags, SupervisorOthers, Commanded
    PROVE  /\ inputs' \in 0..MaxInputs
           /\ ap' \in BOOLEAN /\ server' \in BOOLEAN /\ phone' \in BOOLEAN
<1>1. inputs' \in 0..MaxInputs
  BY SupervisorAssumption DEF SupervisorOthers, Commanded
<1> QED
  BY <1>1 DEF SupervisorFlags, Commanded

\* Every step keeps the types.
LEMMA StepSupervisor ==
    ASSUME SupervisorFlags, SupervisorOthers, [Next]_vars
    PROVE  SupervisorFlags' /\ SupervisorOthers'
<1> USE SupervisorAssumption
<1>1. CASE SYSConfig_load
  BY <1>1 DEF SupervisorFlags, SupervisorOthers, SYSConfig_load, mqttVars, flash, world, States
<1>2. CASE setup
  BY <1>2, ManagerTypes
     DEF SupervisorFlags, SupervisorOthers, setup, NetworkReady, mqttVars, flash, world, States
<1>3. CASE Wake BY <1>3, ClearedTypes DEF SupervisorFlags, SupervisorOthers, Wake, flash, world
<1>4. CASE blockingWaitForReset
  <2>1. inputs' \in 0..MaxInputs
    BY <1>4 DEF SupervisorOthers, blockingWaitForReset
  <2>2. CASE eraseConfig
    BY <1>4, <2>1, <2>2, ClearedTypes, ConfigInit
       DEF SupervisorFlags, SupervisorOthers, blockingWaitForReset, eraseConfig, ESPRestart,
           world
  <2>3. CASE ~eraseConfig
    BY <1>4, <2>1, <2>3, ManagerTypes DEF blockingWaitForReset
  <2> QED BY <2>2, <2>3
<1>5. CASE Onboarded
  BY <1>5
     DEF SupervisorFlags, SupervisorOthers, Onboarded, NetworkReady, AfterPortal, mqttVars,
         world, States
<1>6. CASE PortalTimesOut
  BY <1>6, ClearedTypes
     DEF SupervisorFlags, SupervisorOthers, PortalTimesOut, NetworkReady, ConnectFailed,
         AfterPortal, mqttVars, flash, world, States
<1>7. CASE loop
  <2>0. /\ UNCHANGED <<flash, world, inputs>>
    BY <1>7 DEF loop
  <2>1. CASE Online
    <3>1. /\ connected' = TRUE /\ client' = TRUE /\ UNCHANGED <<link, ready_to_sleep>>
          /\ mqttSetupPending' \in BOOLEAN /\ ProcessLock' \in BOOLEAN
          /\ firstStart' \in BOOLEAN
      BY <2>1, Zenon DEF Online
    <3>2. SupervisorFlags'
      BY <2>0, <3>1 DEF SupervisorFlags, flash, world
    <3>3. SupervisorOthers'
      BY <2>0, <2>1 DEF SupervisorOthers, Online, PassEnds, flash, world, States
    <3> QED BY <3>2, <3>3
  <2>2. CASE NoBroker
    <3>1. CASE ESPRestart
      BY <2>0, <3>1, ClearedTypes
         DEF SupervisorFlags, SupervisorOthers, ESPRestart, flash, world
    <3>2. CASE ~ESPRestart
      <4>1. /\ connected' = FALSE /\ client' = TRUE /\ UNCHANGED <<link, ready_to_sleep>>
            /\ mqttSetupPending' \in BOOLEAN /\ ProcessLock' \in BOOLEAN
            /\ firstStart' \in BOOLEAN
        BY <2>2, <3>2, Zenon DEF NoBroker
      <4>2. SupervisorFlags'
        BY <2>0, <4>1 DEF SupervisorFlags, flash, world
      <4>3. SupervisorOthers'
        BY <2>0, <2>2, <3>2 DEF SupervisorOthers, NoBroker, PassEnds, flash, world, States
      <4> QED BY <4>2, <4>3
    <3> QED BY <3>1, <3>2
  <2>3. CASE NoClient
    BY <2>0, <2>3, ClearedTypes
       DEF SupervisorFlags, SupervisorOthers, NoClient, flash, world, States
  <2>4. CASE NoNetwork
    <3>1. CASE Cleared /\ at' \in {"reset", "asleep"}
      BY <2>0, <3>1, ClearedTypes DEF SupervisorFlags, SupervisorOthers, flash, world
    <3>2. CASE ~(Cleared /\ at' \in {"reset", "asleep"})
      <4>1. /\ client' = TRUE /\ mqttSetupPending' = FALSE
            /\ ProcessLock' = (ProcessLock /\ ~starts) /\ firstStart' = (firstStart /\ ~starts)
            /\ UNCHANGED <<connected, ready_to_sleep>>
            /\ link' = link \/ link' = joins
        BY <2>4, <3>2 DEF NoNetwork, ESPRestart
      <4>2. /\ ProcessLock' \in BOOLEAN /\ firstStart' \in BOOLEAN
            /\ (link' = joins => link' \in BOOLEAN)
        BY <4>1, Zenon DEF joins
      <4>3. SupervisorFlags'
        BY <2>0, <4>1, <4>2 DEF SupervisorFlags, flash, world
      <4>4. SupervisorOthers'
        BY <2>0, <2>4, <3>2
           DEF SupervisorOthers, NoNetwork, ESPRestart, PassEnds, flash, world, States
      <4> QED BY <4>3, <4>4
    <3> QED BY <3>1, <3>2
  <2>5. CASE Alone
    BY <1>7, <2>5
       DEF SupervisorFlags, SupervisorOthers, loop, Alone, PassEnds, flash, world, States,
           exists, setupPending
  <2> QED BY <1>7, <2>1, <2>2, <2>3, <2>4, <2>5 DEF loop
<1>8. CASE Reported
  BY <1>8 DEF SupervisorFlags, SupervisorOthers, Reported, mqttVars, flash, world
<1>9. ASSUME NEW c \in Config, NEW save \in BOOLEAN, XtoSYS(c, save)
      PROVE  SupervisorFlags' /\ SupervisorOthers'
  <2>0. Commanded
    BY <1>9 DEF XtoSYS
  <2>1. CASE Cleared /\ at' = "crashed"
    BY <1>9, <2>0, <2>1, CommandedTypes, ClearedTypes
       DEF XtoSYS, SupervisorFlags, SupervisorOthers
  <2>2. CASE ~(Cleared /\ at' = "crashed")
    <3>1. SupervisorFlags'
      BY <1>9, <2>0, <2>2, CommandedTypes DEF XtoSYS, SupervisorFlags
    <3>2. SupervisorOthers'
      BY <1>9, <2>0, <2>2, CommandedTypes DEF XtoSYS, SupervisorOthers, States
    <3> QED BY <3>1, <3>2
  <2> QED BY <2>1, <2>2
<1>10. CASE restartCmd
  <2>1. Commanded
    BY <1>10 DEF restartCmd
  <2> QED
    BY <1>10, <2>1, CommandedTypes, ClearedTypes
       DEF SupervisorFlags, SupervisorOthers, restartCmd, ESPRestart, flash
<1>11. CASE Erased
  <2>1. Commanded
    BY <1>11 DEF Erased
  <2> QED
    BY <1>11, <2>1, CommandedTypes, ClearedTypes, ConfigInit
       DEF SupervisorFlags, SupervisorOthers, Erased, eraseConfig, ESPRestart
<1>12. ASSUME NEW c \in {"right", "wrong"}, XtoSYSwifi(c)
       PROVE  SupervisorFlags' /\ SupervisorOthers'
  <2>1. Commanded
    BY <1>12 DEF XtoSYSwifi
  <2>2. connected' \in BOOLEAN
    BY <1>12, Zenon DEF XtoSYSwifi
  <2>3. SupervisorFlags'
    BY <1>12, <2>1, <2>2, CommandedTypes DEF XtoSYSwifi, SupervisorFlags
  <2>4. SupervisorOthers'
    BY <1>12, <2>1, CommandedTypes DEF XtoSYSwifi, SupervisorOthers
  <2> QED BY <2>3, <2>4
<1>13. CASE XtoSYSwifiDone
  BY <1>13, ClearedTypes
     DEF SupervisorFlags, SupervisorOthers, XtoSYSwifiDone, ESPRestart, world
<1>14. CASE MQTTHttpsFWUpdate
  <2>1. Commanded
    BY <1>14 DEF MQTTHttpsFWUpdate
  <2>2. CASE ESPRestart /\ configFile' \in {configFile, TRUE}
    <3>1. configFile' \in BOOLEAN
      BY <2>2 DEF SupervisorFlags
    <3> QED
      BY <1>14, <2>1, <2>2, <3>1, CommandedTypes, ClearedTypes
         DEF SupervisorFlags, SupervisorOthers, MQTTHttpsFWUpdate, ESPRestart
  <2>3. CASE /\ gatewayState' = "ERROR"
             /\ UNCHANGED <<at, SYSConfig, configFile, link, mqttVars, failure_number_ntwk,
                           ready_to_sleep>>
    <3>1. SupervisorFlags'
      BY <1>14, <2>1, <2>3, CommandedTypes DEF SupervisorFlags, mqttVars
    <3>2. SupervisorOthers'
      BY <1>14, <2>1, <2>3, CommandedTypes
         DEF SupervisorOthers, mqttVars, States, MQTTHttpsFWUpdate
    <3> QED BY <3>1, <3>2
  <2> QED BY <1>14, <2>2, <2>3 DEF MQTTHttpsFWUpdate
<1>15. CASE NewBroker
  <2>1. Commanded
    BY <1>15 DEF NewBroker
  <2> QED BY <1>15, <2>1, CommandedTypes DEF SupervisorFlags, SupervisorOthers, NewBroker, flash
<1>16. CASE WorldChanges
  <2>1. /\ ap' \in BOOLEAN /\ server' \in BOOLEAN /\ phone' \in BOOLEAN
        /\ connected' \in BOOLEAN /\ link' \in BOOLEAN
    <3>1. CASE /\ ap' = ~ap /\ link' = FALSE /\ connected' = (connected /\ ethConnected)
               /\ UNCHANGED <<server, phone>>
      <4>1. ap' \in BOOLEAN /\ connected' \in BOOLEAN
        BY <3>1, Zenon
      <4> QED BY <3>1, <4>1 DEF SupervisorFlags
    <3>2. CASE server' = ~server /\ connected' = FALSE /\ UNCHANGED <<ap, phone, link>>
      BY <3>2 DEF SupervisorFlags
    <3>3. CASE phone' = ~phone /\ UNCHANGED <<ap, server, link, connected>>
      BY <3>3 DEF SupervisorFlags
    <3> QED BY <1>16, <3>1, <3>2, <3>3 DEF WorldChanges
  <2>2. SupervisorFlags'
    BY <1>16, <2>1 DEF WorldChanges, SupervisorFlags, flash
  <2>3. SupervisorOthers'
    BY <1>16 DEF WorldChanges, SupervisorOthers, flash
  <2> QED BY <2>2, <2>3
<1>17. CASE PowerLoss
  BY <1>17, ClearedTypes DEF SupervisorFlags, SupervisorOthers, PowerLoss, flash, world
<1>18. CASE UNCHANGED vars BY <1>18 DEF SupervisorFlags, SupervisorOthers, vars
<1> QED
  BY <1>1, <1>2, <1>3, <1>4, <1>5, <1>6, <1>7, <1>8, <1>9, <1>10, <1>11, <1>12, <1>13, <1>14,
     <1>15, <1>16, <1>17, <1>18
     DEF Next, Boot

\* The broker is reached over the cable or over WiFi.
Carried == connected => ethConnected \/ link

\* The client's setup is pending from the start, until the loop has done it.
Fresh == at \in {"reset", "load", "setup", "failsafe"} => mqttSetupPending

\* A lock that is left while the broker is connected will be released: the setup that
\* releases it is pending.
LockPends == at \in {"loop", "portal"} /\ connected /\ ProcessLock => mqttSetupPending

\* The invariant of the lock.
UnlockedInv == Carried /\ Fresh /\ LockPends

\* It holds from the start ...
LEMMA InitUnlocked == Init => UnlockedInv
BY DEF Init, UnlockedInv, Carried, Fresh, LockPends

\* ... and after a restart, ...
LEMMA ClearedUnlocked ==
    ASSUME Cleared
    PROVE  UnlockedInv'
BY DEF Cleared, UnlockedInv, Carried, Fresh, LockPends, ethConnected

\* ... the WiFi manager keeps it ...
LEMMA ManagerUnlocked ==
    ASSUME UnlockedInv, NEW next \in {"load", "loop"}, setupWiFiManager(next),
           next = "load" => at = "reset", next = "loop" => at \in {"setup", "loop"}
    PROVE  UnlockedInv'
<1>1. CASE Cleared
  BY <1>1, ClearedUnlocked
<1>2. CASE /\ mqttVars' = mqttVars
           /\ at' \in {next} \cup (IF next = "load" THEN {"failsafe"} ELSE {"portal"})
           /\ (link => link')
  BY <1>2 DEF UnlockedInv, Carried, Fresh, LockPends, mqttVars, ethConnected
<1> QED
  BY <1>1, <1>2 DEF setupWiFiManager, NetworkReady, ConnectFailed

\* ... and so does every step, ...
LEMMA StepUnlocked ==
    ASSUME UnlockedInv, [Next]_vars
    PROVE  UnlockedInv'
<1> USE DEF UnlockedInv, Carried, Fresh, LockPends, ethConnected
<1>1. CASE SYSConfig_load BY <1>1 DEF SYSConfig_load, mqttVars
<1>2. CASE setup BY <1>2, ManagerUnlocked DEF setup, NetworkReady, mqttVars
<1>3. CASE Wake BY <1>3, ClearedUnlocked DEF Wake
<1>4. CASE blockingWaitForReset
  BY <1>4, ClearedUnlocked, ManagerUnlocked DEF blockingWaitForReset, eraseConfig, ESPRestart
<1>5. CASE Onboarded BY <1>5 DEF Onboarded, NetworkReady, AfterPortal, mqttVars
<1>6. CASE PortalTimesOut
  BY <1>6, ClearedUnlocked
     DEF PortalTimesOut, NetworkReady, ConnectFailed, AfterPortal, mqttVars
<1>7. CASE loop
  <2>1. CASE Online BY <1>7, <2>1 DEF loop, Online, setupPending, PassEnds
  <2>2. CASE NoBroker BY <1>7, <2>2, ClearedUnlocked DEF loop, NoBroker, ESPRestart, PassEnds
  <2>3. CASE NoClient BY <1>7, <2>3, ClearedUnlocked DEF loop, NoClient
  <2>4. CASE NoNetwork BY <1>7, <2>4, ClearedUnlocked DEF loop, NoNetwork, ESPRestart, PassEnds
  <2>5. CASE Alone BY <1>7, <2>5, ClearedUnlocked DEF loop, Alone, PassEnds
  <2> QED BY <1>7, <2>1, <2>2, <2>3, <2>4, <2>5 DEF loop
<1>8. CASE Reported BY <1>8 DEF Reported, mqttVars
<1>9. CASE \E c \in Config, save \in BOOLEAN : XtoSYS(c, save)
  BY <1>9, ClearedUnlocked DEF XtoSYS, Commanded
<1>10. CASE restartCmd BY <1>10, ClearedUnlocked DEF restartCmd, ESPRestart
<1>11. CASE Erased BY <1>11, ClearedUnlocked DEF Erased, eraseConfig, ESPRestart
<1>12. CASE \E new \in {"right", "wrong"} : XtoSYSwifi(new)
  BY <1>12 DEF XtoSYSwifi
<1>13. CASE XtoSYSwifiDone BY <1>13, ClearedUnlocked DEF XtoSYSwifiDone, ESPRestart
<1>14. CASE MQTTHttpsFWUpdate
  <2>1. CASE Cleared
    BY <2>1, ClearedUnlocked
  <2>2. CASE UNCHANGED <<at, link, mqttVars>>
    BY <2>2 DEF mqttVars
  <2> QED BY <1>14, <2>1, <2>2 DEF MQTTHttpsFWUpdate, ESPRestart
<1>15. CASE NewBroker BY <1>15 DEF NewBroker
<1>16. CASE WorldChanges
  <2>1. /\ at' = at /\ ProcessLock' = ProcessLock /\ mqttSetupPending' = mqttSetupPending
        /\ \/ connected' = (connected /\ Ethernet)
           \/ connected' = FALSE
           \/ connected' = connected /\ link' = link
    BY <1>16 DEF WorldChanges
  <2>2. connected' => connected /\ (Ethernet \/ link')
    BY <2>1, Zenon
  <2> QED BY <2>1, <2>2
<1>17. CASE PowerLoss BY <1>17, ClearedUnlocked DEF PowerLoss
<1>18. CASE UNCHANGED vars BY <1>18 DEF vars
<1> QED
  BY <1>1, <1>2, <1>3, <1>4, <1>5, <1>6, <1>7, <1>8, <1>9, <1>10, <1>11, <1>12, <1>13, <1>14,
     <1>15, <1>16, <1>17, <1>18
     DEF Next, Boot

\* ... and what is checked is part of it.
LEMMA UnlockedIs == UnlockedInv => ConnectedIsUnlocked
BY DEF UnlockedInv, LockPends, ConnectedIsUnlocked

\* In every behaviour the types hold, and the lock pends.
LEMMA SupervisorHolds ==
    PlatformSpec => [](SupervisorFlags /\ SupervisorOthers /\ UnlockedInv)
<1>1. Init => SupervisorFlags /\ SupervisorOthers /\ UnlockedInv
  BY InitSupervisor, InitUnlocked
<1>2. ASSUME SupervisorFlags, SupervisorOthers, UnlockedInv, [Next]_vars
      PROVE  SupervisorFlags' /\ SupervisorOthers' /\ UnlockedInv'
  BY <1>2, StepSupervisor, StepUnlocked
<1> QED
  BY <1>1, <1>2, EachComponent, PTL

-----------------------------------------------------------------------------
\* Relay.  The switching itself is safe on one core and with one protection only: reading
\* the pin and writing it are two steps, and the loop's tasks run on another core.

\* Where a task may be, and where only the loop may.
RelaySteps == {"idle", "trigger", "resetTrigger", "write", "resetWrite", "record", "save",
                  "done", "pulse", "erase"}

LoopSteps == {"pulse", "erase", "resetTrigger", "resetWrite"}

\* The records that are written have their types.
LEMMA RelayRecords ==
    /\ Actuator!ONOFFConfig_init \in Actuator!Config
    /\ Actuator!NotStored \in [state : BOOLEAN, useLast : BOOLEAN, stored : BOOLEAN]
    /\ \A c \in Actuator!Config :
           Actuator!Stored(c) \in [state : BOOLEAN, useLast : BOOLEAN, stored : BOOLEAN]
    /\ \A c \in Actuator!Config, b \in BOOLEAN :
           /\ [c EXCEPT !.state = b] \in Actuator!Config
           /\ [c EXCEPT !.useLast = b] \in Actuator!Config
    /\ \A b \in BOOLEAN : Actuator!Light(b) \in {"on", "off", "error"}
BY DEF Actuator!ONOFFConfig_init, Actuator!Config, Actuator!NotStored, Actuator!Stored,
       Actuator!Light

\* What is loaded is a configuration.
LEMMA ConfigLoaded ==
    ASSUME NEW c \in Actuator!Config,
           relayNvs \in [state : BOOLEAN, useLast : BOOLEAN, stored : BOOLEAN]
    PROVE  Actuator!ONOFFConfig_load(c) \in Actuator!Config
BY DEF Actuator!ONOFFConfig_load, Actuator!Config

\* After a restart the tasks are idle.
LEMMA TasksIdle ==
    /\ Actuator!Idle \in [Actuator!Tasks -> RelaySteps]
    /\ \A t \in Protections : Actuator!Idle[t] = "idle"
    /\ Actuator!Nothing \in [Actuator!Tasks -> BOOLEAN]
    /\ Actuator!NoneOver \in [Protections -> BOOLEAN]
BY DEF Actuator!Idle, Actuator!Nothing, Actuator!NoneOver, RelaySteps, Actuator!Tasks

\* The loop is a task besides the protections.
LEMMA LoopTask ==
    ASSUME Actuator!RelayAssumption
    PROVE  /\ "loop" \in Actuator!Tasks /\ "loop" \notin Protections
           /\ Protections \subseteq Actuator!Tasks
BY DEF Actuator!RelayAssumption, Actuator!Tasks

\* An actuator that was never used has its types.
LEMMA InitRelay ==
    ASSUME Actuator!RelayAssumption, Actuator!Init
    PROVE  Actuator!TypeOK
<1>1. relayInputs \in 0..MaxSwitches /\ boots \in 0..MaxBoots
  BY DEF Actuator!RelayAssumption, Actuator!Init
<1> QED BY <1>1, RelayRecords, TasksIdle DEF Actuator!Init, Actuator!TypeOK, RelaySteps

\* Where the tasks are.
TasksAt ==
    /\ pc \in [Actuator!Tasks -> RelaySteps]
    /\ \A t \in Protections : pc[t] \notin LoopSteps

\* A task that goes on is where it may be.
LEMMA GotoHolds ==
    ASSUME Actuator!RelayAssumption, TasksAt, NEW t \in Actuator!Tasks, NEW l \in RelaySteps,
           Actuator!Goto(t, l), t \in Protections => l \notin LoopSteps
    PROVE  TasksAt'
BY DEF TasksAt, Actuator!Goto

\* The types of the other variables.
RelayTypes ==
    /\ relay \in BOOLEAN
    /\ led \in {"on", "off", "error"}
    /\ conf \in Actuator!Config
    /\ relayNvs \in [state : BOOLEAN, useLast : BOOLEAN, stored : BOOLEAN]
    /\ relayLevel \in [Actuator!Tasks -> BOOLEAN]
    /\ over \in [Protections -> BOOLEAN] /\ high \in [Protections -> BOOLEAN]
    /\ pin \in BOOLEAN /\ settled \in BOOLEAN /\ armed \in BOOLEAN
    /\ InputState \in {"unread", "low", "high"}
    /\ relayInputs \in 0..MaxSwitches /\ boots \in 0..MaxBoots

\* Together they are the type invariant.
LEMMA RelayTypeParts == Actuator!TypeOK <=> TasksAt /\ RelayTypes
BY DEF Actuator!TypeOK, TasksAt, RelaySteps, LoopSteps, RelayTypes

\* Every step keeps the types.
LEMMA StepRelay ==
    ASSUME Actuator!RelayAssumption, TasksAt, RelayTypes, [Actuator!Next]_(Actuator!vars)
    PROVE  TasksAt' /\ RelayTypes'
<1>0. TasksAt /\ RelayTypes
  OBVIOUS
<1> USE DEF RelayTypes
<1>l. /\ "loop" \in Actuator!Tasks /\ "loop" \notin Protections
      /\ Protections \subseteq Actuator!Tasks
  BY LoopTask
<1>1. ASSUME NEW t \in Actuator!Tasks, Actuator!Trigger(t) PROVE TasksAt' /\ RelayTypes'
  <2>0. /\ pc[t] \in RelaySteps /\ relayLevel[t] \in BOOLEAN
        /\ Actuator!Light(relayLevel[t]) \in {"on", "off", "error"}
    BY <1>0, RelayRecords DEF TasksAt
  <2>1. CASE Actuator!TriggerRead(t)
    <3>1. TasksAt'
      BY <1>0, <2>0, <2>1, GotoHolds DEF Actuator!TriggerRead, RelaySteps, LoopSteps, TasksAt
    <3>2. RelayTypes'
      BY <1>0, <2>1 DEF Actuator!TriggerRead, Actuator!input
    <3> QED BY <3>1, <3>2
  <2>2. CASE Actuator!TriggerWrite(t)
    <3>1. TasksAt'
      BY <1>0, <2>0, <2>2, GotoHolds DEF Actuator!TriggerWrite, RelaySteps, LoopSteps, TasksAt
    <3>2. RelayTypes'
      BY <1>0, <2>0, <2>2 DEF Actuator!TriggerWrite, Actuator!input
    <3> QED BY <3>1, <3>2
  <2>3. CASE Actuator!Record(t)
    <3>1. TasksAt'
      BY <1>0, <2>0, <2>3, GotoHolds DEF Actuator!Record, RelaySteps, LoopSteps, TasksAt
    <3>2. RelayTypes'
      BY <1>0, <2>0, <2>3, RelayRecords DEF Actuator!Record, Actuator!input
    <3> QED BY <3>1, <3>2
  <2>4. CASE Actuator!Save(t)
    <3>1. TasksAt'
      BY <1>0, <2>0, <2>4, GotoHolds DEF Actuator!Save, RelaySteps, LoopSteps, TasksAt
    <3>2. RelayTypes'
      BY <1>0, <2>0, <2>4, RelayRecords DEF Actuator!Save, Actuator!input
    <3> QED BY <3>1, <3>2
  <2>5. CASE Actuator!Done(t)
    <3>1. TasksAt'
      BY <1>0, <2>0, <2>5, GotoHolds DEF Actuator!Done, RelaySteps, LoopSteps, TasksAt
    <3>2. RelayTypes'
      BY <1>0, <2>0, <2>5 DEF Actuator!Done, Actuator!input
    <3> QED BY <3>1, <3>2
  <2> QED BY <1>1, <2>1, <2>2, <2>3, <2>4, <2>5 DEF Actuator!Trigger
<1>2. ASSUME NEW t \in Protections, Actuator!overLimit(t) PROVE TasksAt' /\ RelayTypes'
  <2>1. TasksAt'
    BY <1>0, <1>l, <1>2, GotoHolds DEF Actuator!overLimit, RelaySteps, LoopSteps
  <2>2. high[t] \in BOOLEAN
    BY <1>0
  <2>3. RelayTypes'
    BY <1>0, <1>2, <2>2 DEF Actuator!overLimit, Actuator!input
  <2> QED BY <2>1, <2>3
<1>3. ASSUME NEW t \in Protections, Actuator!Measured(t) PROVE TasksAt' /\ RelayTypes'
  <2>1. relayInputs' \in 0..MaxSwitches
    BY <1>0, <1>3 DEF Actuator!Measured, Actuator!RelayAssumption
  <2> QED BY <1>0, <1>3, <2>1 DEF Actuator!Measured, TasksAt
<1>4. ASSUME Actuator!LoopIdle
      PROVE  /\ relayInputs' \in 0..MaxSwitches
             /\ UNCHANGED <<over, high, pin, InputState, settled, armed, boots>>
  BY <1>0, <1>4 DEF Actuator!LoopIdle, Actuator!RelayAssumption
<1>5. ASSUME NEW on \in BOOLEAN, NEW gpio \in Gpios, Actuator!Switch(on, gpio)
      PROVE  TasksAt' /\ RelayTypes'
  <2>1. TasksAt'
    BY <1>0, <1>l, <1>5, GotoHolds DEF Actuator!Switch, RelaySteps
  <2>2. Actuator!Light(on) \in {"on", "off", "error"} /\ Actuator!LoopIdle
    BY <1>5, RelayRecords DEF Actuator!Switch
  <2>3. RelayTypes'
    BY <1>0, <1>4, <1>5, <2>2 DEF Actuator!Switch
  <2> QED BY <2>1, <2>3
<1>6. ASSUME NEW hp \in BOOLEAN, Actuator!PulseStart(hp) PROVE TasksAt' /\ RelayTypes'
  <2>1. TasksAt'
    BY <1>0, <1>l, <1>6, GotoHolds DEF Actuator!PulseStart, RelaySteps
  <2>2. Actuator!LoopIdle
    BY <1>6 DEF Actuator!PulseStart
  <2>3. RelayTypes'
    BY <1>0, <1>4, <1>6, <2>2 DEF Actuator!PulseStart
  <2> QED BY <2>1, <2>3
<1>7. ASSUME NEW first \in {"init", "load", "none"}, NEW useLast \in BOOLEAN,
          NEW last \in {"erase", "save", "none"}, Actuator!Configure(first, useLast, last)
   PROVE  TasksAt' /\ RelayTypes'
  <2> DEFINE c == CASE first = "init" -> Actuator!ONOFFConfig_init
                    [] first = "load" -> Actuator!ONOFFConfig_load(conf)
                    [] OTHER -> conf
             new == [c EXCEPT !.useLast = useLast]
  <2>1. c \in Actuator!Config
    BY <1>0, RelayRecords, ConfigLoaded
  <2>2. /\ new \in Actuator!Config
        /\ Actuator!Stored(new) \in [state : BOOLEAN, useLast : BOOLEAN, stored : BOOLEAN]
    <3> HIDE DEF c
    <3>1. new \in Actuator!Config
      BY <2>1, RelayRecords
    <3> QED BY <3>1, RelayRecords
  <2>3. /\ Actuator!LoopIdle /\ conf' = new
        /\ relayNvs' = (CASE last = "erase" /\ relayNvs.stored -> Actuator!NotStored
                     [] last = "save" -> Actuator!Stored(new)
                     [] OTHER -> relayNvs)
        /\ UNCHANGED <<relay, led, pc, relayLevel>>
    BY <1>7, Zenon DEF Actuator!Configure
  <2> HIDE DEF new
  <2>4. relayNvs' \in [state : BOOLEAN, useLast : BOOLEAN, stored : BOOLEAN]
    BY <1>0, <2>2, <2>3, RelayRecords
  <2> QED BY <1>0, <1>4, <2>2, <2>3, <2>4 DEF TasksAt
<1>8. CASE Actuator!PulseEnd
  <2>1. TasksAt'
    BY <1>0, <1>l, <1>8, GotoHolds DEF Actuator!PulseEnd, RelaySteps
  <2>2. relayLevel["loop"] \in BOOLEAN
    BY <1>0, <1>l
  <2> QED BY <1>0, <1>8, <2>1, <2>2 DEF Actuator!PulseEnd, Actuator!input
<1>9. CASE Actuator!InputChanges
  <2>1. relayInputs' \in 0..MaxSwitches
    BY <1>0, <1>9 DEF Actuator!InputChanges, Actuator!RelayAssumption
  <2> QED BY <1>0, <1>9, <2>1 DEF Actuator!InputChanges, TasksAt
<1>10. CASE Actuator!Settles
  BY <1>0, <1>10 DEF Actuator!Settles, TasksAt
<1>11. CASE Actuator!MeasureGPIOInput
  <2>1. TasksAt'
    BY <1>0, <1>l, <1>11, GotoHolds DEF Actuator!MeasureGPIOInput, RelaySteps
  <2>2. armed' \in BOOLEAN /\ InputState' \in {"unread", "low", "high"}
    BY <1>0, <1>11 DEF Actuator!MeasureGPIOInput, Actuator!Level
  <2> QED BY <1>0, <1>11, <2>1, <2>2 DEF Actuator!MeasureGPIOInput
<1>12. CASE Actuator!ButtonHeld
  <2>1. TasksAt'
    BY <1>0, <1>l, <1>12, GotoHolds DEF Actuator!ButtonHeld, RelaySteps
  <2> QED BY <1>0, <1>12, <2>1 DEF Actuator!ButtonHeld, Actuator!input
<1>13. ASSUME NEW c \in Actuator!Config, Actuator!setupONOFF(c), Actuator!Restarted, relayNvs'
                  \in [state : BOOLEAN, useLast : BOOLEAN, stored : BOOLEAN]
       PROVE TasksAt' /\ RelayTypes'
  <2>1. TasksAt'
    BY <1>13, TasksIdle DEF Actuator!Restarted, TasksAt, LoopSteps
  <2>2. /\ (c.useLast /\ c.state) \in BOOLEAN
        /\ Actuator!Light(c.useLast /\ c.state) \in {"on", "off", "error"}
    BY RelayRecords
  <2>3. relay' \in BOOLEAN /\ led' \in {"on", "off", "error"} /\ conf' \in Actuator!Config
    BY <1>13, <2>2 DEF Actuator!setupONOFF
  <2>4. boots' \in 0..MaxBoots
    BY <1>0, <1>13 DEF Actuator!Restarted, Actuator!RelayAssumption
  <2> QED BY <1>0, <1>13, <2>1, <2>3, <2>4, TasksIdle DEF Actuator!Restarted
<1>14. CASE Actuator!eraseConfig
  BY <1>13, <1>14, RelayRecords DEF Actuator!eraseConfig
<1>15. CASE Actuator!PowerLoss
  BY <1>0, <1>13, <1>15, RelayRecords, ConfigLoaded DEF Actuator!PowerLoss
<1>16. CASE UNCHANGED Actuator!vars
  BY <1>0, <1>16 DEF Actuator!vars, TasksAt
<1>17. CASE Actuator!Command
  BY <1>5, <1>6, <1>7, <1>17 DEF Actuator!Command
<1> QED
  BY <1>1, <1>2, <1>3, <1>8, <1>9, <1>10, <1>11, <1>12, <1>14, <1>15, <1>16, <1>17
     DEF Actuator!Next

\* A protection that is on its way to the pin finds the relay on, and writes that it is off.
OnItsWay ==
    \A t \in Protections : /\ pc[t] = "trigger" => relay
                           /\ pc[t] = "write" => ~relayLevel[t]

\* One core, and one protection: nothing switches between its reading and its writing.
OnlyOne == Cores = 1 /\ \A p \in Protections, q \in Protections : p = q

\* It holds from the start ...
LEMMA InitWay == Actuator!Init => OnItsWay
BY TasksIdle DEF Actuator!Init, OnItsWay

\* ... and is kept by every step of one protection on one core, ...
LEMMA StepWay ==
    ASSUME Actuator!RelayAssumption, OnlyOne, TasksAt, RelayTypes, OnItsWay,
           [Actuator!Next]_(Actuator!vars)
    PROVE  OnItsWay'
<1> SUFFICES ASSUME NEW t \in Protections
             PROVE  /\ pc'[t] = "trigger" => relay'
                    /\ pc'[t] = "write" => ~relayLevel'[t]
  BY DEF OnItsWay
<1>0. /\ t # "loop" /\ t \in Actuator!Tasks /\ "loop" \in Actuator!Tasks
      /\ pc[t] \notin LoopSteps
      /\ pc[t] = "trigger" => relay
      /\ pc[t] = "write" => ~relayLevel[t]
      /\ pc \in [Actuator!Tasks -> RelaySteps] /\ relayLevel \in [Actuator!Tasks -> BOOLEAN]
      /\ relay \in BOOLEAN
  BY LoopTask DEF OnItsWay, TasksAt, RelayTypes
<1>a. Actuator!Runs("loop") => pc[t] = "idle"
  BY DEF Actuator!Runs, OnlyOne
<1>b. ASSUME NEW u \in Actuator!Tasks, Actuator!Trigger(u), u # t PROVE Actuator!Runs("loop")
  <2>1. u = "loop"
    BY <1>b DEF OnlyOne, Actuator!Tasks
  <2> QED
    BY <1>b, <2>1
       DEF Actuator!Trigger, Actuator!TriggerRead, Actuator!TriggerWrite, Actuator!Record,
           Actuator!Save, Actuator!Done
<1>1. ASSUME NEW u \in Actuator!Tasks, Actuator!Trigger(u), u # t
      PROVE  pc'[t] \notin {"trigger", "write"}
  <2>1. pc[t] = "idle"
    BY <1>a, <1>b, <1>1
  <2>2. PICK l : Actuator!Goto(u, l)
    BY <1>1
       DEF Actuator!Trigger, Actuator!TriggerRead, Actuator!TriggerWrite, Actuator!Record,
           Actuator!Save, Actuator!Done
  <2> QED BY <1>0, <1>1, <2>1, <2>2 DEF Actuator!Goto
<1>2. ASSUME Actuator!Trigger(t)
      PROVE  /\ pc'[t] # "trigger"
             /\ pc'[t] = "write" => ~relayLevel'[t]
  BY <1>0, <1>2
     DEF Actuator!Trigger, Actuator!TriggerRead, Actuator!TriggerWrite, Actuator!Record,
         Actuator!Save, Actuator!Done, Actuator!Goto, LoopSteps
<1>3. ASSUME NEW u \in Protections, Actuator!overLimit(u)
      PROVE  (pc'[t] = "trigger" => relay') /\ pc'[t] # "write"
  <2>1. u = t
    BY DEF OnlyOne
  <2> QED BY <1>0, <1>3, <2>1 DEF Actuator!overLimit, Actuator!Goto
<1>4. ASSUME Actuator!Runs("loop"), NEW l, Actuator!Goto("loop", l)
      PROVE  pc'[t] \notin {"trigger", "write"}
  BY <1>0, <1>a, <1>4 DEF Actuator!Goto
<1>5. CASE Actuator!Command
  <2>1. ASSUME NEW on \in BOOLEAN, NEW gpio \in Gpios, Actuator!Switch(on, gpio)
        PROVE  pc'[t] \notin {"trigger", "write"}
    BY <1>4, <2>1 DEF Actuator!Switch, Actuator!LoopIdle
  <2>2. ASSUME NEW hp \in BOOLEAN, Actuator!PulseStart(hp)
        PROVE  pc'[t] \notin {"trigger", "write"}
    BY <1>4, <2>2 DEF Actuator!PulseStart, Actuator!LoopIdle
  <2>3. ASSUME NEW first \in {"init", "load", "none"}, NEW useLast \in BOOLEAN,
            NEW last \in {"erase", "save", "none"}, Actuator!Configure(first, useLast, last)
        PROVE pc'[t] \notin {"trigger", "write"}
    BY <1>a, <2>3 DEF Actuator!Configure, Actuator!LoopIdle
  <2> QED BY <1>5, <2>1, <2>2, <2>3 DEF Actuator!Command
<1>6. CASE Actuator!PulseEnd BY <1>4, <1>6 DEF Actuator!PulseEnd
<1>7. CASE Actuator!MeasureGPIOInput BY <1>4, <1>7 DEF Actuator!MeasureGPIOInput
<1>8. CASE Actuator!ButtonHeld BY <1>4, <1>8 DEF Actuator!ButtonHeld
<1>9. CASE Actuator!Restarted BY <1>0, <1>9, TasksIdle DEF Actuator!Restarted
<1>10. CASE UNCHANGED <<pc, relayLevel, relay>> BY <1>0, <1>10
<1>11. ASSUME NEW u \in Protections, Actuator!Measured(u)
       PROVE  UNCHANGED <<pc, relayLevel, relay>>
  BY <1>11 DEF Actuator!Measured
<1> QED
  BY <1>1, <1>2, <1>3, <1>5, <1>6, <1>7, <1>8, <1>9, <1>10, <1>11
     DEF Actuator!Next, Actuator!InputChanges, Actuator!Settles, Actuator!eraseConfig,
         Actuator!PowerLoss, Actuator!vars

\* ... and what it writes switches off.
LEMMA SwitchesOff ==
    ASSUME Actuator!RelayAssumption, TasksAt, RelayTypes, OnItsWay, NEW t \in Protections,
           Actuator!TriggerWrite(t)
    PROVE  ~relay'
<1>1. pc[t] = "write" /\ relay' = relayLevel[t]
  BY DEF Actuator!TriggerWrite, TasksAt, LoopSteps
<1> QED BY <1>1 DEF OnItsWay

\* In every behaviour the tasks are where they may be, and the types hold.
LEMMA RelayHolds == PlatformSpec => [](TasksAt /\ RelayTypes)
<1>1. Actuator!Init => TasksAt /\ RelayTypes
  BY PlatformConstants, InitRelay, RelayTypeParts
<1>2. ASSUME TasksAt, RelayTypes, [Actuator!Next]_(Actuator!vars)
      PROVE  TasksAt' /\ RelayTypes'
  BY <1>2, PlatformConstants, StepRelay
<1> QED
  BY <1>1, <1>2, EachComponent, PTL DEF Actuator!Spec

-----------------------------------------------------------------------------
\* StatusLed.  What was asked for last is shown, or held behind the blinks that are.

\* How often an LED blinks: without end, not at all, or three times.
BlinkCounts == {-1, 0, 3}

\* What the manager keeps of an LED.
LedState == [mode : Led!LedModes, color : Led!LedColors, count : BlinkCounts,
             previous : [mode : Led!LedModes, color : Led!LedColors],
             counter : 0..6, on : BOOLEAN, queue : Led!Requests]

\* The LEDs have it.
LedsTyped == ledStates \in [LEDs -> LedState]

\* What is asked of the manager for a state is a request.
LEMMA RequestsTyped ==
    ASSUME NEW s \in Led!States
    PROVE  Led!Request(s) \in Led!Requests
<1>1. CASE s \in DOMAIN Led!Passing
  BY <1>1 DEF Led!Request, Led!Requests, Led!LedModes, Led!LedColors, Led!Passing
<1>2. CASE s \in DOMAIN Led!Lasting /\ s \notin DOMAIN Led!Passing
  BY <1>2 DEF Led!Request, Led!Requests, Led!LedModes, Led!LedColors, Led!Lasting
<1> QED BY <1>1, <1>2 DEF Led!States

\* The manager's functions give it states that it keeps.
LEMMA AppliedTyped ==
    ASSUME NEW r \in Led!Requests, NEW p \in [mode : Led!LedModes, color : Led!LedColors]
    PROVE  Led!Applied(r, p) \in LedState
BY DEF Led!Applied, LedState, Led!Requests, Led!LedModes, Led!LedColors, BlinkCounts, Led!None

\* ... setModeForSingleLED ...
LEMMA SetModeTyped ==
    ASSUME NEW st \in LedState, NEW r \in Led!Requests
    PROVE  Led!setModeForSingleLED(st, r) \in LedState
<1>1. [st EXCEPT !.queue = r] \in LedState
  BY DEF LedState
<1>2. /\ st.previous \in [mode : Led!LedModes, color : Led!LedColors]
      /\ [mode |-> st.mode, color |-> st.color] \in [mode : Led!LedModes, color : Led!LedColors]
  BY DEF LedState
<1> QED BY <1>1, <1>2, AppliedTyped DEF Led!setModeForSingleLED

\* ... and handleBlink.
LEMMA BlinkTyped ==
    ASSUME NEW st \in LedState
    PROVE  Led!handleBlink(st) \in LedState
<1>0. st.previous \in [mode : Led!LedModes, color : Led!LedColors] /\ st.queue \in Led!Requests
  BY DEF LedState
<1>1. Led!returnToPreviousState(st) \in LedState
  <2>1. [mode |-> st.previous.mode, color |-> st.previous.color, count |-> -1] \in Led!Requests
    BY <1>0 DEF Led!Requests, Led!LedModes
  <2> QED BY <1>0, <2>1, AppliedTyped DEF Led!returnToPreviousState
<1>2. Led!applyQueuedState(st) \in LedState
  BY <1>0, AppliedTyped DEF Led!applyQueuedState
<1> DEFINE next == IF st.count <= 0 THEN 1 ELSE IF st.counter = 0 THEN st.count * 2
                       ELSE st.counter - 1
<1>3. next \in 0..6
  BY DEF LedState, BlinkCounts
<1>4. [st EXCEPT !.counter = IF st.count > 0 THEN next ELSE @, !.on = ~@] \in LedState
  <2> HIDE DEF next
  <2> QED BY <1>3 DEF LedState
<1> QED BY <1>1, <1>2, <1>4 DEF Led!handleBlink

\* The types of the other variables.
LedRest ==
    /\ shownState \in Led!States /\ previousGatewayState \in Led!States
    /\ whileDispatched \in Led!States \cup {"none"}
    /\ ledPc \in {"compare", "switch", "store", "update"}
    /\ asked \in [LEDs -> Led!States \cup {"none"}]
    /\ changes \in 0..MaxChanges

\* Together they are the type invariant.
LEMMA LedTypes == LedsTyped /\ LedRest => Led!TypeOK
BY DEF LedsTyped, LedRest, Led!TypeOK, LedState, Led!LedModes, BlinkCounts, Led!Requests

\* The states the loop itself writes are states.
LEMMA LedStatesNamed == "WAITING_ONBOARDING" \in Led!States /\ "PROCESSING" \in Led!States
BY DEF Led!States, Led!Lasting, Led!Passing

\* The LEDs have their types when they are set up ...
LEMMA InitLed ==
    ASSUME Led!StatusLedAssumption, Led!Init
    PROVE  LedsTyped /\ LedRest
<1>1. /\ [mode |-> "OFF", color |-> "black", count |-> 0] \in Led!Requests
      /\ Led!Off \in [mode : Led!LedModes, color : Led!LedColors]
  BY DEF Led!Requests, Led!Off, Led!LedModes, Led!LedColors
<1>2. LedsTyped
  BY <1>1, AppliedTyped DEF Led!Init, LedsTyped
<1>3. LedRest
  BY LedStatesNamed DEF Led!Init, LedRest, Led!StatusLedAssumption
<1> QED BY <1>2, <1>3

\* ... and keep them.
LEMMA StepLed ==
    ASSUME Led!StatusLedAssumption, LedsTyped, LedRest, [Led!LedNext]_(Led!ledVars)
    PROVE  LedsTyped' /\ LedRest'
<1> USE DEF LedsTyped, LedRest
<1>1. ASSUME NEW s \in Written, Led!StateChanges(s) PROVE LedsTyped' /\ LedRest'
  <2>1. s \in Led!States
    BY DEF Led!StatusLedAssumption
  <2> QED BY <1>1, <2>1 DEF Led!StateChanges, Led!StatusLedAssumption
<1>2. CASE Led!Dispatch
  BY <1>2, LedStatesNamed DEF Led!Dispatch, Led!StatusLedAssumption
<1>3. CASE Led!Dispatched
  BY <1>3 DEF Led!Dispatched
<1>4. CASE Led!BlufiReports
  BY <1>4 DEF Led!BlufiReports
<1>5. CASE Led!Compare
  BY <1>5 DEF Led!Compare
<1>6. CASE Led!Switch
  <2>1. Led!Request(shownState) \in Led!Requests
    BY RequestsTyped
  <2>2. LedsTyped'
    BY <1>6, <2>1, SetModeTyped DEF Led!Switch
  <2>3. LedRest'
    BY <1>6 DEF Led!Switch
  <2> QED BY <2>2, <2>3
<1>7. CASE Led!Store
  BY <1>7 DEF Led!Store
<1>8. CASE Led!update
  BY <1>8, BlinkTyped DEF Led!update
<1>9. CASE UNCHANGED Led!ledVars
  BY <1>9 DEF Led!ledVars
<1> QED
  BY <1>1, <1>2, <1>3, <1>4, <1>5, <1>6, <1>7, <1>8, <1>9
     DEF Led!LedNext, Led!updateAndHandleLEDsTask

\* What is asked for a state that lasts.
LEMMA LastingRequests ==
    ASSUME NEW s \in DOMAIN Led!Lasting
    PROVE  /\ s # "none" /\ s \in Led!States
           /\ Led!Request(s)
                  = [mode |-> Led!Lasting[s].mode, color |-> Led!Lasting[s].color, count |-> -1]
           /\ Led!Request(s) # Led!None /\ Led!Request(s).count = -1
           /\ Led!Request(s).mode = Led!Lasting[s].mode
           /\ Led!Request(s).color = Led!Lasting[s].color
<1>1. s \notin DOMAIN Led!Passing /\ s # "none" /\ s \in Led!States
  BY DEF Led!Lasting, Led!Passing, Led!States
<1>2. Led!Request(s)
          = [mode |-> Led!Lasting[s].mode, color |-> Led!Lasting[s].color, count |-> -1]
  BY <1>1 DEF Led!Request
<1> QED BY <1>1, <1>2 DEF Led!None

\* What an LED shows of a request, or holds.
ShowsOrHolds(st, s) ==
    IF st.mode = "BLINK" /\ st.count > 0 THEN st.queue = Led!Request(s)
    ELSE st.mode = Led!Lasting[s].mode /\ st.color = Led!Lasting[s].color

\* It holds what it is asked for ...
LEMMA SetModeHolds ==
    ASSUME NEW st \in LedState, NEW s \in DOMAIN Led!Lasting
    PROVE  ShowsOrHolds(Led!setModeForSingleLED(st, Led!Request(s)), s)
<1>1. CASE st.mode = "BLINK" /\ st.count > 0
  BY <1>1 DEF Led!setModeForSingleLED, ShowsOrHolds, LedState
<1>2. CASE ~(st.mode = "BLINK" /\ st.count > 0)
  <2>1. PICK p : Led!setModeForSingleLED(st, Led!Request(s)) = Led!Applied(Led!Request(s), p)
    BY <1>2 DEF Led!setModeForSingleLED
  <2> QED BY <2>1, LastingRequests DEF Led!Applied, ShowsOrHolds
<1> QED BY <1>1, <1>2

\* ... and keeps it when it blinks, or shows it when it has blinked enough.
LEMMA BlinkHolds ==
    ASSUME NEW st \in LedState, NEW s \in DOMAIN Led!Lasting, st.mode = "BLINK",
           ShowsOrHolds(st, s)
    PROVE  ShowsOrHolds(Led!handleBlink(st), s)
<1> DEFINE next == IF st.count <= 0 THEN 1 ELSE IF st.counter = 0 THEN st.count * 2
                       ELSE st.counter - 1
           going == [st EXCEPT !.counter = IF st.count > 0 THEN next ELSE @, !.on = ~@]
<1>1. Led!handleBlink(st) = IF next = 0 THEN IF st.queue # Led!None
          THEN Led!applyQueuedState(st) ELSE Led!returnToPreviousState(st) ELSE going
  BY DEF Led!handleBlink
<1>2. CASE next # 0
  <2>1. /\ going.mode = st.mode /\ going.count = st.count /\ going.queue = st.queue
        /\ going.color = st.color
    BY DEF LedState
  <2> QED BY <1>1, <1>2, <2>1 DEF ShowsOrHolds
<1>3. CASE next = 0
  <2>1. st.count > 0 /\ st.count \in {-1, 0, 3}
    BY <1>3 DEF LedState, BlinkCounts
  <2>2. st.queue = Led!Request(s) /\ st.queue # Led!None
    BY <2>1, LastingRequests DEF ShowsOrHolds
  <2>3. Led!handleBlink(st) = Led!Applied(Led!Request(s), st.previous)
    BY <1>1, <1>3, <2>2 DEF Led!applyQueuedState
  <2> QED BY <2>3, LastingRequests DEF Led!Applied, ShowsOrHolds
<1> QED BY <1>2, <1>3

\* RequestKept, LED by LED.
LEMMA KeptIs ==
    Led!RequestKept <=> \A l \in LEDs, s \in DOMAIN Led!Lasting :
                            asked[l] = s => ShowsOrHolds(ledStates[l], s)
BY DEF Led!RequestKept, ShowsOrHolds, Led!Shows

\* It holds from the start ...
LEMMA InitKept == Led!Init => Led!RequestKept
<1> SUFFICES ASSUME Led!Init, NEW l \in LEDs, NEW s \in DOMAIN Led!Lasting, asked[l] = s
             PROVE  FALSE
  BY KeptIs
<1>1. asked[l] = "none"
  BY DEF Led!Init
<1> QED BY <1>1, LastingRequests

\* ... and every step keeps it.
LEMMA StepKept ==
    ASSUME LedsTyped, LedRest, Led!RequestKept, [Led!LedNext]_(Led!ledVars)
    PROVE  Led!RequestKept'
<1>0. Led!RequestKept' <=> \A l \in LEDs, s \in DOMAIN Led!Lasting :
                               asked'[l] = s => ShowsOrHolds(ledStates'[l], s)
  BY DEF Led!RequestKept, ShowsOrHolds, Led!Shows
<1> SUFFICES ASSUME NEW l \in LEDs, NEW s \in DOMAIN Led!Lasting, asked'[l] = s
             PROVE  ShowsOrHolds(ledStates'[l], s)
  BY <1>0
<1>1. ledStates[l] \in LedState /\ (asked[l] = s => ShowsOrHolds(ledStates[l], s))
  BY KeptIs DEF LedsTyped
<1>2. CASE Led!Switch
  <2> DEFINE these == IF shownState = "SLEEPING" THEN LEDs ELSE {LedOf[shownState]}
  <2>1. /\ ledStates' = [k \in LEDs |->
               IF k \in these
               THEN Led!setModeForSingleLED(ledStates[k], Led!Request(shownState))
               ELSE ledStates[k]]
        /\ asked' = [k \in LEDs |-> IF k \in these THEN shownState ELSE asked[k]]
    BY <1>2 DEF Led!Switch
  <2> HIDE DEF these
  <2>2. CASE l \in these
    <3>1. /\ s = shownState
          /\ ledStates'[l] = Led!setModeForSingleLED(ledStates[l], Led!Request(s))
      BY <2>1, <2>2
    <3> QED BY <1>1, <3>1, SetModeHolds
  <2>3. CASE l \notin these
    BY <1>1, <2>1, <2>3
  <2> QED BY <2>2, <2>3
<1>3. CASE Led!update
  <2>1. /\ ledStates'[l] = IF ledStates[l].mode = "BLINK" THEN Led!handleBlink(ledStates[l])
               ELSE ledStates[l]
        /\ asked' = asked
    BY <1>3 DEF Led!update
  <2> QED BY <1>1, <2>1, BlinkHolds
<1>4. CASE UNCHANGED <<ledStates, asked>>
  BY <1>1, <1>4
<1> QED
  BY <1>2, <1>3, <1>4
     DEF Led!LedNext, Led!updateAndHandleLEDsTask, Led!StateChanges, Led!Dispatch,
         Led!Dispatched, Led!BlufiReports, Led!Compare, Led!Store, Led!ledVars

\* In every behaviour the types hold, and no request is lost.
LEMMA LedHolds == PlatformSpec => [](LedsTyped /\ LedRest /\ Led!RequestKept)
<1>1. Led!Init => LedsTyped /\ LedRest /\ Led!RequestKept
  BY PlatformConstants, InitLed, InitKept
<1>2. ASSUME LedsTyped, LedRest, Led!RequestKept, [Led!LedNext]_(Led!ledVars)
      PROVE  LedsTyped' /\ LedRest' /\ Led!RequestKept'
  BY <1>2, PlatformConstants, StepLed, StepKept
<1> QED
  BY <1>1, <1>2, EachComponent, PTL

-----------------------------------------------------------------------------
\* Lights.  A fade is a product and an integer quotient, both monotone: between two turns
\* a channel goes from its start towards its target, and not past it.

\* Products and integer quotients are monotone.
LEMMA MulMono ==
    ASSUME NEW a \in Int, NEW b \in Int, a <= b, NEW c \in Nat
    PROVE  a * c <= b * c
OBVIOUS

\* What an integer quotient is, ...
LEMMA DivBounds ==
    ASSUME NEW a \in Int, NEW d \in Nat \ {0}
    PROVE  /\ a \div d \in Int /\ d * (a \div d) <= a /\ a < d * (a \div d) + d
OBVIOUS

\* ... that it is monotone ...
LEMMA DivMono ==
    ASSUME NEW a \in Int, NEW b \in Int, a <= b, NEW d \in Nat \ {0}
    PROVE  a \div d <= b \div d
<1> DEFINE p == a \div d
           q == b \div d
<1>1. p \in Int /\ q \in Int /\ d * p <= a /\ b < d * q + d
  BY DivBounds
<1> HIDE DEF p, q
<1>2. CASE p > q
  <2>1. p >= q + 1
    BY <1>1, <1>2
  <2>2. (q + 1) * d <= p * d
    BY <1>1, <2>1, MulMono
  <2>3. d * q + d = (q + 1) * d /\ d * p = p * d
    BY <1>1
  <2> QED BY <1>1, <2>2, <2>3
<1> QED BY <1>1, <1>2 DEF p, q

\* ... and gives back what was multiplied.
LEMMA DivExact ==
    ASSUME NEW a \in Int, NEW d \in Nat \ {0}
    PROVE  (a * d) \div d = a /\ 0 \div d = 0
<1> DEFINE p == (a * d) \div d
<1>1. p \in Int /\ d * p <= a * d /\ a * d < d * p + d
  <2>1. a * d \in Int
    OBVIOUS
  <2> QED BY <2>1, DivBounds
<1> HIDE DEF p
<1>2. d * p = p * d /\ d * p + d = (p + 1) * d
  BY <1>1
<1>3. ~(p > a)
  <2> SUFFICES ASSUME p >= a + 1 PROVE FALSE
    BY <1>1
  <2>1. (a + 1) * d <= p * d
    BY <1>1, MulMono
  <2>2. (a + 1) * d = a * d + d
    OBVIOUS
  <2> QED BY <1>1, <1>2, <2>1, <2>2
<1>4. ~(p < a)
  <2> SUFFICES ASSUME p + 1 <= a PROVE FALSE
    BY <1>1
  <2>1. (p + 1) * d <= a * d
    BY <1>1, MulMono
  <2> QED BY <1>1, <1>2, <2>1
<1> QED BY <1>1, <1>3, <1>4 DEF p

\* A fade of d turns from s to g, after t of them.
FadePart(s, g, t, d) == s + ((g - s) * t) \div d

\* A fade upwards rises, between its ends ...
LEMMA PartUp ==
    ASSUME NEW s \in Int, NEW g \in Int, s <= g, NEW d \in Nat \ {0}, NEW t \in Nat,
           NEW u \in Nat, t <= u, u <= d
    PROVE  /\ FadePart(s, g, t, d) \in Int
           /\ s <= FadePart(s, g, t, d) /\ FadePart(s, g, t, d) <= FadePart(s, g, u, d)
           /\ FadePart(s, g, u, d) <= g
<1> DEFINE k == g - s
<1>0. k \in Nat
  OBVIOUS
<1>1. /\ 0 <= k * t /\ k * t <= k * u /\ k * u <= k * d /\ k * t \in Int /\ k * u \in Int
      /\ k * d \in Int
  <2> HIDE DEF k
  <2>1. 0 * k <= t * k /\ t * k <= u * k /\ u * k <= d * k
    BY <1>0, MulMono
  <2> QED BY <1>0, <2>1
<1>2. /\ 0 \div d <= (k * t) \div d /\ (k * t) \div d <= (k * u) \div d
      /\ (k * u) \div d <= (k * d) \div d
  <2> HIDE DEF k
  <2> QED BY <1>0, <1>1, DivMono
<1>3. 0 \div d = 0 /\ (k * d) \div d = k /\ (k * t) \div d \in Int /\ (k * u) \div d \in Int
  <2> HIDE DEF k
  <2> QED BY <1>0, <1>1, DivExact, DivBounds
<1> DEFINE x == (k * t) \div d
           y == (k * u) \div d
<1>4. FadePart(s, g, t, d) = s + x /\ FadePart(s, g, u, d) = s + y
  BY DEF FadePart
<1>5. 0 <= x /\ x <= y /\ y <= k /\ x \in Int /\ y \in Int
  BY <1>2, <1>3
<1> HIDE DEF x, y
<1> QED BY <1>4, <1>5

\* ... and one downwards falls.
LEMMA PartDown ==
    ASSUME NEW s \in Int, NEW g \in Int, g <= s, NEW d \in Nat \ {0}, NEW t \in Nat,
           NEW u \in Nat, t <= u, u <= d
    PROVE  /\ FadePart(s, g, t, d) \in Int
           /\ g <= FadePart(s, g, u, d) /\ FadePart(s, g, u, d) <= FadePart(s, g, t, d)
           /\ FadePart(s, g, t, d) <= s
<1> DEFINE k == g - s
<1>0. k \in Int /\ k <= 0
  OBVIOUS
<1>1. /\ k * d <= k * u /\ k * u <= k * t /\ k * t <= 0 /\ k * t \in Int /\ k * u \in Int
      /\ k * d \in Int
  <2> DEFINE n == -k
  <2>0. n \in Nat /\ k = -n
    OBVIOUS
  <2> HIDE DEF k, n
  <2>1. 0 * n <= t * n /\ t * n <= u * n /\ u * n <= d * n
    BY <2>0, MulMono
  <2>2. k * t = -(t * n) /\ k * u = -(u * n) /\ k * d = -(d * n)
    BY <2>0
  <2>3. t * n \in Int /\ u * n \in Int /\ d * n \in Int
    BY <2>0
  <2> QED BY <2>0, <2>1, <2>2, <2>3
<1>2. /\ (k * d) \div d <= (k * u) \div d /\ (k * u) \div d <= (k * t) \div d
      /\ (k * t) \div d <= 0 \div d
  <2> HIDE DEF k
  <2> QED BY <1>0, <1>1, DivMono
<1>3. 0 \div d = 0 /\ (k * d) \div d = k /\ (k * t) \div d \in Int /\ (k * u) \div d \in Int
  <2> HIDE DEF k
  <2> QED BY <1>0, <1>1, DivExact, DivBounds
<1> DEFINE x == (k * t) \div d
           y == (k * u) \div d
<1>4. FadePart(s, g, t, d) = s + x /\ FadePart(s, g, u, d) = s + y
  BY DEF FadePart
<1>5. x <= 0 /\ y <= x /\ k <= y /\ x \in Int /\ y \in Int
  BY <1>2, <1>3
<1> HIDE DEF x, y
<1> QED BY <1>4, <1>5

\* The types of the channels' variables, those of their fades among them.
PwmTyped ==
    /\ currentValues \in [Channels -> Light!Values]
    /\ fadeStartValues \in [Channels -> Light!Values]
    /\ targetValues \in [Channels -> Light!Values]
    /\ fadeStartUpdateTime \in [Channels -> Nat] /\ fadeEndUpdateTime \in [Channels -> Nat]
    /\ fadeIsComplete \in BOOLEAN /\ currentUpdateTime \in 0..MaxFadeTime
    /\ calibration \in {"changed", "written"}

\* A value that has left where its fade started for where it is at a time has not
\* got further than that.
OnTheWay(c, v, time) ==
    \/ fadeStartValues[c] <= v /\ v <= Light!Faded(c, time)
    \/ Light!Faded(c, time) <= v /\ v <= fadeStartValues[c]

\* No value is further than its fade has brought it, and none is away from its target when
\* the fades are over.
FadesOnTheWay ==
    \A c \in Channels :
        /\ fadeStartUpdateTime[c] <= currentUpdateTime
        /\ ~Light!FadeOver(c, currentUpdateTime) =>
               OnTheWay(c, currentValues[c], currentUpdateTime)
        /\ fadeIsComplete => /\ Light!FadeOver(c, currentUpdateTime)
                             /\ currentValues[c] = targetValues[c]

\* The types of the strip's variables.
StripTyped ==
    /\ currentLEDState \in {"OFF", "FIRE", "GENERAL"}
    /\ leds \in [Leds -> Light!Shown] /\ ledColorBlink \in [Leds -> Light!Shown]
    /\ blinkLED \in [Leds -> BOOLEAN] /\ step \in {0, 1}

\* The invariant of the lights.
LightsInv == PwmTyped /\ FadesOnTheWay /\ StripTyped

\* It gives the type invariant.
LEMMA LightTypes == LightsInv => Light!TypeOK
BY DEF LightsInv, PwmTyped, StripTyped, Light!TypeOK

\* Brightness is a number.
LEMMA LightValues ==
    ASSUME Light!LightsAssumption
    PROVE  Light!Values \subseteq Int /\ 0 \in Light!Values /\ \A v \in Int : v \in Light!Values
               <=> 0 <= v /\ v <= MaxValue
BY DEF Light!LightsAssumption, Light!Values

\* It holds from the start.
LEMMA InitLight ==
    ASSUME Light!LightsAssumption, Light!Init
    PROVE  LightsInv
<1>1. /\ currentUpdateTime \in 0..MaxFadeTime /\ currentUpdateTime = 0
      /\ \A c \in Channels : fadeEndUpdateTime[c] = 0 /\ fadeStartUpdateTime[c] = 0
  BY DEF Light!Init, Light!LightsAssumption
<1>2. PwmTyped
  BY <1>1, LightValues DEF Light!Init, PwmTyped
<1>3. FadesOnTheWay
  <2>1. ASSUME NEW c \in Channels
        PROVE  /\ Light!FadeOver(c, currentUpdateTime)
               /\ fadeStartUpdateTime[c] <= currentUpdateTime
    <3>1. fadeEndUpdateTime[c] = 0 /\ fadeStartUpdateTime[c] = 0 /\ currentUpdateTime = 0
      BY <1>1
    <3> QED BY <3>1 DEF Light!FadeOver
  <2>2. fadeIsComplete = FALSE
    BY DEF Light!Init
  <2> QED BY <2>1, <2>2 DEF FadesOnTheWay
<1>4. StripTyped
  BY DEF Light!Init, StripTyped, Light!Shown
<1> QED BY <1>2, <1>3, <1>4 DEF LightsInv

\* Where a fade of a channel stands, at a time and at a later one, before it is over.
LEMMA FadeWithin ==
    ASSUME Light!LightsAssumption, NEW s \in Light!Values, NEW g \in Light!Values,
           NEW st \in Nat, NEW en \in Nat, NEW time \in Nat, NEW later \in Nat, st <= time,
           time <= later, later < en
    PROVE  LET a == FadePart(s, g, time - st, en - st)
               b == FadePart(s, g, later - st, en - st)
           IN  /\ a \in Int /\ b \in Int /\ b \in Light!Values
               /\ \/ s <= a /\ a <= b /\ b <= g /\ s <= g
                  \/ g <= b /\ b <= a /\ a <= s /\ g <= s
<1> DEFINE d == en - st
           t == time - st
           u == later - st
           a == FadePart(s, g, t, d)
           b == FadePart(s, g, u, d)
<1>1. /\ s \in Int /\ 0 <= s /\ s <= MaxValue /\ g \in Int /\ 0 <= g /\ g <= MaxValue
      /\ MaxValue \in Int /\ \A v \in Int : v \in Light!Values <=> 0 <= v /\ v <= MaxValue
  BY LightValues DEF Light!LightsAssumption
<1>2. d \in Nat \ {0} /\ t \in Nat /\ u \in Nat /\ t <= u /\ u <= d
  OBVIOUS
<1> HIDE DEF d, t, u
<1>3. ASSUME s <= g
      PROVE  a \in Int /\ b \in Int /\ s <= a /\ a <= b /\ b <= g
  <2>1. u <= u
    BY <1>2
  <2>2. b \in Int
    BY <1>1, <1>2, <1>3, <2>1, PartUp
  <2> QED BY <1>1, <1>2, <1>3, <2>2, PartUp
<1>4. ASSUME g <= s
      PROVE  a \in Int /\ b \in Int /\ g <= b /\ b <= a /\ a <= s
  <2>1. u <= u
    BY <1>2
  <2>2. b \in Int
    BY <1>1, <1>2, <1>4, <2>1, PartDown
  <2> QED BY <1>1, <1>2, <1>4, <2>2, PartDown
<1> HIDE DEF a, b
<1>5. s <= g \/ g <= s
  BY <1>1
<1>6. /\ a \in Int /\ b \in Int
      /\ \/ s <= a /\ a <= b /\ b <= g /\ s <= g
         \/ g <= b /\ b <= a /\ a <= s /\ g <= s
  <2>1. CASE s <= g
    BY <1>3, <2>1
  <2>2. CASE g <= s
    BY <1>4, <2>2
  <2> QED BY <1>5, <2>1, <2>2
<1>7. b \in Light!Values
  BY <1>1, <1>6
<1> QED BY <1>6, <1>7 DEF a, b, d, t, u

\* Times are natural numbers.
LEMMA FadeTimes ==
    ASSUME Light!LightsAssumption, PwmTyped
    PROVE  currentUpdateTime \in Nat /\ \A c \in Channels : fadeStartUpdateTime[c] \in Nat
               /\ fadeEndUpdateTime[c] \in Nat
BY DEF PwmTyped, Light!LightsAssumption

\* What the loop gives a channel.
LEMMA LoopLight ==
    ASSUME Light!LightsAssumption, LightsInv, Light!PWMLoop
    PROVE  /\ PwmTyped' /\ FadesOnTheWay'
           /\ Light!FadesTowardsTarget
<1> DEFINE clock == currentUpdateTime'
<1>1. /\ clock \in Nat /\ clock \in 0..MaxFadeTime /\ currentUpdateTime \in Nat
      /\ currentUpdateTime <= clock
  BY DEF LightsInv, PwmTyped, Light!PWMLoop, Light!LightsAssumption
<1>2. UNCHANGED <<fadeStartValues, targetValues, fadeStartUpdateTime, fadeEndUpdateTime>>
  BY DEF Light!PWMLoop
<1>3. PwmTyped /\ FadesOnTheWay
  BY DEF LightsInv
<1> HIDE DEF clock
<1>4. ASSUME NEW c \in Channels
      PROVE  /\ fadeStartUpdateTime[c] <= clock
             /\ Light!FadeOver(c, currentUpdateTime) => Light!FadeOver(c, clock)
             /\ (~fadeIsComplete /\ Light!FadeOver(c, clock))
                    => currentValues'[c] = targetValues[c]
             /\ (~fadeIsComplete /\ ~Light!FadeOver(c, clock))
                    => currentValues'[c] = Light!Faded(c, clock)
             /\ currentValues[c] \in Light!Values /\ targetValues[c] \in Light!Values
             /\ fadeIsComplete =>
                    /\ Light!FadeOver(c, clock) /\ currentValues'[c] = currentValues[c]
                    /\ currentValues[c] = targetValues[c]
  <2>1. fadeEndUpdateTime[c] \in Nat /\ fadeStartUpdateTime[c] \in Nat
    BY <1>3, FadeTimes
  <2>2. fadeStartUpdateTime[c] <= currentUpdateTime
    BY <1>3 DEF FadesOnTheWay
  <2>3. Light!FadeOver(c, currentUpdateTime) => Light!FadeOver(c, clock)
    BY <1>1, <2>1 DEF Light!FadeOver
  <2>4. fadeStartUpdateTime[c] <= clock
    BY <1>1, <2>1, <2>2
  <2>5. ~fadeIsComplete => currentValues' = [x \in Channels |->
            IF Light!FadeOver(x, clock) THEN targetValues[x] ELSE Light!Faded(x, clock)]
    BY DEF Light!PWMLoop, clock
  <2>6. fadeIsComplete => /\ currentValues' = currentValues
                          /\ Light!FadeOver(c, currentUpdateTime)
                          /\ currentValues[c] = targetValues[c]
    BY <1>3 DEF Light!PWMLoop, FadesOnTheWay
  <2>7. currentValues[c] \in Light!Values /\ targetValues[c] \in Light!Values
    BY <1>3 DEF PwmTyped
  <2> QED BY <2>3, <2>4, <2>5, <2>6, <2>7
<1>5. ASSUME NEW c \in Channels, ~Light!FadeOver(c, clock)
      PROVE  /\ currentValues'[c] = Light!Faded(c, clock)
             /\ Light!Faded(c, clock) \in Light!Values
             /\ fadeStartValues[c] <= Light!Faded(c, clock) \/ Light!Faded(c, clock)
                    <= fadeStartValues[c]
             /\ Light!Distance(currentValues'[c], targetValues[c])
                    <= Light!Distance(currentValues[c], targetValues[c])
  <2> DEFINE s == fadeStartValues[c]
             g == targetValues[c]
             a == Light!Faded(c, currentUpdateTime)
             b == Light!Faded(c, clock)
             v == currentValues[c]
  <2>1. ~fadeIsComplete /\ ~Light!FadeOver(c, currentUpdateTime) /\ currentValues'[c] = b
    BY <1>4, <1>5
  <2>2. fadeStartUpdateTime[c] <= currentUpdateTime /\ OnTheWay(c, v, currentUpdateTime)
    BY <1>3, <2>1 DEF FadesOnTheWay
  <2>3. /\ a \in Int /\ b \in Int /\ b \in Light!Values
        /\ \/ s <= a /\ a <= b /\ b <= g /\ s <= g
           \/ g <= b /\ b <= a /\ a <= s /\ g <= s
    <3>1. /\ s \in Light!Values /\ g \in Light!Values
          /\ fadeStartUpdateTime[c] \in Nat /\ fadeEndUpdateTime[c] \in Nat
      BY <1>3, FadeTimes DEF PwmTyped
    <3>2. clock < fadeEndUpdateTime[c]
      BY <1>1, <1>5, <3>1 DEF Light!FadeOver
    <3> DEFINE st == fadeStartUpdateTime[c]
               en == fadeEndUpdateTime[c]
    <3>3. /\ a = FadePart(s, g, currentUpdateTime - st, en - st)
          /\ b = FadePart(s, g, clock - st, en - st)
      BY DEF Light!Faded, FadePart
    <3> HIDE DEF s, g, a, b
    <3> QED BY <1>1, <2>2, <3>1, <3>2, <3>3, FadeWithin
  <2>4. (s <= v /\ v <= a) \/ (a <= v /\ v <= s)
    BY <2>2 DEF OnTheWay
  <2>5. s \in Int /\ g \in Int /\ v \in Int
    BY <1>3, LightValues DEF PwmTyped
  <2> HIDE DEF s, g, a, b, v
  <2>6. (v <= b /\ b <= g) \/ (g <= b /\ b <= v)
    BY <2>3, <2>4, <2>5
  <2>7. Light!Distance(b, g) <= Light!Distance(v, g)
    BY <2>3, <2>5, <2>6 DEF Light!Distance
  <2>8. s <= b \/ b <= s
    BY <2>3, <2>5
  <2> QED BY <2>1, <2>3, <2>7, <2>8 DEF s, g, a, b, v
<1>6. currentValues' \in [Channels -> Light!Values]
  <2>1. CASE fadeIsComplete
    BY <1>3, <2>1 DEF Light!PWMLoop, PwmTyped
  <2>2. CASE ~fadeIsComplete
    <3>1. currentValues' = [x \in Channels |->
              IF Light!FadeOver(x, clock) THEN targetValues[x] ELSE Light!Faded(x, clock)]
      BY <2>2 DEF Light!PWMLoop, clock
    <3>2. ASSUME NEW x \in Channels
          PROVE  (IF Light!FadeOver(x, clock) THEN targetValues[x] ELSE Light!Faded(x, clock))
                     \in Light!Values
      BY <1>4, <1>5
    <3> QED BY <3>1, <3>2
  <2> QED BY <2>1, <2>2
<1>7. PwmTyped'
  BY <1>1, <1>2, <1>3, <1>6 DEF Light!PWMLoop, PwmTyped, clock
<1>8. fadeIsComplete' => \A c \in Channels : Light!FadeOver(c, clock)
  BY <1>4 DEF Light!PWMLoop, clock
<1>9. ASSUME NEW c \in Channels
      PROVE  /\ Light!FadeOver(c, currentUpdateTime)' <=> Light!FadeOver(c, clock)
             /\ Light!Faded(c, currentUpdateTime)' = Light!Faded(c, clock)
  BY <1>2 DEF Light!FadeOver, Light!Faded, clock
<1>10. ASSUME NEW c \in Channels, Light!FadeOver(c, clock)
       PROVE  currentValues'[c] = targetValues[c]
  BY <1>4, <1>10
<1>11. FadesOnTheWay'
  <2>1. ASSUME NEW c \in Channels, ~Light!FadeOver(c, clock)
        PROVE  OnTheWay(c, currentValues[c], currentUpdateTime)'
    <3>1. fadeStartValues[c] \in Int /\ Light!Faded(c, clock) \in Int
      BY <1>3, <1>5, <2>1, LightValues DEF PwmTyped
    <3>2. fadeStartValues'[c] = fadeStartValues[c]
      BY <1>2
    <3>3. currentValues'[c] = Light!Faded(c, clock) /\ Light!Faded(c, currentUpdateTime)'
              = Light!Faded(c, clock)
          /\ (fadeStartValues[c] <= Light!Faded(c, clock) \/ Light!Faded(c, clock)
                 <= fadeStartValues[c])
      BY <1>5, <1>9, <2>1
    <3> HIDE DEF clock
    <3> QED BY <3>1, <3>2, <3>3 DEF OnTheWay
  <2>2. ASSUME NEW c \in Channels
        PROVE  /\ fadeStartUpdateTime'[c] <= currentUpdateTime'
               /\ fadeIsComplete' => /\ Light!FadeOver(c, currentUpdateTime)'
                                     /\ currentValues'[c] = targetValues'[c]
    <3>1. fadeStartUpdateTime'[c] <= clock
      BY <1>2, <1>4
    <3>2. fadeIsComplete' => Light!FadeOver(c, clock)
      BY <1>8
    <3>3. fadeIsComplete' => currentValues'[c] = targetValues'[c]
      BY <1>2, <1>10, <3>2
    <3> QED BY <1>9, <3>1, <3>2, <3>3 DEF clock
  <2> QED BY <1>9, <2>1, <2>2 DEF FadesOnTheWay
<1>12. Light!FadesTowardsTarget
  <2>1. ASSUME NEW c \in Channels
        PROVE  Light!Distance(currentValues'[c], targetValues'[c])
                   <= Light!Distance(currentValues[c], targetValues'[c])
    <3>1. targetValues'[c] = targetValues[c]
      BY <1>2
    <3>2. targetValues[c] \in Int /\ currentValues[c] \in Int
      BY <1>4, LightValues
    <3>3. CASE Light!FadeOver(c, clock)
      <4>1. currentValues'[c] = targetValues[c]
        BY <1>10, <3>3
      <4> QED BY <3>1, <3>2, <4>1 DEF Light!Distance
    <3>4. CASE ~Light!FadeOver(c, clock)
      BY <1>5, <3>1, <3>4
    <3> QED BY <3>3, <3>4
  <2>2. ASSUME fadeIsComplete' PROVE currentValues' = targetValues'
    <3>1. \A c \in Channels : currentValues'[c] = targetValues'[c]
      BY <1>2, <1>8, <1>10, <2>2
    <3>2. /\ currentValues' \in [Channels -> Light!Values]
          /\ targetValues' \in [Channels -> Light!Values]
      BY <1>7 DEF PwmTyped
    <3> QED BY <3>1, <3>2
  <2> QED BY <2>1, <2>2 DEF Light!FadesTowardsTarget
<1> QED BY <1>7, <1>11, <1>12

\* A command starts its fades where the channels are.
LEMMA SetLight ==
    ASSUME Light!LightsAssumption, LightsInv, NEW modified \in SUBSET Channels,
           NEW target \in Light!Values, NEW fade \in Fades,
           Light!XtoPWMset(modified, target, fade)
    PROVE  PwmTyped' /\ FadesOnTheWay'
<1>1. PwmTyped /\ FadesOnTheWay /\ fade \in Nat
  BY DEF LightsInv, Light!LightsAssumption
<1>2. currentUpdateTime \in Nat /\ currentUpdateTime + fade \in Nat
  BY <1>1, FadeTimes
<1>3. PwmTyped'
  <2>1. targetValues' \in [Channels -> Light!Values]
    BY <1>1 DEF Light!XtoPWMset, PwmTyped
  <2>2. fadeStartUpdateTime' \in [Channels -> Nat]
    BY <1>1, <1>2 DEF Light!XtoPWMset, PwmTyped
  <2>3. fadeEndUpdateTime' \in [Channels -> Nat]
    BY <1>1, <1>2 DEF Light!XtoPWMset, PwmTyped
  <2> QED BY <1>1, <2>1, <2>2, <2>3 DEF Light!XtoPWMset, PwmTyped
<1>4. ASSUME NEW c \in Channels
      PROVE  /\ fadeStartUpdateTime'[c] <= currentUpdateTime'
             /\ ~Light!FadeOver(c, currentUpdateTime)' =>
                    OnTheWay(c, currentValues[c], currentUpdateTime)'
  <2>1. currentUpdateTime' = currentUpdateTime /\ currentValues' = currentValues
        /\ fadeStartValues' = currentValues
    BY DEF Light!XtoPWMset
  <2>2. fadeStartUpdateTime'[c] <= currentUpdateTime'
    <3>1. fadeStartUpdateTime[c] <= currentUpdateTime
      BY <1>1 DEF FadesOnTheWay
    <3> QED BY <1>2, <2>1, <3>1 DEF Light!XtoPWMset
  <2>3. ASSUME ~Light!FadeOver(c, currentUpdateTime)'
        PROVE  OnTheWay(c, currentValues[c], currentUpdateTime)'
    <3>1. Light!LightsAssumption' /\ currentUpdateTime' \in Nat
      BY <1>2, <2>1 DEF Light!LightsAssumption
    <3> DEFINE a == Light!Faded(c, currentUpdateTime)
    <3>2. /\ a' \in Int
          /\ fadeStartValues'[c] <= a' \/ a' <= fadeStartValues'[c]
      <4> DEFINE s == fadeStartValues'[c]
                 g == targetValues'[c]
                 st == fadeStartUpdateTime'[c]
                 en == fadeEndUpdateTime'[c]
                 clock == currentUpdateTime'
      <4>1. s \in Light!Values /\ g \in Light!Values /\ st \in Nat /\ en \in Nat
        BY <1>3 DEF PwmTyped
      <4>2. clock \in Nat /\ st <= clock /\ clock < en
        BY <2>2, <2>3, <3>1, <4>1 DEF Light!FadeOver
      <4>3. a' = FadePart(s, g, clock - st, en - st)
        BY DEF Light!Faded, FadePart
      <4>4. clock <= clock /\ s \in Int
        BY <4>1, <4>2, LightValues
      <4> HIDE DEF s, g, st, en, clock, a
      <4>5. /\ a' \in Int
            /\ \/ s <= a' /\ a' <= a' /\ a' <= g /\ s <= g
               \/ g <= a' /\ a' <= a' /\ a' <= s /\ g <= s
        BY <4>1, <4>2, <4>3, <4>4, FadeWithin
      <4> QED BY <4>5 DEF s
    <3>3. fadeStartValues'[c] = currentValues'[c] /\ currentValues'[c] \in Int
      BY <1>1, <2>1, LightValues DEF PwmTyped
    <3> QED BY <3>2, <3>3 DEF OnTheWay
  <2> QED BY <2>2, <2>3
<1>5. ~fadeIsComplete'
  BY DEF Light!XtoPWMset
<1> QED BY <1>3, <1>4, <1>5 DEF FadesOnTheWay

\* Every step keeps the invariant ...
LEMMA StepLight ==
    ASSUME Light!LightsAssumption, LightsInv, [Light!Next]_(Light!lightVars)
    PROVE  LightsInv'
<1>1. CASE Light!PWMNext /\ UNCHANGED Light!ledVars
  <2>1. StripTyped'
    BY <1>1 DEF LightsInv, StripTyped, Light!ledVars
  <2>2. CASE Light!PWMLoop
    BY <2>1, <2>2, LoopLight DEF LightsInv
  <2>3. CASE Light!XtoPWMcalibrate
    BY <2>1, <2>3
       DEF Light!XtoPWMcalibrate, LightsInv, PwmTyped, FadesOnTheWay, Light!FadeOver, OnTheWay,
           Light!Faded
  <2>4. ASSUME NEW modified \in SUBSET Channels, NEW target \in Light!Values, NEW fade
                   \in Fades,
               Light!XtoPWMset(modified, target, fade)
        PROVE  LightsInv'
    BY <2>1, <2>4, SetLight DEF LightsInv
  <2> QED BY <1>1, <2>2, <2>3, <2>4 DEF Light!PWMNext
<1>2. CASE Light!StripNext /\ UNCHANGED Light!pwmVars
  <2>1. PwmTyped' /\ FadesOnTheWay'
    BY <1>2
       DEF LightsInv, PwmTyped, FadesOnTheWay, Light!FadeOver, OnTheWay, Light!Faded,
           Light!pwmVars
  <2>2. StripTyped
    BY DEF LightsInv
  <2>3. ASSUME Light!FASTLEDLoop
        PROVE  StripTyped'
    <3>1. step' \in {0, 1} /\ blinkLED' \in [Leds -> BOOLEAN]
          /\ currentLEDState' \in {"OFF", "FIRE", "GENERAL"}
      BY <2>2, <2>3 DEF Light!FASTLEDLoop, StripTyped
    <3>2. CASE Light!Blink
      <4>1. Light!Black \in Light!Shown
        BY DEF Light!Shown
      <4> QED BY <2>2, <3>1, <3>2, <4>1 DEF Light!Blink, StripTyped
    <3>3. CASE UNCHANGED <<leds, ledColorBlink>>
      BY <2>2, <3>1, <3>3 DEF StripTyped
    <3>4. CASE leds' = [l \in Leds |-> "flame"] /\ UNCHANGED ledColorBlink
      BY <2>2, <3>1, <3>4 DEF StripTyped, Light!Shown
    <3> QED BY <2>3, <3>2, <3>3, <3>4 DEF Light!FASTLEDLoop
  <2>4. ASSUME Light!XtoFASTLED
        PROVE  StripTyped'
    BY <2>2, <2>4 DEF Light!XtoFASTLED, StripTyped, Light!Shown
  <2>5. ASSUME NEW l \in Leds, NEW color \in Colors, NEW blink \in BOOLEAN,
               Light!setled(l, color, blink)
        PROVE  StripTyped'
    <3>1. blinkLED' \in [Leds -> BOOLEAN]
      BY <2>2, <2>5 DEF Light!setled, StripTyped
    <3>2. color \in Light!Shown
      BY DEF Light!Shown
    <3>3. leds' \in [Leds -> Light!Shown]
      BY <2>2, <2>5, <3>2 DEF Light!setled, StripTyped
    <3> QED BY <2>2, <2>5, <3>1, <3>3 DEF Light!setled, StripTyped
  <2>6. StripTyped'
    BY <1>2, <2>3, <2>4, <2>5 DEF Light!StripNext
  <2> QED BY <2>1, <2>6 DEF LightsInv
<1>3. CASE UNCHANGED Light!lightVars
  BY <1>3
     DEF LightsInv, PwmTyped, FadesOnTheWay, StripTyped, Light!FadeOver, OnTheWay, Light!Faded,
         Light!lightVars, Light!pwmVars, Light!ledVars
<1> QED BY <1>1, <1>2, <1>3 DEF Light!Next

\* ... and brings no channel further from its target.
LEMMA StepTowards ==
    ASSUME Light!LightsAssumption, LightsInv, [Light!Next]_(Light!lightVars)
    PROVE  [Light!FadesTowardsTarget]_(Light!lightVars)
<1> SUFFICES ASSUME Light!Next PROVE Light!FadesTowardsTarget
  OBVIOUS
<1>1. PwmTyped /\ FadesOnTheWay
  BY DEF LightsInv
<1>2. (\A c \in Channels : targetValues'[c] \in Int /\ currentValues[c] \in Int)
      /\ currentValues \in [Channels -> Light!Values]
      /\ targetValues \in [Channels -> Light!Values]
  BY <1>1, StepLight, LightValues DEF LightsInv, PwmTyped
<1>3. ASSUME currentValues' = currentValues
      PROVE  \A c \in Channels : Light!Distance(currentValues'[c], targetValues'[c])
                                     <= Light!Distance(currentValues[c], targetValues'[c])
  BY <1>2, <1>3 DEF Light!Distance
<1>4. ASSUME currentValues' = currentValues, targetValues' = targetValues,
             fadeIsComplete' = fadeIsComplete
      PROVE  Light!FadesTowardsTarget
  BY <1>1, <1>2, <1>3, <1>4 DEF FadesOnTheWay, Light!FadesTowardsTarget
<1>5. CASE Light!PWMNext /\ UNCHANGED Light!ledVars
  <2>1. CASE Light!PWMLoop
    BY <2>1, LoopLight
  <2>2. CASE Light!XtoPWMcalibrate
    BY <1>4, <2>2 DEF Light!XtoPWMcalibrate
  <2>3. ASSUME NEW modified \in SUBSET Channels, NEW target \in Light!Values, NEW fade
                   \in Fades,
               Light!XtoPWMset(modified, target, fade)
        PROVE  Light!FadesTowardsTarget
    <3>1. currentValues' = currentValues /\ fadeIsComplete' = FALSE
      BY <2>3 DEF Light!XtoPWMset
    <3> QED BY <1>3, <3>1 DEF Light!FadesTowardsTarget
  <2> QED BY <1>5, <2>1, <2>2, <2>3 DEF Light!PWMNext
<1>6. CASE Light!StripNext /\ UNCHANGED Light!pwmVars
  BY <1>4, <1>6 DEF Light!pwmVars
<1> QED BY <1>5, <1>6 DEF Light!Next

\* The invariant holds in every behaviour.
LEMMA LightHolds == PlatformSpec => []LightsInv
<1>1. Light!Init => LightsInv
  BY PlatformConstants, InitLight
<1>2. LightsInv /\ [Light!Next]_(Light!lightVars) => LightsInv'
  BY PlatformConstants, StepLight
<1> QED
  BY <1>1, <1>2, EachComponent, PTL DEF Light!Spec

-----------------------------------------------------------------------------
\* Sensors.  What each kind of sensor compares its readings with, and what it has told.

\* The input of two levels compares with what it has read, a conversion is a quantity.
Compared ==
    /\ kind = "GPIOInput" => persisted \in Sensor!Levels \cup {3}
    /\ kind \in {"ADC", "RN8209"} => persisted \in Sensor!Levels \cup {Sensor!NotRead}
    /\ persisted = Sensor!NotRead => kind = "ADC"
    /\ kind = "DS1820" => previousInput \in Sensor!Levels \cup {Sensor!NotRead}

\* Unless it is owed, what is compared with is what was told; a sensor that compares its
\* readings as they are has told the last, the others one as close as their threshold.
LastTold ==
    kind \notin Sensor!Untold /\ ~owed =>
        /\ persisted \in Sensor!Levels /\ kind \notin {"MQ2", "INA226"} => told = persisted
        /\ persisted = Sensor!NotRead => told = 0
        /\ reading # Sensor!NotRead
               => told <= reading + Sensor!Tolerance /\ told >= reading - Sensor!Tolerance

\* The invariant of the sensors.
SensorInv == Sensor!TypeOK /\ Compared /\ LastTold

\* Quantities are numbers, apart from what stands for none.
LEMMA LevelsAre ==
    ASSUME Sensor!SensorsAssumption
    PROVE  Sensor!Levels \subseteq Int /\ 0 \in Sensor!Levels /\ 1 \in Sensor!Levels
               /\ Sensor!NotRead \notin Sensor!Levels
           /\ Sensor!NaN \notin Sensor!Levels /\ Sensor!NaN # Sensor!NotRead
BY DEF Sensor!SensorsAssumption, Sensor!Levels, Sensor!NotRead, Sensor!NaN

\* The counts start at zero.
LEMMA CountsFromZero ==
    ASSUME Sensor!SensorsAssumption
    PROVE  0 \in 0..(DebounceDelay + TOUCH_MIN_DURATION + 1) /\ 0 \in 0..MaxTurns
BY DEF Sensor!SensorsAssumption

\* It holds from the start.
LEMMA InitSensor ==
    ASSUME Sensor!SensorsAssumption, Sensor!Init
    PROVE  SensorInv
<1>1. Sensor!TypeOK
  <2>1. persisted \in {0, 3, Sensor!NotRead} /\ previousInput \in {0, 3, Sensor!NotRead}
    BY DEF Sensor!Init
  <2> QED BY <2>1, LevelsAre, CountsFromZero DEF Sensor!Init, Sensor!TypeOK
<1>2. Compared
  BY LevelsAre DEF Sensor!Init, Compared, Sensor!NotRead
<1>3. LastTold
  BY LevelsAre DEF Sensor!Init, LastTold, Sensor!Untold
<1> QED BY <1>1, <1>2, <1>3 DEF SensorInv

\* What a step writes has its type.
WritesTyped ==
    /\ persisted' \in Sensor!Levels \cup {Sensor!NaN, Sensor!NotRead, 3}
    /\ reading' \in Sensor!Levels \cup {Sensor!NotRead}
    /\ told' \in Sensor!Levels \cup {Sensor!NotRead} /\ owed' \in BOOLEAN

\* A value is read, sent if it is another and now and then if it is not (TEMT6000).
Reads(v) == Sensor!OnChange(v) \/ (Sensor!Send(v) /\ persisted' = v /\ reading' = v)

\* A value that is sent when it has changed ...
LEMMA OnChangeHolds ==
    ASSUME Sensor!SensorsAssumption, SensorInv, NEW v \in Sensor!Levels, Reads(v),
           UNCHANGED <<kind, level, refusing>>, kind \notin {"MQ2", "INA226", "ADC", "RN8209"}
    PROVE  WritesTyped /\ LastTold' /\ persisted' \in Sensor!Levels
<1> USE DEF SensorInv
<1>1. /\ persisted' = v /\ reading' = v
      /\ \/ told' = told /\ owed' = owed /\ v = persisted
         \/ told' = told /\ refusing /\ owed' = refusing
         \/ told' = v /\ ~refusing /\ owed' = refusing
  BY DEF Reads, Sensor!OnChange, Sensor!Send, Sensor!NoSend
<1>2. Sensor!Tolerance' = 0 /\ v # Sensor!NotRead /\ v \in Int
  BY LevelsAre DEF Sensor!Tolerance
<1>3. told' \in Sensor!Levels \cup {Sensor!NotRead} /\ owed' \in BOOLEAN
  BY <1>1 DEF Sensor!TypeOK
<1>4. LastTold'
  BY <1>1, <1>2 DEF LastTold, Sensor!TypeOK, Sensor!Untold
<1> QED BY <1>1, <1>3, <1>4 DEF WritesTyped

\* ... a reading that fails ...
LEMMA FailsHolds ==
    ASSUME Sensor!SensorsAssumption, SensorInv,
           NEW left \in Sensor!Levels \cup {Sensor!NaN, Sensor!NotRead, 3}, Sensor!Fails(left),
           UNCHANGED <<kind, level, refusing>>,
           left = persisted \/ left = Sensor!NaN \/ kind \in Sensor!Untold
    PROVE  WritesTyped /\ LastTold'
<1> USE DEF SensorInv
<1>1. persisted' = left /\ UNCHANGED <<kind, reading, told, owed>>
  BY DEF Sensor!Fails, Sensor!NoSend
<1>2. Sensor!Tolerance' = Sensor!Tolerance
  BY <1>1 DEF Sensor!Tolerance
<1>3. LastTold'
  BY <1>1, <1>2, LevelsAre DEF LastTold
<1> QED BY <1>1, <1>3 DEF WritesTyped, Sensor!TypeOK

\* ... and a value that is sent every time.
LEMMA EveryTimeHolds ==
    ASSUME Sensor!SensorsAssumption, SensorInv, NEW v \in Sensor!Levels, Sensor!EveryTime(v),
           UNCHANGED <<kind, level, refusing>>, kind \in {"MQ2", "INA226"}
    PROVE  WritesTyped /\ LastTold'
<1> USE DEF SensorInv
<1>1. /\ persisted' = persisted /\ reading' = v
      /\ \/ told' = told /\ refusing /\ owed' = refusing
         \/ told' = v /\ ~refusing /\ owed' = refusing
  BY DEF Sensor!EveryTime, Sensor!Send
<1>2. Sensor!Tolerance' = 0 /\ v # Sensor!NotRead /\ v \in Int
  BY LevelsAre DEF Sensor!Tolerance
<1>3. told' \in Sensor!Levels \cup {Sensor!NotRead} /\ owed' \in BOOLEAN
  BY <1>1 DEF Sensor!TypeOK
<1>4. LastTold'
  BY <1>1, <1>2 DEF LastTold, Sensor!TypeOK, Compared
<1> QED BY <1>1, <1>3, <1>4 DEF WritesTyped, Sensor!TypeOK

\* A reading that is not sent differs little from the one that was.
LEMMA NearHolds ==
    ASSUME Sensor!SensorsAssumption, SensorInv, UNCHANGED <<kind, level, refusing>>,
           \/ kind = "ADC" /\ ~Sensor!Differs(level, Threshold)
           \/ kind = "RN8209" /\ ~Sensor!Differs(level, Threshold + 1),
           Sensor!NoSend, reading' = level, persisted' = persisted
    PROVE  WritesTyped /\ LastTold'
<1> USE DEF SensorInv
<1>1. Threshold \in Nat /\ level \in Int /\ level >= 0 /\ level # Sensor!NotRead
  BY LevelsAre DEF Sensor!SensorsAssumption, Sensor!TypeOK, Sensor!Levels
<1>2. UNCHANGED <<kind, told, owed>>
  BY DEF Sensor!NoSend
<1>3. WritesTyped
  BY <1>2 DEF WritesTyped, Sensor!TypeOK
<1>4. CASE ~owed /\ persisted \in Sensor!Levels
  <2>1. persisted \in Int /\ told = persisted
    BY <1>4, LevelsAre DEF LastTold, Sensor!Untold
  <2>2. /\ kind = "ADC" => Threshold # 0 /\ level < persisted + Threshold
               /\ level > persisted - Threshold
        /\ kind = "RN8209" => level < persisted + (Threshold + 1)
               /\ level > persisted - (Threshold + 1)
    BY <1>1, <2>1 DEF Sensor!Differs
  <2>3. told <= level + Sensor!Tolerance /\ told >= level - Sensor!Tolerance
    BY <1>1, <2>1, <2>2 DEF Sensor!Tolerance
  <2> QED
    BY <1>2, <1>3, <1>4, <2>1, <2>3
       DEF LastTold, Sensor!Tolerance, Sensor!NotRead, Sensor!Levels
<1>5. CASE ~owed /\ persisted = Sensor!NotRead
  <2>1. told = 0 /\ kind = "ADC"
    BY <1>5 DEF LastTold, Sensor!Untold, Compared
  <2>2. Threshold # 0 /\ level < Threshold - 1024
    BY <1>1, <1>5, <2>1 DEF Sensor!Differs, Sensor!NotRead
  <2>3. told <= level + Sensor!Tolerance /\ told >= level - Sensor!Tolerance
    BY <1>1, <2>1, <2>2 DEF Sensor!Tolerance
  <2> QED BY <1>2, <1>3, <1>5, <2>1, <2>3, LevelsAre DEF LastTold, Sensor!Tolerance
<1>6. CASE owed
  BY <1>2, <1>3, <1>6 DEF LastTold
<1> QED BY <1>4, <1>5, <1>6 DEF Compared

\* A reading that is sent is told.
LEMMA SentHolds ==
    ASSUME Sensor!SensorsAssumption, SensorInv, UNCHANGED <<kind, level, refusing>>,
           kind \in {"ADC", "RN8209"}, Sensor!Send(level), reading' = level, persisted' = level
    PROVE  WritesTyped /\ LastTold'
<1> USE DEF SensorInv
<1>1. Threshold \in Nat /\ level \in Int /\ level \in Sensor!Levels /\ level # Sensor!NotRead
  BY LevelsAre DEF Sensor!SensorsAssumption, Sensor!TypeOK
<1>2. \/ told' = told /\ owed' = TRUE
      \/ told' = level /\ owed' = FALSE
  BY DEF Sensor!Send, Sensor!TypeOK
<1>3. WritesTyped
  BY <1>1, <1>2 DEF WritesTyped, Sensor!TypeOK
<1>4. Sensor!Tolerance' \in Int /\ Sensor!Tolerance' >= 0
  BY <1>1 DEF Sensor!Tolerance
<1>5. LastTold'
  BY <1>1, <1>2, <1>4 DEF LastTold
<1> QED BY <1>3, <1>5

\* Kinds that are not told about.
LEMMA UntoldHolds ==
    ASSUME kind \in Sensor!Untold, kind' = kind
    PROVE  LastTold'
BY DEF LastTold

\* A key is told when it changes.
LEMMA KeyHolds ==
    ASSUME Sensor!SensorsAssumption, SensorInv, UNCHANGED <<kind, level, refusing>>,
           kind = "GPIOKeyCode", Sensor!GPIOKeyCode
    PROVE  WritesTyped /\ LastTold'
<1> USE DEF SensorInv
<1>1. /\ persisted' = level /\ reading' = level /\ owed' = owed
      /\ \/ told' = told /\ level = persisted
         \/ told' = level
  BY DEF Sensor!GPIOKeyCode
<1>2. /\ Sensor!Tolerance' = 0 /\ level # Sensor!NotRead /\ level \in Int
      /\ level \in Sensor!Levels
  BY LevelsAre DEF Sensor!Tolerance, Sensor!TypeOK
<1>3. told' \in Sensor!Levels \cup {Sensor!NotRead}
  BY <1>1, <1>2 DEF Sensor!TypeOK
<1>4. LastTold'
  BY <1>1, <1>2 DEF LastTold, Sensor!Untold
<1> QED BY <1>1, <1>2, <1>3, <1>4 DEF WritesTyped, Sensor!TypeOK

\* A step of a sensor that counts nothing.
LEMMA PlainHolds ==
    ASSUME Sensor!SensorsAssumption, SensorInv, UNCHANGED <<kind, level, refusing>>,
           Sensor!Simple, WritesTyped, LastTold', maySleep' \in BOOLEAN,
           kind \notin {"GPIOInput", "DS1820"},
           kind \in {"ADC", "RN8209"} => persisted' \in Sensor!Levels \cup {Sensor!NotRead},
           persisted' = Sensor!NotRead => kind = "ADC"
    PROVE  SensorInv'
<1>1. Sensor!TypeOK'
  BY DEF SensorInv, Sensor!TypeOK, WritesTyped, Sensor!Simple
<1>2. Compared'
  BY DEF Compared
<1> QED BY <1>1, <1>2 DEF SensorInv

\* A remainder is no larger than the number.
LEMMA RemainderUpTo ==
    ASSUME NEW a \in Nat, NEW b \in Nat \ {0}
    PROVE  a % b \in 0..a
OBVIOUS

\* A turn of a sensor keeps the invariant.
LEMMA MeasureHolds ==
    ASSUME Sensor!SensorsAssumption, SensorInv, Sensor!Measure,
           UNCHANGED <<kind, level, refusing>>
    PROVE  SensorInv'
<1>0. /\ level \in Sensor!Levels /\ maySleep \in BOOLEAN /\ 0 \in Sensor!Levels
      /\ Sensor!NaN # Sensor!NotRead /\ Sensor!NotRead \notin Sensor!Levels
  BY LevelsAre DEF SensorInv, Sensor!TypeOK
<1>1. ASSUME Sensor!Simple, maySleep' \in BOOLEAN,
                 kind \notin {"MQ2", "INA226", "ADC", "RN8209", "GPIOInput", "DS1820"},
             Reads(level)
      PROVE SensorInv'
  <2>1. WritesTyped /\ LastTold' /\ persisted' \in Sensor!Levels
    BY <1>0, <1>1, OnChangeHolds
  <2> QED BY <1>0, <1>1, <2>1, PlainHolds
<1>2. ASSUME Sensor!Simple, Sensor!Awake, kind \notin {"GPIOInput", "DS1820"},
             NEW left \in Sensor!Levels \cup {Sensor!NaN, Sensor!NotRead, 3},
                 Sensor!Fails(left),
             left = persisted \/ (left = Sensor!NaN /\ kind \notin {"ADC", "RN8209"})
                 \/ (kind = "BH1750" /\ left \in Sensor!Levels)
      PROVE SensorInv'
  <2>0. left = persisted \/ left = Sensor!NaN \/ kind \in Sensor!Untold
    BY <1>2 DEF Sensor!Untold
  <2>1. WritesTyped /\ LastTold'
    BY <1>2, <2>0, FailsHolds
  <2>2. persisted' = left /\ (persisted = Sensor!NotRead => kind = "ADC")
    BY <1>2 DEF Sensor!Fails, SensorInv, Compared
  <2>3. kind \in {"ADC", "RN8209"} => persisted' \in Sensor!Levels \cup {Sensor!NotRead}
    BY <1>2, <2>2 DEF SensorInv, Compared
  <2>4. persisted' = Sensor!NotRead => kind = "ADC"
    BY <1>0, <1>2, <2>2
  <2>5. maySleep' \in BOOLEAN
    BY <1>0, <1>2 DEF Sensor!Awake
  <2> QED BY <1>2, <2>1, <2>3, <2>4, <2>5, PlainHolds
<1>3. /\ persisted \in Sensor!Levels \cup {Sensor!NaN, Sensor!NotRead, 3}
      /\ Sensor!NaN \in Sensor!Levels \cup {Sensor!NaN, Sensor!NotRead, 3}
  BY DEF SensorInv, Sensor!TypeOK
<1>4. Sensor!Awake => maySleep' \in BOOLEAN
  BY <1>0 DEF Sensor!Awake
<1>k1. CASE kind = "BME280"
  BY <1>1, <1>2, <1>3, <1>4, <1>k1 DEF Sensor!Measure, Sensor!BME280, Reads
<1>k2. CASE kind = "HTU21"
  BY <1>1, <1>2, <1>3, <1>4, <1>k2 DEF Sensor!Measure, Sensor!HTU21, Reads, Sensor!FailsKept
<1>k3. CASE kind = "AHTx0"
  BY <1>1, <1>2, <1>3, <1>4, <1>k3 DEF Sensor!Measure, Sensor!AHTx0, Reads, Sensor!FailsKept
<1>k4. CASE kind = "SHTC3"
  BY <1>1, <1>2, <1>3, <1>4, <1>k4 DEF Sensor!Measure, Sensor!SHTC3, Reads, Sensor!FailsKept
<1>k5. CASE kind = "LM75"
  BY <1>1, <1>2, <1>3, <1>4, <1>k5 DEF Sensor!Measure, Sensor!LM75, Reads, Sensor!FailsKept
<1>k6. CASE kind = "DHT" BY <1>1, <1>2, <1>3, <1>4, <1>k6 DEF Sensor!Measure, Sensor!DHT, Reads
<1>k7. CASE kind = "BH1750"
  BY <1>1, <1>2, <1>3, <1>4, <1>k7 DEF Sensor!Measure, Sensor!BH1750, Reads
<1>k8. CASE kind = "TSL2561"
  BY <1>1, <1>2, <1>3, <1>4, <1>k8 DEF Sensor!Measure, Sensor!TSL2561, Reads, Sensor!FailsKept
<1>k9. CASE kind = "TEMT6000"
  BY <1>1, <1>2, <1>3, <1>4, <1>k9 DEF Sensor!Measure, Sensor!TEMT6000, Reads
<1>k10. CASE kind = "HCSR501"
  BY <1>1, <1>2, <1>3, <1>4, <1>k10 DEF Sensor!Measure, Sensor!HCSR501, Reads
<1>k11. CASE kind = "C37"
  <2>1. Sensor!C37_YL83_HMRD
    BY <1>k11 DEF Sensor!Measure
  <2>2. maySleep' \in BOOLEAN
    BY <2>1, Zenon DEF Sensor!C37_YL83_HMRD
  <2> QED BY <1>1, <1>k11, <2>1, <2>2 DEF Sensor!C37_YL83_HMRD, Reads
<1>k12. CASE kind = "DS1820"
  <2>0. /\ Sensor!DS1820 /\ persisted # Sensor!NotRead
        /\ previousInput \in Sensor!Levels \cup {Sensor!NotRead}
    BY <1>k12 DEF Sensor!Measure, SensorInv, Compared
  <2>1. CASE previousInput = Sensor!NotRead
    <3>1. previousInput' = level /\ UNCHANGED <<persisted, reading, told, owed, maySleep, count,
              now, changed, kind, level, refusing>>
      BY <2>0, <2>1 DEF Sensor!DS1820, Sensor!NoSend, Sensor!Awake
    <3>2. Sensor!TypeOK'
      BY <1>0, <3>1 DEF SensorInv, Sensor!TypeOK
    <3>3. LastTold'
      BY <3>1 DEF SensorInv, LastTold, Sensor!Tolerance
    <3> QED BY <1>0, <1>k12, <2>0, <3>1, <3>2, <3>3 DEF SensorInv, Compared
  <2>2. CASE previousInput # Sensor!NotRead
    <3>1. /\ previousInput' = Sensor!NotRead /\ UNCHANGED <<count, now, changed>>
          /\ \/ Sensor!Fails(Sensor!NaN) /\ Sensor!Awake
             \/ Sensor!OnChange(previousInput) /\ maySleep'
                    = (maySleep \/ previousInput # persisted \/ Always)
      BY <2>0, <2>2 DEF Sensor!DS1820
    <3>2. WritesTyped /\ LastTold' /\ persisted' # Sensor!NotRead
      <4>1. CASE Sensor!Fails(Sensor!NaN)
        BY <1>0, <1>3, <4>1, FailsHolds DEF Sensor!Fails
      <4>2. CASE Sensor!OnChange(previousInput)
        BY <1>0, <1>k12, <2>0, <2>2, <4>2, OnChangeHolds DEF Reads, Sensor!OnChange
      <4> QED BY <3>1, <4>1, <4>2
    <3>3. maySleep' \in BOOLEAN
      <4>1. CASE Sensor!Awake BY <1>4, <4>1
      <4>2. CASE maySleep' = (maySleep \/ previousInput # persisted \/ Always)
        BY <4>2, Zenon
      <4> QED BY <3>1, <4>1, <4>2
    <3>4. Sensor!TypeOK'
      BY <3>1, <3>2, <3>3 DEF SensorInv, Sensor!TypeOK, WritesTyped
    <3> QED BY <1>k12, <3>1, <3>2, <3>4 DEF SensorInv, Compared
  <2> QED BY <2>1, <2>2
<1>5. ASSUME kind \in {"MQ2", "INA226"}, NEW v \in Sensor!Levels, Sensor!EveryTime(v)
      PROVE  SensorInv'
  <2>1. WritesTyped /\ LastTold'
    BY <1>5, EveryTimeHolds
  <2>2. /\ persisted' = persisted /\ Sensor!Simple /\ Sensor!Awake
        /\ (persisted = Sensor!NotRead => kind = "ADC")
    BY <1>5 DEF Sensor!EveryTime, SensorInv, Compared
  <2> QED BY <1>4, <1>5, <2>1, <2>2, PlainHolds
<1>k13. CASE kind = "MQ2" BY <1>0, <1>5, <1>k13 DEF Sensor!Measure, Sensor!MQ2
<1>k14. CASE kind = "INA226" BY <1>0, <1>5, <1>k14 DEF Sensor!Measure, Sensor!INA226
<1>k15. CASE kind = "HCSR04"
  <2>1. /\ persisted' = level /\ reading' = level /\ UNCHANGED <<told, owed>> /\ Sensor!Simple
        /\ Sensor!Awake
    BY <1>k15 DEF Sensor!Measure, Sensor!HCSR04, Sensor!NoSend
  <2>2. WritesTyped
    BY <1>0, <2>1 DEF SensorInv, Sensor!TypeOK, WritesTyped
  <2>3. LastTold'
    BY <1>k15, UntoldHolds DEF Sensor!Untold
  <2> QED BY <1>0, <1>4, <1>k15, <2>1, <2>2, <2>3, PlainHolds
<1>6. ASSUME kind \in {"ADC", "RN8209"}, Sensor!Send(level), persisted' = level,
             reading' = level, Sensor!Simple, Sensor!Awake
      PROVE  SensorInv'
  <2>1. WritesTyped /\ LastTold'
    BY <1>6, SentHolds
  <2> QED BY <1>0, <1>4, <1>6, <2>1, PlainHolds
<1>7. ASSUME \/ kind = "ADC" /\ ~Sensor!Differs(level, Threshold)
             \/ kind = "RN8209" /\ ~Sensor!Differs(level, Threshold + 1),
             Sensor!NoSend, persisted' = persisted, reading' = level, Sensor!Simple,
                 Sensor!Awake
      PROVE  SensorInv'
  <2>1. WritesTyped /\ LastTold'
    BY <1>7, NearHolds
  <2> QED BY <1>0, <1>4, <1>7, <2>1, PlainHolds DEF SensorInv, Compared
<1>k16. CASE kind = "ADC" BY <1>6, <1>7, <1>k16 DEF Sensor!Measure, Sensor!ADC
<1>k17. CASE kind = "RN8209"
  BY <1>2, <1>3, <1>6, <1>7, <1>k17 DEF Sensor!Measure, Sensor!RN8209, Sensor!FailsKept
<1>k18. CASE kind = "GPIOKeyCode"
  <2>1. Sensor!GPIOKeyCode
    BY <1>k18 DEF Sensor!Measure
  <2>2. WritesTyped /\ LastTold'
    BY <1>k18, <2>1, KeyHolds
  <2> QED BY <1>0, <1>4, <1>k18, <2>1, <2>2, PlainHolds DEF Sensor!GPIOKeyCode
<1>k19. CASE kind = "GPIOInput"
  <2>1. /\ Sensor!MeasureGPIOInput /\ persisted \in Sensor!Levels \cup {3}
        /\ DebounceDelay \in Nat /\ TOUCH_MIN_DURATION \in Nat
        /\ count \in 0..(DebounceDelay + TOUCH_MIN_DURATION + 1)
    BY <1>k19 DEF Sensor!Measure, SensorInv, Sensor!TypeOK, Compared, Sensor!SensorsAssumption
  <2>2. count' \in 0..(DebounceDelay + TOUCH_MIN_DURATION + 1)
    BY <2>1 DEF Sensor!MeasureGPIOInput
  <2>3. /\ persisted' \in Sensor!Levels \cup {3}
        /\ reading' \in Sensor!Levels \cup {Sensor!NotRead}
        /\ told' \in Sensor!Levels \cup {Sensor!NotRead} /\ owed' \in BOOLEAN
    <3>1. CASE ~(count' > DebounceDelay /\ level # persisted)
      <4>1. Sensor!NoSend /\ UNCHANGED <<persisted, reading>>
        BY <2>1, <3>1 DEF Sensor!MeasureGPIOInput
      <4> QED BY <2>1, <4>1 DEF Sensor!NoSend, SensorInv, Sensor!TypeOK
    <3>2. CASE count' > DebounceDelay /\ level # persisted
      <4>1. persisted' = level /\ reading' = level
        BY <2>1, <3>2 DEF Sensor!MeasureGPIOInput
      <4>2. CASE persisted = 3
        <5>1. Sensor!NoSend
          BY <2>1, <3>2, <4>2 DEF Sensor!MeasureGPIOInput
        <5> QED BY <1>0, <4>1, <5>1 DEF Sensor!NoSend, SensorInv, Sensor!TypeOK
      <4>3. CASE persisted # 3
        <5>1. Sensor!Send(persisted)
          BY <2>1, <3>2, <4>3 DEF Sensor!MeasureGPIOInput
        <5> QED BY <1>0, <2>1, <4>1, <4>3, <5>1 DEF Sensor!Send, SensorInv, Sensor!TypeOK
      <4> QED BY <4>2, <4>3
    <3> QED BY <3>1, <3>2
  <2>4. previousInput' = level /\ UNCHANGED <<now, changed, maySleep, kind, level, refusing>>
    BY <2>1 DEF Sensor!MeasureGPIOInput, Sensor!Awake
  <2>5. Sensor!TypeOK'
    BY <2>2, <2>3, <2>4 DEF SensorInv, Sensor!TypeOK
  <2>6. LastTold'
    BY <1>k19, UntoldHolds DEF Sensor!Untold
  <2>7. Compared'
    BY <1>0, <1>k19, <2>3, <2>4 DEF Compared, Sensor!NotRead, Sensor!Levels
  <2> QED BY <2>5, <2>6, <2>7 DEF SensorInv
<1>k20. CASE kind = "Touch"
  <2>1. /\ Sensor!MeasureTouch /\ DebounceDelay \in Nat /\ TOUCH_MIN_DURATION \in Nat
        /\ MaxTurns \in Nat
        /\ TouchWrap \in Nat \ {0} /\ now \in 0..MaxTurns /\ level \in Int
        /\ count \in 0..(DebounceDelay + TOUCH_MIN_DURATION + 1)
    BY <1>0, <1>k20, LevelsAre
       DEF Sensor!Measure, SensorInv, Sensor!TypeOK, Sensor!SensorsAssumption
  <2>2. now' \in 0..MaxTurns /\ count' \in 0..(DebounceDelay + TOUCH_MIN_DURATION + 1)
    BY <2>1 DEF Sensor!MeasureTouch
  <2>3. now % TouchWrap \in 0..MaxTurns
    BY <2>1, RemainderUpTo
  <2>4. \/ /\ persisted' = level /\ reading' = level
           /\ changed' = now % TouchWrap
           /\ Sensor!Send(level) \/ Sensor!NoSend
        \/ Sensor!NoSend /\ UNCHANGED <<persisted, reading, changed>>
    BY <2>1 DEF Sensor!MeasureTouch
  <2>5. WritesTyped /\ changed' \in 0..MaxTurns
    BY <1>0, <2>3, <2>4 DEF Sensor!NoSend, Sensor!Send, SensorInv, Sensor!TypeOK, WritesTyped
  <2>6. UNCHANGED <<previousInput, maySleep, kind, level, refusing>>
    BY <2>1 DEF Sensor!MeasureTouch, Sensor!Awake
  <2>7. Sensor!TypeOK'
    BY <2>2, <2>5, <2>6 DEF SensorInv, Sensor!TypeOK, WritesTyped
  <2>8. LastTold'
    BY <1>k20, UntoldHolds DEF Sensor!Untold
  <2>9. Compared'
    BY <1>0, <1>k20, <2>4, <2>6 DEF SensorInv, Compared
  <2> QED BY <2>7, <2>8, <2>9 DEF SensorInv
<1> QED
  BY <1>k1, <1>k2, <1>k3, <1>k4, <1>k5, <1>k6, <1>k7, <1>k8, <1>k9, <1>k10, <1>k11, <1>k12,
     <1>k13, <1>k14, <1>k15, <1>k16, <1>k17, <1>k18, <1>k19, <1>k20
     DEF Sensor!Measure

\* Every step keeps the invariant ...
LEMMA StepSensor ==
    ASSUME Sensor!SensorsAssumption, SensorInv, [Sensor!Next]_(Sensor!sensorVars)
    PROVE  SensorInv'
<1>1. CASE Sensor!Measure /\ UNCHANGED <<kind, level, refusing>>
  BY <1>1, MeasureHolds
<1>2. CASE Sensor!Changes
  <2>1. level' \in Sensor!Levels
    BY <1>2, LevelsAre DEF Sensor!Changes
  <2>2. Sensor!TypeOK'
    BY <1>2, <2>1 DEF Sensor!Changes, SensorInv, Sensor!TypeOK
  <2>3. LastTold' /\ Compared'
    BY <1>2 DEF Sensor!Changes, SensorInv, LastTold, Compared, Sensor!Tolerance
  <2> QED BY <2>2, <2>3 DEF SensorInv
<1>3. CASE UNCHANGED Sensor!sensorVars
  BY <1>3 DEF Sensor!sensorVars, SensorInv, Sensor!TypeOK, LastTold, Compared, Sensor!Tolerance
<1> QED BY <1>1, <1>2, <1>3 DEF Sensor!Next

\* ... and what is checked is part of it.
LEMMA SensorReported == SensorInv => Sensor!Reported
BY DEF SensorInv, LastTold, Sensor!Reported

\* The invariant holds in every behaviour.
LEMMA SensorHolds == PlatformSpec => []SensorInv
<1>1. Sensor!Init => SensorInv
  BY PlatformConstants, InitSensor
<1>2. SensorInv /\ [Sensor!Next]_(Sensor!sensorVars) => SensorInv'
  BY PlatformConstants, StepSensor
<1> QED
  BY <1>1, <1>2, EachComponent, PTL DEF Sensor!Spec

-----------------------------------------------------------------------------
\* Display.  The accounting of the messages is inductive once it is known that none is
\* younger than the last one built: a new one differs from those that are there.

\* The types of the variables the messages are kept in.
MessagesTyped ==
    /\ webUIQueue \in Seq(Screen!Messages)
    /\ currentWebUIMessage \in Screen!Messages \cup {Screen!None}
    /\ built \in 0..MaxMessages /\ newSSD1306Message \in BOOLEAN

\* No message waits, or is current, that was not built.
OnlyBuilt ==
    /\ currentWebUIMessage <= built
    /\ \A i \in DOMAIN webUIQueue : webUIQueue[i] <= built

\* The inductive invariant.
MessagesInv == MessagesTyped /\ OnlyBuilt /\ Screen!MessagesAccounted

-----------------------------------------------------------------------------

\* The elements of a sequence with one more at its end, and without its first.
LEMMA AppendedRange ==
    ASSUME NEW S, NEW s \in Seq(S), NEW m \in S
    PROVE  Screen!Range(Append(s, m)) = Screen!Range(s) \cup {m}
<1> DEFINE t == Append(s, m)
<1>1. /\ DOMAIN t = DOMAIN s \cup {Len(s) + 1}
      /\ \A i \in DOMAIN s : t[i] = s[i]
      /\ t[Len(s) + 1] = m
  OBVIOUS
<1> HIDE DEF t
<1> QED
  BY <1>1 DEF Screen!Range

\* What a sequence holds besides its head.
LEMMA TailRange ==
    ASSUME NEW S, NEW s \in Seq(S), s # <<>>
    PROVE  Screen!Range(s) = {Head(s)} \cup Screen!Range(Tail(s))
<1>1. /\ DOMAIN s = 1..Len(s) /\ Len(s) \in Nat \ {0} /\ Head(s) = s[1]
      /\ DOMAIN Tail(s) = 1..(Len(s) - 1)
      /\ \A i \in 1..(Len(s) - 1) : Tail(s)[i] = s[i + 1]
  OBVIOUS
<1>2. ASSUME NEW i \in DOMAIN s
      PROVE  s[i] \in {Head(s)} \cup Screen!Range(Tail(s))
  <2>1. CASE i = 1
    BY <1>1, <2>1
  <2>2. CASE i # 1
    <3>1. i - 1 \in 1..(Len(s) - 1) /\ Tail(s)[i - 1] = s[(i - 1) + 1] /\ (i - 1) + 1 = i
      BY <1>1, <2>2
    <3> QED
      BY <1>1, <3>1 DEF Screen!Range
  <2> QED
    BY <2>1, <2>2
<1>3. ASSUME NEW i \in DOMAIN Tail(s)
      PROVE  Tail(s)[i] \in Screen!Range(s)
  <2>1. i + 1 \in DOMAIN s /\ Tail(s)[i] = s[i + 1]
    BY <1>1
  <2> QED
    BY <2>1 DEF Screen!Range
<1>4. Head(s) \in Screen!Range(s)
  BY <1>1 DEF Screen!Range
<1> QED
  BY <1>2, <1>3, <1>4 DEF Screen!Range

\* What waits in the queue are numbers.
LEMMA QueuedAreNat ==
    ASSUME MessagesTyped
    PROVE  /\ \A i \in DOMAIN webUIQueue : webUIQueue[i] \in Nat
           /\ currentWebUIMessage \in Nat
<1>1. \A i \in DOMAIN webUIQueue : webUIQueue[i] \in Screen!Messages
  BY DEF MessagesTyped
<1>2. Screen!Messages \subseteq Nat
  BY DEF Screen!Messages
<1>3. currentWebUIMessage \in Screen!Messages \cup {Screen!None}
  BY DEF MessagesTyped
<1>4. Screen!None \in Nat
  BY DEF Screen!None
<1>5. \A i \in DOMAIN webUIQueue : webUIQueue[i] \in Nat
  BY <1>1, <1>2, Zenon
<1>6. currentWebUIMessage \in Nat
  BY <1>2, <1>3, <1>4, Zenon
<1> QED
  BY <1>5, <1>6

\* Nothing waits in an empty queue.
LEMMA EmptyRange == Screen!Range(<<>>) = {} /\ DOMAIN <<>> = {} /\ \A S : <<>> \in Seq(S)
BY DEF Screen!Range

-----------------------------------------------------------------------------

\* It holds from the start ...
LEMMA InitMessages ==
    ASSUME Screen!DisplayAssumption, Screen!Init
    PROVE  MessagesInv
<1>1. /\ webUIQueue = <<>> /\ currentWebUIMessage = Screen!None /\ heap = {} /\ built = 0
      /\ newSSD1306Message = FALSE
  BY DEF Screen!Init
<1>2. MessagesTyped
  <2>1. built \in 0..MaxMessages
    BY <1>1 DEF Screen!DisplayAssumption
  <2>2. /\ webUIQueue \in Seq(Screen!Messages)
        /\ currentWebUIMessage \in Screen!Messages \cup {Screen!None}
    BY <1>1, EmptyRange
  <2>3. newSSD1306Message \in BOOLEAN
    BY <1>1
  <2> QED
    BY <2>1, <2>2, <2>3 DEF MessagesTyped
<1>3. OnlyBuilt
  BY <1>1, EmptyRange DEF OnlyBuilt, Screen!None
<1>4. Screen!MessagesAccounted
  BY <1>1, EmptyRange DEF Screen!MessagesAccounted
<1> QED
  BY <1>2, <1>3, <1>4 DEF MessagesInv

\* A document becomes the youngest message: it is queued, or freed at once.
LEMMA PrintMessages ==
    ASSUME Screen!DisplayAssumption, MessagesInv, Screen!webUIPubPrint
    PROVE  MessagesInv'
<1> USE DEF MessagesInv
<1> DEFINE m == built + 1
<1>1. /\ m \in Screen!Messages /\ built' = m /\ m \in 0..MaxMessages
      /\ UNCHANGED <<currentWebUIMessage, newSSD1306Message>>
  BY DEF Screen!webUIPubPrint, MessagesTyped, Screen!Messages, Screen!DisplayAssumption
<1>2. Screen!Send(m) \/ Screen!Discard
  BY DEF Screen!webUIPubPrint, Screen!SYStoMQTT, Screen!RTL_433toMQTT, Screen!CLIMAtoMQTT,
         Screen!BTtoMQTT, Screen!RN8209toMQTT, Screen!LORAtoMQTT
<1>3. CASE webUIQueue' = Append(webUIQueue, m) /\ heap' = heap \cup {m}
  <2>1. /\ webUIQueue' \in Seq(Screen!Messages)
        /\ Screen!Range(webUIQueue') = Screen!Range(webUIQueue) \cup {m}
    BY <1>1, <1>3, AppendedRange DEF MessagesTyped
  <2>2. /\ DOMAIN webUIQueue' = 1..(Len(webUIQueue) + 1) /\ Len(webUIQueue) \in Nat
        /\ DOMAIN webUIQueue = 1..Len(webUIQueue)
        /\ webUIQueue'[Len(webUIQueue) + 1] = m
        /\ \A i \in 1..Len(webUIQueue) : webUIQueue'[i] = webUIQueue[i]
    BY <1>1, <1>3 DEF MessagesTyped
  <2>3. \A i \in DOMAIN webUIQueue : webUIQueue[i] \in Nat /\ webUIQueue[i] < m
    BY QueuedAreNat DEF OnlyBuilt, MessagesTyped
  <2>4. currentWebUIMessage < m /\ currentWebUIMessage \in Nat /\ m \in Nat
    BY QueuedAreNat DEF OnlyBuilt, MessagesTyped
  <2> HIDE DEF m
  <2>5. OnlyBuilt'
    BY <1>1, <2>2, <2>3, <2>4 DEF OnlyBuilt
  <2>6. ASSUME NEW i \in DOMAIN webUIQueue'
        PROVE  /\ currentWebUIMessage' < webUIQueue'[i]
               /\ \A j \in 1..(i - 1) : webUIQueue'[j] < webUIQueue'[i]
    <3>1. CASE i = Len(webUIQueue) + 1
      BY <1>1, <2>2, <2>3, <2>4, <3>1
    <3>2. CASE i \in 1..Len(webUIQueue)
      BY <1>1, <2>2, <3>2 DEF Screen!MessagesAccounted
    <3> QED
      BY <2>2, <3>1, <3>2
  <2>7. Screen!MessagesAccounted'
    BY <1>1, <1>3, <2>1, <2>6 DEF Screen!MessagesAccounted
  <2>8. MessagesTyped'
    BY <1>1, <2>1 DEF MessagesTyped
  <2> QED
    BY <2>5, <2>7, <2>8
<1>4. CASE UNCHANGED <<webUIQueue, heap>>
  <2>1. MessagesTyped' /\ Screen!MessagesAccounted'
    BY <1>1, <1>4 DEF MessagesTyped, Screen!MessagesAccounted
  <2>2. OnlyBuilt'
    <3>1. built \in Nat
      BY DEF MessagesTyped
    <3> QED
      BY <1>1, <1>4, <3>1, QueuedAreNat DEF OnlyBuilt
  <2> QED
    BY <2>1, <2>2
<1> QED
  BY <1>2, <1>3, <1>4 DEF Screen!Send, Screen!Discard

\* The oldest message becomes current, the one that was is freed.
LEMMA LoopMessages ==
    ASSUME Screen!DisplayAssumption, MessagesInv, Screen!WebUILoop
    PROVE  MessagesInv'
<1> USE DEF MessagesInv
<1>1. /\ webUIQueue # <<>> /\ webUIQueue' = Tail(webUIQueue)
      /\ currentWebUIMessage' = Head(webUIQueue)
      /\ heap' = heap \ {currentWebUIMessage} /\ newSSD1306Message' = TRUE
      /\ built' = built
  BY DEF Screen!WebUILoop
<1>2. /\ DOMAIN webUIQueue = 1..Len(webUIQueue) /\ Len(webUIQueue) \in Nat \ {0}
      /\ Head(webUIQueue) = webUIQueue[1]
      /\ DOMAIN webUIQueue' = 1..(Len(webUIQueue) - 1)
      /\ \A i \in 1..(Len(webUIQueue) - 1) : webUIQueue'[i] = webUIQueue[i + 1]
      /\ webUIQueue' \in Seq(Screen!Messages)
      /\ \A i \in 1..Len(webUIQueue) : webUIQueue[i] \in Screen!Messages
  BY <1>1 DEF MessagesTyped
<1>3. Screen!Range(webUIQueue) = {currentWebUIMessage'} \cup Screen!Range(webUIQueue')
  BY <1>1, TailRange DEF MessagesTyped
<1>4. /\ currentWebUIMessage \in Nat
      /\ \A k \in Screen!Range(webUIQueue) : k \in Screen!Messages /\ currentWebUIMessage < k
             /\ k # Screen!None
  BY <1>2
     DEF Screen!MessagesAccounted, MessagesTyped, Screen!Messages, Screen!None, Screen!Range
<1>5. heap' = Screen!Range(webUIQueue)
  BY <1>1, <1>4 DEF Screen!MessagesAccounted
<1>6. heap' = Screen!Range(webUIQueue') \cup ({currentWebUIMessage'} \ {Screen!None})
  BY <1>3, <1>4, <1>5
<1>7. ASSUME NEW i \in DOMAIN webUIQueue'
      PROVE  /\ currentWebUIMessage' < webUIQueue'[i]
             /\ \A j \in 1..(i - 1) : webUIQueue'[j] < webUIQueue'[i]
  <2>1. /\ i + 1 \in 1..Len(webUIQueue) /\ webUIQueue'[i] = webUIQueue[i + 1]
        /\ 1 \in 1..((i + 1) - 1)
    BY <1>2
  <2>2. \A j \in 1..((i + 1) - 1) : webUIQueue[j] < webUIQueue[i + 1]
    BY <1>2, <2>1 DEF Screen!MessagesAccounted
  <2>3. ASSUME NEW j \in 1..(i - 1)
        PROVE  webUIQueue'[j] < webUIQueue'[i]
    <3>1. j + 1 \in 1..((i + 1) - 1) /\ webUIQueue'[j] = webUIQueue[j + 1]
      BY <1>2
    <3> QED
      BY <2>1, <2>2, <3>1
  <2> QED
    BY <1>1, <1>2, <2>1, <2>2, <2>3
<1>8. newSSD1306Message' => currentWebUIMessage' \in heap'
  BY <1>3, <1>5
<1>9. OnlyBuilt'
  BY <1>1, <1>2 DEF OnlyBuilt
<1>10. MessagesTyped'
  BY <1>1, <1>2 DEF MessagesTyped
<1> QED
  BY <1>6, <1>7, <1>8, <1>9, <1>10 DEF Screen!MessagesAccounted

\* Nothing else touches the messages, but for the mark that one was shown.
LEMMA RestMessages ==
    ASSUME MessagesInv, UNCHANGED <<webUIQueue, currentWebUIMessage, heap, built>>,
           newSSD1306Message' \in {FALSE, newSSD1306Message}
    PROVE  MessagesInv'
<1>1. OnlyBuilt'
  BY DEF MessagesInv, OnlyBuilt
<1>2. newSSD1306Message' \in BOOLEAN /\ (newSSD1306Message' => newSSD1306Message)
  <2>1. CASE newSSD1306Message' = FALSE
    BY <2>1, Zenon
  <2>2. CASE newSSD1306Message' = newSSD1306Message
    BY <2>2, Zenon DEF MessagesInv, MessagesTyped
  <2> QED
    BY <2>1, <2>2
<1>3. MessagesTyped'
  BY <1>2 DEF MessagesInv, MessagesTyped
<1>4. Screen!MessagesAccounted'
  BY <1>2, Zenon DEF MessagesInv, Screen!MessagesAccounted
<1> QED
  BY <1>1, <1>3, <1>4 DEF MessagesInv

\* ... and every step keeps it.
LEMMA StepMessages ==
    ASSUME Screen!DisplayAssumption, MessagesInv, [Screen!Next]_(Screen!displayVars)
    PROVE  MessagesInv'
<1>1. CASE Screen!webUIPubPrint
  BY <1>1, PrintMessages
<1>2. CASE Screen!WebUILoop
  BY <1>2, LoopMessages
<1>3. CASE Screen!loopSSD1306
  BY <1>3, RestMessages DEF Screen!loopSSD1306, Screen!Page, Screen!Logo
<1>4. CASE Screen!write
  BY <1>4, RestMessages DEF Screen!write
<1>5. CASE Screen!XtoSSD1306
  BY <1>5, RestMessages DEF Screen!XtoSSD1306
<1>6. CASE Screen!Restart
  <2>1. /\ webUIQueue' = <<>> /\ currentWebUIMessage' = Screen!None /\ heap' = {}
        /\ newSSD1306Message' = FALSE /\ built' = built
    BY <1>6 DEF Screen!Restart
  <2>2. built \in 0..MaxMessages
    BY DEF MessagesInv, MessagesTyped
  <2>3. MessagesTyped'
    BY <2>1, <2>2, EmptyRange DEF MessagesTyped
  <2>4. OnlyBuilt'
    BY <2>1, <2>2, EmptyRange DEF OnlyBuilt, Screen!None
  <2>5. Screen!MessagesAccounted'
    BY <2>1, EmptyRange DEF Screen!MessagesAccounted
  <2> QED
    BY <2>3, <2>4, <2>5 DEF MessagesInv
<1>7. CASE UNCHANGED Screen!displayVars
  BY <1>7, RestMessages DEF Screen!displayVars
<1> QED
  BY <1>1, <1>2, <1>3, <1>4, <1>5, <1>6, <1>7 DEF Screen!Next

\* The types of what the screen shows, and is for.
ScreenTyped ==
    /\ config \in Screen!Configs /\ saved \in Screen!Configs \cup {Screen!NotSaved}
    /\ sink \in {"web", "serial", "oled"} /\ screen \in Screen!Messages \cup {Screen!None}
    /\ logoDisplayed \in BOOLEAN

\* The configurations that are set, saved and loaded are such.
LEMMA ScreenConfigs ==
    ASSUME Screen!DisplayAssumption
    PROVE  /\ Screen!SSD1306Config_init \in Screen!Configs
           /\ \A c \in Screen!Configs \cup {Screen!NotSaved} : Screen!Setup(c)
                  \in Screen!Configs
<1>1. Screen!SSD1306Config_init \in Screen!Configs
  BY DEF Screen!DisplayAssumption, Screen!SSD1306Config_init, Screen!Configs
<1>2. ASSUME NEW c \in Screen!Configs \cup {Screen!NotSaved}
      PROVE  Screen!Setup(c) \in Screen!Configs
  <2>1. ASSUME NEW d \in Screen!Configs
        PROVE  [d EXCEPT !.jsonDisplay = ~LOG_TO_OLED] \in Screen!Configs
    BY DEF Screen!DisplayAssumption, Screen!Configs
  <2> DEFINE loaded == IF c = Screen!NotSaved THEN Screen!SSD1306Config_init ELSE c
  <2>2. loaded \in Screen!Configs
    BY <1>1, <1>2
  <2> HIDE DEF loaded
  <2>3. [loaded EXCEPT !.jsonDisplay = ~LOG_TO_OLED] \in Screen!Configs
    BY <2>1, <2>2
  <2> QED BY <2>3 DEF Screen!Setup, loaded
<1> QED BY <1>1, <1>2

\* The screen's variables have their types when it is set up ...
LEMMA InitScreen ==
    ASSUME Screen!DisplayAssumption, Screen!Init
    PROVE  ScreenTyped
BY ScreenConfigs DEF Screen!Init, ScreenTyped

\* ... and keep them.
LEMMA StepScreen ==
    ASSUME Screen!DisplayAssumption, MessagesInv, ScreenTyped,
           [Screen!Next]_(Screen!displayVars)
    PROVE  ScreenTyped'
<1> USE DEF ScreenTyped
<1>1. CASE Screen!webUIPubPrint BY <1>1 DEF Screen!webUIPubPrint, Screen!screenVars
<1>2. CASE Screen!WebUILoop BY <1>2 DEF Screen!WebUILoop, Screen!screenVars
<1>3. CASE Screen!loopSSD1306
  BY <1>3 DEF Screen!loopSSD1306, Screen!Page, Screen!Logo, MessagesInv, MessagesTyped
<1>4. CASE Screen!write BY <1>4 DEF Screen!write
<1>5. CASE Screen!XtoSSD1306
  <2>0. UNCHANGED <<screen, logoDisplayed>>
    BY <1>5 DEF Screen!XtoSSD1306
  <2>1. ASSUME NEW on \in BOOLEAN, Screen!SetLog(on) \/ Screen!SetJson(on), UNCHANGED saved
        PROVE  ScreenTyped'
    <3>1. sink' \in {"web", "serial", "oled"}
      BY <2>1 DEF Screen!SetLog, Screen!SetJson, Screen!logToOLED
    <3>2. config' \in Screen!Configs
      BY <2>1 DEF Screen!SetLog, Screen!SetJson, Screen!Configs
    <3> QED BY <2>0, <2>1, <3>1, <3>2
  <2>2. ASSUME NEW state \in BOOLEAN, NEW logo \in BOOLEAN, Screen!SetScreen(state, logo),
               UNCHANGED saved
        PROVE  ScreenTyped'
    BY <2>0, <2>2 DEF Screen!SetScreen, Screen!Configs
  <2>3. CASE Screen!Store(config) /\ UNCHANGED sink
    BY <2>0, <2>3, ScreenConfigs DEF Screen!Store
  <2> QED BY <1>5, <2>1, <2>2, <2>3 DEF Screen!XtoSSD1306
<1>6. CASE Screen!Restart
  BY <1>6, ScreenConfigs DEF Screen!Restart
<1>7. CASE UNCHANGED Screen!displayVars BY <1>7 DEF Screen!displayVars
<1> QED
  BY <1>1, <1>2, <1>3, <1>4, <1>5, <1>6, <1>7 DEF Screen!Next

\* What is on the heap waits or is current.
LEMMA ScreenTypes ==
    ASSUME MessagesInv, ScreenTyped
    PROVE  Screen!TypeOK
<1>1. heap \subseteq Screen!Messages
  BY DEF MessagesInv, MessagesTyped, Screen!MessagesAccounted, Screen!Range
<1> QED BY <1>1 DEF MessagesInv, MessagesTyped, ScreenTyped, Screen!TypeOK

\* In every behaviour the messages are accounted for, and the types hold.
LEMMA ScreenHolds == PlatformSpec => [](MessagesInv /\ ScreenTyped)
<1>1. Screen!Init => MessagesInv /\ ScreenTyped
  BY PlatformConstants, InitMessages, InitScreen
<1>2. ASSUME MessagesInv, ScreenTyped, [Screen!Next]_(Screen!displayVars)
      PROVE  MessagesInv' /\ ScreenTyped'
  BY <1>2, PlatformConstants, StepMessages, StepScreen
<1> QED
  BY <1>1, <1>2, EachComponent, PTL DEF Screen!Spec

-----------------------------------------------------------------------------
\* WebConsole.  The buffer's lines and their indices are consecutive, the indices going
\* round; a page knows how many lines had been logged when an index came next, and what it
\* has been shown since its poll before has no gap.

\* A line of the buffer, a page, a poll.
Entries == [index : 1..LastIndex, line : 1..MaxLines, size : Sizes]

TabStates == [id : 0..LastIndex, awake : BOOLEAN, shown : SUBSET (1..MaxLines),
              follows : BOOLEAN, told : 0..MaxLines]

Polls == [tab : Tabs \cup {"none"}, phase : {"none", "command", "getlog"},
          pointer : 0..LastIndex, index : 0..LastIndex, told : 0..MaxLines]

\* The types of the variables.
ConsoleTypes ==
    /\ allocated \in BOOLEAN /\ reset_web_log_flag \in BOOLEAN
    /\ log_buffer \in Seq(Entries) /\ log_buffer_pointer \in 0..LastIndex
    /\ tab \in [Tabs -> TabStates]
    /\ poll \in Polls /\ (poll.phase # "none" => poll.tab \in Tabs)
    /\ lines \in 0..MaxLines /\ pauses \in 0..MaxPauses

\* The lines of the buffer are the last ones, in their order, and so are their indices.
LogOK ==
    LET n == Len(log_buffer)
    IN  /\ log_buffer_pointer = 0 <=> n = 0
        /\ ~allocated => n = 0
        /\ n <= LastIndex
        /\ n # 0 => log_buffer_pointer = Console!After(log_buffer[n].index)
        /\ \A k \in 1..n : /\ log_buffer[k].line = lines - n + k
                           /\ Console!Way(log_buffer[k].index, log_buffer[n].index) = n - k

\* An index that came next when so many lines had been logged.
Since(index, before) ==
    /\ before <= lines
    /\ index = 0 => \A k \in 1..Len(log_buffer) : before < log_buffer[k].line
    /\ index # 0 => /\ log_buffer_pointer # 0
                    /\ lines - before < LastIndex
                           => Console!Way(index, log_buffer_pointer) = lines - before

\* What a page that follows the log, and the poll that is served, know of it.
FollowsOK ==
    /\ \A t \in Tabs :
          tab[t].follows => /\ Since(tab[t].id, tab[t].told)
                            /\ ~reset_web_log_flag => tab[t].id = 0 /\ tab[t].told = 0
    /\ poll.phase = "getlog" => reset_web_log_flag /\ Since(poll.pointer, poll.told)

\* What the page that is served has been shown of the lines since its poll before.
ShownOK ==
    LET t == tab[poll.tab]
        left == Console!Way(poll.index, log_buffer_pointer)
    IN  (poll.phase = "getlog" /\ t.follows /\ lines - t.told < LastIndex) =>
            /\ poll.index = 0 => \A k \in 1..Len(log_buffer) : t.told < log_buffer[k].line
            /\ poll.index # 0 =>
                  /\ log_buffer_pointer # 0 /\ left <= lines - t.told
                  /\ \A k \in 1..Len(log_buffer) :
                        (t.told < log_buffer[k].line /\ log_buffer[k].line + left <= lines)
                            => log_buffer[k].line \in t.shown

\* The invariant of the console.
ConsoleInv == ConsoleTypes /\ LogOK /\ FollowsOK /\ ShownOK

\* A remainder, near zero.
LEMMA RemainderRange ==
    ASSUME NEW a \in Int, NEW d \in Nat \ {0}
    PROVE  /\ a % d \in 0..(d - 1)
           /\ (0 <= a /\ a < d) => a % d = a
           /\ (-d <= a /\ a < 0) => a % d = a + d
OBVIOUS

\* How often an index is counted up to another one.
LEMMA WayIs ==
    ASSUME Console!WebConsoleAssumption, NEW from \in 1..LastIndex, NEW to \in 1..LastIndex
    PROVE  /\ Console!Way(from, to) \in 0..(LastIndex - 1)
           /\ from <= to => Console!Way(from, to) = to - from
           /\ to < from => Console!Way(from, to) = to - from + LastIndex
<1> DEFINE a == to - from
<1>1. LastIndex \in Nat \ {0} /\ a \in Int /\ Console!Way(from, to) = a % LastIndex
  BY DEF Console!WebConsoleAssumption, Console!Way
<1>2. /\ from <= to => 0 <= a /\ a < LastIndex
      /\ to < from => -LastIndex <= a /\ a < 0
  BY <1>1
<1>3. /\ a % LastIndex \in 0..(LastIndex - 1)
      /\ (0 <= a /\ a < LastIndex) => a % LastIndex = a
      /\ (-LastIndex <= a /\ a < 0) => a % LastIndex = a + LastIndex
  <2> HIDE DEF a
  <2> QED BY <1>1, RemainderRange
<1> QED BY <1>1, <1>2, <1>3

\* What comes after an index is one.
LEMMA AfterIs ==
    ASSUME Console!WebConsoleAssumption, NEW i \in 0..LastIndex
    PROVE  Console!After(i) \in 1..LastIndex
BY DEF Console!After, Console!WebConsoleAssumption

\* Counting up once more, from either end.
LEMMA WayAfter ==
    ASSUME Console!WebConsoleAssumption, NEW i \in 1..LastIndex, NEW p \in 1..LastIndex
    PROVE  /\ Console!Way(i, p) < LastIndex - 1
                  => Console!Way(i, Console!After(p)) = Console!Way(i, p) + 1
           /\ Console!Way(i, p) = LastIndex - 1 => i = Console!After(p)
           /\ i # p => Console!Way(Console!After(i), p) = Console!Way(i, p) - 1
           /\ Console!Way(Console!After(p), p) = LastIndex - 1
           /\ Console!Way(i, p) = 0 <=> i = p
<1>1. /\ LastIndex \in Nat \ {0} /\ Console!After(i) \in 1..LastIndex
      /\ Console!After(p) \in 1..LastIndex
  BY AfterIs DEF Console!WebConsoleAssumption
<1>2. /\ i <= p => Console!Way(i, p) = p - i
      /\ p < i => Console!Way(i, p) = p - i + LastIndex
  BY WayIs
<1>3. /\ Console!After(i) <= p => Console!Way(Console!After(i), p) = p - Console!After(i)
      /\ p < Console!After(i) => Console!Way(Console!After(i), p) = p - Console!After(i)
             + LastIndex
  BY <1>1, WayIs
<1>4. /\ i <= Console!After(p) => Console!Way(i, Console!After(p)) = Console!After(p) - i
      /\ Console!After(p) < i => Console!Way(i, Console!After(p)) = Console!After(p) - i
             + LastIndex
  BY <1>1, WayIs
<1>5. /\ Console!After(p) <= p => Console!Way(Console!After(p), p) = p - Console!After(p)
      /\ p < Console!After(p) => Console!Way(Console!After(p), p) = p - Console!After(p)
             + LastIndex
  BY <1>1, WayIs
<1>6. Console!Way(i, p) < LastIndex - 1
          => Console!Way(i, Console!After(p)) = Console!Way(i, p) + 1
  BY <1>1, <1>2, <1>4 DEF Console!After
<1>7. Console!Way(i, p) = LastIndex - 1 => i = Console!After(p)
  BY <1>1, <1>2 DEF Console!After
<1>8. i # p => Console!Way(Console!After(i), p) = Console!Way(i, p) - 1
  BY <1>1, <1>2, <1>3 DEF Console!After
<1>9. Console!Way(Console!After(p), p) = LastIndex - 1
  BY <1>1, <1>5 DEF Console!After
<1>10. Console!Way(i, p) = 0 <=> i = p
  BY <1>1, <1>2
<1> QED BY <1>6, <1>7, <1>8, <1>9, <1>10

\* From one index to another, both seen from a third.
LEMMA WayBetween ==
    ASSUME Console!WebConsoleAssumption, NEW a \in 1..LastIndex, NEW b \in 1..LastIndex,
           NEW p \in 1..LastIndex
    PROVE  /\ Console!Way(b, p) <= Console!Way(a, p)
                  => Console!Way(a, b) = Console!Way(a, p) - Console!Way(b, p)
           /\ Console!Way(a, p) < Console!Way(b, p)
                  => Console!Way(a, b) = Console!Way(a, p) - Console!Way(b, p) + LastIndex
<1>1. LastIndex \in Nat \ {0}
  BY DEF Console!WebConsoleAssumption
<1>2. /\ a <= b => Console!Way(a, b) = b - a
      /\ b < a => Console!Way(a, b) = b - a + LastIndex
  BY WayIs
<1>3. /\ a <= p => Console!Way(a, p) = p - a
      /\ p < a => Console!Way(a, p) = p - a + LastIndex
  BY WayIs
<1>4. /\ b <= p => Console!Way(b, p) = p - b
      /\ p < b => Console!Way(b, p) = p - b + LastIndex
  BY WayIs
<1> QED BY <1>1, <1>2, <1>3, <1>4

\* A set of numbers has a smallest.
LEMMA SmallestOf ==
    ASSUME NEW T \in SUBSET Nat, T # {}
    PROVE  \E m \in T : \A n \in T : m <= n
<1>1. PICK m \in T : \A n \in T : ~(<<n, m>> \in OpToRel(<, Nat))
  BY NatLessThanWellFounded, WFMin, Zenon
<1>2. \A n \in T : ~(n < m)
  BY <1>1 DEF OpToRel
<1> QED BY <1>2

\* A line's index and its number.
LEMMA EntryIs ==
    ASSUME Console!WebConsoleAssumption, NEW s \in Seq(Entries), NEW k \in 1..Len(s)
    PROVE  /\ s[k] \in Entries /\ s[k].index \in 1..LastIndex /\ s[k].index \in Int
           /\ s[k].line \in 1..MaxLines /\ s[k].line \in Int
<1>1. s[k] \in Entries
  BY ElementOfSeq
<1> QED BY <1>1 DEF Entries, Console!WebConsoleAssumption

\* No lines have no size.
LEMMA NoSize == Console!TotalSize(<<>>) = 0
<1> DEFINE s == <<>>
           def(f) == f = [i \in 0..Len(s) |-> IF i = 0 THEN 0 ELSE f[i - 1] + s[i].size]
<1>1. Len(s) = 0 /\ 0..Len(s) = {0}
  OBVIOUS
<1>2. def([i \in {0} |-> 0])
  BY <1>1
<1>3. def(CHOOSE f : def(f))
  BY <1>2
<1>4. Console!TotalSize(s) = (CHOOSE f : def(f))[Len(s)]
  BY DEF Console!TotalSize
<1> QED BY <1>1, <1>3, <1>4

\* The lines that make room are the oldest, and no more than needed go: what is left
\* does not begin with the index that comes next.
LEMMA Suffixes ==
    ASSUME Console!WebConsoleAssumption, log_buffer \in Seq(Entries), NEW size \in Sizes,
           NEW pointer
    PROVE  \E k \in 1..(Len(log_buffer) + 1) :
              /\ Console!Room(pointer, size) = SubSeq(log_buffer, k, Len(log_buffer))
              /\ k <= Len(log_buffer) => log_buffer[k].index # pointer
<1> DEFINE n == Len(log_buffer)
           Suffix(k) == SubSeq(log_buffer, k, n)
           Fits(k) == /\ k <= n => log_buffer[k].index # pointer
                      /\ Console!TotalSize(Suffix(k)) + size <= LOG_BUFFER_SIZE
           T == {k \in 1..(n + 1) : Fits(k)}
<1>1. n \in Nat
  OBVIOUS
<1>2. Fits(n + 1)
  <2>1. Suffix(n + 1) = <<>>
    BY <1>1
  <2>2. size \in Nat /\ size <= LOG_BUFFER_SIZE
    BY DEF Console!WebConsoleAssumption
  <2>3. ~(n + 1 <= n)
    BY <1>1
  <2>4. Console!TotalSize(Suffix(n + 1)) = 0
    BY <2>1, NoSize
  <2> DEFINE total == Console!TotalSize(Suffix(n + 1))
  <2>5. total + size <= LOG_BUFFER_SIZE
    <3> HIDE DEF total
    <3>1. total = 0
      BY <2>4 DEF total
    <3>2. LOG_BUFFER_SIZE \in Nat
      BY DEF Console!WebConsoleAssumption
    <3> QED BY <2>2, <3>1, <3>2
  <2> QED BY <2>3, <2>5
<1>3. T \in SUBSET Nat /\ T # {}
  BY <1>1, <1>2
<1>4. PICK m \in T : \A j \in T : m <= j
  BY <1>3, SmallestOf
<1> DEFINE FitsFirst(k) == Fits(k) /\ \A j \in 1..(k - 1) : ~Fits(j)
           chosen == CHOOSE k \in 1..(n + 1) : FitsFirst(k)
<1>5. m \in 1..(n + 1) /\ FitsFirst(m)
  <2>1. ASSUME NEW j \in 1..(m - 1) PROVE ~Fits(j)
    <3>1. j \in 1..(n + 1) /\ ~(m <= j)
      BY <1>1, <1>4, <2>1
    <3> QED BY <1>4, <3>1
  <2> QED BY <1>4, <2>1
<1>6. chosen \in 1..(n + 1) /\ FitsFirst(chosen)
  <2> HIDE DEF FitsFirst
  <2> QED BY <1>5
<1>7. Console!Room(pointer, size) = Suffix(chosen)
  BY DEF Console!Room
<1> HIDE DEF chosen
<1> QED BY <1>6, <1>7

\* What is left of a sequence, with one more.
LEMMA Appended ==
    ASSUME NEW S, NEW s \in Seq(S), NEW k \in 1..(Len(s) + 1), NEW e \in S
    PROVE  LET r == Append(SubSeq(s, k, Len(s)), e)
               n == Len(s) - k + 2
           IN  /\ r \in Seq(S) /\ Len(r) = n /\ r[n] = e
               /\ \A j \in 1..(n - 1) : r[j] = s[j + k - 1]
<1> DEFINE q == SubSeq(s, k, Len(s))
<1>1. q \in Seq(S) /\ Len(q) = Len(s) - k + 1
  BY SubSeqProperties
<1>2. \A j \in 1..(Len(s) - k + 1) : q[j] = s[j + k - 1]
  BY SubSeqProperties
<1> HIDE DEF q
<1>3. Len(s) \in Nat /\ Len(s) - k + 1 \in Nat
  OBVIOUS
<1>4. Append(q, e) \in Seq(S) /\ Len(Append(q, e)) = Len(q) + 1 /\ Append(q, e)[Len(q) + 1] = e
      /\ \A j \in 1..Len(q) : Append(q, e)[j] = q[j]
  BY <1>1
<1> QED BY <1>1, <1>2, <1>3, <1>4 DEF q

\* The invariant holds from the start.
LEMMA InitConsole ==
    ASSUME Console!WebConsoleAssumption, Console!Init
    PROVE  ConsoleInv
<1>1. 0 \in 0..LastIndex /\ 0 \in 0..MaxLines /\ 0 \in 0..MaxPauses /\ 0 <= LastIndex
  BY DEF Console!WebConsoleAssumption
<1>2. [id |-> 0, awake |-> TRUE, shown |-> {}, follows |-> TRUE, told |-> 0] \in TabStates
  BY <1>1 DEF TabStates
<1>3. Console!NoPoll \in Polls /\ Console!NoPoll.phase = "none"
  BY <1>1 DEF Console!NoPoll, Polls
<1>4. <<>> \in Seq(Entries) /\ Len(<<>>) = 0
  OBVIOUS
<1>5. ConsoleTypes
  BY <1>1, <1>2, <1>3, <1>4 DEF Console!Init, ConsoleTypes
<1>6. LogOK
  BY <1>1, <1>4 DEF Console!Init, LogOK
<1>7. FollowsOK
  BY <1>1, <1>3, <1>4 DEF Console!Init, FollowsOK, Since
<1>8. ShownOK
  BY <1>3 DEF Console!Init, ShownOK
<1> QED BY <1>5, <1>6, <1>7, <1>8 DEF ConsoleInv

\* A way is a number.
LEMMA WayNat ==
    ASSUME Console!WebConsoleAssumption, NEW from \in Int, NEW to \in Int
    PROVE  Console!Way(from, to) \in Nat
<1>1. LastIndex \in Nat \ {0} /\ to - from \in Int
  BY DEF Console!WebConsoleAssumption
<1> DEFINE a == to - from
<1>2. a % LastIndex \in 0..(LastIndex - 1)
  <2> HIDE DEF a
  <2> QED BY <1>1, RemainderRange DEF a
<1> QED BY <1>1, <1>2 DEF Console!Way

\* The line GetLog finds.
LEMMA NearestIs ==
    ASSUME Console!WebConsoleAssumption, ConsoleTypes, Console!Ahead # {}
    PROVE  /\ Console!Nearest \in 1..Len(log_buffer) /\ Console!Nearest \in Console!Ahead
           /\ \A j \in Console!Ahead :
                  Console!Way(Console!Asked, log_buffer[Console!Nearest].index)
                      <= Console!Way(Console!Asked, log_buffer[j].index)
<1> DEFINE far(k) == Console!Way(Console!Asked, log_buffer[k].index)
           T == {far(k) : k \in Console!Ahead}
<1>1. \A k \in 1..Len(log_buffer) : log_buffer[k].index \in Int
  BY EntryIs DEF ConsoleTypes
<1>2. Console!Asked \in Int
  <2>1. poll.index \in Int
    BY DEF ConsoleTypes, Polls
  <2>2. ASSUME Len(log_buffer) > 0 PROVE log_buffer[1].index \in Int
    <3>1. Len(log_buffer) \in Nat
      BY DEF ConsoleTypes
    <3>2. 1 \in 1..Len(log_buffer)
      BY <2>2, <3>1
    <3> QED BY <1>1, <3>2
  <2> QED BY <2>1, <2>2 DEF Console!Asked
<1>3. Console!Ahead \subseteq 1..Len(log_buffer)
  BY DEF Console!Ahead
<1>4. \A k \in Console!Ahead : far(k) \in Nat
  BY <1>1, <1>2, <1>3, WayNat
<1>5. T \in SUBSET Nat /\ T # {}
  BY <1>4
<1>6. PICK m \in T : \A n \in T : m <= n
  BY <1>5, SmallestOf
<1>7. PICK k \in Console!Ahead : far(k) = m
  BY <1>6
<1>8. \A j \in Console!Ahead : far(k) <= far(j)
  BY <1>6, <1>7
<1>9. Console!Nearest \in Console!Ahead /\ \A j \in Console!Ahead : far(Console!Nearest)
          <= far(j)
  BY <1>8 DEF Console!Nearest
<1> QED BY <1>3, <1>9

\* A line is added.
LEMMA AddLine ==
    ASSUME Console!WebConsoleAssumption, ConsoleTypes, LogOK, NEW size \in Sizes,
           Console!AddLogData(size)
    PROVE  /\ log_buffer' \in Seq(Entries) /\ log_buffer_pointer' \in 0..LastIndex
           /\ lines' \in 0..MaxLines /\ lines' = lines + 1
           /\ LogOK'
           /\ \A k \in 1..Len(log_buffer') :
                 \/ log_buffer'[k].line = lines'
                 \/ \E j \in 1..Len(log_buffer) : log_buffer'[k] = log_buffer[j]
           /\ log_buffer_pointer # 0 => log_buffer_pointer' = Console!After(log_buffer_pointer)
           /\ log_buffer # <<>> => log_buffer' # <<>>
<1> DEFINE n == Len(log_buffer)
           p == log_buffer_pointer
<1>0. /\ LastIndex \in Nat \ {0} /\ lines \in Nat /\ MaxLines \in Nat /\ n \in Nat
      /\ log_buffer \in Seq(Entries) /\ p \in 0..LastIndex
      /\ p = 0 <=> n = 0
      /\ ~allocated => n = 0
      /\ n <= LastIndex
      /\ n # 0 => p = Console!After(log_buffer[n].index)
      /\ \A k \in 1..n : /\ log_buffer[k].line = lines - n + k
                         /\ Console!Way(log_buffer[k].index, log_buffer[n].index) = n - k
  BY DEF ConsoleTypes, LogOK, Console!WebConsoleAssumption
<1>1. /\ lines' \in 0..MaxLines /\ lines' = lines + 1 /\ lines + 1 \in 1..MaxLines
      /\ allocated' = allocated
  BY <1>0 DEF Console!AddLogData
<1>2. CASE ~allocated
  <2>1. UNCHANGED <<log_buffer, log_buffer_pointer>> /\ n = 0 /\ log_buffer = <<>>
    BY <1>0, <1>2 DEF Console!AddLogData
  <2>2. LogOK'
    BY <1>0, <1>1, <2>1 DEF LogOK
  <2> QED BY <1>0, <1>1, <2>1, <2>2
<1>3. CASE allocated
  <2> DEFINE pointer == IF log_buffer_pointer = 0 THEN 1 ELSE log_buffer_pointer
             new == [index |-> pointer, line |-> lines + 1, size |-> size]
  <2>1. /\ log_buffer' = Append(Console!Room(pointer, size), new)
        /\ log_buffer_pointer' = Console!After(pointer)
    BY <1>3 DEF Console!AddLogData
  <2>2. pointer \in 1..LastIndex
    BY <1>0
  <2>3. new \in Entries
    BY <1>1, <2>2 DEF Entries
  <2>4. PICK k \in 1..(n + 1) : /\ Console!Room(pointer, size) = SubSeq(log_buffer, k, n)
                                /\ k <= n => log_buffer[k].index # pointer
    <3> HIDE DEF pointer
    <3> QED BY <1>0, Suffixes
  <2> HIDE DEF pointer, new
  <2> DEFINE r == log_buffer'
             c == n - k + 2
  <2>5. /\ r \in Seq(Entries) /\ Len(r) = c /\ r[c] = new
        /\ \A j \in 1..(c - 1) : r[j] = log_buffer[j + k - 1]
    <3> DEFINE q == Append(SubSeq(log_buffer, k, n), new)
    <3>1. /\ q \in Seq(Entries) /\ Len(q) = c /\ q[c] = new
          /\ \A j \in 1..(c - 1) : q[j] = log_buffer[j + k - 1]
      BY <1>0, <2>3, Appended
    <3>2. r = q
      BY <2>1, <2>4
    <3> HIDE DEF q, r, c
    <3> QED BY <3>1, <3>2
  <2>6. c \in Nat /\ c >= 1 /\ c <= n + 1
    BY <1>0, <2>4
  <2> HIDE DEF r, c
  <2>7. new.index = pointer /\ new.line = lines + 1
    BY DEF new
  <2>8. ASSUME NEW j \in 1..(c - 1)
        PROVE  /\ j + k - 1 \in 1..n /\ r[j] = log_buffer[j + k - 1]
               /\ r[j].line = lines + 1 - c + j
               /\ c <= LastIndex
               /\ Console!Way(r[j].index, pointer) = c - j
    <3>1. j + k - 1 \in 1..n /\ n # 0 /\ k <= n /\ k \in 1..n /\ n \in 1..n
      <4>1. j <= c - 1 /\ 1 <= j /\ j \in Int
        BY <2>6
      <4>2. j <= n - k + 1 /\ n \in Nat
        BY <1>0, <4>1 DEF c
      <4>3. j + k - 1 \in 1..n /\ n # 0 /\ k <= n /\ k \in 1..n /\ n \in 1..n
        <5> HIDE DEF n
        <5> QED BY <4>1, <4>2
      <4> QED BY <4>3
    <3> DEFINE i == j + k - 1
               last == log_buffer[n].index
    <3>2. /\ log_buffer[i].line = lines - n + i
          /\ Console!Way(log_buffer[i].index, last) = n - i
          /\ Console!Way(log_buffer[k].index, last) = n - k
      BY <1>0, <3>1
    <3>3. log_buffer[i].line = lines + 1 - c + j
      BY <1>0, <3>1, <3>2 DEF c
    <3>4. /\ log_buffer[i].index \in 1..LastIndex /\ log_buffer[k].index \in 1..LastIndex
          /\ last \in 1..LastIndex
      BY <1>0, <3>1, EntryIs
    <3>5. pointer = Console!After(last)
      BY <1>0, <2>2, <3>1 DEF pointer
    <3> HIDE DEF last
    <3>6. n - k # LastIndex - 1
      BY <2>4, <3>1, <3>2, <3>4, <3>5, WayAfter
    <3>7. c <= LastIndex /\ n - k < LastIndex - 1
      <4>1. n \in Nat /\ n <= LastIndex /\ LastIndex \in Nat
        BY <1>0
      <4>2. c = n - k + 2
        BY DEF c
      <4> HIDE DEF n
      <4> QED BY <3>6, <4>1, <4>2
    <3>8. n - i < LastIndex - 1
      <4>1. n \in Nat /\ LastIndex \in Nat /\ 1 <= j /\ j \in Int
        BY <1>0, <2>6
      <4> HIDE DEF n
      <4> QED BY <3>7, <4>1
    <3>9. Console!Way(log_buffer[i].index, pointer) = n - i + 1
      <4> DEFINE a == log_buffer[i].index
      <4>1. a \in 1..LastIndex /\ Console!Way(a, last) = n - i
        BY <3>2, <3>4
      <4> HIDE DEF a, n
      <4>2. Console!Way(a, Console!After(last)) = Console!Way(a, last) + 1
        BY <3>4, <3>8, <4>1, WayAfter
      <4> QED BY <3>5, <4>1, <4>2 DEF a
    <3>10. n - i + 1 = c - j
      BY <1>0, <2>4 DEF c
    <3> QED BY <2>5, <3>1, <3>3, <3>7, <3>9, <3>10
  <2>9. c <= LastIndex
    <3>1. CASE c = 1
      BY <1>0, <3>1
    <3>2. CASE c # 1
      <4>1. 1 \in 1..(c - 1)
        BY <2>6, <3>2
      <4> QED BY <2>8, <4>1
    <3> QED BY <3>1, <3>2
  <2>10. ASSUME NEW j \in 1..c
         PROVE  /\ r[j].line = lines' - c + j
                /\ Console!Way(r[j].index, r[c].index) = c - j
                /\ \/ r[j].line = lines'
                   \/ \E i \in 1..n : r[j] = log_buffer[i]
    <3>1. CASE j = c
      <4>1. Console!Way(pointer, pointer) = 0
        BY <2>2, WayAfter
      <4> QED BY <1>0, <1>1, <2>5, <2>6, <2>7, <3>1, <4>1
    <3>2. CASE j # c
      <4>1. j \in 1..(c - 1)
        BY <2>6, <3>2
      <4>2. r[j].line = lines' - c + j
        <5>1. r[j].line = lines + 1 - c + j
          BY <2>8, <4>1
        <5> QED BY <1>0, <1>1, <2>6, <5>1
      <4>3. Console!Way(r[j].index, r[c].index) = c - j
        BY <2>5, <2>7, <2>8, <4>1
      <4> QED BY <2>8, <4>1, <4>2, <4>3
    <3> QED BY <3>1, <3>2
  <2>11. log_buffer_pointer' \in 1..LastIndex /\ log_buffer_pointer' = Console!After(r[c].index)
    BY <2>1, <2>2, <2>5, <2>7, AfterIs
  <2>12. LogOK'
    <3>1. Len(log_buffer') = c /\ log_buffer'[c] = r[c] /\ allocated'
      BY <1>1, <1>3, <2>5 DEF r
    <3>2. log_buffer_pointer' # 0 /\ c # 0
      BY <2>6, <2>11
    <3>3. \A j \in 1..c : /\ log_buffer'[j].line = lines' - c + j
                          /\ Console!Way(log_buffer'[j].index, log_buffer'[c].index) = c - j
      BY <2>10 DEF r
    <3>4. \A x, y : Console!Way(x, y)' = Console!Way(x, y)
      BY DEF Console!Way
    <3> QED BY <2>9, <2>11, <3>1, <3>2, <3>3 DEF LogOK, Console!Way, Console!After
  <2>13. /\ r # <<>>
         /\ p # 0 => log_buffer_pointer' = Console!After(p)
    BY <2>1, <2>5, <2>6 DEF pointer
  <2>14. r \in Seq(Entries) /\ Len(r) = c /\ log_buffer_pointer' \in 0..LastIndex
    BY <2>5, <2>11
  <2> QED BY <1>1, <2>10, <2>12, <2>13, <2>14 DEF r
<1> QED BY <1>2, <1>3

\* What the page knows when its poll is over.
LEMMA PollEnded ==
    ASSUME Console!WebConsoleAssumption, ConsoleTypes, Console!PollEnds
    PROVE  /\ poll.tab \in Tabs /\ tab' \in [Tabs -> TabStates]
           /\ tab'[poll.tab].id = poll.pointer /\ tab'[poll.tab].told = poll.told
           /\ tab'[poll.tab].shown = tab[poll.tab].shown
           /\ \A t \in Tabs : t # poll.tab => tab'[t] = tab[t]
<1>1. poll.tab \in Tabs /\ tab \in [Tabs -> TabStates] /\ poll \in Polls
  BY DEF Console!PollEnds, ConsoleTypes
<1>2. poll.pointer \in 0..LastIndex /\ poll.told \in 0..MaxLines
  BY <1>1 DEF Polls
<1> DEFINE row == tab[poll.tab]
           new == [row EXCEPT !.id = poll.pointer, !.follows = TRUE, !.told = poll.told]
<1>3. tab' = [tab EXCEPT ![poll.tab] = new]
  BY <1>1 DEF Console!PollEnds
<1>4. /\ new \in TabStates /\ new.id = poll.pointer /\ new.told = poll.told
      /\ new.shown = row.shown
  <2>1. row \in TabStates
    BY <1>1
  <2> HIDE DEF row
  <2> QED BY <1>2, <2>1 DEF TabStates
<1> HIDE DEF new
<1> QED BY <1>1, <1>3, <1>4

\* Every step keeps the types ...
LEMMA StepTypes ==
    ASSUME Console!WebConsoleAssumption, ConsoleTypes, LogOK,
           [Console!Next]_(Console!consoleVars)
    PROVE  ConsoleTypes'
<1>0. /\ ConsoleTypes /\ 0 \in 0..LastIndex /\ 0 \in 0..MaxLines /\ <<>> \in Seq(Entries)
      /\ LastIndex \in Nat \ {0} /\ MaxPauses \in Nat
  BY DEF Console!WebConsoleAssumption
<1>1. Console!NoPoll \in Polls /\ Console!NoPoll.phase = "none"
  BY <1>0 DEF Console!NoPoll, Polls
<1>2. ASSUME NEW size \in Sizes, Console!AddLogData(size)
      PROVE  ConsoleTypes'
  BY <1>0, <1>2, AddLine DEF ConsoleTypes, Console!AddLogData
<1>3. ASSUME NEW t \in Tabs, Console!PollArrives(t)
      PROVE  ConsoleTypes'
  <2>1. poll' \in Polls /\ poll'.tab \in Tabs
    BY <1>0, <1>1, <1>3 DEF Console!PollArrives, Polls
  <2> QED BY <1>0, <1>3, <2>1 DEF Console!PollArrives, ConsoleTypes
<1>4. ASSUME NEW t \in Tabs, Console!Pause(t)
      PROVE  ConsoleTypes'
  <2>1. tab' \in [Tabs -> TabStates]
    BY <1>0, <1>4 DEF Console!Pause, ConsoleTypes, TabStates
  <2>2. pauses' \in 0..MaxPauses
    BY <1>0, <1>4 DEF Console!Pause, ConsoleTypes
  <2> QED BY <1>0, <1>4, <2>1, <2>2 DEF Console!Pause, ConsoleTypes
<1>5. CASE Console!PollBegins
  <2>1. poll.tab \in Tabs
    BY <1>0, <1>5 DEF Console!PollBegins, ConsoleTypes
  <2>2. tab[poll.tab] \in TabStates
    BY <1>0, <2>1 DEF ConsoleTypes
  <2>3. (IF reset_web_log_flag THEN tab[poll.tab].id ELSE 0) \in 0..LastIndex
    BY <1>0, <2>2 DEF TabStates
  <2> DEFINE index == IF reset_web_log_flag THEN tab[poll.tab].id ELSE 0
             seen == IF reset_web_log_flag THEN tab[poll.tab].shown ELSE {}
  <2>4. poll' = [poll EXCEPT !.phase = "getlog", !.pointer = log_buffer_pointer,
                             !.told = lines, !.index = index]
    BY <1>5 DEF Console!PollBegins
  <2>5. tab' = [tab EXCEPT ![poll.tab].shown = seen]
    BY <1>5 DEF Console!PollBegins
  <2>6. seen \in SUBSET (1..MaxLines)
    BY <2>2 DEF TabStates
  <2> HIDE DEF index, seen
  <2>7. poll' \in Polls /\ poll'.tab \in Tabs
    BY <1>0, <2>1, <2>3, <2>4 DEF ConsoleTypes, Polls, index
  <2>8. tab' \in [Tabs -> TabStates]
    BY <1>0, <2>1, <2>5, <2>6 DEF ConsoleTypes, TabStates
  <2> QED BY <1>0, <1>5, <2>7, <2>8 DEF Console!PollBegins, ConsoleTypes
<1>6. CASE Console!GetLog
  <2>1. poll.tab \in Tabs /\ poll \in Polls /\ poll.phase = "getlog"
    BY <1>0, <1>6 DEF Console!GetLog, ConsoleTypes
  <2> DEFINE found == log_buffer[Console!Nearest]
  <2>2. found.index \in 1..LastIndex /\ found.line \in 1..MaxLines
    <3>1. Console!Nearest \in 1..Len(log_buffer)
      BY <1>0, <1>6, NearestIs DEF Console!GetLog
    <3> QED BY <1>0, <3>1, EntryIs DEF ConsoleTypes
  <2>3. Console!After(found.index) \in 0..LastIndex
    BY <1>0, <2>2, AfterIs
  <2>4. poll' = [poll EXCEPT !.index = Console!After(found.index)]
        /\ tab' = [tab EXCEPT ![poll.tab].shown = @ \cup {found.line}]
    BY <1>6 DEF Console!GetLog
  <2> HIDE DEF found
  <2>5. poll' \in Polls /\ poll'.tab \in Tabs
    BY <2>1, <2>3, <2>4 DEF Polls
  <2>6. tab' \in [Tabs -> TabStates]
    BY <1>0, <2>1, <2>2, <2>4 DEF ConsoleTypes, TabStates
  <2> QED BY <1>0, <1>6, <2>5, <2>6 DEF Console!GetLog, ConsoleTypes
<1>7. CASE Console!PollEnds
  <2>1. poll.tab \in Tabs /\ poll \in Polls
    BY <1>0, <1>7 DEF Console!PollEnds, ConsoleTypes
  <2>2. poll.pointer \in 0..LastIndex /\ poll.told \in 0..MaxLines
    BY <2>1 DEF Polls
  <2>3. tab' \in [Tabs -> TabStates]
    BY <1>0, <1>7, PollEnded
  <2> QED BY <1>0, <1>1, <1>7, <2>3 DEF Console!PollEnds, ConsoleTypes
<1>8. Console!Unfollowed \in [Tabs -> TabStates]
  BY <1>0 DEF Console!Unfollowed, ConsoleTypes, TabStates
<1>9. CASE Console!freeLogBufferIfIdle
  BY <1>0, <1>8, <1>9 DEF Console!freeLogBufferIfIdle, ConsoleTypes
<1>10. CASE Console!Restart
  <2>1. pauses' \in 0..MaxPauses
    BY <1>0, <1>10 DEF Console!Restart, ConsoleTypes
  <2> QED BY <1>0, <1>1, <1>8, <1>10, <2>1 DEF Console!Restart, ConsoleTypes
<1>11. CASE UNCHANGED Console!consoleVars
  BY <1>0, <1>11 DEF Console!consoleVars, ConsoleTypes
<1> QED BY <1>2, <1>3, <1>4, <1>5, <1>6, <1>7, <1>9, <1>10, <1>11 DEF Console!Next

\* ... the order of the lines ...
LEMMA StepLog ==
    ASSUME Console!WebConsoleAssumption, ConsoleTypes, LogOK,
           [Console!Next]_(Console!consoleVars)
    PROVE  LogOK'
<1>1. ASSUME NEW size \in Sizes, Console!AddLogData(size)
      PROVE  LogOK'
  BY <1>1, AddLine
<1>2. ASSUME log_buffer' = <<>>, log_buffer_pointer' = 0
      PROVE  LogOK'
  <2>1. Len(log_buffer') = 0 /\ 0 <= LastIndex
    BY <1>2 DEF Console!WebConsoleAssumption
  <2> QED BY <1>2, <2>1 DEF LogOK
<1>3. ASSUME UNCHANGED <<log_buffer, log_buffer_pointer, lines>>, allocated => allocated'
      PROVE  LogOK'
  BY <1>3 DEF LogOK, Console!Way, Console!After
<1>4. ASSUME NEW t \in Tabs, Console!PollArrives(t) \/ Console!Pause(t)
      PROVE  LogOK'
  BY <1>3, <1>4 DEF Console!PollArrives, Console!Pause
<1>5. CASE Console!PollBegins
  BY <1>3, <1>5 DEF Console!PollBegins
<1>6. CASE Console!GetLog
  BY <1>3, <1>6 DEF Console!GetLog
<1>7. CASE Console!PollEnds
  BY <1>3, <1>7 DEF Console!PollEnds
<1>8. CASE Console!freeLogBufferIfIdle \/ Console!Restart
  BY <1>2, <1>8 DEF Console!freeLogBufferIfIdle, Console!Restart
<1>9. CASE UNCHANGED Console!consoleVars
  BY <1>3, <1>9 DEF Console!consoleVars
<1> QED BY <1>1, <1>4, <1>5, <1>6, <1>7, <1>8, <1>9 DEF Console!Next

\* Lines that are added, and time that passes, leave an index as long ago as it was.
LEMMA SinceKept ==
    ASSUME Console!WebConsoleAssumption, ConsoleTypes, LogOK, NEW size \in Sizes,
           Console!AddLogData(size), NEW index \in 0..LastIndex, NEW before \in 0..MaxLines,
           Since(index, before)
    PROVE  Since(index, before)'
<1>1. /\ lines \in Nat /\ lines' = lines + 1 /\ before \in Nat /\ before <= lines
      /\ LastIndex \in Nat \ {0}
  BY AddLine DEF Since, ConsoleTypes, Console!WebConsoleAssumption
<1>2. before <= lines'
  BY <1>1
<1>3. ASSUME index = 0, NEW k \in 1..Len(log_buffer')
      PROVE  before < log_buffer'[k].line
  <2>1. CASE log_buffer'[k].line = lines'
    BY <1>1, <2>1
  <2>2. ASSUME NEW j \in 1..Len(log_buffer), log_buffer'[k] = log_buffer[j]
        PROVE  before < log_buffer'[k].line
    BY <1>3, <2>2 DEF Since
  <2> QED BY <2>1, <2>2, AddLine
<1>4. ASSUME index # 0
      PROVE  /\ log_buffer_pointer' # 0
             /\ lines' - before < LastIndex
                    => Console!Way(index, log_buffer_pointer') = lines' - before
  <2>1. log_buffer_pointer \in 1..LastIndex /\ log_buffer_pointer'
            = Console!After(log_buffer_pointer)
        /\ index \in 1..LastIndex
    BY <1>4, AddLine DEF Since, ConsoleTypes
  <2>2. ASSUME lines' - before < LastIndex
        PROVE  Console!Way(index, log_buffer_pointer') = lines' - before
    <3>1. lines - before < LastIndex - 1
      BY <1>1, <2>2
    <3>2. Console!Way(index, log_buffer_pointer) = lines - before
      BY <1>1, <1>4, <3>1 DEF Since
    <3>3. Console!Way(index, log_buffer_pointer') = Console!Way(index, log_buffer_pointer) + 1
      BY <2>1, <3>1, <3>2, WayAfter
    <3> QED BY <1>1, <3>2, <3>3
  <2> QED BY <1>1, <2>1, <2>2, AfterIs
<1> QED BY <1>2, <1>3, <1>4 DEF Since, Console!Way

\* ... what the pages know ...
LEMMA StepFollows ==
    ASSUME Console!WebConsoleAssumption, ConsoleTypes, LogOK, FollowsOK,
           [Console!Next]_(Console!consoleVars)
    PROVE  FollowsOK'
<1>0. /\ tab \in [Tabs -> TabStates] /\ poll \in Polls /\ lines \in 0..MaxLines
      /\ LastIndex \in Nat \ {0} /\ log_buffer_pointer \in 0..LastIndex
      /\ poll.pointer \in 0..LastIndex /\ poll.told \in 0..MaxLines
      /\ \A t \in Tabs : tab[t].id \in 0..LastIndex /\ tab[t].told \in 0..MaxLines
  <2>1. tab \in [Tabs -> TabStates] /\ poll \in Polls /\ lines \in 0..MaxLines
        /\ LastIndex \in Nat \ {0} /\ log_buffer_pointer \in 0..LastIndex
    BY DEF ConsoleTypes, Console!WebConsoleAssumption
  <2>2. ASSUME NEW t \in Tabs PROVE tab[t].id \in 0..LastIndex /\ tab[t].told \in 0..MaxLines
    <3>1. tab[t] \in TabStates
      BY <2>1
    <3> QED BY <3>1 DEF TabStates
  <2> QED BY <2>1, <2>2 DEF Polls
<1>1. ASSUME NEW size \in Sizes, Console!AddLogData(size)
      PROVE  FollowsOK'
  <2>1. UNCHANGED <<reset_web_log_flag, tab, poll>>
    BY <1>1 DEF Console!AddLogData
  <2>2. ASSUME NEW index \in 0..LastIndex, NEW before \in 0..MaxLines, Since(index, before)
        PROVE  Since(index, before)'
    BY <1>1, <2>2, SinceKept
  <2>3. ASSUME NEW t \in Tabs, tab[t].follows
        PROVE  Since(tab[t].id, tab[t].told)'
    <3>1. Since(tab[t].id, tab[t].told)
      BY <2>3 DEF FollowsOK
    <3> DEFINE i == tab[t].id
               n == tab[t].told
    <3>2. i \in 0..LastIndex /\ n \in 0..MaxLines /\ UNCHANGED <<i, n>>
      BY <1>0, <2>1
    <3> QED BY <2>1, <2>2, <3>1, <3>2 DEF Since, Console!Way
  <2>4. ASSUME poll.phase = "getlog" PROVE Since(poll.pointer, poll.told)'
    <3>1. Since(poll.pointer, poll.told)
      BY <2>4 DEF FollowsOK
    <3> QED BY <1>0, <2>1, <2>2, <3>1 DEF Since, Console!Way
  <2> QED BY <2>1, <2>3, <2>4 DEF FollowsOK
<1>2. ASSUME UNCHANGED <<log_buffer, log_buffer_pointer, lines, reset_web_log_flag>>,
             \A t \in Tabs : /\ tab'[t].id = tab[t].id /\ tab'[t].told = tab[t].told
                             /\ tab'[t].follows => tab[t].follows,
             \/ poll'.phase # "getlog"
             \/ poll.phase = "getlog" /\ poll'.pointer = poll.pointer /\ poll'.told = poll.told
      PROVE  FollowsOK'
  BY <1>2 DEF FollowsOK, Since, Console!Way
<1>3. ASSUME NEW t \in Tabs, Console!PollArrives(t)
      PROVE  FollowsOK'
  <2>1. poll'.phase = "command" /\ UNCHANGED <<tab, log_buffer, log_buffer_pointer, lines,
                                               reset_web_log_flag>>
    BY <1>3 DEF Console!PollArrives, Console!NoPoll
  <2> QED BY <1>2, <2>1
<1>4. ASSUME NEW t \in Tabs, Console!Pause(t)
      PROVE  FollowsOK'
  <2>1. poll'.phase = "none" /\ UNCHANGED <<log_buffer, log_buffer_pointer, lines,
                                            reset_web_log_flag>>
    BY <1>4 DEF Console!Pause, Console!NoPoll
  <2>2. \A u \in Tabs : tab'[u].id = tab[u].id /\ tab'[u].told = tab[u].told
                        /\ tab'[u].follows = tab[u].follows
    BY <1>0, <1>4 DEF Console!Pause, TabStates
  <2> QED BY <1>2, <2>1, <2>2
<1>5. CASE Console!PollBegins
  <2>1. poll.tab \in Tabs
    BY <1>5 DEF Console!PollBegins, ConsoleTypes
  <2>2. /\ UNCHANGED <<log_buffer, log_buffer_pointer, lines>> /\ reset_web_log_flag' = TRUE
        /\ poll'.pointer = log_buffer_pointer /\ poll'.told = lines
    BY <1>0, <1>5 DEF Console!PollBegins, Polls
  <2>3. \A u \in Tabs : tab'[u].id = tab[u].id /\ tab'[u].told = tab[u].told
                        /\ tab'[u].follows = tab[u].follows
    BY <1>0, <1>5, <2>1 DEF Console!PollBegins, TabStates
  <2>4. Since(log_buffer_pointer, lines)
    <3>1. log_buffer_pointer = 0 => Len(log_buffer) = 0
      BY DEF LogOK
    <3>2. log_buffer_pointer # 0 => Console!Way(log_buffer_pointer, log_buffer_pointer) = 0
      BY <1>0, WayAfter
    <3> QED BY <1>0, <3>1, <3>2 DEF Since
  <2>5. Since(poll'.pointer, poll'.told)
    BY <2>2, <2>4
  <2>6. \A u \in Tabs : tab'[u].follows => Since(tab'[u].id, tab'[u].told)
    BY <2>3 DEF FollowsOK
  <2> QED BY <2>2, <2>5, <2>6 DEF FollowsOK, Since, Console!Way
<1>6. CASE Console!GetLog
  <2>1. poll.tab \in Tabs /\ poll.phase = "getlog"
    BY <1>6 DEF Console!GetLog, ConsoleTypes
  <2>2. UNCHANGED <<log_buffer, log_buffer_pointer, lines, reset_web_log_flag>>
        /\ poll'.pointer = poll.pointer /\ poll'.told = poll.told
    BY <1>0, <1>6 DEF Console!GetLog, Polls
  <2>3. \A u \in Tabs : tab'[u].id = tab[u].id /\ tab'[u].told = tab[u].told
                        /\ tab'[u].follows = tab[u].follows
    BY <1>0, <1>6, <2>1 DEF Console!GetLog, TabStates
  <2> QED BY <1>2, <2>1, <2>2, <2>3
<1>7. CASE Console!PollEnds
  <2>1. UNCHANGED <<log_buffer, log_buffer_pointer, lines, reset_web_log_flag>>
        /\ poll'.phase = "none" /\ poll.phase = "getlog"
    BY <1>7 DEF Console!PollEnds, Console!NoPoll
  <2>2. reset_web_log_flag /\ Since(poll.pointer, poll.told)
    BY <2>1 DEF FollowsOK
  <2>3. ASSUME NEW u \in Tabs, tab'[u].follows
        PROVE  Since(tab'[u].id, tab'[u].told)
    BY <1>7, <2>2, <2>3, PollEnded DEF FollowsOK
  <2> QED BY <2>1, <2>2, <2>3 DEF FollowsOK, Since, Console!Way
<1>8. CASE Console!freeLogBufferIfIdle \/ Console!Restart
  <2>1. \A u \in Tabs : ~tab'[u].follows
    BY <1>0, <1>8
       DEF Console!freeLogBufferIfIdle, Console!Restart, Console!Unfollowed, TabStates
  <2>2. poll'.phase = "none"
    BY <1>8 DEF Console!freeLogBufferIfIdle, Console!Restart, Console!NoPoll
  <2> QED BY <2>1, <2>2 DEF FollowsOK
<1>9. CASE UNCHANGED Console!consoleVars
  BY <1>9 DEF Console!consoleVars, FollowsOK, Since, Console!Way
<1> QED BY <1>1, <1>3, <1>4, <1>5, <1>6, <1>7, <1>8, <1>9 DEF Console!Next

\* How far a line of the buffer is from the index that comes next.
LEMMA BufferWay ==
    ASSUME Console!WebConsoleAssumption, ConsoleTypes, LogOK, NEW k \in 1..Len(log_buffer)
    PROVE  LET i == log_buffer[k].index
               ago == lines - log_buffer[k].line
           IN  /\ i \in 1..LastIndex /\ log_buffer_pointer \in 1..LastIndex
               /\ ago = Len(log_buffer) - k /\ ago \in 0..(LastIndex - 1)
               /\ ago < LastIndex - 1 => Console!Way(i, log_buffer_pointer) = ago + 1
               /\ ago = LastIndex - 1 => Console!Way(i, log_buffer_pointer) = 0
               /\ Console!Way(Console!After(i), log_buffer_pointer) = ago
<1> DEFINE n == Len(log_buffer)
           i == log_buffer[k].index
           last == log_buffer[n].index
           p == log_buffer_pointer
           ago == lines - log_buffer[k].line
<1>1. /\ n \in Nat /\ n \in 1..n /\ n # 0 /\ LastIndex \in Nat \ {0} /\ n <= LastIndex
      /\ log_buffer \in Seq(Entries) /\ lines \in Int
  BY DEF ConsoleTypes, LogOK, Console!WebConsoleAssumption
<1>2. i \in 1..LastIndex /\ last \in 1..LastIndex /\ log_buffer[k].line \in Int
  BY <1>1, EntryIs
<1>3. /\ p = Console!After(last) /\ log_buffer[k].line = lines - n + k
      /\ Console!Way(i, last) = n - k
  BY <1>1 DEF LogOK
<1>4. ago = n - k /\ ago \in 0..(LastIndex - 1)
  <2>1. ago = lines - (lines - n + k)
    BY <1>3
  <2>2. 1 <= k /\ k <= n /\ k \in Int
    BY <1>1
  <2> HIDE DEF n, ago
  <2> QED BY <1>1, <2>1, <2>2
<1> HIDE DEF n, i, last, ago, p
<1>5. p \in 1..LastIndex
  BY <1>1, <1>2, <1>3, AfterIs
<1>6. ago < LastIndex - 1 => Console!Way(i, p) = ago + 1
  BY <1>2, <1>3, <1>4, WayAfter
<1>7. ago = LastIndex - 1 => i = p
  BY <1>2, <1>3, <1>4, WayAfter
<1>8. i = p => Console!Way(i, p) = 0
  BY <1>2, <1>5, WayAfter
<1>9. Console!Way(Console!After(i), p) = ago
  <2>1. CASE i = p
    <3>1. ago = LastIndex - 1
      BY <1>1, <1>4, <1>6, <1>8, <2>1
    <3> QED BY <1>5, <2>1, <3>1, WayAfter
  <2>2. CASE i # p
    <3>1. ago < LastIndex - 1
      BY <1>1, <1>4, <1>7, <2>2
    <3>2. Console!Way(Console!After(i), p) = Console!Way(i, p) - 1
      BY <1>2, <1>5, <2>2, WayAfter
    <3> QED BY <1>4, <1>6, <3>1, <3>2
  <2> QED BY <2>1, <2>2
<1> QED BY <1>2, <1>4, <1>5, <1>6, <1>7, <1>8, <1>9 DEF n, i, ago, p

\* A page that asks for an index is ahead of the lines logged since then.
LEMMA AheadIs ==
    ASSUME Console!WebConsoleAssumption, ConsoleTypes, LogOK, poll.index # 0,
           log_buffer_pointer # 0, poll.index # log_buffer_pointer,
           NEW k \in 1..Len(log_buffer)
    PROVE  LET left == Console!Way(poll.index, log_buffer_pointer)
               ago == lines - log_buffer[k].line
           IN  /\ left \in 1..(LastIndex - 1)
               /\ k \in Console!Ahead <=> ago < left
               /\ k \in Console!Ahead
                      => Console!Way(Console!Asked, log_buffer[k].index) = left - 1 - ago
<1> DEFINE left == Console!Way(poll.index, log_buffer_pointer)
           ago == lines - log_buffer[k].line
           a == poll.index
           i == log_buffer[k].index
           p == log_buffer_pointer
<1>1. a \in 1..LastIndex /\ p \in 1..LastIndex /\ LastIndex \in Nat \ {0}
  BY DEF ConsoleTypes, Polls, Console!WebConsoleAssumption
<1>2. Console!Asked = a
  BY DEF Console!Asked
<1>3. left \in 0..(LastIndex - 1) /\ left # 0
  BY <1>1, WayIs, WayAfter
<1>4. Console!Way(Console!After(a), p) = left - 1
  BY <1>1, WayAfter
<1>5. /\ i \in 1..LastIndex /\ ago \in 0..(LastIndex - 1)
      /\ ago < LastIndex - 1 => Console!Way(i, p) = ago + 1
      /\ ago = LastIndex - 1 => Console!Way(i, p) = 0
  BY BufferWay
<1>6. k \in Console!Ahead <=> Console!Way(a, i) <= left - 1
  BY <1>2, <1>4 DEF Console!Ahead
<1> HIDE DEF left, ago, a, i, p
<1>7. /\ Console!Way(i, p) <= Console!Way(a, p)
             => Console!Way(a, i) = Console!Way(a, p) - Console!Way(i, p)
      /\ Console!Way(a, p) < Console!Way(i, p)
             => Console!Way(a, i) = Console!Way(a, p) - Console!Way(i, p) + LastIndex
  BY <1>1, <1>5, WayBetween
<1>8. Console!Way(a, p) = left
  BY DEF left, a, p
<1>9. CASE ago = LastIndex - 1
  <2>1. Console!Way(a, i) = left
    BY <1>1, <1>3, <1>5, <1>7, <1>8, <1>9
  <2>2. k \notin Console!Ahead /\ ~(ago < left)
    BY <1>1, <1>3, <1>6, <1>9, <2>1
  <2> QED BY <1>1, <1>3, <2>2 DEF left, ago
<1>10. CASE ago # LastIndex - 1 /\ ago < left
  <2>1. Console!Way(i, p) = ago + 1 /\ Console!Way(a, i) = left - 1 - ago
    BY <1>1, <1>3, <1>5, <1>7, <1>8, <1>10
  <2>2. k \in Console!Ahead
    BY <1>1, <1>3, <1>5, <1>6, <2>1
  <2> QED BY <1>1, <1>2, <1>3, <1>10, <2>1, <2>2 DEF left, ago, i
<1>11. CASE ago # LastIndex - 1 /\ ~(ago < left)
  <2>1. Console!Way(i, p) = ago + 1 /\ Console!Way(a, i) = left - 1 - ago + LastIndex
    BY <1>1, <1>3, <1>5, <1>7, <1>8, <1>11
  <2>2. k \notin Console!Ahead
    BY <1>1, <1>3, <1>5, <1>6, <2>1
  <2> QED BY <1>1, <1>3, <1>11, <2>2 DEF left, ago
<1> QED BY <1>9, <1>10, <1>11

\* A page that asks for everything gets the first line.
LEMMA AheadAll ==
    ASSUME Console!WebConsoleAssumption, ConsoleTypes, LogOK, poll.index = 0,
           Len(log_buffer) # 0
    PROVE  1 \in Console!Ahead /\ Console!Nearest = 1
<1>1. Len(log_buffer) \in Nat /\ 1 \in 1..Len(log_buffer) /\ log_buffer \in Seq(Entries)
      /\ LastIndex \in Nat \ {0}
  BY DEF ConsoleTypes, Console!WebConsoleAssumption
<1> DEFINE first == log_buffer[1].index
<1>2. first \in 1..LastIndex /\ Console!Asked = first /\ log_buffer_pointer \in 1..LastIndex
  BY <1>1, BufferWay DEF Console!Asked
<1>3. Console!After(first) \in 1..LastIndex
  BY <1>1, <1>2, AfterIs
<1>4. /\ Console!Way(first, first) = 0
      /\ Console!Way(Console!After(first), log_buffer_pointer) \in Nat
  <2>1. Console!Way(first, first) = 0
    <3> HIDE DEF first
    <3> QED BY <1>2, WayAfter
  <2>2. Console!After(first) \in Int /\ log_buffer_pointer \in Int
    BY <1>1, <1>2, <1>3
  <2> QED BY <2>1, <2>2, WayNat
<1>5. 1 \in Console!Ahead
  BY <1>1, <1>2, <1>4 DEF Console!Ahead
<1>6. /\ Console!Nearest \in 1..Len(log_buffer)
      /\ Console!Way(first, log_buffer[Console!Nearest].index) <= 0
  BY <1>2, <1>4, <1>5, NearestIs
<1> DEFINE i == log_buffer[Console!Nearest].index
           n == Len(log_buffer)
           last == log_buffer[n].index
<1>7. i \in 1..LastIndex
  BY <1>6, BufferWay
<1>8. Console!Way(first, i) = 0
  <2>1. Console!Way(first, i) \in 0..(LastIndex - 1)
    <3> HIDE DEF first, i
    <3> QED BY <1>2, <1>7, WayIs
  <2> QED BY <1>1, <1>6, <2>1
<1>9. i = first
  BY <1>2, <1>7, <1>8, WayAfter
<1>10. Console!Way(i, last) = n - Console!Nearest /\ Console!Way(first, last) = n - 1
  BY <1>1, <1>6 DEF LogOK
<1>11. n - Console!Nearest = n - 1
  BY <1>9, <1>10
<1>12. Console!Nearest = 1
  <2> HIDE DEF n
  <2>1. n \in Nat
    BY <1>1 DEF n
  <2> QED BY <1>6, <1>11, <2>1
<1> QED BY <1>5, <1>12

\* A line is found for a page: what it has been shown still has no gap.
LEMMA GetShown ==
    ASSUME Console!WebConsoleAssumption, ConsoleTypes, LogOK, FollowsOK, ShownOK,
           Console!GetLog
    PROVE  ShownOK'
<1> DEFINE t == tab[poll.tab]
           before == t.told
           N == Console!Nearest
           row == log_buffer[N]
           n == Len(log_buffer)
<1>0. /\ poll.tab \in Tabs /\ poll \in Polls /\ tab \in [Tabs -> TabStates]
      /\ poll.phase = "getlog" /\ t \in TabStates /\ LastIndex \in Nat \ {0}
      /\ lines \in Int /\ before \in Int /\ log_buffer \in Seq(Entries)
      /\ log_buffer_pointer \in 0..LastIndex /\ poll.index \in 0..LastIndex
      /\ n \in Nat
  <2>1. /\ poll.tab \in Tabs /\ poll \in Polls /\ tab \in [Tabs -> TabStates]
        /\ poll.phase = "getlog" /\ LastIndex \in Nat \ {0} /\ lines \in Int
        /\ log_buffer \in Seq(Entries) /\ log_buffer_pointer \in 0..LastIndex
    BY DEF Console!GetLog, ConsoleTypes, Console!WebConsoleAssumption
  <2>2. t \in TabStates
    BY <2>1
  <2> QED BY <2>1, <2>2 DEF TabStates, Polls
<1>1. N \in 1..n /\ N \in Console!Ahead
      /\ \A j \in Console!Ahead : Console!Way(Console!Asked, row.index)
             <= Console!Way(Console!Asked, log_buffer[j].index)
  BY NearestIs DEF Console!GetLog
<1>2. /\ poll' = [poll EXCEPT !.index = Console!After(row.index)]
      /\ tab' = [tab EXCEPT ![poll.tab].shown = @ \cup {row.line}]
      /\ UNCHANGED <<log_buffer, log_buffer_pointer, lines>>
      /\ poll.index # log_buffer_pointer
  BY DEF Console!GetLog
<1>3. /\ row.index \in 1..LastIndex /\ log_buffer_pointer \in 1..LastIndex
      /\ lines - row.line = n - N
      /\ Console!Way(Console!After(row.index), log_buffer_pointer) = lines - row.line
      /\ row.line \in Int
  BY <1>0, <1>1, BufferWay, EntryIs
<1>4. poll'.tab = poll.tab /\ poll'.index = Console!After(row.index) /\ poll'.index # 0
  <2>1. Console!After(row.index) # 0
    <3> DEFINE i == row.index
    <3>1. i \in 0..LastIndex
      BY <1>0, <1>3
    <3> HIDE DEF i
    <3>2. Console!After(i) \in 1..LastIndex
      BY <3>1, AfterIs
    <3>3. Console!After(i) # 0
      BY <3>2
    <3> QED BY <3>3 DEF i
  <2> QED BY <1>0, <1>2, <2>1 DEF Polls
<1>5. LET u == tab'[poll'.tab]
      IN  u.told = before /\ u.follows = t.follows /\ u.shown = t.shown \cup {row.line}
  BY <1>0, <1>2, <1>4 DEF TabStates
<1>6. SUFFICES ASSUME t.follows, lines - before < LastIndex
               PROVE  /\ lines - row.line <= lines - before
                      /\ \A k \in 1..n :
                            (before < log_buffer[k].line
                                /\ log_buffer[k].line + (lines - row.line) <= lines)
                               => log_buffer[k].line \in t.shown \cup {row.line}
  <2>1. Console!Way(poll'.index, log_buffer_pointer') = lines - row.line
    BY <1>2, <1>3, <1>4
  <2>2. Console!Way(poll.index, log_buffer_pointer)'
            = Console!Way(poll'.index, log_buffer_pointer')
    BY DEF Console!Way
  <2> HIDE DEF row, before, t, n
  <2> QED BY <1>2, <1>3, <1>4, <1>5, <1>6, <2>1, <2>2 DEF ShownOK, t, n
<1>7. ASSUME NEW k \in 1..n
      PROVE  log_buffer[k].line \in Int /\ lines - log_buffer[k].line = n - k
  BY <1>0, <1>7, BufferWay, EntryIs
<1>8. CASE poll.index = 0
  <2>1. N = 1 /\ before < row.line
    <3>1. n # 0
      BY <1>0, <1>1
    <3>2. N = 1
      BY <1>8, <3>1, AheadAll
    <3> QED BY <1>0, <1>1, <1>6, <1>8, <3>2 DEF ShownOK
  <2>2. ASSUME NEW k \in 1..n, log_buffer[k].line + (lines - row.line) <= lines
        PROVE  log_buffer[k].line = row.line
    <3> DEFINE l == log_buffer[k].line
               r == row.line
    <3>1. l \in Int /\ r \in Int /\ lines - l = n - k /\ lines - r = n - 1
      BY <1>3, <1>7, <2>1
    <3>2. l + (lines - r) <= lines
      BY <2>2
    <3>3. 1 <= k /\ k \in Int
      BY <1>0
    <3> HIDE DEF l, r, n
    <3>4. l = r
      BY <1>0, <3>1, <3>2, <3>3
    <3> QED BY <3>4 DEF l, r
  <2>3. lines - row.line <= lines - before
    <3> DEFINE r == row.line
    <3>1. r \in Int /\ before < r
      BY <1>3, <2>1
    <3> HIDE DEF r, before
    <3>2. lines - r <= lines - before
      BY <1>0, <3>1
    <3> QED BY <3>2 DEF r
  <2> QED BY <2>2, <2>3
<1>9. CASE poll.index # 0
  <2> DEFINE left == Console!Way(poll.index, log_buffer_pointer)
             ago(k) == lines - log_buffer[k].line
  <2>1. /\ left <= lines - before
        /\ \A k \in 1..n : (before < log_buffer[k].line /\ log_buffer[k].line + left <= lines)
                              => log_buffer[k].line \in t.shown
    BY <1>0, <1>6, <1>9 DEF ShownOK
  <2>2. \A k \in 1..n : /\ left \in 1..(LastIndex - 1)
                        /\ k \in Console!Ahead <=> ago(k) < left
                        /\ k \in Console!Ahead => Console!Way(Console!Asked,
                               log_buffer[k].index) = left - 1 - ago(k)
    BY <1>2, <1>3, <1>9, AheadIs
  <2>3. left \in Int /\ ago(N) < left
    BY <1>1, <2>2
  <2>4. \A k \in Console!Ahead : k \in 1..n /\ ago(k) <= ago(N)
    <3>1. ASSUME NEW k \in Console!Ahead PROVE k \in 1..n /\ ago(k) <= ago(N)
      <4>1. k \in 1..n
        BY DEF Console!Ahead
      <4>2. Console!Way(Console!Asked, row.index) = left - 1 - ago(N)
            /\ Console!Way(Console!Asked, log_buffer[k].index) = left - 1 - ago(k)
        BY <1>1, <2>2, <4>1
      <4>3. left - 1 - ago(N) <= left - 1 - ago(k)
        BY <1>1, <4>2
      <4>4. ago(N) \in Int /\ ago(k) \in Int
        BY <1>0, <1>1, <1>7, <4>1
      <4> HIDE DEF left, ago
      <4> QED BY <2>3, <4>1, <4>3, <4>4
    <3> QED BY <3>1
  <2>5. lines - row.line <= lines - before
    <3> DEFINE b == ago(N)
    <3>1. b \in Int /\ b < left
      BY <1>0, <1>3, <2>3
    <3> HIDE DEF b, left, before
    <3>2. b <= lines - before
      BY <1>0, <2>1, <2>3, <3>1
    <3> QED BY <3>2 DEF b
  <2>6. ASSUME NEW k \in 1..n, before < log_buffer[k].line,
               log_buffer[k].line + (lines - row.line) <= lines
        PROVE  log_buffer[k].line \in t.shown \cup {row.line}
    <3> DEFINE l == log_buffer[k].line
               r == row.line
    <3>1. l \in Int /\ r \in Int
      BY <1>3, <1>7
    <3>2. CASE l + left <= lines
      BY <2>1, <2>6, <3>2
    <3>3. CASE ~(l + left <= lines)
      <4>1. lines - l < left
        <5> HIDE DEF l, left
        <5> QED BY <1>0, <2>3, <3>1, <3>3
      <4>2. lines - l <= lines - r
        BY <2>2, <2>4, <4>1
      <4>3. l + (lines - r) <= lines
        BY <2>6
      <4>4. l = r
        <5> HIDE DEF l, r
        <5> QED BY <1>0, <3>1, <4>2, <4>3
      <4> QED BY <4>4
    <3> QED BY <3>2, <3>3
  <2> QED BY <2>5, <2>6
<1> QED BY <1>8, <1>9

\* A line is added while a page is served.
LEMMA AddShown ==
    ASSUME Console!WebConsoleAssumption, ConsoleTypes, LogOK, FollowsOK, ShownOK,
           NEW size \in Sizes, Console!AddLogData(size)
    PROVE  ShownOK'
<1> DEFINE t == tab[poll.tab]
           before == t.told
           left == Console!Way(poll.index, log_buffer_pointer)
<1>1. UNCHANGED <<tab, poll>>
  BY DEF Console!AddLogData
<1>2. SUFFICES ASSUME poll.phase = "getlog", t.follows, lines' - before < LastIndex
               PROVE  /\ poll.index = 0 =>
                            \A k \in 1..Len(log_buffer') : before < log_buffer'[k].line
                      /\ poll.index # 0 =>
                            /\ log_buffer_pointer' # 0
                            /\ Console!Way(poll.index, log_buffer_pointer') <= lines' - before
                            /\ \A k \in 1..Len(log_buffer') :
                                  (before < log_buffer'[k].line
                                      /\ log_buffer'[k].line
                                             + Console!Way(poll.index, log_buffer_pointer')
                                                 <= lines')
                                     => log_buffer'[k].line \in t.shown
  <2>1. Console!Way(poll.index, log_buffer_pointer)'
            = Console!Way(poll.index, log_buffer_pointer')
    BY <1>1 DEF Console!Way
  <2> QED BY <1>1, <1>2, <2>1 DEF ShownOK
<1>3. /\ poll.tab \in Tabs /\ t \in TabStates /\ before \in 0..MaxLines /\ lines \in 0..MaxLines
      /\ LastIndex \in Nat \ {0} /\ poll.index \in 0..LastIndex /\ MaxLines \in Nat
      /\ log_buffer_pointer \in 0..LastIndex
  <2>1. poll.tab \in Tabs /\ poll \in Polls /\ tab \in [Tabs -> TabStates]
        /\ lines \in 0..MaxLines /\ log_buffer_pointer \in 0..LastIndex
    BY <1>2 DEF ConsoleTypes
  <2>2. t \in TabStates
    BY <2>1
  <2> QED BY <2>1, <2>2 DEF TabStates, Polls, Console!WebConsoleAssumption
<1>4. /\ lines' = lines + 1
      /\ \A k \in 1..Len(log_buffer') :
               \/ log_buffer'[k].line = lines'
               \/ \E j \in 1..Len(log_buffer) : log_buffer'[k] = log_buffer[j]
      /\ log_buffer_pointer # 0 => log_buffer_pointer' = Console!After(log_buffer_pointer)
  BY AddLine
<1>5. before <= lines /\ lines - before < LastIndex - 1
  <2>1. before <= lines
    BY <1>2, <1>3 DEF FollowsOK, Since
  <2> HIDE DEF before
  <2> QED BY <1>2, <1>3, <1>4, <2>1
<1>6. CASE poll.index = 0
  <2>1. \A j \in 1..Len(log_buffer) : before < log_buffer[j].line
    BY <1>2, <1>3, <1>5, <1>6 DEF ShownOK
  <2>2. before < lines'
    <3> HIDE DEF before
    <3> QED BY <1>3, <1>4, <1>5
  <2>3. \A k \in 1..Len(log_buffer') : before < log_buffer'[k].line
    BY <1>4, <2>1, <2>2
  <2> QED BY <1>6, <2>3
<1>7. CASE poll.index # 0
  <2>1. /\ log_buffer_pointer # 0 /\ left <= lines - before
        /\ \A j \in 1..Len(log_buffer) :
              (before < log_buffer[j].line /\ log_buffer[j].line + left <= lines)
                 => log_buffer[j].line \in t.shown
    <3>1. lines - before < LastIndex
      <4> HIDE DEF before
      <4> QED BY <1>3, <1>5
    <3> QED BY <1>2, <1>7, <3>1 DEF ShownOK
  <2>2. poll.index \in 1..LastIndex /\ log_buffer_pointer \in 1..LastIndex
    BY <1>3, <1>7, <2>1
  <2>3. left \in 0..(LastIndex - 1)
    BY <2>2, WayIs
  <2> DEFINE left2 == Console!Way(poll.index, log_buffer_pointer')
  <2>4. left2 = left + 1
    <3>1. left < LastIndex - 1
      <4> HIDE DEF left, before
      <4> QED BY <1>3, <1>5, <2>1, <2>3
    <3> QED BY <1>4, <2>1, <2>2, <3>1, WayAfter
  <2>5. log_buffer_pointer' # 0
    BY <1>3, <1>4, <2>1, <2>2, AfterIs
  <2> HIDE DEF left, left2, before
  <2>6. left2 <= lines' - before
    BY <1>3, <1>4, <2>1, <2>3, <2>4
  <2>7. ASSUME NEW k \in 1..Len(log_buffer'), before < log_buffer'[k].line,
               log_buffer'[k].line + left2 <= lines'
        PROVE  log_buffer'[k].line \in t.shown
    <3>1. log_buffer'[k].line # lines'
      BY <1>3, <1>4, <2>3, <2>4, <2>7
    <3>2. PICK j \in 1..Len(log_buffer) : log_buffer'[k] = log_buffer[j]
      BY <1>4, <3>1
    <3>3. log_buffer[j].line \in Int
      BY EntryIs DEF ConsoleTypes
    <3>4. log_buffer[j].line + left <= lines
      BY <1>3, <1>4, <2>3, <2>4, <2>7, <3>2, <3>3
    <3> QED BY <2>1, <2>7, <3>2, <3>4
  <2> QED BY <1>7, <2>5, <2>6, <2>7 DEF left2
<1> QED BY <1>6, <1>7

\* A poll begins where the one before had ended.
LEMMA BeginShown ==
    ASSUME Console!WebConsoleAssumption, ConsoleTypes, LogOK, FollowsOK, Console!PollBegins
    PROVE  ShownOK'
<1> DEFINE t == tab[poll.tab]
           u == tab'[poll'.tab]
           before == t.told
<1>1. /\ poll.tab \in Tabs /\ t \in TabStates /\ before \in Int /\ lines \in Int
      /\ poll \in Polls /\ tab \in [Tabs -> TabStates] /\ LastIndex \in Nat \ {0}
      /\ log_buffer \in Seq(Entries)
  <2>1. poll.tab \in Tabs /\ poll \in Polls /\ tab \in [Tabs -> TabStates] /\ lines \in Int
        /\ log_buffer \in Seq(Entries)
    BY DEF ConsoleTypes, Console!PollBegins
  <2>2. t \in TabStates
    BY <2>1
  <2> QED BY <2>1, <2>2 DEF TabStates, Console!WebConsoleAssumption
<1> DEFINE index == IF reset_web_log_flag THEN t.id ELSE 0
<1>2. /\ UNCHANGED <<log_buffer, log_buffer_pointer, lines>>
      /\ poll'.tab = poll.tab /\ poll'.index = index
  BY <1>1 DEF Console!PollBegins, Polls
<1>3. u.told = before /\ u.follows = t.follows
  BY <1>1, <1>2 DEF Console!PollBegins, TabStates
<1> HIDE DEF index
<1>4. SUFFICES ASSUME t.follows, lines - before < LastIndex
               PROVE  /\ index = 0 => \A k \in 1..Len(log_buffer) : before < log_buffer[k].line
                      /\ index # 0 =>
                            /\ log_buffer_pointer # 0
                            /\ Console!Way(index, log_buffer_pointer) <= lines - before
                            /\ \A k \in 1..Len(log_buffer) :
                                  before < log_buffer[k].line
                                     => ~(log_buffer[k].line
                                              + Console!Way(index, log_buffer_pointer) <= lines)
  <2>1. Console!Way(poll.index, log_buffer_pointer)' = Console!Way(index, log_buffer_pointer)
    BY <1>2 DEF Console!Way
  <2> HIDE DEF before
  <2> QED BY <1>2, <1>3, <1>4, <2>1 DEF ShownOK
<1>5. Since(t.id, before) /\ (~reset_web_log_flag => t.id = 0)
  BY <1>1, <1>4 DEF FollowsOK
<1>6. index = t.id
  BY <1>5 DEF index
<1>7. ASSUME index # 0
      PROVE  /\ log_buffer_pointer # 0
             /\ Console!Way(index, log_buffer_pointer) = lines - before
  BY <1>4, <1>5, <1>6, <1>7 DEF Since
<1>8. ASSUME NEW k \in 1..Len(log_buffer), before < log_buffer[k].line
      PROVE  ~(log_buffer[k].line + (lines - before) <= lines)
  <2>1. log_buffer[k].line \in Int
    BY <1>1, EntryIs
  <2> HIDE DEF before
  <2> QED BY <1>1, <1>8, <2>1
<1>9. lines - before <= lines - before
  <2> HIDE DEF before
  <2> QED BY <1>1
<1> QED BY <1>5, <1>6, <1>7, <1>8, <1>9 DEF Since

\* ... and what they have been shown.
LEMMA StepShown ==
    ASSUME Console!WebConsoleAssumption, ConsoleTypes, LogOK, FollowsOK, ShownOK,
           [Console!Next]_(Console!consoleVars)
    PROVE  ShownOK'
<1>1. ASSUME poll'.phase # "getlog"
      PROVE  ShownOK'
  BY <1>1 DEF ShownOK
<1>2. ASSUME NEW t \in Tabs, Console!PollArrives(t) \/ Console!Pause(t)
      PROVE  ShownOK'
  <2>1. CASE Console!PollArrives(t)
    <3>1. poll'.phase = "command"
      BY <2>1 DEF Console!PollArrives, Console!NoPoll
    <3> QED BY <1>1, <3>1
  <2>2. CASE Console!Pause(t)
    BY <1>1, <2>2 DEF Console!Pause, Console!NoPoll
  <2> QED BY <1>2, <2>1, <2>2
<1>3. CASE Console!PollEnds \/ Console!freeLogBufferIfIdle \/ Console!Restart
  BY <1>1, <1>3
     DEF Console!PollEnds, Console!freeLogBufferIfIdle, Console!Restart, Console!NoPoll
<1>4. CASE UNCHANGED Console!consoleVars
  BY <1>4 DEF Console!consoleVars, ShownOK, Console!Way
<1> QED BY <1>2, <1>3, <1>4, AddShown, BeginShown, GetShown DEF Console!Next

\* When a poll ends, the page has no gap.
LEMMA Skipless ==
    ASSUME Console!WebConsoleAssumption, ConsoleInv, Console!PollEnds, NEW t \in Tabs,
           poll.tab = t, tab[t].follows, lines - tab[t].told < LastIndex
    PROVE  {log_buffer[k].line : k \in 1..Len(log_buffer)}
               \cap (tab[t].told + 1)..poll.told \subseteq tab[t].shown
<1> DEFINE before == tab[t].told
           left == Console!Way(poll.index, log_buffer_pointer)
           n == Len(log_buffer)
<1>0. /\ ConsoleTypes /\ LogOK /\ FollowsOK /\ ShownOK
      /\ poll.phase = "getlog" /\ Console!GetLogEnds /\ n \in Nat /\ lines \in Int
      /\ before \in Int
      /\ log_buffer \in Seq(Entries) /\ poll.index \in 0..LastIndex
      /\ log_buffer_pointer \in 0..LastIndex /\ LastIndex \in Nat \ {0}
  <2>1. tab[t] \in TabStates
    BY DEF ConsoleInv, ConsoleTypes
  <2> QED
    BY <2>1
       DEF ConsoleInv, Console!PollEnds, ConsoleTypes, TabStates, Polls,
           Console!WebConsoleAssumption
<1>1. /\ poll.index = 0 => \A k \in 1..n : before < log_buffer[k].line
      /\ poll.index # 0 =>
            /\ log_buffer_pointer # 0 /\ left <= lines - before
            /\ \A k \in 1..n :
                   (before < log_buffer[k].line /\ log_buffer[k].line + left <= lines)
                       => log_buffer[k].line \in tab[t].shown
  BY <1>0 DEF ShownOK
<1>2. CASE n = 0
  BY <1>2
<1>3. CASE n # 0
  <2>1. log_buffer_pointer # 0
    BY <1>0, <1>3 DEF LogOK
  <2>2. ASSUME poll.index = 0
        PROVE  FALSE
    <3>1. 1 \in Console!Ahead
      BY <1>0, <1>3, <2>2, AheadAll
    <3> QED BY <2>1, <2>2, <3>1 DEF Console!GetLogEnds, Console!PollEnds
  <2>3. ASSUME poll.index # log_buffer_pointer
        PROVE  FALSE
    <3>1. n \in 1..n /\ n - n = 0
      BY <1>0, <1>3
    <3>2. lines - log_buffer[n].line = 0
      BY <1>0, <3>1, BufferWay
    <3>3. left \in 1..(LastIndex - 1) /\ (n \in Console!Ahead <=> 0 < left)
      BY <1>0, <2>1, <2>2, <2>3, <3>1, <3>2, AheadIs
    <3>4. n \in Console!Ahead
      BY <1>0, <3>3
    <3> QED BY <2>1, <2>3, <3>4 DEF Console!GetLogEnds, Console!PollEnds
  <2>4. left = 0
    BY <1>0, <2>1, <2>3, WayAfter
  <2>5. ASSUME NEW k \in 1..n, log_buffer[k].line \in (before + 1)..poll.told
        PROVE  log_buffer[k].line \in tab[t].shown
    <3> DEFINE l == log_buffer[k].line
    <3>1. l \in Int /\ lines - l \in 0..(LastIndex - 1)
      BY <1>0, BufferWay, EntryIs
    <3>2. before + 1 <= l
      BY <2>5
    <3>3. before < l /\ l + left <= lines
      <4> HIDE DEF l, before, left
      <4> QED BY <1>0, <2>4, <3>1, <3>2
    <3> QED BY <1>1, <2>2, <3>3
  <2> QED BY <2>5
<1> QED BY <1>2, <1>3

\* It gives the type invariant.
LEMMA ConsoleTypeOK == ConsoleInv => Console!TypeOK
<1> SUFFICES ASSUME ConsoleInv PROVE Console!TypeOK
  OBVIOUS
<1>1. ConsoleTypes
  BY DEF ConsoleInv
<1>2. \A k \in 1..Len(log_buffer) : log_buffer[k] \in Entries
  BY <1>1 DEF ConsoleTypes
<1>3. /\ poll.tab \in Tabs \cup {"none"} /\ poll.phase \in {"none", "command", "getlog"}
      /\ poll.pointer \in 0..LastIndex /\ poll.index \in 0..LastIndex
      /\ poll.told \in 0..MaxLines
  BY <1>1 DEF ConsoleTypes, Polls
<1> QED BY <1>1, <1>2, <1>3 DEF ConsoleTypes, Console!TypeOK, Entries, TabStates

\* The invariant holds in every behaviour.
LEMMA ConsoleHolds == PlatformSpec => []ConsoleInv
<1>1. Console!Init => ConsoleInv
  BY PlatformConstants, InitConsole
<1>2. ASSUME ConsoleInv, [Console!Next]_(Console!consoleVars)
      PROVE  ConsoleInv'
  BY <1>2, PlatformConstants, StepTypes, StepLog, StepFollows, StepShown DEF ConsoleInv
<1> QED
  BY <1>1, <1>2, EachComponent, PTL DEF Console!Spec

-----------------------------------------------------------------------------
\* WebForms.  A form that was not touched is submitted as its page had shown it.

\* A form that was not touched shows what was configured when it was loaded.
AsShown == form # Forms!NoForm /\ ~touched => form = Forms!Prefilled(shown)

\* The bound is a number.
LEMMA EditsBounded ==
    ASSUME Forms!WebFormsAssumption
    PROVE  MaxEdits \in Nat
BY Zenon DEF Forms!WebFormsAssumption

\* What a form shows has its type.
LEMMA PrefilledTyped ==
    ASSUME Forms!WebFormsAssumption, NEW l \in Forms!Values
    PROVE  Forms!Prefilled(l) \in Forms!Values
BY DEF Forms!WebFormsAssumption, Forms!Values, Forms!Prefilled

\* What a page's handler leaves has its type.
LEMMA HandleTyped ==
    ASSUME Forms!WebFormsAssumption, Forms!TypeOK, NEW a \in Forms!Values
    PROVE  /\ Forms!Handle(a).live \in Forms!Values /\ Forms!Handle(a).stored \in Forms!Values
           /\ Forms!Handle(a).restarts \in BOOLEAN
<1> USE DEF Forms!TypeOK, Forms!Values, Forms!Outcome
<1>1. page \in {"wu", "wi", "mq", "cg", "lo", "bl", "la", "rf", "cl"}
  BY DEF Forms!WebFormsAssumption
<1>2. CASE page = "wu" BY <1>2 DEF Forms!Handle, Forms!handleWU
<1>3. CASE page = "wi" BY <1>3 DEF Forms!Handle, Forms!handleWI
<1>4. CASE page = "mq" BY <1>4 DEF Forms!Handle, Forms!handleMQ
<1>5. CASE page = "cg" BY <1>5 DEF Forms!Handle, Forms!handleCG
<1>6. CASE page = "lo" BY <1>6 DEF Forms!Handle, Forms!handleLO
<1>7. CASE page = "bl" BY <1>7 DEF Forms!Handle, Forms!handleBL
<1>8. CASE page = "la" BY <1>8 DEF Forms!Handle, Forms!handleLA
<1>9. CASE page = "rf" BY <1>9 DEF Forms!Handle, Forms!handleRF
<1>10. CASE page = "cl" BY <1>10 DEF Forms!Handle, Forms!handleCL
<1> QED BY <1>1, <1>2, <1>3, <1>4, <1>5, <1>6, <1>7, <1>8, <1>9, <1>10

\* The invariant of the forms.
FormsInv == Forms!TypeOK /\ AsShown

\* It holds from the start ...
LEMMA InitForms ==
    ASSUME Forms!WebFormsAssumption, Forms!Init
    PROVE  FormsInv
<1>1. live \in Forms!Values
  BY DEF Forms!Init, Forms!WebFormsAssumption, Forms!Values
<1>2. formInputs \in 0..MaxEdits
  BY EditsBounded DEF Forms!Init
<1> QED
  BY <1>1, <1>2 DEF Forms!Init, FormsInv, Forms!TypeOK, AsShown

\* ... and every step keeps it.
LEMMA StepForms ==
    ASSUME Forms!WebFormsAssumption, FormsInv, [Forms!Next]_(Forms!formVars)
    PROVE  FormsInv'
<1> USE DEF FormsInv
<1>1. CASE Forms!Opened
  <2>1. form' \in Forms!Values /\ form' = Forms!Prefilled(shown')
    BY <1>1, PrefilledTyped DEF Forms!Opened, Forms!TypeOK, Forms!Prefilled
  <2> QED BY <1>1, <2>1 DEF Forms!Opened, Forms!TypeOK, AsShown, Forms!Prefilled
<1>2. ASSUME NEW v \in Forms!Values, Forms!Edited(v) PROVE FormsInv'
  <2>1. formInputs' \in 0..MaxEdits
    BY <1>2, EditsBounded DEF Forms!Edited, Forms!TypeOK
  <2> QED BY <1>2, <2>1 DEF Forms!Edited, Forms!TypeOK, AsShown
<1>3. CASE Forms!Submitted
  <2>1. form \in Forms!Values
    BY <1>3 DEF Forms!Submitted, Forms!TypeOK
  <2>2. live' \in Forms!Values /\ stored' \in Forms!Values /\ restarted' \in BOOLEAN
    BY <1>3, <2>1, HandleTyped DEF Forms!Submitted
  <2> QED BY <1>3, <2>2 DEF Forms!Submitted, Forms!TypeOK, AsShown
<1>4. ASSUME NEW v \in Forms!Values, NEW save \in BOOLEAN, Forms!Commanded(v, save)
      PROVE  FormsInv'
  <2>1. formInputs' \in 0..MaxEdits
    BY <1>4, EditsBounded DEF Forms!Commanded, Forms!TypeOK
  <2>2. stored' \in Forms!Values
    BY <1>4 DEF Forms!Commanded, Forms!TypeOK
  <2> QED BY <1>4, <2>1, <2>2 DEF Forms!Commanded, Forms!TypeOK, AsShown, Forms!Prefilled
<1>5. CASE Forms!handleRoot
  BY <1>5 DEF Forms!handleRoot, Forms!TypeOK, AsShown, Forms!Prefilled
<1>6. CASE UNCHANGED Forms!formVars
  BY <1>6 DEF Forms!formVars, Forms!TypeOK, AsShown, Forms!Prefilled
<1> QED BY <1>1, <1>2, <1>3, <1>4, <1>5, <1>6 DEF Forms!Next

\* What is submitted as it was shown changes nothing, page by page.
LEMMA StepHarmless ==
    ASSUME Forms!WebFormsAssumption, FormsInv, Forms!Submitted, ~touched, live = shown,
           page \notin {"wi", "mq"}, page \in Forms!Lists => live.text \in Options
    PROVE  live' = live /\ ~restarted'
<1> USE DEF FormsInv
<1>1. /\ live \in Forms!Values /\ form = Forms!Prefilled(live)
      /\ live' = Forms!Handle(form).live /\ restarted' = Forms!Handle(form).restarts
  BY DEF Forms!Submitted, Forms!TypeOK, AsShown
<1>2. form = [live EXCEPT !.pass = ""]
  BY <1>1 DEF Forms!Prefilled, Forms!Values
<1>3. form.box = live.box /\ form.text = live.text /\ form.pass = ""
  BY <1>1, <1>2 DEF Forms!Values
<1>4. /\ live = [live EXCEPT !.box = live.box]
      /\ live = [live EXCEPT !.text = live.text]
      /\ live = [live EXCEPT !.box = live.box, !.text = live.text]
      /\ live = [live EXCEPT !.pass = live.pass, !.box = live.box]
  BY <1>1 DEF Forms!Values
<1>5. page \in {"wu", "cg", "lo", "bl", "la", "rf", "cl"}
  BY DEF Forms!TypeOK, Forms!WebFormsAssumption
<1> USE <1>1, <1>3, <1>4 DEF Forms!Outcome
<1>6. CASE page = "wu" BY <1>6 DEF Forms!Handle, Forms!handleWU
<1>7. CASE page = "cg" BY <1>7 DEF Forms!Handle, Forms!handleCG
<1>8. CASE page = "lo" BY <1>8 DEF Forms!Handle, Forms!handleLO
<1>9. CASE page = "bl" BY <1>9 DEF Forms!Handle, Forms!handleBL
<1>10. CASE page = "la" BY <1>10 DEF Forms!Handle, Forms!handleLA
<1>11. CASE page = "rf" BY <1>11 DEF Forms!Handle, Forms!handleRF
<1>12. CASE page = "cl" BY <1>12 DEF Forms!Handle, Forms!handleCL
<1> QED BY <1>5, <1>6, <1>7, <1>8, <1>9, <1>10, <1>11, <1>12

\* The invariant holds in every behaviour.
LEMMA FormsHold == PlatformSpec => []FormsInv
<1>1. Forms!Init => FormsInv
  BY PlatformConstants, InitForms
<1>2. FormsInv /\ [Forms!Next]_(Forms!formVars) => FormsInv'
  BY PlatformConstants, StepForms
<1> QED
  BY <1>1, <1>2, EachComponent, PTL DEF Forms!Spec

-----------------------------------------------------------------------------
\* The theorems.

\* Supervisor, Relay, StatusLed, Lights, Sensors, Display, WebConsole, WebForms: the
\* variables of every component have their types.
THEOREM TypesCorrect == PlatformSpec => []TypesOK
<1>1. /\ SupervisorFlags /\ SupervisorOthers => TypeOK
      /\ TasksAt /\ RelayTypes => Actuator!TypeOK
      /\ LedsTyped /\ LedRest => Led!TypeOK
      /\ LightsInv => Light!TypeOK
      /\ SensorInv => Sensor!TypeOK
      /\ MessagesInv /\ ScreenTyped => Screen!TypeOK
      /\ ConsoleInv => Console!TypeOK
      /\ FormsInv => Forms!TypeOK
  BY SupervisorTypes, RelayTypeParts, LedTypes, LightTypes, ScreenTypes, ConsoleTypeOK
     DEF SensorInv, FormsInv
<1> QED
  BY <1>1, SupervisorHolds, RelayHolds, LedHolds, LightHolds, SensorHolds, ScreenHolds,
     ConsoleHolds, FormsHold, PTL DEF TypesOK

\* main.cpp, loop (2605): a gateway that is connected is unlocked, unless its client is about
\* to be set up and the connection to be made anew.
THEOREM Unlocked == PlatformSpec => []ConnectedIsUnlocked
<1>1. UnlockedInv => ConnectedIsUnlocked
  BY UnlockedIs
<1> QED
  BY <1>1, SupervisorHolds, PTL

\* actuatorONOFF.cpp, overLimitTemp, overLimitCurrent and ActuatorTrigger: with one core
\* and one protection only, a protection that triggers leaves the relay off.
THEOREM OneProtectionSwitchesOff ==
    ASSUME OnlyOne
    PROVE  PlatformSpec => Actuator!ProtectionSwitchesOff
<1> DEFINE Off == \A t \in Protections : Actuator!TriggerWrite(t) => ~relay'
           Kept == TasksAt /\ RelayTypes /\ OnItsWay
<1>1. Actuator!Init => OnItsWay
  BY InitWay
<1>2. ASSUME TasksAt, RelayTypes, OnItsWay, [Actuator!Next]_(Actuator!vars)
      PROVE  OnItsWay'
  BY <1>2, OnlyOne, PlatformConstants, StepWay
<1>3. Kept => [Off]_(Actuator!vars)
  BY PlatformConstants, SwitchesOff
<1>4. PlatformSpec => []Kept
  BY <1>1, <1>2, EachComponent, RelayHolds, PTL DEF Actuator!Spec
<1> QED
  BY <1>3, <1>4, PTL DEF Actuator!ProtectionSwitchesOff

\* LEDManager.cpp, setModeForSingleLED and handleBlink: a request that lasts is shown, or
\* waits behind the blinks that are shown.
THEOREM RequestsKept == PlatformSpec => []RequestKept
BY LedHolds, PTL DEF RequestKept

\* actuatorPWM.cpp, PWMLoop and XtoPWMset: no channel goes away from its target, nor past it.
THEOREM FadesTowards == PlatformSpec => NeverAway
<1>1. LightsInv /\ [Light!Next]_(Light!lightVars)
         => [Light!FadesTowardsTarget]_(Light!lightVars)
  BY PlatformConstants, StepTowards
<1> QED
  BY <1>1, LightHolds, EachComponent, PTL DEF NeverAway, Light!NeverAway, Light!Spec

\* sensor*.cpp, the functions that measure: what was published last is what was read last, up
\* to the sensor's own tolerance.
THEOREM LastIsTold == PlatformSpec => []LastReadingTold
<1>1. SensorInv => LastReadingTold
  BY SensorReported DEF LastReadingTold
<1> QED
  BY <1>1, SensorHolds, PTL

\* webUI.cpp and displaySSD1306.cpp, the queue of messages for the screen: a message is on
\* the heap exactly while it waits or is the current one.
THEOREM NoneLeaked == PlatformSpec => []MessagesAccounted
<1>1. MessagesInv => MessagesAccounted
  BY DEF MessagesInv, MessagesAccounted
<1> QED
  BY <1>1, ScreenHolds, PTL

\* webUI.cpp, GetLog and AddLogData: a page that polls before the indices have gone round
\* misses no line of the buffer.
THEOREM NoLineSkipped == PlatformSpec => NothingSkipped
<1> DEFINE Whole == \A t \in Tabs :
               (Console!PollEnds /\ poll.tab = t /\ tab[t].follows
                    /\ lines - tab[t].told < LastIndex)
                 => {log_buffer[k].line : k \in 1..Len(log_buffer)}
                       \cap (tab[t].told + 1)..poll.told \subseteq tab[t].shown
<1>1. ConsoleInv => [Whole]_(Console!consoleVars)
  BY PlatformConstants, Skipless
<1> QED
  BY <1>1, ConsoleHolds, PTL DEF NothingSkipped, Console!NothingSkipped

\* webUI.cpp, the handlers of the pages: a form saved as it was shown changes nothing.
THEOREM SavedAsShown == PlatformSpec => SavingUnchangedIsHarmless
<1> DEFINE Harmless == (/\ Forms!Submitted /\ ~touched /\ live = shown
                        /\ page \notin {"wi", "mq"}
                        /\ page \in Forms!Lists => live.text \in Options)
                         => live' = live /\ ~restarted'
<1>1. FormsInv => [Harmless]_(Forms!formVars)
  BY PlatformConstants, StepHarmless
<1> QED
  BY <1>1, FormsHold, PTL DEF SavingUnchangedIsHarmless, Forms!SavingUnchangedIsHarmless
=============================================================================
