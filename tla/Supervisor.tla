----------------------------- MODULE Supervisor -----------------------------
(***************************************************************************)
(* The life of the gateway from power-on to power-off: setup(), the WiFi   *)
(* manager and its portal, the reset button and the failsafe mode, loop()  *)
(* with its network branches, offline and serial mode, deep sleep, and the *)
(* commands of XtoSYS and MQTTHttpsFWUpdate that restart it, put it to     *)
(* sleep or lock it (main.cpp).                                            *)
(*                                                                         *)
(* One pass of loop() is one step.  What connects to which broker is in    *)
(* Connections; here there is one broker, that answers or not.  The WiFi   *)
(* library is external: WiFi.begin() connects if the access point answers  *)
(* and its credentials are stored, and a lost link stays lost until then.  *)
(***************************************************************************)
EXTENDS Naturals

CONSTANTS
    ZgatewaySERIAL,     \* TRUE if the serial gateway is built in
    Ethernet,           \* TRUE if the board has a cable, and it is plugged in
    DeepSleep,          \* TRUE if DEFAULT_LOW_POWER_MODE is not DEACTIVATED
    WifiReconnectWatchDog,
    maxRetryWatchDog,
    MaxInputs           \* bound: commands, button presses, losses of a link

ASSUME SupervisorAssumption ==
    /\ ZgatewaySERIAL \in BOOLEAN /\ Ethernet \in BOOLEAN /\ DeepSleep \in BOOLEAN
    /\ WifiReconnectWatchDog \in BOOLEAN
    /\ maxRetryWatchDog \in Nat /\ MaxInputs \in Nat

VARIABLES
    at,                 \* where it is, see TypeOK
    SYSConfig, nvs,     \* in memory, and as stored
    configFile,         \* /config.json exists
    credentials,        \* the stored WiFi credentials: "none", "right" or "wrong"
    previous,           \* those to fall back to while others are tried
    ap, server,         \* the access point, the broker answer
    link,               \* WiFi is connected
    client, connected,  \* the MQTT client exists, is connected
    ProcessLock, firstStart, mqttSetupPending,
    gatewayState,
    failure_number_ntwk, failure_number_mqtt,
    ready_to_sleep,
    phone,              \* a BluFi client is connected
    inputs

vars == <<at, SYSConfig, nvs, configFile, credentials, previous, ap, server, link,
          client, connected, ProcessLock, firstStart, mqttSetupPending, gatewayState,
          failure_number_ntwk, failure_number_mqtt, ready_to_sleep, phone, inputs>>

flash == <<nvs, configFile, credentials>>
world == <<ap, server, phone, previous>>
mqttVars == <<client, connected, ProcessLock, firstStart, mqttSetupPending,
              failure_number_mqtt>>

PowerModes == {"ALWAYS_ON", "INTERVAL", "ACTION"}
Config == [serial : BOOLEAN, offline : BOOLEAN, powerMode : PowerModes]

SYSConfig_init == [serial |-> FALSE, offline |-> FALSE, powerMode |-> "ALWAYS_ON"]

\* Memory after a reset.
Cleared ==
    /\ SYSConfig' = SYSConfig_init
    /\ link' = FALSE /\ client' = FALSE /\ connected' = FALSE
    /\ ProcessLock' = TRUE /\ firstStart' = TRUE /\ mqttSetupPending' = TRUE
    /\ gatewayState' = "WAITING_ONBOARDING"
    /\ failure_number_ntwk' = 0 /\ failure_number_mqtt' = 0
    /\ ready_to_sleep' = FALSE

Init ==
    /\ at = "reset"
    /\ SYSConfig = SYSConfig_init /\ nvs = SYSConfig_init
    /\ configFile = FALSE /\ credentials \in {"none", "right"} /\ previous = "none"
    /\ ap \in BOOLEAN /\ server \in BOOLEAN
    /\ link = FALSE /\ client = FALSE /\ connected = FALSE
    /\ ProcessLock = TRUE /\ firstStart = TRUE /\ mqttSetupPending = TRUE
    /\ gatewayState = "WAITING_ONBOARDING"
    /\ failure_number_ntwk = 0 /\ failure_number_mqtt = 0
    /\ ready_to_sleep = FALSE /\ phone = FALSE /\ inputs = 0

ESPRestart == at' = "reset" /\ Cleared

\* sleep(): nothing unless the power mode and the build ask for it.
Sleeps == DeepSleep /\ SYSConfig.powerMode # "ALWAYS_ON"

ethConnected == Ethernet

-----------------------------------------------------------------------------
\* setupWiFiManager: stored credentials first, and offline not at all; then the
\* portal, which opens only if nothing of value can be read from it.

joins == ap /\ credentials = "right"

bypassSucceeds == phone \/ link \/ joins

PortalEnabled == ~(configFile /\ credentials # "none")

\* The portal of the failsafe mode delays the rest of setup() (next is "load").
NetworkReady(next) ==
    /\ at' = next
    /\ gatewayState' = "NTWK_CONNECTED"

\* The connection failed: with serial communication the gateway goes on without.
ConnectFailed(next) ==
    IF SYSConfig.serial
    THEN NetworkReady(next) /\ UNCHANGED <<SYSConfig, link, mqttVars, failure_number_ntwk,
                                           ready_to_sleep>>
    ELSE /\ at' = IF Sleeps THEN "asleep" ELSE "reset"
         /\ Cleared

setupWiFiManager(next) ==
    IF SYSConfig.offline \/ bypassSucceeds
    THEN /\ NetworkReady(next)
         /\ link' = (link \/ (~SYSConfig.offline /\ joins))
         /\ UNCHANGED <<SYSConfig, mqttVars, failure_number_ntwk, ready_to_sleep>>
    ELSE IF PortalEnabled
    THEN /\ at' = IF next = "load" THEN "failsafe" ELSE "portal"
         /\ gatewayState' = "ONBOARDING"
         /\ UNCHANGED <<SYSConfig, link, mqttVars, failure_number_ntwk, ready_to_sleep>>
    ELSE ConnectFailed(next)

AfterPortal == IF at = "failsafe" THEN "load" ELSE "loop"

\* The user enters the credentials of the access point; saveConfig follows.
Onboarded ==
    /\ at \in {"portal", "failsafe"} /\ ap
    /\ NetworkReady(AfterPortal)
    /\ link' = TRUE /\ credentials' = "right" /\ configFile' = TRUE
    /\ UNCHANGED <<SYSConfig, nvs, mqttVars, failure_number_ntwk, ready_to_sleep, world,
                   inputs>>

PortalTimesOut ==
    /\ at \in {"portal", "failsafe"}
    /\ ConnectFailed(AfterPortal)
    /\ UNCHANGED <<flash, world, inputs>>

-----------------------------------------------------------------------------
\* setup(), after the look at the button.
SYSConfig_load ==
    /\ at \in {"reset", "load"}
    /\ at' = IF at = "load" THEN "loop" ELSE "setup"
    /\ SYSConfig' = nvs
    /\ gatewayState' = IF nvs.offline THEN "OFFLINE" ELSE gatewayState
    /\ UNCHANGED <<flash, world, link, mqttVars, failure_number_ntwk, ready_to_sleep,
                   inputs>>

\* A network by cable, like the failsafe mode, makes the WiFi manager unnecessary.
setup ==
    /\ at = "setup"
    /\ IF ethConnected
       THEN /\ NetworkReady("loop")
            /\ UNCHANGED <<SYSConfig, link, mqttVars, failure_number_ntwk, ready_to_sleep>>
       ELSE setupWiFiManager("loop")
    /\ UNCHANGED <<flash, world, inputs>>

\* blockingWaitForReset: a long press erases everything that is stored; if there
\* is nothing, a longer one starts the WiFi manager at once.
eraseConfig ==
    /\ nvs' = SYSConfig_init /\ configFile' = FALSE /\ credentials' = "none"
    /\ ESPRestart

blockingWaitForReset ==
    /\ at \in {"reset", "loop"} /\ inputs < MaxInputs
    /\ inputs' = inputs + 1
    /\ IF configFile THEN eraseConfig
       ELSE /\ setupWiFiManager(IF at = "reset" THEN "load" ELSE "loop")
            /\ UNCHANGED flash
    /\ UNCHANGED world

-----------------------------------------------------------------------------
\* loop()

setupPending == mqttSetupPending /\ ~SYSConfig.offline
exists == client \/ setupPending

\* Without a broker the serial link, when it is up, or the first pass unlock.
starts == firstStart /\ (ZgatewaySERIAL => SYSConfig.serial)

PassEnds == at' = IF ready_to_sleep /\ Sleeps THEN "asleep" ELSE "loop"

\* Mutant of Online: a new connection leaves the lock to the first pass.
OnlineLocked ==
    /\ ethConnected \/ link
    /\ exists /\ server
    /\ connected' = TRUE /\ client' = TRUE
    /\ mqttSetupPending' = (mqttSetupPending /\ SYSConfig.offline)
    /\ ProcessLock' = (ProcessLock /\ ~starts)
    /\ gatewayState' = "BROKER_CONNECTED"
    /\ failure_number_mqtt' = 0 /\ failure_number_ntwk' = 0
    /\ firstStart' = (firstStart /\ ~starts)
    /\ UNCHANGED <<SYSConfig, link, ready_to_sleep>>
    /\ PassEnds

\* In broker reach: the callback of a new connection unlocks.
Online ==
    /\ ethConnected \/ link
    /\ exists /\ server
    /\ connected' = TRUE /\ client' = TRUE
    /\ mqttSetupPending' = (mqttSetupPending /\ SYSConfig.offline)
    /\ ProcessLock' = IF connected /\ ~setupPending THEN ProcessLock /\ ~starts ELSE FALSE
    /\ gatewayState' = IF connected /\ ~setupPending THEN gatewayState
                       ELSE "BROKER_CONNECTED"
    /\ failure_number_mqtt' = IF connected /\ ~setupPending THEN failure_number_mqtt ELSE 0
    /\ firstStart' = (firstStart /\ ~starts)
    /\ failure_number_ntwk' = 0
    /\ UNCHANGED <<SYSConfig, link, ready_to_sleep>>
    /\ PassEnds

\* Out of it: a failure is counted, and the last one restarts.
NoBroker ==
    /\ ethConnected \/ link
    /\ exists /\ ~server
    /\ IF ~SYSConfig.offline /\ failure_number_mqtt >= maxRetryWatchDog
       THEN ESPRestart
       ELSE /\ connected' = FALSE /\ client' = TRUE
            /\ mqttSetupPending' = (mqttSetupPending /\ SYSConfig.offline)
            /\ IF SYSConfig.offline THEN UNCHANGED <<gatewayState, failure_number_mqtt>>
               ELSE /\ gatewayState' = "BROKER_DISCONNECTED"
                    /\ failure_number_mqtt' = failure_number_mqtt + 1
            /\ ProcessLock' = (ProcessLock /\ ~starts)
            /\ firstStart' = (firstStart /\ ~starts)
            /\ failure_number_ntwk' = 0
            /\ UNCHANGED <<SYSConfig, link, ready_to_sleep>>
            /\ PassEnds

\* A network, and no client because the gateway started offline: mqtt is null.
NoClient ==
    /\ ethConnected \/ link
    /\ ~exists
    /\ at' = "crashed" /\ Cleared

NoNetwork ==
    /\ ~ethConnected /\ ~link /\ ~SYSConfig.offline /\ ~SYSConfig.serial
    /\ IF bypassSucceeds
       THEN /\ link' = joins
            /\ gatewayState' = "NTWK_CONNECTED"
            /\ PassEnds
            /\ UNCHANGED <<SYSConfig, failure_number_ntwk, ready_to_sleep,
                           connected, failure_number_mqtt>>
            /\ client' = TRUE /\ mqttSetupPending' = FALSE
            /\ ProcessLock' = (ProcessLock /\ ~starts)
            /\ firstStart' = (firstStart /\ ~starts)
       ELSE IF WifiReconnectWatchDog /\ failure_number_ntwk >= maxRetryWatchDog
       THEN ESPRestart
       ELSE IF Sleeps THEN at' = "asleep" /\ Cleared
       ELSE /\ at' = "loop"
            /\ gatewayState' = "NTWK_DISCONNECTED"
            /\ failure_number_ntwk' = IF WifiReconnectWatchDog THEN failure_number_ntwk + 1
                                      ELSE failure_number_ntwk
            /\ client' = TRUE /\ mqttSetupPending' = FALSE
            /\ ProcessLock' = (ProcessLock /\ ~starts)
            /\ firstStart' = (firstStart /\ ~starts)
            /\ UNCHANGED <<SYSConfig, link, connected, failure_number_mqtt,
                           ready_to_sleep>>

\* Offline, or on its serial line, the gateway does not look for a network.
Alone ==
    /\ ~ethConnected /\ ~link /\ (SYSConfig.offline \/ SYSConfig.serial)
    /\ ProcessLock' = (ProcessLock /\ ~starts)
    /\ firstStart' = (firstStart /\ ~starts)
    /\ client' = exists
    /\ mqttSetupPending' = (mqttSetupPending /\ SYSConfig.offline)
    /\ UNCHANGED <<SYSConfig, link, connected, gatewayState, failure_number_ntwk,
                   failure_number_mqtt, ready_to_sleep>>
    /\ PassEnds

loop ==
    /\ at = "loop"
    /\ Online \/ NoBroker \/ NoClient \/ NoNetwork \/ Alone
    /\ UNCHANGED <<flash, world, inputs>>

\* The BLE task after a scan, a sensor after its report.
Reported ==
    /\ at = "loop" /\ ~ProcessLock /\ SYSConfig.powerMode # "ALWAYS_ON" /\ ~ready_to_sleep
    /\ ready_to_sleep' = TRUE
    /\ UNCHANGED <<at, SYSConfig, flash, world, link, mqttVars, gatewayState,
                   failure_number_ntwk, inputs>>

\* The timer, or a pin, and a reset after a crash.
Wake ==
    /\ at \in {"asleep", "crashed"}
    /\ at' = "reset" /\ Cleared
    /\ UNCHANGED <<flash, world, inputs>>

-----------------------------------------------------------------------------
\* Commands come from the broker, the serial line (in loop(), once the client
\* is set up) or a BluFi client (at any time).
Commanded ==
    /\ at = "loop" /\ inputs < MaxInputs
    /\ connected \/ (ZgatewaySERIAL /\ ~setupPending) \/ phone
    /\ inputs' = inputs + 1
    /\ UNCHANGED <<ap, server, phone>>

\* XtoSYS, the fields of SYSConfig.  Going offline disconnects everything, with a
\* client that may not exist.
XtoSYS(c, save) ==
    /\ Commanded
    /\ UNCHANGED <<configFile, credentials, previous>>
    /\ IF c.offline /\ ~client
       THEN at' = "crashed" /\ Cleared /\ UNCHANGED nvs
       ELSE /\ SYSConfig' = c
            /\ nvs' = IF save THEN c ELSE nvs
            /\ IF c.offline
               THEN gatewayState' = "OFFLINE" /\ link' = FALSE /\ connected' = FALSE
               ELSE UNCHANGED <<gatewayState, link, connected>>
            /\ UNCHANGED <<at, client, ProcessLock, firstStart, mqttSetupPending,
                           failure_number_mqtt, failure_number_ntwk, ready_to_sleep>>

restartCmd ==
    /\ Commanded
    /\ ESPRestart
    /\ UNCHANGED <<flash, previous>>

Erased ==
    /\ Commanded
    /\ eraseConfig
    /\ UNCHANGED previous

\* Other credentials are stored at once, and tried while everything else stands
\* still; if they fail those before them are stored again.
XtoSYSwifi(new) ==
    /\ Commanded
    /\ at' = "trying"
    /\ ProcessLock' = TRUE /\ link' = FALSE /\ connected' = (connected /\ ethConnected)
    /\ credentials' = new /\ previous' = credentials
    /\ UNCHANGED <<SYSConfig, nvs, configFile, client, firstStart, mqttSetupPending,
                   failure_number_mqtt, gatewayState, failure_number_ntwk, ready_to_sleep>>

XtoSYSwifiDone ==
    /\ at = "trying"
    /\ credentials' = IF joins THEN credentials ELSE previous
    /\ ESPRestart
    /\ UNCHANGED <<nvs, configFile, world, inputs>>

\* A bad address is an error; the download, done or failed, ends in a restart, and
\* done it saves the configuration with the certificate that was used.
MQTTHttpsFWUpdate ==
    /\ Commanded
    /\ UNCHANGED <<nvs, credentials, previous>>
    /\ \/ /\ gatewayState' = "ERROR"
          /\ UNCHANGED <<at, SYSConfig, configFile, link, mqttVars, failure_number_ntwk,
                         ready_to_sleep>>
       \/ ESPRestart /\ configFile' \in {configFile, TRUE}

\* Mutant of NewBroker: the lock is set, the client is not set up anew.
NewBrokerUntried ==
    /\ Commanded
    /\ ProcessLock' = TRUE
    /\ UNCHANGED <<at, SYSConfig, flash, previous, link, client, connected, firstStart,
                   mqttSetupPending, failure_number_mqtt, gatewayState, failure_number_ntwk,
                   ready_to_sleep>>

\* A new broker is to be tried: nothing else runs until the connection is judged.
NewBroker ==
    /\ Commanded
    /\ ProcessLock' = TRUE /\ mqttSetupPending' = TRUE
    /\ UNCHANGED <<at, SYSConfig, flash, previous, link, client, connected, firstStart,
                   failure_number_mqtt, gatewayState, failure_number_ntwk, ready_to_sleep>>

-----------------------------------------------------------------------------
\* The access point, the broker and the phone come and go.
WorldChanges ==
    /\ inputs < MaxInputs
    /\ inputs' = inputs + 1
    /\ \/ ap' = ~ap /\ link' = FALSE /\ connected' = (connected /\ ethConnected)
          /\ UNCHANGED <<server, phone>>
       \/ server' = ~server /\ connected' = FALSE /\ UNCHANGED <<ap, phone, link>>
       \/ phone' = ~phone /\ UNCHANGED <<ap, server, link, connected>>
    /\ UNCHANGED <<at, SYSConfig, flash, previous, client, ProcessLock, firstStart,
                   mqttSetupPending, gatewayState, failure_number_ntwk,
                   failure_number_mqtt, ready_to_sleep>>

\* The power fails and comes back.
PowerLoss ==
    /\ inputs < MaxInputs
    /\ inputs' = inputs + 1
    /\ at' = "reset" /\ Cleared
    /\ UNCHANGED <<flash, world>>

Boot == SYSConfig_load \/ setup \/ Wake

Next ==
    \/ Boot
    \/ blockingWaitForReset
    \/ Onboarded
    \/ PortalTimesOut
    \/ loop
    \/ Reported
    \/ \E c \in Config, save \in BOOLEAN : XtoSYS(c, save)
    \/ restartCmd
    \/ Erased
    \/ \E new \in {"right", "wrong"} : XtoSYSwifi(new)
    \/ XtoSYSwifiDone
    \/ MQTTHttpsFWUpdate
    \/ NewBroker
    \/ WorldChanges
    \/ PowerLoss

\* setup() and loop() go on; a deep sleep ends; the portal's time is limited, and
\* a user in front of it sooner or later enters the credentials.
Fairness ==
    /\ WF_vars(Boot) /\ WF_vars(loop) /\ WF_vars(XtoSYSwifiDone)
    /\ WF_vars(PortalTimesOut) /\ SF_vars(Onboarded)

Spec == Init /\ [][Next]_vars /\ Fairness

-----------------------------------------------------------------------------
States == {"WAITING_ONBOARDING", "ONBOARDING", "NTWK_CONNECTED", "NTWK_DISCONNECTED",
           "BROKER_CONNECTED", "BROKER_DISCONNECTED", "OFFLINE", "ERROR"}

TypeOK ==
    /\ at \in {"reset", "load", "setup", "portal", "failsafe", "loop", "trying",
              "asleep", "crashed"}
    /\ SYSConfig \in Config /\ nvs \in Config
    /\ credentials \in {"none", "right", "wrong"}
    /\ previous \in {"none", "right", "wrong"}
    /\ {configFile, ap, server, link, client, connected, ProcessLock,
        firstStart, mqttSetupPending, ready_to_sleep, phone} \subseteq BOOLEAN
    /\ gatewayState \in States
    /\ failure_number_ntwk \in 0..maxRetryWatchDog
    /\ failure_number_mqtt \in 0..maxRetryWatchDog
    /\ inputs \in 0..MaxInputs

\* A connected gateway is not left locked (main.cpp 2605).
ConnectedIsUnlocked ==
    at = "loop" /\ connected /\ ~mqttSetupPending => ~ProcessLock

\* Not so, a long press of the button opens the WiFi manager: an offline gateway
\* joins no network by itself.
StaysOffline ==
    [][at = "loop" /\ SYSConfig.offline /\ SYSConfig'.offline /\ at' = "loop"
       => (link' => link)]_vars

Reachable == ap /\ server /\ ~phone /\ ~SYSConfig.offline /\ ~SYSConfig.serial
             /\ ~nvs.offline /\ ~nvs.serial

\* A gateway whose access point and broker answer is connected and unlocked again
\* and again, whatever was lost, erased or restarted before (main.cpp 2333-2338).
ServesAgain ==
    <>[](Reachable /\ credentials # "wrong") => []<>(connected /\ ~ProcessLock)

\* Not so: the same even if the power failed while other credentials were tried
\* (3563, "falling back"); they are stored before they are tried.
FallsBack == <>[]Reachable => []<>(connected /\ ~ProcessLock)

\* Not so when it started offline and has a network, or is told to go offline: a
\* gateway never runs into a client it has not set up.
NeverCrashes == at # "crashed"

\* Not so once a connection or an update has written another state: an offline
\* gateway shows that it is (docs/use/gateway.md 356-360).
OfflineShown == at = "loop" /\ SYSConfig.offline => gatewayState = "OFFLINE"
=============================================================================
