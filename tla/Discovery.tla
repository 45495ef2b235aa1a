----------------------------- MODULE Discovery -----------------------------
(***************************************************************************)
(* Home Assistant discovery (mqttDiscovery.cpp, handle_autodiscovery and   *)
(* the table of RTL_433 or LORA devices): the gateway announces its        *)
(* entities, and the devices it hears, as retained documents that go       *)
(* through the document queue.                                             *)
(*                                                                         *)
(* An announcement is enqueued within one turn of loop(), while the length *)
(* the admission test reads is the one emptyQueue saw at the end of the    *)
(* turn before; it is published one document a turn, whatever the broker   *)
(* has become meanwhile.  The receiver's task adds devices at any time.    *)
(***************************************************************************)
EXTENDS Integers, Sequences, FiniteSets, FiniteSetsExt

CONSTANTS
    Build,          \* modules and options compiled in
    Keys,           \* device keys that may be received (createOrUpdateDevice)
    QueueSize,
    discovery_republish_on_reconnect,
    MaxOthers,      \* bound: other documents in the queue
    MaxInputs       \* bound: commands, and losses of the broker

\* What is published retained on <prefix>/<component>/<unique id>/config: the topic
\* stands for the document.  Only the unique id tells entities apart.
createDiscovery(component, unique_id) == <<component, unique_id>>
createDiscoveryFromList(component, ids) == {createDiscovery(component, id) : id \in ids}
With(option, entities) == IF option \in Build THEN entities ELSE {}

SystemEntities ==
    createDiscoveryFromList("sensor", {"uptime", "freemem", "ip"})
    \cup createDiscoveryFromList("button", {"restart", "erase"})
    \cup {<<"binary_sensor", "connectivity">>, <<"switch", "disc">>}
    \cup With("WiFi", {<<"sensor", "rssi">>})
    \cup With("SecondaryModule", {<<"sensor", "uptime-2">>, <<"sensor", "freemem-2">>,
                                  <<"button", "restart-2">>})

BoardEntities ==
    With("LED_ADDRESSABLE", {<<"number", "rgbb">>})
    \cup With("ZdisplaySSD1306", {<<"switch", "onstate">>, <<"switch", "displayMetric">>,
                                  <<"number", "brightness">>})
    \cup With("ESP32", {<<"sensor", "tempc">>})
    \cup With("M5STICKC", createDiscoveryFromList("sensor",
                              {"m5batvoltage", "m5batcurrent", "m5battlevel"})
                          \cup {<<"binary_sensor", "m5ischarging">>})
    \cup With("M5STACK", {<<"sensor", "m5battlevel">>, <<"binary_sensor", "m5ischarging">>,
                          <<"binary_sensor", "m5ischargefull">>})
    \cup With("MQTT_HTTPS_FW_UPDATE", {<<"update", "update">>})

\* Without an id of its own an entity takes its name for one (HCSR501, MQ2, GPIOInput).
SensorEntities ==
    LET Sensors(option, ids) == With(option, createDiscoveryFromList("sensor", ids))
        Binary(option, ids) == With(option, createDiscoveryFromList("binary_sensor", ids))
    IN  Sensors("BME280", {"bme-temp", "bme-pressure", "bme-humidity", "bme-altim", "bme-altift"})
        \cup Sensors("HTU21", {"htu-temp", "htu-hum"}) \cup Sensors("LM75", {"lm75-temp"})
        \cup Sensors("AHTx0", {"aht-temp", "aht-hum"}) \cup Sensors("DHT", {"dht-temp", "dht-hum"})
        \cup Sensors("ADC", {"adc"})
        \cup Sensors("BH1750", {"BH1750-lux", "BH1750-ftcd", "BH1750-wm2"})
        \cup Sensors("MQ2", {"MQ2-gas"}) \cup Binary("MQ2", {"MQ2"})
        \cup Sensors("TEMT6000", {"TEMT6000-lux", "TEMT6000-ftcd", "TEMT6000-wm2"})
        \cup Sensors("TSL2561", {"TSL2561-lux", "TSL2561-ftcd", "TSL2561-wm2"})
        \cup Binary("HCSR501", {"hcsr501"}) \cup Binary("GPIOInput", {"GPIOInput"})
        \cup Sensors("INA226", {"INA226-volt", "INA226-current", "INA226-power"})

\* pubOneWire_HADiscovery: one entity per probe found on the bus.
OneWireEntities == With("DS1820", {<<"sensor", "ds1820-probe">>})

ActuatorEntities ==
    With("ONOFF", {<<"switch", "actuatorONOFF">>})
    \cup With("RN8209", createDiscoveryFromList("sensor", {"volt", "current", "power"})
                        \cup {<<"binary_sensor", "inUse">>})

GatewayEntities ==
    createDiscoveryFromList("sensor",
        Build \cap {"gatewayRF", "gatewayRF2", "gatewayRFM69", "gatewayLORA", "gatewaySRFB",
                    "gatewayPilight", "gatewayIR", "gateway2G"})
    \cup With("gatewayLORA",
              createDiscoveryFromList("switch", {"enablecrc", "invertiq", "onlyknown"}))

BTEntities ==
    With("BT",
        createDiscoveryFromList("number", {"intervalcnct", "scanduration"})
        \cup createDiscoveryFromList("button", {"force_scan", "erase_bt_config"})
        \cup createDiscoveryFromList("switch", {"only_sensors", "adaptive_scan", "enabled",
                 "hasspresence", "pubadvdata", "bleconnect"})
        \cup With("LowPower", {<<"switch", "powermode">>}))
btScanParametersDiscovery ==
    With("BT", createDiscoveryFromList("number", {"interval", "intervalacts"}))
btPresenceParametersDiscovery == With("BT", {<<"number", "presenceawaytimer">>})

Entities == SystemEntities \cup BoardEntities \cup SensorEntities \cup OneWireEntities
            \cup ActuatorEntities \cup GatewayEntities \cup BTEntities
            \cup btScanParametersDiscovery \cup btPresenceParametersDiscovery

\* Entities of earlier versions: an empty document is published on their topics, at
\* once and not through the queue.
obsoleteEntities ==
    With("BT",
        createDiscoveryFromList("switch", {"active_scan", "restart", "erase", "force_scan",
                                           "ohdiscovery", "discovery"})
        \cup createDiscoveryFromList("sensor", {"interval", "scanbcnct"})
        \cup {<<"number", "scanbcnct">>}
        \cup IF "LowPower" \in Build THEN {} ELSE {<<"switch", "powermode">>})

VARIABLES
    jsonQueue, queueLength,     \* queueLength as emptyQueue last saw it
    connected, connectedOnce,
    SYSdiscovery,               \* SYSConfig.discovery
    devices, isDisc, newDevices,
    localDevices,               \* the copy a launch walks, or NoLaunch
    overrideDiscovery,
    retained,                   \* topics the broker holds a document for
    inputs,
    whole                       \* history: the last announcement was admitted, and
                                \* nothing of it met a lost broker

discoveryVars == <<jsonQueue, queueLength, connected, connectedOnce, SYSdiscovery, devices,
                   isDisc, newDevices, localDevices, overrideDiscovery, retained, inputs, whole>>

\* The order the documents are made in is of no consequence.
InAnyOrder(S) == FoldSet(LAMBDA x, seq : Append(seq, x), <<>>, S)

NoLaunch == {"no launch"}
Other == <<"other", "document">>
DeviceTopic(k) == createDiscovery("sensor", k)
Documents == Entities \cup {DeviceTopic(k) : k \in Keys} \cup {Other}

\* What the constants must be (assumed where they get their values): the key of a device is
\* none of the gateway's own unique ids of old, which begin with its MAC.
DiscoveryAssumption ==
    /\ QueueSize \in Nat \ {0} /\ MaxOthers \in Nat /\ MaxInputs \in Nat
    /\ discovery_republish_on_reconnect \in BOOLEAN
    /\ IsFiniteSet(Keys) /\ Keys \cap NoLaunch = {}
    /\ \A k \in Keys : DeviceTopic(k) \notin obsoleteEntities

Init ==
    /\ jsonQueue = <<>> /\ queueLength = -1
    /\ connected = FALSE /\ connectedOnce = FALSE /\ SYSdiscovery = TRUE
    /\ devices = {} /\ isDisc = {} /\ newDevices = 0
    /\ localDevices = NoLaunch /\ overrideDiscovery = FALSE
    /\ retained = obsoleteEntities    \* what an earlier version has left
    /\ inputs = 0 /\ whole = FALSE

-----------------------------------------------------------------------------
\* Mutant of EnqueueAll: the true length is tested for each document.
EnqueueAllTrue(docs) == SubSeq(jsonQueue \o docs, 1,
    IF Len(jsonQueue) + Len(docs) > QueueSize /\ QueueSize > Len(jsonQueue)
    THEN QueueSize ELSE Len(jsonQueue \o docs))

\* enqueueJsonObject for each of docs, in one turn of the loop.
EnqueueAll(docs) == IF queueLength >= QueueSize THEN jsonQueue ELSE jsonQueue \o docs

pubMqttDiscovery ==
    /\ jsonQueue' = EnqueueAll(InAnyOrder(Entities))
    /\ retained' = retained \ obsoleteEntities
    /\ whole' = (queueLength < QueueSize /\ connected')

LoopIsFree == localDevices = NoLaunch

\* setMQTT's connected_callback, up to the devices' turn.
Connects ==
    /\ LoopIsFree /\ ~connected
    /\ connected' = TRUE /\ connectedOnce' = TRUE
    /\ IF SYSdiscovery /\ (~connectedOnce \/ discovery_republish_on_reconnect)
       THEN /\ pubMqttDiscovery
            /\ localDevices' = devices /\ overrideDiscovery' = TRUE /\ newDevices' = 0
       ELSE UNCHANGED <<jsonQueue, retained, whole, localDevices, overrideDiscovery, newDevices>>
    /\ UNCHANGED <<queueLength, SYSdiscovery, devices, isDisc, inputs>>

Disconnects ==
    /\ connected /\ inputs < MaxInputs
    /\ connected' = FALSE /\ inputs' = inputs + 1
    /\ UNCHANGED <<jsonQueue, queueLength, connectedOnce, SYSdiscovery, devices, isDisc,
                   newDevices, localDevices, overrideDiscovery, retained, whole>>

\* XtoSYS: "disc" true announces the gateway again, false stops announcing.
XtoSYSdisc(disc) ==
    /\ LoopIsFree /\ connected /\ UNCHANGED connected
    /\ inputs < MaxInputs /\ inputs' = inputs + 1
    /\ SYSdiscovery' = disc
    /\ IF disc THEN pubMqttDiscovery ELSE UNCHANGED <<jsonQueue, retained, whole>>
    /\ UNCHANGED <<queueLength, connectedOnce, devices, isDisc, newDevices,
                   localDevices, overrideDiscovery>>

\* DiscoveryAutoOffTimer after the last command that switched discovery on.
AutoOff ==
    /\ LoopIsFree /\ connected /\ ~discovery_republish_on_reconnect
    /\ SYSdiscovery /\ SYSdiscovery' = FALSE
    /\ UNCHANGED <<jsonQueue, queueLength, connected, connectedOnce, devices, isDisc,
                   newDevices, localDevices, overrideDiscovery, retained, inputs, whole>>

-----------------------------------------------------------------------------
\* The receiver's task: storeRTL_433Discovery, storeLORADiscovery.
createOrUpdateDevice(k) ==
    /\ SYSdiscovery /\ k \notin devices
    /\ devices' = devices \cup {k} /\ newDevices' = newDevices + 1
    /\ UNCHANGED <<jsonQueue, queueLength, connected, connectedOnce, SYSdiscovery, isDisc,
                   localDevices, overrideDiscovery, retained, inputs, whole>>

\* launchRTL_433Discovery, launchLORADiscovery: under the semaphore.
LaunchBegins ==
    /\ LoopIsFree /\ SYSdiscovery /\ newDevices > 0
    /\ localDevices' = devices /\ overrideDiscovery' = FALSE /\ newDevices' = 0
    /\ UNCHANGED <<jsonQueue, queueLength, connected, connectedOnce, SYSdiscovery, devices,
                   isDisc, retained, inputs, whole>>

LaunchTargets == IF overrideDiscovery THEN localDevices ELSE localDevices \ isDisc
\* Mutant of LaunchEnds: the count of new devices is reset after the walk.
LaunchEndsResetting ==
    /\ ~LoopIsFree
    /\ jsonQueue' = EnqueueAll(InAnyOrder({DeviceTopic(k) : k \in LaunchTargets}))
    /\ isDisc' = isDisc \cup localDevices /\ newDevices' = 0
    /\ localDevices' = NoLaunch
    /\ UNCHANGED <<queueLength, connected, connectedOnce, SYSdiscovery, devices,
                   overrideDiscovery, retained, inputs, whole>>
\* Without it: each device is announced and is discovered, taken by the queue or not.
LaunchEnds ==
    /\ ~LoopIsFree
    /\ jsonQueue' = EnqueueAll(InAnyOrder({DeviceTopic(k) : k \in LaunchTargets}))
    /\ isDisc' = isDisc \cup localDevices
    /\ localDevices' = NoLaunch
    /\ UNCHANGED <<queueLength, connected, connectedOnce, SYSdiscovery, devices, newDevices,
                   overrideDiscovery, retained, inputs, whole>>

-----------------------------------------------------------------------------
\* Another document: admitted by the length the last drain saw.
Enqueue ==
    /\ queueLength < QueueSize
    /\ Cardinality({i \in DOMAIN jsonQueue : jsonQueue[i] = Other}) < MaxOthers
    /\ jsonQueue' = Append(jsonQueue, Other)
    /\ UNCHANGED <<queueLength, connected, connectedOnce, SYSdiscovery, devices, isDisc,
                   newDevices, localDevices, overrideDiscovery, retained, inputs, whole>>

\* The end of a turn: what is taken out while there is no broker is lost.
emptyQueue ==
    /\ LoopIsFree
    /\ queueLength' = Len(jsonQueue)
    /\ IF jsonQueue = <<>> THEN UNCHANGED <<jsonQueue, retained, whole>>
       ELSE /\ jsonQueue' = Tail(jsonQueue)
            /\ retained' = IF connected /\ Head(jsonQueue) # Other
                           THEN retained \cup {Head(jsonQueue)} ELSE retained
            /\ whole' = (whole /\ (connected \/ Head(jsonQueue) \notin Entities))
    /\ UNCHANGED <<connected, connectedOnce, SYSdiscovery, devices, isDisc, newDevices,
                   localDevices, overrideDiscovery, inputs>>

Next ==
    \/ Connects \/ Disconnects \/ AutoOff \/ \E disc \in BOOLEAN : XtoSYSdisc(disc)
    \/ \E k \in Keys : createOrUpdateDevice(k)
    \/ LaunchBegins \/ LaunchEnds
    \/ Enqueue \/ emptyQueue

Spec == Init /\ [][Next]_discoveryVars

-----------------------------------------------------------------------------
TypeOK ==
    /\ jsonQueue \in Seq(Documents) /\ queueLength \in Nat \cup {-1}
    /\ connected \in BOOLEAN /\ connectedOnce \in BOOLEAN /\ SYSdiscovery \in BOOLEAN
    /\ isDisc \subseteq devices /\ devices \subseteq Keys
    /\ newDevices \in 0..Cardinality(Keys)
    /\ LoopIsFree \/ localDevices \subseteq devices
    /\ overrideDiscovery \in BOOLEAN /\ inputs \in 0..MaxInputs /\ whole \in BOOLEAN

InQueue(entity) == \E i \in DOMAIN jsonQueue : jsonQueue[i] = entity

\* An announcement is taken whole or not at all, although it is longer than the queue:
\* once it has been admitted and published to a broker that stayed, every entity of the
\* gateway is announced and none that an earlier version left behind still is.
AllAnnounced ==
    whole => /\ \A e \in Entities : e \in retained \/ InQueue(e)
             /\ retained \cap (obsoleteEntities \ Entities) = {}

\* A device heard while a launch walks the table is not forgotten: as long as it has
\* not been discovered, the launch under way has it or another one is due.
LaunchIsDue ==
    \A k \in devices \ isDisc :
        newDevices > 0 \/ (localDevices # NoLaunch /\ k \in localDevices)

\* Not so when the broker goes while the queue drains, what the comments say of the
\* first connection: with discovery on since the start and
\* the queue drained, the entities have been published.
FirstConnectionAnnounces ==
    connectedOnce /\ connected /\ SYSdiscovery /\ (\A e \in Entities : ~InQueue(e))
        => Entities \subseteq retained
=============================================================================
