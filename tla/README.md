# OpenMQTTGateway: specifications and proofs

OpenMQTTGateway is firmware (ESP32, ESP8266) that receives radio, infrared and BLE
messages and sensor readings, publishes them over MQTT as JSON documents, and carries
out the commands it receives. The modules here model the parts of it in which tasks,
callbacks, failures and restarts meet; TLC checks them on small instances, and TLAPS
proves every invariant that the runs check, the action properties and a refinement for every
value of the constants. All line numbers are of
`src/main/main.cpp` unless another file is named.

## 1. Inventory

### Tasks and how they interact

Everything that is not listed here runs on the Arduino `loop` task.

| task | priority | what it runs | shared state |
|---|---|---|---|
| `loop` | 1 | drain of the document queue, MQTT client and its callbacks, serial, web, radio gateways, sensors, `XtoSYS`, `XtoBT`, OTA | everything |
| `procBLETask` | 2 | decodes advertisements, `createOrUpdateDevice`, `enqueueJsonObject` | device table, queue |
| `coreTask` | 1 | BLE scans, scheduled and forced `BLEconnect` | device table, `BLEactions`, queue |
| `imActTask` (one per immediate command) | 3 | `immediateBTAction` | the same |
| `overLimitTemp`, `rn8209_loop` | 10 | protection of the relay, energy meter | relay, queue |
| LED task | | `updateAndHandleLEDsTask` | `gatewayState` |
| `receivingCommandTask` (one per BluFi message) | 5 | `receivingDATA`, thus any command | everything |

### Components

| component | state | operations | what makes it correct |
|---|---|---|---|
| Document queue and dispatcher | `jsonQueue`, `queueLength`, `xQueueMutex`, `gatewayState` | `enqueueJsonObject`, `emptyQueue`, `jsonDispatch`, `ESPRestart` | exclusion; order; no document twice; bounded overshoot of the stale admission test; every document leaves |
| Connections | `cnt_parameters_array`, `cnt_index`, `cnt_parameters_backup`, `config.json` | `XtoSYS`, `setupMQTT`, `connected_callback`, `connection_failure_callback`, `saveConfig`, `loadConfigFromFlash` | what is saved has connected once; a change is judged by its own attempt; a torn file loads; rotation finds a broker |
| Network supervision, OTA | failure counts, `ProcessLock`, stored credentials, `SYSConfig`, the portal | `setup`, `loop`, `setupWiFiManager`, `XtoSYS`, `MQTTHttpsFWUpdate` | a gateway whose network answers comes to serve again, whatever restarts, sleeps and refusals come between |
| BLE commands and connections | `BLEactions`, connect marks, `BTProcessLock`, `semaphoreBLEOperation` | `XtoBT`, `BLEconnect`, `immediateBTAction`, `BTforceScan`, `processActions` | every command is answered, once, after at most `ttl` attempts; no lock stays set; nobody connects on exchanged vectors |
| BLE device table | `devices`, `semaphoreCreateOrUpdateDevice` | `createOrUpdateDevice`, `updateDevicesStatus`, `launchBTDiscovery` | a MAC has one entry; the table returns to its limit; no device used after its eviction |
| BLE life cycle | `BTConfig`, task handles, scan semaphore | `BTConfig_fromJson`, `stopProcessing`, `setupBTTasksAndBLE`, the adaptive scan | the configuration is consistent and survives; enabled means running |
| Duplicate filter | `receivedSignal[12]` | `storeSignalValue`, `getMin`, `isAduplicateSignal` | a code is not repeated within the window, nor suppressed outside it, over the wrap of the clock |
| RF receivers and configuration | active receiver, frequency, `RFConfiguration`, the radio's mode | `enableActiveReceiver`, `disableCurrentReceiver`, the transmitting commands | the active receiver listens again after each command |
| Serial gateway | `receiverReady`, heartbeat times, overflow | heartbeat, acknowledgement, `SERIALtoX` | sends only to a receiver that lives; recovers |
| ON/OFF actuator | relay, `ONOFFConfig`, the button | `XtoONOFF`, `ActuatorTrigger`, `overLimitTemp`, `overLimitCurrent` | what stays over its limit is switched off |
| Lights | PWM fades, the strip's states | `XtoPWM`, `PWMLoop`, `XtoFASTLED`, `FASTLEDLoop` | a fade goes towards its last target and ends there |
| Status LEDs | LED modes, one queued request | `updateAndHandleLEDsTask`, `LEDManager` | the last request is carried out |
| Sensors | the last value of each | `Measure...` of each sensor | what was told last is what was read last |
| Display | queue of messages, current message, configuration | `webUIPubPrint`, `WebUILoop`, `loopSSD1306`, `XtoSSD1306` | no message is leaked or used after it was freed |
| Web console, web forms | log buffer with a pointer; pages and configuration | `AddLogData`, `GetLog`, `handleCS`; `handleWU` ... `handleCL` | no line skipped, every poll answered; a form saved unchanged changes nothing |
| Home Assistant discovery | what is announced, the table of RTL_433 and LORA devices | `pubMqttDiscovery`, `launchRTL_433Discovery` | an announcement is taken whole; a device heard during a launch is announced by the next |
| Other radio gateways, BluFi, boards, utilities | | | see section 6 and `PROJECT.json` |

Hard behaviours: several tasks on one queue with time-outs on its mutex; an admission
test on a stale length; decisions of callbacks about changes made by other handlers;
power loss in the middle of a save or of a trial; tasks that exchange vectors under one
lock while others take another; flags used as locks; a relay switched by four actors
that each read it first; counters and indices that wrap; attempts counted in several
places. `PROJECT.json` lists each under "hazards" with the line where it bites and the
properties about it, or why there is none.

## 2. Modules

| module | what it is | theorems |
|---|---|---|
| `Outbox` | abstract: what a queue of documents promises to its users | |
| `MsgQueue` | the queue of `main.cpp` as its tasks execute it; implements `Outbox` | `MsgQueueProofs` |
| `Connections` | broker connections: table, test and backup, callbacks, flash | `ConnectionsProofs` |
| `Supervisor` | power-on to power-off: setup, portal, `loop()`, restarts, sleep | `PlatformProofs` |
| `BleActions` | BLE commands, `BLEconnect`, the core task and immediate tasks | `BleActionsProofs` |
| `BleTable` | the table of BLE devices, its two writers and the discovery | `BleTableProofs` |
| `BleLife` | BLE configuration messages, start and stop of the tasks | `BleLifeProofs` |
| `SignalFilter` | the filter of repeated codes of the RF, IR and other receivers | `SignalFilterProofs` |
| `Receivers` | the RF receivers that share a radio | `ReceptionProofs` |
| `Discovery` | Home Assistant announcements | `ReceptionProofs` |
| `SerialLink` | two gateways on a serial line | `ReceptionProofs` |
| `Relay` | the ON/OFF actuator and its protections | `PlatformProofs` |
| `StatusLed` | the LED task and `LEDManager` | `PlatformProofs` |
| `Lights` | PWM fades and the LED strip | `PlatformProofs` |
| `Sensors` | the wired sensors | `PlatformProofs` |
| `Display` | the messages for the screen and the web page, the OLED | `PlatformProofs` |
| `WebConsole`, `WebForms` | the console and the configuration pages of the web interface | `PlatformProofs` |
| `Reception` | the components that deal with what is received: filter, receivers, discovery, serial link, BLE table and configuration | `ReceptionProofs` |
| `Platform` | `Supervisor` and the components that switch, show and serve | `PlatformProofs` |
| `MCMsgQueue`, `MCConnections`, `MCBleActions`, `MCReception`, `MCPlatform` | instances for TLC | |

`Reception` and `Platform` put components that share no variables under one
specification: the variable `unit` names the component a behaviour is about, and the
others rest in an initial state. It is a union of state spaces, not a composition of
components that interact, and nothing is claimed about interaction there. Every step of
such a specification is a step, or a stutter, of each of its components (`EachComponent` in
`ReceptionProofs` and `PlatformProofs`), so a theorem about a component holds of it.

### `MsgQueue` and `Outbox`

One `pc` per task. `enqueueJsonObject` is `EnqueueEmpty`, `EnqueueBlocked`, `EnqueueAdmit`
(the test of `queueLength`, 457), `EnqueueTake` or `EnqueueTimeout`, `EnqueuePush`,
`EnqueueGive`; `emptyQueue` is `DrainSize` (the unprotected `size()`, which may return
any of `TornSizes` while a push is under way), `DrainTake` or `DrainTimeout`, `DrainPop`,
`DrainGive` or `DrainGiveBad` (the document does not parse); `jsonDispatch` is
`DispatchFiltered`, `DispatchBegin`, `DispatchEnd`. `ESPRestart` is `RestartBegin`,
`RestartPop`, `Reboot`. `Callbacks` are those of `mqtt->loop()` that write
`gatewayState`. A document is the task that made it, its rank, and whether it parses and
has a target. `Outbox` has pending documents, the one in the dispatcher's hand, and
what was sent: documents are accepted at the end, taken from the front, published or
dropped from the hand, and discarded unsent only by a restart.

### `Connections`

One turn of `loop()` is `SetupMQTT` (2606), any number of `ServeCommand` and then `Served`
(2629-2652), and one action of the client: `Attempt` (with `ConnectedCallback` or
`FailureCallback`), `Message`, `ClientIdle`, or `NetworkDown`. `XtoSYS` is the whole
handler: topic and password changes, reading, editing, testing and saving of an entry,
with their refusals. `PowerLoss` can happen at any moment, and may tear the file when a save
could have been under way; `Boot` loads what there is. The parameters of a connection
are a version number. History variables: `proven` (versions a broker has accepted, or
that come from the portal), `verdict` and `misjudged` (what a callback that decides
about a change judged it by).

### `Supervisor`

`at` says where the gateway is: in `setup`, in the portal, in the failsafe mode of a long
press, in `loop`, asleep, reset, crashed. One pass of `loop()` is one step, the action
`loop` with one disjunct per branch: `Online`, `NoBroker`, `NoClient`, `NoNetwork`,
`Alone` (offline or on a serial line). `XtoSYS` is the command handler with its restarts
and switches, `XtoSYSwifi` and `XtoSYSwifiDone` a trial of new credentials,
`MQTTHttpsFWUpdate` an update, `WorldChanges` and `PowerLoss` the environment. The access
point answers or does not, and so does the one broker; the watchdog's maximum is a constant.

### `BleActions`

`XtoBT`, `XtoBTTake`, `Push`, `XtoBTGive` are a command's way in (1905-1913 of
`gatewayBT.cpp`), `DeviceTake` and `DeviceUpdate` a discovery. `Call`, `Visit`, `Contact`,
`Retire`, `Keep`, `EndOfRound` are `BLEconnect`; they take the task as a parameter, for
the core task and the immediate tasks both run it. `Retire` and `Keep` are apart
because the kept actions are copied to a vector that is exchanged afterwards. `CoreXxx`
are `coreTask` and `BTforceScan`, `ImmXxx` are `immediateBTAction`. History: the attempts
made at a command, the answers published to it, and `paired`, whether a message has held two
commands. FreeRTOS priorities are part of the
model: an immediate task preempts the loop (`NobodyStarts`) and gets the semaphore first
(`NobodyFirst`), which the code relies on.

### `BleTable` and `BleLife`

`BleTable`: a device is an address on a heap that only grows, so that an entry can be
told from one that was deleted. `Take`, `TakeTimesOut` and `createOrUpdateDevice` are the
function of that name, with the search and the write apart; `Evicted` is the choice of the entry
to delete. `Advertisement` and `updateDevicesStatus` are the processing task, `updateWorB`,
`TrackerSync`, `launchBTDiscovery`, `Discover` and `Discovered` the loop task.

`BleLife`: `XtoBT` is a configuration message: `BTConfig_fromJson` with `Completed` (what one
key adds to another), `SetInterval`, `SetActive`, and the start or stop on its way;
`ScanBegins` and `ScanEnds` are the core task, `Adapts` is the adaptive scan, `Boots` a
restart, with `BTConfig_load`. A task that was replaced while it lived is `stray`.

### `SignalFilter`

One action, `Received`: a gateway receives a code, or `receivingDATA` hears of one that
another gateway has published (`here` false). `isAduplicateSignal`, `getMin` and
`storeSignalValue` are the functions of those names; `millis` takes the time since the
boot modulo `Modulus`, as do the subtractions of the code. `clock` is that time before it
wraps. History: when each code was last stored and how many were stored since.

### `Receivers`, `Discovery`, `SerialLink`

`Receivers`: every handler runs to its end on the loop task, so it is a function from what
receivers and radio were set to, to what they are set to. `JsonNext` has the JSON commands;
`PlainMessage`, the messages that are not JSON (`gatewayRF.cpp` 307-311), is in `Next` only:
it leaves the receivers wrong, and `ReceiverRestored` is a property of `JsonSpec`.

`Discovery`: `Entities` is what a build announces, `obsoleteEntities` what it erases;
`EnqueueAll` admits them one by one on the stale `queueLength`; `emptyQueue` publishes one a
turn, if there is a broker then. `LaunchBegins`, `LaunchEnds` and `createOrUpdateDevice`
are the table of heard devices, written by the receiver's task.

`SerialLink`: a turn is the 5 s of the acknowledgement check. `SERIALtoX` is the sender with
its back-off, `Receives` what else comes over the line, `Starts` the sender's first pass, `XtoSERIAL` a
document, `ReceiverChanges` the receiver's broker.

### `Relay`, `StatusLed`, `Lights`, `Sensors`

`Relay`: `ActuatorTrigger` is `TriggerRead`, `TriggerWrite`, `Record`, `Save` and `Done`,
for every task that calls it: the loop (command, pulse, button) and one task per protection.
With two `Cores` they interleave freely. `StatusLed`: the LED task reads `gatewayState`
in `Compare`, `Switch` and `Store`, and carries requests out in `update`; `Dispatch` and
`Dispatched` are `jsonDispatch`. `Lights`: `XtoPWMset`, `PWMLoop`, `XtoFASTLED`,
`FASTLEDLoop`. `Sensors`: one action per sensor; `level` is the quantity it measures,
`persisted` what it remembers, `reading` and `told` (history) what it read and published
last.

### `Display`, `WebConsole`, `WebForms`

`Display`: a message is the rank of its document; `heap` has those allocated and not freed.
`webUIPubPrint` has one disjunct per kind of document, each with its own way to discard it.
`WebConsole`: `AddLogData` is any task's line, `GetLog` one step of the walk over the log,
called once per line of an answer, so that lines of other tasks come in between.
`WebForms`: a page is `Opened`, `Edited`, `Submitted`, with one `handle` operator per page;
`Commanded` changes the configuration behind its back.

## 3. Runs

| run | states | what it shows |
|---|---|---|
| `queue_core` | 1.35 million | exclusion, no pop of an empty queue, order, bounded overshoot, `PROCESSING` is transient, refinement of `Outbox` |
| `queue_live` | 167 000 | under fairness every document that enters leaves |
| `queue_restart` | violation | `ESPRestart` pops the queue without the mutex while another task pushes |
| `cnt` | 384 000 | the index in flash is backed by an entry, a pending test follows the client, what is saved is proven, rotation finds a broker |
| `cnt_judged` | violation | a change is confirmed or reverted by an attempt of the old client |
| `ble_actions` | 529 000 | no lock stays set, one answer at most, no more attempts than asked for, the newest command is there when it is taken |
| `ble_answers` | violation | a command is dropped unanswered because another device was contacted first |
| `ble_endless` | violation | two commands for one device, and `BLEconnect` never ends |
| `reception` | 412 000 | filter, receivers, discovery, serial link, BLE table and configuration: see the list below |
| `platform` | 115 000 | supervision, relay, LEDs, lights, sensors, display, console, forms: see the list below |
| `console_poll` | violation | a poll of the console that goes round for ever after the buffer was freed |
| `ble_enabled` | violation | a gateway that says it is enabled and scans nothing |

The violation runs are disagreements between the code and what its own comments or
documentation say, or between two parts of it; "findings" in `PROJECT.json` quotes them.

`reception`: until `millis()` wraps no code is repeated within the window unless the
table was too small (`NoRepeat`), and none is withheld outside it (`NoLoss`); the active
receiver listens again after every JSON command (`ReceiverRestored`); an announcement
much longer than the queue is taken whole (`AllAnnounced`); a device heard during a
launch is due for the next (`LaunchIsDue`); a receiver without its broker is noticed
within the timeout (`SenderNotices`); a MAC has one entry (`OneEntryPerMac`), and only
listed or connectable devices make the table outgrow its limit (`OnlyListedOutgrow`);
active scans are never more frequent than scans (`ActiveNotShorter`), and what was saved
is what a restart loads (`SavedIsLoaded`).

`platform`: a gateway that is connected is unlocked (`ConnectedIsUnlocked`), and one whose
network and broker answer for ever serves again (`GatewayServes`); a relay whose limit
stays exceeded is off at last (`EventuallyOff`); the last request to the LED is shown
or waits behind blinks (`RequestKept`), and carried out at last (`RequestCarriedOut`); a fade never goes away from its target (`NeverAway`); what a
sensor told last is what it read last, up to its threshold (`LastReadingTold`); no message
for the display is leaked (`MessagesAccounted`); no line of the log is skipped
(`NothingSkipped`); a form saved as it was shown changes nothing
(`SavingUnchangedIsHarmless`).

### Refuted statements without a run

Some definitions state what one might expect of the code, or what a comment says of it,
and TLC refutes them; they are kept in their modules with a comment ("Not so ...") as
documentation of the limits, and no run checks them:

| module | definition | why it fails |
|---|---|---|
| `Supervisor` | `StaysOffline` | a long press opens the WiFi manager of an offline gateway |
| | `FallsBack` | new credentials are stored before they are tried (3555) |
| | `NeverCrashes` | a gateway that started offline has no client (2653) |
| | `OfflineShown` | a connection or an update has written another state |
| `Relay` | `ProtectionSwitchesOff` | on two cores, or with two protections on one, a protection toggles a relay that was switched off since it looked; with one of both it is proved |
| `StatusLed` | `LedFollowsState` | the state changes between two of the task's three readings |
| `BleActions` | `ImmediateAlone` | a forced scan connects on the vectors an immediate command has exchanged (`Overlap` true) |
| `BleTable` | `DiscoversLiveDevices` | an eviction deletes a device of the copy the discovery walks |
| `WebForms` | `UnchangedDoesNotRestart` | passwords are submitted empty by the pages of network and broker |
| `Discovery` | `FirstConnectionAnnounces` | the broker goes while the announcement is drained |

Three checked properties hold under a condition only: `NoRepeat` and `NoLoss` until
`millis()` wraps (with `MaxTime` beyond `Modulus` TLC finds the newest entry replaced first,
and codes in turn all repeated), and `ActiveNotShorter` for intervals of at least
`MinTimeBtwScan` (with a shorter one in a message that has `adaptivescan` true, `Adapts` puts
`MinTimeBtwScan` between scans and leaves the shorter interval between active ones).

### Bounds, and why they are enough

* `MsgQueue`: two producing tasks and the loop, `QueueSize` 1, up to two documents of a
  task, one reboot. Two producers are needed for a race that the drain is not part of;
  a queue of size 1 is full at once, so that admission, refusal and overshoot all happen. The core
  and liveness runs have `Restarters = {loop}`: with another task restarting the gateway
  the pops of `ESPRestart` race with the drain (`queue_restart`'s subject; there two producers
  race with the loop's pops), and `NoUnderflow` is proved under this very assumption.
* `Connections`: three entries, so that rotation has a choice and something to skip; two
  versions besides the built-in one, two commands, one power loss, a watchdog of 1 in
  place of 11 (the count is only compared with the maximum). One version is `Good`.
* `BleActions`: one device of a model that is connected to regularly and one that is not,
  which makes both branches of 822-833; two commands of at most two attempts, one forced
  scan. `TwoInOne` allows a message that holds a known and a raw command (1907-1908): only then
  do two immediate tasks wait for the same semaphore. There the second may answer for,
  and drop, an action that the first is trying (`ImmBusy`), so that `AnsweredOnce` and
  `NewestIsThere` exclude the behaviours in which a message held two commands (`paired`);
  reading `back()` of an empty vector is undefined, and
  the model does not follow such a behaviour further. `Overlap` would allow immediate commands
  while a forced scan is due or runs.
* `SignalFilter`: two entries and three codes, one more than fits; a window of 4 and gaps of
  up to 5, so that a code may come inside and outside of it; a counter of 16 ticks, which does not
  wrap (`MaxTime` 15). That `struct_size` is 12, the window 3000 and the counter `2^32` is
  covered by the theorems.
* The other components of `reception`: a CC1101 with all four receivers and two
  frequencies; a build with WiFi and BLE whose announcement is some ten times the queue of 2, one
  heard device; a timeout of 3 turns and an interval that grows to 5, a receiver gone for up
  to 6; a table of 1 for three MACs, so that it is full, evicts and outgrows; messages of up
  to two keys, adaptations and restarts in any number.
* `platform`: two inputs to the supervisor with a watchdog of 1; one protection, three
  inputs, one restart and two cores for the relay; one LED and three changes of state, enough for
  a request to be queued behind a blink and replaced; two channels of three values; every
  kind of sensor with four levels and a threshold of 2; a display queue of 1 and three
  messages; a log of three lines in a ring of indices 1 to 3, so that it wraps; every page
  with one change behind its back.
* No symmetry is used. Deadlock checking is off in `reception`, `platform` and the runs of
  `BleLife` and `WebConsole`, whose bounded inputs run out.

### Fairness

`MsgQueue`: a task inside `enqueueJsonObject` goes on and `loop()` calls `emptyQueue` at
every turn (weak fairness); the mutex is held only for a push or a pop, much less than the
3 s the drain waits, so the drain does not lose the race for ever (strong fairness of
`DrainTake`). No task is obliged to make documents. `Connections`: `loop()` goes on
turning; `FindsABroker` assumes in its own statement that the network stays up at last
and that flash holds a version whose broker answers. `BleActions`: the core task and
immediate tasks are not starved, scans and attempts end.
`Supervisor`: the boot, `loop()`, the wait of a trial and the portal's time-out go on (weak
fairness); a user completes a portal that is opened again and again
(strong fairness of `Onboarded`; the statement itself assumes that access point and broker stay
reachable and nobody asks for offline or serial mode any more). `Relay`: the protections and the loop are not
starved, and a pulse ends. `StatusLed`: the LED task runs and a dispatch ends.
`WebConsole`: a poll that has begun goes on.

## 4. Proofs

`tlapm` proves some 10 500 obligations in eight modules. Every invariant and every action property
that a passing run checks is the conclusion of a theorem, for every value of the constants:
any number of tasks, documents, connections, versions and losses, any number of codes, MACs,
commands, LEDs, channels and lines, any size of the tables and queues. The assumptions are
the named ones of the modules (`QueueAssumption`, `NoDocAssumption`,
`ConnectionsAssumption`, `BleAssumption`, `FilterAssumption`, `SupervisorAssumption`, and
`ReceptionConstants` and `PlatformConstants`, which name those of the other components);
TLC evaluates each of them. Seven hypotheses are stated in the theorems where they are needed:

| hypothesis | theorems | why it is there |
|---|---|---|
| `Restarters \subseteq {Loop}` | `NoUnderflow` | `ESPRestart` pops the queue from any task (`queue_restart`) |
| `IsFiniteSet(Producers)` | `BoundedOvershoot` | a bound per producer |
| `NoWrap` | `NothingLost`, `NotRepeated` | beyond a wrap of `millis()` TLC refutes both |
| `~Overlap` | `AttemptsWithinTtl`, `OneAnswer`, `NewestThere` | a forced scan connects without `semaphoreBLEOperation` (`gatewayBT.cpp` 896): when an immediate command comes meanwhile, two tasks are in `BLEconnect` on exchanged vectors, and TLC refutes all three |
| `LongEnough` | `IntervalsOrdered`, `SavedIsBack`, `TypesCorrect` of `Reception` | a shorter interval than `MinTimeBtwScan` (section 3) |
| `Selected` | `ReceiverIsRestored`, `TypesCorrect` of `Reception` | a receiver that is missing in a build but can be selected leaves Pilight current, and `rawEnabled` then makes it listen (`gatewayPilight.cpp` 198), and a Somfy command may name a remote that does not exist (`actuatorSomfy.cpp` 70) |
| `OnlyOne` | `OneProtectionSwitchesOff` | one core and one protection |

Each hypothesis holds of the configuration TLC checks, but for the last, whose opposite it
checks.

### Queue and connections (`MsgQueueProofs`, `ConnectionsProofs`)

* `TypeCorrect` (queue): `TypeOK` is inductive; it ties each `pc` to what the task holds.
* `MutualExclusion`: `QueueProtected` is inductive with `TypeOK`: it says that a task is
  in a critical section *exactly* when it holds the mutex, which is what every take and give needs.
* `NoUnderflow`: the length read without the mutex stays a lower bound because only the
  loop removes; strengthened by "non-empty from a positive `size()` on until the pop".
* `ProcessingEnds`: strengthened by "the saved state is never `PROCESSING`".
* `PublishedOrder`: the inductive invariant `OrderInv` puts what was sent, the document in
  hand, the queue and each task's document into one order. `PublishedInOrder` alone is
  not inductive: it says nothing of what is still on its way.
* `BoundedOvershoot`, for finitely many producers: between two drains the queue and the
  tasks past the test together grow by at most one per producer; cardinalities of the
  set of tasks that are enqueuing.
* `QueueKeepsPromise`: initial states map to initial states of `Outbox`, and every step to a
  step or a stutter, under the type invariant.
* `TypeCorrect` (connections), with the bounds of the two failure counters (`Counters`).
* `IndexBacked`: from what `Saved`, `Torn` and `Loaded` return (lemmas `SavedImage`,
  `TornImage`, `LoadedTable`).
* `BackupFollowed`: the invariant adds when a client exists and what it was set up with
  (`ClientSet`).
* `FlashProven`: the invariant `Trust` follows a version from the broker's answer through
  the table, the backup and the file.

### BLE commands (`BleActionsProofs`)

* `LockNotLeft`: `LockIsTransient` is inductive once it is known that a command that was
  not accepted has no task (`NotYet`); whoever clears the lock may clear it for another task.
* `TypeCorrect`: the loop that keeps commands counts their attempts down, so that the types need the
  commands of each vector in the order in which they were accepted (`Ordered`). What `Kept` returns
  is shown prefix by prefix, from the smallest prefix that would refute it.
* `AttemptsWithinTtl`, `OneAnswer`, `NewestThere`: one inductive invariant,
  `ConnectInv`, is `TypeOK /\ Where /\ Ordered /\ Data`. `Where` says who holds
  `semaphoreBLEOperation` and that one task at a time is in `BLEconnect`; `Data`, what the
  vectors hold: each command in one of them (`Apart`; the kept ones in two while they are copied),
  those put aside before the others, attempts made and attempts left together what was asked
  for, and no kept command answered. None of the three is inductive without the others:
  an answer given twice begins with a command that is in two vectors.

### What is received (`SignalFilterProofs`, `BleTableProofs`, `BleLifeProofs`, `ReceptionProofs`)

`BleTableProofs` and `BleLifeProofs` are about the components by themselves.
`ReceptionProofs` instantiates them, and lemmas named `Same...` say that their copy of the
component is that of `Reception`, definition by definition.

* `NothingLost`: the strengthening `Stored` says that an entry is a code that was stored, and
  not later than it last was.
* `NotRepeated`: `getMin` returns an entry none is older than (`Oldest`, from
  the well-foundedness of the natural numbers); the invariant `Table` says that the entries newer
  than a code are no more than the codes stored since, so that when `getMin` takes its entry the
  table has been filled by others.
* `OneEntryEach`: the search and the addition of `createOrUpdateDevice` are two steps. The
  invariant says that a task that writes holds the semaphore (`WriterAlone`) and that what it has
  not found is still not there (`NotFoundYet`); an eviction keeps entries distinct
  (`EvictedProperties`, from what `RemoveAt` returns).
* `ListedOutgrow`: `Few` restates the cardinality as "two evictable places of a table beyond
  its limit are the same place". An addition keeps it by what an eviction takes
  (`EvictedIs`); every other step because an entry leaves a list only for the other one.
* `IntervalsOrdered`, `SavedIsBack`: every configuration that is in use or stored has a scan
  interval of at least `MinTimeBtwScan` and at most the active one (`Ordered`); so loading it as a
  message changes nothing of it.
* `SenderHasNoticed`: the sender has waited for an acknowledgement at least as long as the
  receiver is gone, or for the whole timeout (`WaitedAsLong`).
* `ReceiverIsRestored`: a handler is called with the driven receiver alone listening
  (`Driven`), works with none (`Resting`), and leaves the active one, if it is built in, listening at its
  frequency (`Settled`). The invariant adds that what is stored can be selected.
* `WholeAnnouncement`, `LaunchRemembered`: the set of entities is finite
  (`Entities` is a union over the build's components and the heard devices), and `EnqueueAll`, a
  fold over it, appends all of them when the stale length lets the first one pass; what the
  fold returns follows from the smallest subset that would refute it. New devices are
  counted among those there are.
* `TypesCorrect`: the six type invariants together.

### What the gateway runs on, switches, shows and serves (`PlatformProofs`)

* `Unlocked`: `ConnectedIsUnlocked` is not inductive: a connected gateway may be locked while its
  client waits to be set up, and the link goes and comes meanwhile. `UnlockedInv` says that a connection
  is carried by a link or a cable (`Carried`), that a gateway that starts has its set-up pending
  (`Fresh`), and that a lock on a connected one pends (`LockPends`), in the portal too.
* `OneProtectionSwitchesOff`: a protection that is on its way to the pin found the relay on, and it
  still is (`OnItsWay`), as no other task switches in between.
* `RequestsKept`: by what `setModeForSingleLED` and `handleBlink` do to an LED that shows or
  holds a request (`ShowsOrHolds`); only the last blink takes what is held.
* `FadesTowards`: a value that has left the start of its fade is no further than the fade has
  brought it (`OnTheWay`), and the fade, a product divided by its duration, is monotone in the
  time, upwards and downwards (`PartUp`, `PartDown`, from `DivMono` and `MulMono`). That two turns can
  have a command between them that starts a new fade is why the invariant is about the value and
  not the time of the last turn.
* `LastIsTold`: an invariant for all kinds of sensor, `LastTold`: what a reading is compared with
  is what was published last, unless a publication is owed; the sensors differ in what they
  remember of a failed or an unpublished reading, hence one lemma per way of publishing
  (`OnChangeHolds`, `FailsHolds`, `EveryTimeHolds`, `NearHolds`, `KeyHolds`).
* `NoneLeaked`: strengthened by the messages being numbered as they were built (`OnlyBuilt`), so
  that a new one is in neither the queue nor the heap.
* `NoLineSkipped`: the lines of the buffer and their indices, which go round from
  `LastIndex` to 1, are consecutive (`LogOK`); an index a page remembers was next when so many lines
  had been logged (`Since`); and what it has been shown since then has no gap before
  the index it asks for (`ShownOK`). Distances between indices are remainders; `WayAfter` and
  `WayBetween` say how they add up.
* `SavedAsShown`: a form that was not touched is what its page had shown (`AsShown`); then by
  what each page's handler takes from it.
* `TypesCorrect`: the eight type invariants together.

### Only model-checked

All temporal properties with fairness (`Drained`, `FindsABroker`, `GatewayServes`,
`EventuallyOff`, `RequestCarriedOut`, and `ConnectEnds` and `PollAnswered`, which are
refuted): liveness and `ENABLED` are out of this prover's reach. Recursive functions over data
(`Kept` of `BleActions`, `TotalSize` of `WebConsole`, the fold of `Discovery`) are
proved about only as far as a smallest counterexample can be excluded, not by the library's
induction theorems. Every "violation" run, and the statements TLC refutes, are about small
instances.

## 5. Plan

1. More proofs: the safety that `BleActions` keeps with `Overlap` (the lock and the types are
   proved there); the properties that TLC refutes, under the conditions that make them
   true, as was done for `ProtectionSwitchesOff`.
2. Compositions: `MsgQueue` with `BleActions` (a scan waits for the queue to be empty while the
   loop waits for the scan's semaphore, `gatewayBT.cpp` 741 and 1906); `BleLife` with
   `BleActions` (a task is deleted while it connects); `Connections` with `Supervisor`
   and a BluFi task.
3. `Supervisor` with the timers of `loop()` modulo `2^32`; a tear inside an entry of the
   file of `Connections`.

## 6. Not modelled, and why

Drivers and decoders (I/O, third-party code); the translation between a driver and a
document in the infrared, LORA, SRFB, RFM69, 2G and weather-station gateways (sequential code
on the loop task that meets the rest in the queue, the duplicate filter or the table of
`Discovery`); the fields and layout of documents, pages and screens; conversions of readings;
the cryptography and the pairing of BluFi; ArduinoOTA and the download of an update; boards
and utilities, which keep no state of their own. Inside the modelled
parts: certificates, the portal's form and the instability switch of AWS
in `Connections`; the 49-day wrap in the timers of `Supervisor`; a `ttl` of 0 and regular
measures in `BleActions`; decryption and presence topics in `BleTable`; the deletion of a
task that holds a mutex in `BleLife`; the threshold of RTL_433 and the limits of Pilight's
protocols in `Receivers`; firmware upload and authentication of the web interface;
statistics counters in `MsgQueue`. The reasons, component by component, are in
`PROJECT.json`.
