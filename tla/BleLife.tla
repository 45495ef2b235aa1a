------------------------------ MODULE BleLife ------------------------------
(***************************************************************************)
(* The BLE gateway's configuration and the life of its two tasks           *)
(* (gatewayBT.cpp): the configuration message, which may start or stop the *)
(* gateway on the way, what is stored and loaded, the adaptive scan that   *)
(* changes the intervals by itself, and the scans on the core task.        *)
(*                                                                         *)
(* The message is handled by the loop task.  The processing task, whose    *)
(* priority is higher, may adapt the intervals at any moment between, but  *)
(* not while adaptiveScan is off, and it is off from the moment the        *)
(* handler sets the interval: the handler is one step, but for the wait in *)
(* stopProcessing.  The intervals are in units of MinTimeBtwScan.  Fields  *)
(* that are copied and looked at by nobody else here are left out.         *)
(***************************************************************************)
EXTENDS Naturals, FiniteSets

CONSTANTS
    Intervals,                  \* values a message may carry
    MinTimeBtwScan, TimeBtwRead, TimeBtwActive,
    AdaptiveBLEScan, HassPresence, EnableBT,    \* the defaults of the build
    MaxTasks,                   \* bound: core tasks alive at once
    MaxKeys                     \* bound: keys in one message

\* What the constants must be (assumed where they get their values).
BleLifeAssumption ==
    /\ Intervals \subseteq Nat
    /\ MinTimeBtwScan \in Nat /\ TimeBtwRead \in Nat
    /\ TimeBtwActive \in Nat /\ TimeBtwRead <= TimeBtwActive
    /\ MinTimeBtwScan > 0
    /\ {AdaptiveBLEScan, HassPresence, EnableBT} \subseteq BOOLEAN
    /\ MaxTasks \in Nat \ {0} /\ MaxKeys \in Nat

VARIABLES
    BTConfig,
    nvs,            \* "BTConfig" in flash
    BTProcessLock,
    handle,         \* what xCoreTaskHandle refers to: "none", "live" or "deleted"
    stray,          \* core tasks no handle refers to any more
    scanning,       \* the core task of the handle, or a stray one, holds
                    \* semaphoreBLEOperation: "none", "own" or "stray"
    crashed,        \* the handle of a deleted task was used
    loaded          \* the last thing was a restart with a stored configuration

btVars == <<BTConfig, nvs, BTProcessLock, handle, stray, scanning, crashed, loaded>>

Config == [enabled : BOOLEAN, adaptiveScan : BOOLEAN, BLEinterval : Nat,
           intervalActiveScan : Nat, presenceEnable : BOOLEAN]

BTConfig_init ==
    [enabled |-> EnableBT, adaptiveScan |-> AdaptiveBLEScan,
     BLEinterval |-> TimeBtwRead, intervalActiveScan |-> TimeBtwActive,
     presenceEnable |-> HassPresence]

NotStored == [stored |-> FALSE]
Stored(c) == [stored |-> TRUE, config |-> c]

\* A message: the set of the value of each key, empty if the key is absent.
Opt(S) == {{}} \cup {{v} : v \in S}
Messages == [enabled : Opt(BOOLEAN), adaptivescan : Opt(BOOLEAN),
             hasspresence : Opt(BOOLEAN),
             interval : Opt(Intervals), intervalacts : Opt(Intervals),
             first : {{}, {"init"}, {"load"}}, last : {{}, {"erase"}, {"save"}}]

KeyCount(m) == Cardinality({k \in DOMAIN m : m[k] # {}})
Commands == {m \in Messages : KeyCount(m) <= MaxKeys}

Value(key, old) == IF key = {} THEN old ELSE CHOOSE v \in key : TRUE
Changes(key, old) == Value(key, old) # old

-----------------------------------------------------------------------------
\* BTConfig_fromJson.

\* Home Assistant presence and the adaptive scan exclude each other, and a change of
\* the latter brings intervals of its own, whatever those in the message.
Completed(c, m) ==
    LET p == IF Changes(m.hasspresence, c.presenceEnable)
             THEN [m EXCEPT !.adaptivescan = {c.presenceEnable}] ELSE m
    IN  IF ~Changes(p.adaptivescan, c.adaptiveScan) THEN p
        ELSE IF c.adaptiveScan
        THEN [p EXCEPT !.interval = {MinTimeBtwScan}, !.intervalacts = {MinTimeBtwScan}]
        ELSE [p EXCEPT !.interval = {TimeBtwRead}, !.intervalacts = {TimeBtwActive}]

\* Mutant of SetInterval: the interval between active scans stays.
SetIntervalOnly(c, interval) ==
    LET i == Value(interval, 0)
    IN  IF i = 0 THEN c ELSE [c EXCEPT !.adaptiveScan = FALSE, !.BLEinterval = i]

\* An interval other than 0 ends the adaptive scan ...
SetInterval(c, interval) ==
    LET i == Value(interval, 0)
    IN  IF i = 0 THEN c
        ELSE [c EXCEPT !.adaptiveScan = FALSE, !.BLEinterval = i,
                       !.intervalActiveScan = IF @ < i THEN i ELSE @]

\* ... and so does one between active scans that is too short.
SetActive(c, intervalacts) ==
    LET i == Value(intervalacts, c.intervalActiveScan)
    IN  IF intervalacts # {} /\ i < c.BLEinterval
        THEN [c EXCEPT !.adaptiveScan = FALSE, !.intervalActiveScan = c.BLEinterval]
        ELSE [c EXCEPT !.intervalActiveScan = i]

BTConfig_fromJson(c, m, startup) ==
    LET p == IF startup THEN m ELSE Completed(c, m)
        d == SetActive(SetInterval([c EXCEPT !.presenceEnable = Value(p.hasspresence, @)],
                                   p.interval), p.intervalacts)
    IN  [d EXCEPT !.adaptiveScan = Value(p.adaptivescan, @),
                  !.enabled = Value(p.enabled, @)]

\* The stored configuration as the message it is read as.
AsMessage(c) ==
    [enabled |-> {c.enabled}, adaptivescan |-> {c.adaptiveScan},
     hasspresence |-> {c.presenceEnable}, interval |-> {c.BLEinterval},
     intervalacts |-> {c.intervalActiveScan}]

\* Mutant of BTConfig_load: the stored configuration is taken for a command.
LoadAsCommand(c) ==
    IF nvs.stored THEN BTConfig_fromJson(c, AsMessage(nvs.config), FALSE) ELSE c

BTConfig_load(c) ==
    IF nvs.stored THEN BTConfig_fromJson(c, AsMessage(nvs.config), TRUE) ELSE c

-----------------------------------------------------------------------------
\* The tasks.

setupBTTasksAndBLE ==
    /\ BTProcessLock' = FALSE
    /\ handle' = "live"
    /\ stray' = IF handle = "live" THEN stray + 1 ELSE stray
    /\ scanning' = IF scanning = "own" THEN "stray" ELSE scanning
    /\ UNCHANGED crashed

\* stopProcessing(false): the lock first; the tasks are deleted when the scan or the
\* connections have ended within five seconds, and go on otherwise.
Deletes ==
    /\ handle' = "deleted" /\ crashed' = (handle # "live")
    /\ scanning' = "none"
    /\ UNCHANGED stray

stopProcessing ==
    /\ BTProcessLock' = TRUE
    /\ \/ Deletes
       \/ scanning # "none" /\ UNCHANGED <<handle, stray, scanning, crashed>>

tasks == <<BTProcessLock, handle, stray, scanning, crashed>>

\* XtoBT on the configuration topic; a start or stop is decided by the configuration
\* that init or load has left.
XtoBT(m) ==
    LET c == CASE "init" \in m.first -> BTConfig_init
               [] "load" \in m.first -> BTConfig_load(BTConfig)
               [] OTHER -> BTConfig
        new == BTConfig_fromJson(c, m, FALSE)
    IN  /\ ~crashed
        /\ IF ~Changes(m.enabled, c.enabled) THEN UNCHANGED tasks
           ELSE IF c.enabled THEN stopProcessing
           ELSE stray < MaxTasks /\ setupBTTasksAndBLE
        /\ BTConfig' = new
        /\ nvs' = CASE "erase" \in m.last /\ nvs.stored -> NotStored
                    [] "save" \in m.last -> Stored(new)
                    [] OTHER -> nvs
        /\ loaded' = FALSE

\* coreTask takes semaphoreBLEOperation, scans, connects, and gives it.
ScanBegins ==
    /\ ~BTProcessLock /\ scanning = "none" /\ ~crashed
    /\ \/ handle = "live" /\ scanning' = "own"
       \/ stray > 0 /\ scanning' = "stray"
    /\ UNCHANGED <<BTConfig, nvs, BTProcessLock, handle, stray, crashed, loaded>>

ScanEnds ==
    /\ scanning # "none" /\ ~crashed
    /\ scanning' = "none"
    /\ UNCHANGED <<BTConfig, nvs, BTProcessLock, handle, stray, crashed, loaded>>

\* process_bledata on the processing task: a device asks for shorter intervals.
Adapts(acts, cont) ==
    /\ ~BTProcessLock /\ ~crashed /\ (handle = "live" \/ stray > 0)
    /\ BTConfig.adaptiveScan
    /\ \/ /\ acts /\ cont
          /\ BTConfig' = [BTConfig EXCEPT !.BLEinterval = MinTimeBtwScan,
                                          !.intervalActiveScan = MinTimeBtwScan]
       \/ /\ ~acts /\ cont
          /\ BTConfig' = [BTConfig EXCEPT !.BLEinterval = MinTimeBtwScan]
    /\ loaded' = FALSE
    /\ UNCHANGED <<nvs, tasks>>

\* setupBT after a restart.
Boots(c) ==
    /\ BTConfig' = c
    /\ BTProcessLock' = ~c.enabled
    /\ handle' = IF c.enabled THEN "live" ELSE "none"
    /\ stray' = 0 /\ scanning' = "none" /\ crashed' = FALSE

setupBT ==
    /\ Boots(BTConfig_load(BTConfig_init))
    /\ loaded' = nvs.stored
    /\ UNCHANGED nvs

Init ==
    /\ BTConfig = BTConfig_init /\ nvs = NotStored
    /\ BTProcessLock = ~EnableBT
    /\ handle = IF EnableBT THEN "live" ELSE "none"
    /\ stray = 0 /\ scanning = "none" /\ crashed = FALSE /\ loaded = FALSE

Next ==
    \/ \E m \in Commands : XtoBT(m)
    \/ ScanBegins
    \/ ScanEnds
    \/ \E acts, cont \in BOOLEAN : Adapts(acts, cont)
    \/ setupBT

Spec == Init /\ [][Next]_btVars

-----------------------------------------------------------------------------
TypeOK ==
    /\ BTConfig \in Config
    /\ nvs = NotStored \/ (nvs.stored = TRUE /\ nvs.config \in Config)
    /\ {BTProcessLock, crashed, loaded} \subseteq BOOLEAN
    /\ handle \in {"none", "live", "deleted"}
    /\ stray \in 0..MaxTasks /\ scanning \in {"none", "own", "stray"}

\* "avoid intervalacts to be lower than interval" (gatewayBT.cpp 206, 214): whatever
\* the message carries and in whatever order the scan has adapted, been saved, loaded.
ActiveNotShorter == BTConfig.BLEinterval <= BTConfig.intervalActiveScan

\* After a restart the gateway runs with the configuration that was saved: none of the
\* rules by which one key of a message changes another applies to what is loaded.
SavedIsLoaded == loaded => BTConfig = nvs.config

\* "Identify if the gateway is enabled or not and stop start accordingly" (193).
EnabledRuns == ~crashed /\ BTConfig.enabled => handle = "live" \/ stray > 0
=============================================================================
