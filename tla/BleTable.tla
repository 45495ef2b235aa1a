------------------------------ MODULE BleTable ------------------------------
(***************************************************************************)
(* The table of BLE devices (gatewayBT.cpp): the processing task enters    *)
(* what it hears of, the loop task enters the white and the black list,    *)
(* both in createOrUpdateDevice under semaphoreCreateOrUpdateDevice; a     *)
(* full table evicts.  launchBTDiscovery, on the loop task, copies the     *)
(* table's pointers under the semaphore and goes through the copy without. *)
(*                                                                         *)
(* A device is an address on the heap, so that an entry can be told from   *)
(* one that was deleted.  What an advertisement carries is reduced to its  *)
(* MAC and what the decoder makes of it; the published data are left out.  *)
(***************************************************************************)
EXTENDS Integers, Sequences, FiniteSets, SequencesExt

CONSTANTS
    Macs,           \* addresses of devices
    Kinds,          \* what an advertisement decodes to, of KindsOf
    MaxBLEDevices,
    AwayTimer,      \* presenceAwayTimer
    ignoreWBlist, filterConnectable,
    MaxTime         \* bound: advertisements and commands

\* A tracker, another broadcaster, one that is also connected to, one only heard by
\* its name, one that is passed over (random MAC, iBeacon, not decrypted, too far away).
KindsOf == {"tracker", "sensor", "connect", "unknown", "hidden"}

\* What the constants must be (assumed where they get their values).
BleTableAssumption ==
    /\ Kinds \subseteq KindsOf
    /\ MaxBLEDevices \in Nat /\ AwayTimer \in Nat /\ MaxTime \in Nat \ {0}
    /\ {ignoreWBlist, filterConnectable} \subseteq BOOLEAN

Tasks == {"loop", "proc"}
UNKNOWN_MODEL == "none"

VARIABLES
    heap,           \* every device that was ever allocated
    devices,        \* the table: addresses of devices
    oneWhite, newDevices,
    semaphore,      \* the task that holds it, or "free"
    pc, call, found,    \* per task: where it is, the call's arguments, the entry found
    localDevices,   \* the copy the discovery has still to go through
    clock           \* millis()

tableVars == <<heap, devices, oneWhite, newDevices, semaphore, pc, call, found,
               localDevices, clock>>

Device == [mac : Macs, isDisc : BOOLEAN, isWhtL : BOOLEAN, isBlkL : BOOLEAN,
           connect : BOOLEAN, model : Kinds \cup {UNKNOWN_MODEL}, lastUpdate : Nat]

NoCall == [mac |-> "none", flag |-> "none", model |-> UNKNOWN_MODEL]
NotFound == 0

\* The first entry of a MAC, NO_BT_DEVICE_FOUND if there is none.
getDeviceByMac(mac) ==
    LET at == {i \in 1..Len(devices) : heap[devices[i]].mac = mac}
    IN  IF at = {} THEN NotFound
        ELSE devices[CHOOSE i \in at : \A j \in at : i <= j]

isWhite(d) == d # NotFound /\ heap[d].isWhtL
isBlack(d) == d # NotFound /\ heap[d].isBlkL
Passes(d) == ignoreWBlist \/ ((~oneWhite \/ isWhite(d)) /\ ~isBlack(d))

Init ==
    /\ heap = <<>> /\ devices = <<>> /\ oneWhite = FALSE /\ newDevices = 0
    /\ semaphore = "free"
    /\ pc = [t \in Tasks |-> "idle"] /\ call = [t \in Tasks |-> NoCall]
    /\ found = [t \in Tasks |-> NotFound]
    /\ localDevices = <<>> /\ clock = 1

Goto(t, l) == pc' = [pc EXCEPT ![t] = l]
table == <<heap, devices, oneWhite, newDevices>>

-----------------------------------------------------------------------------
\* createOrUpdateDevice, called by either task.

After(t) == IF t = "proc" THEN "status" ELSE "idle"

\* Mutant of Take: nobody waits for the semaphore.
TakeAnyway(t) ==
    /\ pc[t] = "take"
    /\ found' = [found EXCEPT ![t] = getDeviceByMac(call[t].mac)]
    /\ semaphore' = t
    /\ Goto(t, "write")
    /\ UNCHANGED <<table, call, localDevices, clock>>

Take(t) ==
    /\ pc[t] = "take" /\ semaphore = "free"
    /\ semaphore' = t
    /\ found' = [found EXCEPT ![t] = getDeviceByMac(call[t].mac)]
    /\ Goto(t, "write")
    /\ UNCHANGED <<table, call, localDevices, clock>>

\* Thirty seconds without the semaphore: the call does nothing.
TakeTimesOut(t) ==
    /\ pc[t] = "take" /\ semaphore # "free"
    /\ call' = [call EXCEPT ![t] = NoCall]
    /\ Goto(t, After(t))
    /\ UNCHANGED <<table, semaphore, found, localDevices, clock>>

Evictable(d) == ~heap[d].isWhtL /\ ~heap[d].isBlkL /\ ~heap[d].connect

\* Mutant of Evicted: only a table that is exactly full evicts.
EvictedWhenJustFull ==
    LET c == {i \in 1..Len(devices) : Evictable(devices[i])}
    IN  IF Len(devices) # MaxBLEDevices \/ c = {} THEN devices
        ELSE RemoveAt(devices, CHOOSE i \in c : \A j \in c :
                 \/ heap[devices[i]].lastUpdate < heap[devices[j]].lastUpdate
                 \/ heap[devices[i]].lastUpdate = heap[devices[j]].lastUpdate /\ i <= j)

\* A full table gives up the device not heard of for longest, but none that is listed
\* or connected to; if all are, it grows.
Evicted ==
    LET c == {i \in 1..Len(devices) : Evictable(devices[i])}
    IN  IF Len(devices) < MaxBLEDevices \/ c = {} THEN devices
        ELSE RemoveAt(devices, CHOOSE i \in c : \A j \in c :
                 \/ heap[devices[i]].lastUpdate < heap[devices[j]].lastUpdate
                 \/ heap[devices[i]].lastUpdate = heap[devices[j]].lastUpdate /\ i <= j)

Add(c) ==
    /\ heap' = Append(heap, [mac |-> c.mac, isDisc |-> FALSE,
                  isWhtL |-> c.flag = "white", isBlkL |-> c.flag = "black",
                  connect |-> c.flag = "connect", model |-> c.model, lastUpdate |-> clock])
    /\ devices' = Append(Evicted, Len(heap) + 1)
    /\ newDevices' = newDevices + 1

\* A model that is now known, or a new place on the white list, is discovered again.
Update(d, c) ==
    LET old == heap[d]
        learnt == c.model # UNKNOWN_MODEL /\ old.model = UNKNOWN_MODEL
        whitened == ~old.isWhtL /\ c.flag = "white"
        lists == c.flag \in {"white", "black"}
    IN  /\ heap' = [heap EXCEPT ![d] = [old EXCEPT
               !.lastUpdate = clock,
               !.connect = old.connect \/ c.flag = "connect",
               !.model = IF learnt THEN c.model ELSE old.model,
               !.isDisc = old.isDisc /\ ~learnt,
               !.isWhtL = IF lists THEN c.flag = "white" ELSE old.isWhtL,
               !.isBlkL = IF lists THEN c.flag = "black" ELSE old.isBlkL]]
        /\ newDevices' = newDevices + (IF learnt THEN 1 ELSE 0) + (IF whitened THEN 1 ELSE 0)
        /\ UNCHANGED devices

createOrUpdateDevice(t) ==
    /\ pc[t] = "write"
    /\ IF found[t] = NotFound THEN Add(call[t]) ELSE Update(found[t], call[t])
    /\ oneWhite' = (oneWhite \/ call[t].flag = "white" \/
                    (found[t] # NotFound /\ call[t].flag # "black" /\ heap[found[t]].isWhtL))
    /\ semaphore' = "free"
    /\ found' = [found EXCEPT ![t] = NotFound]
    /\ call' = [call EXCEPT ![t] = NoCall]
    /\ Goto(t, After(t))
    /\ UNCHANGED <<localDevices, clock>>

-----------------------------------------------------------------------------
\* procBLETask.

Tick == clock < MaxTime /\ clock' = clock + 1

\* What is decoded (once decrypted, where it has to be), or tells a device to connect
\* to, is entered in the table.
process_bledata(mac, kind) ==
    IF kind \in {"tracker", "sensor", "connect"}
    THEN /\ Goto("proc", "take")
         /\ call' = [call EXCEPT !["proc"] = [mac |-> mac, model |-> kind,
                        flag |-> IF kind = "connect" THEN "connect" ELSE "init"]]
    ELSE Goto("proc", "status") /\ UNCHANGED call

\* An advertisement is filtered by the entry its MAC has now.
Advertisement(mac, kind) ==
    LET d == getDeviceByMac(mac)
    IN  /\ pc["proc"] = "idle" /\ Tick
        /\ IF (filterConnectable /\ d # NotFound /\ heap[d].connect)
           THEN UNCHANGED <<pc, call>>
           ELSE IF Passes(d) THEN process_bledata(mac, kind)
           ELSE Goto("proc", "status") /\ UNCHANGED call
        /\ UNCHANGED <<table, semaphore, found, localDevices>>

\* updateDevicesStatus: a tracker not heard of is offline, and said to be so once.
Away(d) ==
    /\ heap[d].model = "tracker" /\ heap[d].lastUpdate # 0
    /\ clock > AwayTimer /\ heap[d].lastUpdate < clock - AwayTimer
    /\ Passes(d)

updateDevicesStatus ==
    LET away == {d \in ToSet(devices) : Away(d)}
    IN  /\ pc["proc"] = "status"
        /\ heap' = [d \in 1..Len(heap) |->
                       IF d \in away THEN [heap[d] EXCEPT !.lastUpdate = 0] ELSE heap[d]]
        /\ Goto("proc", "idle")
        /\ UNCHANGED <<devices, oneWhite, newDevices, semaphore, call, found, localDevices, clock>>

-----------------------------------------------------------------------------
\* The loop task.

\* updateWorB, for one MAC of a list.
updateWorB(mac, color) ==
    /\ pc["loop"] = "idle" /\ Tick
    /\ call' = [call EXCEPT !["loop"] = [mac |-> mac, flag |-> color,
                                         model |-> UNKNOWN_MODEL]]
    /\ Goto("loop", "take")
    /\ UNCHANGED <<table, semaphore, found, localDevices>>

\* Another gateway has seen a tracker: not offline from here.
TrackerSync(mac) ==
    LET d == getDeviceByMac(mac)
    IN  /\ pc["loop"] = "idle" /\ Tick
        /\ d # NotFound /\ heap[d].lastUpdate # 0
        /\ heap' = [heap EXCEPT ![d].lastUpdate = 0]
        /\ UNCHANGED <<devices, oneWhite, newDevices, semaphore, pc, call, found,
                       localDevices>>

\* launchBTDiscovery copies the pointers ...
launchBTDiscovery ==
    /\ pc["loop"] = "idle" /\ newDevices > 0 /\ semaphore = "free"
    /\ newDevices' = 0
    /\ localDevices' = devices
    /\ Goto("loop", "discover")
    /\ UNCHANGED <<heap, devices, oneWhite, semaphore, call, found, clock>>

\* ... looks at a device, announces what its model is known to have, ...
Discover ==
    /\ pc["loop"] = "discover"
    /\ IF localDevices = <<>> THEN Goto("loop", "idle") /\ UNCHANGED localDevices
       ELSE IF heap[localDevices[1]].isDisc
       THEN localDevices' = Tail(localDevices) /\ UNCHANGED pc
       ELSE Goto("loop", "discovered") /\ UNCHANGED localDevices
    /\ UNCHANGED <<table, semaphore, call, found, clock>>

\* ... and marks it (1224, "we don't need the semaphore").
Discovered ==
    /\ pc["loop"] = "discovered"
    /\ heap' = [heap EXCEPT ![localDevices[1]].isDisc = TRUE]
    /\ localDevices' = Tail(localDevices)
    /\ Goto("loop", "discover")
    /\ UNCHANGED <<devices, oneWhite, newDevices, semaphore, call, found, clock>>

Next ==
    \/ \E t \in Tasks : Take(t) \/ TakeTimesOut(t) \/ createOrUpdateDevice(t)
    \/ \E mac \in Macs : \/ \E kind \in Kinds : Advertisement(mac, kind)
                         \/ \E color \in {"white", "black"} : updateWorB(mac, color)
                         \/ TrackerSync(mac)
    \/ updateDevicesStatus
    \/ launchBTDiscovery
    \/ Discover
    \/ Discovered

Spec == Init /\ [][Next]_tableVars

-----------------------------------------------------------------------------
TypeOK ==
    /\ \A d \in 1..Len(heap) : heap[d] \in Device
    /\ ToSet(devices) \subseteq 1..Len(heap) /\ ToSet(localDevices) \subseteq 1..Len(heap)
    /\ oneWhite \in BOOLEAN /\ newDevices \in Nat
    /\ semaphore \in Tasks \cup {"free"}
    /\ pc["proc"] \in {"idle", "take", "write", "status"}
    /\ pc["loop"] \in {"idle", "take", "write", "discover", "discovered"}
    /\ \A t \in Tasks : found[t] \in 0..Len(heap)
    /\ clock \in 1..MaxTime

\* A MAC has one entry, whoever entered it while the other task looked for it: a
\* second one would keep the list of the first from ever being seen.
OneEntryPerMac ==
    \A i, j \in 1..Len(devices) :
        heap[devices[i]].mac = heap[devices[j]].mac => i = j

\* The table outgrows MaxBLEDevices only by devices that are listed or connected to:
\* all the others but the one entered last have been evicted by then.
OnlyListedOutgrow ==
    Len(devices) > MaxBLEDevices =>
        Cardinality({d \in ToSet(devices) : Evictable(d)}) <= 1

\* Not so in a full table: the discovery works on devices that exist, no eviction by
\* the processing task has deleted the one it is looking at.
DiscoversLiveDevices ==
    pc["loop"] \in {"discover", "discovered"} /\ localDevices # <<>> =>
        localDevices[1] \in ToSet(devices)
=============================================================================
