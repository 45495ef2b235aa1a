----------------------------- MODULE BleActions -----------------------------
(***************************************************************************)
(* The commands the gateway carries out on BLE devices by connecting to    *)
(* them (gatewayBT.cpp, gatewayBLEConnect.cpp).                            *)
(*                                                                         *)
(* XtoBT, on the loop task, puts a command in BLEactions and marks its     *)
(* device as one to connect to.  The core task scans and, from time to     *)
(* time, runs BLEconnect over the device table: every marked device is     *)
(* contacted, the commands for it are tried (processActions), and what     *)
(* has neither succeeded nor used up its attempts stays for another round. *)
(* A command marked immediate starts a task of its own, which puts the     *)
(* other commands and devices aside, runs BLEconnect for the newest        *)
(* command and puts the rest back.  semaphoreBLEOperation keeps these      *)
(* apart, except that a forced scan takes no semaphore; BTProcessLock      *)
(* tells the core task to hold off.                                        *)
(*                                                                         *)
(* The task of an immediate command has priority 3 on the loop's core, the *)
(* loop and the core task have priority 1: such a task preempts the loop   *)
(* and is the first to get the semaphore (FreeRTOS).                       *)
(*                                                                         *)
(* Left out: the eviction of the device table, the measures published by   *)
(* regular connections, stopProcessing, and commands with a ttl of 0.      *)
(***************************************************************************)
EXTENDS Integers, Sequences

CONSTANTS
    Devices,
    NoDevice,
    Regular,      \* devices of the models that are connected to regularly
    MaxTtl,       \* bound: attempts a command may ask for
    MaxActions,   \* bound: commands accepted
    MaxForced,    \* bound: forced scans asked for
    TwoInOne,     \* a message may hold a known command and a raw one
    Overlap       \* immediate commands may come while a forced scan is due or runs

ASSUME BleAssumption ==
    /\ NoDevice \notin Devices
    /\ Regular \subseteq Devices
    /\ MaxTtl \in Nat \ {0}
    /\ MaxActions \in Nat
    /\ MaxForced \in Nat
    /\ TwoInOne \in BOOLEAN
    /\ Overlap \in BOOLEAN

\* The tasks: 0 is the core task, i > 0 the task of the immediate command i.
Core == 0
Loop == -1
Proc == -2                              \* procBLETask
Free == -3
Ids        == 1..MaxActions
Connectors == {Core} \cup Ids           \* the tasks that run BLEconnect

BLEAction == [id : Ids, dev : Devices, ttl : 1..MaxTtl, complete : BOOLEAN]

Aside == [devices : Seq(Devices), actions : Seq(BLEAction)]
Empty == [devices |-> <<>>, actions |-> <<>>]

VARIABLES
    devices,                \* the device table, in the order it is walked
    connect,                \* the devices marked "connect"
    BLEactions,
    BTProcessLock,
    semaphoreBLEOperation,
    semaphoreCreateOrUpdateDevice,
    forceBTScan,
    loopPc, procPc,
    pc,                     \* of the connectors
    ret,                    \* where BLEconnect returns to
    at,                     \* the place in the table BLEconnect has come to
    p,                      \* the device it found there
    swap,                   \* the actions BLEconnect keeps for another round
    aside,                  \* what the task of an immediate command put aside
    asked, forced,          \* commands accepted, scans forced so far
    paired,                 \* history: a message has held two commands
    wanted,                 \* history: the attempts each command asked for
    attempts,               \* history: the attempts made at each command
    answers                 \* history: the answers published to each command

vars == <<devices, connect, BLEactions, BTProcessLock, semaphoreBLEOperation,
          semaphoreCreateOrUpdateDevice, forceBTScan, loopPc, procPc, pc, ret,
          at, p, swap, aside, asked, forced, paired, wanted, attempts, answers>>

table   == <<devices, connect>>
locks   == <<BTProcessLock, semaphoreBLEOperation, semaphoreCreateOrUpdateDevice>>
walk    == <<ret, at, p, swap>>
command == <<loopPc, asked, paired, wanted>>
scans   == <<forceBTScan, forced>>
outcome == <<attempts, answers>>

Init ==
    /\ devices = <<>>
    /\ connect = {}
    /\ BLEactions = <<>>
    /\ BTProcessLock = FALSE
    /\ semaphoreBLEOperation = Free
    /\ semaphoreCreateOrUpdateDevice = Free
    /\ forceBTScan = FALSE
    /\ loopPc = "idle"
    /\ procPc = "idle"
    /\ pc = [t \in Connectors |-> IF t = Core THEN "idle" ELSE "none"]
    /\ ret = [t \in Connectors |-> "idle"]
    /\ at = [t \in Connectors |-> 1]
    /\ p = [t \in Connectors |-> NoDevice]
    /\ swap = [t \in Connectors |-> <<>>]
    /\ aside = [i \in Ids |-> Empty]
    /\ asked = 0
    /\ forced = 0
    /\ paired = FALSE
    /\ wanted = [i \in Ids |-> 0]
    /\ attempts = [i \in Ids |-> 0]
    /\ answers = [i \in Ids |-> 0]

\* In BLEconnect.
Connecting == {"visit", "contact", "retire", "keep"}

Goto(t, from, to) == pc[t] = from /\ pc' = [pc EXCEPT ![t] = to]

\* An immediate task that can run, or waits for the semaphore, goes first.
NobodyStarts == \A i \in Ids : pc[i] # "start"
NobodyFirst  == \A i \in Ids : pc[i] \notin {"start", "take"}

\* BTforceScan is due or runs, without the semaphore.
ForcedScan == \/ forceBTScan \/ pc[Core] = "fscan"
              \/ pc[Core] \in Connecting /\ ret[Core] = "idle"

\* The table after createOrUpdateDevice for d.
With(d) == IF \E k \in DOMAIN devices : devices[k] = d THEN devices
           ELSE Append(devices, d)

-----------------------------------------------------------------------------
(* procBLETask: a device is seen and enters the table; the models that are *)
(* connected to regularly are marked at once.                              *)

DeviceTake ==
    /\ procPc = "idle"
    /\ ~BTProcessLock
    /\ \E d \in Devices : \A k \in DOMAIN devices : devices[k] # d
    /\ semaphoreCreateOrUpdateDevice = Free
    /\ semaphoreCreateOrUpdateDevice' = Proc
    /\ procPc' = "update"
    /\ UNCHANGED <<table, BLEactions, BTProcessLock, semaphoreBLEOperation,
                   scans, command, pc, walk, aside, outcome>>

DeviceUpdate(d) ==
    /\ procPc = "update"
    /\ \A k \in DOMAIN devices : devices[k] # d
    /\ devices' = With(d)
    /\ connect' = IF d \in Regular THEN connect \cup {d} ELSE connect
    /\ semaphoreCreateOrUpdateDevice' = Free
    /\ procPc' = "idle"
    /\ UNCHANGED <<BLEactions, BTProcessLock, semaphoreBLEOperation, scans,
                   command, pc, walk, aside, outcome>>

-----------------------------------------------------------------------------
(* XtoBT, on the loop task                                                 *)

\* A configuration message with an interval of 0.
ForceScan ==
    /\ loopPc = "idle" /\ NobodyStarts
    /\ Overlap \/ \A i \in Ids : pc[i] \in {"none", "done"}
    /\ forced < MaxForced
    /\ forced' = forced + 1
    /\ forceBTScan' = TRUE
    /\ UNCHANGED <<table, BLEactions, locks, command, procPc, pc, walk, aside, outcome>>

XtoBT ==
    /\ loopPc = "idle" /\ NobodyStarts
    /\ asked < MaxActions
    /\ loopPc' = "take"
    /\ UNCHANGED <<table, BLEactions, locks, scans, procPc, pc, walk, aside,
                   asked, paired, wanted, outcome>>

\* "BLE busy - BTActions not sent": after 5 s; nobody is told but the log.
XtoBTBusy ==
    /\ loopPc = "take" /\ NobodyStarts
    /\ semaphoreBLEOperation # Free
    /\ loopPc' = "idle"
    /\ UNCHANGED <<table, BLEactions, locks, scans, procPc, pc, walk, aside,
                   asked, paired, wanted, outcome>>

\* Mutant of XtoBTTake: the semaphore is not looked at.
XtoBTTakeUnchecked ==
    /\ loopPc = "take" /\ NobodyStarts
    /\ loopPc' = "push"
    /\ UNCHANGED <<table, BLEactions, locks, scans, procPc, pc, walk, aside,
                   asked, paired, wanted, outcome>>

XtoBTTake ==
    /\ loopPc = "take" /\ NobodyFirst
    /\ semaphoreBLEOperation = Free
    /\ semaphoreBLEOperation' = Loop
    /\ loopPc' = "push"
    /\ UNCHANGED <<table, BLEactions, BTProcessLock, semaphoreCreateOrUpdateDevice,
                   scans, procPc, pc, walk, aside, asked, paired, wanted, outcome>>

\* KnownBTActions and XtoBTAction: mark the device, push, start the task.
Push(d, ttl, immediate) ==
    /\ NobodyStarts
    /\ immediate => Overlap \/ ~ForcedScan
    /\ \/ loopPc = "push" /\ loopPc' = "pushed"
       \/ loopPc = "pushed" /\ TwoInOne /\ loopPc' = "both"
    /\ asked < MaxActions
    /\ semaphoreCreateOrUpdateDevice = Free
    /\ devices' = With(d)
    /\ connect' = connect \cup {d}
    /\ BLEactions' = Append(BLEactions, [id |-> asked + 1, dev |-> d, ttl |-> ttl,
                                         complete |-> FALSE])
    /\ pc' = IF immediate THEN [pc EXCEPT ![asked + 1] = "start"] ELSE pc
    /\ asked' = asked + 1
    /\ paired' = (paired \/ loopPc = "pushed")
    /\ wanted' = [wanted EXCEPT ![asked + 1] = ttl]
    /\ UNCHANGED <<locks, scans, procPc, walk, aside, outcome>>

XtoBTGive ==
    /\ loopPc \in {"pushed", "both"} /\ NobodyStarts
    /\ semaphoreBLEOperation' = Free
    /\ loopPc' = "idle"
    /\ UNCHANGED <<table, BLEactions, BTProcessLock, semaphoreCreateOrUpdateDevice,
                   scans, procPc, pc, walk, aside, asked, paired, wanted, outcome>>

-----------------------------------------------------------------------------
(* BLEconnect, on the core task or on the task of an immediate command     *)

\* t calls BLEconnect: nothing happens while BTProcessLock is set.
Call(t, from, back) ==
    /\ Goto(t, from, IF BTProcessLock THEN back ELSE "visit")
    /\ ret' = [ret EXCEPT ![t] = back]
    /\ at' = [at EXCEPT ![t] = 1]

\* The next marked device from at[t] on.
NextMarked(t, k) ==
    /\ k \in at[t]..Len(devices)
    /\ devices[k] \in connect
    /\ \A j \in at[t]..(k - 1) : devices[j] \notin connect

Visit(t) ==
    /\ Goto(t, "visit", "contact")
    /\ \E k \in DOMAIN devices : /\ NextMarked(t, k)
                                 /\ at' = [at EXCEPT ![t] = k]
                                 /\ p' = [p EXCEPT ![t] = devices[k]]
    /\ UNCHANGED <<table, BLEactions, locks, scans, command, procPc, ret, swap,
                   aside, outcome>>

\* The end of the table: another round as long as there are actions.
EndOfRound(t) ==
    /\ pc[t] = "visit"
    /\ \A k \in DOMAIN devices : ~NextMarked(t, k)
    /\ pc' = [pc EXCEPT ![t] = IF BLEactions = <<>> THEN ret[t] ELSE "visit"]
    /\ at' = [at EXCEPT ![t] = 1]
    /\ UNCHANGED <<table, BLEactions, locks, scans, command, procPc, ret, p, swap,
                   aside, outcome>>

\* processActions: what is for the device is tried; it is answered for when it
\* succeeds or was at its last attempt.
Mine(t, k) == BLEactions[k].dev = p[t]

Tried(t, ok) == [k \in DOMAIN BLEactions |->
    IF Mine(t, k) THEN [BLEactions[k] EXCEPT !.complete = ok[k]] ELSE BLEactions[k]]

Answered(t, ok) == {BLEactions[k].id : k \in
    {j \in DOMAIN BLEactions : Mine(t, j) /\ (ok[j] \/ BLEactions[j].ttl <= 1)}}

\* GENERIC_connect: the result is that of the last action tried.
Succeeded(t, ok) ==
    \E k \in DOMAIN BLEactions :
        /\ Mine(t, k) /\ ok[k]
        /\ \A j \in (k + 1)..Len(BLEactions) : ~Mine(t, j)

Contact(t, ok) ==
    /\ Goto(t, "contact", "retire")
    /\ ok \in [DOMAIN BLEactions -> BOOLEAN]
    /\ \A k \in DOMAIN BLEactions : ok[k] => Mine(t, k)
    /\ BLEactions' = Tried(t, ok)
    /\ attempts' = [i \in Ids |-> attempts[i] +
                       (IF \E k \in DOMAIN BLEactions : Mine(t, k) /\ BLEactions[k].id = i
                        THEN 1 ELSE 0)]
    /\ answers' = [i \in Ids |-> answers[i] + (IF i \in Answered(t, ok) THEN 1 ELSE 0)]
    /\ connect' = IF Succeeded(t, ok) THEN connect \ ({p[t]} \ Regular)
                  ELSE connect
    /\ UNCHANGED <<devices, locks, scans, command, procPc, walk, aside>>

\* Mutant of Stays: completed actions are tried again.
StaysCompleted(a) == a.ttl - 1 # 0

\* Mutant of Stays: off by one, one attempt too many.
StaysOnceMore(a) == ~a.complete /\ a.ttl # 0

\* Whatever device was contacted, every action that is not complete has used up
\* one attempt, and leaves when it was the last.
Stays(a) == ~a.complete /\ a.ttl - 1 # 0

\* The actions to keep, with one attempt less, in a vector of BLEconnect's own.
Kept(actions) ==
    LET upTo[k \in 0..Len(actions)] ==
            IF k = 0 THEN <<>>
            ELSE IF Stays(actions[k])
            THEN Append(upTo[k - 1], [actions[k] EXCEPT !.ttl = @ - 1])
            ELSE upTo[k - 1]
    IN  upTo[Len(actions)]

\* The device of an action that is not kept is not connected to any more, unless it
\* always is.
Retire(t) ==
    /\ Goto(t, "retire", "keep")
    /\ swap' = [swap EXCEPT ![t] = Kept(BLEactions)]
    /\ connect' = IF \E k \in DOMAIN BLEactions : Mine(t, k) /\ ~Stays(BLEactions[k])
                  THEN connect \ ({p[t]} \ Regular) ELSE connect
    /\ UNCHANGED <<devices, BLEactions, locks, scans, command, procPc, ret, at,
                   p, aside, outcome>>

\* std::swap: what was pushed since they were copied is gone.
Keep(t) ==
    /\ Goto(t, "keep", "visit")
    /\ BLEactions' = swap[t]
    /\ swap' = [swap EXCEPT ![t] = <<>>]
    /\ at' = [at EXCEPT ![t] = @ + 1]
    /\ p' = [p EXCEPT ![t] = NoDevice]
    /\ UNCHANGED <<table, locks, scans, command, procPc, ret, aside, outcome>>

Connect(t) ==
    \/ Visit(t) \/ EndOfRound(t) \/ Retire(t) \/ Keep(t)
    \/ \E ok \in [DOMAIN BLEactions -> BOOLEAN] : Contact(t, ok)

-----------------------------------------------------------------------------
(* coreTask                                                                *)

CoreTest ==
    /\ ~BTProcessLock
    /\ Goto(Core, "idle", "take")
    /\ UNCHANGED <<table, BLEactions, locks, scans, command, procPc, walk, aside, outcome>>

CoreTake ==
    /\ Goto(Core, "take", "scan")
    /\ NobodyFirst /\ semaphoreBLEOperation = Free
    /\ semaphoreBLEOperation' = Core
    /\ UNCHANGED <<table, BLEactions, BTProcessLock, semaphoreCreateOrUpdateDevice,
                   scans, command, procPc, walk, aside, outcome>>

CoreBusy ==
    /\ Goto(Core, "take", "rest")
    /\ semaphoreBLEOperation # Free
    /\ UNCHANGED <<table, BLEactions, locks, scans, command, procPc, walk, aside, outcome>>

\* A scan, then a connect when one is due.
CoreScanned ==
    /\ \/ Call(Core, "scan", "give")
       \/ Goto(Core, "scan", "give") /\ UNCHANGED <<ret, at>>
    /\ UNCHANGED <<table, BLEactions, locks, scans, command, procPc, p, swap, aside, outcome>>

CoreGive ==
    /\ Goto(Core, "give", "rest")
    /\ semaphoreBLEOperation' = Free
    /\ UNCHANGED <<table, BLEactions, BTProcessLock, semaphoreCreateOrUpdateDevice,
                   scans, command, procPc, walk, aside, outcome>>

\* The pause between two scans, cut by a forced scan unless the lock is set.
CoreRest ==
    /\ Goto(Core, "rest", IF forceBTScan /\ ~BTProcessLock THEN "fscan" ELSE "idle")
    /\ forceBTScan' = FALSE
    /\ UNCHANGED <<table, BLEactions, locks, forced, command, procPc, walk, aside, outcome>>

CoreForced ==
    /\ Call(Core, "fscan", "idle")
    /\ UNCHANGED <<table, BLEactions, locks, scans, command, procPc, p, swap, aside, outcome>>

CoreTask == \/ CoreTest \/ CoreTake \/ CoreBusy \/ CoreScanned \/ CoreGive
            \/ CoreRest \/ CoreForced \/ Connect(Core)

-----------------------------------------------------------------------------
(* immediateBTAction, the task of the immediate command i                  *)

Last == BLEactions[Len(BLEactions)]
Butlast == SubSeq(BLEactions, 1, Len(BLEactions) - 1)

ImmStart(i) ==
    /\ Goto(i, "start", IF BLEactions = <<>> THEN "done" ELSE "take")
    /\ BTProcessLock' = (BTProcessLock \/ BLEactions # <<>>)
    /\ UNCHANGED <<table, BLEactions, semaphoreBLEOperation,
                   semaphoreCreateOrUpdateDevice, scans, command, procPc, walk,
                   aside, outcome>>

\* "BLE busy - immediateBTAction not sent": the newest action, whoever's it is,
\* is answered for and dropped (back() of an empty vector is undefined).  Only
\* another such task holds the semaphore for 5 s while this one waits.
ImmBusy(i) ==
    /\ Goto(i, "take", "done")
    /\ semaphoreBLEOperation \in Ids
    /\ BLEactions # <<>>
    /\ answers' = [answers EXCEPT ![Last.id] = @ + 1]
    /\ BLEactions' = Butlast
    /\ BTProcessLock' = FALSE
    /\ UNCHANGED <<table, semaphoreBLEOperation, semaphoreCreateOrUpdateDevice,
                   scans, command, procPc, walk, aside, attempts>>

ImmTake(i) ==
    /\ Goto(i, "take", "table")
    /\ semaphoreBLEOperation = Free
    /\ semaphoreBLEOperation' = i
    /\ UNCHANGED <<table, BLEactions, BTProcessLock, semaphoreCreateOrUpdateDevice,
                   scans, command, procPc, walk, aside, outcome>>

\* Mutant of ImmGiveUp: the lock stays set.
ImmGiveUpLocked(i) ==
    /\ Goto(i, "table", "after")
    /\ semaphoreCreateOrUpdateDevice # Free
    /\ UNCHANGED <<table, BLEactions, locks, scans, command, procPc, walk, aside, outcome>>

\* "CreateOrUpdate Semaphore NOT taken": the action waits for the next connect.
ImmGiveUp(i) ==
    /\ Goto(i, "table", "after")
    /\ semaphoreCreateOrUpdateDevice # Free
    /\ BTProcessLock' = FALSE
    /\ UNCHANGED <<table, BLEactions, semaphoreBLEOperation,
                   semaphoreCreateOrUpdateDevice, scans, command, procPc, walk,
                   aside, outcome>>

\* Only the newest action and its device remain while BLEconnect runs.
ImmSwap(i) ==
    /\ Goto(i, "table", "call")
    /\ semaphoreCreateOrUpdateDevice = Free
    /\ semaphoreCreateOrUpdateDevice' = i
    /\ BLEactions # <<>>
    /\ aside' = [aside EXCEPT ![i] = [devices |-> devices, actions |-> Butlast]]
    /\ devices' = <<Last.dev>>
    /\ BLEactions' = <<Last>>
    /\ BTProcessLock' = FALSE
    /\ UNCHANGED <<connect, semaphoreBLEOperation, scans, command, procPc, walk, outcome>>

ImmCall(i) ==
    /\ Call(i, "call", "restore")
    /\ UNCHANGED <<table, BLEactions, locks, scans, command, procPc, p, swap, aside, outcome>>

ImmRestore(i) ==
    /\ Goto(i, "restore", "after")
    /\ devices' = aside[i].devices
    /\ BLEactions' = aside[i].actions
    /\ aside' = [aside EXCEPT ![i] = Empty]
    /\ semaphoreCreateOrUpdateDevice' = Free
    /\ UNCHANGED <<connect, BTProcessLock, semaphoreBLEOperation, scans, command,
                   procPc, walk, outcome>>

\* The scheduled connect, when it fell due meanwhile.
ImmAfter(i) ==
    /\ \/ Call(i, "after", "give")
       \/ Goto(i, "after", "give") /\ UNCHANGED <<ret, at>>
    /\ UNCHANGED <<table, BLEactions, locks, scans, command, procPc, p, swap, aside, outcome>>

ImmGive(i) ==
    /\ Goto(i, "give", "done")
    /\ semaphoreBLEOperation' = Free
    /\ UNCHANGED <<table, BLEactions, BTProcessLock, semaphoreCreateOrUpdateDevice,
                   scans, command, procPc, walk, aside, outcome>>

ImmTask(i) == \/ ImmStart(i) \/ ImmBusy(i) \/ ImmTake(i) \/ ImmGiveUp(i)
              \/ ImmSwap(i) \/ ImmCall(i) \/ ImmRestore(i) \/ ImmAfter(i)
              \/ ImmGive(i) \/ Connect(i)

-----------------------------------------------------------------------------

Next ==
    \/ DeviceTake \/ \E d \in Devices : DeviceUpdate(d)
    \/ ForceScan \/ XtoBT \/ XtoBTBusy \/ XtoBTTake \/ XtoBTGive
    \/ \E d \in Devices, ttl \in 1..MaxTtl, immediate \in BOOLEAN :
          Push(d, ttl, immediate)
    \/ CoreTask
    \/ \E i \in Ids : ImmTask(i)

\* Fairness: FreeRTOS keeps running the BLE tasks, a scan and an attempt end.
Spec == Init /\ [][Next]_vars /\ WF_vars(CoreTask) /\ \A i \in Ids : WF_vars(ImmTask(i))

-----------------------------------------------------------------------------
(* Properties                                                              *)

TypeOK ==
    /\ devices \in Seq(Devices)
    /\ connect \subseteq Devices
    /\ BLEactions \in Seq(BLEAction)
    /\ BTProcessLock \in BOOLEAN
    /\ semaphoreBLEOperation \in Connectors \cup {Loop, Free}
    /\ semaphoreCreateOrUpdateDevice \in Ids \cup {Proc, Free}
    /\ forceBTScan \in BOOLEAN
    /\ loopPc \in {"idle", "take", "push", "pushed", "both"}
    /\ procPc \in {"idle", "update"}
    /\ pc \in [Connectors -> Connecting \cup
                   {"none", "idle", "start", "take", "scan", "table", "call",
                    "restore", "after", "give", "rest", "fscan", "done"}]
    /\ ret \in [Connectors -> {"idle", "give", "restore"}]
    /\ at \in [Connectors -> Nat \ {0}]
    /\ p \in [Connectors -> Devices \cup {NoDevice}]
    /\ swap \in [Connectors -> Seq(BLEAction)]
    /\ aside \in [Ids -> Aside]
    /\ asked \in 0..MaxActions
    /\ forced \in 0..MaxForced
    /\ paired \in BOOLEAN
    /\ wanted \in [Ids -> 0..MaxTtl]
    /\ attempts \in [Ids -> Nat]
    /\ answers \in [Ids -> Nat]

\* Whatever path an immediate command takes, its task leaves BTProcessLock clear:
\* "otherwise a transient semaphore-contention failure here leaves
\* BTProcessLock=true and wedges the BLE scanner/connect subsystem until a
\* restart" (gatewayBT.cpp 1709-1711).
LockIsTransient ==
    BTProcessLock => \E i \in Ids : pc[i] \in {"take", "table"}

\* A command gets one answer at most: it is not tried again once a success or
\* its last failure has been published, neither by the task that put it aside,
\* nor by the scheduled connect that follows, nor by a forced scan.  (The tasks
\* of two immediate commands of one message do answer each other's: ImmBusy.)
AnsweredOnce ==
    paired \/ \A i \in Ids : answers[i] <= 1

\* "The ttl parameter is the number of attempts to connect" (ble.md 376): no
\* more attempts than asked for, over all the rounds and all the tasks.
AttemptsBounded ==
    \A i \in Ids : attempts[i] <= wanted[i]

\* The commands that are in BLEactions or put aside.
Held == {k \in Ids : \E j \in DOMAIN BLEactions : BLEactions[j].id = k}
          \cup UNION {{aside[i].actions[j].id : j \in DOMAIN aside[i].actions} : i \in Ids}

\* The task of an immediate command tests BLEactions for a command, waits for two
\* semaphores (1688, 1689), and then takes the newest out (1696): there still is
\* one, although the core task may be in BLEconnect when the task starts.
\* (Not so when one message started two such tasks: ImmBusy takes it out.)
NewestIsThere ==
    paired \/ \A i \in Ids : pc[i] = "table" => BLEactions # <<>>

\* The gateway provides the results of a command in an MQTT message (ble.md 325):
\* a command that was accepted is answered, or still held.
Provided ==
    \A i \in 1..asked : answers[i] > 0 \/ i \in Held

\* "we need to prevent the normal connection action" (gatewayBT.cpp 1681): while
\* an immediate command is carried out, the core task does not connect.
ImmediateAlone ==
    \A i \in Ids : pc[i] \in Connecting \cup {"call", "restore"} =>
                      pc[Core] \notin Connecting

\* Each command has a number of attempts, so a call of BLEconnect ends.
ConnectEnds ==
    \A t \in Connectors : pc[t] = "visit" ~> pc[t] \notin Connecting
=============================================================================
