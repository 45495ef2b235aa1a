------------------------------ MODULE MsgQueue ------------------------------
(***************************************************************************)
(* The document queue at the centre of the gateway (main.cpp).             *)
(*                                                                         *)
(* Every module hands its JSON documents to enqueueJsonObject; some run on *)
(* the Arduino loop task, others (BLE processing, energy meter, relay      *)
(* protection, BluFi commands) on FreeRTOS tasks of their own.  The loop   *)
(* task alone drains the queue: one document per turn, handed to           *)
(* jsonDispatch, which publishes it.  xQueueMutex guards the std::queue;   *)
(* the admission test reads queueLength, a copy of the length the loop     *)
(* refreshes at each drain, without the mutex.  ESPRestart publishes its   *)
(* reason directly, empties the queue without the mutex, and reboots.      *)
(*                                                                         *)
(* The statistics counters (receivedMessages, blockedMessages,             *)
(* queueLengthSum, maxQueueLength) are only reported, never tested, and    *)
(* are left out.                                                           *)
(***************************************************************************)
EXTENDS Integers, Sequences, FiniteSets

CONSTANTS
    Producers,    \* tasks, other than the loop, that enqueue documents
    Loop,         \* the Arduino loop task: it drains, and enqueues too
    Restarters,   \* the tasks that may call ESPRestart
    QueueSize,    \* User_config.h: length from which documents are refused
    TornSizes,    \* what size() may return when it races with a push
    NoTask,       \* "the mutex is free"
    NoDoc,        \* "no document"
    MaxDocs,      \* bound: MaxDocs[t] is how many documents t makes
    MaxBoots      \* bound: reboots

Tasks == Producers \cup {Loop}

ASSUME QueueAssumption ==
    /\ Loop \notin Producers
    /\ NoTask \notin Tasks
    /\ Restarters \subseteq Tasks
    /\ QueueSize \in Nat \ {0}
    /\ TornSizes \subseteq Int
    /\ MaxDocs \in [Tasks -> Nat]
    /\ MaxBoots \in Nat

\* "bad": does not deserialize (too large for the drain's buffer); "nokey": has
\* neither origin nor topic; "good": publishable.
Kinds == {"bad", "nokey", "good"}

\* A document: the task that made it, its rank among that task's documents.
Doc == UNION {[src : {t}, n : 1..MaxDocs[t], kind : Kinds] : t \in Tasks}

ASSUME NoDocAssumption == NoDoc \notin Doc

\* The states of the gateway the queue's code reads or writes.
GatewayStates == {"NTWK_CONNECTED", "BROKER_CONNECTED", "BROKER_DISCONNECTED",
                  "PROCESSING", "ERROR"}

VARIABLES
    jsonQueue,      \* std::queue<std::string> jsonQueue
    queueLength,    \* the length seen by the last drain, -1 before the first
    xQueueMutex,    \* the task holding it, or NoTask
    pc,             \* where each task is
    arg,            \* arg[t]: the document t is enqueuing, or NoDoc
    hand,           \* the document the loop popped and has not finished with
    gatewayState,
    previousState,  \* jsonDispatch's saved copy of gatewayState, or "none"
    boots,          \* reboots so far
    made,           \* history: documents each task has made, over all boots
    sent,           \* history: documents published, over all boots
    exact           \* history: queueLength was the true length when it was read

vars == <<jsonQueue, queueLength, xQueueMutex, pc, arg, hand, gatewayState,
          previousState, boots, made, sent, exact>>

Enqueuing == {"take", "push"}                \* enqueueJsonObject, before the push
Draining  == {"dtake", "dpop", "dgive", "dispatch", "publish"}
Locked    == {"push", "give", "dpop", "dgive"}
Pcs       == {"idle", "clean", "give"} \cup Enqueuing \cup Draining

Init ==
    /\ jsonQueue = <<>>
    /\ queueLength = -1
    /\ xQueueMutex = NoTask
    /\ pc = [t \in Tasks |-> "idle"]
    /\ arg = [t \in Tasks |-> NoDoc]
    /\ hand = NoDoc
    /\ gatewayState = "NTWK_CONNECTED"
    /\ previousState = "none"
    /\ boots = 0
    /\ made = [t \in Tasks |-> 0]
    /\ sent = <<>>
    /\ exact = TRUE

Goto(t, from, to) ==
    /\ pc[t] = from
    /\ pc' = [pc EXCEPT ![t] = to]

-----------------------------------------------------------------------------
(* enqueueJsonObject, on any task                                          *)

\* "Empty JSON, skipping": nothing is queued and the caller is told `true`.
EnqueueEmpty(t) ==
    /\ pc[t] = "idle"
    /\ gatewayState' = "ERROR"
    /\ UNCHANGED <<jsonQueue, queueLength, xQueueMutex, pc, arg, hand,
                   previousState, boots, made, sent, exact>>

\* "Doc(s) in queue, doc blocked": decided on the cached length.
EnqueueBlocked(t) ==
    /\ pc[t] = "idle"
    /\ made[t] < MaxDocs[t]
    /\ queueLength >= QueueSize
    /\ made' = [made EXCEPT ![t] = @ + 1]
    /\ UNCHANGED <<jsonQueue, queueLength, xQueueMutex, pc, arg, hand,
                   gatewayState, previousState, boots, sent, exact>>

\* Mutant of EnqueueAdmit: off by one, a queue of QueueSize still admits.
EnqueueAdmitOneMore(t, kind) ==
    /\ Goto(t, "idle", "take")
    /\ made[t] < MaxDocs[t]
    /\ queueLength <= QueueSize
    /\ made' = [made EXCEPT ![t] = @ + 1]
    /\ arg' = [arg EXCEPT ![t] = [src |-> t, n |-> made[t] + 1, kind |-> kind]]
    /\ UNCHANGED <<jsonQueue, queueLength, xQueueMutex, hand, gatewayState,
                   previousState, boots, sent, exact>>

EnqueueAdmit(t, kind) ==
    /\ Goto(t, "idle", "take")
    /\ made[t] < MaxDocs[t]
    /\ queueLength < QueueSize
    /\ made' = [made EXCEPT ![t] = @ + 1]
    /\ arg' = [arg EXCEPT ![t] = [src |-> t, n |-> made[t] + 1, kind |-> kind]]
    /\ UNCHANGED <<jsonQueue, queueLength, xQueueMutex, hand, gatewayState,
                   previousState, boots, sent, exact>>

\* Mutant of EnqueueTake: the push does not wait for the mutex.
EnqueueTakeUnlocked(t) ==
    /\ Goto(t, "take", "push")
    /\ xQueueMutex' = t
    /\ UNCHANGED <<jsonQueue, queueLength, arg, hand, gatewayState,
                   previousState, boots, made, sent, exact>>

EnqueueTake(t) ==
    /\ Goto(t, "take", "push")
    /\ xQueueMutex = NoTask
    /\ xQueueMutex' = t
    /\ UNCHANGED <<jsonQueue, queueLength, arg, hand, gatewayState,
                   previousState, boots, made, sent, exact>>

\* The timeout can only run out while another task holds the mutex.
EnqueueTimeout(t) ==
    /\ Goto(t, "take", "idle")
    /\ xQueueMutex # NoTask
    /\ gatewayState' = "ERROR"
    /\ arg' = [arg EXCEPT ![t] = NoDoc]
    /\ UNCHANGED <<jsonQueue, queueLength, xQueueMutex, hand, previousState,
                   boots, made, sent, exact>>

\* Mutant of EnqueuePush: the newest document overtakes the others.
EnqueuePushFront(t) ==
    /\ Goto(t, "push", "give")
    /\ jsonQueue' = <<arg[t]>> \o jsonQueue
    /\ arg' = [arg EXCEPT ![t] = NoDoc]
    /\ UNCHANGED <<queueLength, xQueueMutex, hand, gatewayState, previousState,
                   boots, made, sent, exact>>

EnqueuePush(t) ==
    /\ Goto(t, "push", "give")
    /\ jsonQueue' = Append(jsonQueue, arg[t])
    /\ arg' = [arg EXCEPT ![t] = NoDoc]
    /\ UNCHANGED <<queueLength, xQueueMutex, hand, gatewayState, previousState,
                   boots, made, sent, exact>>

EnqueueGive(t) ==
    /\ Goto(t, "give", "idle")
    /\ xQueueMutex' = NoTask
    /\ UNCHANGED <<jsonQueue, queueLength, arg, hand, gatewayState,
                   previousState, boots, made, sent, exact>>

-----------------------------------------------------------------------------
(* emptyQueue and jsonDispatch, on the loop task                           *)

\* size() is read without the mutex: next to a push it may return anything.
SizeReads ==
    {Len(jsonQueue)} \cup (IF \E p \in Producers : pc[p] = "push"
                           THEN TornSizes ELSE {})

\* Mutant of DrainSize: off by one, the drain goes on with an empty queue.
DrainSizeZero ==
    \E size \in SizeReads :
        /\ Goto(Loop, "idle", IF size < 0 THEN "idle" ELSE "dtake")
        /\ queueLength' = size
        /\ exact' = (size = Len(jsonQueue))
        /\ UNCHANGED <<jsonQueue, xQueueMutex, arg, hand, gatewayState,
                       previousState, boots, made, sent>>

\* Mutant of DrainSize: off by one the other way, the last document stays.
DrainSizeOne ==
    \E size \in SizeReads :
        /\ Goto(Loop, "idle", IF size <= 1 THEN "idle" ELSE "dtake")
        /\ queueLength' = size
        /\ exact' = (size = Len(jsonQueue))
        /\ UNCHANGED <<jsonQueue, xQueueMutex, arg, hand, gatewayState,
                       previousState, boots, made, sent>>

DrainSize ==
    \E size \in SizeReads :
        /\ Goto(Loop, "idle", IF size <= 0 THEN "idle" ELSE "dtake")
        /\ queueLength' = size
        /\ exact' = (size = Len(jsonQueue))
        /\ UNCHANGED <<jsonQueue, xQueueMutex, arg, hand, gatewayState,
                       previousState, boots, made, sent>>

DrainTake ==
    /\ Goto(Loop, "dtake", "dpop")
    /\ xQueueMutex = NoTask
    /\ xQueueMutex' = Loop
    /\ UNCHANGED <<jsonQueue, queueLength, arg, hand, gatewayState,
                   previousState, boots, made, sent, exact>>

DrainTimeout ==
    /\ Goto(Loop, "dtake", "idle")
    /\ xQueueMutex # NoTask
    /\ gatewayState' = "ERROR"
    /\ UNCHANGED <<jsonQueue, queueLength, xQueueMutex, arg, hand,
                   previousState, boots, made, sent, exact>>

\* Mutant of DrainPop: front() without pop().
DrainPopFrontOnly ==
    /\ Goto(Loop, "dpop", "dgive")
    /\ jsonQueue # <<>>
    /\ hand' = Head(jsonQueue)
    /\ UNCHANGED <<jsonQueue, queueLength, xQueueMutex, arg, gatewayState,
                   previousState, boots, made, sent, exact>>

\* front() and pop(): undefined on an empty queue, hence the guard; that the
\* code never gets here with an empty queue is DrainNeverUnderflows.
DrainPop ==
    /\ Goto(Loop, "dpop", "dgive")
    /\ jsonQueue # <<>>
    /\ hand' = Head(jsonQueue)
    /\ jsonQueue' = Tail(jsonQueue)
    /\ UNCHANGED <<queueLength, xQueueMutex, arg, gatewayState, previousState,
                   boots, made, sent, exact>>

\* Mutant of DrainGiveBad: returns with the unparsed document still in hand.
DrainGiveBadKept ==
    /\ Goto(Loop, "dgive", "idle")
    /\ hand.kind = "bad"
    /\ xQueueMutex' = NoTask
    /\ gatewayState' = "ERROR"
    /\ UNCHANGED <<jsonQueue, queueLength, arg, hand, previousState,
                   boots, made, sent, exact>>

\* A document that does not parse is reported and lost.
DrainGiveBad ==
    /\ Goto(Loop, "dgive", "idle")
    /\ hand.kind = "bad"
    /\ xQueueMutex' = NoTask
    /\ gatewayState' = "ERROR"
    /\ hand' = NoDoc
    /\ UNCHANGED <<jsonQueue, queueLength, arg, previousState,
                   boots, made, sent, exact>>

DrainGive ==
    /\ Goto(Loop, "dgive", "dispatch")
    /\ hand.kind # "bad"
    /\ xQueueMutex' = NoTask
    /\ UNCHANGED <<jsonQueue, queueLength, arg, hand, gatewayState,
                   previousState, boots, made, sent, exact>>

\* jsonDispatch: "No origin or topic in JSON filtered".
DispatchFiltered ==
    /\ Goto(Loop, "dispatch", "idle")
    /\ hand.kind = "nokey"
    /\ gatewayState' = "ERROR"
    /\ hand' = NoDoc
    /\ UNCHANGED <<jsonQueue, queueLength, xQueueMutex, arg, previousState,
                   boots, made, sent, exact>>

DispatchBegin ==
    /\ Goto(Loop, "dispatch", "publish")
    /\ hand.kind # "nokey"
    /\ previousState' = gatewayState
    /\ gatewayState' = "PROCESSING"
    /\ UNCHANGED <<jsonQueue, queueLength, xQueueMutex, arg, hand, boots, made, sent, exact>>

\* Mutant of DispatchEnd: a failed publish returns before the state is restored.
DispatchEndEarly(ok) ==
    /\ Goto(Loop, "publish", "idle")
    /\ sent' = IF ok THEN Append(sent, hand) ELSE sent
    /\ hand' = NoDoc
    /\ gatewayState' = IF ok THEN previousState ELSE gatewayState
    /\ previousState' = "none"
    /\ UNCHANGED <<jsonQueue, queueLength, xQueueMutex, arg, boots, made, exact>>

\* ok: the document reached the broker (SYSConfig.mqtt, online, connected,
\* xMqttMutex taken, written) or the serial link; otherwise it is gone.
\* Whatever gatewayState became meanwhile is overwritten by the saved value.
DispatchEnd(ok) ==
    /\ Goto(Loop, "publish", "idle")
    /\ sent' = IF ok THEN Append(sent, hand) ELSE sent
    /\ hand' = NoDoc
    /\ gatewayState' = previousState
    /\ previousState' = "none"
    /\ UNCHANGED <<jsonQueue, queueLength, xQueueMutex, arg, boots, made, exact>>

-----------------------------------------------------------------------------
(* The broker's callbacks run inside mqtt->loop(), that is on the loop     *)
(* task between two drains; of what they do only the state they show       *)
(* matters here.                                                           *)

ConnectionCallback(state) ==
    /\ pc[Loop] = "idle"
    /\ gatewayState' = state
    /\ UNCHANGED <<jsonQueue, queueLength, xQueueMutex, pc, arg, hand,
                   previousState, boots, made, sent, exact>>

-----------------------------------------------------------------------------
(* ESPRestart: the reason is published directly, then the queue is emptied *)
(* pop by pop, without the mutex, and the chip restarts.                   *)

RestartBegin(t) ==
    /\ boots < MaxBoots
    /\ Goto(t, "idle", "clean")
    /\ UNCHANGED <<jsonQueue, queueLength, xQueueMutex, arg, hand, gatewayState,
                   previousState, boots, made, sent, exact>>

RestartPop(t) ==
    /\ pc[t] = "clean"
    /\ jsonQueue # <<>>
    /\ jsonQueue' = Tail(jsonQueue)
    /\ UNCHANGED <<queueLength, xQueueMutex, pc, arg, hand, gatewayState,
                   previousState, boots, made, sent, exact>>

Reboot(t) ==
    /\ pc[t] = "clean"
    /\ jsonQueue = <<>>
    /\ boots' = boots + 1
    /\ queueLength' = -1
    /\ xQueueMutex' = NoTask
    /\ pc' = [u \in Tasks |-> "idle"]
    /\ arg' = [u \in Tasks |-> NoDoc]
    /\ hand' = NoDoc
    /\ gatewayState' = "NTWK_CONNECTED"
    /\ previousState' = "none"
    /\ exact' = TRUE
    /\ UNCHANGED <<jsonQueue, made, sent>>

-----------------------------------------------------------------------------

Drain == \/ DrainSize \/ DrainTake \/ DrainTimeout \/ DrainPop \/ DrainGiveBad
         \/ DrainGive \/ DispatchFiltered \/ DispatchBegin
         \/ \E ok \in BOOLEAN : DispatchEnd(ok)

Callbacks == \E state \in {"BROKER_CONNECTED", "BROKER_DISCONNECTED"} :
                ConnectionCallback(state)

Next ==
    \/ \E t \in Tasks :
          \/ EnqueueEmpty(t) \/ EnqueueBlocked(t)
          \/ \E kind \in Kinds : EnqueueAdmit(t, kind)
          \/ EnqueueTake(t) \/ EnqueueTimeout(t)
          \/ EnqueuePush(t) \/ EnqueueGive(t)
    \/ Drain
    \/ Callbacks
    \/ \E t \in Restarters : RestartBegin(t) \/ RestartPop(t) \/ Reboot(t)

Spec == Init /\ [][Next]_vars

(***************************************************************************)
(* Fairness.  FreeRTOS keeps running a task that is not blocked, so a task *)
(* that is inside enqueueJsonObject goes on, and loop() calls emptyQueue   *)
(* on every turn.  The mutex is held for a push or a pop only, much less   *)
(* than the 3 s the drain waits for it, so a drain cannot lose the race    *)
(* for ever: strong fairness.  No task is obliged to make documents.       *)
(***************************************************************************)
Fairness ==
    /\ \A t \in Tasks : /\ WF_vars(EnqueueTake(t) \/ EnqueueTimeout(t))
                        /\ WF_vars(EnqueuePush(t)) /\ WF_vars(EnqueueGive(t))
    /\ WF_vars(DrainSize) /\ SF_vars(DrainTake) /\ WF_vars(DrainPop)
    /\ WF_vars(DrainGive \/ DrainGiveBad)
    /\ WF_vars(DispatchFiltered \/ DispatchBegin)
    /\ WF_vars(\E ok \in BOOLEAN : DispatchEnd(ok))
    /\ \A t \in Restarters : WF_vars(RestartPop(t)) /\ WF_vars(Reboot(t))

FairSpec == Spec /\ Fairness

-----------------------------------------------------------------------------
(* Properties                                                              *)

\* Types, and which task holds a document where.
TypeOK ==
    /\ jsonQueue \in Seq(Doc)
    /\ queueLength \in Int
    /\ xQueueMutex \in Tasks \cup {NoTask}
    /\ pc \in [Tasks -> Pcs]
    /\ \A p \in Producers : pc[p] \notin Draining
    /\ arg \in [Tasks -> Doc \cup {NoDoc}]
    /\ \A t \in Tasks : arg[t] # NoDoc <=> pc[t] \in Enqueuing
    /\ hand \in Doc \cup {NoDoc}
    /\ hand # NoDoc <=> pc[Loop] \in {"dgive", "dispatch", "publish"}
    /\ gatewayState \in GatewayStates
    /\ previousState \in GatewayStates \cup {"none"}
    /\ previousState # "none" <=> pc[Loop] = "publish"
    /\ boots \in Nat
    /\ made \in [Tasks -> Nat]
    /\ \A t \in Tasks : made[t] <= MaxDocs[t]
    /\ sent \in Seq(Doc)
    /\ exact \in BOOLEAN

\* The push of one task never overlaps another task's push or the drain's
\* front()/pop(): each happens only under xQueueMutex (main.cpp 467-476,
\* 560-569), and the mutex is never left locked by a task that moved on.
QueueProtected ==
    \A t \in Tasks : pc[t] \in Locked <=> xQueueMutex = t

\* emptyQueue decides on a length it read without the mutex, gives other tasks
\* all the time until it has the mutex, and then calls front() and pop():
\* there is still a document then, because nobody else removes any (549-567).
DrainNeverUnderflows ==
    pc[Loop] = "dpop" => jsonQueue # <<>>

\* s lists each task's documents in the order it made them, none twice.
InOrder(s) ==
    \A i, j \in DOMAIN s : i < j /\ s[i].src = s[j].src => s[i].n < s[j].n

Precede(s, d) == \A i \in DOMAIN s : s[i].src = d.src => s[i].n < d.n

\* What reaches the broker is, task by task, in the order the documents were
\* made, each at most once, across drains that fail, time-outs and reboots.
PublishedInOrder == InOrder(sent)

\* The admission test reads a stale length.  Once a drain has seen the queue
\* full, the documents still let in are those of the tasks already past the
\* test: the overshoot is at most one document per producing task.
Overshoot ==
    queueLength >= QueueSize /\ exact =>
        Len(jsonQueue) + Cardinality({t \in Tasks : pc[t] \in Enqueuing})
            <= queueLength + Cardinality(Producers)

\* jsonDispatch saves gatewayState and restores it although other tasks write
\* it meanwhile; even so the gateway is never left showing PROCESSING once the
\* dispatch is over (419-441).
ProcessingIsTransient ==
    pc[Loop] # "publish" => gatewayState # "PROCESSING"

\* ESPRestart pops the queue without the mutex (1837-1839): the pops must not
\* overlap a push or a drain.  They can: see the run queue_restart.
RestartAlone ==
    \A t, u \in Tasks : pc[t] = "clean" => pc[u] \notin {"push", "dpop"}

InQueue(t, k) ==
    \E i \in DOMAIN jsonQueue : jsonQueue[i].src = t /\ jsonQueue[i].n = k

\* Every document that is in the queue leaves it again: no combination of
\* time-outs, parse errors and link losses stops the drain for good.
Drained ==
    \A t \in Tasks : \A k \in 1..MaxDocs[t] : InQueue(t, k) ~> ~InQueue(t, k)

\* The queue as main.cpp implements it keeps the promise of Outbox: FIFO,
\* at most once, and documents are thrown away unsent only by a restart or
\* from the dispatcher's hand.
Promise == INSTANCE Outbox WITH
    pending <- jsonQueue,
    inHand <- hand,
    restarting <- (\E t \in Tasks : pc[t] = "clean")

KeepsPromise == Promise!Spec
=============================================================================
