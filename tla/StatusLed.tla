----------------------------- MODULE StatusLed -----------------------------
(***************************************************************************)
(* The status LEDs: the task that turns changes of gatewayState into       *)
(* requests (main.cpp 1263-1343) and the LED manager that carries them out *)
(* (lib/LEDManager): a lasting mode, or a blink of a few periods after     *)
(* which the request that came meanwhile, or the mode before, follows.     *)
(*                                                                         *)
(* gatewayState is written by the loop and by other tasks between any two  *)
(* steps of the LED task.  Every update is one in which the blink interval *)
(* has elapsed; the others do nothing.  Modes no caller asks for (PULSE, a *)
(* STATIC of limited duration) and the brightness are left out.            *)
(***************************************************************************)
EXTENDS Integers

CONSTANTS
    LEDs,           \* indices of the LEDs of the board's strip
    LedOf,          \* the index each state is shown with (LED_ERROR, ...)
    Blufi,          \* whether the loop reports changes over BluFi (2681)
    Written,        \* the states other tasks and the loop write meanwhile
    MaxChanges      \* bound: writes of gatewayState

\* The states that are shown until the next one, and how.
Lasting == [
    WAITING_ONBOARDING    |-> [mode |-> "STATIC", color |-> "orange"],
    ONBOARDING            |-> [mode |-> "STATIC", color |-> "yellow"],
    NTWK_CONNECTED        |-> [mode |-> "STATIC", color |-> "green"],
    BROKER_CONNECTED      |-> [mode |-> "STATIC", color |-> "green"],
    NTWK_DISCONNECTED     |-> [mode |-> "BLINK",  color |-> "orange"],
    BROKER_DISCONNECTED   |-> [mode |-> "BLINK",  color |-> "orange"],
    OFFLINE               |-> [mode |-> "BLINK",  color |-> "blue"],
    LOCAL_OTA_IN_PROGRESS |-> [mode |-> "BLINK",  color |-> "magenta"],
    REMOTE_OTA_IN_PROGRESS|-> [mode |-> "BLINK",  color |-> "purple"],
    SLEEPING              |-> [mode |-> "OFF",    color |-> "black"] ]

\* Those that blink three times.
Passing == [ PROCESSING |-> "blue", ERROR |-> "red" ]

States == DOMAIN Lasting \cup DOMAIN Passing

\* What the constants must be (assumed where they get their values).
StatusLedAssumption ==
    /\ LedOf \in [States -> LEDs]
    /\ Blufi \in BOOLEAN
    /\ Written \subseteq States \ {"PROCESSING"}
    /\ MaxChanges \in Nat

\* What updateAndHandleLEDsTask asks of the manager for a state.
Request(s) ==
    IF s \in DOMAIN Passing
    THEN [mode |-> "BLINK", color |-> Passing[s], count |-> 3]
    ELSE [mode |-> Lasting[s].mode, color |-> Lasting[s].color, count |-> -1]

VARIABLES
    gatewayState, previousGatewayState,
    saved,          \* the local copy of jsonDispatch while it publishes, or "none"
    ledPc,          \* where the LED task is
    ledStates,      \* per LED: mode, color, count, previous, counter, on, queue
    lit,            \* per LED: the color its hardware shows
    asked,          \* per LED: the state it was last asked to show
    changes

ledVars == <<gatewayState, previousGatewayState, saved, ledPc, ledStates, lit,
             asked, changes>>

None == [mode |-> "none", color |-> "black", count |-> 0]
Off == [mode |-> "OFF", color |-> "black"]

Applied(r, previous) ==
    [mode |-> r.mode, color |-> r.color, count |-> r.count,
     previous |-> previous, counter |-> 0, on |-> FALSE, queue |-> None]

Init ==
    /\ gatewayState = "WAITING_ONBOARDING" /\ previousGatewayState = "WAITING_ONBOARDING"
    /\ saved = "none"
    /\ ledPc = "compare"
    /\ ledStates = [l \in LEDs |-> Applied([mode |-> "OFF", color |-> "black",
                                           count |-> 0], Off)]
    /\ lit = [l \in LEDs |-> "black"]
    /\ asked = [l \in LEDs |-> "none"]
    /\ changes = 0

-----------------------------------------------------------------------------
\* The loop, a callback or another task writes a state.
StateChanges(s) ==
    /\ changes < MaxChanges
    /\ gatewayState' = s
    /\ changes' = changes + 1
    /\ UNCHANGED <<previousGatewayState, saved, ledPc, ledStates, lit, asked>>

\* jsonDispatch shows PROCESSING while it publishes, and restores what it found.
Dispatch ==
    /\ saved = "none" /\ changes < MaxChanges
    /\ saved' = gatewayState
    /\ gatewayState' = "PROCESSING"
    /\ changes' = changes + 1
    /\ UNCHANGED <<previousGatewayState, ledPc, ledStates, lit, asked>>

Dispatched ==
    /\ saved # "none"
    /\ gatewayState' = saved
    /\ saved' = "none"
    /\ UNCHANGED <<previousGatewayState, ledPc, ledStates, lit, asked, changes>>

\* With USE_BLUFI the loop takes note of a change in the LED task's own variable.
BlufiReports ==
    /\ Blufi /\ gatewayState # previousGatewayState
    /\ previousGatewayState' = gatewayState
    /\ UNCHANGED <<gatewayState, saved, ledPc, ledStates, lit, asked, changes>>

-----------------------------------------------------------------------------
\* Mutant of setModeForSingleLED: a request that comes while an LED blinks is lost.
setModeUnlessBlinking(st, r) ==
    IF st.mode = "BLINK" /\ st.count > 0 THEN st
    ELSE Applied(r, IF r.mode = "BLINK" THEN st.previous
                    ELSE [mode |-> st.mode, color |-> st.color])

\* setModeForSingleLED: a blink of limited length goes on, and the request waits
\* in the one place there is; a blink does not count as the mode to return to.
setModeForSingleLED(st, r) ==
    IF st.mode = "BLINK" /\ st.count > 0 THEN [st EXCEPT !.queue = r]
    ELSE Applied(r, IF r.mode = "BLINK" THEN st.previous
                    ELSE [mode |-> st.mode, color |-> st.color])

returnToPreviousState(st) ==
    Applied([mode |-> st.previous.mode, color |-> st.previous.color, count |-> -1],
            st.previous)

applyQueuedState(st) == Applied(st.queue, st.previous)

\* handleBlink: twice the number of periods are counted down.
handleBlink(st) ==
    LET next == IF st.count <= 0 THEN 1
                ELSE IF st.counter = 0 THEN st.count * 2 ELSE st.counter - 1
    IN  IF next = 0
        THEN IF st.queue # None THEN applyQueuedState(st)
             ELSE returnToPreviousState(st)
        ELSE [st EXCEPT !.counter = IF st.count > 0 THEN next ELSE @, !.on = ~@]

\* The color the update leaves on the LED; the end of a blink leaves it alone.
Color(l) ==
    LET st == ledStates[l]
    IN  CASE st.mode = "OFF" -> "black"
          [] st.mode = "STATIC" -> st.color
          [] st.mode = "BLINK" /\ st.count > 0 /\ st.counter = 1 -> lit[l]
          [] OTHER -> IF st.on THEN "black" ELSE st.color

Compare ==
    /\ ledPc = "compare"
    /\ ledPc' = IF previousGatewayState # gatewayState THEN "switch" ELSE "update"
    /\ UNCHANGED <<gatewayState, previousGatewayState, saved, ledStates, lit, asked,
                   changes>>

\* The state is read again for the switch; SLEEPING turns every LED off.
Switch ==
    LET shown == IF gatewayState = "SLEEPING" THEN LEDs ELSE {LedOf[gatewayState]}
    IN  /\ ledPc = "switch"
        /\ ledStates' = [l \in LEDs |->
                IF l \in shown
                THEN setModeForSingleLED(ledStates[l], Request(gatewayState))
                ELSE ledStates[l]]
        /\ asked' = [l \in LEDs |-> IF l \in shown THEN gatewayState ELSE asked[l]]
        /\ ledPc' = "store"
        /\ UNCHANGED <<gatewayState, previousGatewayState, saved, lit, changes>>

\* And a third time to be remembered.
Store ==
    /\ ledPc = "store"
    /\ previousGatewayState' = gatewayState
    /\ ledPc' = "update"
    /\ UNCHANGED <<gatewayState, saved, ledStates, lit, asked, changes>>

update ==
    /\ ledPc = "update"
    /\ ledStates' = [l \in LEDs |-> IF ledStates[l].mode = "BLINK"
                                    THEN handleBlink(ledStates[l]) ELSE ledStates[l]]
    /\ lit' = [l \in LEDs |-> Color(l)]
    /\ ledPc' = "compare"
    /\ UNCHANGED <<gatewayState, previousGatewayState, saved, asked, changes>>

-----------------------------------------------------------------------------
updateAndHandleLEDsTask == Compare \/ Switch \/ Store \/ update

LedNext ==
    \/ \E s \in Written : StateChanges(s)
    \/ Dispatch
    \/ Dispatched
    \/ BlufiReports
    \/ updateAndHandleLEDsTask

LedSpec ==
    /\ Init /\ [][LedNext]_ledVars
    /\ WF_ledVars(updateAndHandleLEDsTask)
    /\ WF_ledVars(Dispatched) /\ WF_ledVars(BlufiReports)

-----------------------------------------------------------------------------
LedModes == {"OFF", "STATIC", "BLINK", "none"}
LedColors == {"black", "orange", "yellow", "green", "blue", "magenta", "purple", "red"}
Requests == [mode : LedModes, color : LedColors, count : {-1, 0, 3}]

TypeOK ==
    /\ gatewayState \in States /\ previousGatewayState \in States
    /\ saved \in States \cup {"none"}
    /\ ledPc \in {"compare", "switch", "store", "update"}
    /\ \A l \in LEDs :
        LET st == ledStates[l]
        IN  /\ [mode |-> st.mode, color |-> st.color, count |-> st.count] \in Requests
            /\ st.queue \in Requests
            /\ st.counter \in 0..6 /\ st.on \in BOOLEAN
    /\ asked \in [LEDs -> States \cup {"none"}]
    /\ changes \in 0..MaxChanges

Shows(l, s) ==
    /\ ledStates[l].mode = Lasting[s].mode
    /\ ledStates[l].color = Lasting[s].color

\* A request is never lost: the LED shows the last one, or blinks a few times for one
\* before it while the last one waits.
RequestKept ==
    \A l \in LEDs, s \in DOMAIN Lasting :
        asked[l] = s =>
            IF ledStates[l].mode = "BLINK" /\ ledStates[l].count > 0
            THEN ledStates[l].queue = Request(s)
            ELSE Shows(l, s)

\* The last request is carried out at last, however many blinks are in its way.
RequestCarriedOut ==
    \A l \in LEDs, s \in DOMAIN Lasting :
        <>[](asked[l] = s) => <>[]Shows(l, s)

\* Not so when a state comes between two of its three readings: a state that stays is
\* the one the LED shows (docs/use/gateway.md).
LedFollowsState ==
    \A s \in DOMAIN Lasting :
        <>[](gatewayState = s) => <>[]Shows(LedOf[s], s)
=============================================================================
