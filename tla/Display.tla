------------------------------ MODULE Display ------------------------------
(***************************************************************************)
(* What the gateway shows of its documents (webUI.cpp: webUIPubPrint,      *)
(* WebUILoop, the page of the main menu; displaySSD1306.cpp): a document   *)
(* that is dispatched becomes a message of four lines, allocated on the    *)
(* heap and queued; every few seconds one of them becomes the current      *)
(* message of the web page, and a page of the OLED screen.  Everything     *)
(* runs on the loop task.                                                  *)
(*                                                                         *)
(* A message is the rank of its document among those that became one.      *)
(***************************************************************************)
EXTENDS Integers, Sequences, Functions

CONSTANTS
    QueueLength,    \* WebUISetup's xQueueCreate: 5
    MaxMessages,    \* bound: messages built
    LOG_TO_OLED, JSON_TO_OLED

\* What the constants must be (assumed where they get their values).
DisplayAssumption ==
    /\ QueueLength \in Nat \ {0} /\ MaxMessages \in Nat
    /\ LOG_TO_OLED \in BOOLEAN /\ JSON_TO_OLED \in BOOLEAN

VARIABLES
    webUIQueue, currentWebUIMessage,
    heap,           \* messages allocated and not freed
    built,          \* messages built so far
    newSSD1306Message,
    config,         \* displayState, logToOLEDDisplay, jsonDisplay, idlelogo
    saved,          \* SSD1306Config in the flash, or NotSaved
    sink,           \* where the log goes: Log.begin
    screen,         \* what the screen shows: "logo", "log", or a message
    logoDisplayed

displayVars == <<webUIQueue, currentWebUIMessage, heap, built, newSSD1306Message, config,
                 saved, sink, screen, logoDisplayed>>

None == 0           \* currentWebUIMessage == nullptr; the screen shows a logo or logs
Messages == 1..MaxMessages
Configs == [displayState : BOOLEAN, logToOLEDDisplay : BOOLEAN, jsonDisplay : BOOLEAN,
            idlelogo : BOOLEAN]
NotSaved == [displayState |-> "none"]

SSD1306Config_init == [displayState |-> TRUE, logToOLEDDisplay |-> LOG_TO_OLED,
                       jsonDisplay |-> JSON_TO_OLED, idlelogo |-> TRUE]

\* setupSSD1306 decides what is shown by the build, after it has loaded the flash;
\* WebUISetup, later, sends the log to the web console.
Setup(stored) ==
    LET loaded == IF stored = NotSaved THEN SSD1306Config_init ELSE stored
    IN  [loaded EXCEPT !.jsonDisplay = ~LOG_TO_OLED]

Init ==
    /\ webUIQueue = <<>> /\ currentWebUIMessage = None /\ heap = {} /\ built = 0
    /\ newSSD1306Message = FALSE
    /\ config = Setup(NotSaved) /\ saved = NotSaved /\ sink = "web"
    /\ screen = None /\ logoDisplayed = FALSE

screenVars == <<config, saved, sink, screen, logoDisplayed>>

-----------------------------------------------------------------------------
\* xQueueSend without waiting, or the message is freed (mutant: it is not).
SendOrLeak(m) ==
    /\ webUIQueue' = IF Len(webUIQueue) < QueueLength THEN Append(webUIQueue, m) ELSE webUIQueue
    /\ heap' = heap \cup {m}
Send(m) ==
    IF Len(webUIQueue) < QueueLength
    THEN webUIQueue' = Append(webUIQueue, m) /\ heap' = heap \cup {m}
    ELSE UNCHANGED <<webUIQueue, heap>>
Discard == UNCHANGED <<webUIQueue, heap>>

\* By the first word of the topic.  RTL_433 keeps its status to itself; a BLE device is
\* shown if it is not a beacon and has a property to show; other topics are not.
SYStoMQTT(m) == Send(m)
RTL_433toMQTT(m) == Send(m) \/ Discard
CLIMAtoMQTT(m) == Send(m)
BTtoMQTT(m) == Send(m) \/ Discard
RN8209toMQTT(m) == Send(m)
LORAtoMQTT(m) == Send(m)

webUIPubPrint ==
    /\ built < MaxMessages /\ built' = built + 1
    /\ LET m == built + 1
       IN  \/ SYStoMQTT(m) \/ RTL_433toMQTT(m) \/ CLIMAtoMQTT(m) \/ BTtoMQTT(m)
           \/ RN8209toMQTT(m) \/ LORAtoMQTT(m) \/ Discard
    /\ UNCHANGED <<currentWebUIMessage, newSSD1306Message, screenVars>>

\* Every DISPLAY_WEBUI_INTERVAL.
WebUILoop ==
    /\ webUIQueue # <<>> /\ webUIQueue' = Tail(webUIQueue)
    /\ currentWebUIMessage' = Head(webUIQueue)
    /\ heap' = heap \ {currentWebUIMessage}
    /\ newSSD1306Message' = TRUE
    /\ UNCHANGED <<built, screenVars>>

-----------------------------------------------------------------------------
\* Every DISPLAY_PAGE_INTERVAL: a new message, or the logo when there is none.
Page ==
    /\ config.jsonDisplay /\ config.displayState
    /\ currentWebUIMessage # None /\ newSSD1306Message
    /\ screen' = currentWebUIMessage /\ newSSD1306Message' = FALSE /\ logoDisplayed' = FALSE
Logo ==
    /\ ~logoDisplayed /\ config.idlelogo /\ config.displayState
    /\ screen' = None /\ logoDisplayed' = TRUE /\ UNCHANGED newSSD1306Message
loopSSD1306 ==
    /\ Page \/ Logo
    /\ UNCHANGED <<webUIQueue, currentWebUIMessage, heap, built, config, saved, sink>>

\* A line of the log takes the screen, when the log goes there.
write ==
    /\ sink = "oled" /\ screen' = None
    /\ UNCHANGED <<webUIQueue, currentWebUIMessage, heap, built, newSSD1306Message, config,
                   saved, sink, logoDisplayed>>

logToOLED(display) == sink' = IF display THEN "oled" ELSE "serial"

\* XtoSSD1306: the settings of the message, "log-oled" before "json-oled" ...
SetLog(on) ==
    /\ logToOLED(on)
    /\ config' = [config EXCEPT !.logToOLEDDisplay = on,
                                !.jsonDisplay = IF on THEN FALSE ELSE @]
SetJson(on) ==
    /\ IF on THEN logToOLED(FALSE) ELSE UNCHANGED sink
    /\ config' = [config EXCEPT !.jsonDisplay = on,
                                !.logToOLEDDisplay = IF on THEN FALSE ELSE @]
SetScreen(state, logo) ==
    config' = [config EXCEPT !.displayState = state, !.idlelogo = logo] /\ UNCHANGED sink

\* ... then one of save, load, init and erase; loading does not move the log.
Store(c) ==
    \/ saved' = c /\ config' = c
    \/ saved # NotSaved /\ config' = saved /\ UNCHANGED saved
    \/ config' = SSD1306Config_init /\ UNCHANGED saved
    \/ saved' = NotSaved /\ config' = c

XtoSSD1306 ==
    /\ \/ (\/ \E on \in BOOLEAN : SetLog(on) \/ SetJson(on)
           \/ \E state \in BOOLEAN, logo \in BOOLEAN : SetScreen(state, logo))
          /\ UNCHANGED saved
       \/ Store(config) /\ UNCHANGED sink
    /\ UNCHANGED <<webUIQueue, currentWebUIMessage, heap, built, newSSD1306Message, screen,
                   logoDisplayed>>

Restart ==
    /\ webUIQueue' = <<>> /\ currentWebUIMessage' = None /\ heap' = {}
    /\ newSSD1306Message' = FALSE
    /\ config' = Setup(saved) /\ sink' = "web" /\ screen' = None /\ logoDisplayed' = FALSE
    /\ UNCHANGED <<built, saved>>

Next == webUIPubPrint \/ WebUILoop \/ loopSSD1306 \/ write \/ XtoSSD1306 \/ Restart

Spec == Init /\ [][Next]_displayVars

-----------------------------------------------------------------------------
TypeOK ==
    /\ webUIQueue \in Seq(Messages) /\ currentWebUIMessage \in Messages \cup {None}
    /\ heap \subseteq Messages /\ built \in 0..MaxMessages
    /\ newSSD1306Message \in BOOLEAN /\ logoDisplayed \in BOOLEAN
    /\ config \in Configs /\ saved \in Configs \cup {NotSaved}
    /\ sink \in {"web", "serial", "oled"} /\ screen \in Messages \cup {None}

\* The heap holds the messages that are waiting and the current one, each once and in the
\* order of their documents, and nothing else: none is leaked by a full queue, a document
\* that is not shown or a change of what the screen is for, and none is shown after it
\* was freed.
MessagesAccounted ==
    /\ heap = Range(webUIQueue) \cup ({currentWebUIMessage} \ {None})
    /\ \A i \in DOMAIN webUIQueue :
           /\ currentWebUIMessage < webUIQueue[i]
           /\ \A j \in 1..(i - 1) : webUIQueue[j] < webUIQueue[i]
    /\ newSSD1306Message => currentWebUIMessage \in heap
=============================================================================
