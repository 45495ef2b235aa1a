------------------------------ MODULE Platform ------------------------------
(***************************************************************************)
(* The supervision of the gateway and the components that switch, show and *)
(* serve: the ON/OFF actuator, the status LEDs, the lights, the wired      *)
(* sensors, the display, and the console and the forms of the web          *)
(* interface.  They share no variables: a behaviour is one of a single     *)
(* component, and the others rest in an initial state.                     *)
(***************************************************************************)
EXTENDS Supervisor

CONSTANTS
    Units           \* the components a behaviour may be about

\* Relay; MaxSwitches bounds commands and changes of the input
CONSTANTS Protections, Cores, Gpios, ActuatorGpio, TriggerLevel, MaxSwitches, MaxBoots

\* StatusLed
CONSTANTS LEDs, LedOf, Blufi, Written, MaxChanges

\* Lights; MaxFadeTime bounds PWMLoop's clock
CONSTANTS Channels, Leds, MaxValue, Fades, Colors, MaxFadeTime

\* Sensors; MaxTurns bounds the turns counted for the touch buttons
CONSTANTS Kinds, MaxLevel, Always, Threshold, DebounceDelay, TOUCH_MIN_DURATION,
          TOUCH_DEBOUNCE_TIME, TouchWrap, MaxTurns

\* Display
CONSTANTS QueueLength, MaxMessages, LOG_TO_OLED, JSON_TO_OLED

\* WebConsole
CONSTANTS Tabs, LastIndex, LOG_BUFFER_SIZE, Sizes, OtherTasks, MaxLines, MaxPauses

\* WebForms; MaxEdits bounds what users and commands change
CONSTANTS Pages, Texts, Options, First, Passwords, MaxEdits

VARIABLES relay, led, conf, relayNvs, pc, relayLevel, over, high, pin, InputState, settled,
          armed, relayInputs, boots

VARIABLES shownState, previousGatewayState, whileDispatched, ledPc, ledStates, lit, asked,
          changes

VARIABLES currentValues, fadeStartValues, targetValues, fadeStartUpdateTime,
          fadeEndUpdateTime, fadeIsComplete, currentUpdateTime, calibration,
          currentLEDState, leds, ledColorBlink, blinkLED, step

VARIABLES kind, level, refusing, persisted, previousInput, count, now, changed,
          maySleep, reading, told, owed

VARIABLES webUIQueue, currentWebUIMessage, heap, built, newSSD1306Message, config, saved,
          sink, screen, logoDisplayed

VARIABLES allocated, log_buffer, log_buffer_pointer, reset_web_log_flag, tab, poll, lines,
          pauses

VARIABLES page, live, stored, shown, form, touched, restarted, formInputs

VARIABLE unit       \* the component the behaviour is about

Actuator == INSTANCE Relay WITH
    MaxInputs <- MaxSwitches, nvs <- relayNvs, level <- relayLevel, inputs <- relayInputs
Led == INSTANCE StatusLed WITH gatewayState <- shownState, saved <- whileDispatched
Light == INSTANCE Lights WITH MaxTime <- MaxFadeTime
Sensor == INSTANCE Sensors WITH
    MaxTime <- MaxTurns, previous <- previousInput, ready_to_sleep <- maySleep
Screen == INSTANCE Display
Console == INSTANCE WebConsole
Forms == INSTANCE WebForms WITH MaxInputs <- MaxEdits, inputs <- formInputs

ASSUME PlatformConstants ==
    /\ Actuator!RelayAssumption /\ Led!StatusLedAssumption /\ Light!LightsAssumption
    /\ Sensor!SensorsAssumption /\ Screen!DisplayAssumption
    /\ Console!WebConsoleAssumption /\ Forms!WebFormsAssumption

actuator == <<relay, led, conf, relayNvs, pc, relayLevel, over, high, pin, InputState,
              settled, armed, relayInputs, boots>>
status == <<shownState, previousGatewayState, whileDispatched, ledPc, ledStates, lit, asked,
            changes>>
pwm == <<currentValues, fadeStartValues, targetValues, fadeStartUpdateTime,
         fadeEndUpdateTime, fadeIsComplete, currentUpdateTime, calibration>>
strip == <<currentLEDState, leds, ledColorBlink, blinkLED, step>>
sensor == <<kind, level, refusing, persisted, previousInput, count, now, changed, maySleep,
            reading, told, owed>>
display == <<webUIQueue, currentWebUIMessage, heap, built, newSSD1306Message, config, saved,
             sink, screen, logoDisplayed>>
console == <<allocated, log_buffer, log_buffer_pointer, reset_web_log_flag, tab, poll, lines,
             pauses>>
forms == <<page, live, stored, shown, form, touched, restarted, formInputs>>
platformVars == <<unit, vars, actuator, status, pwm, strip, sensor, display, console, forms>>

PlatformInit ==
    /\ unit \in Units
    /\ Init /\ Actuator!Init /\ Led!Init /\ Light!Init /\ Sensor!Init /\ Screen!Init
    /\ Console!Init /\ Forms!Init
    /\ unit # "supervisor" => credentials = "none" /\ ap /\ server
    /\ unit # "actuator" => pin
    /\ unit # "sensor" => kind = CHOOSE k \in Kinds : TRUE
    /\ unit # "forms" => page = (CHOOSE p \in Pages : TRUE) /\ live.box /\ live.pass = ""

PlatformNext ==
    \/ /\ unit = "supervisor" /\ Next
       /\ UNCHANGED <<unit, actuator, status, pwm, strip, sensor, display, console, forms>>
    \/ /\ unit = "actuator" /\ Actuator!Next
       /\ UNCHANGED <<unit, vars, status, pwm, strip, sensor, display, console, forms>>
    \/ /\ unit = "led" /\ Led!LedNext
       /\ UNCHANGED <<unit, vars, actuator, pwm, strip, sensor, display, console, forms>>
    \/ /\ unit = "pwm" /\ Light!PWMNext
       /\ UNCHANGED <<unit, vars, actuator, status, strip, sensor, display, console, forms>>
    \/ /\ unit = "strip" /\ Light!StripNext
       /\ UNCHANGED <<unit, vars, actuator, status, pwm, sensor, display, console, forms>>
    \/ /\ unit = "sensor" /\ Sensor!Next
       /\ UNCHANGED <<unit, vars, actuator, status, pwm, strip, display, console, forms>>
    \/ /\ unit = "display" /\ Screen!Next
       /\ UNCHANGED <<unit, vars, actuator, status, pwm, strip, sensor, console, forms>>
    \/ /\ unit = "console" /\ Console!Next
       /\ UNCHANGED <<unit, vars, actuator, status, pwm, strip, sensor, display, forms>>
    \/ /\ unit = "forms" /\ Forms!Next
       /\ UNCHANGED <<unit, vars, actuator, status, pwm, strip, sensor, display, console>>

\* The fairness of the components, each for its own behaviours.
PlatformFairness ==
    /\ WF_vars(unit = "supervisor" /\ Boot) /\ WF_vars(unit = "supervisor" /\ loop)
    /\ WF_vars(unit = "supervisor" /\ XtoSYSwifiDone)
    /\ WF_vars(unit = "supervisor" /\ PortalTimesOut)
    /\ SF_vars(unit = "supervisor" /\ Onboarded)
    /\ \A t \in Protections :
           WF_actuator(unit = "actuator" /\ (Actuator!overLimit(t) \/ Actuator!Trigger(t)))
    /\ WF_actuator(unit = "actuator" /\ (Actuator!Trigger("loop") \/ Actuator!PulseEnd
                                         \/ Actuator!eraseConfig))
    /\ WF_status(unit = "led" /\ Led!updateAndHandleLEDsTask)
    /\ WF_status(unit = "led" /\ Led!Dispatched)

PlatformSpec == PlatformInit /\ [][PlatformNext]_platformVars /\ PlatformFairness

-----------------------------------------------------------------------------
\* The variables of every component have their types.
TypesOK ==
    /\ TypeOK /\ Actuator!TypeOK /\ Led!TypeOK /\ Light!TypeOK /\ Sensor!TypeOK
    /\ Screen!TypeOK /\ Console!TypeOK /\ Forms!TypeOK

\* main.cpp, loop and setup: a gateway whose network and broker answer serves again.
GatewayServes == unit = "supervisor" => ServesAgain

\* actuatorONOFF: whatever is over its limit, and stays so, switches the relay off.
EventuallyOff == Actuator!EventuallyOff

\* LEDManager: the last request is carried out, however many blinks come before it.
RequestCarriedOut == Led!RequestCarriedOut

\* LEDManager: a lasting request is shown, or waits behind the blinks that are shown.
RequestKept == Led!RequestKept

\* actuatorPWM: a channel fades towards its target, and stops there.
NeverAway == Light!NeverAway

\* sensor*.cpp: what was published last is what was read last.
LastReadingTold == Sensor!Reported

\* webUI, displaySSD1306: no message for the screen is lost on the heap.
MessagesAccounted == Screen!MessagesAccounted

\* webUI: no line of the log is skipped between two polls of a page.
NothingSkipped == Console!NothingSkipped

\* webUI: a form that is saved as it was shown changes nothing.
SavingUnchangedIsHarmless == Forms!SavingUnchangedIsHarmless
=============================================================================
