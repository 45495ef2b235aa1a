------------------------------- MODULE Relay -------------------------------
(***************************************************************************)
(* The ON/OFF actuator (actuatorONOFF.cpp) with everything that switches   *)
(* it: commands and the configuration topic, the button or switch on an    *)
(* input pin (sensorGPIOInput.cpp), the long press that resets the gateway *)
(* (main.cpp 1920-1979), and the tasks that watch the temperature of the   *)
(* ESP32 and the current (sensorRN8209.cpp).                               *)
(*                                                                         *)
(* The loop task serves commands and reads the input; each protection is a *)
(* task of its own.  All of them switch with ActuatorTrigger, which reads  *)
(* the pin, writes its complement, and then records the state.  On two     *)
(* cores the steps of the tasks interleave freely; on one the protections, *)
(* which have the higher priority, run while the loop stands still.        *)
(* TRUE is the level ACTUATOR_ON.  Only the input pin's own noise shorter  *)
(* than the debounce delay is left out.                                    *)
(***************************************************************************)
EXTENDS Naturals

CONSTANTS
    Protections,    \* those built in, of "temperature" and "current"
    Cores,          \* 1 or 2
    Gpios,          \* pins a command may name, the actuator's among them
    ActuatorGpio,   \* ACTUATOR_ONOFF_GPIO
    TriggerLevel,   \* ACTUATOR_BUTTON_TRIGGER_LEVEL as a set: {} for a switch
    MaxInputs,      \* bound: commands, and changes of the input
    MaxBoots        \* bound: power losses and restarts

\* What the constants must be (assumed where they get their values).
RelayAssumption ==
    /\ Protections \subseteq {"temperature", "current"}
    /\ Cores \in {1, 2}
    /\ ActuatorGpio \in Gpios
    /\ TriggerLevel \in SUBSET BOOLEAN
    /\ MaxInputs \in Nat
    /\ MaxBoots \in Nat

Tasks == Protections \cup {"loop"}

VARIABLES
    relay,          \* the level of the actuator's pin
    led,            \* what its LED shows: "on", "off" or "error"
    conf,           \* ONOFFConfig
    nvs,            \* "ONOFFConfig" in flash
    pc, level,      \* per task: where it is in a trigger, the level it writes
    over,           \* per protection: its last reading was over the limit
    high,           \* per protection: what it measures is over the limit
    pin, InputState, settled, armed,    \* the input and its debouncing
    inputs, boots

vars == <<relay, led, conf, nvs, pc, level, over, high, pin, InputState,
          settled, armed, inputs, boots>>

Config == [state : BOOLEAN, useLast : BOOLEAN]
NotStored == [state |-> FALSE, useLast |-> FALSE, stored |-> FALSE]
Stored(c) == [state |-> c.state, useLast |-> c.useLast, stored |-> TRUE]

\* ONOFFConfig_init: relay off, USE_LAST_STATE_ON_RESTART.
ONOFFConfig_init == [state |-> FALSE, useLast |-> TRUE]

\* ONOFFConfig_load, into c; nothing is stored before the first save.
ONOFFConfig_load(c) ==
    IF nvs.stored THEN [state |-> nvs.state, useLast |-> nvs.useLast] ELSE c

Light(on) == IF on THEN "on" ELSE "off"

\* setupONOFF, with flash as it is in the next state: the recorded state, or off.
setupONOFF(c) ==
    /\ conf' = c
    /\ relay' = (c.useLast /\ c.state)
    /\ led' = Light(c.useLast /\ c.state)

Idle == [t \in Tasks |-> "idle"]
Nothing == [t \in Tasks |-> FALSE]
NoneOver == [t \in Protections |-> FALSE]

Init ==
    /\ relay = FALSE /\ led = "off"
    /\ conf = ONOFFConfig_init /\ nvs = NotStored
    /\ pc = Idle /\ level = Nothing
    /\ over = NoneOver /\ high = NoneOver
    /\ pin \in BOOLEAN /\ InputState = "unread" /\ settled = FALSE /\ armed = FALSE
    /\ inputs = 0 /\ boots = 0

\* A protection that is not waiting has the core, if there is only one.
Runs(t) ==
    \/ t # "loop"
    \/ Cores = 2
    \/ \A p \in Protections : pc[p] = "idle"

input == <<pin, InputState, settled, armed, inputs, boots>>

Goto(t, l) == pc' = [pc EXCEPT ![t] = l]

-----------------------------------------------------------------------------
\* ActuatorTrigger, step by step, for whichever task called it.

TriggerRead(t) ==
    /\ Runs(t) /\ pc[t] \in {"trigger", "resetTrigger"}
    /\ level' = [level EXCEPT ![t] = ~relay]
    /\ Goto(t, IF pc[t] = "trigger" THEN "write" ELSE "resetWrite")
    /\ UNCHANGED <<relay, led, conf, nvs, over, high, input>>

TriggerWrite(t) ==
    /\ Runs(t) /\ pc[t] \in {"write", "resetWrite"}
    /\ relay' = level[t]
    /\ led' = Light(level[t])
    /\ Goto(t, IF pc[t] = "resetWrite" THEN "erase"
               ELSE IF conf.useLast THEN "record" ELSE "done")
    /\ UNCHANGED <<conf, nvs, level, over, high, input>>

\* ONOFFConfig_fromJson: the state into ONOFFConfig ...
Record(t) ==
    /\ Runs(t) /\ pc[t] = "record"
    /\ conf' = [conf EXCEPT !.state = level[t]]
    /\ Goto(t, "save")
    /\ UNCHANGED <<relay, led, nvs, level, over, high, input>>

\* ... and ONOFFConfig, whatever another task made of it meanwhile, into flash.
Save(t) ==
    /\ Runs(t) /\ pc[t] = "save"
    /\ nvs' = Stored(conf)
    /\ Goto(t, "done")
    /\ UNCHANGED <<relay, led, conf, level, over, high, input>>

\* A protection shows the error once the trigger has returned.
Done(t) ==
    /\ Runs(t) /\ pc[t] = "done"
    /\ led' = IF t = "loop" THEN led ELSE "error"
    /\ Goto(t, "idle")
    /\ UNCHANGED <<relay, conf, nvs, level, over, high, input>>

-----------------------------------------------------------------------------
\* Mutant of overLimit: it does not look whether the relay is on.
overLimitBlind(t) ==
    /\ pc[t] = "idle"
    /\ high[t] # over[t] \/ high[t]
    /\ over' = [over EXCEPT ![t] = high[t]]
    /\ Goto(t, IF high[t] /\ over[t] THEN "trigger" ELSE "idle")
    /\ UNCHANGED <<relay, led, conf, nvs, level, high, input>>

\* overLimitTemp and overLimitCurrent: two readings in a row over the limit, and
\* the relay is on.
overLimit(t) ==
    /\ pc[t] = "idle"
    /\ high[t] # over[t] \/ (high[t] /\ relay)
    /\ over' = [over EXCEPT ![t] = high[t]]
    /\ Goto(t, IF high[t] /\ over[t] /\ relay THEN "trigger" ELSE "idle")
    /\ UNCHANGED <<relay, led, conf, nvs, level, high, input>>

\* What is measured rises over the limit or falls below it.
Measured(t) ==
    /\ inputs < MaxInputs
    /\ high' = [high EXCEPT ![t] = ~@]
    /\ inputs' = inputs + 1
    /\ UNCHANGED <<relay, led, conf, nvs, pc, level, over, pin, InputState,
                   settled, armed, boots>>

LoopIdle ==
    /\ Runs("loop") /\ pc["loop"] = "idle" /\ inputs < MaxInputs
    /\ inputs' = inputs + 1
    /\ UNCHANGED <<over, high, pin, InputState, settled, armed, boots>>

\* XtoONOFF with 0 or 1: the pin that is named; the LED and the recorded state
\* are the actuator's, whichever pin that is.
Switch(on, gpio) ==
    /\ LoopIdle
    /\ relay' = IF gpio = ActuatorGpio THEN on ELSE relay
    /\ led' = Light(on)
    /\ level' = [level EXCEPT !["loop"] = on]
    /\ Goto("loop", IF conf.useLast THEN "record" ELSE "done")
    /\ UNCHANGED <<conf, nvs>>

\* A pulse: high, a delay, low, or the other way round; nothing is recorded.
PulseStart(high_pulse) ==
    /\ LoopIdle
    /\ relay' = high_pulse
    /\ level' = [level EXCEPT !["loop"] = ~high_pulse]
    /\ Goto("loop", "pulse")
    /\ UNCHANGED <<led, conf, nvs>>

PulseEnd ==
    /\ Runs("loop") /\ pc["loop"] = "pulse"
    /\ relay' = level["loop"]
    /\ Goto("loop", "idle")
    /\ UNCHANGED <<led, conf, nvs, level, over, high, input>>

\* The configuration topic: init or load first, then the parameters, then erase
\* (which prevails when there is something to erase) or save.
Configure(first, useLast, last) ==
    LET c == CASE first = "init" -> ONOFFConfig_init
               [] first = "load" -> ONOFFConfig_load(conf)
               [] OTHER -> conf
        new == [c EXCEPT !.useLast = useLast]
    IN  /\ LoopIdle
        /\ conf' = new
        /\ nvs' = CASE last = "erase" /\ nvs.stored -> NotStored
                    [] last = "save" -> Stored(new)
                    [] OTHER -> nvs
        /\ UNCHANGED <<relay, led, pc, level>>

-----------------------------------------------------------------------------
\* The input changes; its level counts once it has lasted.
InputChanges ==
    /\ inputs < MaxInputs
    /\ pin' = ~pin
    /\ settled' = FALSE
    /\ inputs' = inputs + 1
    /\ UNCHANGED <<relay, led, conf, nvs, pc, level, over, high, InputState,
                   armed, boots>>

Settles ==
    /\ ~settled
    /\ settled' = TRUE
    /\ UNCHANGED <<relay, led, conf, nvs, pc, level, over, high, pin, InputState,
                   armed, inputs, boots>>

Level(b) == IF b THEN "high" ELSE "low"

\* MeasureGPIOInput: a new level triggers the actuator, by the level it had before
\* if ACTUATOR_BUTTON_TRIGGER_LEVEL is defined; a pin that stays low arms the reset.
MeasureGPIOInput ==
    /\ Runs("loop") /\ pc["loop"] = "idle" /\ settled
    /\ armed' = ~pin
    /\ InputState # Level(pin) \/ armed' # armed
    /\ InputState' = Level(pin)
    /\ Goto("loop", IF /\ InputState \notin {"unread", Level(pin)}
                       /\ \/ TriggerLevel = {}
                          \/ \E b \in TriggerLevel : InputState = Level(b)
                    THEN "trigger" ELSE "idle")
    /\ UNCHANGED <<relay, led, conf, nvs, level, over, high, pin, settled, inputs,
                   boots>>

\* Held for three seconds: the relay is switched off if it is on, and ...
ButtonHeld ==
    /\ Runs("loop") /\ pc["loop"] = "idle" /\ settled /\ armed /\ ~pin
    /\ boots < MaxBoots
    /\ Goto("loop", IF relay THEN "resetTrigger" ELSE "erase")
    /\ UNCHANGED <<relay, led, conf, nvs, level, over, high, input>>

Restarted ==
    /\ boots < MaxBoots
    /\ boots' = boots + 1
    /\ pc' = Idle /\ level' = Nothing /\ over' = NoneOver
    /\ InputState' = "unread" /\ settled' = FALSE /\ armed' = FALSE
    /\ UNCHANGED <<high, pin, inputs>>

\* ... eraseConfig erases the flash and restarts.
eraseConfig ==
    /\ Runs("loop") /\ pc["loop"] = "erase"
    /\ nvs' = NotStored
    /\ setupONOFF(ONOFFConfig_init)
    /\ Restarted

PowerLoss ==
    /\ setupONOFF(ONOFFConfig_load(ONOFFConfig_init))
    /\ UNCHANGED nvs
    /\ Restarted

-----------------------------------------------------------------------------
Trigger(t) ==
    TriggerRead(t) \/ TriggerWrite(t) \/ Record(t) \/ Save(t) \/ Done(t)

Command ==
    \/ \E on \in BOOLEAN, gpio \in Gpios : Switch(on, gpio)
    \/ \E high_pulse \in BOOLEAN : PulseStart(high_pulse)
    \/ \E first \in {"init", "load", "none"}, useLast \in BOOLEAN,
          last \in {"erase", "save", "none"} : Configure(first, useLast, last)

Next ==
    \/ \E t \in Tasks : Trigger(t)
    \/ \E t \in Protections : overLimit(t) \/ Measured(t)
    \/ Command
    \/ PulseEnd
    \/ InputChanges
    \/ Settles
    \/ MeasureGPIOInput
    \/ ButtonHeld
    \/ eraseConfig
    \/ PowerLoss

Spec == Init /\ [][Next]_vars

\* The tasks go on: a protection reads again after its delay, and the loop ends
\* what it has begun.
Fairness ==
    /\ \A t \in Protections : WF_vars(overLimit(t) \/ Trigger(t))
    /\ WF_vars(Trigger("loop") \/ PulseEnd \/ eraseConfig)

FairSpec == Spec /\ Fairness

-----------------------------------------------------------------------------
TypeOK ==
    /\ relay \in BOOLEAN
    /\ led \in {"on", "off", "error"}
    /\ conf \in Config
    /\ nvs \in [state : BOOLEAN, useLast : BOOLEAN, stored : BOOLEAN]
    /\ pc \in [Tasks -> {"idle", "trigger", "resetTrigger", "write", "resetWrite",
                         "record", "save", "done", "pulse", "erase"}]
    /\ \A t \in Protections : pc[t] \notin {"pulse", "erase", "resetTrigger", "resetWrite"}
    /\ level \in [Tasks -> BOOLEAN]
    /\ over \in [Protections -> BOOLEAN] /\ high \in [Protections -> BOOLEAN]
    /\ pin \in BOOLEAN /\ settled \in BOOLEAN /\ armed \in BOOLEAN
    /\ InputState \in {"unread", "low", "high"}
    /\ inputs \in 0..MaxInputs /\ boots \in 0..MaxBoots

\* Not so on two cores, nor with two protections on one: "switching OFF Actuator"
\* (actuatorONOFF.cpp 133), a protection toggles the relay and never switches it on.
ProtectionSwitchesOff ==
    [][\A t \in Protections : TriggerWrite(t) => ~relay']_vars

\* When the limit stays exceeded and nobody commands any more, the relay is off at
\* last and stays off, whatever was under way when the protection looked.
EventuallyOff ==
    \A t \in Protections : <>[](high[t]) => <>[](~relay)
=============================================================================
