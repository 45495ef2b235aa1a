------------------------------- MODULE Lights -------------------------------
(***************************************************************************)
(* The lights: PWM channels that fade to their targets (actuatorPWM.cpp)   *)
(* and a strip of LEDs that blink or play an animation                     *)
(* (actuatorFASTLED.cpp).  Messages and both loops run on the loop task.   *)
(*                                                                         *)
(* A PWM value is an integer in a perceptually linear scale; calibration,  *)
(* which maps it to a duty cycle, is applied while a fade runs.  A message *)
(* for an LED the strip does not have is left out.                         *)
(***************************************************************************)
EXTENDS Integers

CONSTANTS
    Channels, Leds,
    MaxValue,       \* full brightness
    Fades,          \* lengths of "fade", 0 without one
    Colors,
    MaxTime         \* bound: PWMLoop's clock

\* What the constants must be (assumed where they get their values).
LightsAssumption ==
    MaxValue \in Nat \ {0} /\ Fades \subseteq Nat /\ MaxTime \in Nat

Values == 0..MaxValue
Black == "black"
Shown == Colors \cup {Black, "flame"}

VARIABLES
    currentValues, fadeStartValues, targetValues,
    fadeStartUpdateTime, fadeEndUpdateTime, fadeIsComplete,
    currentUpdateTime,
    calibration,    \* "changed" since the outputs were last written, or "written"
    currentLEDState, leds, ledColorBlink, blinkLED, step

pwmVars == <<currentValues, fadeStartValues, targetValues, fadeStartUpdateTime,
             fadeEndUpdateTime, fadeIsComplete, currentUpdateTime, calibration>>
ledVars == <<currentLEDState, leds, ledColorBlink, blinkLED, step>>
lightVars == <<pwmVars, ledVars>>

Init ==
    /\ currentValues = [c \in Channels |-> 0] /\ fadeStartValues = currentValues
    /\ targetValues = currentValues
    /\ fadeStartUpdateTime = currentValues /\ fadeEndUpdateTime = currentValues
    /\ fadeIsComplete = FALSE /\ currentUpdateTime = 0 /\ calibration = "written"
    /\ currentLEDState = "OFF" /\ leds = [l \in Leds |-> Black] /\ ledColorBlink = leds
    /\ blinkLED = [l \in Leds |-> FALSE] /\ step = 0

-----------------------------------------------------------------------------
\* Where a channel's fade stands at a time.
FadeOver(c, time) == time >= fadeEndUpdateTime[c]
Faded(c, time) ==
    fadeStartValues[c] + ((targetValues[c] - fadeStartValues[c]) * (time - fadeStartUpdateTime[c]))
                         \div (fadeEndUpdateTime[c] - fadeStartUpdateTime[c])

PWMLoop ==
    LET now == currentUpdateTime'
    IN  /\ currentUpdateTime' \in {currentUpdateTime, currentUpdateTime + 1} \cap 0..MaxTime
        /\ IF fadeIsComplete THEN UNCHANGED <<currentValues, fadeIsComplete, calibration>>
           ELSE /\ currentValues' = [c \in Channels |->
                       IF FadeOver(c, now) THEN targetValues[c] ELSE Faded(c, now)]
                /\ fadeIsComplete' = \A c \in Channels : FadeOver(c, now)
                /\ calibration' = "written"
        /\ UNCHANGED <<fadeStartValues, targetValues, fadeStartUpdateTime, fadeEndUpdateTime>>

\* Mutants of XtoPWMset: a completed fade is not resumed; a fade starts where the one
\* before it had started.
XtoPWMsetIdle(modified, target, fade) ==
    /\ fadeStartValues' = currentValues
    /\ targetValues' = [c \in Channels |-> IF c \in modified THEN target ELSE targetValues[c]]
    /\ fadeStartUpdateTime' = [c \in Channels |->
           IF c \in modified THEN currentUpdateTime ELSE fadeStartUpdateTime[c]]
    /\ fadeEndUpdateTime' = [c \in Channels |->
           IF c \in modified THEN currentUpdateTime + fade ELSE fadeEndUpdateTime[c]]
    /\ UNCHANGED <<currentValues, fadeIsComplete, currentUpdateTime, calibration>>
XtoPWMsetOldStart(modified, target, fade) ==
    /\ targetValues' = [c \in Channels |-> IF c \in modified THEN target ELSE targetValues[c]]
    /\ fadeStartUpdateTime' = [c \in Channels |->
           IF c \in modified THEN currentUpdateTime ELSE fadeStartUpdateTime[c]]
    /\ fadeEndUpdateTime' = [c \in Channels |->
           IF c \in modified THEN currentUpdateTime + fade ELSE fadeEndUpdateTime[c]]
    /\ fadeIsComplete' = FALSE
    /\ UNCHANGED <<currentValues, fadeStartValues, currentUpdateTime, calibration>>

\* A fade under way in a channel the message does not name starts from where it is, at
\* the time it had started.
XtoPWMset(modified, target, fade) ==
    /\ fadeStartValues' = currentValues
    /\ targetValues' = [c \in Channels |-> IF c \in modified THEN target ELSE targetValues[c]]
    /\ fadeStartUpdateTime' = [c \in Channels |->
           IF c \in modified THEN currentUpdateTime ELSE fadeStartUpdateTime[c]]
    /\ fadeEndUpdateTime' = [c \in Channels |->
           IF c \in modified THEN currentUpdateTime + fade ELSE fadeEndUpdateTime[c]]
    /\ fadeIsComplete' = FALSE
    /\ UNCHANGED <<currentValues, currentUpdateTime, calibration>>

\* It does not have the outputs written.
XtoPWMcalibrate ==
    /\ calibration' = "changed"
    /\ UNCHANGED <<currentValues, fadeStartValues, targetValues, fadeStartUpdateTime,
                   fadeEndUpdateTime, fadeIsComplete, currentUpdateTime>>

-----------------------------------------------------------------------------
\* When a half of the blink interval, or several, are over; the colour is kept when an
\* LED goes dark, be it dark already.
Blink ==
    /\ leds' = [l \in Leds |-> IF ~blinkLED[l] THEN leds[l]
                               ELSE IF step' = 0 THEN ledColorBlink[l] ELSE Black]
    /\ ledColorBlink' = [l \in Leds |-> IF blinkLED[l] /\ step' = 1 THEN leds[l]
                                        ELSE ledColorBlink[l]]

FASTLEDLoop ==
    /\ step' \in {0, 1}
    /\ \/ currentLEDState = "GENERAL" /\ Blink
       \/ currentLEDState = "GENERAL" /\ step' = step /\ UNCHANGED <<leds, ledColorBlink>>
       \/ currentLEDState = "FIRE" /\ leds' = [l \in Leds |-> "flame"]
          /\ UNCHANGED ledColorBlink
       \/ currentLEDState # "GENERAL" /\ UNCHANGED <<leds, ledColorBlink>>
    /\ UNCHANGED <<currentLEDState, blinkLED>>

\* The JSON topic; another one leaves the LEDs as they are, and the state GENERAL.
setled(l, color, blink) ==
    /\ currentLEDState' = "GENERAL"
    /\ blinkLED' = [blinkLED EXCEPT ![l] = blink] /\ leds' = [leds EXCEPT ![l] = color]
    /\ UNCHANGED <<ledColorBlink, step>>

\* The plain topics: a colour for all, a brightness, an animation or darkness.
XtoFASTLED ==
    /\ \/ currentLEDState' = "GENERAL" /\ \E color \in Colors : leds' = [l \in Leds |-> color]
       \/ currentLEDState' = "GENERAL" /\ UNCHANGED leds
       \/ currentLEDState' = "FIRE" /\ UNCHANGED leds
       \/ currentLEDState' = "OFF" /\ leds' = [l \in Leds |-> Black]
    /\ UNCHANGED <<ledColorBlink, blinkLED, step>>

-----------------------------------------------------------------------------
PWMNext ==
    \/ PWMLoop \/ XtoPWMcalibrate
    \/ \E modified \in SUBSET Channels, target \in Values, fade \in Fades :
           XtoPWMset(modified, target, fade)
StripNext ==
    \/ FASTLEDLoop \/ XtoFASTLED
    \/ \E l \in Leds, color \in Colors, blink \in BOOLEAN : setled(l, color, blink)

Next == (PWMNext /\ UNCHANGED ledVars) \/ (StripNext /\ UNCHANGED pwmVars)

Spec == Init /\ [][Next]_lightVars

-----------------------------------------------------------------------------
TypeOK ==
    /\ currentValues \in [Channels -> Values] /\ fadeStartValues \in [Channels -> Values]
    /\ targetValues \in [Channels -> Values]
    /\ fadeIsComplete \in BOOLEAN /\ currentUpdateTime \in 0..MaxTime
    /\ calibration \in {"changed", "written"}
    /\ currentLEDState \in {"OFF", "FIRE", "GENERAL"}
    /\ leds \in [Leds -> Shown] /\ ledColorBlink \in [Leds -> Shown]
    /\ blinkLED \in [Leds -> BOOLEAN] /\ step \in {0, 1}

Distance(a, b) == IF a > b THEN a - b ELSE b - a

\* A channel goes for its target and stops there: no step takes it further away, a
\* message for other channels in the middle of its fade included, and the loop rests
\* only when every channel has arrived.
FadesTowardsTarget ==
    /\ \A c \in Channels : Distance(currentValues'[c], targetValues'[c])
                           <= Distance(currentValues[c], targetValues'[c])
    /\ fadeIsComplete' => currentValues' = targetValues'
NeverAway == [][FadesTowardsTarget]_lightVars
=============================================================================
