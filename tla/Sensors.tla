------------------------------ MODULE Sensors ------------------------------
(***************************************************************************)
(* The wired sensors (sensor*.cpp): when a measurement becomes a document, *)
(* and what is remembered of it to judge the next one by.                  *)
(*                                                                         *)
(* The sensors share no state but the document queue, so a behaviour is    *)
(* about one of them.  A quantity stands for all that a sensor measures at *)
(* a time; a step is a turn in which its interval is over.  The queue is   *)
(* seen from outside: it takes a document or refuses it, and a document    *)
(* without an origin is thrown away when its turn comes (jsonDispatch).    *)
(***************************************************************************)
EXTENDS Integers

CONSTANTS
    Kinds,          \* sensors a behaviour may be about, see Measure
    MaxLevel,       \* bound: quantities are 0..MaxLevel
    Always,         \* bme280_always, htu21_always and so on
    Threshold,      \* ThresholdReadingADC, MinCurrentThreshold
    DebounceDelay,  \* GPIOInputDebounceDelay, in turns
    TOUCH_MIN_DURATION, TOUCH_DEBOUNCE_TIME,    \* in turns
    TouchWrap,      \* where timeStatusChanged, of 16 bits, wraps
    MaxTime         \* bound: turns counted for the touch buttons

Levels == 0..MaxLevel
NaN == -127         \* what a failed reading leaves; also DS1820's "disconnected"
NotRead == -1024    \* persistedadc before the first reading

\* What the constants must be (assumed where they get their values).
SensorsAssumption ==
    /\ MaxLevel \in Nat \ {0} /\ Always \in BOOLEAN /\ Threshold \in Nat
    /\ DebounceDelay \in Nat /\ TOUCH_MIN_DURATION \in Nat
    /\ TOUCH_DEBOUNCE_TIME \in Nat /\ TouchWrap \in Nat \ {0} /\ MaxTime \in Nat

VARIABLES
    kind,           \* the sensor
    level,          \* what there is to measure
    refusing,       \* the queue refuses documents now
    persisted,      \* what the next reading is compared with
    previous,       \* previousInputState, or DS1820's conversion; see TypeOK
    count,          \* turns an input has been stable, a button touched
    now, changed,   \* turns; timeStatusChanged of a touch button
    ready_to_sleep,
    reading,        \* history: the last reading that counts, or NotRead
    told,           \* history: what was last published, 0 before
    owed            \* history: a document was refused, none was taken since

sensorVars == <<kind, level, refusing, persisted, previous, count, now, changed,
                ready_to_sleep, reading, told, owed>>

Binary == {"HCSR501", "GPIOKeyCode", "GPIOInput", "Touch"}

Init ==
    /\ kind \in Kinds
    /\ level = 0 /\ refusing = FALSE
    /\ persisted = CASE kind = "ADC" -> NotRead [] kind = "GPIOInput" -> 3 [] OTHER -> 0
    /\ previous = CASE kind = "DS1820" -> NotRead [] kind = "GPIOInput" -> 3 [] OTHER -> 0
    /\ count = 0 /\ now = 0 /\ changed = 0
    /\ ready_to_sleep = FALSE
    /\ reading = NotRead /\ told = 0 /\ owed = FALSE

-----------------------------------------------------------------------------
\* enqueueJsonObject with a value.
Send(v) == /\ told' = IF refusing THEN told ELSE v
           /\ owed' = refusing
NoSend == UNCHANGED <<told, owed>>

\* "Same value, don't send it": every reading is the one to compare with next.
OnChange(v) ==
    /\ IF v # persisted \/ Always THEN Send(v) ELSE NoSend
    /\ persisted' = v /\ reading' = v

\* A failed reading leaves something, or nothing new, to compare with.
Fails(left) == persisted' = left /\ UNCHANGED reading /\ NoSend
FailsKept == Fails(persisted)

Simple == UNCHANGED <<previous, count, now, changed>>
Awake == UNCHANGED ready_to_sleep

BME280 == (OnChange(level) \/ Fails(NaN)) /\ Simple /\ Awake
HTU21 == (OnChange(level) \/ Fails(NaN) \/ FailsKept) /\ Simple /\ Awake
AHTx0 == (OnChange(level) \/ Fails(NaN) \/ FailsKept) /\ Simple /\ Awake
SHTC3 == (OnChange(level) \/ Fails(NaN) \/ FailsKept) /\ Simple /\ Awake
LM75 == (OnChange(level) \/ Fails(NaN) \/ FailsKept) /\ Simple /\ Awake
DHT == (OnChange(level) \/ Fails(NaN)) /\ Simple /\ Awake

\* After a failed reading the variables that are persisted were never set.
BH1750 == (OnChange(level) \/ \E v \in Levels : Fails(v)) /\ Simple /\ Awake

\* No light at all counts as clipping.
TSL2561 == (IF level = 0 THEN FailsKept ELSE OnChange(level)) /\ Simple /\ Awake

\* Kept as an integer: a fraction differs from it and is sent again.
TEMT6000 == /\ OnChange(level) \/ (Send(level) /\ persisted' = level /\ reading' = level)
            /\ Simple /\ Awake

\* No water (1): all good, the gateway may sleep.
C37_YL83_HMRD ==
    /\ OnChange(level) /\ Simple
    /\ ready_to_sleep' = (ready_to_sleep \/ (level = 1 /\ (level # persisted \/ Always)))

\* A conversion is triggered some time before the temperature is read.
DS1820 ==
    /\ IF previous = NotRead
       THEN previous' = level /\ UNCHANGED <<persisted, reading>> /\ NoSend /\ Awake
       ELSE /\ previous' = NotRead
            /\ \/ Fails(NaN) /\ Awake
               \/ /\ OnChange(previous)
                  /\ ready_to_sleep' = (ready_to_sleep \/ previous # persisted \/ Always)
    /\ UNCHANGED <<count, now, changed>>

EveryTime(v) == Send(v) /\ reading' = v /\ UNCHANGED persisted /\ Simple /\ Awake
MQ2 == EveryTime(level)
\* A bus error reads as 0.
INA226 == EveryTime(level) \/ EveryTime(0)
\* The document has no origin.
HCSR04 == persisted' = level /\ reading' = level /\ NoSend /\ Simple /\ Awake

Differs(v, by) == v >= persisted + by \/ v <= persisted - by
\* Mutant of ADC: compared with the reading before instead.
ADCDrifts == /\ IF Differs(level, Threshold) THEN Send(level) ELSE NoSend
             /\ persisted' = level /\ reading' = level /\ Simple /\ Awake

\* Sent when it differs enough from what was sent before, or was sent long ago (the
\* second disjunct needs no more than time to pass).
ADC ==
    /\ \/ Send(level) /\ persisted' = level
       \/ ~Differs(level, Threshold) /\ NoSend /\ UNCHANGED persisted
    /\ reading' = level /\ Simple /\ Awake

\* rn8209_loop: previousCurrent stays when the current cannot be read; nothing is sent,
\* and the reading does not count, while ProcessLock is set.
RN8209 ==
    /\ \/ Send(level) /\ persisted' = level /\ reading' = level
       \/ ~Differs(level, Threshold + 1) /\ NoSend /\ reading' = level /\ UNCHANGED persisted
       \/ FailsKept
    /\ Simple /\ Awake

-----------------------------------------------------------------------------
\* Inputs of two levels.

HCSR501 == OnChange(level) /\ Simple /\ Awake

\* Published at once, not through the queue.
GPIOKeyCode == /\ persisted' = level /\ reading' = level
               /\ told' = (IF level # persisted THEN level ELSE told) /\ UNCHANGED owed
               /\ Simple /\ Awake

\* Once the input has been stable: the document tells InputState, which is assigned
\* after that; at the first reading, when it is 3, the document is empty.
MeasureGPIOInput ==
    /\ previous' = level
    /\ count' = IF level # previous THEN 0 ELSE IF count > DebounceDelay THEN count ELSE count + 1
    /\ IF count' > DebounceDelay /\ level # persisted
       THEN /\ IF persisted = 3 THEN NoSend ELSE Send(persisted)
            /\ persisted' = level /\ reading' = level
       ELSE NoSend /\ UNCHANGED <<persisted, reading>>
    /\ UNCHANGED <<now, changed>> /\ Awake

\* A release is a fifth member of a document with room for four: its origin is lost.
MeasureTouch ==
    LET on == level # 0
        held == IF on THEN count + 1 ELSE 0
        turns == (persisted # 0 /\ ~on) \/ (persisted = 0 /\ on /\ held >= TOUCH_MIN_DURATION)
        isStatusChanged == turns /\ now - changed > TOUCH_DEBOUNCE_TIME
    IN  /\ now < MaxTime /\ now' = now + 1
        /\ count' = IF held > TOUCH_MIN_DURATION THEN TOUCH_MIN_DURATION ELSE held
        /\ IF isStatusChanged
           THEN /\ persisted' = level /\ reading' = level
                /\ changed' = now % TouchWrap
                /\ IF on THEN Send(level) ELSE NoSend
           ELSE NoSend /\ UNCHANGED <<persisted, reading, changed>>
        /\ UNCHANGED previous /\ Awake

-----------------------------------------------------------------------------
Measure ==
    \/ kind = "BME280" /\ BME280
    \/ kind = "HTU21" /\ HTU21
    \/ kind = "AHTx0" /\ AHTx0
    \/ kind = "SHTC3" /\ SHTC3
    \/ kind = "LM75" /\ LM75
    \/ kind = "DHT" /\ DHT
    \/ kind = "BH1750" /\ BH1750
    \/ kind = "TSL2561" /\ TSL2561
    \/ kind = "TEMT6000" /\ TEMT6000
    \/ kind = "C37" /\ C37_YL83_HMRD
    \/ kind = "DS1820" /\ DS1820
    \/ kind = "MQ2" /\ MQ2
    \/ kind = "INA226" /\ INA226
    \/ kind = "HCSR04" /\ HCSR04
    \/ kind = "ADC" /\ ADC
    \/ kind = "RN8209" /\ RN8209
    \/ kind = "HCSR501" /\ HCSR501
    \/ kind = "GPIOKeyCode" /\ GPIOKeyCode
    \/ kind = "GPIOInput" /\ MeasureGPIOInput
    \/ kind = "Touch" /\ MeasureTouch

\* The world: the quantity and the queue.
Changes ==
    /\ level' \in IF kind \in Binary THEN {0, 1} ELSE Levels
    /\ refusing' \in BOOLEAN
    /\ UNCHANGED <<kind, persisted, previous, count, now, changed, ready_to_sleep, reading,
                   told, owed>>

Next == (Measure /\ UNCHANGED <<kind, level, refusing>>) \/ Changes

Spec == Init /\ [][Next]_sensorVars

-----------------------------------------------------------------------------
TypeOK ==
    /\ kind \in Kinds /\ level \in Levels /\ refusing \in BOOLEAN
    /\ persisted \in Levels \cup {NaN, NotRead, 3}
    /\ previous \in Levels \cup {NotRead, 3}
    /\ count \in 0..(DebounceDelay + TOUCH_MIN_DURATION + 1)
    /\ now \in 0..MaxTime /\ changed \in 0..MaxTime
    /\ ready_to_sleep \in BOOLEAN
    /\ reading \in Levels \cup {NotRead} /\ told \in Levels \cup {NotRead}
    /\ owed \in BOOLEAN

\* How far what was published may be from what was read.
Tolerance ==
    CASE kind = "ADC" /\ Threshold # 0 -> Threshold - 1
      [] kind = "RN8209" -> Threshold
      [] OTHER -> 0

\* A failed reading of the BH1750 may match the next; the HCSR04's document has no origin;
\* the GPIO input tells the state before; a release of a touch button has no origin.
Untold == {"BH1750", "HCSR04", "GPIOInput", "Touch"}

\* Unless the queue refused its document, what any other sensor has read last is what was
\* published last, or as close as its threshold says (ADC, RN8209), however many
\* readings went unpublished in between; nothing published counts as 0.
Reported ==
    kind \notin Untold /\ reading # NotRead /\ ~owed =>
        told <= reading + Tolerance /\ told >= reading - Tolerance
=============================================================================
