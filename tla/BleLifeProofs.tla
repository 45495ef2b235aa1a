--------------------------- MODULE BleLifeProofs ---------------------------
(***************************************************************************)
(* Theorems about BleLife: the type invariant and the two properties of    *)
(* the intervals, for any values a message may carry and any bounds.  The  *)
(* assumption LongEnough is needed: an interval that is shorter than       *)
(* MinTimeBtwScan, in a message that also carries adaptivescan true, lets  *)
(* the adaptive scan bring back MinTimeBtwScan between scans and not       *)
(* between active ones.                                                    *)
(***************************************************************************)
EXTENDS BleLife, TLAPS

\* Intervals that are 0 (not set) or no shorter than the adaptive scan's.
LongEnough ==
    /\ \A i \in Intervals : i = 0 \/ i >= MinTimeBtwScan
    /\ TimeBtwRead >= MinTimeBtwScan

\* What a message, or the stored configuration, holds for the intervals.
Length == {0} \cup {i \in Nat : i >= MinTimeBtwScan}
Readable(m) ==
    /\ m.enabled \in Opt(BOOLEAN) /\ m.adaptivescan \in Opt(BOOLEAN)
    /\ m.hasspresence \in Opt(BOOLEAN)
    /\ m.interval \in Opt(Length) /\ m.intervalacts \in Opt(Length)

\* A configuration whose intervals are in order, and no shorter than the shortest.
Ordered(c) ==
    /\ c \in Config
    /\ c.BLEinterval >= MinTimeBtwScan /\ c.BLEinterval <= c.intervalActiveScan

\* The inductive invariant.
IInv ==
    /\ TypeOK
    /\ Ordered(BTConfig)
    /\ nvs.stored => Ordered(nvs.config)
    /\ loaded => nvs.stored /\ BTConfig = nvs.config

-----------------------------------------------------------------------------
\* The value of a key is the one it holds, or the old one.
LEMMA ValueOfKey ==
    ASSUME NEW S, NEW key \in Opt(S), NEW old
    PROVE  \/ key = {} /\ Value(key, old) = old
           \/ key # {} /\ Value(key, old) \in S
<1>1. CASE key = {}
  BY <1>1 DEF Value
<1>2. CASE key # {}
  <2>1. PICK v \in S : key = {v}
    BY <1>2 DEF Opt
  <2> QED
    BY <1>2, <2>1 DEF Value
<1> QED
  BY <1>1, <1>2

\* A command's message can be read, and still can once it is completed.
LEMMA CommandReadable ==
    ASSUME BleLifeAssumption, LongEnough, NEW m \in Messages
    PROVE  Readable(m)
BY DEF BleLifeAssumption, LongEnough, Messages, Readable, Length, Opt

LEMMA CompletedReadable ==
    ASSUME BleLifeAssumption, LongEnough, NEW m \in Messages, NEW c, Ordered(c)
    PROVE  Readable(Completed(c, m))
<1> DEFINE p == IF Changes(m.hasspresence, c.presenceEnable)
                THEN [m EXCEPT !.adaptivescan = {c.presenceEnable}] ELSE m
<1>1. p \in Messages
  <2>1. {c.presenceEnable} \in Opt(BOOLEAN)
    BY DEF Ordered, Config, Opt
  <2> QED
    BY <2>1 DEF Messages
<1>2. Readable(p)
  BY <1>1, CommandReadable
<1>3. /\ {MinTimeBtwScan} \in Opt(Length) /\ {TimeBtwRead} \in Opt(Length)
      /\ {TimeBtwActive} \in Opt(Length)
  BY DEF Opt, Length, BleLifeAssumption, LongEnough
<1> DEFINE short == [p EXCEPT !.interval = {MinTimeBtwScan}, !.intervalacts = {MinTimeBtwScan}]
           long == [p EXCEPT !.interval = {TimeBtwRead}, !.intervalacts = {TimeBtwActive}]
<1>4. Readable(short) /\ Readable(long)
  BY <1>1, <1>2, <1>3 DEF Readable, Messages
<1>5. Completed(c, m) \in {p, short, long}
  BY DEF Completed
<1> QED
  BY <1>2, <1>4, <1>5

-----------------------------------------------------------------------------
\* Either interval of a message leaves the intervals in order ...
LEMMA SetIntervalOrdered ==
    ASSUME BleLifeAssumption, NEW c, Ordered(c), NEW interval \in Opt(Length)
    PROVE  Ordered(SetInterval(c, interval))
<1> DEFINE i == Value(interval, 0)
<1>1. i = 0 \/ (i \in Nat /\ i >= MinTimeBtwScan)
  BY ValueOfKey DEF Length
<1>2. CASE i = 0
  BY <1>2 DEF SetInterval
<1>3. CASE i # 0
  <2> DEFINE acts == IF c.intervalActiveScan < i THEN i ELSE c.intervalActiveScan
             new == [c EXCEPT !.adaptiveScan = FALSE, !.BLEinterval = i,
                              !.intervalActiveScan = acts]
  <2>1. i \in Nat /\ i >= MinTimeBtwScan
    BY <1>1, <1>3
  <2>2. SetInterval(c, interval) = new
    BY <1>3 DEF SetInterval
  <2>3. c.intervalActiveScan \in Nat /\ c \in Config
    BY DEF Ordered, Config
  <2>4. acts \in Nat /\ i <= acts
    BY <2>1, <2>3
  <2> HIDE DEF acts, i
  <2>5. new \in Config /\ new.BLEinterval = i /\ new.intervalActiveScan = acts
    BY <2>1, <2>3, <2>4 DEF Config
  <2> QED
    BY <2>1, <2>2, <2>4, <2>5 DEF Ordered
<1> QED
  BY <1>2, <1>3

LEMMA SetActiveOrdered ==
    ASSUME BleLifeAssumption, NEW c, Ordered(c), NEW intervalacts \in Opt(Length)
    PROVE  Ordered(SetActive(c, intervalacts))
<1> DEFINE i == Value(intervalacts, c.intervalActiveScan)
<1>1. \/ intervalacts = {} /\ i = c.intervalActiveScan
      \/ intervalacts # {} /\ i \in Nat
  BY ValueOfKey DEF Length
<1>2. CASE intervalacts # {} /\ i < c.BLEinterval
  <2>1. SetActive(c, intervalacts)
          = [c EXCEPT !.adaptiveScan = FALSE, !.intervalActiveScan = c.BLEinterval]
    BY <1>2 DEF SetActive
  <2>2. c \in Config /\ c.BLEinterval \in Nat /\ c.BLEinterval >= MinTimeBtwScan
    BY DEF Ordered, Config
  <2> DEFINE new == [c EXCEPT !.adaptiveScan = FALSE, !.intervalActiveScan = c.BLEinterval]
  <2>3. /\ new \in Config /\ new.BLEinterval = c.BLEinterval
        /\ new.intervalActiveScan = c.BLEinterval
    BY <2>2 DEF Config
  <2> QED
    BY <2>1, <2>2, <2>3 DEF Ordered
<1>3. CASE ~(intervalacts # {} /\ i < c.BLEinterval)
  <2>1. SetActive(c, intervalacts) = [c EXCEPT !.intervalActiveScan = i]
    BY <1>3 DEF SetActive
  <2>2. i \in Nat /\ c.BLEinterval <= i
    BY <1>1, <1>3 DEF Ordered, Config
  <2> HIDE DEF i
  <2> QED
    BY <2>1, <2>2 DEF Ordered, Config
<1> QED
  BY <1>2, <1>3

\* ... and so does the rest of the handler, for a command and for a stored configuration.
LEMMA FromJsonOrdered ==
    ASSUME BleLifeAssumption, NEW c, Ordered(c), NEW m, NEW startup,
           Readable(IF startup THEN m ELSE Completed(c, m))
    PROVE  Ordered(BTConfig_fromJson(c, m, startup))
<1> DEFINE p == IF startup THEN m ELSE Completed(c, m)
           a == [c EXCEPT !.presenceEnable = Value(p.hasspresence, @)]
           b == SetInterval(a, p.interval)
           d == SetActive(b, p.intervalacts)
<1>0. Readable(p)
  OBVIOUS
<1> HIDE DEF p
<1>1. /\ Value(p.hasspresence, c.presenceEnable) \in BOOLEAN
  BY <1>0, ValueOfKey DEF Ordered, Config, Readable
<1>2. Ordered(a)
  BY <1>1 DEF Ordered, Config
<1> HIDE DEF a
<1>3. Ordered(b)
  BY <1>0, <1>2, SetIntervalOrdered DEF Readable
<1> HIDE DEF b
<1>4. Ordered(d)
  BY <1>0, <1>3, SetActiveOrdered DEF Readable
<1> HIDE DEF d
<1>5. Value(p.adaptivescan, d.adaptiveScan) \in BOOLEAN /\ Value(p.enabled, d.enabled) \in BOOLEAN
  BY <1>0, <1>4, ValueOfKey DEF Ordered, Config, Readable
<1>6. BTConfig_fromJson(c, m, startup)
        = [d EXCEPT !.adaptiveScan = Value(p.adaptivescan, @), !.enabled = Value(p.enabled, @)]
  BY DEF BTConfig_fromJson, a, b, d, p
<1> QED
  BY <1>4, <1>5, <1>6 DEF Ordered, Config

-----------------------------------------------------------------------------
\* A configuration that is loaded is the one that was stored: every key is there, the
\* intervals are in order, and nothing is completed.
LEMMA LoadIsExact ==
    ASSUME BleLifeAssumption, NEW c, Ordered(c), NEW s, Ordered(s)
    PROVE  BTConfig_fromJson(c, AsMessage(s), TRUE) = s
<1> DEFINE a == [c EXCEPT !.presenceEnable = s.presenceEnable]
           b == [a EXCEPT !.adaptiveScan = FALSE, !.BLEinterval = s.BLEinterval,
                          !.intervalActiveScan = IF @ < s.BLEinterval THEN s.BLEinterval ELSE @]
           d == [b EXCEPT !.intervalActiveScan = s.intervalActiveScan]
<1>1. \A v, old : Value({v}, old) = v
  BY DEF Value
<1>2. s.BLEinterval # 0 /\ ~(s.intervalActiveScan < s.BLEinterval)
  BY DEF Ordered, Config, BleLifeAssumption
<1>3. SetInterval(a, {s.BLEinterval}) = b
  BY <1>1, <1>2 DEF SetInterval
<1>4. b.BLEinterval = s.BLEinterval
  BY DEF Ordered, Config
<1>5. SetActive(b, {s.intervalActiveScan}) = d
  <2>1. Value({s.intervalActiveScan}, b.intervalActiveScan) = s.intervalActiveScan
    BY <1>1
  <2> HIDE DEF b
  <2> QED
    BY <2>1, <1>2, <1>4 DEF SetActive, d
<1>6. BTConfig_fromJson(c, AsMessage(s), TRUE)
        = [d EXCEPT !.adaptiveScan = s.adaptiveScan, !.enabled = s.enabled]
  <2>1. a = [c EXCEPT !.presenceEnable = Value({s.presenceEnable}, @)]
    BY <1>1
  <2> HIDE DEF a, b, d
  <2> QED
    BY <1>1, <1>3, <1>5, <2>1 DEF BTConfig_fromJson, AsMessage
<1>7. [d EXCEPT !.adaptiveScan = s.adaptiveScan, !.enabled = s.enabled] = s
  BY DEF Ordered, Config
<1> HIDE DEF a, b, d
<1> QED
  BY <1>6, <1>7

-----------------------------------------------------------------------------
LEMMA InitHolds ==
    ASSUME BleLifeAssumption, LongEnough, Init
    PROVE  IInv
<1>1. Ordered(BTConfig_init)
  BY DEF Ordered, BTConfig_init, Config, BleLifeAssumption, LongEnough
<1>2. EnableBT \in BOOLEAN
  BY DEF BleLifeAssumption
<1>3. {BTProcessLock, crashed, loaded} \subseteq BOOLEAN
  BY <1>2, Zenon DEF Init
<1>4. handle \in {"none", "live", "deleted"}
  BY DEF Init
<1>5. BTConfig \in Config
  BY <1>1 DEF Init, Ordered
<1>6. stray \in 0..MaxTasks /\ scanning \in {"none", "own", "stray"}
  BY DEF Init, BleLifeAssumption
<1>7. nvs = NotStored /\ nvs.stored = FALSE /\ loaded = FALSE
  BY DEF Init, NotStored
<1>8. TypeOK
  BY <1>3, <1>4, <1>5, <1>6, <1>7 DEF TypeOK
<1> QED
  BY <1>1, <1>7, <1>8 DEF Init, IInv

LEMMA StepHolds ==
    ASSUME BleLifeAssumption, LongEnough, IInv, [Next]_btVars
    PROVE  IInv'
<1> USE DEF IInv
<1>1. ASSUME NEW m \in Commands, XtoBT(m)
      PROVE  IInv'
  <2> DEFINE c == CASE "init" \in m.first -> BTConfig_init
                    [] "load" \in m.first -> BTConfig_load(BTConfig)
                    [] OTHER -> BTConfig
             new == BTConfig_fromJson(c, m, FALSE)
  <2>1. m \in Messages
    BY <1>1 DEF Commands
  <2>2. Ordered(c)
    <3>1. Ordered(BTConfig_init)
      BY DEF Ordered, BTConfig_init, Config, BleLifeAssumption, LongEnough
    <3>2. Ordered(BTConfig_load(BTConfig))
      BY LoadIsExact DEF BTConfig_load
    <3> QED
      BY <3>1, <3>2
  <2> HIDE DEF c
  <2>3. Ordered(new)
    BY <2>1, <2>2, CompletedReadable, FromJsonOrdered
  <2> HIDE DEF new
  <2>4. BTConfig' = new /\ nvs' \in {NotStored, Stored(new), nvs} /\ loaded' = FALSE
    BY <1>1 DEF XtoBT, new, c
  <2>5. /\ {BTProcessLock', crashed'} \subseteq BOOLEAN
        /\ handle' \in {"none", "live", "deleted"}
        /\ stray' \in 0..MaxTasks /\ scanning' \in {"none", "own", "stray"}
    <3>1. CASE UNCHANGED tasks
      BY <3>1 DEF tasks, TypeOK
    <3>2. CASE stopProcessing
      BY <3>2 DEF stopProcessing, Deletes, TypeOK
    <3>3. CASE stray < MaxTasks /\ setupBTTasksAndBLE
      <4>1. stray' \in 0..MaxTasks
        BY <3>3 DEF setupBTTasksAndBLE, TypeOK, BleLifeAssumption
      <4>2. {BTProcessLock', crashed'} \subseteq BOOLEAN
        BY <3>3 DEF setupBTTasksAndBLE, TypeOK
      <4>3. handle' \in {"none", "live", "deleted"} /\ scanning' \in {"none", "own", "stray"}
        BY <3>3 DEF setupBTTasksAndBLE, TypeOK
      <4> QED
        BY <4>1, <4>2, <4>3
    <3> QED
      BY <1>1, <3>1, <3>2, <3>3 DEF XtoBT
  <2>6. /\ nvs' = NotStored \/ (nvs'.stored = TRUE /\ nvs'.config \in Config)
        /\ nvs'.stored => Ordered(nvs'.config)
    <3>1. CASE nvs' = NotStored
      BY <3>1 DEF NotStored
    <3>2. CASE nvs' = Stored(new)
      BY <2>3, <3>2 DEF Stored, Ordered
    <3>3. CASE nvs' = nvs
      BY <3>3, Zenon DEF TypeOK
    <3> QED
      BY <2>4, <3>1, <3>2, <3>3
  <2>7. TypeOK'
    <3>1. BTConfig' \in Config /\ loaded' \in BOOLEAN
      BY <2>3, <2>4 DEF Ordered
    <3> QED
      BY <2>5, <2>6, <3>1 DEF TypeOK
  <2> QED
    BY <2>3, <2>4, <2>6, <2>7
<1>2. CASE ScanBegins
  BY <1>2 DEF ScanBegins, TypeOK
<1>3. CASE ScanEnds
  BY <1>3 DEF ScanEnds, TypeOK
<1>4. ASSUME NEW acts \in BOOLEAN, NEW cont \in BOOLEAN, Adapts(acts, cont)
      PROVE  IInv'
  <2>1. Ordered(BTConfig')
    <3>1. MinTimeBtwScan \in Nat /\ BTConfig \in Config
      BY DEF BleLifeAssumption, Ordered
    <3>2. CASE BTConfig' = [BTConfig EXCEPT !.BLEinterval = MinTimeBtwScan,
                                            !.intervalActiveScan = MinTimeBtwScan]
      <4>1. /\ BTConfig' \in Config
            /\ BTConfig'.BLEinterval = MinTimeBtwScan
            /\ BTConfig'.intervalActiveScan = MinTimeBtwScan
        BY <3>1, <3>2 DEF Config
      <4> QED
        BY <3>1, <4>1 DEF Ordered
    <3>3. CASE BTConfig' = [BTConfig EXCEPT !.BLEinterval = MinTimeBtwScan]
      BY <3>1, <3>3 DEF Ordered, Config
    <3> QED
      BY <1>4, <3>2, <3>3 DEF Adapts
  <2>2. UNCHANGED <<nvs, tasks>> /\ loaded' = FALSE
    BY <1>4 DEF Adapts
  <2> QED
    BY <2>1, <2>2 DEF tasks, TypeOK, Ordered
<1>5. CASE setupBT
  <2> DEFINE c == BTConfig_load(BTConfig_init)
  <2>1. Ordered(BTConfig_init)
    BY DEF Ordered, BTConfig_init, Config, BleLifeAssumption, LongEnough
  <2>2. Ordered(c) /\ (nvs.stored => c = nvs.config)
    BY <2>1, LoadIsExact DEF BTConfig_load
  <2> HIDE DEF c
  <2>3. BTConfig' = c /\ nvs' = nvs /\ loaded' = nvs.stored
    BY <1>5 DEF setupBT, Boots, c
  <2>4. TypeOK'
    <3>1. c \in Config /\ c.enabled \in BOOLEAN
      BY <2>2 DEF Ordered, Config
    <3>2. BTProcessLock' = ~c.enabled /\ crashed' = FALSE
      BY <1>5 DEF setupBT, Boots, c
    <3>3. nvs.stored \in BOOLEAN
      <4>1. CASE nvs = NotStored
        <5>1. nvs.stored = FALSE
          BY <4>1 DEF NotStored
        <5> QED
          BY <5>1
      <4>2. CASE nvs.stored = TRUE
        BY <4>2
      <4> QED
        BY <4>1, <4>2 DEF TypeOK
    <3>4. {BTProcessLock', crashed', loaded'} \subseteq BOOLEAN
      BY <2>3, <3>1, <3>2, <3>3, Zenon
    <3>5. /\ handle' \in {"none", "live", "deleted"}
          /\ stray' = 0 /\ scanning' = "none"
      BY <1>5 DEF setupBT, Boots
    <3>6. stray' \in 0..MaxTasks
      BY <3>5 DEF BleLifeAssumption
    <3>7. nvs' = NotStored \/ (nvs'.stored = TRUE /\ nvs'.config \in Config)
      BY <2>3, Zenon DEF TypeOK
    <3>8. BTConfig' \in Config /\ scanning' \in {"none", "own", "stray"}
      BY <2>3, <3>1, <3>5
    <3> QED
      BY <3>4, <3>5, <3>6, <3>7, <3>8 DEF TypeOK
  <2> QED
    BY <2>2, <2>3, <2>4
<1>6. CASE UNCHANGED btVars
  BY <1>6 DEF btVars, TypeOK
<1> QED
  BY <1>1, <1>2, <1>3, <1>4, <1>5, <1>6 DEF Next

\* The configuration and the tasks keep their types.
THEOREM TypeCorrect ==
    ASSUME BleLifeAssumption, LongEnough
    PROVE  Spec => []TypeOK
<1>1. IInv => TypeOK
  BY DEF IInv
<1> QED
  BY <1>1, InitHolds, StepHolds, PTL DEF Spec

\* Active scans are never more frequent than scans, over any messages, adaptations,
\* saved and loaded configurations (gatewayBT.cpp 206-220).
THEOREM IntervalsOrdered ==
    ASSUME BleLifeAssumption, LongEnough
    PROVE  Spec => []ActiveNotShorter
<1>1. IInv => ActiveNotShorter
  BY DEF IInv, Ordered, ActiveNotShorter
<1> QED
  BY <1>1, InitHolds, StepHolds, PTL DEF Spec

\* A restart brings back what was saved (gatewayBT.cpp 309-331).
THEOREM SavedIsBack ==
    ASSUME BleLifeAssumption, LongEnough
    PROVE  Spec => []SavedIsLoaded
<1>1. IInv => SavedIsLoaded
  BY DEF IInv, SavedIsLoaded
<1> QED
  BY <1>1, InitHolds, StepHolds, PTL DEF Spec
=============================================================================
