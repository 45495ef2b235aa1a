------------------------- MODULE SignalFilterProofs -------------------------
(***************************************************************************)
(* Theorems about the filter of repeated codes, for any number of codes,   *)
(* any size of the table and any window, until millis() wraps: MaxTime is  *)
(* then less than Modulus.                                                 *)
(***************************************************************************)
EXTENDS SignalFilter, TLAPS, FiniteSetTheorems, WellFoundedInduction

NoWrap == MaxTime < Modulus

\* An entry of the table holds a code that was stored, with the time of one of
\* the moments it was stored, so not later than the last one.
Stored ==
    \A i \in Places : receivedSignal[i].value \in Values =>
        /\ stored[receivedSignal[i].value] > 0
        /\ receivedSignal[i].time <= stored[receivedSignal[i].value]

\* What was stored was stored before now.
Past == \A v \in Values : stored[v] <= clock

-----------------------------------------------------------------------------
\* Before the wrap, millis() is the time since the boot.
LEMMA Unwrapped ==
    ASSUME NoWrap, NEW t \in 0..MaxTime
    PROVE  millis(t) = t
BY FilterAssumption DEF NoWrap, millis

\* and the difference of two of its values is the time that has passed.
LEMMA Passed ==
    ASSUME NoWrap, NEW t \in 0..MaxTime, NEW s \in 0..t
    PROVE  (millis(t) - s) % Modulus = t - s
<1>1. millis(t) = t
  BY Unwrapped
<1>2. t - s \in 0..(Modulus - 1)
  BY FilterAssumption DEF NoWrap
<1>3. \A d \in 0..(Modulus - 1) : d % Modulus = d
  BY FilterAssumption
<1> QED
  BY <1>1, <1>2, <1>3

\* What a code that was received leaves behind; the place it is stored in, if it
\* is, does not matter for the types.
LEMMA ReceivedTypes ==
    ASSUME TypeOK, Past, NEW v \in Values, NEW gap \in 1..MaxGap,
           NEW here \in BOOLEAN, Received(v, gap, here)
    PROVE  TypeOK' /\ Past'
<1> DEFINE now == clock + gap
           new == ~isAduplicateSignal(v, now)
<1>1. /\ now \in 1..MaxTime
      /\ clock' = now
      /\ clock < now
  BY FilterAssumption DEF Received, TypeOK
<1>2. now - stored[v] \in Nat
  BY <1>1 DEF Past, TypeOK
<1>3. last' \in [published : BOOLEAN, dropped : BOOLEAN, known : BOOLEAN,
                 age : Nat, others : Nat]
  <2>1. last' = [published |-> new /\ here, dropped |-> ~new,
                 known |-> stored[v] # 0, age |-> now - stored[v],
                 others |-> since[v]]
    BY DEF Received
  <2>2. since[v] \in Nat
    BY DEF TypeOK
  <2>3. (new /\ here) \in BOOLEAN /\ (~new) \in BOOLEAN /\ (stored[v] # 0) \in BOOLEAN
    OBVIOUS
  <2> HIDE DEF now, new
  <2> QED
    BY <2>1, <2>2, <2>3, <1>2
<1>4. CASE ~new
  <2>1. UNCHANGED <<receivedSignal, stored, since>>
    BY <1>4 DEF Received
  <2> QED
    BY <2>1, <1>1, <1>3 DEF TypeOK, Past
<1>5. CASE new
  <2>1. storeSignalValue(v, now)
    BY <1>5 DEF Received
  <2>2. Entry(v, now) \in ReceivedSignal
    <3>1. millis(now) \in 0..(Modulus - 1)
      BY <1>1, FilterAssumption DEF millis
    <3> QED
      BY <3>1 DEF Entry, ReceivedSignal
  <2>3. receivedSignal' \in [Places -> ReceivedSignal]
    BY <2>1, <2>2 DEF storeSignalValue, TypeOK
  <2>4. stored' = [stored EXCEPT ![v] = now]
    BY <2>1 DEF storeSignalValue
  <2>5. since' \in [Values -> Nat]
    BY <2>1 DEF storeSignalValue, TypeOK
  <2>6. stored' \in [Values -> 0..MaxTime] /\ Past'
    BY <2>4, <1>1 DEF TypeOK, Past
  <2> QED
    BY <2>3, <2>5, <2>6, <1>1, <1>3 DEF TypeOK
<1> QED
  BY <1>4, <1>5

LEMMA InitialTypes == Init => TypeOK /\ Past
BY FilterAssumption DEF Init, TypeOK, Past, ReceivedSignal, Nothing, Places

LEMMA TypesKept == TypeOK /\ Past /\ [Next]_vars => TypeOK' /\ Past'
<1> SUFFICES ASSUME TypeOK, Past, [Next]_vars PROVE TypeOK' /\ Past'
  OBVIOUS
<1>1. CASE UNCHANGED vars
  BY <1>1 DEF vars, TypeOK, Past
<1>2. CASE Next
  BY <1>2, ReceivedTypes DEF Next
<1> QED
  BY <1>1, <1>2

\* Type correctness: the table holds codes and times of the counter's width, over
\* any number of wraps of millis(); no code was stored in the future.
THEOREM TypeCorrect == Spec => []TypeOK
BY InitialTypes, TypesKept, PTL DEF Spec

-----------------------------------------------------------------------------
\* storeSignalValue (main.cpp 3020-3035) keeps the relation between the table and
\* the times of storing, whichever entry getMin selects.
LEMMA StoredKept ==
    ASSUME NoWrap, TypeOK, Past, Stored, NEW v \in Values, NEW gap \in 1..MaxGap,
           NEW here \in BOOLEAN, Received(v, gap, here)
    PROVE  Stored'
<1> DEFINE now == clock + gap
<1>1. now \in 1..MaxTime /\ clock < now
  BY FilterAssumption DEF Received, TypeOK
<1>2. CASE isAduplicateSignal(v, now)
  BY <1>2 DEF Received, Stored
<1>3. CASE ~isAduplicateSignal(v, now)
  <2>1. storeSignalValue(v, now)
    BY <1>3 DEF Received
  <2>2. receivedSignal' = [receivedSignal EXCEPT ![getMin] = Entry(v, now)]
    BY <2>1 DEF storeSignalValue
  <2>3. stored' = [stored EXCEPT ![v] = now]
    BY <2>1 DEF storeSignalValue
  <2>4. Entry(v, now) = [value |-> v, time |-> now]
    BY <1>1, Unwrapped DEF Entry
  <2>5. stored'[v] = now /\ \A w \in Values : stored'[w] >= stored[w]
    BY <2>3, <1>1 DEF TypeOK, Past
  <2> SUFFICES ASSUME NEW i \in Places, receivedSignal'[i].value \in Values
               PROVE  /\ stored'[receivedSignal'[i].value] > 0
                      /\ receivedSignal'[i].time <= stored'[receivedSignal'[i].value]
    BY DEF Stored
  <2>6. CASE i = getMin
    <3>1. receivedSignal'[i] = [value |-> v, time |-> now]
      BY <2>2, <2>4, <2>6 DEF TypeOK
    <3> QED
      BY <3>1, <2>5, <1>1
  <2>7. CASE i # getMin
    <3>1. receivedSignal'[i] = receivedSignal[i]
      BY <2>2, <2>7 DEF TypeOK
    <3> DEFINE w == receivedSignal[i].value
    <3>2. w \in Values /\ stored[w] > 0 /\ receivedSignal[i].time <= stored[w]
      BY <3>1 DEF Stored
    <3>3. stored'[w] >= stored[w] /\ stored[w] \in Int /\ stored'[w] \in Int
      BY <3>2, <2>3, <2>5, <1>1 DEF TypeOK
    <3>4. receivedSignal[i].time \in Int
      BY DEF TypeOK, ReceivedSignal
    <3> QED
      BY <3>1, <3>2, <3>3, <3>4
  <2> QED
    BY <2>6, <2>7
<1> QED
  BY <1>2, <1>3

\* isAduplicateSignal (main.cpp 3055-3069) withholds a code only for an entry that
\* is that recent.
LEMMA DroppedWasRecent ==
    ASSUME NoWrap, TypeOK, Past, Stored, NEW v \in Values, NEW gap \in 1..MaxGap,
           NEW here \in BOOLEAN, Received(v, gap, here)
    PROVE  NoLoss'
<1> DEFINE now == clock + gap
<1>1. now \in 1..MaxTime /\ clock < now
  BY FilterAssumption DEF Received, TypeOK
<1>2. /\ last'.dropped = ~~isAduplicateSignal(v, now)
      /\ last'.known = (stored[v] # 0)
      /\ last'.age = now - stored[v]
  BY DEF Received
<1>3. SUFFICES ASSUME isAduplicateSignal(v, now)
               PROVE  stored[v] # 0 /\ now - stored[v] < time_avoid_duplicate
  BY <1>2 DEF NoLoss
<1>4. PICK i \in Places :
        /\ receivedSignal[i].value = v
        /\ (millis(now) - receivedSignal[i].time) % Modulus < time_avoid_duplicate
  BY <1>3 DEF isAduplicateSignal
<1>5. stored[v] > 0 /\ receivedSignal[i].time <= stored[v] /\ stored[v] <= clock
  BY <1>4 DEF Stored, Past
<1>6. receivedSignal[i].time \in Nat /\ stored[v] \in Nat /\ clock \in Nat
  BY FilterAssumption DEF TypeOK, ReceivedSignal
<1>7. receivedSignal[i].time \in 0..now
  BY <1>1, <1>5, <1>6
<1>8. (millis(now) - receivedSignal[i].time) % Modulus = now - receivedSignal[i].time
  BY <1>1, <1>7, Passed
<1> QED
  BY <1>1, <1>4, <1>5, <1>6, <1>8, FilterAssumption

\* Until millis() wraps, no code is lost to the filter: what it withholds was
\* stored less than time_avoid_duplicate before.
THEOREM NothingLost == NoWrap => (Spec => []NoLoss)
<1> SUFFICES ASSUME NoWrap PROVE Spec => []NoLoss
  OBVIOUS
<1> DEFINE IInv == TypeOK /\ Past /\ Stored /\ NoLoss
<1>1. Init => IInv
  <2>1. Init => Stored
    BY FilterAssumption DEF Init, Stored, Places
  <2>2. Init => NoLoss
    BY DEF Init, NoLoss, Nothing
  <2> QED
    BY <2>1, <2>2, InitialTypes
<1>2. IInv /\ [Next]_vars => IInv'
  <2> SUFFICES ASSUME IInv, [Next]_vars PROVE IInv'
    OBVIOUS
  <2>1. TypeOK' /\ Past'
    BY TypesKept
  <2>2. CASE UNCHANGED vars
    BY <2>1, <2>2 DEF vars, Stored, NoLoss
  <2>3. CASE Next
    BY <2>1, <2>3, StoredKept, DroppedWasRecent DEF Next
  <2> QED
    BY <2>2, <2>3
<1> QED
  BY <1>1, <1>2, PTL DEF Spec

-----------------------------------------------------------------------------
\* A code keeps its entry until as many others as there are entries have been
\* stored: the entries that are newer than it are no more than those stored since,
\* and getMin takes its entry only when all the others are newer.

Newer(v) == {i \in Places : receivedSignal[i].time > stored[v]}

Remembered ==
    \A v \in Values : stored[v] # 0 =>
        \/ \E i \in Places : receivedSignal[i] = [value |-> v, time |-> stored[v]]
        \/ since[v] >= struct_size

NewerWereStored ==
    \A v \in Values : stored[v] # 0 => Cardinality(Newer(v)) <= since[v]

Distinct ==
    \A i, j \in Places :
        receivedSignal[i].time = receivedSignal[j].time =>
            i = j \/ receivedSignal[i].time = 0

TimesPast == \A i \in Places : receivedSignal[i].time <= clock

TableInv == Remembered /\ NewerWereStored /\ Distinct /\ TimesPast

NatLess == {ss \in Nat \X Nat : ss[1] < ss[2]}

\* A non-empty set of natural numbers has a smallest element.
LEMMA Smallest ==
    ASSUME NEW S \in SUBSET Nat, S # {}
    PROVE  \E x \in S : \A y \in S : x <= y
<1>1. IsWellFoundedOn(NatLess, Nat)
  BY NatLessThanWellFounded DEF NatLess, OpToRel
<1>2. PICK x \in S : \A y \in S : ~(<<y, x>> \in NatLess)
  BY <1>1, WFMin
<1>3. \A y \in S : ~(y < x)
  <2> TAKE y \in S
  <2>1. <<y, x>> \in Nat \X Nat
    OBVIOUS
  <2>2. <<y, x>>[1] = y /\ <<y, x>>[2] = x
    OBVIOUS
  <2> QED
    BY <1>2, <2>1, <2>2 DEF NatLess
<1> QED
  BY <1>3

\* getMin (main.cpp 3040-3050) returns an entry none is older than.
LEMMA Oldest ==
    ASSUME TypeOK
    PROVE  /\ getMin \in Places
           /\ \A i \in Places : receivedSignal[getMin].time <= receivedSignal[i].time
<1> DEFINE T == {receivedSignal[i].time : i \in Places}
<1>1. T \in SUBSET Nat /\ T # {}
  <2>1. \A i \in Places : receivedSignal[i].time \in Nat
    BY FilterAssumption DEF TypeOK, ReceivedSignal
  <2>2. 1 \in Places
    BY FilterAssumption DEF Places
  <2> QED
    BY <2>1, <2>2
<1>2. PICK t \in T : \A u \in T : t <= u
  BY <1>1, Smallest
<1> DEFINE S == {i \in Places : receivedSignal[i].time = t}
<1>3. S \in SUBSET Nat /\ S # {}
  BY <1>2, FilterAssumption DEF Places
<1>4. PICK o \in S : \A i \in S : o <= i
  BY <1>3, Smallest
<1>5. \A i \in Places : \/ receivedSignal[o].time < receivedSignal[i].time
                        \/ (receivedSignal[o].time = receivedSignal[i].time /\ o <= i)
  <2> TAKE i \in Places
  <2>1. t <= receivedSignal[i].time /\ receivedSignal[o].time = t
    BY <1>2, <1>4
  <2>2. CASE i \in S
    BY <1>4, <2>1, <2>2
  <2>3. CASE i \notin S
    <3>1. receivedSignal[i].time # t
      BY <2>3
    <3>2. receivedSignal[i].time \in Nat /\ t \in Nat
      BY <1>1, <1>2
    <3> QED
      BY <2>1, <3>1, <3>2
  <2> QED
    BY <2>2, <2>3
<1>6. /\ getMin \in Places
      /\ \A i \in Places :
            \/ receivedSignal[getMin].time < receivedSignal[i].time
            \/ (receivedSignal[getMin].time = receivedSignal[i].time /\ getMin <= i)
  BY <1>4, <1>5 DEF getMin
<1> QED
  BY <1>6, <1>1

LEMMA NewerFinite ==
    ASSUME TypeOK, NEW v \in Values
    PROVE  IsFiniteSet(Newer(v)) /\ Cardinality(Newer(v)) \in Nat
<1>1. IsFiniteSet(Places) /\ Cardinality(Places) = struct_size
  BY FS_Interval, FilterAssumption DEF Places
<1>2. Newer(v) \in SUBSET Places
  BY DEF Newer
<1> QED
  BY <1>1, <1>2, FS_Subset, FS_CardinalityType

\* Storing a code keeps the invariant of the table.
LEMMA TableKept ==
    ASSUME NoWrap, TypeOK, Past, TableInv, NEW v \in Values, NEW now \in 1..MaxTime,
           clock < now, clock' = now, storeSignalValue(v, now), TypeOK'
    PROVE  TableInv'
<1> DEFINE m == getMin
<1>1. /\ m \in Places
      /\ \A i \in Places : receivedSignal[m].time <= receivedSignal[i].time
  BY Oldest
<1> HIDE DEF m
<1>2. receivedSignal' = [receivedSignal EXCEPT ![m] = [value |-> v, time |-> now]]
  <2>1. millis(now) = now
    BY Unwrapped, FilterAssumption
  <2> QED
    BY <2>1 DEF storeSignalValue, Entry, m
<1>3. /\ receivedSignal'[m] = [value |-> v, time |-> now]
      /\ \A i \in Places : i # m => receivedSignal'[i] = receivedSignal[i]
  BY <1>1, <1>2 DEF TypeOK
<1>4. /\ stored'[v] = now
      /\ \A w \in Values : w # v => stored'[w] = stored[w]
  <2>1. stored' = [stored EXCEPT ![v] = now]
    BY DEF storeSignalValue
  <2> QED
    BY <2>1 DEF TypeOK
<1>5. \A w \in Values : w # v /\ stored[w] # 0 => since'[w] = since[w] + 1
  BY DEF storeSignalValue, TypeOK
<1>6. \A i \in Places : receivedSignal[i].time \in Nat /\ receivedSignal'[i].time \in Nat
  BY FilterAssumption DEF TypeOK, ReceivedSignal
<1>7. \A w \in Values : /\ stored[w] \in Nat /\ stored'[w] \in Nat
                        /\ since[w] \in Nat /\ since'[w] \in Nat
  BY FilterAssumption DEF TypeOK
<1>8. clock \in Nat /\ now \in Nat
  BY FilterAssumption DEF TypeOK
<1>9. TimesPast'
  <2> SUFFICES ASSUME NEW i \in Places PROVE receivedSignal'[i].time <= now
    BY DEF TimesPast
  <2>1. CASE i = m
    BY <2>1, <1>3, <1>8
  <2>2. CASE i # m
    BY <2>2, <1>3, <1>6, <1>8 DEF TableInv, TimesPast
  <2> QED
    BY <2>1, <2>2
<1>10. Distinct'
  <2>1. \A i \in Places : i # m => receivedSignal'[i].time < now
    BY <1>3, <1>6, <1>8 DEF TableInv, TimesPast
  <2> SUFFICES ASSUME NEW i \in Places, NEW j \in Places,
                      receivedSignal'[i].time = receivedSignal'[j].time, i # j
               PROVE  receivedSignal'[i].time = 0
    BY DEF Distinct
  <2>2. i # m /\ j # m
    BY <2>1, <1>3, <1>6, <1>8
  <2> QED
    BY <2>2, <1>3 DEF TableInv, Distinct
<1>11. NewerWereStored'
  <2> SUFFICES ASSUME NEW w \in Values, stored'[w] # 0
               PROVE  Cardinality(Newer(w)') <= since'[w]
    BY DEF NewerWereStored
  <2>1. CASE w = v
    <3>1. Newer(w)' = {}
      BY <2>1, <1>4, <1>6, <1>8, <1>9 DEF Newer, TimesPast
    <3> QED
      BY <3>1, <1>7, FS_EmptySet
  <2>2. CASE w # v
    <3>1. stored[w] # 0 /\ stored'[w] = stored[w] /\ since'[w] = since[w] + 1
      BY <2>2, <1>4, <1>5
    <3>2. Newer(w)' \in SUBSET (Newer(w) \cup {m})
      BY <3>1, <1>3 DEF Newer
    <3>3. /\ IsFiniteSet(Newer(w) \cup {m})
          /\ Cardinality(Newer(w) \cup {m}) <= Cardinality(Newer(w)) + 1
          /\ Cardinality(Newer(w) \cup {m}) \in Nat
          /\ Cardinality(Newer(w)) \in Nat
      <4>1. IsFiniteSet(Newer(w)) /\ Cardinality(Newer(w)) \in Nat
        BY NewerFinite
      <4>2. /\ IsFiniteSet(Newer(w) \cup {m})
            /\ Cardinality(Newer(w) \cup {m}) =
                  IF m \in Newer(w) THEN Cardinality(Newer(w))
                  ELSE Cardinality(Newer(w)) + 1
        BY <4>1, FS_AddElement
      <4> QED
        BY <4>1, <4>2
    <3>4. /\ Cardinality(Newer(w)') <= Cardinality(Newer(w) \cup {m})
          /\ Cardinality(Newer(w)') \in Nat
      BY <3>2, <3>3, FS_Subset, FS_CardinalityType
    <3>5. Cardinality(Newer(w)) <= since[w]
      BY <3>1 DEF TableInv, NewerWereStored
    <3> QED
      BY <3>1, <3>3, <3>4, <3>5, <1>7
  <2> QED
    BY <2>1, <2>2
<1>12. Remembered'
  <2> SUFFICES ASSUME NEW w \in Values, stored'[w] # 0
               PROVE  \/ \E i \in Places :
                            receivedSignal'[i] = [value |-> w, time |-> stored'[w]]
                      \/ since'[w] >= struct_size
    BY DEF Remembered
  <2>1. CASE w = v
    BY <2>1, <1>1, <1>3, <1>4
  <2>2. CASE w # v
    <3>1. stored[w] # 0 /\ stored'[w] = stored[w] /\ since'[w] = since[w] + 1
      BY <2>2, <1>4, <1>5
    <3>2. CASE since[w] >= struct_size
      BY <3>1, <3>2, <1>7, FilterAssumption
    <3>3. CASE \E i \in Places : receivedSignal[i] = [value |-> w, time |-> stored[w]]
      <4>1. PICK i \in Places : receivedSignal[i] = [value |-> w, time |-> stored[w]]
        BY <3>3
      <4>2. CASE i # m
        BY <3>1, <4>1, <4>2, <1>3
      <4>3. CASE i = m
        <5>1. \A j \in Places : j # m => receivedSignal[j].time > stored[w]
          <6> TAKE j \in Places
          <6>1. receivedSignal[m].time = stored[w] /\ receivedSignal[m].time # 0
            BY <3>1, <4>1, <4>3
          <6>2. j # m => receivedSignal[j].time # receivedSignal[m].time
            BY <6>1, <1>1 DEF TableInv, Distinct
          <6> QED
            BY <6>1, <6>2, <1>1, <1>6, <1>7
        <5>2. Newer(w) = Places \ {m}
          BY <5>1, <4>1, <4>3, <1>7 DEF Newer
        <5>3. Cardinality(Places \ {m}) = struct_size - 1
          <6>1. IsFiniteSet(Places) /\ Cardinality(Places) = struct_size
            BY FS_Interval, FilterAssumption DEF Places
          <6> QED
            BY <6>1, <1>1, FS_RemoveElement
        <5>4. Cardinality(Newer(w)) <= since[w]
          BY <3>1 DEF TableInv, NewerWereStored
        <5> QED
          BY <3>1, <5>2, <5>3, <5>4, <1>7, FilterAssumption
      <4> QED
        BY <4>2, <4>3
    <3> QED
      BY <3>1, <3>2, <3>3 DEF TableInv, Remembered
  <2> QED
    BY <2>1, <2>2
<1> QED
  BY <1>9, <1>10, <1>11, <1>12 DEF TableInv

\* isAduplicateSignal finds a code that still has its entry; one that has lost it
\* was followed by as many others as there are entries.
LEMMA RepeatedIsForgotten ==
    ASSUME NoWrap, TypeOK, Past, TableInv, NEW v \in Values, NEW gap \in 1..MaxGap,
           NEW here \in BOOLEAN, Received(v, gap, here)
    PROVE  NoRepeat'
<1> DEFINE now == clock + gap
<1>1. now \in 1..MaxTime /\ clock < now /\ clock \in Nat
  BY FilterAssumption DEF Received, TypeOK
<1>2. /\ last'.published = (~isAduplicateSignal(v, now) /\ here)
      /\ last'.known = (stored[v] # 0)
      /\ last'.age = now - stored[v]
      /\ last'.others = since[v]
  BY DEF Received
<1>3. stored[v] \in Nat /\ since[v] \in Nat /\ stored[v] <= clock
  BY FilterAssumption DEF TypeOK, Past
<1> SUFFICES ASSUME ~isAduplicateSignal(v, now), stored[v] # 0,
                    ~(now - stored[v] >= time_avoid_duplicate)
             PROVE  since[v] >= struct_size
  BY <1>2 DEF NoRepeat
<1>4. CASE \E i \in Places : receivedSignal[i] = [value |-> v, time |-> stored[v]]
  <2>1. PICK i \in Places : receivedSignal[i] = [value |-> v, time |-> stored[v]]
    BY <1>4
  <2>2. (millis(now) - stored[v]) % Modulus = now - stored[v]
    BY <1>1, <1>3, Passed
  <2>3. (millis(now) - receivedSignal[i].time) % Modulus < time_avoid_duplicate
    BY <2>1, <2>2, <1>1, <1>3, FilterAssumption
  <2> QED
    BY <2>1, <2>3 DEF isAduplicateSignal
<1> QED
  BY <1>4 DEF TableInv, Remembered

\* Until millis() wraps, a code is published again within time_avoid_duplicate only
\* when as many others as the table has entries were stored in between.
THEOREM NotRepeated == NoWrap => (Spec => []NoRepeat)
<1> SUFFICES ASSUME NoWrap PROVE Spec => []NoRepeat
  OBVIOUS
<1> DEFINE IInv == TypeOK /\ Past /\ TableInv /\ NoRepeat
<1>1. Init => IInv
  <2> SUFFICES ASSUME Init PROVE TableInv /\ NoRepeat
    BY InitialTypes
  <2>1. \A v \in Values : stored[v] = 0
    BY DEF Init
  <2>2. \A i \in Places : receivedSignal[i].time = 0 /\ clock = 0
    BY DEF Init
  <2>3. NoRepeat
    BY DEF Init, NoRepeat, Nothing
  <2> QED
    BY <2>1, <2>2, <2>3 DEF TableInv, Remembered, NewerWereStored, Distinct, TimesPast
<1>2. IInv /\ [Next]_vars => IInv'
  <2> SUFFICES ASSUME IInv, [Next]_vars PROVE IInv'
    OBVIOUS
  <2>1. TypeOK' /\ Past'
    BY TypesKept
  <2>2. CASE UNCHANGED vars
    BY <2>1, <2>2 DEF vars, TableInv, Remembered, NewerWereStored, Newer, Distinct,
                      TimesPast, NoRepeat
  <2>3. ASSUME NEW v \in Values, NEW gap \in 1..MaxGap, NEW here \in BOOLEAN,
               Received(v, gap, here)
        PROVE  TableInv' /\ NoRepeat'
    <3> DEFINE now == clock + gap
    <3>1. now \in 1..MaxTime /\ clock < now /\ clock \in Nat /\ clock' = now
      BY <2>3, FilterAssumption DEF Received, TypeOK
    <3>2. CASE isAduplicateSignal(v, now)
      <4>1. UNCHANGED <<receivedSignal, stored, since>>
        BY <2>3, <3>2 DEF Received
      <4>2. TimesPast'
        <5>1. \A i \in Places : receivedSignal[i].time \in Nat
          BY FilterAssumption DEF TypeOK, ReceivedSignal
        <5> QED
          BY <4>1, <3>1, <5>1 DEF TableInv, TimesPast
      <4> QED
        BY <4>1, <4>2, <2>3, RepeatedIsForgotten
           DEF TableInv, Remembered, NewerWereStored, Newer, Distinct
    <3>3. CASE ~isAduplicateSignal(v, now)
      <4>1. storeSignalValue(v, now)
        BY <2>3, <3>3 DEF Received
      <4> QED
        BY <4>1, <3>1, <2>1, <2>3, TableKept, RepeatedIsForgotten
    <3> QED
      BY <3>2, <3>3
  <2> QED
    BY <2>1, <2>2, <2>3 DEF Next
<1> QED
  BY <1>1, <1>2, PTL DEF Spec
=============================================================================
