---------------------------- MODULE SignalFilter ----------------------------
(***************************************************************************)
(* The filter of repeated codes that the RF, IR, Sonoff bridge, weather    *)
(* station and rtl_433 gateways share (main.cpp 46-56, 3017-3069).  A      *)
(* remote repeats its code many times; a code is published when it is not  *)
(* in the table receivedSignal with a time less than time_avoid_duplicate  *)
(* ago, and is then stored in place of the oldest entry.  A code another   *)
(* gateway has published arrives over MQTT and is stored the same way.     *)
(*                                                                         *)
(* All of it runs on the loop task.  Times are those of millis(), a 32 bit *)
(* counter, here modulo Modulus.  Two codes are at least one millisecond   *)
(* apart: receiving one takes many.  The code 0 marks a free entry and is  *)
(* never stored (rtl_433, which does not test for it, hashes what it       *)
(* received).                                                              *)
(***************************************************************************)
EXTENDS Integers, FiniteSets

CONSTANTS
    Values,                 \* codes other than 0
    struct_size,            \* entries of the table
    time_avoid_duplicate,
    Modulus,                \* 2^32
    MaxGap,                 \* bound: time from one code to the next
    MaxTime                 \* bound: the time that passes since the boot

ASSUME FilterAssumption ==
    /\ 0 \notin Values
    /\ struct_size \in Nat \ {0}
    /\ time_avoid_duplicate \in Nat
    /\ Modulus \in Nat \ {0}
    /\ time_avoid_duplicate < Modulus
    /\ MaxGap \in Nat
    /\ MaxTime \in Nat

Places == 1..struct_size

ReceivedSignal == [value : Values \cup {0}, time : 0..(Modulus - 1)]

VARIABLES
    receivedSignal,
    clock,          \* the time since the boot; it does not wrap
    stored,         \* history: when a code was last stored (0: never)
    since,          \* history: the codes stored since then
    last            \* history: what became of the last code received

vars == <<receivedSignal, clock, stored, since, last>>

\* millis(), t after the boot.
millis(t) == t % Modulus

\* The last code received: whether it was published, whether it had been stored
\* before, how long before, and how many others had been stored since.
Nothing == [published |-> FALSE, dropped |-> FALSE, known |-> FALSE,
            age |-> 0, others |-> 0]

Init ==
    /\ receivedSignal = [i \in Places |-> [value |-> 0, time |-> 0]]
    /\ clock = 0
    /\ stored = [v \in Values |-> 0]
    /\ since = [v \in Values |-> 0]
    /\ last = Nothing

\* Mutant of getMin: the newest entry.
getMinMax ==
    CHOOSE o \in Places : \A i \in Places :
        \/ receivedSignal[o].time > receivedSignal[i].time
        \/ (receivedSignal[o].time = receivedSignal[i].time /\ o <= i)

\* The first of the entries with the smallest time.
getMin ==
    CHOOSE o \in Places : \A i \in Places :
        \/ receivedSignal[o].time < receivedSignal[i].time
        \/ (receivedSignal[o].time = receivedSignal[i].time /\ o <= i)

\* Mutant of isAduplicateSignal: only the time is looked at.
AnyRecent(v, t) ==
    \E i \in Places :
        (millis(t) - receivedSignal[i].time) % Modulus < time_avoid_duplicate

\* The difference of two unsigned 32 bit numbers.
isAduplicateSignal(v, t) ==
    \E i \in Places :
        /\ receivedSignal[i].value = v
        /\ (millis(t) - receivedSignal[i].time) % Modulus < time_avoid_duplicate

\* Mutant of Entry: value and time in the wrong order.
EntrySwapped(v, t) == [value |-> millis(t), time |-> v]

Entry(v, t) == [value |-> v, time |-> millis(t)]

storeSignalValue(v, t) ==
    /\ receivedSignal' = [receivedSignal EXCEPT ![getMin] = Entry(v, t)]
    /\ stored' = [stored EXCEPT ![v] = t]
    /\ since' = [w \in Values |-> IF w = v THEN 0
                                  ELSE IF stored[w] = 0 THEN 0 ELSE since[w] + 1]

\* A code is received by a gateway (here) or comes from another one over MQTT.
Received(v, gap, here) ==
    LET now == clock + gap
        new == ~isAduplicateSignal(v, now)
    IN  /\ now <= MaxTime
        /\ clock' = now
        /\ last' = [published |-> new /\ here, dropped |-> ~new,
                    known |-> stored[v] # 0, age |-> now - stored[v],
                    others |-> since[v]]
        /\ IF new THEN storeSignalValue(v, now)
           ELSE UNCHANGED <<receivedSignal, stored, since>>

Next == \E v \in Values, gap \in 1..MaxGap, here \in BOOLEAN : Received(v, gap, here)

Spec == Init /\ [][Next]_vars

-----------------------------------------------------------------------------
(* Properties                                                              *)

TypeOK ==
    /\ receivedSignal \in [Places -> ReceivedSignal]
    /\ clock \in 0..MaxTime
    /\ stored \in [Values -> 0..MaxTime]
    /\ since \in [Values -> Nat]
    /\ last \in [published : BOOLEAN, dropped : BOOLEAN, known : BOOLEAN,
                 age : Nat, others : Nat]

\* "the value is the time in milliseconds during which we don't publish
\* duplicates" (User_config.h 586): a code is published again within that time
\* only when the table was too small, that is, when as many other codes as it
\* has entries were stored in between.
NoRepeat ==
    last.published /\ last.known =>
        last.age >= time_avoid_duplicate \/ last.others >= struct_size

\* And nothing else is withheld: a code that is dropped was stored less than
\* time_avoid_duplicate before, here or by another gateway.
NoLoss ==
    last.dropped => last.known /\ last.age < time_avoid_duplicate
=============================================================================
