--------------------------- MODULE BleTableProofs ---------------------------
(***************************************************************************)
(* Theorems about BleTable, for any MACs, any bound of the table and any   *)
(* number of advertisements and commands: a MAC has one entry, and a table *)
(* that has outgrown its bound holds one device at most that may be        *)
(* evicted; and what refers to a device refers to one that was allocated.  *)
(*                                                                         *)
(* An entry is added for a MAC that was not found when the semaphore was   *)
(* taken.  The invariant carries that observation to the moment of the     *)
(* addition: only the holder of the semaphore adds, and what the other     *)
(* task does meanwhile gives no entry another MAC.  The second theorem     *)
(* adds what an eviction takes, and that no list is ever left but for the  *)
(* other one.                                                              *)
(***************************************************************************)
EXTENDS BleTable, SequenceTheorems, FiniteSetTheorems, WellFoundedInduction, TLAPS

Places == {"idle", "take", "write", "status", "discover", "discovered"}
Flags == {"init", "white", "black", "connect"}
Calls == [mac : Macs, flag : Flags, model : Kinds \cup {UNKNOWN_MODEL}]

\* The table refers to devices that were allocated.
TableOK ==
    /\ heap \in Seq(Device) /\ devices \in Seq(1..Len(heap))
    /\ clock \in Nat
    /\ pc \in [Tasks -> Places] /\ found \in [Tasks -> Nat]
    /\ DOMAIN call = Tasks
    /\ \A t \in Tasks : pc[t] \in {"take", "write"} => call[t] \in Calls

\* The task that writes holds the semaphore, and has not found what it adds.
WriterAlone == \A t \in Tasks : pc[t] = "write" => semaphore = t
NotFoundYet ==
    \A t \in Tasks : pc[t] = "write" /\ found[t] = NotFound =>
        \A i \in 1..Len(devices) : heap[devices[i]].mac # call[t].mac

\* The inductive invariant.
IInv == TableOK /\ WriterAlone /\ NotFoundYet /\ OneEntryPerMac

-----------------------------------------------------------------------------
\* A set of numbers has a smallest one.
LEMMA Smallest ==
    ASSUME NEW T \in SUBSET Nat, T # {}
    PROVE  \E m \in T : \A n \in T : m <= n
<1>1. PICK m \in T : \A n \in T : ~(<<n, m>> \in OpToRel(<, Nat))
  BY NatLessThanWellFounded, WFMin, Zenon
<1>2. \A n \in T : ~(n < m)
  BY <1>1 DEF OpToRel
<1> QED
  BY <1>2

\* A sequence without one of its elements.
LEMMA Removed ==
    ASSUME NEW S, NEW s \in Seq(S), NEW i \in 1..Len(s)
    PROVE  /\ RemoveAt(s, i) \in Seq(S)
           /\ Len(RemoveAt(s, i)) = Len(s) - 1
           /\ \A k \in 1..(Len(s) - 1) :
                 RemoveAt(s, i)[k] = s[IF k < i THEN k ELSE k + 1]
<1> DEFINE a == SubSeq(s, 1, i - 1)
           b == SubSeq(s, i + 1, Len(s))
<1>1. /\ a \in Seq(S) /\ Len(a) = i - 1
      /\ \A k \in 1..(i - 1) : a[k] = s[k]
  BY SubSeqProperties
<1>2. /\ b \in Seq(S) /\ Len(b) = Len(s) - i
      /\ \A k \in 1..(Len(s) - i) : b[k] = s[i + k]
  <2>1. i + 1 \in 1..(Len(s) + 1) /\ Len(s) \in i..Len(s) /\ Len(s) \in Nat /\ i \in Nat
    OBVIOUS
  <2>2. b \in Seq(S) /\ Len(b) = (IF i + 1 <= Len(s) THEN Len(s) - (i + 1) + 1 ELSE 0)
    BY <2>1, SubSeqProperties
  <2>3. \A k \in 1..(Len(s) - (i + 1) + 1) : b[k] = s[i + 1 + k - 1]
    BY <2>1, SubSeqProperties
  <2> QED
    BY <2>1, <2>2, <2>3
<1>3. RemoveAt(s, i) = a \o b
  BY DEF RemoveAt
<1> HIDE DEF a, b
<1>4. /\ a \o b \in Seq(S) /\ Len(a \o b) = Len(s) - 1
      /\ \A k \in 1..(Len(s) - 1) : (a \o b)[k] = IF k <= i - 1 THEN a[k] ELSE b[k - (i - 1)]
  <2>1. Len(a) + Len(b) = Len(s) - 1
    BY <1>1, <1>2
  <2>2. /\ a \o b \in Seq(S) /\ Len(a \o b) = Len(a) + Len(b)
        /\ \A k \in 1..(Len(a) + Len(b)) :
              (a \o b)[k] = IF k <= Len(a) THEN a[k] ELSE b[k - Len(a)]
    BY <1>1, <1>2, ConcatProperties, Zenon
  <2> QED
    BY <1>1, <2>1, <2>2
<1>5. ASSUME NEW k \in 1..(Len(s) - 1)
      PROVE  (a \o b)[k] = s[IF k < i THEN k ELSE k + 1]
  <2>1. CASE k < i
    BY <1>1, <1>4, <2>1
  <2>2. CASE ~(k < i)
    <3>1. k - (i - 1) \in 1..(Len(s) - i) /\ i + (k - (i - 1)) = k + 1
      BY <2>2
    <3>2. b[k - (i - 1)] = s[k + 1]
      BY <1>2, <3>1
    <3> QED
      BY <1>4, <2>2, <3>2
  <2> QED
    BY <2>1, <2>2
<1> QED
  BY <1>3, <1>4, <1>5

\* What is evicted: nothing, or the entry at one place, from a table that is full.
LEMMA EvictedIs ==
    ASSUME TableOK
    PROVE  \/ /\ Evicted = devices
              /\ Len(devices) < MaxBLEDevices
                 \/ \A i \in 1..Len(devices) : ~Evictable(devices[i])
           \/ /\ ~(Len(devices) < MaxBLEDevices)
              /\ \E i \in 1..Len(devices) :
                    Evictable(devices[i]) /\ Evicted = RemoveAt(devices, i)
<1> DEFINE c == {i \in 1..Len(devices) : Evictable(devices[i])}
           Oldest(i) == \A j \in c :
                 \/ heap[devices[i]].lastUpdate < heap[devices[j]].lastUpdate
                 \/ heap[devices[i]].lastUpdate = heap[devices[j]].lastUpdate /\ i <= j
<1>1. devices \in Seq(1..Len(heap)) /\ Len(devices) \in Nat
  BY DEF TableOK
<1>2. CASE Len(devices) < MaxBLEDevices \/ c = {}
  <2>1. Evicted = devices
    BY <1>2 DEF Evicted
  <2> QED
    BY <1>2, <2>1
<1>3. CASE ~(Len(devices) < MaxBLEDevices) /\ c # {}
  <2>0. Evicted = RemoveAt(devices, CHOOSE i \in c : Oldest(i))
    BY <1>3 DEF Evicted
  <2>1. \A i \in c : heap[devices[i]].lastUpdate \in Nat
    <3>1. \A i \in c : devices[i] \in 1..Len(heap)
      BY <1>1
    <3>2. \A d \in 1..Len(heap) : heap[d] \in Device
      BY DEF TableOK
    <3>3. \A r \in Device : r.lastUpdate \in Nat
      BY DEF Device
    <3> QED
      BY <3>1, <3>2, <3>3
  <2>2. \E i \in c : Oldest(i)
    <3> DEFINE times == {heap[devices[i]].lastUpdate : i \in c}
    <3>1. times \in SUBSET Nat /\ times # {}
      BY <1>3, <2>1
    <3>2. PICK m \in times : \A n \in times : m <= n
      BY <3>1, Smallest
    <3> DEFINE first == {i \in c : heap[devices[i]].lastUpdate = m}
    <3>3. first \in SUBSET Nat /\ first # {}
      BY <3>2
    <3>4. PICK i \in first : \A j \in first : i <= j
      BY <3>3, Smallest
    <3>5. ASSUME NEW j \in c
          PROVE  \/ heap[devices[i]].lastUpdate < heap[devices[j]].lastUpdate
                 \/ heap[devices[i]].lastUpdate = heap[devices[j]].lastUpdate /\ i <= j
      <4>1. heap[devices[i]].lastUpdate = m /\ heap[devices[j]].lastUpdate \in times
        BY <3>4
      <4>2. m <= heap[devices[j]].lastUpdate
        BY <3>2, <4>1
      <4>3. CASE heap[devices[j]].lastUpdate = m
        BY <3>4, <4>1, <4>3
      <4>4. CASE heap[devices[j]].lastUpdate # m
        BY <2>1, <4>1, <4>2, <4>4
      <4> QED
        BY <4>3, <4>4
    <3> QED
      BY <3>4, <3>5
  <2>3. PICK i \in c : Evicted = RemoveAt(devices, i)
    BY <2>0, <2>2
  <2> QED
    BY <1>3, <2>3
<1> QED
  BY <1>2, <1>3

\* The table after an eviction holds entries it held, each in one place.
LEMMA EvictedProperties ==
    ASSUME TableOK
    PROVE  /\ Evicted \in Seq(1..Len(heap))
           /\ \E from \in [1..Len(Evicted) -> 1..Len(devices)] :
                 /\ \A k \in 1..Len(Evicted) : Evicted[k] = devices[from[k]]
                 /\ \A k, l \in 1..Len(Evicted) : from[k] = from[l] => k = l
<1>1. devices \in Seq(1..Len(heap)) /\ Len(devices) \in Nat
  BY DEF TableOK
<1>2. CASE Evicted = devices
  <2> DEFINE from == [k \in 1..Len(devices) |-> k]
  <2>1. /\ from \in [1..Len(devices) -> 1..Len(devices)]
        /\ \A k \in 1..Len(devices) : devices[k] = devices[from[k]]
        /\ \A k, l \in 1..Len(devices) : from[k] = from[l] => k = l
    OBVIOUS
  <2> HIDE DEF from
  <2> QED
    BY <1>1, <1>2, <2>1
<1>3. ASSUME NEW i \in 1..Len(devices), Evicted = RemoveAt(devices, i)
      PROVE  /\ Evicted \in Seq(1..Len(heap))
             /\ \E from \in [1..Len(Evicted) -> 1..Len(devices)] :
                   /\ \A k \in 1..Len(Evicted) : Evicted[k] = devices[from[k]]
                   /\ \A k, l \in 1..Len(Evicted) : from[k] = from[l] => k = l
  <2>5. /\ Evicted \in Seq(1..Len(heap)) /\ Len(Evicted) = Len(devices) - 1
        /\ \A k \in 1..(Len(devices) - 1) :
              Evicted[k] = devices[IF k < i THEN k ELSE k + 1]
    BY <1>1, <1>3, Removed
  <2> DEFINE from == [k \in 1..Len(Evicted) |-> IF k < i THEN k ELSE k + 1]
  <2>6. /\ from \in [1..Len(Evicted) -> 1..Len(devices)]
        /\ \A k \in 1..Len(Evicted) : Evicted[k] = devices[from[k]]
        /\ \A k, l \in 1..Len(Evicted) : from[k] = from[l] => k = l
    <3>1. Len(Evicted) = Len(devices) - 1 /\ Len(devices) \in Nat /\ i \in 1..Len(devices)
      BY <1>1, <2>5
    <3>2. \A k \in 1..Len(Evicted) : from[k] = IF k < i THEN k ELSE k + 1
      OBVIOUS
    <3>3. \A k \in 1..Len(Evicted) : (IF k < i THEN k ELSE k + 1) \in 1..Len(devices)
      BY <3>1
    <3>4. from \in [1..Len(Evicted) -> 1..Len(devices)]
      BY <3>3
    <3>5. \A k \in 1..Len(Evicted) : Evicted[k] = devices[from[k]]
      BY <2>5, <3>1, <3>2
    <3> HIDE DEF from
    <3>6. \A k, l \in 1..Len(Evicted) : from[k] = from[l] => k = l
      BY <3>1, <3>2
    <3> QED
      BY <3>4, <3>5, <3>6
  <2> HIDE DEF from
  <2> QED
    BY <2>5, <2>6
<1> QED
  BY <1>2, <1>3, EvictedIs

\* A MAC that getDeviceByMac does not find has no entry.
LEMMA NotFoundMeans ==
    ASSUME TableOK, NEW mac, getDeviceByMac(mac) = NotFound
    PROVE  \A i \in 1..Len(devices) : heap[devices[i]].mac # mac
<1> DEFINE at == {i \in 1..Len(devices) : heap[devices[i]].mac = mac}
<1>1. SUFFICES ASSUME at # {} PROVE FALSE
  OBVIOUS
<1>2. at \in SUBSET Nat
  OBVIOUS
<1>3. \E i \in at : \A j \in at : i <= j
  BY <1>1, <1>2, Smallest
<1>4. PICK i \in at : getDeviceByMac(mac) = devices[i]
  BY <1>1, <1>3 DEF getDeviceByMac
<1>5. devices[i] \in 1..Len(heap)
  BY <1>4 DEF TableOK
<1> QED
  BY <1>4, <1>5 DEF NotFound

LEMMA Found ==
    ASSUME TableOK, NEW mac, getDeviceByMac(mac) # NotFound
    PROVE  getDeviceByMac(mac) \in Nat
<1> DEFINE at == {i \in 1..Len(devices) : heap[devices[i]].mac = mac}
<1>1. at # {} /\ at \in SUBSET Nat
  BY DEF getDeviceByMac
<1>2. \E i \in at : \A j \in at : i <= j
  BY <1>1, Smallest
<1>3. PICK i \in at : getDeviceByMac(mac) = devices[i]
  BY <1>1, <1>2 DEF getDeviceByMac
<1>4. devices[i] \in 1..Len(heap)
  BY <1>3 DEF TableOK
<1> QED
  BY <1>3, <1>4

-----------------------------------------------------------------------------
LEMMA InitHolds ==
    ASSUME Init
    PROVE  IInv
<1>1. heap = <<>> /\ devices = <<>> /\ Len(devices) = 0 /\ clock = 1
  BY DEF Init
<1>2. \A t \in Tasks : pc[t] = "idle"
  BY DEF Init
<1>3. TableOK
  <2>1. heap \in Seq(Device) /\ devices \in Seq(1..Len(heap)) /\ clock \in Nat
    BY <1>1
  <2>2. pc \in [Tasks -> Places] /\ DOMAIN call = Tasks
    BY DEF Init, Places
  <2>3. found \in [Tasks -> Nat]
    BY DEF Init, NotFound
  <2> QED
    BY <1>2, <2>1, <2>2, <2>3 DEF TableOK
<1> QED
  BY <1>1, <1>2, <1>3 DEF IInv, WriterAlone, NotFoundYet, OneEntryPerMac

\* A step that leaves the table, but for what is known of a device other than its MAC,
\* and starts or moves a task that does not begin to write.
LEMMA Quiet ==
    ASSUME IInv, TableOK',
           devices' = devices, Len(heap') = Len(heap),
           \A d \in 1..Len(heap) : heap'[d].mac = heap[d].mac,
           \A t \in Tasks : pc'[t] = "write" =>
               pc[t] = "write" /\ semaphore' = semaphore /\ found'[t] = found[t]
                              /\ call'[t] = call[t]
    PROVE  IInv'
<1>1. /\ devices \in Seq(1..Len(heap))
      /\ \A i \in 1..Len(devices) : heap'[devices[i]].mac = heap[devices[i]].mac
  BY DEF IInv, TableOK
<1>2. WriterAlone'
  BY DEF IInv, WriterAlone
<1>3. NotFoundYet'
  BY <1>1 DEF IInv, NotFoundYet
<1>4. OneEntryPerMac'
  BY <1>1 DEF IInv, OneEntryPerMac
<1> QED
  BY <1>2, <1>3, <1>4 DEF IInv

\* The search, once the semaphore is taken.
LEMMA TakeHolds ==
    ASSUME IInv, NEW t \in Tasks, Take(t)
    PROVE  IInv'
<1>1. /\ pc[t] = "take" /\ semaphore = "free" /\ semaphore' = t
      /\ found' = [found EXCEPT ![t] = getDeviceByMac(call[t].mac)]
      /\ pc' = [pc EXCEPT ![t] = "write"]
      /\ UNCHANGED <<heap, devices, call, clock>>
  BY DEF Take, Goto, table
<1>2. \A u \in Tasks : pc[u] # "write"
  BY <1>1 DEF IInv, WriterAlone, Tasks
<1>3. /\ pc' \in [Tasks -> Places] /\ pc'[t] = "write"
      /\ \A u \in Tasks \ {t} : pc'[u] = pc[u]
  BY <1>1 DEF IInv, TableOK, Places
<1>4. getDeviceByMac(call[t].mac) \in Nat
  <2>1. CASE getDeviceByMac(call[t].mac) = NotFound
    BY <2>1 DEF NotFound
  <2>2. CASE getDeviceByMac(call[t].mac) # NotFound
    BY <2>2, Found DEF IInv
  <2> QED
    BY <2>1, <2>2
<1>5. TableOK'
  <2>1. found' \in [Tasks -> Nat]
    BY <1>1, <1>4 DEF IInv, TableOK
  <2>2. \A u \in Tasks : pc'[u] \in {"take", "write"} => call'[u] \in Calls
    BY <1>1, <1>3 DEF IInv, TableOK
  <2> QED
    BY <1>1, <1>3, <2>1, <2>2 DEF IInv, TableOK
<1>6. WriterAlone'
  BY <1>1, <1>2, <1>3 DEF WriterAlone
<1>7. NotFoundYet'
  <2>1. found'[t] = getDeviceByMac(call[t].mac)
    BY <1>1 DEF IInv, TableOK
  <2>2. found'[t] = NotFound => \A i \in 1..Len(devices) : heap[devices[i]].mac # call[t].mac
    BY <2>1, NotFoundMeans DEF IInv
  <2> QED
    BY <1>1, <1>2, <1>3, <2>2 DEF NotFoundYet
<1>8. OneEntryPerMac'
  BY <1>1 DEF IInv, OneEntryPerMac
<1> QED
  BY <1>5, <1>6, <1>7, <1>8 DEF IInv

\* After the write no task writes: the other does not hold the semaphore.
LEMMA WriteEnds ==
    ASSUME IInv, NEW t \in Tasks, createOrUpdateDevice(t)
    PROVE  /\ \A u \in Tasks : pc'[u] # "write"
           /\ pc' \in [Tasks -> Places] /\ found' \in [Tasks -> Nat] /\ clock' \in Nat
           /\ DOMAIN call' = Tasks
           /\ \A u \in Tasks : pc'[u] \in {"take", "write"} => call'[u] \in Calls
<1>1. /\ pc[t] = "write" /\ pc' = [pc EXCEPT ![t] = After(t)]
      /\ found' = [found EXCEPT ![t] = NotFound] /\ call' = [call EXCEPT ![t] = NoCall]
      /\ clock' = clock
  BY DEF createOrUpdateDevice, Goto
<1>2. \A u \in Tasks \ {t} : pc[u] # "write"
  BY <1>1 DEF IInv, WriterAlone
<1>3. /\ pc' \in [Tasks -> Places] /\ pc'[t] \in {"status", "idle"}
      /\ \A u \in Tasks \ {t} : pc'[u] = pc[u]
  BY <1>1 DEF IInv, TableOK, After, Places
<1>4. /\ found' \in [Tasks -> Nat] /\ DOMAIN call' = Tasks
      /\ \A u \in Tasks \ {t} : call'[u] = call[u]
  BY <1>1 DEF IInv, TableOK, NotFound
<1> QED
  BY <1>1, <1>2, <1>3, <1>4 DEF IInv, TableOK

\* What a new device is.
LEMMA NewDevice ==
    ASSUME NEW c \in Calls, NEW n \in Nat
    PROVE  [mac |-> c.mac, isDisc |-> FALSE, isWhtL |-> c.flag = "white",
            isBlkL |-> c.flag = "black", connect |-> c.flag = "connect",
            model |-> c.model, lastUpdate |-> n] \in Device
<1>1. /\ (c.flag = "white") \in BOOLEAN /\ (c.flag = "black") \in BOOLEAN
      /\ (c.flag = "connect") \in BOOLEAN
  OBVIOUS
<1>2. c.mac \in Macs /\ c.model \in Kinds \cup {UNKNOWN_MODEL}
  BY DEF Calls
<1> QED
  BY <1>1, <1>2 DEF Device

\* The addition: the MAC is not in the table.
LEMMA AddHolds ==
    ASSUME IInv, NEW t \in Tasks, createOrUpdateDevice(t), found[t] = NotFound
    PROVE  IInv'
<1> DEFINE c == call[t]
           new == [mac |-> c.mac, isDisc |-> FALSE, isWhtL |-> c.flag = "white",
                   isBlkL |-> c.flag = "black", connect |-> c.flag = "connect",
                   model |-> c.model, lastUpdate |-> clock]
<1>1. pc[t] = "write" /\ heap' = Append(heap, new) /\ devices' = Append(Evicted, Len(heap) + 1)
  BY DEF createOrUpdateDevice, Add
<1>2. c \in Calls /\ new \in Device /\ new.mac = c.mac
  BY <1>1, NewDevice DEF IInv, TableOK
<1> HIDE DEF new
<1>3. /\ heap' \in Seq(Device) /\ Len(heap') = Len(heap) + 1 /\ Len(heap) \in Nat
      /\ \A d \in 1..Len(heap) : heap'[d] = heap[d]
      /\ heap'[Len(heap) + 1] = new
  BY <1>1, <1>2 DEF IInv, TableOK
<1>4. /\ Evicted \in Seq(1..Len(heap)) /\ Len(Evicted) \in Nat
  BY EvictedProperties DEF IInv
<1>5. /\ devices' \in Seq(1..Len(heap')) /\ Len(devices') = Len(Evicted) + 1
      /\ \A k \in 1..Len(Evicted) : devices'[k] = Evicted[k]
      /\ devices'[Len(Evicted) + 1] = Len(heap) + 1
  <2>1. Evicted \in Seq(1..Len(heap'))
    BY <1>3, <1>4, SeqMonotonic
  <2>2. Len(heap) + 1 \in 1..Len(heap')
    BY <1>3
  <2> HIDE DEF Evicted
  <2> QED
    BY <1>1, <2>1, <2>2, AppendProperties
<1>6. PICK from \in [1..Len(Evicted) -> 1..Len(devices)] :
         /\ \A k \in 1..Len(Evicted) : Evicted[k] = devices[from[k]]
         /\ \A k, l \in 1..Len(Evicted) : from[k] = from[l] => k = l
  BY EvictedProperties DEF IInv
<1>7. \A i \in 1..Len(devices) : devices[i] \in 1..Len(heap)
  BY DEF IInv, TableOK
<1>8. ASSUME NEW k \in 1..Len(Evicted)
      PROVE  /\ heap'[devices'[k]].mac = heap[devices[from[k]]].mac
             /\ heap'[devices'[k]].mac # c.mac
  <2>1. from[k] \in 1..Len(devices) /\ devices'[k] = devices[from[k]]
    BY <1>5, <1>6
  <2>2. heap'[devices'[k]] = heap[devices[from[k]]]
    BY <1>3, <1>7, <2>1
  <2>3. heap[devices[from[k]]].mac # c.mac
    BY <1>1, <2>1 DEF IInv, NotFoundYet
  <2> QED
    BY <2>2, <2>3
<1>9. heap'[devices'[Len(Evicted) + 1]].mac = c.mac
  BY <1>2, <1>3, <1>5
<1>10. OneEntryPerMac'
  <2> SUFFICES ASSUME NEW i \in 1..(Len(Evicted) + 1), NEW j \in 1..(Len(Evicted) + 1),
                      heap'[devices'[i]].mac = heap'[devices'[j]].mac
               PROVE  i = j
    BY <1>5 DEF OneEntryPerMac
  <2>1. CASE i \in 1..Len(Evicted) /\ j \in 1..Len(Evicted)
    <3>1. heap[devices[from[i]]].mac = heap[devices[from[j]]].mac
      BY <1>8, <2>1
    <3>2. from[i] \in 1..Len(devices) /\ from[j] \in 1..Len(devices)
      BY <1>6, <2>1
    <3>3. from[i] = from[j]
      BY <3>1, <3>2 DEF IInv, OneEntryPerMac
    <3> QED
      BY <1>6, <2>1, <3>3
  <2>2. CASE i = Len(Evicted) + 1 \/ j = Len(Evicted) + 1
    BY <1>4, <1>8, <1>9, <2>2
  <2> QED
    BY <1>4, <2>1, <2>2
<1>11. \A u \in Tasks : pc'[u] # "write"
  BY <1>1, WriteEnds DEF IInv
<1>12. TableOK'
  BY <1>3, <1>5, WriteEnds DEF IInv, TableOK
<1> QED
  BY <1>10, <1>11, <1>12 DEF IInv, WriterAlone, NotFoundYet

\* A device with another record in its place, of the same MAC.
LEMMA Rewritten ==
    ASSUME TableOK, NEW d, NEW r, d \in 1..Len(heap) => r \in Device /\ r.mac = heap[d].mac
    PROVE  LET new == [heap EXCEPT ![d] = r]
           IN  /\ new \in Seq(Device) /\ Len(new) = Len(heap)
               /\ \A e \in 1..Len(heap) : new[e].mac = heap[e].mac
<1>1. heap \in Seq(Device) /\ DOMAIN heap = 1..Len(heap)
  BY DEF TableOK
<1>2. CASE d \in 1..Len(heap)
  BY <1>1, <1>2, ExceptSeq
<1>3. CASE d \notin 1..Len(heap)
  <2>1. [heap EXCEPT ![d] = r] = heap
    BY <1>1, <1>3
  <2> QED
    BY <1>1, <2>1
<1> QED
  BY <1>2, <1>3

\* The update of the entry that was found.
LEMMA UpdateHolds ==
    ASSUME IInv, NEW t \in Tasks, createOrUpdateDevice(t), found[t] # NotFound
    PROVE  IInv'
<1> DEFINE d == found[t]
           c == call[t]
           learnt == c.model # UNKNOWN_MODEL /\ heap[d].model = UNKNOWN_MODEL
           lists == c.flag \in {"white", "black"}
           connect == heap[d].connect \/ c.flag = "connect"
           model == IF learnt THEN c.model ELSE heap[d].model
           disc == heap[d].isDisc /\ ~learnt
           white == IF lists THEN c.flag = "white" ELSE heap[d].isWhtL
           black == IF lists THEN c.flag = "black" ELSE heap[d].isBlkL
           new == [heap[d] EXCEPT !.lastUpdate = clock, !.connect = connect, !.model = model,
                                  !.isDisc = disc, !.isWhtL = white, !.isBlkL = black]
<1>1. pc[t] = "write" /\ heap' = [heap EXCEPT ![d] = new] /\ devices' = devices
  BY DEF createOrUpdateDevice, Update
<1>2. c \in Calls /\ clock \in Nat
  BY <1>1 DEF IInv, TableOK
<1>3. ASSUME d \in 1..Len(heap)
      PROVE  new \in Device /\ new.mac = heap[d].mac
  <2>1. heap[d] \in Device
    BY <1>3 DEF IInv, TableOK
  <2>2. model \in Kinds \cup {UNKNOWN_MODEL}
    BY <1>2, <2>1 DEF Calls, Device
  <2>3. /\ heap[d].connect \in BOOLEAN /\ heap[d].isDisc \in BOOLEAN
        /\ heap[d].isWhtL \in BOOLEAN /\ heap[d].isBlkL \in BOOLEAN
    BY <2>1 DEF Device
  <2>4. connect \in BOOLEAN /\ disc \in BOOLEAN /\ white \in BOOLEAN /\ black \in BOOLEAN
    BY <2>3, Zenon
  <2> HIDE DEF connect, model, disc, white, black
  <2>5. LET r == [heap[d] EXCEPT !.lastUpdate = clock, !.connect = connect, !.model = model,
                                 !.isDisc = disc, !.isWhtL = white, !.isBlkL = black]
        IN  r \in Device /\ r.mac = heap[d].mac
    BY <1>2, <2>1, <2>2, <2>4 DEF Device
  <2> QED
    BY <2>5
<1> HIDE DEF new
<1>4. /\ heap' \in Seq(Device) /\ Len(heap') = Len(heap)
      /\ \A e \in 1..Len(heap) : heap'[e].mac = heap[e].mac
  BY <1>1, <1>3, Rewritten DEF IInv
<1>5. TableOK'
  BY <1>1, <1>4, WriteEnds DEF IInv, TableOK
<1> QED
  BY <1>1, <1>4, <1>5, WriteEnds, Quiet

\* A step of a task that does not go to write, and leaves the table but for what is
\* known of a device other than its MAC.
LEMMA Moved ==
    ASSUME IInv, NEW t \in Tasks,
           pc' \in [Tasks -> Places], DOMAIN call' = Tasks,
           \A u \in Tasks \ {t} : pc'[u] = pc[u] /\ call'[u] = call[u],
           pc'[t] # "write", pc'[t] = "take" => call'[t] \in Calls,
           devices' = devices, semaphore' = semaphore, found' = found, clock' \in Nat,
           heap' \in Seq(Device), Len(heap') = Len(heap),
           \A d \in 1..Len(heap) : heap'[d].mac = heap[d].mac
    PROVE  IInv'
<1>1. \A u \in Tasks : pc'[u] \in {"take", "write"} => call'[u] \in Calls
  BY DEF IInv, TableOK
<1>2. TableOK'
  BY <1>1 DEF IInv, TableOK
<1>3. \A u \in Tasks : pc'[u] = "write" =>
          pc[u] = "write" /\ semaphore' = semaphore /\ found'[u] = found[u] /\ call'[u] = call[u]
  OBVIOUS
<1> QED
  BY <1>2, <1>3, Quiet

\* ... of which one record is written.
LEMMA Recorded ==
    ASSUME IInv, NEW t \in Tasks, NEW l \in Places \ {"take", "write"}, NEW d, NEW r,
           d \in 1..Len(heap) => r \in Device /\ r.mac = heap[d].mac,
           heap' = [heap EXCEPT ![d] = r],
           pc' = [pc EXCEPT ![t] = l], call' = call,
           devices' = devices, semaphore' = semaphore, found' = found, clock' \in Nat
    PROVE  IInv'
<1>1. /\ heap' \in Seq(Device) /\ Len(heap') = Len(heap)
      /\ \A e \in 1..Len(heap) : heap'[e].mac = heap[e].mac
  BY Rewritten DEF IInv
<1>2. /\ pc' \in [Tasks -> Places] /\ pc'[t] = l
      /\ \A u \in Tasks \ {t} : pc'[u] = pc[u]
  BY DEF IInv, TableOK
<1>3. DOMAIN call' = Tasks
  BY DEF IInv, TableOK
<1> QED
  BY <1>1, <1>2, <1>3, Moved

\* ... of which none is.
LEMMA Sent ==
    ASSUME IInv, NEW t \in Tasks, NEW l \in Places \ {"write"}, NEW k,
           pc' = [pc EXCEPT ![t] = l], call' = [call EXCEPT ![t] = k], l = "take" => k \in Calls,
           heap' = heap, devices' = devices, semaphore' = semaphore, found' = found, clock' \in Nat
    PROVE  IInv'
<1>1. /\ pc' \in [Tasks -> Places] /\ pc'[t] = l
      /\ \A u \in Tasks \ {t} : pc'[u] = pc[u]
  BY DEF IInv, TableOK
<1>2. /\ DOMAIN call' = Tasks /\ call'[t] = k
      /\ \A u \in Tasks \ {t} : call'[u] = call[u]
  BY DEF IInv, TableOK
<1>3. /\ heap' \in Seq(Device) /\ Len(heap') = Len(heap)
      /\ \A e \in 1..Len(heap) : heap'[e].mac = heap[e].mac
  BY DEF IInv, TableOK
<1> QED
  BY <1>1, <1>2, <1>3, Moved

\* ... and the task has no new call.
LEMMA Gone ==
    ASSUME IInv, NEW t \in Tasks, NEW l \in Places \ {"take", "write"},
           pc' = [pc EXCEPT ![t] = l], call' = call,
           heap' = heap, devices' = devices, semaphore' = semaphore, found' = found, clock' \in Nat
    PROVE  IInv'
<1>1. /\ pc' \in [Tasks -> Places] /\ pc'[t] = l /\ DOMAIN call' = Tasks
      /\ \A u \in Tasks \ {t} : pc'[u] = pc[u] /\ call'[u] = call[u]
  BY DEF IInv, TableOK
<1>2. /\ heap' \in Seq(Device) /\ Len(heap') = Len(heap)
      /\ \A e \in 1..Len(heap) : heap'[e].mac = heap[e].mac
  BY DEF IInv, TableOK
<1> QED
  BY <1>1, <1>2, Moved

-----------------------------------------------------------------------------
LEMMA AdvertisementHolds ==
    ASSUME IInv, NEW mac \in Macs, NEW kind \in Kinds, Advertisement(mac, kind)
    PROVE  IInv'
<1>1. /\ heap' = heap /\ devices' = devices /\ semaphore' = semaphore /\ found' = found
      /\ clock' = clock + 1 /\ pc["proc"] = "idle"
  BY DEF Advertisement, Tick, table
<1>2. "proc" \in Tasks /\ clock' \in Nat /\ pc = [pc EXCEPT !["proc"] = "idle"]
  BY <1>1 DEF IInv, TableOK, Tasks
<1>3. CASE pc' = pc /\ call' = call
  BY <1>1, <1>2, <1>3, Gone DEF Places
<1>4. CASE Goto("proc", "status") /\ call' = call
  BY <1>1, <1>2, <1>4, Gone DEF Places, Goto
<1>5. CASE process_bledata(mac, kind) /\ kind \in {"tracker", "sensor", "connect"}
  <2> DEFINE f == IF kind = "connect" THEN "connect" ELSE "init"
             k == [mac |-> mac, model |-> kind, flag |-> f]
  <2>1. pc' = [pc EXCEPT !["proc"] = "take"] /\ call' = [call EXCEPT !["proc"] = k]
    BY <1>5 DEF process_bledata, Goto
  <2>2. k \in Calls
    <3>1. f \in Flags
      BY DEF Flags
    <3> HIDE DEF f
    <3> QED
      BY <3>1 DEF Calls
  <2> HIDE DEF k
  <2> QED
    BY <1>1, <1>2, <2>1, <2>2, Sent DEF Places
<1>6. CASE process_bledata(mac, kind) /\ kind \notin {"tracker", "sensor", "connect"}
  <2>1. Goto("proc", "status") /\ call' = call
    BY <1>6 DEF process_bledata
  <2> QED
    BY <1>4, <2>1
<1> QED
  BY <1>3, <1>4, <1>5, <1>6 DEF Advertisement

LEMMA StatusHolds ==
    ASSUME IInv, updateDevicesStatus
    PROVE  IInv'
<1> DEFINE away == {d \in ToSet(devices) : Away(d)}
<1>1. /\ heap' = [d \in 1..Len(heap) |->
                     IF d \in away THEN [heap[d] EXCEPT !.lastUpdate = 0] ELSE heap[d]]
      /\ pc' = [pc EXCEPT !["proc"] = "idle"]
      /\ UNCHANGED <<devices, semaphore, call, found, clock>>
  BY DEF updateDevicesStatus, Goto
<1> HIDE DEF away
<1>2. \A d \in 1..Len(heap) : heap[d] \in Device
  BY DEF IInv, TableOK
<1>3. \A e \in Device : /\ [e EXCEPT !.lastUpdate = 0] \in Device
                        /\ [e EXCEPT !.lastUpdate = 0].mac = e.mac
  BY DEF Device
<1>4. /\ heap' \in Seq(Device) /\ Len(heap') = Len(heap)
      /\ \A d \in 1..Len(heap) : heap'[d].mac = heap[d].mac
  <2>1. Len(heap) \in Nat
    BY DEF IInv, TableOK
  <2>2. heap' \in [1..Len(heap) -> Device]
    BY <1>1, <1>2, <1>3
  <2>3. heap' \in Seq(Device) /\ Len(heap') = Len(heap)
    BY <2>1, <2>2, SeqDef
  <2>4. \A d \in 1..Len(heap) : heap'[d].mac = heap[d].mac
    BY <1>1, <1>2, <1>3
  <2> QED
    BY <2>3, <2>4
<1>5. /\ pc' \in [Tasks -> Places] /\ pc'["proc"] = "idle" /\ DOMAIN call' = Tasks
      /\ \A u \in Tasks \ {"proc"} : pc'[u] = pc[u] /\ call'[u] = call[u]
      /\ clock' \in Nat /\ "proc" \in Tasks
  BY <1>1 DEF IInv, TableOK, Places, Tasks
<1> QED
  BY <1>1, <1>4, <1>5, Moved

\* Each action of the next-state relation.
LEMMA StepHolds ==
    ASSUME IInv, [Next]_tableVars
    PROVE  IInv'
<1>0. "loop" \in Tasks
  BY DEF Tasks
<1>1. ASSUME NEW t \in Tasks, Take(t)
      PROVE  IInv'
  BY <1>1, TakeHolds
<1>2. ASSUME NEW t \in Tasks, TakeTimesOut(t)
      PROVE  IInv'
  <2>1. /\ heap' = heap /\ devices' = devices /\ semaphore' = semaphore /\ found' = found
        /\ clock' = clock
        /\ pc' = [pc EXCEPT ![t] = After(t)] /\ call' = [call EXCEPT ![t] = NoCall]
    BY <1>2 DEF TakeTimesOut, Goto, table
  <2>2. After(t) \in Places \ {"take", "write"} /\ clock \in Nat
    BY DEF After, Places, IInv, TableOK
  <2> HIDE DEF After, NoCall
  <2> QED
    BY <2>1, <2>2, Sent
<1>3. ASSUME NEW t \in Tasks, createOrUpdateDevice(t)
      PROVE  IInv'
  BY <1>3, AddHolds, UpdateHolds
<1>4. ASSUME NEW mac \in Macs, NEW kind \in Kinds, Advertisement(mac, kind)
      PROVE  IInv'
  BY <1>4, AdvertisementHolds
<1>5. ASSUME NEW mac \in Macs, NEW color \in {"white", "black"}, updateWorB(mac, color)
      PROVE  IInv'
  <2> DEFINE k == [mac |-> mac, flag |-> color, model |-> UNKNOWN_MODEL]
  <2>1. /\ heap' = heap /\ devices' = devices /\ semaphore' = semaphore /\ found' = found
        /\ clock' = clock + 1
        /\ pc' = [pc EXCEPT !["loop"] = "take"] /\ call' = [call EXCEPT !["loop"] = k]
    BY <1>5 DEF updateWorB, Tick, Goto, table
  <2>2. k \in Calls /\ clock' \in Nat
    <3>1. color \in Flags
      BY DEF Flags
    <3>2. k \in Calls
      BY <3>1 DEF Calls
    <3>3. clock' \in Nat
      BY <2>1 DEF IInv, TableOK
    <3> QED
      BY <3>2, <3>3
  <2> HIDE DEF k
  <2> QED
    BY <1>0, <2>1, <2>2, Sent DEF Places
<1>6. ASSUME NEW mac \in Macs, TrackerSync(mac)
      PROVE  IInv'
  <2> DEFINE d == getDeviceByMac(mac)
             r == [heap[d] EXCEPT !.lastUpdate = 0]
  <2>1. /\ heap' = [heap EXCEPT ![d] = r] /\ clock' = clock + 1
        /\ devices' = devices /\ semaphore' = semaphore /\ found' = found
        /\ pc["loop"] = "idle" /\ pc' = pc /\ call' = call
    BY <1>6 DEF TrackerSync, Tick
  <2> HIDE DEF d
  <2>2. d \in 1..Len(heap) => r \in Device /\ r.mac = heap[d].mac
    <3>1. d \in 1..Len(heap) => heap[d] \in Device
      BY DEF IInv, TableOK
    <3>2. \A old \in Device : LET new == [old EXCEPT !.lastUpdate = 0]
                              IN  new \in Device /\ new.mac = old.mac
      BY DEF Device
    <3> QED
      BY <3>1, <3>2
  <2>3. pc' = [pc EXCEPT !["loop"] = "idle"] /\ clock' \in Nat
    BY <2>1 DEF IInv, TableOK
  <2> HIDE DEF r
  <2> QED
    BY <1>0, <2>1, <2>2, <2>3, Recorded DEF Places
<1>7. CASE updateDevicesStatus
  BY <1>7, StatusHolds
<1>8. CASE launchBTDiscovery \/ Discover
  <2>1. /\ heap' = heap /\ devices' = devices /\ semaphore' = semaphore /\ found' = found
        /\ clock' = clock /\ call' = call
        /\ \/ pc' = pc /\ pc["loop"] = "discover"
           \/ Goto("loop", "discover") \/ Goto("loop", "discovered") \/ Goto("loop", "idle")
    BY <1>8 DEF launchBTDiscovery, Discover, table
  <2>2. clock' \in Nat /\ (pc["loop"] = "discover" => pc = [pc EXCEPT !["loop"] = "discover"])
    BY <2>1 DEF IInv, TableOK
  <2>3. \E l \in {"discover", "discovered", "idle"} : pc' = [pc EXCEPT !["loop"] = l]
    BY <2>1, <2>2 DEF Goto
  <2> QED
    BY <1>0, <2>1, <2>2, <2>3, Gone DEF Places
<1>9. CASE Discovered
  <2> DEFINE d == localDevices[1]
             r == [heap[d] EXCEPT !.isDisc = TRUE]
  <2>1. /\ heap' = [heap EXCEPT ![d] = r] /\ clock' = clock
        /\ devices' = devices /\ semaphore' = semaphore /\ found' = found
        /\ pc' = [pc EXCEPT !["loop"] = "discover"] /\ call' = call
    BY <1>9 DEF Discovered, Goto
  <2> HIDE DEF d
  <2>2. d \in 1..Len(heap) => r \in Device /\ r.mac = heap[d].mac
    <3>1. d \in 1..Len(heap) => heap[d] \in Device
      BY DEF IInv, TableOK
    <3>2. \A old \in Device : LET new == [old EXCEPT !.isDisc = TRUE]
                              IN  new \in Device /\ new.mac = old.mac
      BY DEF Device
    <3> QED
      BY <3>1, <3>2
  <2>3. clock' \in Nat
    BY <2>1 DEF IInv, TableOK
  <2> HIDE DEF r
  <2> QED
    BY <1>0, <2>1, <2>2, <2>3, Recorded DEF Places
<1>10. CASE UNCHANGED tableVars
  <2>1. UNCHANGED <<heap, devices, semaphore, pc, call, found, clock>>
    BY <1>10 DEF tableVars
  <2> QED
    BY <2>1 DEF IInv, TableOK, WriterAlone, NotFoundYet, OneEntryPerMac
<1> QED
  BY <1>1, <1>2, <1>3, <1>4, <1>5, <1>6, <1>7, <1>8, <1>9, <1>10 DEF Next

\* A MAC has one entry, whoever entered it while the other task looked for it
\* (gatewayBT.cpp 371-445, 568).
THEOREM OneEntry ==
    Spec => []OneEntryPerMac
<1>1. IInv => OneEntryPerMac
  BY DEF IInv
<1> QED
  BY <1>1, InitHolds, StepHolds, PTL DEF Spec

-----------------------------------------------------------------------------
\* Beyond its bound the table has one place at most that may be evicted.
Few ==
    Len(devices) > MaxBLEDevices =>
        \A i, j \in 1..Len(devices) :
            Evictable(devices[i]) /\ Evictable(devices[j]) => i = j

Listed(r) == r.isWhtL \/ r.isBlkL \/ r.connect

\* A record of a listed device is replaced by that of a listed one.
LEMMA RecordListed ==
    ASSUME TableOK, NEW d, NEW r, heap' = [heap EXCEPT ![d] = r],
           d \in 1..Len(heap) /\ Listed(heap[d]) => Listed(r)
    PROVE  \A e \in 1..Len(heap) : Listed(heap[e]) => Listed(heap'[e])
<1>1. heap \in Seq(Device) /\ DOMAIN heap = 1..Len(heap)
  BY DEF TableOK
<1> SUFFICES ASSUME NEW e \in 1..Len(heap), Listed(heap[e])
             PROVE  Listed(heap'[e])
  OBVIOUS
<1>2. CASE e = d
  <2>1. heap'[e] = r
    BY <1>1, <1>2
  <2> QED
    BY <1>2, <2>1
<1>3. CASE e # d
  <2>1. heap'[e] = heap[e]
    BY <1>1, <1>3
  <2> QED
    BY <2>1
<1> QED
  BY <1>2, <1>3

\* As long as no device is added, and none that is listed is taken off all lists, there
\* stay few.
LEMMA FewKept ==
    ASSUME TableOK, Few, devices' = devices,
           \A d \in 1..Len(heap) : Listed(heap[d]) => Listed(heap'[d])
    PROVE  Few'
<1>1. \A i \in 1..Len(devices) : devices[i] \in 1..Len(heap)
  BY DEF TableOK
<1>2. \A i \in 1..Len(devices) : Evictable(devices[i])' => Evictable(devices[i])
  BY <1>1 DEF Evictable, Listed
<1> QED
  BY <1>2 DEF Few

\* The update of an entry takes a device off a list only to put it on the other.
LEMMA FewUpdated ==
    ASSUME IInv, Few, NEW t \in Tasks, createOrUpdateDevice(t), found[t] # NotFound
    PROVE  Few'
<1> DEFINE d == found[t]
           c == call[t]
           learnt == c.model # UNKNOWN_MODEL /\ heap[d].model = UNKNOWN_MODEL
           lists == c.flag \in {"white", "black"}
           connect == heap[d].connect \/ c.flag = "connect"
           model == IF learnt THEN c.model ELSE heap[d].model
           disc == heap[d].isDisc /\ ~learnt
           white == IF lists THEN c.flag = "white" ELSE heap[d].isWhtL
           black == IF lists THEN c.flag = "black" ELSE heap[d].isBlkL
           new == [heap[d] EXCEPT !.lastUpdate = clock, !.connect = connect, !.model = model,
                                  !.isDisc = disc, !.isWhtL = white, !.isBlkL = black]
<1>1. heap' = [heap EXCEPT ![d] = new] /\ devices' = devices
  BY DEF createOrUpdateDevice, Update
<1>2. ASSUME d \in 1..Len(heap), Listed(heap[d])
      PROVE  Listed(new)
  <2>1. heap[d] \in Device
    BY <1>2 DEF IInv, TableOK
  <2>2. white \/ black \/ connect
    <3>1. CASE lists
      BY <3>1
    <3>2. CASE ~lists
      BY <1>2, <3>2 DEF Listed
    <3> QED
      BY <3>1, <3>2
  <2> HIDE DEF connect, model, disc, white, black
  <2>3. new.isWhtL = white /\ new.isBlkL = black /\ new.connect = connect
    BY <2>1 DEF Device
  <2> HIDE DEF new
  <2>4. CASE white
    BY <2>3, <2>4 DEF Listed
  <2>5. CASE black
    BY <2>3, <2>5 DEF Listed
  <2>6. CASE connect
    BY <2>3, <2>6 DEF Listed
  <2> QED
    BY <2>2, <2>4, <2>5, <2>6
<1> HIDE DEF new
<1>3. \A e \in 1..Len(heap) : Listed(heap[e]) => Listed(heap'[e])
  BY <1>1, <1>2, RecordListed DEF IInv
<1> QED
  BY <1>1, <1>3, FewKept DEF IInv

\* A device is added to a table that is not full, that had none to evict, or that has
\* evicted the only one it had beyond its bound.
LEMMA FewAdded ==
    ASSUME MaxBLEDevices \in Nat, IInv, IInv', Few,
           NEW t \in Tasks, createOrUpdateDevice(t), found[t] = NotFound
    PROVE  Few'
<1>1. /\ devices' = Append(Evicted, Len(heap) + 1)
      /\ \E r : heap' = Append(heap, r)
  BY DEF createOrUpdateDevice, Add
<1>2. /\ Len(heap) \in Nat /\ Len(devices) \in Nat /\ devices \in Seq(1..Len(heap))
      /\ \A d \in 1..Len(heap) : heap'[d] = heap[d]
  BY <1>1 DEF IInv, TableOK
<1>3. \A i \in 1..Len(devices) : devices[i] \in 1..Len(heap) /\ heap'[devices[i]] = heap[devices[i]]
  BY <1>2
<1>4. CASE /\ Evicted = devices
           /\ Len(devices) < MaxBLEDevices
              \/ \A i \in 1..Len(devices) : ~Evictable(devices[i])
  <2>1. /\ Len(devices') = Len(devices) + 1
        /\ \A k \in 1..Len(devices) : devices'[k] = devices[k]
    BY <1>1, <1>2, <1>4
  <2>2. CASE Len(devices) < MaxBLEDevices
    BY <1>2, <2>1, <2>2 DEF Few
  <2>3. CASE \A i \in 1..Len(devices) : ~Evictable(devices[i])
    <3>1. \A k \in 1..Len(devices) : Listed(heap'[devices'[k]])
      BY <1>3, <2>1, <2>3 DEF Evictable, Listed
    <3>2. \A k \in 1..Len(devices') : Evictable(devices[k])' => k = Len(devices')
      <4> SUFFICES ASSUME NEW k \in 1..Len(devices'), ~Listed(heap'[devices'[k]])
                   PROVE  k = Len(devices')
        BY DEF Evictable, Listed
      <4> QED
        BY <1>2, <2>1, <3>1
    <3> QED
      BY <3>2 DEF Few
  <2> QED
    BY <1>4, <2>2, <2>3
<1>5. ASSUME NEW i \in 1..Len(devices), ~(Len(devices) < MaxBLEDevices),
             Evictable(devices[i]), Evicted = RemoveAt(devices, i)
      PROVE  Few'
  <2>1. /\ Evicted \in Seq(1..Len(heap)) /\ Len(Evicted) = Len(devices) - 1
        /\ \A k \in 1..(Len(devices) - 1) :
              Evicted[k] = devices[IF k < i THEN k ELSE k + 1]
    BY <1>2, <1>5, Removed
  <2>2. /\ Len(devices') = Len(devices)
        /\ \A k \in 1..(Len(devices) - 1) :
              devices'[k] = devices[IF k < i THEN k ELSE k + 1]
    <3>1. /\ Evicted \in Seq(Nat) /\ Len(heap) + 1 \in Nat
          /\ Len(devices) \in Nat /\ Len(Evicted) = Len(devices) - 1
      BY <1>2, <2>1, SeqMonotonic
    <3>2. /\ Len(Append(Evicted, Len(heap) + 1)) = Len(Evicted) + 1
          /\ \A k \in 1..Len(Evicted) : Append(Evicted, Len(heap) + 1)[k] = Evicted[k]
      <4> HIDE DEF Evicted
      <4> QED
        BY <3>1, AppendProperties
    <3> HIDE DEF Evicted
    <3> QED
      BY <1>1, <2>1, <3>1, <3>2
  <2> SUFFICES ASSUME Len(devices) > MaxBLEDevices
               PROVE  \A k \in 1..Len(devices') : Evictable(devices[k])' => k = Len(devices')
    BY <2>2 DEF Few
  <2>3. \A j \in 1..Len(devices) : j # i => ~Evictable(devices[j])
    BY <1>5 DEF Few
  <2>4. \A k \in 1..(Len(devices) - 1) :
            LET j == IF k < i THEN k ELSE k + 1
            IN  j \in 1..Len(devices) /\ j # i
    BY <1>2
  <2>5. \A k \in 1..(Len(devices) - 1) : ~Evictable(devices[k])'
    BY <1>3, <2>2, <2>3, <2>4 DEF Evictable
  <2> QED
    BY <1>2, <2>2, <2>5
<1> QED
  BY <1>4, <1>5, EvictedIs DEF IInv

LEMMA FewHolds ==
    ASSUME MaxBLEDevices \in Nat, IInv, IInv', Few, [Next]_tableVars
    PROVE  Few'
<1>0. \A d \in 1..Len(heap) : heap[d] \in Device
  BY DEF IInv, TableOK
<1>1. ASSUME NEW t \in Tasks, createOrUpdateDevice(t)
      PROVE  Few'
  BY <1>1, FewAdded, FewUpdated
<1>2. ASSUME NEW mac \in Macs, TrackerSync(mac)
      PROVE  Few'
  <2> DEFINE d == getDeviceByMac(mac)
             r == [heap[d] EXCEPT !.lastUpdate = 0]
  <2>1. heap' = [heap EXCEPT ![d] = r] /\ devices' = devices
    BY <1>2 DEF TrackerSync
  <2> HIDE DEF d
  <2>2. d \in 1..Len(heap) /\ Listed(heap[d]) => Listed(r)
    BY <1>0 DEF Device, Listed
  <2> HIDE DEF r
  <2> QED
    BY <2>1, <2>2, RecordListed, FewKept DEF IInv
<1>3. CASE Discovered
  <2> DEFINE d == localDevices[1]
             r == [heap[d] EXCEPT !.isDisc = TRUE]
  <2>1. heap' = [heap EXCEPT ![d] = r] /\ devices' = devices
    BY <1>3 DEF Discovered
  <2> HIDE DEF d
  <2>2. d \in 1..Len(heap) /\ Listed(heap[d]) => Listed(r)
    BY <1>0 DEF Device, Listed
  <2> HIDE DEF r
  <2> QED
    BY <2>1, <2>2, RecordListed, FewKept DEF IInv
<1>4. CASE updateDevicesStatus
  <2> DEFINE away == {d \in ToSet(devices) : Away(d)}
  <2>1. /\ heap' = [d \in 1..Len(heap) |->
                       IF d \in away THEN [heap[d] EXCEPT !.lastUpdate = 0] ELSE heap[d]]
        /\ devices' = devices
    BY <1>4 DEF updateDevicesStatus
  <2> HIDE DEF away
  <2>2. \A e \in Device : Listed(e) => Listed([e EXCEPT !.lastUpdate = 0])
    BY DEF Device, Listed
  <2>3. \A d \in 1..Len(heap) : Listed(heap[d]) => Listed(heap'[d])
    BY <1>0, <2>1, <2>2
  <2> QED
    BY <2>1, <2>3, FewKept DEF IInv
<1>5. CASE heap' = heap /\ devices' = devices
  BY <1>5, FewKept DEF IInv
<1>6. \/ \E t \in Tasks : createOrUpdateDevice(t)
      \/ \E mac \in Macs : TrackerSync(mac)
      \/ Discovered \/ updateDevicesStatus
      \/ heap' = heap /\ devices' = devices
  BY DEF Next, Take, TakeTimesOut, Advertisement, updateWorB, launchBTDiscovery, Discover,
         tableVars, table
<1> QED
  BY <1>1, <1>2, <1>3, <1>4, <1>5, <1>6

\* A table beyond MaxBLEDevices holds one device at most that could have been evicted: the
\* one that was entered last (gatewayBT.cpp 384-402).
THEOREM ListedOutgrow ==
    ASSUME BleTableAssumption
    PROVE  Spec => []OnlyListedOutgrow
<1>1. MaxBLEDevices \in Nat
  BY DEF BleTableAssumption
<1>2. Init => Few
  BY <1>1 DEF Init, Few
<1>3. ASSUME Few
      PROVE  OnlyListedOutgrow
  <2> DEFINE S == {d \in ToSet(devices) : Evictable(d)}
  <2> SUFFICES ASSUME Len(devices) > MaxBLEDevices
               PROVE  Cardinality(S) <= 1
    BY DEF OnlyListedOutgrow
  <2>1. CASE S = {}
    BY <2>1, FS_EmptySet
  <2>2. CASE S # {}
    <3>1. PICK i \in 1..Len(devices) : Evictable(devices[i])
      BY <2>2 DEF ToSet
    <3>2. S = {devices[i]}
      BY <1>3, <3>1 DEF Few, ToSet
    <3>3. Cardinality({devices[i]}) = 1
      BY FS_Singleton
    <3> HIDE DEF S
    <3> QED
      BY <3>2, <3>3
  <2> QED
    BY <2>1, <2>2
<1> QED
  BY <1>1, <1>2, <1>3, InitHolds, StepHolds, FewHolds, PTL DEF Spec

-----------------------------------------------------------------------------
\* What the type invariant adds: where each task can be, and that what refers to a device
\* refers to one that was allocated.
References ==
    /\ localDevices \in Seq(1..Len(heap))
    /\ pc["loop"] = "discovered" => localDevices # <<>>
    /\ \A t \in Tasks : found[t] \in 0..Len(heap)
Ranges ==
    /\ oneWhite \in BOOLEAN /\ newDevices \in Nat /\ semaphore \in Tasks \cup {"free"}
    /\ pc["proc"] \in {"idle", "take", "write", "status"}
    /\ pc["loop"] \in {"idle", "take", "write", "discover", "discovered"}
    /\ clock \in 1..MaxTime

\* What is found was allocated.
LEMMA FoundAllocated ==
    ASSUME TableOK, NEW mac
    PROVE  getDeviceByMac(mac) \in 0..Len(heap)
<1> DEFINE at == {i \in 1..Len(devices) : heap[devices[i]].mac = mac}
<1>1. Len(heap) \in Nat /\ \A i \in 1..Len(devices) : devices[i] \in 1..Len(heap)
  BY DEF TableOK
<1>2. CASE at = {}
  BY <1>1, <1>2 DEF getDeviceByMac, NotFound
<1>3. CASE at # {}
  <2>1. at \in SUBSET Nat
    OBVIOUS
  <2>2. \E i \in at : \A j \in at : i <= j
    BY <1>3, <2>1, Smallest
  <2>3. (CHOOSE i \in at : \A j \in at : i <= j) \in 1..Len(devices)
    BY <2>2
  <2> QED
    BY <1>1, <1>3, <2>3 DEF getDeviceByMac
<1> QED
  BY <1>2, <1>3

\* No device is ever forgotten by the heap of the model.
LEMMA HeapGrows ==
    ASSUME IInv, [Next]_tableVars
    PROVE  Len(heap) \in Nat /\ Len(heap') \in Nat /\ Len(heap) <= Len(heap')
<1>1. heap \in Seq(Device) /\ Len(heap) \in Nat
  BY DEF IInv, TableOK
<1>2. ASSUME NEW t \in Tasks, createOrUpdateDevice(t)
      PROVE  (\E r : heap' = Append(heap, r)) \/ \E d, r : heap' = [heap EXCEPT ![d] = r]
  <2>1. CASE found[t] = NotFound
    BY <1>2, <2>1 DEF createOrUpdateDevice, Add
  <2>2. CASE found[t] # NotFound
    <3> DEFINE d == found[t]
               c == call[t]
               learnt == c.model # UNKNOWN_MODEL /\ heap[d].model = UNKNOWN_MODEL
               lists == c.flag \in {"white", "black"}
               new == [heap[d] EXCEPT
                          !.lastUpdate = clock,
                          !.connect = heap[d].connect \/ c.flag = "connect",
                          !.model = IF learnt THEN c.model ELSE heap[d].model,
                          !.isDisc = heap[d].isDisc /\ ~learnt,
                          !.isWhtL = IF lists THEN c.flag = "white" ELSE heap[d].isWhtL,
                          !.isBlkL = IF lists THEN c.flag = "black" ELSE heap[d].isBlkL]
    <3>1. heap' = [heap EXCEPT ![d] = new]
      BY <1>2, <2>2 DEF createOrUpdateDevice, Update
    <3> HIDE DEF d, new
    <3> QED
      BY <3>1
  <2> QED
    BY <2>1, <2>2
<1>3. \/ \E r : heap' = Append(heap, r)
      \/ \E d, r : heap' = [heap EXCEPT ![d] = r]
      \/ \E f : heap' = [d \in 1..Len(heap) |-> f[d]]
      \/ heap' = heap
  <2>1. ASSUME NEW mac \in Macs, TrackerSync(mac)
        PROVE  \E d, r : heap' = [heap EXCEPT ![d] = r]
    BY <2>1 DEF TrackerSync
  <2>2. CASE Discovered
    BY <2>2 DEF Discovered
  <2>3. CASE updateDevicesStatus
    <3> DEFINE new(d) == IF d \in {e \in ToSet(devices) : Away(e)}
                         THEN [heap[d] EXCEPT !.lastUpdate = 0] ELSE heap[d]
               f == [d \in 1..Len(heap) |-> new(d)]
    <3>1. heap' = f
      BY <2>3 DEF updateDevicesStatus
    <3> HIDE DEF new
    <3>2. f = [d \in 1..Len(heap) |-> f[d]]
      OBVIOUS
    <3> HIDE DEF f
    <3> QED
      BY <3>1, <3>2
  <2>4. \/ \E t \in Tasks : createOrUpdateDevice(t)
        \/ \E mac \in Macs : TrackerSync(mac)
        \/ Discovered \/ updateDevicesStatus
        \/ heap' = heap
    BY DEF Next, Take, TakeTimesOut, Advertisement, updateWorB, launchBTDiscovery, Discover,
           tableVars, table
  <2> QED
    BY <1>2, <2>1, <2>2, <2>3, <2>4
<1>4. ASSUME NEW r, heap' = Append(heap, r)
      PROVE  Len(heap') = Len(heap) + 1
  BY <1>1, <1>4
<1>5. ASSUME NEW d, NEW r, heap' = [heap EXCEPT ![d] = r]
      PROVE  Len(heap') = Len(heap)
  BY <1>1, <1>5
<1>6. ASSUME NEW f, heap' = [d \in 1..Len(heap) |-> f[d]]
      PROVE  Len(heap') = Len(heap)
  BY <1>1, <1>6
<1> QED
  BY <1>1, <1>3, <1>4, <1>5, <1>6

LEMMA ReferencesHold ==
    ASSUME IInv, IInv', References, Ranges, [Next]_tableVars
    PROVE  References'
<1>1. /\ Len(heap) \in Nat /\ Len(heap') \in Nat /\ Len(heap) <= Len(heap')
      /\ 1..Len(heap) \subseteq 1..Len(heap')
  BY HeapGrows
<1>2. Seq(1..Len(heap)) \subseteq Seq(1..Len(heap'))
  BY <1>1, SeqMonotonic
<1>3. \A t \in Tasks : found'[t] \in 0..Len(heap')
  <2>1. ASSUME NEW t \in Tasks, Take(t)
        PROVE  found' = [found EXCEPT ![t] = getDeviceByMac(call[t].mac)]
               /\ getDeviceByMac(call[t].mac) \in 0..Len(heap)
    BY <2>1, FoundAllocated DEF Take, IInv
  <2>2. ASSUME NEW t \in Tasks, createOrUpdateDevice(t)
        PROVE  found' = [found EXCEPT ![t] = 0]
    BY <2>2 DEF createOrUpdateDevice, NotFound
  <2>3. \/ \E t \in Tasks : Take(t) \/ createOrUpdateDevice(t)
        \/ found' = found
    BY DEF Next, TakeTimesOut, Advertisement, updateWorB, launchBTDiscovery, Discover,
           Discovered, TrackerSync, updateDevicesStatus, tableVars
  <2>4. \A t \in Tasks : found'[t] \in 0..Len(heap)
    <3>1. found \in [Tasks -> Nat] /\ \A t \in Tasks : found[t] \in 0..Len(heap)
      BY DEF IInv, TableOK, References
    <3>2. ASSUME NEW t \in Tasks, NEW d \in 0..Len(heap), found' = [found EXCEPT ![t] = d]
          PROVE  \A u \in Tasks : found'[u] \in 0..Len(heap)
      BY <3>1, <3>2
    <3>3. 0 \in 0..Len(heap)
      BY <1>1
    <3> QED
      BY <2>1, <2>2, <2>3, <3>1, <3>2, <3>3
  <2> QED
    BY <1>1, <2>4
<1>4. /\ localDevices' \in Seq(1..Len(heap'))
      /\ pc'["loop"] = "discovered" => localDevices' # <<>>
  <2>1. pc \in [Tasks -> Places] /\ "loop" \in Tasks /\ "proc" \in Tasks
    BY DEF IInv, TableOK, Tasks
  <2>2. localDevices \in Seq(1..Len(heap)) /\ devices \in Seq(1..Len(heap))
    BY DEF References, IInv, TableOK
  <2>3. CASE launchBTDiscovery
    BY <1>2, <2>1, <2>2, <2>3 DEF launchBTDiscovery, Goto
  <2>4. CASE Discover
    <3>1. CASE localDevices = <<>>
      BY <1>2, <2>1, <2>2, <2>4, <3>1 DEF Discover, Goto
    <3>2. CASE localDevices # <<>> /\ heap[localDevices[1]].isDisc
      <4>1. localDevices' = Tail(localDevices) /\ pc' = pc /\ pc["loop"] = "discover"
        BY <2>4, <3>2 DEF Discover
      <4>2. Tail(localDevices) \in Seq(1..Len(heap))
        BY <2>2, <3>2
      <4> QED
        BY <1>2, <4>1, <4>2
    <3>3. CASE localDevices # <<>> /\ ~heap[localDevices[1]].isDisc
      BY <1>2, <2>2, <2>4, <3>3 DEF Discover
    <3> QED
      BY <3>1, <3>2, <3>3
  <2>5. CASE Discovered
    <3>1. localDevices' = Tail(localDevices) /\ localDevices # <<>>
      BY <2>5 DEF Discovered, References
    <3>2. Tail(localDevices) \in Seq(1..Len(heap))
      BY <2>2, <3>1
    <3>3. pc'["loop"] = "discover"
      BY <2>1, <2>5 DEF Discovered, Goto
    <3> QED
      BY <1>2, <3>1, <3>2, <3>3
  <2>6. CASE localDevices' = localDevices /\ (pc'["loop"] = pc["loop"] \/ pc'["loop"] # "discovered")
    BY <1>2, <2>2, <2>6 DEF References
  <2>7. \/ launchBTDiscovery \/ Discover \/ Discovered
        \/ localDevices' = localDevices /\ (pc'["loop"] = pc["loop"] \/ pc'["loop"] # "discovered")
    <3>1. ASSUME NEW t \in Tasks, NEW l \in {"write", After(t)}, pc' = [pc EXCEPT ![t] = l]
          PROVE  pc'["loop"] = pc["loop"] \/ pc'["loop"] # "discovered"
      BY <2>1, <3>1 DEF After
    <3>2. ASSUME NEW t \in Tasks, Take(t) \/ TakeTimesOut(t) \/ createOrUpdateDevice(t)
          PROVE  localDevices' = localDevices
                 /\ \E l \in {"write", After(t)} : pc' = [pc EXCEPT ![t] = l]
      BY <3>2 DEF Take, TakeTimesOut, createOrUpdateDevice, Goto
    <3>3. ASSUME NEW mac \in Macs, NEW kind \in Kinds, Advertisement(mac, kind)
          PROVE  localDevices' = localDevices /\ pc'["loop"] = pc["loop"]
      BY <2>1, <3>3 DEF Advertisement, process_bledata, Goto
    <3>4. ASSUME NEW mac \in Macs, NEW color, updateWorB(mac, color)
          PROVE  localDevices' = localDevices /\ pc'["loop"] # "discovered"
      BY <2>1, <3>4 DEF updateWorB, Goto
    <3>5. CASE updateDevicesStatus
      BY <2>1, <3>5 DEF updateDevicesStatus, Goto
    <3>6. ASSUME NEW mac \in Macs, TrackerSync(mac)
          PROVE  localDevices' = localDevices /\ pc' = pc
      BY <3>6 DEF TrackerSync
    <3>7. CASE UNCHANGED tableVars
      BY <3>7 DEF tableVars
    <3> QED
      BY <3>1, <3>2, <3>3, <3>4, <3>5, <3>6, <3>7 DEF Next
  <2> QED
    BY <2>3, <2>4, <2>5, <2>6, <2>7
<1> QED
  BY <1>3, <1>4 DEF References

LEMMA RangesHold ==
    ASSUME BleTableAssumption, IInv, IInv', References, Ranges, [Next]_tableVars
    PROVE  Ranges'
<1>0. /\ pc \in [Tasks -> Places] /\ "loop" \in Tasks /\ "proc" \in Tasks
      /\ \A t \in Tasks : t = "loop" \/ t = "proc"
      /\ MaxTime \in Nat
  BY DEF IInv, TableOK, Tasks, BleTableAssumption
<1>1. ASSUME NEW t \in Tasks, Take(t) \/ TakeTimesOut(t)
      PROVE  Ranges'
  BY <1>0, <1>1 DEF Ranges, Take, TakeTimesOut, Goto, After, table
<1>2. ASSUME NEW t \in Tasks, createOrUpdateDevice(t)
      PROVE  Ranges'
  <2>1. clock' \in 1..MaxTime /\ semaphore' \in Tasks \cup {"free"}
    BY <1>2 DEF createOrUpdateDevice, Ranges
  <2>2. newDevices' \in Nat
    BY <1>2 DEF createOrUpdateDevice, Ranges, Add, Update
  <2>3. oneWhite' \in BOOLEAN
    <3>1. found[t] # NotFound => heap[found[t]].isWhtL \in BOOLEAN
      <4>1. found[t] # NotFound => found[t] \in 1..Len(heap)
        BY DEF References, NotFound, IInv, TableOK
      <4>2. \A d \in 1..Len(heap) : heap[d] \in Device
        BY DEF IInv, TableOK
      <4> QED
        BY <4>1, <4>2 DEF Device
    <3>2. oneWhite' = (oneWhite \/ call[t].flag = "white" \/
              (found[t] # NotFound /\ call[t].flag # "black" /\ heap[found[t]].isWhtL))
      BY <1>2 DEF createOrUpdateDevice
    <3> QED
      BY <3>1, <3>2 DEF Ranges
  <2>4. /\ pc'["proc"] \in {"idle", "take", "write", "status"}
        /\ pc'["loop"] \in {"idle", "take", "write", "discover", "discovered"}
    BY <1>0, <1>2 DEF createOrUpdateDevice, Ranges, Goto, After
  <2> QED
    BY <2>1, <2>2, <2>3, <2>4 DEF Ranges
<1>3. ASSUME NEW mac \in Macs, NEW kind \in Kinds, Advertisement(mac, kind)
      PROVE  Ranges'
  <2>1. clock' \in 1..MaxTime
    BY <1>0, <1>3 DEF Ranges, Advertisement, Tick
  <2>2. UNCHANGED <<oneWhite, newDevices, semaphore>>
    BY <1>3 DEF Advertisement, table
  <2>3. pc'["loop"] = pc["loop"] /\ pc'["proc"] \in {"idle", "take", "status"}
    BY <1>0, <1>3 DEF Advertisement, process_bledata, Goto
  <2> QED
    BY <2>1, <2>2, <2>3 DEF Ranges
<1>4. ASSUME NEW mac \in Macs, NEW color \in {"white", "black"}, updateWorB(mac, color)
      PROVE  Ranges'
  BY <1>0, <1>4 DEF Ranges, updateWorB, Tick, Goto, table
<1>5. ASSUME NEW mac \in Macs, TrackerSync(mac)
      PROVE  Ranges'
  BY <1>0, <1>5 DEF Ranges, TrackerSync, Tick
<1>6. CASE updateDevicesStatus
  BY <1>0, <1>6 DEF Ranges, updateDevicesStatus, Goto
<1>7. CASE launchBTDiscovery \/ Discover
  BY <1>0, <1>7 DEF Ranges, launchBTDiscovery, Discover, Goto, table
<1>8. CASE Discovered
  BY <1>0, <1>8 DEF Ranges, Discovered, Goto
<1>9. CASE UNCHANGED tableVars
  BY <1>9 DEF Ranges, tableVars
<1> QED
  BY <1>1, <1>2, <1>3, <1>4, <1>5, <1>6, <1>7, <1>8, <1>9 DEF Next

\* The type invariant: what the table, a call and the discovery's copy refer to has been
\* allocated (gatewayBT.cpp 371-445, 1187-1230).
THEOREM TypeCorrect ==
    ASSUME BleTableAssumption
    PROVE  Spec => []TypeOK
<1>1. Init => References /\ Ranges
  <2> SUFFICES ASSUME Init PROVE References /\ Ranges
    OBVIOUS
  <2>1. /\ heap = <<>> /\ localDevices = <<>> /\ Len(heap) = 0
        /\ localDevices \in Seq(1..Len(heap))
    BY DEF Init
  <2>2. \A t \in Tasks : pc[t] = "idle" /\ found[t] = 0
    BY DEF Init, NotFound
  <2>3. References
    BY <2>1, <2>2 DEF References, Tasks
  <2>4. Ranges
    <3>1. pc["proc"] = "idle" /\ pc["loop"] = "idle"
      BY <2>2 DEF Tasks
    <3>2. oneWhite \in BOOLEAN /\ newDevices \in Nat /\ semaphore = "free"
      BY DEF Init
    <3>3. clock \in 1..MaxTime
      BY DEF Init, BleTableAssumption
    <3> QED
      BY <3>1, <3>2, <3>3 DEF Ranges
  <2> QED
    BY <2>3, <2>4
<1>2. IInv /\ References /\ Ranges => TypeOK
  <2> SUFFICES ASSUME IInv, References, Ranges PROVE TypeOK
    OBVIOUS
  <2>1. \A d \in 1..Len(heap) : heap[d] \in Device
    BY DEF IInv, TableOK
  <2>2. ToSet(devices) \subseteq 1..Len(heap) /\ ToSet(localDevices) \subseteq 1..Len(heap)
    BY DEF IInv, TableOK, References, ToSet
  <2> QED
    BY <2>1, <2>2 DEF TypeOK, References, Ranges
<1> QED
  BY <1>1, <1>2, InitHolds, StepHolds, ReferencesHold, RangesHold, PTL DEF Spec
=============================================================================
