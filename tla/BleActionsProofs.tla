-------------------------- MODULE BleActionsProofs --------------------------
(***************************************************************************)
(* What is proved about BleActions, for any devices, commands, attempts    *)
(* and forced scans.                                                       *)
(*                                                                         *)
(* 1. LockNotLeft: BTProcessLock is set only while the task of an          *)
(*    immediate command waits for its semaphores, so that no path through  *)
(*    immediateBTAction leaves it set.  Whoever clears the lock may clear  *)
(*    it for another task that waits too; LockIsTransient is inductive     *)
(*    nevertheless, once it is known that the task of a command is not     *)
(*    there before the command.                                            *)
(* 2. TypeCorrect: needs to know that the commands of each vector are in   *)
(*    the order in which they were accepted (Ordered), since the loop of   *)
(*    BLEconnect that keeps commands (Kept) counts their attempts down.    *)
(* 3. AttemptsWithinTtl, OneAnswer, NewestThere: the inductive invariant   *)
(*    is ConnectInv.  Where says who holds semaphoreBLEOperation and that  *)
(*    one task at a time is in BLEconnect; Data, what each vector holds:   *)
(*    the commands put aside are older than the others, attempts made and  *)
(*    attempts left are what was asked for (one more between an attempt    *)
(*    and the count), and no command that is kept has been answered.  They *)
(*    need ~Overlap, that is, no immediate command comes while a forced    *)
(*    scan is due or runs: it connects without the semaphore.              *)
(***************************************************************************)
EXTENDS BleActions, SequenceTheorems, WellFoundedInduction, TLAPS

\* Every task is somewhere.
PlacesOK == pc = [t \in Connectors |-> pc[t]]

\* The task of a command that has not been accepted has not been started.
NotYet == asked \in Nat /\ \A i \in Ids : i > asked => pc[i] = "none"

\* The inductive invariant.
IInv == PlacesOK /\ NotYet /\ LockIsTransient

LEMMA Tasks ==
    /\ Core \in Connectors /\ Core \notin Ids /\ Ids \subseteq Connectors
    /\ Connectors = Ids \cup {Core}
    /\ Loop \notin Connectors /\ Free \notin Connectors /\ Loop # Free
BY BleAssumption DEF Core, Connectors, Ids, Loop, Free

-----------------------------------------------------------------------------
\* A step that leaves the lock, and moves a task that is not waiting for a semaphore, or
\* from one semaphore to the other.
LEMMA Moved ==
    ASSUME IInv, BTProcessLock' = BTProcessLock, asked' = asked,
           NEW t \in Connectors, NEW from, NEW to, Goto(t, from, to),
           t \notin Ids \/ from \notin {"none", "take", "table"} \/ (from = "take" /\ to = "table")
    PROVE  IInv'
<1>1. pc' = [pc EXCEPT ![t] = to] /\ pc[t] = from /\ pc = [u \in Connectors |-> pc[u]]
  BY DEF Goto, IInv, PlacesOK
<1>2. PlacesOK' /\ pc'[t] = to /\ \A u \in Connectors \ {t} : pc'[u] = pc[u]
  BY <1>1 DEF PlacesOK
<1>3. ASSUME BTProcessLock'
      PROVE  \E i \in Ids : pc'[i] \in {"take", "table"}
  <2>1. BTProcessLock
    BY <1>3, Zenon
  <2>2. PICK i \in Ids : pc[i] \in {"take", "table"}
    BY <2>1 DEF IInv, LockIsTransient
  <2>3. pc'[i] \in {"take", "table"}
    BY <1>1, <1>2, <2>2, Tasks
  <2> QED
    BY <2>3
<1>4. NotYet'
  BY <1>1, <1>2, Tasks DEF IInv, NotYet
<1> QED
  BY <1>2, <1>3, <1>4 DEF IInv, LockIsTransient

\* A step that moves no task and leaves the lock.
LEMMA Unmoved ==
    ASSUME IInv, UNCHANGED <<BTProcessLock, pc, asked>>
    PROVE  IInv'
BY DEF IInv, PlacesOK, NotYet, LockIsTransient

\* A step that clears the lock, wherever the task goes.
LEMMA Cleared ==
    ASSUME IInv, BTProcessLock' = FALSE, asked' = asked,
           NEW t \in Connectors, NEW from, NEW to, Goto(t, from, to), from # "none"
    PROVE  IInv'
<1>1. PlacesOK' /\ NotYet'
  BY DEF IInv, PlacesOK, NotYet, Goto
<1> QED
  BY <1>1 DEF IInv, LockIsTransient

\* BLEconnect: no task waits for a semaphore in it.
LEMMA ConnectHolds ==
    ASSUME IInv, NEW t \in Connectors, Connect(t)
    PROVE  IInv'
<1>1. BTProcessLock' = BTProcessLock /\ asked' = asked
  BY DEF Connect, Visit, EndOfRound, Retire, Keep, Contact, locks, command
<1>2. \/ Goto(t, "visit", "contact")
      \/ Goto(t, "visit", IF BLEactions = <<>> THEN ret[t] ELSE "visit")
      \/ Goto(t, "contact", "retire") \/ Goto(t, "retire", "keep") \/ Goto(t, "keep", "visit")
  BY DEF Connect, Visit, EndOfRound, Retire, Keep, Contact, Goto
<1> QED
  BY <1>1, <1>2, Moved

-----------------------------------------------------------------------------
LEMMA InitHolds ==
    ASSUME Init
    PROVE  IInv
<1>1. PlacesOK
  BY DEF Init, PlacesOK
<1>2. asked \in Nat /\ ~BTProcessLock /\ \A i \in Ids : pc[i] = "none"
  BY Tasks DEF Init
<1> QED
  BY <1>1, <1>2 DEF IInv, NotYet, LockIsTransient

LEMMA CoreHolds ==
    ASSUME IInv, CoreTask
    PROVE  IInv'
<1>1. CASE Connect(Core)
  BY <1>1, ConnectHolds, Tasks
<1>2. CASE ~Connect(Core)
  <2>1. BTProcessLock' = BTProcessLock /\ asked' = asked
    BY <1>2 DEF CoreTask, CoreTest, CoreTake, CoreBusy, CoreScanned, CoreGive, CoreRest,
                CoreForced, locks, command
  <2>2. \E from, to : Goto(Core, from, to)
    BY <1>2 DEF CoreTask, CoreTest, CoreTake, CoreBusy, CoreScanned, CoreGive, CoreRest,
                CoreForced, Call
  <2> QED
    BY <2>1, <2>2, Moved, Tasks
<1> QED
  BY <1>1, <1>2

LEMMA ImmHolds ==
    ASSUME IInv, NEW i \in Ids, ImmTask(i)
    PROVE  IInv'
<1>0. i \in Connectors
  BY Tasks
<1>9. asked' = asked
  BY DEF ImmTask, ImmStart, ImmBusy, ImmTake, ImmGiveUp, ImmSwap, ImmCall, ImmRestore, ImmAfter,
         ImmGive, Connect, Visit, EndOfRound, Retire, Keep, Contact, command
<1>1. CASE ImmStart(i)
  <2>1. CASE BLEactions = <<>>
    <3>1. BTProcessLock' = (BTProcessLock \/ FALSE)
      BY <1>1, <2>1 DEF ImmStart
    <3>2. Goto(i, "start", "done")
      BY <1>1, <2>1 DEF ImmStart
    <3>5. NotYet'
      BY <1>9, <3>2, <1>0 DEF Goto, IInv, PlacesOK, NotYet
    <3>3. CASE BTProcessLock
      <4>1. BTProcessLock'
        BY <3>1, <3>3
      <4>2. PICK j \in Ids : pc[j] \in {"take", "table"}
        BY <3>3 DEF IInv, LockIsTransient
      <4>3. PlacesOK' /\ pc'[j] = pc[j]
        BY <3>2, <4>2, Tasks DEF Goto, IInv, PlacesOK
      <4> QED
        BY <3>5, <4>2, <4>3 DEF IInv, LockIsTransient
    <3>4. CASE ~BTProcessLock
      <4>1. ~BTProcessLock'
        BY <3>1, <3>4
      <4>2. PlacesOK'
        BY <3>2 DEF Goto, IInv, PlacesOK
      <4> QED
        BY <3>5, <4>1, <4>2 DEF IInv, LockIsTransient
    <3> QED
      BY <3>3, <3>4
  <2>2. CASE BLEactions # <<>>
    <3>1. pc' = [pc EXCEPT ![i] = "take"]
      BY <1>1, <2>2 DEF ImmStart, Goto
    <3>2. PlacesOK' /\ pc'[i] = "take" /\ pc[i] = "start"
      BY <1>0, <1>1, <3>1 DEF ImmStart, Goto, IInv, PlacesOK
    <3>3. NotYet'
      BY <1>9, <3>1, <3>2 DEF IInv, PlacesOK, NotYet
    <3> QED
      BY <3>2, <3>3 DEF IInv, LockIsTransient
  <2> QED
    BY <2>1, <2>2
<1>2. CASE ImmBusy(i) \/ ImmGiveUp(i) \/ ImmSwap(i)
  <2>1. BTProcessLock' = FALSE
    BY <1>2 DEF ImmBusy, ImmGiveUp, ImmSwap
  <2>2. \E to : Goto(i, "take", to) \/ Goto(i, "table", to)
    BY <1>2 DEF ImmBusy, ImmGiveUp, ImmSwap
  <2> QED
    BY <1>0, <1>9, <2>1, <2>2, Cleared
<1>3. CASE ImmTake(i) \/ ImmCall(i) \/ ImmRestore(i) \/ ImmAfter(i) \/ ImmGive(i)
  <2>1. BTProcessLock' = BTProcessLock
    BY <1>3 DEF ImmTake, ImmCall, ImmRestore, ImmAfter, ImmGive, locks
  <2>2. \/ Goto(i, "take", "table")
        \/ \E to : Goto(i, "call", to) \/ Goto(i, "restore", to) \/ Goto(i, "after", to)
                   \/ Goto(i, "give", to)
    BY <1>3 DEF ImmTake, ImmCall, ImmRestore, ImmAfter, ImmGive, Call
  <2> QED
    BY <1>0, <1>9, <2>1, <2>2, Moved
<1>4. CASE Connect(i)
  BY <1>0, <1>4, ConnectHolds
<1> QED
  BY <1>1, <1>2, <1>3, <1>4 DEF ImmTask

\* A command that is pushed may start a task, which did not wait before.
LEMMA PushHolds ==
    ASSUME IInv, NEW d \in Devices, NEW ttl \in 1..MaxTtl, NEW immediate \in BOOLEAN,
           Push(d, ttl, immediate)
    PROVE  IInv'
<1>1. BTProcessLock' = BTProcessLock /\ asked' = asked + 1 /\ asked < MaxActions
  BY DEF Push, locks
<1>2. CASE pc' = pc
  <2>1. PlacesOK' /\ LockIsTransient'
    BY <1>1, <1>2 DEF IInv, PlacesOK, LockIsTransient
  <2>2. NotYet'
    BY <1>1, <1>2 DEF IInv, NotYet, Ids
  <2> QED
    BY <2>1, <2>2 DEF IInv
<1>3. CASE pc' = [pc EXCEPT ![asked + 1] = "start"]
  <2>1. asked + 1 \in Ids
    BY <1>1, BleAssumption DEF IInv, NotYet, Ids
  <2>2. pc[asked + 1] = "none"
    BY <2>1 DEF IInv, NotYet
  <2>3. /\ PlacesOK' /\ pc'[asked + 1] = "start"
        /\ \A i \in Ids \ {asked + 1} : pc'[i] = pc[i]
    BY <1>3, <2>1, Tasks DEF IInv, PlacesOK
  <2>4. NotYet'
    BY <1>1, <2>3 DEF IInv, NotYet, Ids
  <2>5. LockIsTransient'
    BY <1>1, <2>2, <2>3 DEF IInv, LockIsTransient
  <2> QED
    BY <2>3, <2>4, <2>5 DEF IInv
<1> QED
  BY <1>2, <1>3 DEF Push

LEMMA StepHolds ==
    ASSUME IInv, [Next]_vars
    PROVE  IInv'
<1>1. CASE CoreTask
  BY <1>1, CoreHolds
<1>2. ASSUME NEW i \in Ids, ImmTask(i)
      PROVE  IInv'
  BY <1>2, ImmHolds
<1>3. ASSUME NEW d \in Devices, NEW ttl \in 1..MaxTtl, NEW immediate \in BOOLEAN,
             Push(d, ttl, immediate)
      PROVE  IInv'
  BY <1>3, PushHolds
<1>4. ASSUME \/ DeviceTake \/ \E d \in Devices : DeviceUpdate(d)
             \/ ForceScan \/ XtoBT \/ XtoBTBusy \/ XtoBTTake \/ XtoBTGive
      PROVE  IInv'
  BY <1>4, Unmoved DEF DeviceTake, DeviceUpdate, ForceScan, XtoBT, XtoBTBusy, XtoBTTake,
                      XtoBTGive, locks, command
<1>5. CASE UNCHANGED vars
  BY <1>5, Unmoved DEF vars
<1> QED
  BY <1>1, <1>2, <1>3, <1>4, <1>5 DEF Next

\* Whatever path an immediate command takes, BTProcessLock is clear once it no longer
\* waits for a semaphore (gatewayBT.cpp 1685-1735).
THEOREM LockNotLeft == Spec => []LockIsTransient
<1>1. IInv => LockIsTransient
  BY DEF IInv
<1> QED
  BY <1>1, InitHolds, StepHolds, PTL DEF Spec

-----------------------------------------------------------------------------
(* The type invariant.                                                     *)

\* The last element of a sequence, and what comes before it.
LEMMA LastOf ==
    ASSUME NEW S, NEW s \in Seq(S), s # <<>>
    PROVE  /\ s[Len(s)] \in S /\ SubSeq(s, 1, Len(s) - 1) \in Seq(S)
           /\ Len(s) \in Nat \ {0} /\ Len(SubSeq(s, 1, Len(s) - 1)) = Len(s) - 1
           /\ \A k \in 1..(Len(s) - 1) : SubSeq(s, 1, Len(s) - 1)[k] = s[k]
<1>1. Len(s) \in Nat \ {0} /\ s[Len(s)] \in S /\ \A k \in 1..Len(s) : s[k] \in S
  BY EmptySeq
<1> DEFINE n == Len(s) - 1
<1>2. n \in Nat /\ n \in Int /\ 1 \in Int /\ \A k \in 1..n : s[k] \in S
  BY <1>1
<1> HIDE DEF n
<1>3. /\ SubSeq(s, 1, n) \in Seq(S)
      /\ Len(SubSeq(s, 1, n)) = IF 1 <= n THEN n - 1 + 1 ELSE 0
      /\ \A k \in 1..(n - 1 + 1) : SubSeq(s, 1, n)[k] = s[1 + k - 1]
  BY <1>2, SubSeqProperties
<1>4. \A k \in 1..n : k \in 1..(n - 1 + 1) /\ 1 + k - 1 = k
  BY <1>2
<1>5. \A k \in 1..n : SubSeq(s, 1, n)[k] = s[k]
  BY <1>3, <1>4
<1>6. Len(SubSeq(s, 1, n)) = n
  BY <1>2, <1>3
<1> QED
  BY <1>1, <1>3, <1>5, <1>6 DEF n

\* A set of numbers has a smallest one.
LEMMA Smallest ==
    ASSUME NEW T \in SUBSET Nat, T # {}
    PROVE  \E m \in T : \A n \in T : m <= n
<1>1. PICK m \in T : \A n \in T : ~(<<n, m>> \in OpToRel(<, Nat))
  BY NatLessThanWellFounded, WFMin, Zenon
<1>2. \A n \in T : ~(n < m)
  BY <1>1 DEF OpToRel
<1> QED
  BY <1>2

\* The commands of a vector are in the order in which they were accepted, each once.
Rising(actions) ==
    \A j, k \in 1..Len(actions) : j < k => actions[j].id < actions[k].id

\* The next of the vectors that grow to the actions to keep.
Grown(actions, v, k) ==
    IF Stays(actions[k]) THEN Append(v, [actions[k] EXCEPT !.ttl = @ - 1]) ELSE v

Growth(actions, g, n) ==
    g = [k \in 0..n |-> IF k = 0 THEN <<>> ELSE Grown(actions, g[k - 1], k)]

\* Kept is well defined: were there a vector for which it is not, a shortest one would be
\* the continuation of one for which it is.
LEMMA GrowthExists ==
    ASSUME NEW actions, NEW n \in Nat
    PROVE  \E g : Growth(actions, g, n)
<1> DEFINE Bad == {m \in Nat : ~ \E g : Growth(actions, g, m)}
<1>1. SUFFICES ASSUME Bad # {} PROVE FALSE
  OBVIOUS
<1>2. PICK m \in Bad : \A i \in Bad : m <= i
  BY <1>1, Smallest
<1>3. CASE m = 0
  <2>1. Growth(actions, [k \in 0..0 |-> <<>>], 0)
    BY DEF Growth
  <2> QED
    BY <1>2, <1>3, <2>1
<1>4. CASE m # 0
  <2>1. m - 1 \in Nat /\ m - 1 \notin Bad /\ m \in Nat
    BY <1>2, <1>4
  <2>2. PICK g : Growth(actions, g, m - 1)
    BY <2>1
  <2> DEFINE h == [k \in 0..m |-> IF k = m THEN Grown(actions, g[m - 1], m) ELSE g[k]]
  <2>3. \A k \in 0..m : h[k] = IF k = 0 THEN <<>> ELSE Grown(actions, h[k - 1], k)
    <3> SUFFICES ASSUME NEW k \in 0..m
                 PROVE  h[k] = IF k = 0 THEN <<>> ELSE Grown(actions, h[k - 1], k)
      OBVIOUS
    <3>1. CASE k = m
      BY <1>4, <2>1, <3>1
    <3>2. CASE k # m
      <4>1. k \in 0..(m - 1) /\ h[k] = g[k] /\ (k # 0 => h[k - 1] = g[k - 1])
        BY <2>1, <3>2
      <4>2. g[k] = IF k = 0 THEN <<>> ELSE Grown(actions, g[k - 1], k)
        BY <2>2, <4>1 DEF Growth
      <4> HIDE DEF h
      <4> QED
        BY <4>1, <4>2
    <3> QED
      BY <3>1, <3>2
  <2>4. h = [k \in 0..m |-> h[k]]
    OBVIOUS
  <2>5. Growth(actions, h, m)
    <3> HIDE DEF h
    <3> QED
      BY <2>3, <2>4 DEF Growth
  <2> QED
    BY <1>2, <2>5
<1> QED
  BY <1>3, <1>4

\* Kept is the last of the vectors that grow.
LEMMA KeptIsGrown ==
    ASSUME NEW actions, Len(actions) \in Nat
    PROVE  \E g : Growth(actions, g, Len(actions)) /\ Kept(actions) = g[Len(actions)]
<1> DEFINE upTo == CHOOSE g : g = [k \in 0..Len(actions) |->
                       IF k = 0 THEN <<>>
                       ELSE IF Stays(actions[k])
                       THEN Append(g[k - 1], [actions[k] EXCEPT !.ttl = @ - 1])
                       ELSE g[k - 1]]
<1>1. \E g : g = [k \in 0..Len(actions) |->
                       IF k = 0 THEN <<>>
                       ELSE IF Stays(actions[k])
                       THEN Append(g[k - 1], [actions[k] EXCEPT !.ttl = @ - 1])
                       ELSE g[k - 1]]
  BY GrowthExists DEF Growth, Grown
<1>2. upTo = [k \in 0..Len(actions) |->
                       IF k = 0 THEN <<>>
                       ELSE IF Stays(actions[k])
                       THEN Append(upTo[k - 1], [actions[k] EXCEPT !.ttl = @ - 1])
                       ELSE upTo[k - 1]]
  BY <1>1
<1>3. Growth(actions, upTo, Len(actions))
  BY <1>2 DEF Growth, Grown
<1>4. Kept(actions) = upTo[Len(actions)]
  BY DEF Kept
<1> QED
  BY <1>3, <1>4

\* What v[m] may be after the first n actions: one of them, with one attempt less.
KeptFrom(actions, v, n) ==
    \A m \in 1..Len(v) : \E j \in 1..n :
        Stays(actions[j]) /\ v[m] = [actions[j] EXCEPT !.ttl = actions[j].ttl - 1]

\* One more action, kept or not.
LEMMA GrownProperties ==
    ASSUME NEW actions \in Seq(BLEAction), Rising(actions), NEW n \in 1..Len(actions),
           NEW v \in Seq(BLEAction), Rising(v), KeptFrom(actions, v, n - 1)
    PROVE  LET w == Grown(actions, v, n)
           IN  w \in Seq(BLEAction) /\ Rising(w) /\ KeptFrom(actions, w, n)
<1>1. /\ Len(actions) \in Nat /\ \A j \in 1..Len(actions) : actions[j] \in BLEAction
      /\ Len(v) \in Nat /\ \A m \in 1..Len(v) : v[m] \in BLEAction
  OBVIOUS
<1>2. KeptFrom(actions, v, n)
  <2>1. \A j \in 1..(n - 1) : j \in 1..n
    BY <1>1
  <2> QED
    BY <2>1 DEF KeptFrom
<1>3. CASE ~Stays(actions[n])
  <2>1. Grown(actions, v, n) = v
    BY <1>3 DEF Grown
  <2> QED
    BY <1>2, <2>1
<1>4. CASE Stays(actions[n])
  <2> DEFINE a == [actions[n] EXCEPT !.ttl = actions[n].ttl - 1]
             w == Append(v, a)
  <2>1. a \in BLEAction /\ a.id = actions[n].id
    <3>1. actions[n] \in BLEAction /\ actions[n].ttl - 1 # 0
      BY <1>1, <1>4 DEF Stays
    <3>2. actions[n].ttl \in 1..MaxTtl /\ actions[n].ttl - 1 \in 1..MaxTtl
      BY <3>1, BleAssumption DEF BLEAction
    <3> QED
      BY <3>1, <3>2 DEF BLEAction
  <2> HIDE DEF a
  <2>2. /\ w \in Seq(BLEAction) /\ Len(w) = Len(v) + 1 /\ w[Len(v) + 1] = a
        /\ \A m \in 1..Len(v) : w[m] = v[m]
    BY <1>1, <2>1, AppendProperties
  <2> HIDE DEF w
  <2>3. \A m \in 1..Len(v) : v[m].id < a.id
    <3> SUFFICES ASSUME NEW m \in 1..Len(v) PROVE v[m].id < a.id
      OBVIOUS
    <3>1. PICK j \in 1..(n - 1) : v[m] = [actions[j] EXCEPT !.ttl = actions[j].ttl - 1]
      BY DEF KeptFrom
    <3>2. j \in 1..Len(actions) /\ j < n /\ actions[j].id < actions[n].id
      BY <1>1 DEF Rising
    <3>3. v[m].id = actions[j].id
      BY <1>1, <3>1, <3>2 DEF BLEAction
    <3> QED
      BY <2>1, <3>2, <3>3
  <2>4. Rising(w)
    <3> SUFFICES ASSUME NEW j \in 1..Len(w), NEW k \in 1..Len(w), j < k
                 PROVE  w[j].id < w[k].id
      BY DEF Rising
    <3>1. j \in 1..Len(v) /\ w[j] = v[j]
      BY <1>1, <2>2
    <3>2. CASE k \in 1..Len(v)
      BY <2>2, <3>1, <3>2 DEF Rising
    <3>3. CASE k = Len(v) + 1
      BY <2>2, <2>3, <3>1, <3>3
    <3> QED
      BY <1>1, <2>2, <3>2, <3>3
  <2>5. KeptFrom(actions, w, n)
    <3> SUFFICES ASSUME NEW m \in 1..Len(w)
                 PROVE  \E j \in 1..n : Stays(actions[j]) /\
                              w[m] = [actions[j] EXCEPT !.ttl = actions[j].ttl - 1]
      BY DEF KeptFrom
    <3>1. CASE m \in 1..Len(v)
      <4>1. PICK j \in 1..n : Stays(actions[j]) /\
                              v[m] = [actions[j] EXCEPT !.ttl = actions[j].ttl - 1]
        BY <1>2, <3>1 DEF KeptFrom
      <4>2. w[m] = v[m]
        BY <2>2, <3>1
      <4> QED
        BY <4>1, <4>2
    <3>2. CASE m = Len(v) + 1
      <4>1. n \in 1..n
        BY <1>1
      <4>2. w[m] = a
        BY <2>2, <3>2
      <4> QED
        BY <1>4, <4>1, <4>2 DEF a
    <3> QED
      BY <1>1, <2>2, <3>1, <3>2
  <2>6. w = Grown(actions, v, n)
    BY <1>4 DEF Grown, w, a
  <2> QED
    BY <2>2, <2>4, <2>5, <2>6
<1> QED
  BY <1>3, <1>4

\* The vector kept for another round: some of the actions, in their order.
LEMMA KeptProperties ==
    ASSUME NEW actions \in Seq(BLEAction), Rising(actions)
    PROVE  /\ Kept(actions) \in Seq(BLEAction) /\ Rising(Kept(actions))
           /\ KeptFrom(actions, Kept(actions), Len(actions))
<1> DEFINE n == Len(actions)
<1>1. n \in Nat
  OBVIOUS
<1>2. PICK g : Growth(actions, g, n) /\ Kept(actions) = g[n]
  BY <1>1, KeptIsGrown
<1>3. \A k \in 0..n : g[k] = IF k = 0 THEN <<>> ELSE Grown(actions, g[k - 1], k)
  BY <1>2 DEF Growth
<1> DEFINE Good(k) == g[k] \in Seq(BLEAction) /\ Rising(g[k]) /\ KeptFrom(actions, g[k], k)
           Bad == {k \in 0..n : ~Good(k)}
<1> HIDE DEF n
<1>4. Good(0)
  <2>1. g[0] = <<>> /\ <<>> \in Seq(BLEAction) /\ Len(<<>>) = 0
    BY <1>1, <1>3
  <2> QED
    BY <2>1 DEF Rising, KeptFrom
<1>5. ASSUME Bad # {}
      PROVE  FALSE
  <2>1. PICK k \in Bad : \A m \in Bad : k <= m
    <3>1. Bad \in SUBSET Nat
      BY <1>1
    <3> HIDE DEF Bad
    <3> QED
      BY <1>5, <3>1, Smallest
  <2>2. k \in 1..n /\ k - 1 \in 0..n /\ ~Good(k)
    BY <1>1, <1>4, <2>1
  <2>3. Good(k - 1)
    BY <1>1, <2>1, <2>2
  <2>4. g[k] = Grown(actions, g[k - 1], k)
    BY <1>1, <1>3, <2>2
  <2> QED
    BY <2>2, <2>3, <2>4, GrownProperties DEF n
<1>6. Good(n)
  BY <1>1, <1>5
<1> QED
  BY <1>2, <1>6 DEF n

Spots == Connecting \cup {"none", "idle", "start", "take", "scan", "table", "call", "restore",
                          "after", "give", "rest", "fscan", "done"}

LEMMA CallTyped ==
    ASSUME TypeOK, NEW t \in Connectors, NEW from, NEW back \in {"idle", "give", "restore"},
           Call(t, from, back)
    PROVE  /\ pc' \in [Connectors -> Spots] /\ ret' \in [Connectors -> {"idle", "give", "restore"}]
           /\ at' \in [Connectors -> Nat \ {0}]
<1>1. PICK to \in Spots : pc' = [pc EXCEPT ![t] = to]
  BY DEF Call, Goto, Spots, Connecting
<1>2. pc \in [Connectors -> Spots]
  BY DEF TypeOK, Spots
<1>3. pc' \in [Connectors -> Spots]
  BY <1>1, <1>2
<1>4. ret' = [ret EXCEPT ![t] = back] /\ at' = [at EXCEPT ![t] = 1]
  BY DEF Call
<1>5. ret' \in [Connectors -> {"idle", "give", "restore"}]
  BY <1>4 DEF TypeOK
<1>6. at' \in [Connectors -> Nat \ {0}]
  BY <1>4 DEF TypeOK
<1> QED
  BY <1>3, <1>5, <1>6

LEMMA TypeInit ==
    ASSUME Init
    PROVE  TypeOK
<1>1. Empty \in Aside /\ aside \in [Ids -> Aside]
  BY DEF Init, Empty, Aside
<1>2. /\ devices \in Seq(Devices) /\ BLEactions \in Seq(BLEAction)
      /\ swap \in [Connectors -> Seq(BLEAction)]
  BY DEF Init
<1>3. /\ pc \in [Connectors -> Connecting \cup
                   {"none", "idle", "start", "take", "scan", "table", "call",
                    "restore", "after", "give", "rest", "fscan", "done"}]
      /\ ret \in [Connectors -> {"idle", "give", "restore"}]
      /\ at \in [Connectors -> Nat \ {0}]
      /\ p \in [Connectors -> Devices \cup {NoDevice}]
  BY DEF Init
<1>4. /\ wanted \in [Ids -> 0..MaxTtl] /\ attempts \in [Ids -> Nat] /\ answers \in [Ids -> Nat]
      /\ asked \in 0..MaxActions /\ forced \in 0..MaxForced
  BY BleAssumption DEF Init
<1>5. /\ BTProcessLock \in BOOLEAN /\ forceBTScan \in BOOLEAN /\ paired \in BOOLEAN
      /\ connect \subseteq Devices
      /\ semaphoreBLEOperation \in Connectors \cup {Loop, Free}
      /\ semaphoreCreateOrUpdateDevice \in Ids \cup {Proc, Free}
      /\ loopPc \in {"idle", "take", "push", "pushed", "both"}
      /\ procPc \in {"idle", "update"}
  BY DEF Init
<1> QED
  BY <1>1, <1>2, <1>3, <1>4, <1>5 DEF TypeOK

\* procBLETask and the loop task.
LEMMA TypeLoop ==
    ASSUME TypeOK,
           \/ DeviceTake \/ (\E d \in Devices : DeviceUpdate(d))
           \/ ForceScan \/ XtoBT \/ XtoBTBusy \/ XtoBTTake \/ XtoBTGive
    PROVE  TypeOK'
<1> USE Tasks, BleAssumption DEF TypeOK, Goto, table, locks, walk, command, scans, outcome
<1>1. CASE DeviceTake
  BY <1>1 DEF DeviceTake
<1>2. CASE ForceScan
  BY <1>2 DEF ForceScan
<1>3. CASE XtoBT
  BY <1>3 DEF XtoBT
<1>4. CASE XtoBTBusy
  BY <1>4 DEF XtoBTBusy
<1>5. CASE XtoBTTake
  BY <1>5 DEF XtoBTTake
<1>6. CASE XtoBTGive
  BY <1>6 DEF XtoBTGive
<1>7. ASSUME NEW d \in Devices, DeviceUpdate(d)
      PROVE  TypeOK'
  <2>1. devices' \in Seq(Devices) /\ connect' \subseteq Devices
    BY <1>7 DEF DeviceUpdate, With
  <2> QED
    BY <1>7, <2>1 DEF DeviceUpdate
<1> QED
  BY <1>1, <1>2, <1>3, <1>4, <1>5, <1>6, <1>7

LEMMA TypePush ==
    ASSUME TypeOK, NEW d \in Devices, NEW ttl \in 1..MaxTtl, NEW immediate \in BOOLEAN,
           Push(d, ttl, immediate)
    PROVE  TypeOK'
<1>1. asked + 1 \in Ids /\ asked' = asked + 1 /\ asked' \in 0..MaxActions
  BY BleAssumption DEF TypeOK, Push, Ids
<1>2. devices' \in Seq(Devices) /\ connect' \subseteq Devices
  BY DEF TypeOK, Push, With
<1>3. BLEactions' \in Seq(BLEAction)
  <2>1. [id |-> asked + 1, dev |-> d, ttl |-> ttl, complete |-> FALSE] \in BLEAction
    BY <1>1 DEF BLEAction
  <2> QED
    BY <2>1 DEF TypeOK, Push
<1>4. wanted' \in [Ids -> 0..MaxTtl]
  BY <1>1, BleAssumption DEF TypeOK, Push
<1>5. pc' \in [Connectors -> Connecting \cup
                   {"none", "idle", "start", "take", "scan", "table", "call",
                    "restore", "after", "give", "rest", "fscan", "done"}]
  BY <1>1, Tasks DEF TypeOK, Push
<1>6. paired' \in BOOLEAN /\ loopPc' \in {"idle", "take", "push", "pushed", "both"}
  BY Zenon DEF TypeOK, Push
<1> QED
  BY <1>1, <1>2, <1>3, <1>4, <1>5, <1>6 DEF TypeOK, Push, locks, scans, walk, outcome

\* BLEconnect.
LEMMA TypeContact ==
    ASSUME TypeOK, NEW t \in Connectors, NEW ok, Contact(t, ok)
    PROVE  TypeOK'
<1>1. BLEactions' \in Seq(BLEAction)
  <2>1. /\ DOMAIN BLEactions = 1..Len(BLEactions) /\ Len(BLEactions) \in Nat
        /\ \A k \in 1..Len(BLEactions) : BLEactions[k] \in BLEAction
    BY DEF TypeOK
  <2>2. \A k \in 1..Len(BLEactions) : ok[k] \in BOOLEAN
    BY <2>1 DEF Contact
  <2>3. \A k \in 1..Len(BLEactions) :
           (IF Mine(t, k) THEN [BLEactions[k] EXCEPT !.complete = ok[k]] ELSE BLEactions[k]) \in BLEAction
    BY <2>1, <2>2 DEF BLEAction
  <2>4. BLEactions' = [k \in 1..Len(BLEactions) |->
           IF Mine(t, k) THEN [BLEactions[k] EXCEPT !.complete = ok[k]] ELSE BLEactions[k]]
    BY <2>1 DEF Contact, Tried
  <2> DEFINE e(k) == IF Mine(t, k) THEN [BLEactions[k] EXCEPT !.complete = ok[k]] ELSE BLEactions[k]
  <2>5. BLEactions' = [k \in 1..Len(BLEactions) |-> e(k)] /\ \A k \in 1..Len(BLEactions) : e(k) \in BLEAction
    BY <2>3, <2>4
  <2> HIDE DEF e
  <2>6. BLEactions' \in [1..Len(BLEactions) -> BLEAction]
    BY <2>5
  <2> QED
    BY <2>1, <2>6, SeqDef
<1>2. attempts' \in [Ids -> Nat] /\ answers' \in [Ids -> Nat]
  <2> DEFINE a(i) == attempts[i] + (IF \E k \in DOMAIN BLEactions : Mine(t, k) /\ BLEactions[k].id = i
                                    THEN 1 ELSE 0)
             b(i) == answers[i] + (IF i \in Answered(t, ok) THEN 1 ELSE 0)
  <2>1. attempts' = [i \in Ids |-> a(i)] /\ answers' = [i \in Ids |-> b(i)]
    BY DEF Contact
  <2>2. \A i \in Ids : attempts[i] \in Nat /\ answers[i] \in Nat
    BY DEF TypeOK
  <2>3. \A i \in Ids : a(i) \in Nat
    BY <2>2
  <2>4. \A i \in Ids : b(i) \in Nat
    BY <2>2
  <2> HIDE DEF a, b
  <2> QED
    BY <2>1, <2>3, <2>4
<1>3. connect' \subseteq Devices
  BY DEF TypeOK, Contact
<1>4. pc' = [pc EXCEPT ![t] = "retire"]
  BY DEF Contact, Goto
<1> QED
  BY <1>1, <1>2, <1>3, <1>4 DEF TypeOK, Contact, Connecting, locks, walk, command, scans

LEMMA TypeConnect ==
    ASSUME TypeOK, Rising(BLEactions), NEW t \in Connectors, Connect(t)
    PROVE  TypeOK'
<1>1. CASE EndOfRound(t)
  BY <1>1 DEF TypeOK, EndOfRound, Goto, Connecting, NextMarked,
     table, locks, walk, command, scans, outcome
<1>2. CASE Keep(t)
  BY <1>2 DEF TypeOK, Keep, Goto, Connecting, NextMarked,
     table, locks, walk, command, scans, outcome
<1>3. CASE Visit(t)
  <2>1. PICK k \in DOMAIN devices : /\ at' = [at EXCEPT ![t] = k]
                                   /\ p' = [p EXCEPT ![t] = devices[k]]
    BY <1>3 DEF Visit
  <2>2. k \in Nat \ {0} /\ devices[k] \in Devices
    BY DEF TypeOK
  <2> QED
    BY <1>3, <2>1, <2>2 DEF TypeOK, Visit, Goto, Connecting, table, locks, walk, command, scans, outcome
<1>4. CASE Retire(t)
  <2>1. Kept(BLEactions) \in Seq(BLEAction)
    BY KeptProperties DEF TypeOK
  <2>2. swap' \in [Connectors -> Seq(BLEAction)]
    BY <1>4, <2>1 DEF TypeOK, Retire
  <2> QED
    BY <1>4, <2>2 DEF TypeOK, Retire, Goto, Connecting, table, locks, walk, command, scans, outcome
<1>5. ASSUME NEW ok, Contact(t, ok)
      PROVE  TypeOK'
  BY <1>5, TypeContact
<1> QED
  BY <1>1, <1>2, <1>3, <1>4, <1>5 DEF Connect

LEMMA TypeCoreScanned ==
    ASSUME TypeOK, CoreScanned
    PROVE  TypeOK'
<1>1. CASE Call(Core, "scan", "give")
  BY <1>1, Tasks, CallTyped DEF TypeOK, CoreScanned, Spots, table, locks, command, scans, outcome
<1>2. CASE Goto(Core, "scan", "give") /\ UNCHANGED <<ret, at>>
  BY <1>2, Tasks DEF TypeOK, CoreScanned, Goto, Connecting, table, locks, command, scans, outcome
<1> QED
  BY <1>1, <1>2 DEF CoreScanned

LEMMA TypeCoreRest ==
    ASSUME TypeOK, CoreRest
    PROVE  TypeOK'
<1>1. PICK to \in {"fscan", "idle"} : pc' = [pc EXCEPT ![Core] = to]
  BY DEF CoreRest, Goto
<1> QED
  BY <1>1, Tasks DEF TypeOK, CoreRest, Connecting, table, locks, walk, command, scans, outcome

LEMMA TypeCore ==
    ASSUME TypeOK, Rising(BLEactions), CoreTask
    PROVE  TypeOK'
<1>1. CASE CoreTest
  BY <1>1, Tasks DEF TypeOK, CoreTest, Goto, Call, Connecting,
     table, locks, walk, command, scans, outcome
<1>2. CASE CoreTake
  BY <1>2, Tasks DEF TypeOK, CoreTake, Goto, Call, Connecting,
     table, locks, walk, command, scans, outcome
<1>3. CASE CoreBusy
  BY <1>3, Tasks DEF TypeOK, CoreBusy, Goto, Call, Connecting,
     table, locks, walk, command, scans, outcome
<1>4. CASE CoreGive
  BY <1>4, Tasks DEF TypeOK, CoreGive, Goto, Call, Connecting,
     table, locks, walk, command, scans, outcome
<1>5. CASE CoreScanned
  BY <1>5, TypeCoreScanned
<1>6. CASE CoreRest
  BY <1>6, TypeCoreRest
<1>7. CASE CoreForced
  BY <1>7, Tasks, CallTyped DEF TypeOK, CoreForced, Spots, table, locks, walk, command, scans, outcome
<1>8. CASE Connect(Core)
  BY <1>8, Tasks, TypeConnect
<1> QED
  BY <1>1, <1>2, <1>3, <1>4, <1>5, <1>6, <1>7, <1>8 DEF CoreTask

LEMMA TypeImmBusy ==
    ASSUME TypeOK, NEW i \in Ids, ImmBusy(i)
    PROVE  TypeOK'
<1>1. Last \in BLEAction /\ Butlast \in Seq(BLEAction)
  BY LastOf DEF TypeOK, ImmBusy, Last, Butlast
<1>2. Last.id \in Ids
  BY <1>1 DEF BLEAction
<1>3. answers' \in [Ids -> Nat]
  <2> HIDE DEF Last, Butlast
  <2>1. answers' = [answers EXCEPT ![Last.id] = answers[Last.id] + 1]
    BY DEF ImmBusy
  <2> QED
    BY <1>2, <2>1 DEF TypeOK
<1> HIDE DEF Last, Butlast
<1> QED
  BY <1>1, <1>3, Tasks DEF TypeOK, ImmBusy, Goto, Connecting, table, locks, walk, command, scans, outcome

LEMMA TypeImmSwap ==
    ASSUME TypeOK, NEW i \in Ids, ImmSwap(i)
    PROVE  TypeOK'
<1>1. Last \in BLEAction /\ Butlast \in Seq(BLEAction)
  BY LastOf DEF TypeOK, ImmSwap, Last, Butlast
<1>2. <<Last>> \in Seq(BLEAction) /\ <<Last.dev>> \in Seq(Devices)
  BY <1>1 DEF BLEAction
<1>3. [devices |-> devices, actions |-> Butlast] \in Aside
  BY <1>1 DEF TypeOK, Aside
<1> HIDE DEF Last, Butlast
<1>4. aside' \in [Ids -> Aside]
  BY <1>3 DEF TypeOK, ImmSwap
<1> QED
  BY <1>2, <1>4, Tasks DEF TypeOK, ImmSwap, Goto, Connecting, table, locks, walk, command, scans, outcome

LEMMA TypeImmAfter ==
    ASSUME TypeOK, NEW i \in Ids, ImmAfter(i)
    PROVE  TypeOK'
<1>1. CASE Call(i, "after", "give")
  BY <1>1, Tasks, CallTyped DEF TypeOK, ImmAfter, Spots, table, locks, command, scans, outcome
<1>2. CASE Goto(i, "after", "give") /\ UNCHANGED <<ret, at>>
  BY <1>2, Tasks DEF TypeOK, ImmAfter, Goto, Connecting, table, locks, command, scans, outcome
<1> QED
  BY <1>1, <1>2 DEF ImmAfter

LEMMA TypeImm ==
    ASSUME TypeOK, Rising(BLEactions), NEW i \in Ids, ImmTask(i)
    PROVE  TypeOK'
<1>1. CASE ImmStart(i)
  BY <1>1, Tasks DEF TypeOK, ImmStart, Goto, Call, Connecting, Aside, Empty,
     table, locks, walk, command, scans, outcome
<1>2. CASE ImmTake(i)
  BY <1>2, Tasks DEF TypeOK, ImmTake, Goto, Call, Connecting, Aside, Empty,
     table, locks, walk, command, scans, outcome
<1>3. CASE ImmGiveUp(i)
  BY <1>3, Tasks DEF TypeOK, ImmGiveUp, Goto, Call, Connecting, Aside, Empty,
     table, locks, walk, command, scans, outcome
<1>4. CASE ImmGive(i)
  BY <1>4, Tasks DEF TypeOK, ImmGive, Goto, Call, Connecting, Aside, Empty,
     table, locks, walk, command, scans, outcome
<1>5. CASE ImmBusy(i)
  BY <1>5, TypeImmBusy
<1>6. CASE ImmSwap(i)
  BY <1>6, TypeImmSwap
<1>7. CASE ImmAfter(i)
  BY <1>7, TypeImmAfter
<1>8. CASE ImmCall(i)
  BY <1>8, Tasks, CallTyped DEF TypeOK, ImmCall, Spots, table, locks, walk, command, scans, outcome
<1>9. CASE ImmRestore(i)
  <2>1. aside[i].devices \in Seq(Devices) /\ aside[i].actions \in Seq(BLEAction) /\ Empty \in Aside
    BY DEF TypeOK, Aside, Empty
  <2> QED
    BY <1>9, <2>1, Tasks DEF TypeOK, ImmRestore, Goto, Connecting, table, locks, walk, command, scans, outcome
<1>10. CASE Connect(i)
  BY <1>10, Tasks, TypeConnect
<1> QED
  BY <1>1, <1>2, <1>3, <1>4, <1>5, <1>6, <1>7, <1>8, <1>9, <1>10 DEF ImmTask

LEMMA TypeStep ==
    ASSUME TypeOK, Rising(BLEactions), [Next]_vars
    PROVE  TypeOK'
<1>1. CASE UNCHANGED vars
  BY <1>1 DEF TypeOK, vars
<1> QED
  BY <1>1, TypeLoop, TypePush, TypeCore, TypeImm DEF Next

-----------------------------------------------------------------------------
(* Who is where: as long as no immediate command comes while a forced scan *)
(* is due or runs, one task at a time is in BLEconnect.                    *)

\* The task of the immediate command i holds semaphoreBLEOperation ...
Inside(i) == pc[i] \in Connecting \cup {"table", "call", "restore", "after", "give"}

\* ... and so does the core task, unless the scan was forced.
CoreInside == \/ pc[Core] \in {"scan", "give"}
              \/ pc[Core] \in Connecting /\ ret[Core] = "give"

Active(i) == pc[i] \notin {"none", "done"}

\* A task is where its holder says it is.
Places ==
    /\ \A i \in Ids :
          /\ pc[i] \notin {"idle", "scan", "rest", "fscan"}
          /\ pc[i] \in Connecting => ret[i] \in {"give", "restore"}
    /\ pc[Core] \notin {"none", "start", "table", "call", "restore", "after", "done"}
    /\ pc[Core] \in Connecting => ret[Core] \in {"idle", "give"}

HolderIsInside ==
    /\ \A i \in Ids : Inside(i) <=> semaphoreBLEOperation = i
    /\ CoreInside <=> semaphoreBLEOperation = Core
    /\ loopPc \in {"push", "pushed", "both"} <=> semaphoreBLEOperation = Loop

\* A forced scan, which takes no semaphore, finds no task of an immediate command.
ForcedAlone == ForcedScan => \A i \in Ids : ~Active(i)

\* A task that starts is served before the core task.
FirstServed ==
    (\E i \in Ids : pc[i] \in {"start", "take"}) => semaphoreBLEOperation # Core

\* One message that holds one command starts one task, and the next message waits for it.
TasksAlone ==
    /\ loopPc = "push" => \A i \in Ids : ~Active(i)
    /\ loopPc = "both" => paired
    /\ ~paired => \A i, j \in Ids : Active(i) /\ Active(j) => i = j

Where == Places /\ HolderIsInside /\ ForcedAlone /\ FirstServed /\ TasksAlone

LEMMA WhereInit ==
    ASSUME Init
    PROVE  Where
BY Tasks DEF Init, Where, Places, HolderIsInside, ForcedAlone, FirstServed, TasksAlone, Inside,
   CoreInside, Active, ForcedScan, Connecting

LEMMA WhereLoop ==
    ASSUME ~Overlap, TypeOK, Where,
           \/ DeviceTake \/ (\E d \in Devices : DeviceUpdate(d))
           \/ ForceScan \/ XtoBT \/ XtoBTBusy \/ XtoBTTake \/ XtoBTGive
    PROVE  Where'
<1> USE Tasks DEF Where, Places, HolderIsInside, ForcedAlone, FirstServed, TasksAlone, Inside,
        CoreInside, Active, ForcedScan, Connecting, locks, scans, command, walk
<1>1. CASE DeviceTake \/ \E d \in Devices : DeviceUpdate(d)
  BY <1>1 DEF DeviceTake, DeviceUpdate
<1>2. CASE ForceScan
  BY <1>2 DEF ForceScan
<1>3. CASE XtoBT \/ XtoBTBusy
  BY <1>3 DEF XtoBT, XtoBTBusy
<1>4. CASE XtoBTTake
  <2>1. \A i \in Ids : ~Active(i)
    <3> SUFFICES ASSUME NEW i \in Ids PROVE ~Active(i)
      OBVIOUS
    <3>1. pc[i] \in Connecting \cup {"none", "idle", "start", "take", "scan", "table", "call",
                        "restore", "after", "give", "rest", "fscan", "done"}
      BY DEF TypeOK
    <3>2. pc[i] \notin {"start", "take"} /\ semaphoreBLEOperation # i
      BY <1>4 DEF XtoBTTake, NobodyFirst
    <3> QED
      BY <3>1, <3>2
  <2> QED
    BY <1>4, <2>1 DEF XtoBTTake
<1>5. CASE XtoBTGive
  BY <1>5 DEF XtoBTGive
<1> QED
  BY <1>1, <1>2, <1>3, <1>4, <1>5

LEMMA WherePush ==
    ASSUME ~Overlap, TypeOK, Where, NEW d \in Devices, NEW ttl \in 1..MaxTtl,
           NEW immediate \in BOOLEAN, Push(d, ttl, immediate)
    PROVE  Where'
<1> DEFINE n == asked + 1
<1>1. n \in Ids
  BY BleAssumption DEF TypeOK, Push, Ids
<1>2. /\ UNCHANGED <<locks, scans, ret>> /\ semaphoreBLEOperation = Loop
      /\ \/ loopPc = "push" /\ loopPc' = "pushed"
         \/ loopPc = "pushed" /\ loopPc' = "both" /\ paired'
      /\ (paired => paired') /\ (immediate => ~ForcedScan)
  BY DEF Push, walk, Where, HolderIsInside
<1>3. CASE ~immediate
  <2>1. pc' = pc
    BY <1>3 DEF Push
  <2> QED
    BY <1>2, <2>1, Tasks DEF Where, Places, HolderIsInside, ForcedAlone, FirstServed, TasksAlone,
       Inside, CoreInside, Active, ForcedScan, Connecting, locks, scans
<1>4. CASE immediate
  <2>1. pc' = [pc EXCEPT ![n] = "start"] /\ DOMAIN pc = Connectors
    BY <1>4 DEF Push, TypeOK
  <2> HIDE DEF n
  <2>2. pc'[n] = "start" /\ \A t \in Connectors \ {n} : pc'[t] = pc[t]
    BY <1>1, <2>1, Tasks
  <2> USE Tasks, <1>1, <1>2, <1>4, <2>2 DEF Where, Places, HolderIsInside, ForcedAlone, FirstServed,
      TasksAlone, Inside, CoreInside, Active, ForcedScan, Connecting, locks, scans
  <2>3. Places' /\ HolderIsInside'
    OBVIOUS
  <2>4. ForcedAlone' /\ FirstServed'
    OBVIOUS
  <2>5. TasksAlone'
    OBVIOUS
  <2> QED
    BY <2>3, <2>4, <2>5
<1> QED
  BY <1>3, <1>4

LEMMA WhereConnect ==
    ASSUME TypeOK, Where, NEW t \in Connectors, Connect(t)
    PROVE  Where'
<1>1. /\ UNCHANGED <<locks, scans, loopPc, paired, ret>> /\ pc[t] \in Connecting
      /\ \E to \in Connecting \cup {ret[t]} : pc' = [pc EXCEPT ![t] = to]
  BY DEF Connect, Visit, EndOfRound, Retire, Keep, Contact, Goto, Connecting, walk, locks, scans,
         command
<1>2. DOMAIN pc = Connectors
  BY DEF TypeOK
<1>3. PICK to \in Connecting \cup {ret[t]} : pc' = [pc EXCEPT ![t] = to]
  BY <1>1
<1>4. pc'[t] = to /\ \A u \in Connectors \ {t} : pc'[u] = pc[u]
  BY <1>2, <1>3
<1> USE Tasks, <1>1, <1>4 DEF Where, Places, HolderIsInside, ForcedAlone, FirstServed, TasksAlone,
    Inside, CoreInside, Active, ForcedScan, Connecting, locks, scans
<1>5. Places' /\ HolderIsInside'
  OBVIOUS
<1>6. ForcedAlone' /\ FirstServed'
  OBVIOUS
<1>7. TasksAlone'
  OBVIOUS
<1> QED
  BY <1>5, <1>6, <1>7

LEMMA WhereCore ==
    ASSUME TypeOK, Where, CoreTask
    PROVE  Where'
<1>0. pc = [t \in Connectors |-> pc[t]] /\ ret = [t \in Connectors |-> ret[t]]
  BY DEF TypeOK
<1> USE <1>0, Tasks DEF Where, Places, HolderIsInside, ForcedAlone, FirstServed, TasksAlone,
        Inside, CoreInside, Active, ForcedScan, Connecting, Goto, locks, scans, command, walk
<1>1. CASE CoreTest
  BY <1>1 DEF CoreTest
<1>2. CASE CoreTake
  BY <1>2 DEF CoreTake, NobodyFirst
<1>3. CASE CoreBusy
  BY <1>3 DEF CoreBusy
<1>4. CASE CoreScanned
  BY <1>4, SMTT(30) DEF CoreScanned, Call
<1>5. CASE CoreGive
  BY <1>5 DEF CoreGive
<1>6. CASE CoreRest
  BY <1>6 DEF CoreRest
<1>7. CASE CoreForced
  BY <1>7 DEF CoreForced, Call
<1>8. CASE Connect(Core)
  BY <1>8, WhereConnect
<1> QED
  BY <1>1, <1>2, <1>3, <1>4, <1>5, <1>6, <1>7, <1>8 DEF CoreTask

LEMMA WhereImm ==
    ASSUME TypeOK, Where, NEW i \in Ids, ImmTask(i)
    PROVE  Where'
<1>0. pc = [t \in Connectors |-> pc[t]] /\ ret = [t \in Connectors |-> ret[t]]
  BY DEF TypeOK
<1> USE <1>0, Tasks DEF Where, Places, HolderIsInside, ForcedAlone, FirstServed, TasksAlone,
        Inside, CoreInside, Active, ForcedScan, Connecting, Goto, locks, scans, command, walk
<1>1. CASE ImmStart(i)
  BY <1>1 DEF ImmStart
<1>2. CASE ImmBusy(i)
  BY <1>2 DEF ImmBusy
<1>3. CASE ImmTake(i)
  BY <1>3 DEF ImmTake
<1>4. CASE ImmGiveUp(i)
  BY <1>4 DEF ImmGiveUp
<1>5. CASE ImmSwap(i)
  BY <1>5 DEF ImmSwap
<1>6. CASE ImmCall(i)
  BY <1>6 DEF ImmCall, Call
<1>7. CASE ImmRestore(i)
  BY <1>7 DEF ImmRestore
<1>8. CASE ImmAfter(i)
  BY <1>8, SMTT(30) DEF ImmAfter, Call
<1>9. CASE ImmGive(i)
  BY <1>9, SMTT(30) DEF ImmGive
<1>10. CASE Connect(i)
  BY <1>10, WhereConnect
<1> QED
  BY <1>1, <1>2, <1>3, <1>4, <1>5, <1>6, <1>7, <1>8, <1>9, <1>10 DEF ImmTask

LEMMA WhereStep ==
    ASSUME ~Overlap, TypeOK, Where, [Next]_vars
    PROVE  Where'
<1>1. CASE UNCHANGED vars
  BY <1>1 DEF vars, Where, Places, HolderIsInside, ForcedAlone, FirstServed, TasksAlone, Inside,
              CoreInside, Active, ForcedScan
<1> QED
  BY <1>1, WhereLoop, WherePush, WhereCore, WhereImm DEF Next

\* One task at a time is in BLEconnect ...
LEMMA OneConnects ==
    ASSUME Where, NEW t \in Connectors, NEW u \in Connectors,
           pc[t] \in Connecting, Inside(u) \/ pc[u] \in Connecting
    PROVE  t = u
BY Tasks DEF Where, Places, HolderIsInside, ForcedAlone, Inside, CoreInside, Active, ForcedScan,
             Connecting

\* ... and none while the task of a message's only command waits.
LEMMA NoneWaits ==
    ASSUME Where, NEW t \in Connectors, pc[t] \in Connecting,
           NEW i \in Ids, pc[i] \in {"take", "table"}
    PROVE  paired
BY Tasks DEF Where, Places, HolderIsInside, ForcedAlone, FirstServed, TasksAlone, Inside,
             CoreInside, Active, ForcedScan, Connecting

-----------------------------------------------------------------------------
(* The vectors: the commands are in the order in which they were accepted. *)

Accepted(actions) == \A k \in 1..Len(actions) : actions[k].id <= asked

Ordered ==
    /\ Rising(BLEactions) /\ Accepted(BLEactions)
    /\ \A t \in Connectors : Rising(swap[t]) /\ Accepted(swap[t])
    /\ \A i \in Ids : Rising(aside[i].actions) /\ Accepted(aside[i].actions)

\* What the parts of the type invariant say of the elements of the vectors.
LEMMA Vectored ==
    ASSUME TypeOK
    PROVE  /\ Len(BLEactions) \in Nat /\ DOMAIN BLEactions = 1..Len(BLEactions)
           /\ \A k \in 1..Len(BLEactions) : BLEactions[k] \in BLEAction
           /\ \A t \in Connectors : /\ swap[t] \in Seq(BLEAction) /\ Len(swap[t]) \in Nat
                                    /\ \A k \in 1..Len(swap[t]) : swap[t][k] \in BLEAction
           /\ \A i \in Ids : /\ aside[i].actions \in Seq(BLEAction)
                             /\ Len(aside[i].actions) \in Nat
                             /\ \A k \in 1..Len(aside[i].actions) :
                                   aside[i].actions[k] \in BLEAction
           /\ asked \in 0..MaxActions /\ asked \in Nat
<1>1. \A v \in Seq(BLEAction) : Len(v) \in Nat /\ \A k \in 1..Len(v) : v[k] \in BLEAction
  OBVIOUS
<1>2. BLEactions \in Seq(BLEAction) /\ \A t \in Connectors : swap[t] \in Seq(BLEAction)
  BY DEF TypeOK
<1>3. \A i \in Ids : aside[i].actions \in Seq(BLEAction)
  BY DEF TypeOK, Aside
<1>4. asked \in 0..MaxActions /\ asked \in Nat
  BY BleAssumption DEF TypeOK
<1>5. DOMAIN BLEactions = 1..Len(BLEactions)
  BY <1>2
<1> QED
  BY <1>1, <1>2, <1>3, <1>4, <1>5

LEMMA NumbersOf ==
    ASSUME NEW a \in BLEAction
    PROVE  /\ a.id \in Ids /\ a.id \in Nat /\ a.ttl \in 1..MaxTtl /\ a.ttl \in Nat \ {0}
           /\ a.complete \in BOOLEAN
BY BleAssumption DEF BLEAction, Ids

\* Where an action of the vector kept for another round comes from.
LEMMA KeptIds ==
    ASSUME TypeOK, Rising(BLEactions), NEW m \in 1..Len(Kept(BLEactions))
    PROVE  \E j \in 1..Len(BLEactions) :
              /\ Stays(BLEactions[j])
              /\ Kept(BLEactions)[m].id = BLEactions[j].id
              /\ Kept(BLEactions)[m].ttl = BLEactions[j].ttl - 1
<1>1. KeptFrom(BLEactions, Kept(BLEactions), Len(BLEactions))
  BY KeptProperties DEF TypeOK
<1>2. PICK j \in 1..Len(BLEactions) :
         /\ Stays(BLEactions[j])
         /\ Kept(BLEactions)[m] = [BLEactions[j] EXCEPT !.ttl = BLEactions[j].ttl - 1]
  BY <1>1 DEF KeptFrom
<1>3. BLEactions[j] \in BLEAction
  BY Vectored
<1> QED
  BY <1>2, <1>3 DEF BLEAction

\* What an attempt changes in BLEactions: whether a command is complete.
LEMMA TriedKeeps ==
    ASSUME TypeOK, NEW t \in Connectors, NEW ok, Contact(t, ok)
    PROVE  /\ Len(BLEactions') = Len(BLEactions)
           /\ \A k \in 1..Len(BLEactions) :
                 /\ BLEactions'[k].id = BLEactions[k].id
                 /\ BLEactions'[k].ttl = BLEactions[k].ttl
                 /\ Mine(t, k) => BLEactions'[k].complete = ok[k]
<1>1. DOMAIN BLEactions = 1..Len(BLEactions) /\ Len(BLEactions) \in Nat
  BY Vectored
<1>2. BLEactions' = [k \in 1..Len(BLEactions) |->
         IF Mine(t, k) THEN [BLEactions[k] EXCEPT !.complete = ok[k]] ELSE BLEactions[k]]
  BY <1>1 DEF Contact, Tried
<1>3. Len(BLEactions') = Len(BLEactions)
  BY <1>1, <1>2
<1>4. ASSUME NEW k \in 1..Len(BLEactions)
      PROVE  /\ BLEactions'[k].id = BLEactions[k].id
             /\ BLEactions'[k].ttl = BLEactions[k].ttl
             /\ Mine(t, k) => BLEactions'[k].complete = ok[k]
  <2>1. BLEactions[k] \in BLEAction
    BY Vectored
  <2>2. BLEactions'[k] =
          IF Mine(t, k) THEN [BLEactions[k] EXCEPT !.complete = ok[k]] ELSE BLEactions[k]
    BY <1>2
  <2> QED
    BY <2>1, <2>2 DEF BLEAction
<1> QED
  BY <1>3, <1>4

\* The newest command and the others.
LEMMA NewestAndOthers ==
    ASSUME TypeOK, Ordered, BLEactions # <<>>
    PROVE  /\ Last \in BLEAction /\ Butlast \in Seq(BLEAction)
           /\ Len(BLEactions) \in Nat \ {0} /\ Len(Butlast) = Len(BLEactions) - 1
           /\ Last = BLEactions[Len(BLEactions)]
           /\ \A k \in 1..Len(Butlast) : /\ Butlast[k] = BLEactions[k] /\ k \in 1..Len(BLEactions)
                                         /\ Butlast[k].id < Last.id
           /\ Rising(Butlast) /\ Accepted(Butlast) /\ Last.id <= asked
<1>1. /\ Last \in BLEAction /\ Butlast \in Seq(BLEAction)
      /\ Len(BLEactions) \in Nat \ {0} /\ Len(Butlast) = Len(BLEactions) - 1
      /\ Last = BLEactions[Len(BLEactions)]
      /\ \A k \in 1..(Len(BLEactions) - 1) : Butlast[k] = BLEactions[k]
  BY LastOf DEF TypeOK, Last, Butlast
<1> HIDE DEF Last, Butlast
<1>2. \A k \in 1..Len(Butlast) : /\ Butlast[k] = BLEactions[k] /\ k \in 1..Len(BLEactions)
                                 /\ Butlast[k].id < Last.id
  BY <1>1 DEF Ordered, Rising
<1>3. Rising(Butlast) /\ Accepted(Butlast) /\ Last.id <= asked
  BY <1>1, <1>2 DEF Ordered, Rising, Accepted
<1> QED
  BY <1>1, <1>2, <1>3

\* The command that is pushed comes last.
LEMMA Pushed ==
    ASSUME TypeOK, NEW d \in Devices, NEW ttl \in 1..MaxTtl, NEW immediate \in BOOLEAN,
           Push(d, ttl, immediate)
    PROVE  /\ Len(BLEactions') = Len(BLEactions) + 1
           /\ \A k \in 1..Len(BLEactions) : BLEactions'[k] = BLEactions[k]
           /\ BLEactions'[Len(BLEactions) + 1] =
                 [id |-> asked + 1, dev |-> d, ttl |-> ttl, complete |-> FALSE]
           /\ BLEactions'[Len(BLEactions) + 1].id = asked + 1
           /\ BLEactions'[Len(BLEactions) + 1].ttl = ttl
BY Vectored DEF Push

LEMMA OrderedStep ==
    ASSUME TypeOK, Ordered, [Next]_vars
    PROVE  Ordered'
<1> DEFINE Same == UNCHANGED <<BLEactions, swap, aside, asked>>
<1>1. CASE Same
  BY <1>1 DEF Ordered, Rising, Accepted
<1>2. ASSUME NEW d \in Devices, NEW ttl \in 1..MaxTtl, NEW immediate \in BOOLEAN,
             Push(d, ttl, immediate)
      PROVE  Ordered'
  <2>1. asked' = asked + 1 /\ swap' = swap /\ aside' = aside
    BY <1>2 DEF Push, walk
  <2>2. Rising(BLEactions)' /\ Accepted(BLEactions)'
    <3> DEFINE n == Len(BLEactions)
    <3>1. /\ n \in Nat /\ Len(BLEactions') = n + 1 /\ asked \in Nat
          /\ \A k \in 1..n : BLEactions'[k] = BLEactions[k]
      BY <1>2, Pushed, Vectored
    <3>2. BLEactions'[n + 1].id = asked + 1
      BY <1>2, Pushed
    <3>3. \A k \in 1..n : BLEactions[k].id \in Nat /\ BLEactions[k].id <= asked
      <4>1. \A k \in 1..n : BLEactions[k] \in BLEAction /\ BLEactions[k].id <= asked
        BY Vectored DEF Ordered, Accepted
      <4> QED
        BY <4>1, NumbersOf
    <3>4. \A j, k \in 1..n : j < k => BLEactions[j].id < BLEactions[k].id
      BY DEF Ordered, Rising
    <3> HIDE DEF n
    <3>5. \A k \in 1..(n + 1) : k \in 1..n \/ k = n + 1
      BY <3>1
    <3>6. \A k \in 1..(n + 1) : BLEactions'[k].id <= asked'
      BY <2>1, <3>1, <3>2, <3>3, <3>5
    <3>7. ASSUME NEW j \in 1..(n + 1), NEW k \in 1..(n + 1), j < k
          PROVE  BLEactions'[j].id < BLEactions'[k].id
      BY <3>1, <3>2, <3>3, <3>4, <3>5, <3>7
    <3> QED
      BY <3>1, <3>6, <3>7 DEF Rising, Accepted
  <2>3. \A t \in Connectors : Rising(swap[t])' /\ Accepted(swap[t])'
    BY <2>1, Vectored, NumbersOf DEF Ordered, Rising, Accepted
  <2>4. \A i \in Ids : Rising(aside[i].actions)' /\ Accepted(aside[i].actions)'
    BY <2>1, Vectored, NumbersOf DEF Ordered, Rising, Accepted
  <2> QED
    BY <2>2, <2>3, <2>4 DEF Ordered
<1>3. ASSUME NEW t \in Connectors, Connect(t)
      PROVE  Ordered'
  <2>1. CASE Visit(t) \/ EndOfRound(t)
    BY <1>1, <2>1 DEF Visit, EndOfRound, command
  <2>2. ASSUME NEW ok, Contact(t, ok)
        PROVE  Ordered'
    <3>1. UNCHANGED <<swap, aside, asked>>
      BY <2>2 DEF Contact, walk, command
    <3>2. Rising(BLEactions)' /\ Accepted(BLEactions)'
      BY <2>2, <3>1, TriedKeeps DEF Ordered, Rising, Accepted
    <3> QED
      BY <3>1, <3>2 DEF Ordered, Rising, Accepted
  <2>3. CASE Retire(t)
    <3>1. UNCHANGED <<BLEactions, aside, asked>> /\ swap' = [swap EXCEPT ![t] = Kept(BLEactions)]
      BY <2>3 DEF Retire, command
    <3>2. Rising(Kept(BLEactions)) /\ Accepted(Kept(BLEactions))
      <4>1. Rising(Kept(BLEactions)) /\ KeptFrom(BLEactions, Kept(BLEactions), Len(BLEactions))
        BY KeptProperties DEF Ordered, TypeOK
      <4>2. \A j \in 1..Len(BLEactions) : BLEactions[j].id <= asked
        BY DEF Ordered, Accepted
      <4>3. \A m \in 1..Len(Kept(BLEactions)) : Kept(BLEactions)[m].id <= asked
        BY <4>2, KeptIds DEF Ordered
      <4> QED
        BY <4>1, <4>3 DEF Accepted
    <3>3. \A u \in Connectors : swap'[u] = IF u = t THEN Kept(BLEactions) ELSE swap[u]
      BY <3>1 DEF TypeOK
    <3>4. \A u \in Connectors : Rising(swap'[u]) /\ Accepted(swap'[u])
      BY <3>2, <3>3 DEF Ordered
    <3> QED
      BY <3>1, <3>4 DEF Ordered, Rising, Accepted
  <2>4. CASE Keep(t)
    <3>1. UNCHANGED <<aside, asked>> /\ BLEactions' = swap[t] /\ swap' = [swap EXCEPT ![t] = <<>>]
      BY <2>4 DEF Keep, command
    <3>2. \A u \in Connectors : swap'[u] = IF u = t THEN <<>> ELSE swap[u]
      BY <3>1 DEF TypeOK
    <3>3. Rising(<<>>) /\ Accepted(<<>>)
      BY DEF Rising, Accepted
    <3>4. \A u \in Connectors : Rising(swap'[u]) /\ Accepted(swap'[u])
      BY <3>2, <3>3 DEF Ordered
    <3> QED
      BY <3>1, <3>4 DEF Ordered, Rising, Accepted
  <2> QED
    BY <1>3, <2>1, <2>2, <2>3, <2>4 DEF Connect
<1>4. ASSUME NEW i \in Ids, ImmTask(i)
      PROVE  Ordered'
  <2>1. CASE ImmStart(i) \/ ImmTake(i) \/ ImmGiveUp(i) \/ ImmCall(i) \/ ImmAfter(i) \/ ImmGive(i)
    BY <1>1, <2>1 DEF ImmStart, ImmTake, ImmGiveUp, ImmCall, ImmAfter, ImmGive, walk, command
  <2>2. CASE ImmBusy(i)
    <3>1. UNCHANGED <<swap, aside, asked>> /\ BLEactions' = Butlast /\ BLEactions # <<>>
      BY <2>2 DEF ImmBusy, walk, command
    <3>2. Rising(Butlast) /\ Accepted(Butlast)
      BY <3>1, NewestAndOthers
    <3> QED
      BY <3>1, <3>2 DEF Ordered, Rising, Accepted
  <2>3. CASE ImmSwap(i)
    <3>1. /\ UNCHANGED <<swap, asked>> /\ BLEactions' = <<Last>> /\ BLEactions # <<>>
          /\ aside' = [aside EXCEPT ![i] = [devices |-> devices, actions |-> Butlast]]
      BY <2>3 DEF ImmSwap, walk, command
    <3>2. Rising(Butlast) /\ Accepted(Butlast) /\ Rising(<<Last>>) /\ Accepted(<<Last>>)
      BY <3>1, NewestAndOthers DEF Rising, Accepted
    <3>3. \A j \in Ids : aside'[j].actions = IF j = i THEN Butlast ELSE aside[j].actions
      BY <3>1 DEF TypeOK
    <3> HIDE DEF Last, Butlast
    <3>4. \A j \in Ids : Rising(aside'[j].actions) /\ Accepted(aside'[j].actions)
      BY <3>2, <3>3 DEF Ordered
    <3> QED
      BY <3>1, <3>2, <3>4 DEF Ordered, Rising, Accepted
  <2>4. CASE ImmRestore(i)
    <3>1. /\ UNCHANGED <<swap, asked>> /\ BLEactions' = aside[i].actions
          /\ aside' = [aside EXCEPT ![i] = Empty]
      BY <2>4 DEF ImmRestore, walk, command
    <3>2. Rising(<<>>) /\ Accepted(<<>>)
      BY DEF Rising, Accepted
    <3>3. \A j \in Ids : aside'[j].actions = IF j = i THEN <<>> ELSE aside[j].actions
      BY <3>1 DEF TypeOK, Empty
    <3>4. \A j \in Ids : Rising(aside'[j].actions) /\ Accepted(aside'[j].actions)
      BY <3>2, <3>3 DEF Ordered
    <3> QED
      BY <3>1, <3>4 DEF Ordered, Rising, Accepted
  <2> QED
    BY <1>3, <1>4, <2>1, <2>2, <2>3, <2>4, Tasks DEF ImmTask
<1>5. CASE CoreTask
  <2>1. CASE CoreTest \/ CoreTake \/ CoreBusy \/ CoreScanned \/ CoreGive \/ CoreRest \/ CoreForced
    BY <1>1, <2>1 DEF CoreTest, CoreTake, CoreBusy, CoreScanned, CoreGive, CoreRest, CoreForced,
       walk, command
  <2> QED
    BY <1>3, <1>5, <2>1, Tasks DEF CoreTask
<1>6. CASE \/ DeviceTake \/ \E d \in Devices : DeviceUpdate(d)
           \/ ForceScan \/ XtoBT \/ XtoBTBusy \/ XtoBTTake \/ XtoBTGive
  BY <1>1, <1>6 DEF DeviceTake, DeviceUpdate, ForceScan, XtoBT, XtoBTBusy, XtoBTTake, XtoBTGive,
     walk, command
<1>7. CASE UNCHANGED vars
  BY <1>1, <1>7 DEF vars
<1> QED
  BY <1>2, <1>4, <1>5, <1>6, <1>7 DEF Next

\* The state of the commands, the tasks and the table keeps its type, whatever overlaps.
THEOREM TypeCorrect == Spec => []TypeOK
<1>1. Init => TypeOK /\ Ordered
  <2>1. ASSUME Init PROVE Ordered
    BY <2>1 DEF Init, Ordered, Rising, Accepted, Empty
  <2> QED
    BY <2>1, TypeInit
<1>2. TypeOK /\ Ordered /\ [Next]_vars => (TypeOK /\ Ordered)'
  <2> SUFFICES ASSUME TypeOK, Ordered, [Next]_vars PROVE TypeOK' /\ Ordered'
    OBVIOUS
  <2>1. Rising(BLEactions)
    BY DEF Ordered
  <2> QED
    BY <2>1, TypeStep, OrderedStep
<1> QED
  BY <1>1, <1>2, PTL DEF Spec

-----------------------------------------------------------------------------
(* What is due to the commands, as long as one task at a time connects.    *)

\* What was put aside was accepted before what is left.
Before(old, new) ==
    \A j \in 1..Len(old), k \in 1..Len(new) : old[j].id < new[k].id

\* The task of the immediate command i has put the other commands aside.
AsideHeld(i) == \/ pc[i] \in {"call", "restore"}
                \/ pc[i] \in Connecting /\ ret[i] = "restore"

\* A command is in one vector at a time, but for the moment the kept ones are copied.
Apart ==
    /\ \A t \in Connectors : pc[t] # "keep" => swap[t] = <<>>
    /\ \A i \in Ids : /\ aside[i].actions # <<>> => AsideHeld(i)
                      /\ Before(aside[i].actions, BLEactions)
                      /\ \A t \in Connectors : Before(aside[i].actions, swap[t])

\* Commands that are not accepted yet.
Ahead ==
    \A i \in Ids : i > asked => attempts[i] = 0 /\ answers[i] = 0 /\ pc[i] = "none"

\* An attempt has been made for which ttl has not been decremented yet.
Tested == \E t \in Connectors : pc[t] \in {"retire", "keep"}

\* What a command of a vector may still be tried, it was asked for.
Due(actions, slack) ==
    \A k \in 1..Len(actions) :
        attempts[actions[k].id] + actions[k].ttl <= wanted[actions[k].id] + slack

AttemptsDue ==
    /\ Due(BLEactions, IF Tested THEN 1 ELSE 0)
    /\ \A t \in Connectors : Due(swap[t], 0)
    /\ \A i \in Ids : Due(aside[i].actions, 0)

\* What has been answered is not kept.
Unanswered(actions) == \A k \in 1..Len(actions) : answers[actions[k].id] = 0

Leaves(a) == \E t \in Connectors : pc[t] = "keep" \/ (pc[t] = "retire" /\ ~Stays(a))

NoneAnswered ==
    paired \/ /\ \A k \in 1..Len(BLEactions) :
                    answers[BLEactions[k].id] = 0 \/ Leaves(BLEactions[k])
              /\ \A t \in Connectors : Unanswered(swap[t])
              /\ \A i \in Ids : Unanswered(aside[i].actions)

\* The commands a task waits for are there.
Waited == paired \/ \A i \in Ids : pc[i] \in {"take", "table"} => BLEactions # <<>>

Data == /\ Apart /\ Ahead /\ AttemptsDue /\ AttemptsBounded
        /\ NoneAnswered /\ AnsweredOnce /\ Waited

LEMMA Counts ==
    ASSUME TypeOK, NEW a \in BLEAction
    PROVE  /\ attempts[a.id] \in Nat /\ answers[a.id] \in Nat /\ wanted[a.id] \in Nat
           /\ a.id \in Ids /\ a.id \in Nat /\ a.ttl \in Nat \ {0}
BY NumbersOf, BleAssumption DEF TypeOK

LEMMA DueMore ==
    ASSUME TypeOK, Data
    PROVE  Due(BLEactions, 1) /\ (~Tested => Due(BLEactions, 0))
BY Vectored, Counts DEF Data, AttemptsDue, Due

LEMMA DataInit ==
    ASSUME Init
    PROVE  Data
<1>1. /\ BLEactions = <<>> /\ \A t \in Connectors : swap[t] = <<>> /\ pc[t] \in {"idle", "none"}
      /\ \A i \in Ids : /\ aside[i].actions = <<>> /\ attempts[i] = 0 /\ answers[i] = 0
                        /\ wanted[i] = 0 /\ pc[i] = "none"
  BY Tasks DEF Init, Empty
<1>2. Len(<<>>) = 0
  OBVIOUS
<1> QED
  BY <1>1, <1>2, Tasks DEF Data, Apart, Before, Ahead, AttemptsDue, Due, AttemptsBounded,
     NoneAnswered, Unanswered, AnsweredOnce, Waited

\* The steps that leave the commands and their history alone.
Quieted == UNCHANGED <<BLEactions, swap, aside, asked, attempts, answers, wanted, paired>>

LEMMA Quiet ==
    ASSUME TypeOK, Data, Quieted,
           \A t \in Connectors : pc[t] \in {"retire", "keep"} => pc'[t] = pc[t],
           \A i \in Ids : /\ pc[i] = "none" => pc'[i] = "none"
                          /\ AsideHeld(i) => AsideHeld(i)'
                          /\ pc'[i] \in {"take", "table"} =>
                                pc[i] \in {"take", "table"} \/ BLEactions # <<>>
    PROVE  Data'
<1> USE DEF Quieted
<1>1. Apart'
  BY DEF Data, Apart, Before
<1>2. Ahead'
  BY DEF Data, Ahead
<1>3. AttemptsDue'
  <2>1. Tested => Tested'
    BY DEF Tested
  <2> QED
    BY <2>1, DueMore DEF Data, AttemptsDue, Due
<1>4. NoneAnswered'
  <2>1. ASSUME NEW a, Leaves(a)
        PROVE  Leaves(a)'
    BY <2>1 DEF Leaves, Stays
  <2> QED
    BY <2>1 DEF Data, NoneAnswered, Unanswered, Leaves, Stays
<1>5. AttemptsBounded' /\ AnsweredOnce' /\ Waited'
  BY DEF Data, AttemptsBounded, AnsweredOnce, Waited
<1> QED
  BY <1>1, <1>2, <1>3, <1>4, <1>5 DEF Data

LEMMA QuietHere ==
    ASSUME TypeOK, Data, Quieted, UNCHANGED <<pc, ret>>
    PROVE  Data'
BY Quiet DEF AsideHeld

LEMMA QuietMove ==
    ASSUME TypeOK, Data, Quieted, NEW t \in Connectors, NEW to, pc' = [pc EXCEPT ![t] = to],
           \A u \in Connectors \ {t} : ret'[u] = ret[u],
           pc[t] \notin {"none", "retire", "keep"},
           t \in Ids => /\ AsideHeld(t) => AsideHeld(t)'
                        /\ to \in {"take", "table"} =>
                              pc[t] \in {"take", "table"} \/ BLEactions # <<>>
    PROVE  Data'
<1>1. \A u \in Connectors : pc'[u] = IF u = t THEN to ELSE pc[u]
  BY DEF TypeOK
<1>2. \A i \in Ids : AsideHeld(i) => AsideHeld(i)'
  BY <1>1, Tasks DEF AsideHeld
<1> QED
  BY <1>1, <1>2, Tasks, Quiet

\* procBLETask and the loop task.
LEMMA DataLoop ==
    ASSUME TypeOK, Data,
           \/ DeviceTake \/ (\E d \in Devices : DeviceUpdate(d))
           \/ ForceScan \/ XtoBT \/ XtoBTBusy \/ XtoBTTake \/ XtoBTGive
    PROVE  Data'
BY QuietHere DEF Quieted, DeviceTake, DeviceUpdate, ForceScan, XtoBT, XtoBTBusy, XtoBTTake, XtoBTGive,
   walk, command, outcome

LEMMA DataPush ==
    ASSUME TypeOK, Ordered, Data, NEW d \in Devices, NEW ttl \in 1..MaxTtl,
           NEW immediate \in BOOLEAN, Push(d, ttl, immediate)
    PROVE  Data'
<1> DEFINE n == asked + 1   m == Len(BLEactions)
           new == [id |-> n, dev |-> d, ttl |-> ttl, complete |-> FALSE]
<1>1. /\ n \in Ids /\ n \in Nat /\ asked \in Nat /\ m \in Nat /\ asked' = n
      /\ UNCHANGED <<swap, aside, attempts, answers, ret>> /\ (paired => paired')
      /\ wanted' = [wanted EXCEPT ![n] = ttl]
      /\ \/ pc' = pc
         \/ pc' = [pc EXCEPT ![n] = "start"]
  BY BleAssumption, Vectored DEF TypeOK, Push, Ids, walk, outcome
<1>2. /\ Len(BLEactions') = m + 1 /\ \A k \in 1..m : BLEactions'[k] = BLEactions[k]
      /\ BLEactions'[m + 1].id = n /\ BLEactions'[m + 1].ttl = ttl
  BY Pushed
<1>3. attempts[n] = 0 /\ answers[n] = 0 /\ pc[n] = "none"
  BY <1>1 DEF Data, Ahead
<1> HIDE DEF n, m
<1>4. \A k \in 1..(m + 1) : k \in 1..m \/ k = m + 1
  BY <1>1
<1>5. \A t \in Connectors : pc'[t] = pc[t] \/ (t = n /\ pc'[t] = "start")
  BY <1>1 DEF TypeOK
<1>6. \A i \in Ids : wanted'[i] = IF i = n THEN ttl ELSE wanted[i]
  BY <1>1 DEF TypeOK
<1>7. \A i \in Ids : AsideHeld(i) => AsideHeld(i)'
  BY <1>1, <1>3, <1>5, Tasks DEF AsideHeld, Connecting
<1>8. /\ \A k \in 1..m : BLEactions[k] \in BLEAction /\ BLEactions[k].id < n
      /\ \A t \in Connectors : \A k \in 1..Len(swap[t]) :
            swap[t][k] \in BLEAction /\ swap[t][k].id < n
      /\ \A i \in Ids : \A k \in 1..Len(aside[i].actions) :
            aside[i].actions[k] \in BLEAction /\ aside[i].actions[k].id < n
  <2>1. \A a \in BLEAction : a.id <= asked => a.id < n
    BY <1>1, NumbersOf DEF n
  <2> QED
    BY <2>1, Vectored DEF Ordered, Accepted, m
<1>9. Apart'
  <2>1. \A t \in Connectors : pc'[t] # "keep" => swap'[t] = <<>>
    BY <1>1, <1>3, <1>5, Tasks DEF Data, Apart
  <2>2. ASSUME NEW i \in Ids
        PROVE  Before(aside'[i].actions, BLEactions')
    BY <1>1, <1>2, <1>4, <1>8 DEF Data, Apart, Before, m
  <2> QED
    BY <1>1, <1>7, <2>1, <2>2 DEF Data, Apart, Before
<1>10. Ahead'
  <2>1. \A i \in Ids : i > n => i > asked /\ i # n
    BY <1>1 DEF n, Ids
  <2> QED
    BY <1>1, <1>5, <2>1, Tasks DEF Data, Ahead
<1>11. AttemptsDue'
  <2>1. Tested => Tested'
    BY <1>3, <1>5 DEF Tested
  <2>2. ASSUME NEW slack \in {0, 1}, Due(BLEactions, slack)
        PROVE  Due(BLEactions, slack)'
    <3>1. \A k \in 1..m : BLEactions[k].id \in Ids /\ BLEactions[k].id # n
      BY <1>1, <1>8, NumbersOf
    <3>2. attempts[n] + ttl <= wanted'[n] + slack
      BY <1>1, <1>3, <1>6, BleAssumption
    <3> QED
      BY <1>1, <1>2, <1>4, <1>6, <2>2, <3>1, <3>2 DEF Due, m
  <2>3. ASSUME NEW v, Due(v, 0), \A k \in 1..Len(v) : v[k] \in BLEAction /\ v[k].id < n
        PROVE  Due(v, 0)'
    <3>1. \A k \in 1..Len(v) : v[k].id \in Ids /\ v[k].id # n
      BY <1>1, <2>3, NumbersOf
    <3> QED
      BY <1>1, <1>6, <2>3, <3>1 DEF Due
  <2>4. Due(BLEactions, IF Tested THEN 1 ELSE 0)'
    BY <2>1, <2>2, DueMore
  <2> QED
    BY <1>1, <1>8, <2>3, <2>4 DEF Data, AttemptsDue, Due
<1>12. AttemptsBounded'
  BY <1>1, <1>3, <1>6, BleAssumption DEF Data, AttemptsBounded
<1>13. NoneAnswered'
  <2> SUFFICES ASSUME ~paired' PROVE NoneAnswered'
    BY DEF NoneAnswered
  <2>2. \A k \in 1..m : answers'[BLEactions'[k].id] = 0 \/ Leaves(BLEactions[k])'
    BY <1>1, <1>2, <1>3, <1>5 DEF Data, NoneAnswered, Leaves, Stays, m
  <2>3. answers'[BLEactions'[m + 1].id] = 0
    BY <1>1, <1>2, <1>3
  <2> QED
    BY <1>1, <1>2, <1>4, <2>2, <2>3 DEF Data, NoneAnswered, Unanswered
<1>14. AnsweredOnce'
  BY <1>1 DEF Data, AnsweredOnce
<1>15. Waited'
  <2>1. BLEactions' # <<>>
    BY Vectored DEF Push
  <2> QED
    BY <2>1 DEF Waited
<1> QED
  BY <1>9, <1>10, <1>11, <1>12, <1>13, <1>14, <1>15 DEF Data

\* BLEconnect: an attempt at the commands for a device.
LEMMA DataContact ==
    ASSUME TypeOK, Where, Ordered, Data, NEW t \in Connectors, NEW ok, Contact(t, ok)
    PROVE  Data'
<1> DEFINE m == Len(BLEactions)
           Hit(i) == \E k \in 1..m : Mine(t, k) /\ BLEactions[k].id = i
<1>1. /\ UNCHANGED <<swap, aside, asked, wanted, paired, ret>> /\ pc[t] = "contact"
      /\ pc' = [pc EXCEPT ![t] = "retire"] /\ DOMAIN BLEactions = 1..m /\ m \in Nat
      /\ asked \in Nat
  BY Vectored DEF Contact, Goto, walk, command
<1>2. /\ \A u \in Connectors : pc'[u] = IF u = t THEN "retire" ELSE pc[u]
      /\ \A u \in Connectors : pc[u] \in Connecting => u = t
      /\ \A u \in Connectors : swap[u] = <<>>
      /\ ~Tested /\ Tested'
  <2>1. \A u \in Connectors : pc'[u] = IF u = t THEN "retire" ELSE pc[u]
    BY <1>1 DEF TypeOK
  <2>2. \A u \in Connectors : pc[u] \in Connecting => u = t
    BY <1>1, OneConnects DEF Connecting
  <2> QED
    BY <1>1, <2>1, <2>2 DEF Data, Apart, Connecting, Tested
<1>3. /\ Len(BLEactions') = m
      /\ \A k \in 1..m : /\ BLEactions'[k].id = BLEactions[k].id
                         /\ BLEactions'[k].ttl = BLEactions[k].ttl
                         /\ Mine(t, k) => BLEactions'[k].complete = ok[k]
  BY TriedKeeps
<1>4. \A k \in 1..m : BLEactions[k] \in BLEAction /\ ok[k] \in BOOLEAN
  BY <1>1, Vectored DEF Contact
<1>5. \A i \in Ids : attempts'[i] = IF Hit(i) THEN attempts[i] + 1 ELSE attempts[i]
  <2>1. attempts' = [i \in Ids |-> attempts[i] + (IF Hit(i) THEN 1 ELSE 0)]
    BY <1>1 DEF Contact
  <2> HIDE DEF Hit
  <2> QED
    BY <2>1 DEF TypeOK
<1>6. \A i \in Ids : answers'[i] = IF i \in Answered(t, ok) THEN answers[i] + 1 ELSE answers[i]
  BY <1>1 DEF Contact, TypeOK
<1>7. \A i \in Answered(t, ok) : \E k \in 1..m : /\ Mine(t, k) /\ BLEactions[k].id = i
                                                 /\ ok[k] \/ BLEactions[k].ttl <= 1
  BY <1>1 DEF Answered
<1>8. \A i \in Answered(t, ok) : Hit(i)
  BY <1>7
<1>9. \A j, k \in 1..m : BLEactions[j].id = BLEactions[k].id => j = k
  BY <1>1, <1>4, NumbersOf DEF Ordered, Rising
<1>10. \A i \in Ids : \A k \in 1..Len(aside[i].actions) :
          /\ aside[i].actions[k] \in BLEAction /\ aside[i].actions[k].id \in Ids
          /\ ~Hit(aside[i].actions[k].id)
  <2> SUFFICES ASSUME NEW i \in Ids, NEW k \in 1..Len(aside[i].actions)
               PROVE  /\ aside[i].actions[k] \in BLEAction /\ aside[i].actions[k].id \in Ids
                      /\ ~Hit(aside[i].actions[k].id)
    OBVIOUS
  <2>1. aside[i].actions[k] \in BLEAction
    BY Vectored
  <2>2. \A j \in 1..m : aside[i].actions[k].id < BLEactions[j].id /\ BLEactions[j].id \in Nat
    BY <1>4, NumbersOf DEF Data, Apart, Before
  <2> QED
    BY <2>1, <2>2, NumbersOf
<1>11. \A i \in Ids : Hit(i) => i <= asked
  BY DEF Ordered, Accepted
<1> HIDE DEF m, Hit
<1>12. Apart'
  <2>1. \A i \in Ids : AsideHeld(i) => AsideHeld(i)'
    BY <1>1, <1>2, Tasks DEF AsideHeld, Connecting
  <2>2. \A i \in Ids : Before(aside'[i].actions, BLEactions')
    BY <1>1, <1>3 DEF Data, Apart, Before, m
  <2> QED
    BY <1>1, <1>2, <2>1, <2>2 DEF Data, Apart, Before
<1>13. Ahead'
  BY <1>1, <1>2, <1>5, <1>6, <1>8, <1>11, Tasks DEF Data, Ahead, Ids
<1>14. AttemptsDue'
  <2>1. Due(BLEactions, 1)'
    <3> SUFFICES ASSUME NEW k \in 1..m
                 PROVE  attempts'[BLEactions[k].id] + BLEactions[k].ttl
                           <= wanted[BLEactions[k].id] + 1
      BY <1>1, <1>3 DEF Due
    <3>1. attempts[BLEactions[k].id] + BLEactions[k].ttl <= wanted[BLEactions[k].id]
      BY <1>2, DueMore, <1>4, Counts DEF Due, m
    <3> QED
      BY <1>4, <1>5, <3>1, Counts
  <2>2. \A u \in Connectors : Due(swap[u], 0)'
    BY <1>1, <1>2 DEF Due
  <2>3. \A i \in Ids : Due(aside[i].actions, 0)'
    BY <1>1, <1>5, <1>10 DEF Data, AttemptsDue, Due
  <2> QED
    BY <1>2, <2>1, <2>2, <2>3 DEF AttemptsDue
<1>15. AttemptsBounded'
  <2> SUFFICES ASSUME NEW i \in Ids, Hit(i) PROVE attempts[i] + 1 <= wanted[i]
    BY <1>1, <1>5 DEF Data, AttemptsBounded
  <2>1. PICK k \in 1..m : BLEactions[k].id = i
    BY DEF Hit
  <2>2. attempts[i] + BLEactions[k].ttl <= wanted[i]
    BY <1>2, <2>1, DueMore, <1>4, Counts DEF Due, m
  <2> QED
    BY <1>4, <2>1, <2>2, Counts
<1>16. CASE paired
  BY <1>1, <1>12, <1>13, <1>14, <1>15, <1>16 DEF Data, NoneAnswered, AnsweredOnce, Waited
<1>17. CASE ~paired
  <2>1. \A k \in 1..m : answers[BLEactions[k].id] = 0
    BY <1>2, <1>17 DEF Data, NoneAnswered, Leaves, Tested, m
  <2>2. AnsweredOnce'
    <3>1. \A i \in Answered(t, ok) : answers[i] = 0
      BY <1>7, <2>1
    <3> QED
      BY <1>6, <1>17, <3>1 DEF Data, AnsweredOnce
  <2>3. ASSUME NEW k \in 1..m, answers'[BLEactions[k].id] # 0
        PROVE  Leaves(BLEactions[k])'
    <3>1. BLEactions[k].id \in Answered(t, ok)
      BY <1>4, <1>6, <2>1, <2>3, NumbersOf
    <3>2. Mine(t, k) /\ (ok[k] \/ BLEactions[k].ttl <= 1)
      BY <1>7, <1>9, <3>1
    <3>3. BLEactions'[k].complete \/ BLEactions'[k].ttl = 1
      BY <1>3, <1>4, <3>2, NumbersOf
    <3>4. pc'[t] = "retire" /\ ~Stays(BLEactions'[k])
      BY <1>2, <3>3 DEF Stays
    <3> QED
      BY <3>4 DEF Leaves, Stays
  <2>4. NoneAnswered'
    <3>1. \A i \in Ids : Unanswered(aside[i].actions)'
      BY <1>1, <1>6, <1>8, <1>10, <1>17 DEF Data, NoneAnswered, Unanswered
    <3>2. \A u \in Connectors : Unanswered(swap[u])'
      BY <1>1, <1>2 DEF Unanswered
    <3> QED
      BY <1>3, <2>3, <3>1, <3>2 DEF NoneAnswered
  <2>5. Waited'
    <3>1. \A i \in Ids : pc'[i] \in {"take", "table"} => BLEactions # <<>>
      BY <1>2, <1>17, Tasks DEF Data, Waited
    <3>2. BLEactions # <<>> => m # 0
      BY LastOf DEF TypeOK, m
    <3>3. m # 0 => BLEactions' # <<>>
      BY <1>3
    <3> QED
      BY <3>1, <3>2, <3>3 DEF Waited
  <2> QED
    BY <1>12, <1>13, <1>14, <1>15, <2>2, <2>4, <2>5 DEF Data
<1> QED
  BY <1>16, <1>17

\* BLEconnect: the commands that stay are copied.
LEMMA DataRetire ==
    ASSUME TypeOK, Where, Ordered, Data, NEW t \in Connectors, Retire(t)
    PROVE  Data'
<1> DEFINE K == Kept(BLEactions)
<1>1. /\ UNCHANGED <<BLEactions, aside, asked, attempts, answers, wanted, paired, ret>>
      /\ pc[t] = "retire" /\ pc' = [pc EXCEPT ![t] = "keep"]
      /\ swap' = [swap EXCEPT ![t] = K]
  BY DEF Retire, Goto, command, outcome
<1>2. \A u \in Connectors : /\ pc'[u] = IF u = t THEN "keep" ELSE pc[u]
                            /\ swap'[u] = IF u = t THEN K ELSE swap[u]
                            /\ pc[u] \in Connecting => u = t
  BY <1>1, OneConnects DEF TypeOK, Connecting
<1>3. \A k \in 1..Len(K) : \E j \in 1..Len(BLEactions) :
         /\ Stays(BLEactions[j]) /\ BLEactions[j] \in BLEAction
         /\ K[k].id = BLEactions[j].id /\ K[k].ttl = BLEactions[j].ttl - 1
  BY KeptIds, Vectored DEF Ordered
<1> HIDE DEF K
<1>4. Apart'
  <2>1. \A i \in Ids : AsideHeld(i) => AsideHeld(i)'
    BY <1>1, <1>2, Tasks DEF AsideHeld, Connecting
  <2>2. \A i \in Ids : Before(aside[i].actions, K)
    BY <1>3 DEF Data, Apart, Before
  <2>3. \A i \in Ids : \A u \in Connectors : Before(aside'[i].actions, swap'[u])
    BY <1>1, <1>2, <2>2 DEF Data, Apart
  <2>4. \A i \in Ids : /\ aside'[i].actions # <<>> => AsideHeld(i)'
                       /\ Before(aside'[i].actions, BLEactions')
    BY <1>1, <2>1 DEF Data, Apart, Before
  <2>5. \A u \in Connectors : pc'[u] # "keep" => swap'[u] = <<>>
    BY <1>2 DEF Data, Apart
  <2> QED
    BY <2>3, <2>4, <2>5 DEF Apart, Before
<1>5. Ahead' /\ AttemptsBounded' /\ AnsweredOnce' /\ Waited'
  BY <1>1, <1>2, Tasks DEF Data, Ahead, AttemptsBounded, AnsweredOnce, Waited
<1>6. AttemptsDue'
  <2>1. Due(K, 0)
    <3> SUFFICES ASSUME NEW k \in 1..Len(K)
                 PROVE  attempts[K[k].id] + K[k].ttl <= wanted[K[k].id]
      BY <1>3, Counts DEF Due
    <3>1. PICK j \in 1..Len(BLEactions) :
             /\ BLEactions[j] \in BLEAction
             /\ K[k].id = BLEactions[j].id /\ K[k].ttl = BLEactions[j].ttl - 1
      BY <1>3
    <3>2. attempts[BLEactions[j].id] + BLEactions[j].ttl <= wanted[BLEactions[j].id] + 1
      BY DueMore DEF Due
    <3> QED
      BY <3>1, <3>2, Counts
  <2>2. \A u \in Connectors : Due(swap[u], 0)'
    BY <1>1, <1>2, <2>1 DEF Data, AttemptsDue, Due
  <2>3. Tested'
    BY <1>2 DEF Tested
  <2> QED
    BY <1>1, <2>2, <2>3, DueMore DEF Data, AttemptsDue, Due
<1>7. NoneAnswered'
  <2> SUFFICES ASSUME ~paired PROVE NoneAnswered'
    BY <1>1 DEF NoneAnswered
  <2>2. \A k \in 1..Len(BLEactions) : Leaves(BLEactions[k])'
    BY <1>2 DEF Leaves
  <2>3. Unanswered(K)
    <3> SUFFICES ASSUME NEW k \in 1..Len(K) PROVE answers[K[k].id] = 0
      BY DEF Unanswered
    <3>1. PICK j \in 1..Len(BLEactions) : Stays(BLEactions[j]) /\ K[k].id = BLEactions[j].id
      BY <1>3
    <3>2. ~Leaves(BLEactions[j])
      BY <1>1, <1>2, <3>1 DEF Leaves, Connecting
    <3> QED
      BY <3>1, <3>2 DEF Data, NoneAnswered
  <2>4. \A u \in Connectors : Unanswered(swap[u])'
    BY <1>1, <1>2, <2>3 DEF Data, NoneAnswered, Unanswered
  <2> QED
    BY <1>1, <2>2, <2>4 DEF Data, NoneAnswered, Unanswered
<1> QED
  BY <1>4, <1>5, <1>6, <1>7 DEF Data

\* BLEconnect: the copy is what is left.
LEMMA DataKeep ==
    ASSUME TypeOK, Where, Ordered, Data, NEW t \in Connectors, Keep(t)
    PROVE  Data'
<1>1. /\ UNCHANGED <<aside, asked, attempts, answers, wanted, paired, ret>>
      /\ pc[t] = "keep" /\ pc' = [pc EXCEPT ![t] = "visit"]
      /\ BLEactions' = swap[t] /\ swap' = [swap EXCEPT ![t] = <<>>]
  BY DEF Keep, Goto, command, outcome
<1>2. \A u \in Connectors : /\ pc'[u] = IF u = t THEN "visit" ELSE pc[u]
                            /\ swap'[u] = IF u = t THEN <<>> ELSE swap[u]
                            /\ pc[u] \in Connecting => u = t
  BY <1>1, OneConnects DEF TypeOK, Connecting
<1>3. Len(<<>>) = 0
  OBVIOUS
<1>4. Apart'
  <2>1. \A i \in Ids : AsideHeld(i) => AsideHeld(i)'
    BY <1>1, <1>2, Tasks DEF AsideHeld, Connecting
  <2> QED
    BY <1>1, <1>2, <1>3, <2>1 DEF Data, Apart, Before
<1>5. Ahead' /\ AttemptsBounded' /\ AnsweredOnce'
  BY <1>1, <1>2, Tasks DEF Data, Ahead, AttemptsBounded, AnsweredOnce
<1>6. AttemptsDue'
  <2>1. ~Tested'
    BY <1>2 DEF Tested, Connecting
  <2> QED
    BY <1>1, <1>2, <1>3, <2>1 DEF Data, AttemptsDue, Due
<1>7. NoneAnswered'
  BY <1>1, <1>2, <1>3 DEF Data, NoneAnswered, Unanswered
<1>8. Waited'
  BY <1>1, <1>2, NoneWaits, Tasks DEF Waited, Connecting
<1> QED
  BY <1>4, <1>5, <1>6, <1>7, <1>8 DEF Data

LEMMA DataConnect ==
    ASSUME TypeOK, Where, Ordered, Data, NEW t \in Connectors, Connect(t)
    PROVE  Data'
<1>1. CASE Visit(t)
  <2>1. pc' = [pc EXCEPT ![t] = "contact"] /\ pc[t] = "visit" /\ ret' = ret /\ Quieted
    BY <1>1 DEF Visit, Goto, Quieted, command, outcome
  <2>2. t \in Ids => (AsideHeld(t) => AsideHeld(t)')
    BY <2>1, Tasks DEF AsideHeld, Connecting, TypeOK
  <2> QED
    BY <2>1, <2>2, QuietMove
<1>2. CASE EndOfRound(t)
  <2>1. /\ pc' = [pc EXCEPT ![t] = IF BLEactions = <<>> THEN ret[t] ELSE "visit"]
        /\ pc[t] = "visit" /\ ret' = ret /\ Quieted /\ ret[t] \notin {"take", "table"}
    BY <1>2 DEF EndOfRound, Quieted, command, outcome, TypeOK
  <2>2. t \in Ids => (AsideHeld(t) => AsideHeld(t)')
    BY <2>1, Tasks DEF AsideHeld, Connecting, TypeOK
  <2> QED
    BY <2>1, <2>2, QuietMove
<1> QED
  BY <1>1, <1>2, DataContact, DataRetire, DataKeep DEF Connect

\* The core task.
LEMMA DataCore ==
    ASSUME TypeOK, Where, Ordered, Data, CoreTask
    PROVE  Data'
<1>1. CASE CoreTest \/ CoreTake \/ CoreBusy \/ CoreGive \/ CoreRest
  <2>1. PICK to : pc' = [pc EXCEPT ![Core] = to]
    BY <1>1 DEF CoreTest, CoreTake, CoreBusy, CoreGive, CoreRest, Goto
  <2>2. ret' = ret /\ pc[Core] \in {"idle", "take", "give", "rest"} /\ Quieted
    BY <1>1 DEF CoreTest, CoreTake, CoreBusy, CoreGive, CoreRest, Goto, Quieted, walk, command, outcome
  <2> QED
    BY <2>1, <2>2, QuietMove, Tasks
<1>2. CASE CoreScanned \/ CoreForced
  <2>1. PICK to : pc' = [pc EXCEPT ![Core] = to]
    BY <1>2 DEF CoreScanned, CoreForced, Call, Goto
  <2>2. /\ \A u \in Connectors \ {Core} : ret'[u] = ret[u]
        /\ pc[Core] \in {"scan", "fscan"} /\ Quieted
    BY <1>2, Tasks DEF CoreScanned, CoreForced, Call, Goto, Quieted, command, outcome, TypeOK
  <2> QED
    BY <2>1, <2>2, QuietMove, Tasks
<1> QED
  BY <1>1, <1>2, DataConnect, Tasks DEF CoreTask

\* The task of an immediate command: when it is refused, there are two of them.
LEMMA DataBusy ==
    ASSUME TypeOK, Where, Ordered, Data, NEW i \in Ids, ImmBusy(i)
    PROVE  Data'
<1>1. /\ UNCHANGED <<swap, aside, asked, attempts, wanted, paired, ret>>
      /\ pc[i] = "take" /\ pc' = [pc EXCEPT ![i] = "done"]
      /\ BLEactions' = Butlast /\ BLEactions # <<>>
      /\ answers' = [answers EXCEPT ![Last.id] = @ + 1]
  BY DEF ImmBusy, Goto, walk, command
<1>2. \A u \in Connectors : pc'[u] = IF u = i THEN "done" ELSE pc[u]
  BY <1>1, Tasks DEF TypeOK
<1>3. paired
  <2>1. PICK j \in Ids : semaphoreBLEOperation = j
    BY DEF ImmBusy
  <2>2. Inside(j) /\ Active(j) /\ ~Inside(i) /\ Active(i)
    BY <1>1, <2>1 DEF Where, HolderIsInside, Inside, Active, Connecting
  <2> QED
    BY <2>2 DEF Where, TasksAlone
<1>4. /\ Len(Butlast) \in Nat /\ Last.id <= asked /\ Last.id \in Ids
      /\ \A k \in 1..Len(Butlast) : Butlast[k] = BLEactions[k] /\ k \in 1..Len(BLEactions)
  BY <1>1, NewestAndOthers, NumbersOf
<1> HIDE DEF Last, Butlast
<1>5. Apart'
  <2>1. \A j \in Ids : AsideHeld(j) => AsideHeld(j)'
    BY <1>1, <1>2, Tasks DEF AsideHeld, Connecting
  <2>2. \A j \in Ids : Before(aside'[j].actions, BLEactions')
    BY <1>1, <1>4 DEF Data, Apart, Before
  <2> QED
    BY <1>1, <1>2, <2>1, <2>2, Tasks DEF Data, Apart, Before
<1>6. Ahead'
  <2>1. \A j \in Ids : j > asked => j # Last.id
    BY <1>4, Vectored DEF Ids
  <2> QED
    BY <1>1, <1>2, <2>1, Tasks DEF Data, Ahead
<1>7. AttemptsDue'
  <2>1. Tested => Tested'
    BY <1>1, <1>2, Tasks DEF Tested
  <2>2. Due(BLEactions, IF Tested THEN 1 ELSE 0)'
    BY <1>1, <1>4, <2>1, DueMore DEF Due
  <2> QED
    BY <1>1, <2>2 DEF Data, AttemptsDue, Due
<1> QED
  BY <1>1, <1>3, <1>5, <1>6, <1>7 DEF Data, AttemptsBounded, NoneAnswered, AnsweredOnce, Waited

\* The task of an immediate command puts the others aside ...
LEMMA DataSwap ==
    ASSUME TypeOK, Where, Ordered, Data, NEW i \in Ids, ImmSwap(i)
    PROVE  Data'
<1>1. /\ UNCHANGED <<swap, asked, attempts, answers, wanted, paired, ret>>
      /\ pc[i] = "table" /\ pc' = [pc EXCEPT ![i] = "call"]
      /\ BLEactions' = <<Last>> /\ BLEactions # <<>>
      /\ aside' = [aside EXCEPT ![i] = [devices |-> devices, actions |-> Butlast]]
  BY DEF ImmSwap, Goto, walk, command, outcome
<1>2. /\ \A u \in Connectors : pc'[u] = IF u = i THEN "call" ELSE pc[u]
      /\ \A j \in Ids : aside'[j].actions = IF j = i THEN Butlast ELSE aside[j].actions
  BY <1>1, Tasks DEF TypeOK
<1>3. \A u \in Connectors : pc[u] \notin Connecting
  <2>1. Inside(i)
    BY <1>1 DEF Inside
  <2> QED
    BY <1>1, <2>1, OneConnects, Tasks DEF Connecting
<1>4. ~Tested /\ ~Tested' /\ (\A u \in Connectors : swap[u] = <<>>) /\ \A a : ~Leaves(a)
  BY <1>2, <1>3 DEF Data, Apart, Tested, Connecting, Leaves
<1>5. /\ Len(BLEactions) \in Nat \ {0} /\ Last = BLEactions[Len(BLEactions)]
      /\ Last \in BLEAction
      /\ \A k \in 1..Len(Butlast) : /\ Butlast[k] = BLEactions[k] /\ k \in 1..Len(BLEactions)
                                    /\ Butlast[k].id < Last.id
  BY <1>1, NewestAndOthers
<1> HIDE DEF Last, Butlast
<1>6. /\ Len(<<>>) = 0 /\ Len(<<Last>>) = 1 /\ <<Last>>[1] = Last /\ <<Last>> # <<>>
      /\ \A k \in 1..1 : k = 1
  OBVIOUS
<1>7. Apart'
  <2>1. \A j \in Ids : (AsideHeld(j) \/ j = i) => AsideHeld(j)'
    BY <1>1, <1>2, Tasks DEF AsideHeld
  <2>2. \A j \in Ids : Before(aside'[j].actions, BLEactions')
    BY <1>1, <1>2, <1>5, <1>6 DEF Data, Apart, Before
  <2>3. \A j \in Ids : aside'[j].actions # <<>> => AsideHeld(j)'
    BY <1>2, <2>1 DEF Data, Apart
  <2>4. \A j \in Ids : \A u \in Connectors : Before(aside'[j].actions, swap'[u])
    BY <1>1, <1>4, <1>6 DEF Before
  <2> QED
    BY <1>1, <1>4, <2>2, <2>3, <2>4 DEF Apart, Before
<1>8. Ahead' /\ AttemptsBounded' /\ AnsweredOnce'
  BY <1>1, <1>2, Tasks DEF Data, Ahead, AttemptsBounded, AnsweredOnce
<1>9. AttemptsDue'
  <2>1. Due(BLEactions, 0)
    BY <1>4, DueMore
  <2>2. Due(Butlast, 0)
    BY <1>5, <2>1 DEF Due
  <2>3. Due(BLEactions, 0)'
    BY <1>1, <1>5, <1>6, <2>1 DEF Due
  <2>4. \A j \in Ids : Due(aside[j].actions, 0)'
    BY <1>1, <1>2, <2>2 DEF Data, AttemptsDue, Due
  <2>5. \A u \in Connectors : Due(swap[u], 0)'
    BY <1>1, <1>4, <1>6 DEF Due
  <2> QED
    BY <1>4, <2>3, <2>4, <2>5 DEF AttemptsDue
<1>10. NoneAnswered'
  <2> SUFFICES ASSUME ~paired PROVE NoneAnswered'
    BY <1>1 DEF NoneAnswered
  <2>1. \A k \in 1..Len(BLEactions) : answers[BLEactions[k].id] = 0
    BY <1>4 DEF Data, NoneAnswered
  <2>2. \A k \in 1..Len(BLEactions') : answers'[BLEactions'[k].id] = 0
    BY <1>1, <1>5, <1>6, <2>1
  <2>3. Unanswered(Butlast)
    BY <1>5, <2>1 DEF Unanswered
  <2>4. \A j \in Ids : Unanswered(aside[j].actions)'
    BY <1>1, <1>2, <2>3 DEF Data, NoneAnswered, Unanswered
  <2>5. \A u \in Connectors : Unanswered(swap[u])'
    BY <1>1, <1>4, <1>6 DEF Unanswered
  <2> QED
    BY <2>2, <2>4, <2>5 DEF NoneAnswered
<1>11. Waited'
  BY <1>1, <1>6 DEF Waited
<1> QED
  BY <1>7, <1>8, <1>9, <1>10, <1>11 DEF Data

\* ... and puts them back.
LEMMA DataRestore ==
    ASSUME TypeOK, Where, Ordered, Data, NEW i \in Ids, ImmRestore(i)
    PROVE  Data'
<1>1. /\ UNCHANGED <<swap, asked, attempts, answers, wanted, paired, ret>>
      /\ pc[i] = "restore" /\ pc' = [pc EXCEPT ![i] = "after"]
      /\ BLEactions' = aside[i].actions /\ aside' = [aside EXCEPT ![i] = Empty]
  BY DEF ImmRestore, Goto, walk, command, outcome
<1>2. /\ \A u \in Connectors : pc'[u] = IF u = i THEN "after" ELSE pc[u]
      /\ \A j \in Ids : aside'[j].actions = IF j = i THEN <<>> ELSE aside[j].actions
  BY <1>1, Tasks DEF TypeOK, Empty
<1>3. Inside(i) /\ Active(i)
  BY <1>1 DEF Inside, Active
<1>4. \A u \in Connectors : pc[u] \notin Connecting
  BY <1>1, <1>3, OneConnects, Tasks DEF Connecting
<1>5. \A j \in Ids : j # i => aside[j].actions = <<>>
  <2>1. \A j \in Ids : AsideHeld(j) => Inside(j)
    BY DEF AsideHeld, Inside
  <2> QED
    BY <1>3, <2>1 DEF Data, Apart, Where, HolderIsInside
<1>6. /\ ~Tested /\ ~Tested' /\ (\A u \in Connectors : swap[u] = <<>>)
      /\ Len(<<>>) = 0 /\ \A j \in Ids : aside'[j].actions = <<>>
  BY <1>2, <1>4, <1>5 DEF Data, Apart, Tested, Connecting
<1>7. Apart'
  BY <1>1, <1>2, <1>6 DEF Data, Apart, Before
<1>8. Ahead' /\ AttemptsBounded' /\ AnsweredOnce'
  BY <1>1, <1>2, Tasks DEF Data, Ahead, AttemptsBounded, AnsweredOnce
<1>9. AttemptsDue'
  BY <1>1, <1>6 DEF Data, AttemptsDue, Due
<1>10. NoneAnswered'
  BY <1>1, <1>6 DEF Data, NoneAnswered, Unanswered
<1>11. Waited'
  <2>1. \A j \in Ids : pc'[j] \in {"take", "table"} => j # i /\ Active(j)
    BY <1>2, Tasks DEF Active
  <2> QED
    BY <1>1, <1>3, <2>1 DEF Where, TasksAlone, Waited
<1> QED
  BY <1>7, <1>8, <1>9, <1>10, <1>11 DEF Data

LEMMA DataImm ==
    ASSUME TypeOK, Where, Ordered, Data, NEW i \in Ids, ImmTask(i)
    PROVE  Data'
<1>1. CASE ImmStart(i)
  <2>1. /\ pc' = [pc EXCEPT ![i] = IF BLEactions = <<>> THEN "done" ELSE "take"]
        /\ pc[i] = "start" /\ ret' = ret /\ Quieted
    BY <1>1 DEF ImmStart, Goto, Quieted, walk, command, outcome
  <2> QED
    BY <2>1, QuietMove, Tasks DEF AsideHeld, Connecting
<1>2. CASE ImmTake(i) \/ ImmGiveUp(i) \/ ImmAfter(i) \/ ImmGive(i)
  <2>1. PICK to \in {"table", "after", "visit", "give", "done"} : pc' = [pc EXCEPT ![i] = to]
    BY <1>2 DEF ImmTake, ImmGiveUp, ImmAfter, ImmGive, Call, Goto
  <2>2. /\ \A u \in Connectors \ {i} : ret'[u] = ret[u]
        /\ pc[i] \in {"take", "table", "after", "give"} /\ Quieted
        /\ to = "table" => pc[i] = "take"
    BY <1>2, <2>1, Tasks DEF ImmTake, ImmGiveUp, ImmAfter, ImmGive, Call, Goto, Quieted, walk, command,
       outcome, TypeOK
  <2> QED
    BY <2>1, <2>2, QuietMove, Tasks DEF AsideHeld, Connecting
<1>3. CASE ImmCall(i)
  <2>1. /\ pc' = [pc EXCEPT ![i] = IF BTProcessLock THEN "restore" ELSE "visit"]
        /\ ret' = [ret EXCEPT ![i] = "restore"] /\ pc[i] = "call" /\ Quieted
    BY <1>3 DEF ImmCall, Call, Goto, Quieted, command, outcome
  <2>2. AsideHeld(i)' /\ \A u \in Connectors \ {i} : ret'[u] = ret[u]
    BY <2>1, Tasks DEF AsideHeld, Connecting, TypeOK
  <2> QED
    BY <2>1, <2>2, QuietMove, Tasks
<1> QED
  BY <1>1, <1>2, <1>3, DataBusy, DataSwap, DataRestore, DataConnect, Tasks DEF ImmTask

LEMMA DataStep ==
    ASSUME TypeOK, Where, Ordered, Data, [Next]_vars
    PROVE  Data'
<1>1. CASE UNCHANGED vars
  BY <1>1, QuietHere DEF vars, Quieted
<1> QED
  BY <1>1, DataLoop, DataPush, DataCore, DataImm DEF Next

-----------------------------------------------------------------------------
(* The theorems.  Overlap stands for immediate commands that come while a  *)
(* forced scan is due or runs.  The scan takes no semaphore: with Overlap  *)
(* TRUE, TLC refutes AttemptsBounded, AnsweredOnce and NewestIsThere.      *)

ConnectInv == TypeOK /\ Where /\ Ordered /\ Data

LEMMA ConnectInvHolds ==
    ASSUME ~Overlap
    PROVE  Spec => []ConnectInv
<1>1. Init => ConnectInv
  <2>1. ASSUME Init PROVE Ordered
    BY <2>1 DEF Init, Ordered, Rising, Accepted, Empty
  <2> QED
    BY <2>1, TypeInit, WhereInit, DataInit DEF ConnectInv
<1>2. ConnectInv /\ [Next]_vars => ConnectInv'
  <2> SUFFICES ASSUME ConnectInv, [Next]_vars PROVE ConnectInv'
    OBVIOUS
  <2>1. TypeOK /\ Where /\ Ordered /\ Data /\ Rising(BLEactions)
    BY DEF ConnectInv, Ordered
  <2> QED
    BY <2>1, TypeStep, OrderedStep, WhereStep, DataStep DEF ConnectInv
<1> QED
  BY <1>1, <1>2, PTL DEF Spec

\* "The ttl parameter is the number of attempts to connect" (ble.md 376): over all the
\* rounds and all the tasks, no command is tried more often than it asked for.
THEOREM AttemptsWithinTtl ==
    ASSUME ~Overlap
    PROVE  Spec => []AttemptsBounded
<1>1. ConnectInv => AttemptsBounded
  BY DEF ConnectInv, Data
<1> QED
  BY <1>1, ConnectInvHolds, PTL

\* A command is answered at most once, unless one message started the tasks of two.
THEOREM OneAnswer ==
    ASSUME ~Overlap
    PROVE  Spec => []AnsweredOnce
<1>1. ConnectInv => AnsweredOnce
  BY DEF ConnectInv, Data
<1> QED
  BY <1>1, ConnectInvHolds, PTL

\* The task that comes to put the other commands aside (back(), pop_back(): 1696) finds
\* its command, whatever the core task did since it was started.
THEOREM NewestThere ==
    ASSUME ~Overlap
    PROVE  Spec => []NewestIsThere
<1>1. ConnectInv => NewestIsThere
  BY DEF ConnectInv, Data, Waited, NewestIsThere
<1> QED
  BY <1>1, ConnectInvHolds, PTL
=============================================================================
