--------------------------- MODULE MsgQueueProofs ---------------------------
(***************************************************************************)
(* What the runs show of MsgQueue for three tasks and a handful of         *)
(* documents, proved for any set of producers, any queue size and any      *)
(* number of documents and reboots.                                        *)
(***************************************************************************)
EXTENDS MsgQueue, SequenceTheorems, FiniteSetTheorems, TLAPS

-----------------------------------------------------------------------------
(* Sequences: what appending and taking the head preserve.                 *)

\* Taking the head of a queue of documents (std::queue::front and pop).
LEMMA HeadTailDoc ==
    ASSUME NEW S, NEW s \in Seq(S), s # <<>>
    PROVE  /\ Head(s) \in S
           /\ Head(s) = s[1]
           /\ Tail(s) \in Seq(S)
           /\ Len(s) \in Nat \ {0}
           /\ Len(Tail(s)) = Len(s) - 1
           /\ \A i \in 1..Len(Tail(s)) : Tail(s)[i] = s[i + 1]
           /\ 1 \in DOMAIN s
           /\ \A i \in DOMAIN Tail(s) : i + 1 \in DOMAIN s
    OBVIOUS

\* Adding a document at the end of a queue (std::queue::push).
LEMMA AppendDoc ==
    ASSUME NEW S, NEW s \in Seq(S), NEW e \in S
    PROVE  /\ Append(s, e) \in Seq(S)
           /\ Len(Append(s, e)) = Len(s) + 1
           /\ DOMAIN Append(s, e) = DOMAIN s \cup {Len(s) + 1}
           /\ \A i \in DOMAIN s : Append(s, e)[i] = s[i]
           /\ Append(s, e)[Len(s) + 1] = e
    OBVIOUS

-----------------------------------------------------------------------------
(* Types                                                                   *)

\* Types hold in every state, whatever the interleaving of the tasks.
THEOREM TypeCorrect == Spec => []TypeOK
<1>1. Init => TypeOK
  BY QueueAssumption, NoDocAssumption
     DEF Init, TypeOK, Tasks, Pcs, Enqueuing, Draining, GatewayStates
<1>2. TypeOK /\ [Next]_vars => TypeOK'
  <2> SUFFICES ASSUME TypeOK, [Next]_vars PROVE TypeOK'
    OBVIOUS
  <2> USE QueueAssumption, NoDocAssumption
      DEF TypeOK, Tasks, Pcs, Enqueuing, Draining, GatewayStates, Goto
  <2>1. ASSUME NEW t \in Tasks, EnqueueEmpty(t) PROVE TypeOK'
    BY <2>1 DEF EnqueueEmpty
  <2>2. ASSUME NEW t \in Tasks, EnqueueBlocked(t) PROVE TypeOK'
    BY <2>2 DEF EnqueueBlocked
  <2>3. ASSUME NEW t \in Tasks, NEW kind \in Kinds, EnqueueAdmit(t, kind)
        PROVE  TypeOK'
    <3>1. made[t] \in Nat /\ made[t] + 1 \in 1..MaxDocs[t]
      BY <2>3 DEF EnqueueAdmit
    <3>2. [src |-> t, n |-> made[t] + 1, kind |-> kind] \in Doc
      BY <3>1 DEF Doc
    <3> QED BY <2>3, <3>1, <3>2 DEF EnqueueAdmit
  <2>4. ASSUME NEW t \in Tasks, EnqueueTake(t) PROVE TypeOK'
    BY <2>4 DEF EnqueueTake
  <2>5. ASSUME NEW t \in Tasks, EnqueueTimeout(t) PROVE TypeOK'
    BY <2>5 DEF EnqueueTimeout
  <2>6. ASSUME NEW t \in Tasks, EnqueuePush(t) PROVE TypeOK'
    <3>1. arg[t] \in Doc
      BY <2>6 DEF EnqueuePush
    <3>2. jsonQueue' \in Seq(Doc)
      BY <2>6, <3>1 DEF EnqueuePush
    <3> QED BY <2>6, <3>2 DEF EnqueuePush
  <2>7. ASSUME NEW t \in Tasks, EnqueueGive(t) PROVE TypeOK'
    BY <2>7 DEF EnqueueGive
  <2>8. CASE DrainSize
    <3>1. PICK size \in SizeReads :
              Goto(Loop, "idle", IF size <= 0 THEN "idle" ELSE "dtake")
              /\ queueLength' = size /\ exact' = (size = Len(jsonQueue))
      BY <2>8 DEF DrainSize
    <3>2. size \in Int
      <4>1. Len(jsonQueue) \in Int
        OBVIOUS
      <4> QED BY <4>1, Zenon DEF SizeReads
    <3>3. exact' \in BOOLEAN
      BY <3>1
    <3>4. UNCHANGED <<jsonQueue, xQueueMutex, arg, hand, gatewayState,
                      previousState, boots, made, sent>>
      BY <2>8 DEF DrainSize
    <3>5. /\ pc' \in [Tasks -> Pcs]
          /\ pc[Loop] = "idle"
          /\ pc'[Loop] \in {"idle", "dtake"}
          /\ \A t \in Producers : pc'[t] = pc[t]
      BY <3>1
    <3> QED BY <3>1, <3>2, <3>3, <3>4, <3>5
  <2>9. CASE DrainTake
    BY <2>9 DEF DrainTake
  <2>10. CASE DrainTimeout
    BY <2>10 DEF DrainTimeout
  <2>11. CASE DrainPop
    <3>1. Head(jsonQueue) \in Doc /\ Tail(jsonQueue) \in Seq(Doc)
      BY <2>11, HeadTailDoc DEF DrainPop
    <3> QED BY <2>11, <3>1 DEF DrainPop
  <2>12. CASE DrainGiveBad
    BY <2>12 DEF DrainGiveBad
  <2>13. CASE DrainGive
    BY <2>13 DEF DrainGive
  <2>14. CASE DispatchFiltered
    BY <2>14 DEF DispatchFiltered
  <2>15. CASE DispatchBegin
    BY <2>15 DEF DispatchBegin
  <2>16. ASSUME NEW ok \in BOOLEAN, DispatchEnd(ok) PROVE TypeOK'
    <3>1. sent' \in Seq(Doc)
      BY <2>16 DEF DispatchEnd
    <3> QED BY <2>16, <3>1 DEF DispatchEnd
  <2>17. CASE Callbacks
    BY <2>17 DEF Callbacks, ConnectionCallback
  <2>18. ASSUME NEW t \in Restarters, RestartBegin(t) PROVE TypeOK'
    BY <2>18 DEF RestartBegin
  <2>19. ASSUME NEW t \in Restarters, RestartPop(t) PROVE TypeOK'
    <3>1. Tail(jsonQueue) \in Seq(Doc)
      BY <2>19, HeadTailDoc DEF RestartPop
    <3> QED BY <2>19, <3>1 DEF RestartPop
  <2>20. ASSUME NEW t \in Restarters, Reboot(t) PROVE TypeOK'
    BY <2>20 DEF Reboot
  <2>21. CASE UNCHANGED vars
    BY <2>21 DEF vars
  <2> QED
    BY <2>1, <2>2, <2>3, <2>4, <2>5, <2>6, <2>7, <2>8, <2>9, <2>10, <2>11,
       <2>12, <2>13, <2>14, <2>15, <2>16, <2>17, <2>18, <2>19, <2>20, <2>21
       DEF Next, Drain
<1> QED BY <1>1, <1>2, PTL DEF Spec

-----------------------------------------------------------------------------
(* Mutual exclusion                                                        *)

\* Pushes and drains never overlap, for any number of producing tasks: the
\* holder of xQueueMutex is exactly the task in a locked section.  Inductive
\* as it stands, given the types.
THEOREM MutualExclusion == Spec => []QueueProtected
<1>1. Init => QueueProtected
  BY QueueAssumption DEF Init, QueueProtected, Locked
<1>2. TypeOK /\ QueueProtected /\ [Next]_vars => QueueProtected'
  <2> SUFFICES ASSUME TypeOK, QueueProtected, [Next]_vars
               PROVE  QueueProtected'
    OBVIOUS
  <2> USE QueueAssumption DEF TypeOK, QueueProtected, Locked, Goto
  <2>0. Loop \in Tasks
    BY DEF Tasks
  <2>1. ASSUME NEW t \in Tasks,
               EnqueueEmpty(t) \/ EnqueueBlocked(t)
                 \/ \E kind \in Kinds : EnqueueAdmit(t, kind)
        PROVE  QueueProtected'
    BY <2>1 DEF EnqueueEmpty, EnqueueBlocked, EnqueueAdmit
  <2>2. ASSUME NEW t \in Tasks, EnqueueTake(t) PROVE QueueProtected'
    BY <2>2 DEF EnqueueTake
  <2>3. ASSUME NEW t \in Tasks, EnqueueTimeout(t) PROVE QueueProtected'
    BY <2>3 DEF EnqueueTimeout
  <2>4. ASSUME NEW t \in Tasks, EnqueuePush(t) PROVE QueueProtected'
    BY <2>4 DEF EnqueuePush
  <2>5. ASSUME NEW t \in Tasks, EnqueueGive(t) PROVE QueueProtected'
    BY <2>5 DEF EnqueueGive
  <2>6. CASE DrainSize
    BY <2>0, <2>6 DEF DrainSize
  <2>7. CASE DrainTake
    BY <2>0, <2>7 DEF DrainTake
  <2>8. CASE DrainTimeout
    BY <2>0, <2>8 DEF DrainTimeout
  <2>9. CASE DrainPop
    BY <2>0, <2>9 DEF DrainPop
  <2>10. CASE DrainGiveBad
    BY <2>0, <2>10 DEF DrainGiveBad
  <2>11. CASE DrainGive
    BY <2>0, <2>11 DEF DrainGive
  <2>12. CASE DispatchFiltered \/ DispatchBegin \/ \E ok \in BOOLEAN : DispatchEnd(ok)
    BY <2>0, <2>12 DEF DispatchFiltered, DispatchBegin, DispatchEnd
  <2>13. CASE Callbacks
    BY <2>13 DEF Callbacks, ConnectionCallback
  <2>14. ASSUME NEW t \in Restarters, RestartBegin(t) \/ RestartPop(t)
         PROVE  QueueProtected'
    BY <2>14 DEF RestartBegin, RestartPop
  <2>15. ASSUME NEW t \in Restarters, Reboot(t) PROVE QueueProtected'
    BY <2>15 DEF Reboot
  <2>16. CASE UNCHANGED vars
    BY <2>16 DEF vars
  <2> QED
    BY <2>1, <2>2, <2>3, <2>4, <2>5, <2>6, <2>7, <2>8, <2>9, <2>10, <2>11,
       <2>12, <2>13, <2>14, <2>15, <2>16 DEF Next, Drain
<1> QED BY <1>1, <1>2, TypeCorrect, PTL DEF Spec

-----------------------------------------------------------------------------
(* The drain and the empty queue                                           *)

\* A drain that is waiting for the mutex has seen a document, or a push is
\* under way that will have finished when the mutex is free.
NonEmptyInv ==
    /\ pc[Loop] = "dtake" => \/ jsonQueue # <<>>
                             \/ \E p \in Producers : pc[p] = "push"
    /\ DrainNeverUnderflows

\* front() and pop() never meet an empty queue as long as only the loop task
\* restarts the gateway, even when size() races with a push and lies.
THEOREM NoUnderflow ==
    ASSUME Restarters \subseteq {Loop}
    PROVE  Spec => []DrainNeverUnderflows
<1>1. Init => NonEmptyInv
  BY DEF Init, NonEmptyInv, DrainNeverUnderflows, Tasks
<1>2. TypeOK /\ QueueProtected /\ NonEmptyInv /\ [Next]_vars => NonEmptyInv'
  <2> SUFFICES ASSUME TypeOK, QueueProtected, NonEmptyInv, [Next]_vars
               PROVE  NonEmptyInv'
    OBVIOUS
  <2> USE QueueAssumption DEF TypeOK, NonEmptyInv, DrainNeverUnderflows, Goto, Tasks
  <2>1. ASSUME NEW t \in Tasks,
               EnqueueEmpty(t) \/ EnqueueBlocked(t)
                 \/ \E kind \in Kinds : EnqueueAdmit(t, kind)
        PROVE  NonEmptyInv'
    BY <2>1 DEF EnqueueEmpty, EnqueueBlocked, EnqueueAdmit
  <2>2. ASSUME NEW t \in Tasks, EnqueueTake(t) \/ EnqueueTimeout(t) \/ EnqueueGive(t)
        PROVE  NonEmptyInv'
    BY <2>2 DEF EnqueueTake, EnqueueTimeout, EnqueueGive
  <2>3. ASSUME NEW t \in Tasks, EnqueuePush(t) PROVE NonEmptyInv'
    <3>1. arg[t] \in Doc
      BY <2>3 DEF EnqueuePush, Enqueuing
    <3>2. jsonQueue' # <<>>
      BY <2>3, <3>1, AppendDoc DEF EnqueuePush
    <3> QED BY <2>3, <3>2 DEF EnqueuePush
  <2>4. CASE DrainSize
    <3>1. PICK size \in SizeReads :
              /\ Goto(Loop, "idle", IF size <= 0 THEN "idle" ELSE "dtake")
              /\ UNCHANGED jsonQueue
      BY <2>4 DEF DrainSize
    <3>2. CASE size <= 0
      BY <3>1, <3>2
    <3>3. CASE ~(size <= 0) /\ size = Len(jsonQueue)
      BY <3>1, <3>3
    <3>4. CASE size # Len(jsonQueue)
      <4>1. PICK p \in Producers : pc[p] = "push"
        BY <3>4 DEF SizeReads
      <4> QED BY <3>1, <4>1
    <3> QED BY <3>2, <3>3, <3>4
  <2>5. CASE DrainTake
    <3>1. \A p \in Producers : pc[p] # "push"
      BY <2>5 DEF DrainTake, QueueProtected, Locked
    <3> QED BY <2>5, <3>1 DEF DrainTake
  <2>6. CASE DrainTimeout \/ DrainPop \/ DrainGiveBad \/ DrainGive
    BY <2>6 DEF DrainTimeout, DrainPop, DrainGiveBad, DrainGive
  <2>7. CASE DispatchFiltered \/ DispatchBegin \/ \E ok \in BOOLEAN : DispatchEnd(ok)
    BY <2>7 DEF DispatchFiltered, DispatchBegin, DispatchEnd
  <2>8. CASE Callbacks
    BY <2>8 DEF Callbacks, ConnectionCallback
  <2>9. ASSUME NEW t \in Restarters, RestartBegin(t) \/ RestartPop(t) \/ Reboot(t)
        PROVE  NonEmptyInv'
    <3>1. t = Loop
      OBVIOUS
    <3> QED BY <2>9, <3>1 DEF RestartBegin, RestartPop, Reboot
  <2>10. CASE UNCHANGED vars
    BY <2>10 DEF vars
  <2> QED
    BY <2>1, <2>2, <2>3, <2>4, <2>5, <2>6, <2>7, <2>8, <2>9, <2>10 DEF Next, Drain
<1>3. NonEmptyInv => DrainNeverUnderflows
  BY DEF NonEmptyInv
<1> QED BY <1>1, <1>2, <1>3, TypeCorrect, MutualExclusion, PTL DEF Spec

-----------------------------------------------------------------------------
(* The displayed state                                                     *)

\* The saved copy is never itself PROCESSING, so restoring it ends the display.
\* The gateway cannot be left showing PROCESSING when the dispatch is over.
THEOREM ProcessingEnds == Spec => []ProcessingIsTransient
<1> DEFINE Saved == ProcessingIsTransient /\ previousState # "PROCESSING"
<1>1. Init => Saved
  BY DEF Init, ProcessingIsTransient
<1>2. TypeOK /\ Saved /\ [Next]_vars => Saved'
  <2> SUFFICES ASSUME TypeOK, Saved, [Next]_vars PROVE Saved'
    OBVIOUS
  <2> USE QueueAssumption DEF TypeOK, ProcessingIsTransient, Goto, Tasks
  <2>1. ASSUME NEW t \in Tasks,
               EnqueueEmpty(t) \/ EnqueueBlocked(t)
                 \/ \E kind \in Kinds : EnqueueAdmit(t, kind)
        PROVE  Saved'
    BY <2>1 DEF EnqueueEmpty, EnqueueBlocked, EnqueueAdmit
  <2>2. ASSUME NEW t \in Tasks, EnqueueTake(t) \/ EnqueueTimeout(t)
                 \/ EnqueuePush(t) \/ EnqueueGive(t)
        PROVE  Saved'
    BY <2>2 DEF EnqueueTake, EnqueueTimeout, EnqueuePush, EnqueueGive
  <2>3. CASE DrainSize \/ DrainTake \/ DrainTimeout \/ DrainPop
               \/ DrainGiveBad \/ DrainGive
    BY <2>3 DEF DrainSize, DrainTake, DrainTimeout, DrainPop, DrainGiveBad, DrainGive
  <2>4. CASE DispatchFiltered \/ DispatchBegin \/ \E ok \in BOOLEAN : DispatchEnd(ok)
    BY <2>4 DEF DispatchFiltered, DispatchBegin, DispatchEnd
  <2>5. CASE Callbacks
    BY <2>5 DEF Callbacks, ConnectionCallback
  <2>6. ASSUME NEW t \in Restarters, RestartBegin(t) \/ RestartPop(t) \/ Reboot(t)
        PROVE  Saved'
    BY <2>6 DEF RestartBegin, RestartPop, Reboot
  <2>7. CASE UNCHANGED vars
    BY <2>7 DEF vars
  <2> QED BY <2>1, <2>2, <2>3, <2>4, <2>5, <2>6, <2>7 DEF Next, Drain
<1> QED BY <1>1, <1>2, TypeCorrect, PTL DEF Spec

-----------------------------------------------------------------------------
(* Order and at-most-once delivery                                         *)

LEMMA DocFields ==
    ASSUME NEW d \in Doc
    PROVE  d.src \in Tasks /\ d.n \in Nat
<1>1. PICK t \in Tasks : d \in [src : {t}, n : 1..MaxDocs[t], kind : Kinds]
  BY DEF Doc
<1> QED BY <1>1, QueueAssumption

\* Every document of s was made after d, if the same task made both.
Follow(s, d) == \A i \in DOMAIN s : s[i].src = d.src => d.n < s[i].n

\* Pushing a document later than all those waiting keeps the queue in order.
LEMMA InOrderAppend ==
    ASSUME NEW s \in Seq(Doc), NEW d \in Doc, InOrder(s), Precede(s, d)
    PROVE  InOrder(Append(s, d))
BY AppendDoc, DocFields DEF InOrder, Precede

\* Popping keeps the queue in order, and the popped document is the oldest.
LEMMA InOrderTail ==
    ASSUME NEW s \in Seq(Doc), s # <<>>, InOrder(s)
    PROVE  InOrder(Tail(s)) /\ Follow(Tail(s), Head(s))
<1>1. \A i \in DOMAIN Tail(s) : /\ i \in Nat \ {0}
                               /\ i + 1 \in DOMAIN s
                               /\ Tail(s)[i] = s[i + 1]
  BY HeadTailDoc
<1>2. 1 \in DOMAIN s /\ Head(s) = s[1]
  BY HeadTailDoc
<1>3. InOrder(Tail(s))
  BY <1>1 DEF InOrder
<1>4. Follow(Tail(s), Head(s))
  BY <1>1, <1>2 DEF InOrder, Follow
<1> QED BY <1>3, <1>4

LEMMA PrecedeAppend ==
    ASSUME NEW s \in Seq(Doc), NEW d \in Doc, NEW e \in Doc, Precede(s, e),
           d.src = e.src => d.n < e.n
    PROVE  Precede(Append(s, d), e)
BY AppendDoc DEF Precede

LEMMA PrecedeTail ==
    ASSUME NEW s \in Seq(Doc), s # <<>>, NEW e \in Doc, Precede(s, e)
    PROVE  Precede(Tail(s), e) /\ (Head(s).src = e.src => Head(s).n < e.n)
<1>1. \A i \in DOMAIN Tail(s) : i + 1 \in DOMAIN s /\ Tail(s)[i] = s[i + 1]
  BY HeadTailDoc
<1>2. 1 \in DOMAIN s /\ Head(s) = s[1]
  BY HeadTailDoc
<1> QED BY <1>1, <1>2 DEF Precede

\* Where the documents of one task are, from the oldest to the newest:
\* sent, in the loop's hand, in the queue, being enqueued, not yet made.
OrderInv ==
    /\ InOrder(sent)
    /\ InOrder(jsonQueue)
    /\ \A i \in DOMAIN sent : sent[i].n <= made[sent[i].src]
    /\ \A i \in DOMAIN jsonQueue : /\ jsonQueue[i].n <= made[jsonQueue[i].src]
                                  /\ Precede(sent, jsonQueue[i])
    /\ hand # NoDoc => /\ hand.n <= made[hand.src]
                       /\ Precede(sent, hand)
                       /\ Follow(jsonQueue, hand)
    /\ \A t \in Tasks : pc[t] \in Enqueuing =>
          /\ arg[t].src = t
          /\ arg[t].n <= made[t]
          /\ Precede(sent, arg[t])
          /\ Precede(jsonQueue, arg[t])
          /\ hand # NoDoc /\ hand.src = t => hand.n < arg[t].n

\* A step that moves no document keeps the order.
LEMMA OrderFrame ==
    ASSUME TypeOK, OrderInv,
           UNCHANGED <<jsonQueue, sent, made>>,
           hand' = hand \/ hand' = NoDoc,
           \A t \in Tasks : pc'[t] \in Enqueuing =>
                              pc[t] \in Enqueuing /\ arg'[t] = arg[t]
    PROVE  OrderInv'
BY DEF OrderInv, InOrder, Precede, Follow

\* Per task, what the broker sees is in the order the documents were made and
\* free of duplicates, for any interleaving and over any number of reboots.
THEOREM PublishedOrder == Spec => []PublishedInOrder
<1>1. Init => OrderInv
  BY DEF Init, OrderInv, InOrder, Precede, Follow, Enqueuing
<1>2. TypeOK /\ OrderInv /\ [Next]_vars => OrderInv'
  <2> SUFFICES ASSUME TypeOK, OrderInv, [Next]_vars PROVE OrderInv'
    OBVIOUS
  <2> USE QueueAssumption, NoDocAssumption
  <2>0. /\ jsonQueue \in Seq(Doc) /\ sent \in Seq(Doc)
        /\ made \in [Tasks -> Nat] /\ pc \in [Tasks -> Pcs] /\ Loop \in Tasks
    BY DEF TypeOK, Tasks
  <2>1. ASSUME NEW t \in Tasks,
               EnqueueEmpty(t) \/ EnqueueTimeout(t) \/ EnqueueGive(t)
                 \/ EnqueueTake(t)
        PROVE  OrderInv'
    <3>1. UNCHANGED <<jsonQueue, sent, made, hand>>
      BY <2>1 DEF EnqueueEmpty, EnqueueTimeout, EnqueueGive, EnqueueTake
    <3>2. ASSUME NEW u \in Tasks, pc'[u] \in Enqueuing
          PROVE  pc[u] \in Enqueuing /\ arg'[u] = arg[u]
      <4> USE <3>2, <2>0 DEF Goto, Enqueuing, TypeOK
      <4>1. CASE EnqueueEmpty(t)
        BY <4>1 DEF EnqueueEmpty
      <4>2. CASE EnqueueTimeout(t)
        BY <4>2 DEF EnqueueTimeout
      <4>3. CASE EnqueueGive(t)
        BY <4>3 DEF EnqueueGive
      <4>4. CASE EnqueueTake(t)
        BY <4>4 DEF EnqueueTake
      <4> QED BY <2>1, <4>1, <4>2, <4>3, <4>4
    <3> QED BY <3>1, <3>2, OrderFrame
  <2>2. ASSUME NEW t \in Tasks,
               EnqueueBlocked(t) \/ \E kind \in Kinds : EnqueueAdmit(t, kind)
        PROVE  OrderInv'
    <3>1. /\ made' = [made EXCEPT ![t] = @ + 1]
          /\ UNCHANGED <<jsonQueue, sent, hand>>
      BY <2>2 DEF EnqueueBlocked, EnqueueAdmit
    <3>2. \A u \in Tasks : made[u] \in Nat /\ made[u] <= made'[u]
      BY <2>0, <3>1
    <3>3. \A d \in Doc : d.n <= made[d.src] => d.n <= made'[d.src]
      <4> TAKE d \in Doc
      <4>1. d.src \in Tasks /\ d.n \in Nat
        BY DocFields
      <4>2. made[d.src] \in Nat /\ made'[d.src] \in Nat /\ made[d.src] <= made'[d.src]
        BY <4>1, <3>1, <3>2, <2>0
      <4> QED BY <4>1, <4>2
    <3>4. /\ \A i \in DOMAIN sent : sent[i] \in Doc
          /\ \A i \in DOMAIN jsonQueue : jsonQueue[i] \in Doc
          /\ hand # NoDoc => hand \in Doc
      BY <2>0 DEF TypeOK
    <3>5. ASSUME NEW u \in Tasks, pc'[u] \in Enqueuing
          PROVE  /\ arg'[u].src = u
                 /\ arg'[u].n <= made'[u]
                 /\ Precede(sent, arg'[u])
                 /\ Precede(jsonQueue, arg'[u])
                 /\ hand # NoDoc /\ hand.src = u => hand.n < arg'[u].n
      <4>1. CASE pc[u] \in Enqueuing /\ arg'[u] = arg[u]
        <5>1. arg[u] \in Doc
          BY <4>1 DEF TypeOK
        <5>2. arg[u].n \in Nat /\ made'[u] \in Nat
          BY <5>1, <3>1, <2>0, DocFields
        <5>3. arg[u].n <= made[u]
          BY <4>1 DEF OrderInv
        <5>4. arg'[u].n <= made'[u]
          BY <4>1, <5>2, <5>3, <3>2
        <5> QED BY <4>1, <5>4, <3>1 DEF OrderInv
      <4>2. CASE ~(pc[u] \in Enqueuing /\ arg'[u] = arg[u])
        <5>1. u = t /\ arg'[u].src = u /\ arg'[u].n = made[u] + 1
          BY <4>2, <3>5, <2>2, <2>0
             DEF EnqueueBlocked, EnqueueAdmit, Goto, Enqueuing, TypeOK
        <5>2. \A d \in Doc : d.n <= made[d.src] /\ d.src = u => d.n < arg'[u].n
          BY <5>1, <3>2, DocFields
        <5>3. arg'[u].n <= made'[u]
          BY <5>1, <3>1, <2>0
        <5>4. Precede(sent, arg'[u]) /\ Precede(jsonQueue, arg'[u])
          BY <5>1, <5>2, <3>4 DEF OrderInv, Precede
        <5>5. hand # NoDoc /\ hand.src = u => hand.n < arg'[u].n
          BY <5>2, <3>4 DEF OrderInv
        <5> QED BY <5>1, <5>3, <5>4, <5>5
      <4> QED BY <4>1, <4>2
    <3> QED BY <3>1, <3>3, <3>4, <3>5 DEF OrderInv
  <2>3. ASSUME NEW t \in Tasks, EnqueuePush(t) PROVE OrderInv'
    <3>1. /\ jsonQueue' = Append(jsonQueue, arg[t])
          /\ arg[t] \in Doc /\ arg[t].src = t /\ pc[t] = "push"
          /\ UNCHANGED <<sent, made, hand>>
          /\ \A u \in Tasks : pc'[u] \in Enqueuing =>
                 u # t /\ pc[u] \in Enqueuing /\ arg'[u] = arg[u]
      BY <2>3, <2>0 DEF EnqueuePush, Goto, TypeOK, OrderInv, Enqueuing
    <3>2. /\ Precede(jsonQueue, arg[t]) /\ Precede(sent, arg[t])
          /\ arg[t].n <= made[t]
          /\ hand # NoDoc /\ hand.src = t => hand.n < arg[t].n
      BY <3>1 DEF OrderInv, Enqueuing
    <3>3. InOrder(jsonQueue')
      BY <3>1, <3>2, <2>0, InOrderAppend DEF OrderInv
    <3>4. \A i \in DOMAIN jsonQueue' : /\ jsonQueue'[i].n <= made[jsonQueue'[i].src]
                                      /\ Precede(sent, jsonQueue'[i])
      BY <3>1, <3>2, <2>0, AppendDoc DEF OrderInv
    <3>5. hand # NoDoc => Follow(jsonQueue', hand)
      BY <3>1, <3>2, <2>0, AppendDoc DEF OrderInv, Follow
    <3>6. ASSUME NEW u \in Tasks, pc'[u] \in Enqueuing
          PROVE  Precede(jsonQueue', arg[u])
      <4>1. arg[u] \in Doc /\ arg[u].src = u /\ u # t /\ Precede(jsonQueue, arg[u])
        BY <3>1, <3>6 DEF TypeOK, OrderInv
      <4> QED BY <4>1, <3>1, <2>0, PrecedeAppend
    <3> QED BY <3>1, <3>3, <3>4, <3>5, <3>6 DEF OrderInv
  <2>4. CASE DrainSize \/ DrainTake \/ DrainTimeout \/ DrainGiveBad \/ DrainGive
    BY <2>4, <2>0, OrderFrame
       DEF DrainSize, DrainTake, DrainTimeout, DrainGiveBad, DrainGive, Goto, Enqueuing
  <2>5. CASE DrainPop
    <3>1. /\ jsonQueue # <<>> /\ hand' = Head(jsonQueue)
          /\ jsonQueue' = Tail(jsonQueue)
          /\ UNCHANGED <<sent, made, arg>>
          /\ \A u \in Tasks : pc'[u] \in Enqueuing => pc[u] \in Enqueuing
      BY <2>5, <2>0 DEF DrainPop, Goto, Enqueuing
    <3>2. /\ \A i \in DOMAIN jsonQueue' : i + 1 \in DOMAIN jsonQueue
                                        /\ jsonQueue'[i] = jsonQueue[i + 1]
          /\ hand' = jsonQueue[1] /\ 1 \in DOMAIN jsonQueue
      BY <3>1, <2>0, HeadTailDoc
    <3>3. InOrder(jsonQueue') /\ Follow(jsonQueue', hand')
      BY <3>1, <2>0, InOrderTail DEF OrderInv
    <3>4. ASSUME NEW u \in Tasks, pc'[u] \in Enqueuing
          PROVE  /\ Precede(jsonQueue', arg[u])
                 /\ hand'.src = u => hand'.n < arg[u].n
      <4>1. arg[u] \in Doc /\ arg[u].src = u /\ Precede(jsonQueue, arg[u])
        BY <3>1, <3>4 DEF TypeOK, OrderInv
      <4> QED BY <4>1, <3>1, <2>0, PrecedeTail
    <3> QED BY <3>1, <3>2, <3>3, <3>4 DEF OrderInv
  <2>6. CASE DispatchFiltered \/ DispatchBegin
    BY <2>6, <2>0, OrderFrame DEF DispatchFiltered, DispatchBegin, Goto, Enqueuing
  <2>7. ASSUME NEW ok \in BOOLEAN, DispatchEnd(ok) PROVE OrderInv'
    <3>1. /\ hand \in Doc /\ hand # NoDoc /\ hand' = NoDoc
          /\ UNCHANGED <<jsonQueue, made, arg>>
          /\ \A u \in Tasks : pc'[u] \in Enqueuing => pc[u] \in Enqueuing
      BY <2>7, <2>0 DEF DispatchEnd, Goto, TypeOK, Enqueuing
    <3>2. CASE ~ok
      BY <3>1, <3>2, <2>7, OrderFrame DEF DispatchEnd
    <3>3. CASE ok
      <4>1. sent' = Append(sent, hand)
        BY <3>3, <2>7 DEF DispatchEnd
      <4>2. InOrder(sent') /\ \A i \in DOMAIN sent' : sent'[i].n <= made[sent'[i].src]
        BY <4>1, <3>1, <2>0, InOrderAppend, AppendDoc DEF OrderInv
      <4>3. ASSUME NEW i \in DOMAIN jsonQueue
            PROVE  Precede(sent', jsonQueue[i])
        <5>1. jsonQueue[i] \in Doc /\ Precede(sent, jsonQueue[i])
          BY <2>0 DEF OrderInv
        <5>2. hand.src = jsonQueue[i].src => hand.n < jsonQueue[i].n
          BY <3>1 DEF OrderInv, Follow
        <5> QED BY <5>1, <5>2, <4>1, <3>1, <2>0, PrecedeAppend
      <4>4. ASSUME NEW u \in Tasks, pc'[u] \in Enqueuing
            PROVE  Precede(sent', arg[u])
        <5>1. arg[u] \in Doc /\ Precede(sent, arg[u]) /\ arg[u].src = u
              /\ (hand.src = u => hand.n < arg[u].n)
          BY <3>1, <4>4 DEF TypeOK, OrderInv
        <5> QED BY <5>1, <4>1, <3>1, <2>0, PrecedeAppend
      <4> QED BY <4>2, <4>3, <4>4, <3>1 DEF OrderInv
    <3> QED BY <3>2, <3>3
  <2>8. CASE Callbacks
    BY <2>8, OrderFrame DEF Callbacks, ConnectionCallback
  <2>9. ASSUME NEW t \in Restarters, RestartBegin(t) PROVE OrderInv'
    BY <2>9, <2>0, OrderFrame DEF RestartBegin, Goto, Enqueuing
  <2>10. ASSUME NEW t \in Restarters, RestartPop(t) PROVE OrderInv'
    <3>1. /\ jsonQueue # <<>> /\ jsonQueue' = Tail(jsonQueue)
          /\ UNCHANGED <<sent, made, arg, hand, pc>>
      BY <2>10 DEF RestartPop
    <3>2. \A i \in DOMAIN jsonQueue' : i + 1 \in DOMAIN jsonQueue
                                     /\ jsonQueue'[i] = jsonQueue[i + 1]
      BY <3>1, <2>0, HeadTailDoc
    <3>3. InOrder(jsonQueue')
      BY <3>1, <2>0, InOrderTail DEF OrderInv
    <3>4. \A u \in Tasks : pc[u] \in Enqueuing => Precede(jsonQueue', arg[u])
      BY <3>2 DEF OrderInv, Precede
    <3>5. hand # NoDoc => Follow(jsonQueue', hand)
      BY <3>2 DEF OrderInv, Follow
    <3> QED BY <3>1, <3>2, <3>3, <3>4, <3>5 DEF OrderInv
  <2>11. ASSUME NEW t \in Restarters, Reboot(t) PROVE OrderInv'
    BY <2>11, <2>0, OrderFrame DEF Reboot, Enqueuing
  <2>12. CASE UNCHANGED vars
    BY <2>12, OrderFrame DEF vars
  <2> QED
    BY <2>1, <2>2, <2>3, <2>4, <2>5, <2>6, <2>7, <2>8, <2>9, <2>10, <2>11,
       <2>12 DEF Next, Drain
<1>3. OrderInv => PublishedInOrder
  BY DEF OrderInv, PublishedInOrder
<1> QED BY <1>1, <1>2, <1>3, TypeCorrect, PTL DEF Spec

-----------------------------------------------------------------------------
(* Refinement                                                              *)

\* The queue of main.cpp implements Outbox: each step of a task is a step of
\* Outbox or invisible there.
THEOREM QueueKeepsPromise == Spec => KeepsPromise
<1> DEFINE Cleaning == \E t \in Tasks : pc[t] = "clean"
<1>1. Init => Promise!Init
  BY DEF Init, Promise!Init
<1>2. TypeOK /\ [Next]_vars => [Promise!Next]_(Promise!vars)
  <2> SUFFICES ASSUME TypeOK, [Next]_vars
               PROVE  Promise!Next \/ UNCHANGED Promise!vars
    OBVIOUS
  <2> USE QueueAssumption, NoDocAssumption
  <2>0. Loop \in Tasks /\ pc \in [Tasks -> Pcs] /\ Restarters \subseteq Tasks
    BY DEF Tasks, TypeOK
  <2>a. ASSUME NEW t \in Tasks, NEW from, NEW to, from # "clean", to # "clean",
               Goto(t, from, to)
        PROVE  UNCHANGED Cleaning
    BY <2>a, <2>0 DEF Goto
  <2> HIDE DEF Cleaning
  <2> USE DEF Promise!vars
  <2>1. ASSUME NEW t \in Tasks, EnqueueEmpty(t) \/ EnqueueBlocked(t)
        PROVE  UNCHANGED Promise!vars
    BY <2>1 DEF EnqueueEmpty, EnqueueBlocked
  <2>2. ASSUME NEW t \in Tasks,
               \/ \E kind \in Kinds : EnqueueAdmit(t, kind)
               \/ EnqueueTake(t) \/ EnqueueTimeout(t) \/ EnqueueGive(t)
        PROVE  UNCHANGED Promise!vars
    <3>1. UNCHANGED Cleaning
      BY <2>2, <2>a DEF EnqueueAdmit, EnqueueTake, EnqueueTimeout, EnqueueGive
    <3>2. UNCHANGED <<jsonQueue, hand, sent>>
      BY <2>2 DEF EnqueueAdmit, EnqueueTake, EnqueueTimeout, EnqueueGive
    <3> QED BY <3>1, <3>2 DEF Cleaning
  <2>3. ASSUME NEW t \in Tasks, EnqueuePush(t) PROVE Promise!Next
    <3>1. arg[t] \in Doc
      BY <2>3 DEF EnqueuePush, Goto, TypeOK, Enqueuing
    <3>2. UNCHANGED Cleaning
      BY <2>3, <2>a DEF EnqueuePush
    <3>3. Promise!Accept(arg[t])
      BY <2>3, <3>2 DEF EnqueuePush, Promise!Accept, Cleaning
    <3> QED BY <3>1, <3>3 DEF Promise!Next
  <2>4. CASE DrainSize
    <3>1. PICK size \in SizeReads :
              /\ Goto(Loop, "idle", IF size <= 0 THEN "idle" ELSE "dtake")
              /\ UNCHANGED <<jsonQueue, hand, sent>>
      BY <2>4 DEF DrainSize
    <3>2. UNCHANGED Cleaning
      BY <3>1, <2>0, <2>a
    <3> QED BY <3>1, <3>2 DEF Cleaning
  <2>5. CASE DrainTake \/ DrainTimeout \/ DrainGive \/ DispatchBegin
    <3>1. UNCHANGED Cleaning
      BY <2>5, <2>0, <2>a DEF DrainTake, DrainTimeout, DrainGive, DispatchBegin
    <3>2. UNCHANGED <<jsonQueue, hand, sent>>
      BY <2>5 DEF DrainTake, DrainTimeout, DrainGive, DispatchBegin
    <3> QED BY <3>1, <3>2 DEF Cleaning
  <2>6. CASE DrainPop
    <3>1. UNCHANGED Cleaning
      BY <2>6, <2>0, <2>a DEF DrainPop
    <3>2. hand = NoDoc
      BY <2>6 DEF DrainPop, Goto, TypeOK
    <3>3. Promise!Take
      BY <2>6, <3>1, <3>2 DEF DrainPop, Promise!Take, Cleaning
    <3> QED BY <3>3 DEF Promise!Next
  <2>7. CASE DrainGiveBad \/ DispatchFiltered
    <3>1. UNCHANGED Cleaning
      BY <2>7, <2>0, <2>a DEF DrainGiveBad, DispatchFiltered
    <3>2. hand # NoDoc
      BY <2>7 DEF DrainGiveBad, DispatchFiltered, Goto, TypeOK
    <3>3. Promise!Drop
      BY <2>7, <3>1, <3>2 DEF DrainGiveBad, DispatchFiltered, Promise!Drop, Cleaning
    <3> QED BY <3>3 DEF Promise!Next
  <2>8. ASSUME NEW ok \in BOOLEAN, DispatchEnd(ok) PROVE Promise!Next
    <3>1. UNCHANGED Cleaning
      BY <2>8, <2>0, <2>a DEF DispatchEnd
    <3>2. hand # NoDoc
      BY <2>8 DEF DispatchEnd, Goto, TypeOK
    <3>3. CASE ok
      BY <2>8, <3>1, <3>2, <3>3
         DEF DispatchEnd, Promise!Publish, Promise!Next, Cleaning
    <3>4. CASE ~ok
      BY <2>8, <3>1, <3>2, <3>4
         DEF DispatchEnd, Promise!Drop, Promise!Next, Cleaning
    <3> QED BY <3>3, <3>4
  <2>9. CASE Callbacks
    BY <2>9 DEF Callbacks, ConnectionCallback
  <2>10. ASSUME NEW t \in Restarters, RestartBegin(t) PROVE Promise!Next
    <3>1. Cleaning'
      BY <2>10, <2>0 DEF RestartBegin, Goto, Cleaning
    <3> QED
      BY <2>10, <3>1 DEF RestartBegin, Promise!StartRestart, Promise!Next, Cleaning
  <2>11. ASSUME NEW t \in Restarters, RestartPop(t) PROVE Promise!Next
    <3>1. Cleaning /\ UNCHANGED Cleaning
      BY <2>11, <2>0 DEF RestartPop, Cleaning
    <3> QED
      BY <2>11, <3>1 DEF RestartPop, Promise!Discard, Promise!Next, Cleaning
  <2>12. ASSUME NEW t \in Restarters, Reboot(t) PROVE Promise!Next
    <3>1. Cleaning /\ ~Cleaning'
      BY <2>12, <2>0 DEF Reboot, Cleaning
    <3> QED
      BY <2>12, <3>1 DEF Reboot, Promise!Reboot, Promise!Next, Cleaning
  <2>13. CASE UNCHANGED vars
    BY <2>13 DEF vars
  <2> QED
    BY <2>1, <2>2, <2>3, <2>4, <2>5, <2>6, <2>7, <2>8, <2>9, <2>10, <2>11,
       <2>12, <2>13 DEF Next, Drain
<1> QED BY <1>1, <1>2, TypeCorrect, PTL DEF Spec, KeepsPromise, Promise!Spec

-----------------------------------------------------------------------------
(* The overshoot of the stale admission test                               *)

PastTest == {t \in Tasks : pc[t] \in Enqueuing}

\* Once a drain has seen QueueSize documents or more, at most one document per
\* producing task is added before the next drain.
THEOREM BoundedOvershoot ==
    ASSUME IsFiniteSet(Producers)
    PROVE  Spec => []Overshoot
<1>0. /\ IsFiniteSet(Tasks)
      /\ Cardinality(Producers) \in Nat
  BY FS_AddElement, FS_CardinalityType DEF Tasks
<1>a. ASSUME TypeOK
      PROVE  IsFiniteSet(PastTest) /\ Cardinality(PastTest) \in Nat
  BY <1>0, FS_Subset, FS_CardinalityType DEF PastTest
<1> DEFINE Bound(len, S, q) ==
      len + Cardinality(S) <= q + Cardinality(Producers)
<1>1. Init => Overshoot
  BY QueueAssumption DEF Init, Overshoot
<1>2. TypeOK /\ TypeOK' /\ Overshoot /\ [Next]_vars => Overshoot'
  <2> SUFFICES ASSUME TypeOK, TypeOK', Overshoot, [Next]_vars,
                      queueLength' >= QueueSize, exact'
               PROVE  Bound(Len(jsonQueue'), PastTest', queueLength')
    BY DEF Overshoot, PastTest
  <2>0. /\ jsonQueue \in Seq(Doc) /\ queueLength \in Int
        /\ pc \in [Tasks -> Pcs] /\ Loop \in Tasks
        /\ QueueSize \in Nat \ {0} /\ Loop \notin Producers
        /\ Len(jsonQueue) \in Nat
    BY QueueAssumption DEF TypeOK, Tasks
  <2>b. queueLength >= QueueSize /\ exact =>
            Bound(Len(jsonQueue), PastTest, queueLength)
    BY DEF Overshoot, PastTest
  <2>c. /\ IsFiniteSet(PastTest) /\ Cardinality(PastTest) \in Nat
    BY <1>a
  <2> DEFINE Goal == Bound(Len(jsonQueue'), PastTest', queueLength')
             Still == /\ PastTest' = PastTest
                      /\ UNCHANGED <<queueLength, exact>>
             NotLonger == Len(jsonQueue') \in Nat /\ Len(jsonQueue') <= Len(jsonQueue)
  <2>d. ASSUME Still, NotLonger PROVE Goal
    <3>1. exact
      BY <2>d
    <3>2. queueLength' = queueLength
      BY <2>d
    <3>3. Bound(Len(jsonQueue), PastTest, queueLength)
      BY <3>1, <3>2, <2>b
    <3> QED BY <2>d, <3>2, <3>3, <2>c, <2>0, <1>0
  <2>e. UNCHANGED jsonQueue => NotLonger
    BY <2>0
  <2> SUFFICES Goal
    OBVIOUS
  <2> HIDE DEF Goal, Still, NotLonger
  <2>1. ASSUME NEW t \in Tasks, EnqueueEmpty(t) \/ EnqueueBlocked(t) PROVE Goal
    <3>1. Still /\ UNCHANGED jsonQueue
      BY <2>1 DEF EnqueueEmpty, EnqueueBlocked, Still, PastTest
    <3> QED BY <3>1, <2>d, <2>e
  <2>2. ASSUME NEW t \in Tasks, NEW kind \in Kinds, EnqueueAdmit(t, kind)
        PROVE  FALSE
    BY <2>2, <2>0 DEF EnqueueAdmit
  <2>3. ASSUME NEW t \in Tasks, EnqueueTake(t) \/ EnqueueGive(t) PROVE Goal
    <3>1. PastTest' = PastTest
      BY <2>3, <2>0 DEF EnqueueTake, EnqueueGive, Goto, PastTest, Enqueuing
    <3>2. Still /\ UNCHANGED jsonQueue
      BY <2>3, <3>1 DEF EnqueueTake, EnqueueGive, Still
    <3> QED BY <3>2, <2>d, <2>e
  <2>4. ASSUME NEW t \in Tasks, EnqueueTimeout(t) \/ EnqueuePush(t) PROVE Goal
    <3>1. t \in PastTest /\ PastTest' = PastTest \ {t}
      BY <2>4, <2>0 DEF EnqueueTimeout, EnqueuePush, Goto, PastTest, Enqueuing
    <3>2. Cardinality(PastTest') = Cardinality(PastTest) - 1
      BY <3>1, <2>c, FS_RemoveElement
    <3>3. Len(jsonQueue') \in Nat /\ Len(jsonQueue') <= Len(jsonQueue) + 1
      <4>1. CASE EnqueueTimeout(t)
        BY <4>1, <2>0 DEF EnqueueTimeout
      <4>2. CASE EnqueuePush(t)
        <5>1. arg[t] \in Doc
          BY <4>2, <2>0 DEF EnqueuePush, Goto, TypeOK, Enqueuing
        <5> QED BY <4>2, <5>1, <2>0 DEF EnqueuePush
      <4> QED BY <2>4, <4>1, <4>2
    <3>4. queueLength' = queueLength /\ UNCHANGED exact
      BY <2>4 DEF EnqueueTimeout, EnqueuePush
    <3>5. exact
      BY <3>4
    <3>6. Bound(Len(jsonQueue), PastTest, queueLength)
      BY <3>4, <3>5, <2>b
    <3> QED BY <3>2, <3>3, <3>4, <3>6, <2>c, <2>0, <1>0 DEF Goal
  <2>5. CASE DrainSize
    <3>1. /\ UNCHANGED jsonQueue /\ pc[Loop] = "idle" /\ queueLength' \in Int
          /\ pc'[Loop] \notin Enqueuing
      BY <2>5, <2>0 DEF DrainSize, Goto, Enqueuing, TypeOK
    <3>2. queueLength' = Len(jsonQueue)
      BY <2>5 DEF DrainSize
    <3>3. PastTest' \subseteq Producers
      BY <3>1 DEF PastTest, Tasks
    <3>4. /\ Cardinality(PastTest') <= Cardinality(Producers)
          /\ Cardinality(PastTest') \in Nat
      BY <3>3, FS_Subset, FS_CardinalityType
    <3> QED BY <3>1, <3>2, <3>4, <2>0, <1>0 DEF Goal
  <2>6. CASE DrainTake \/ DrainTimeout \/ DrainGiveBad \/ DrainGive
    <3>1. PastTest' = PastTest
      BY <2>6, <2>0
         DEF DrainTake, DrainTimeout, DrainGiveBad, DrainGive, Goto, PastTest, Enqueuing
    <3>2. Still /\ UNCHANGED jsonQueue
      BY <2>6, <3>1 DEF DrainTake, DrainTimeout, DrainGiveBad, DrainGive, Still
    <3> QED BY <3>2, <2>d, <2>e
  <2>12. CASE DrainPop
    <3>1. PastTest' = PastTest
      BY <2>12, <2>0 DEF DrainPop, Goto, PastTest, Enqueuing
    <3>2. Still
      BY <2>12, <3>1 DEF DrainPop, Still
    <3>3. NotLonger
      BY <2>12, <2>0, HeadTailDoc DEF DrainPop, NotLonger
    <3> QED BY <3>2, <3>3, <2>d
  <2>13. ASSUME NEW ok \in BOOLEAN, DispatchFiltered \/ DispatchBegin \/ DispatchEnd(ok)
         PROVE  Goal
    <3>1. PastTest' = PastTest
      BY <2>13, <2>0
         DEF DispatchFiltered, DispatchBegin, DispatchEnd, Goto, PastTest, Enqueuing
    <3>2. Still /\ UNCHANGED jsonQueue
      BY <2>13, <3>1 DEF DispatchFiltered, DispatchBegin, DispatchEnd, Still
    <3> QED BY <3>2, <2>d, <2>e
  <2>7. CASE Callbacks
    <3>1. Still /\ UNCHANGED jsonQueue
      BY <2>7 DEF Callbacks, ConnectionCallback, Still, PastTest
    <3> QED BY <3>1, <2>d, <2>e
  <2>8. ASSUME NEW t \in Restarters, RestartBegin(t) PROVE Goal
    <3>1. PastTest' = PastTest
      BY <2>8, <2>0, QueueAssumption DEF RestartBegin, Goto, PastTest, Enqueuing
    <3>2. Still /\ UNCHANGED jsonQueue
      BY <2>8, <3>1 DEF RestartBegin, Still
    <3> QED BY <3>2, <2>d, <2>e
  <2>9. ASSUME NEW t \in Restarters, RestartPop(t) PROVE Goal
    <3>1. Still
      BY <2>9 DEF RestartPop, Still, PastTest
    <3>2. NotLonger
      BY <2>9, <2>0, HeadTailDoc DEF RestartPop, NotLonger
    <3> QED BY <3>1, <3>2, <2>d
  <2>10. ASSUME NEW t \in Restarters, Reboot(t) PROVE FALSE
    BY <2>10, <2>0 DEF Reboot
  <2>11. CASE UNCHANGED vars
    <3>1. Still /\ UNCHANGED jsonQueue
      BY <2>11 DEF vars, Still, PastTest
    <3> QED BY <3>1, <2>d, <2>e
  <2> QED
    BY <2>1, <2>2, <2>3, <2>4, <2>5, <2>6, <2>7, <2>8, <2>9, <2>10, <2>11,
       <2>12, <2>13 DEF Next, Drain
<1> QED BY <1>1, <1>2, TypeCorrect, PTL DEF Spec
=============================================================================
