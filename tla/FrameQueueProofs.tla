-------------------------- MODULE FrameQueueProofs --------------------------
(***************************************************************************)
(* FrameQueue for every capacity, set of frames and set of closing         *)
(* threads.                                                                *)
(***************************************************************************)
EXTENDS FrameQueue, SequenceTheorems, TLAPS

USE DEF NoSlot

-----------------------------------------------------------------------------
(* The ring's index arithmetic                                             *)

LEMMA CapacityPositive ==
    /\ Capacity \in Nat
    /\ Capacity > 0
    /\ SlotCount = Capacity + 1
    /\ SlotCount \in Nat
BY QueueAssumption DEF QueueAssumption, Capacity, SlotCount

LEMMA AdvanceIndexWraps ==
    ASSUME NEW i \in Slots
    PROVE  /\ AdvanceIndex(i) = IF i = Capacity THEN 0 ELSE i + 1
           /\ AdvanceIndex(i) \in Slots
<1>1. i \in Nat /\ i <= Capacity
  BY CapacityPositive DEF Slots
<1>2. CASE i = Capacity
  BY <1>1, <1>2, CapacityPositive DEF AdvanceIndex, Slots
<1>3. CASE i < Capacity
  <2>1. i + 1 \in Nat /\ i + 1 < SlotCount
    BY <1>1, <1>3, CapacityPositive
  <2>2. (i + 1) % SlotCount = i + 1
    BY <2>1, CapacityPositive
  <2> QED
    BY <2>1, <2>2, <1>1, <1>3, CapacityPositive DEF AdvanceIndex, Slots
<1> QED
  BY <1>1, <1>2, <1>3, CapacityPositive

\* The places 0 .. Capacity behind the head are distinct slots.
LEMMA SlotAtDistinct ==
    ASSUME head \in Slots
    PROVE  /\ \A k \in 0 .. Capacity : SlotAt(k) \in Slots
           /\ \A k, l \in 0 .. Capacity : SlotAt(k) = SlotAt(l) => k = l
           /\ SlotAt(0) = head
BY CapacityPositive DEF SlotAt, Slots

-----------------------------------------------------------------------------
(* The inductive invariant                                                 *)

\* A Put in progress carries a frame that fits; no span is alive during a Get.
CallInv ==
    /\ producer \in {"enter", "wait"} =>
           putFrame \in Frame \ Oversize /\ Len(accepted) < MaxPuts
    /\ consumer \in {"enter", "wait", "expired", "nothing", "ended"} =>
           held = NoSlot
    /\ \A i \in 1 .. Len(accepted) : accepted[i] \in Frame \ Oversize

RingInv == TypeOK /\ CallInv /\ RingConsistent /\ HeldIntact /\ Fifo

\* Only GetFor times out; nullopt from Get was decided under the lock, and a
\* closed and empty queue stays as it is.
EndInv ==
    /\ consumer = "expired" => timed
    /\ consumer \in {"nothing", "ended"} /\ ~timed => closed /\ load = 0

LEMMA RingInvInit == Init => RingInv
<1> SUFFICES ASSUME Init PROVE RingInv
  OBVIOUS
<1> USE CapacityPositive, QueueAssumption DEF QueueAssumption
<1>1. TypeOK
  BY DEF Init, TypeOK, Slots
<1>2. CallInv /\ RingConsistent /\ HeldIntact /\ Fifo
  BY DEF Init, CallInv, RingConsistent, HeldIntact, Fifo, SlotAt, Slots
<1> QED
  BY <1>1, <1>2 DEF RingInv

\* Storing a frame: the tail slot is neither queued nor handed out.
LEMMA StoreKeepsRing ==
    ASSUME RingInv, PutStore
    PROVE  RingInv'
<1> USE CapacityPositive
<1> DEFINE K == SlotAt(load)
<1>0. /\ head \in Slots /\ tail \in Slots /\ load \in 0 .. Capacity
      /\ load < Capacity /\ tail = K
      /\ putFrame \in Frame \ Oversize
      /\ accepted \in Seq(Frame) /\ delivered \in Seq(Frame)
      /\ slots \in [Slots -> Frame \cup {NoFrame}]
  BY DEF RingInv, TypeOK, RingConsistent, CallInv, PutStore
<1>1. \A k \in 0 .. Capacity : SlotAt(k) \in Slots
  BY <1>0, SlotAtDistinct
<1>2. \A k \in 0 .. Capacity : k # load => SlotAt(k) # tail
  BY <1>0, SlotAtDistinct
<1>3. /\ slots' = [slots EXCEPT ![tail] = putFrame]
      /\ tail' = AdvanceIndex(tail) /\ load' = load + 1
      /\ accepted' = Append(accepted, putFrame)
      /\ putFrame' = NoFrame /\ producer' = "notify"
      /\ UNCHANGED <<head, closed, consumer, timed, held, closer, delivered>>
  BY DEF PutStore, StoreFrame
<1>4. TypeOK'
  BY <1>0, <1>3, AdvanceIndexWraps DEF RingInv, TypeOK
<1>5. /\ Len(accepted') = Len(accepted) + 1
      /\ accepted'[Len(accepted) + 1] = putFrame
      /\ \A i \in 1 .. Len(accepted) : accepted'[i] = accepted[i]
  BY <1>0, <1>3
<1>6. CallInv'
  <2>1. \A i \in 1 .. Len(accepted') : accepted'[i] \in Frame \ Oversize
    BY <1>0, <1>5 DEF RingInv, CallInv
  <2> QED
    BY <2>1, <1>3 DEF RingInv, CallInv
<1>7. \A k \in Int : SlotAt(k)' = SlotAt(k)
  BY <1>3 DEF SlotAt
<1>8. RingConsistent'
  <2>1. tail' = SlotAt(load + 1)
    BY <1>0, <1>3, AdvanceIndexWraps DEF SlotAt, Slots
  <2> QED
    BY <2>1, <1>0, <1>3 DEF RingInv, RingConsistent, SlotAt
<1>9. HeldIntact'
  <2>1. held # NoSlot => held # tail /\ held \in Slots
    BY <1>0, <1>1, <1>2 DEF RingInv, RingConsistent
  <2> QED
    BY <2>1, <1>0, <1>3 DEF RingInv, HeldIntact
<1>10. Fifo'
  <2>1. Len(accepted') = Len(delivered') + load'
    BY <1>0, <1>3, <1>5 DEF RingInv, Fifo
  <2>2. \A i \in 1 .. Len(delivered') : delivered'[i] = accepted'[i]
    BY <1>0, <1>3, <1>5 DEF RingInv, Fifo
  <2>3. ASSUME NEW k \in 1 .. load'
        PROVE  Queued'[k] = accepted'[Len(delivered') + k]
    <3>1. Queued'[k] = slots'[SlotAt(k - 1)]
      BY <1>3 DEF Queued, SlotAt
    <3>2. CASE k = load + 1
      BY <3>1, <3>2, <1>0, <1>3, <1>5 DEF RingInv, Fifo
    <3>3. CASE k \in 1 .. load
      <4>1. SlotAt(k - 1) # tail /\ SlotAt(k - 1) \in Slots
        BY <3>3, <1>0, <1>1, <1>2
      <4>2. slots'[SlotAt(k - 1)] = slots[SlotAt(k - 1)]
        BY <4>1, <1>0, <1>3
      <4>3. Queued[k] = slots[SlotAt(k - 1)]
        BY <3>3 DEF Queued
      <4>4. Queued[k] = accepted[Len(delivered) + k]
        BY <3>3 DEF RingInv, Fifo
      <4>5. Len(delivered) + k \in 1 .. Len(accepted)
        BY <3>3, <1>0 DEF RingInv, Fifo
      <4> QED
        BY <3>1, <4>2, <4>3, <4>4, <4>5, <1>3, <1>5
    <3>4. k = load + 1 \/ k \in 1 .. load
      <4>1. load' = load + 1
        BY <1>3
      <4> QED
        BY <4>1, <1>0
    <3> QED
      BY <3>2, <3>3, <3>4
  <2> QED
    BY <2>1, <2>2, <2>3 DEF Fifo
<1> QED
  BY <1>4, <1>6, <1>8, <1>9, <1>10 DEF RingInv

\* Handing out the head slot: it becomes the spare one.
LEMMA TakeKeepsRing ==
    ASSUME RingInv, TakeLocked
    PROVE  RingInv'
<1> USE CapacityPositive
<1>0. /\ head \in Slots /\ tail \in Slots /\ load \in 0 .. Capacity
      /\ load > 0 /\ tail = SlotAt(load)
      /\ accepted \in Seq(Frame) /\ delivered \in Seq(Frame)
      /\ slots \in [Slots -> Frame \cup {NoFrame}]
  BY DEF RingInv, TypeOK, RingConsistent, TakeLocked, HandOut
<1>1. \A k \in 0 .. Capacity : SlotAt(k) \in Slots
  BY <1>0, SlotAtDistinct
<1>2. /\ held' = head
      /\ delivered' = Append(delivered, slots[head])
      /\ head' = AdvanceIndex(head) /\ load' = load - 1
      /\ consumer' = "notify"
      /\ UNCHANGED <<tail, closed, slots, producer, putFrame, timed, closer,
                     accepted>>
  BY DEF TakeLocked, HandOut
<1>3. SlotAt(0) = head
  BY <1>0, SlotAtDistinct
<1>4. slots[head] = accepted[Len(delivered) + 1]
  <2>1. Queued[1] = slots[SlotAt(0)]
    BY <1>0 DEF Queued
  <2> QED
    BY <2>1, <1>0, <1>3 DEF RingInv, Fifo
<1>5. Len(delivered) + 1 \in 1 .. Len(accepted)
  BY <1>0 DEF RingInv, Fifo
<1>6. slots[head] \in Frame
  BY <1>0, <1>4, <1>5
<1>7. /\ delivered' \in Seq(Frame)
      /\ Len(delivered') = Len(delivered) + 1
      /\ delivered'[Len(delivered) + 1] = slots[head]
      /\ \A i \in 1 .. Len(delivered) : delivered'[i] = delivered[i]
  BY <1>0, <1>2, <1>6
<1>8. TypeOK'
  BY <1>0, <1>2, <1>7, AdvanceIndexWraps DEF RingInv, TypeOK
<1>9. CallInv'
  BY <1>2 DEF RingInv, CallInv
<1>a. head' = IF head = Capacity THEN 0 ELSE head + 1
  <2>1. head' = AdvanceIndex(head)
    BY <1>2
  <2> QED
    BY <2>1, <1>0, AdvanceIndexWraps
<1>b. head \in 0 .. Capacity
  BY <1>0 DEF Slots
<1>10. \A k \in 0 .. Capacity - 1 : SlotAt(k)' = SlotAt(k + 1)
  BY <1>a, <1>b DEF SlotAt
<1>11. SlotAt(Capacity)' = head
  BY <1>a, <1>b DEF SlotAt
<1>12. RingConsistent'
  <2>1. SlotAt(load)' = SlotAt(load)
    <3>1. load' = load - 1
      BY <1>2
    <3> QED
      BY <3>1, <1>0, <1>a, <1>b DEF SlotAt
  <2>2. tail' = SlotAt(load)'
    BY <2>1, <1>0, <1>2
  <2>3. held' = SlotAt(Capacity)'
    BY <1>2, <1>11
  <2> QED
    BY <2>2, <2>3 DEF RingConsistent
<1>13. HeldIntact'
  BY <1>0, <1>2, <1>7 DEF HeldIntact
<1>14. Fifo'
  <2>1. Len(accepted') = Len(delivered') + load'
    <3>1. Len(accepted) = Len(delivered) + load
      BY DEF RingInv, Fifo
    <3>2. load' = load - 1 /\ accepted' = accepted
      BY <1>2
    <3>3. load \in Int /\ Len(delivered) \in Nat
      BY <1>0
    <3>4. Len(delivered') = Len(delivered) + 1
      BY <1>7
    <3> QED
      BY <3>1, <3>2, <3>3, <3>4
  <2>2. ASSUME NEW i \in 1 .. Len(delivered')
        PROVE  delivered'[i] = accepted'[i]
    BY <1>0, <1>2, <1>4, <1>7 DEF RingInv, Fifo
  <2>3. ASSUME NEW k \in 1 .. load'
        PROVE  Queued'[k] = accepted'[Len(delivered') + k]
    <3>1. Queued'[k] = slots[SlotAt(k - 1)']
      BY <1>2 DEF Queued
    <3>2. SlotAt(k - 1)' = SlotAt(k)
      BY <1>0, <1>2, <1>10
    <3>3. k + 1 \in 1 .. load
      BY <1>0, <1>2
    <3>4. Queued[k + 1] = slots[SlotAt(k)]
      BY <3>3 DEF Queued
    <3>5. Queued[k + 1] = accepted[Len(delivered) + (k + 1)]
      BY <3>3 DEF RingInv, Fifo
    <3>6. accepted' = accepted /\ Len(delivered') = Len(delivered) + 1
      BY <1>2, <1>7
    <3>7. k \in Int /\ Len(delivered) \in Nat
      BY <1>0
    <3>8. Queued'[k] = accepted[Len(delivered) + (k + 1)]
      BY <3>1, <3>2, <3>4, <3>5
    <3>9. Len(delivered) + (k + 1) = Len(delivered') + k
      BY <3>6, <3>7
    <3> QED
      BY <3>6, <3>8, <3>9
  <2> QED
    BY <2>1, <2>2, <2>3 DEF Fifo
<1> QED
  BY <1>8, <1>9, <1>12, <1>13, <1>14 DEF RingInv

\* The steps that leave the ring alone.
LEMMA OthersKeepRing ==
    ASSUME RingInv, [Next]_vars, ~PutStore, ~TakeLocked
    PROVE  RingInv' /\ UNCHANGED <<head, tail, load, slots, accepted, delivered>>
<1> USE DEF RingInv
<1> DEFINE RingKept == /\ UNCHANGED <<head, tail, load, slots, accepted, delivered>>
                       /\ TypeOK'
                       /\ CallInv'
                       /\ held' \in {held, NoSlot}
<1>1. RingKept
  <2> USE DEF TypeOK, CallInv, buffer
  <2>1. ASSUME NEW f \in Frame, PutTooLarge(f) \/ PutCall(f) PROVE RingKept
    BY <2>1 DEF PutTooLarge, PutCall
  <2>2. CASE PutCaught \/ PutWait \/ PutRefused \/ PutSpuriousWakeup
    BY <2>2 DEF PutCaught, PutWait, PutRefused, PutSpuriousWakeup
  <2>3. CASE PutNotify
    BY <2>3 DEF PutNotify, NotifiedConsumer
  <2>4. ASSUME NEW isTimed \in BOOLEAN, GetCall(isTimed) PROVE RingKept
    BY <2>4 DEF GetCall
  <2>5. CASE GetWait \/ GetNothing \/ GetForTimeout \/ GetSpuriousWakeup
    BY <2>5 DEF GetWait, GetNothing, GetForTimeout, GetSpuriousWakeup
  <2>6. CASE GetNotify
    BY <2>6 DEF GetNotify, NotifiedProducer
  <2>7. CASE Conclude
    BY <2>7 DEF Conclude
  <2>8. ASSUME NEW c \in Closer, CloseSet(c) PROVE RingKept
    BY <2>8 DEF CloseSet
  <2>9. ASSUME NEW c \in Closer, CloseNotifyFull(c) PROVE RingKept
    BY <2>9 DEF CloseNotifyFull, NotifiedProducer
  <2>10. ASSUME NEW c \in Closer, CloseNotifyEmpty(c) PROVE RingKept
    BY <2>10 DEF CloseNotifyEmpty, NotifiedConsumer
  <2>11. CASE UNCHANGED vars
    BY <2>11 DEF vars
  <2> QED
    BY <2>1, <2>2, <2>3, <2>4, <2>5, <2>6, <2>7, <2>8, <2>9, <2>10, <2>11
       DEF Next, PutStep, GetStep, CloseStep
<1>2. RingConsistent' /\ HeldIntact' /\ Fifo'
  BY <1>1 DEF RingConsistent, HeldIntact, Fifo, Queued, SlotAt
<1> QED
  BY <1>1, <1>2

\* The whole ring invariant is inductive.
LEMMA RingInvStep == RingInv /\ [Next]_vars => RingInv'
BY StoreKeepsRing, TakeKeepsRing, OthersKeepRing

\* Types hold in every reachable state, for every capacity.
THEOREM TypeCorrect == Spec => []TypeOK
<1>1. RingInv => TypeOK
  BY DEF RingInv
<1> QED
  BY <1>1, RingInvInit, RingInvStep, PTL DEF Spec

\* FrameQueue.h:64: with its spare slot the ring never overwrites the frame
\* its consumer is reading, whatever the capacity.
THEOREM HeldFrameIntact == Spec => [](RingConsistent /\ HeldIntact)
<1>1. RingInv => RingConsistent /\ HeldIntact
  BY DEF RingInv
<1> QED
  BY <1>1, RingInvInit, RingInvStep, PTL DEF Spec

\* Frames come out of the queue in the order they went in, each exactly once.
THEOREM FirstInFirstOut == Spec => []Fifo
<1>1. RingInv => Fifo
  BY DEF RingInv
<1> QED
  BY <1>1, RingInvInit, RingInvStep, PTL DEF Spec

-----------------------------------------------------------------------------
(* Wakeups                                                                 *)

LEMMA NoLostWakeupStep ==
    ASSUME RingInv, NoLostWakeup, [Next]_vars
    PROVE  NoLostWakeup'
<1> USE CapacityPositive DEF RingInv, TypeOK, NoLostWakeup, CanPut, CanGet, buffer
<1>1. ASSUME NEW f \in Frame, PutTooLarge(f) \/ PutCall(f) PROVE NoLostWakeup'
  BY <1>1 DEF PutTooLarge, PutCall
<1>2. CASE PutCaught \/ PutWait \/ PutRefused \/ PutSpuriousWakeup
  BY <1>2 DEF PutCaught, PutWait, PutRefused, PutSpuriousWakeup
<1>3. CASE PutStore
  BY <1>3 DEF PutStore, StoreFrame
<1>4. CASE PutNotify
  BY <1>4 DEF PutNotify, NotifiedConsumer
<1>5. ASSUME NEW isTimed \in BOOLEAN, GetCall(isTimed) PROVE NoLostWakeup'
  BY <1>5 DEF GetCall
<1>6. CASE GetWait \/ GetNothing \/ GetForTimeout \/ GetSpuriousWakeup
  BY <1>6 DEF GetWait, GetNothing, GetForTimeout, GetSpuriousWakeup
<1>7. CASE TakeLocked
  BY <1>7 DEF TakeLocked, HandOut
<1>8. CASE GetNotify
  BY <1>8 DEF GetNotify, NotifiedProducer
<1>9. CASE Conclude
  BY <1>9 DEF Conclude
<1>10. ASSUME NEW c \in Closer, CloseSet(c) PROVE NoLostWakeup'
  BY <1>10 DEF CloseSet
<1>11. ASSUME NEW c \in Closer, CloseNotifyFull(c) PROVE NoLostWakeup'
  BY <1>11 DEF CloseNotifyFull, NotifiedProducer
<1>12. ASSUME NEW c \in Closer, CloseNotifyEmpty(c) PROVE NoLostWakeup'
  BY <1>12 DEF CloseNotifyEmpty, NotifiedConsumer
<1>13. CASE UNCHANGED vars
  BY <1>13 DEF vars
<1> QED
  BY <1>1, <1>2, <1>3, <1>4, <1>5, <1>6, <1>7, <1>8, <1>9, <1>10, <1>11,
     <1>12, <1>13 DEF Next, PutStep, GetStep, CloseStep

\* However the notify calls, made after unlocking, interleave with the waits,
\* nobody sleeps on a condition that came true with no wakeup on its way.
THEOREM WakeupsNotLost == Spec => []NoLostWakeup
<1>1. Init => NoLostWakeup
  BY DEF Init, NoLostWakeup
<1> QED
  BY <1>1, RingInvInit, RingInvStep, NoLostWakeupStep, PTL DEF Spec

-----------------------------------------------------------------------------
(* Closing, and the end of the stream                                      *)

LEMMA EndInvStep ==
    ASSUME RingInv, EndInv, [Next]_vars
    PROVE  EndInv'
<1> USE CapacityPositive DEF RingInv, TypeOK, EndInv, buffer
<1>1. ASSUME NEW f \in Frame, PutTooLarge(f) \/ PutCall(f) PROVE EndInv'
  BY <1>1 DEF PutTooLarge, PutCall
<1>2. CASE PutCaught \/ PutWait \/ PutRefused \/ PutSpuriousWakeup
  BY <1>2 DEF PutCaught, PutWait, PutRefused, PutSpuriousWakeup
<1>3. CASE PutStore
  BY <1>3 DEF PutStore, StoreFrame
<1>4. CASE PutNotify
  BY <1>4 DEF PutNotify, NotifiedConsumer
<1>5. ASSUME NEW isTimed \in BOOLEAN, GetCall(isTimed) PROVE EndInv'
  BY <1>5 DEF GetCall
<1>6. CASE GetWait \/ GetForTimeout \/ GetSpuriousWakeup
  BY <1>6 DEF GetWait, GetForTimeout, GetSpuriousWakeup
<1>7. CASE TakeLocked
  BY <1>7 DEF TakeLocked, HandOut
<1>8. CASE GetNotify
  BY <1>8 DEF GetNotify, NotifiedProducer
<1>9. CASE GetNothing
  BY <1>9 DEF GetNothing
<1>10. CASE Conclude
  BY <1>10 DEF Conclude
<1>11. ASSUME NEW c \in Closer, CloseSet(c) \/ CloseNotifyFull(c) PROVE EndInv'
  BY <1>11 DEF CloseSet, CloseNotifyFull, NotifiedProducer
<1>12. ASSUME NEW c \in Closer, CloseNotifyEmpty(c) PROVE EndInv'
  BY <1>12 DEF CloseNotifyEmpty, NotifiedConsumer
<1>13. CASE UNCHANGED vars
  BY <1>13 DEF vars
<1> QED
  BY <1>1, <1>2, <1>3, <1>4, <1>5, <1>6, <1>7, <1>8, <1>9, <1>10, <1>11,
     <1>12, <1>13 DEF Next, PutStep, GetStep, CloseStep

LEMMA EndInvInvariant == Spec => [](RingInv /\ EndInv)
<1>1. Init => EndInv
  BY DEF Init, EndInv
<1> QED
  BY <1>1, RingInvInit, RingInvStep, EndInvStep, PTL DEF Spec

\* FrameQueue.h:36: a consumer that calls Get gets every accepted frame before
\* it is told that the stream ended.
THEOREM GetDrains == Spec => []GetEndsDrained
<1>1. RingInv /\ EndInv => GetEndsDrained
  <2> SUFFICES ASSUME RingInv, EndInv, consumer = "ended", ~timed
               PROVE  closed /\ delivered = accepted
    BY DEF GetEndsDrained
  <2>1. closed /\ load = 0
    BY DEF EndInv
  <2>2. accepted \in Seq(Frame) /\ delivered \in Seq(Frame)
    BY DEF RingInv, TypeOK
  <2>3. Len(delivered) = Len(accepted)
    BY <2>1, <2>2 DEF RingInv, Fifo
  <2>4. \A i \in 1 .. Len(delivered) : delivered[i] = accepted[i]
    BY DEF RingInv, Fifo
  <2>5. delivered = accepted
    BY <2>2, <2>3, <2>4, SeqEqual
  <2> QED
    BY <2>1, <2>5
<1> QED
  BY <1>1, EndInvInvariant, PTL

\* No step reopens a closed queue or slips a frame into it: Close wins over
\* every Put that has not stored its frame yet.
THEOREM ClosingIsFinal == Spec => ClosedForGood
<1>1. RingInv /\ [Next]_vars => [closed => closed' /\ accepted' = accepted]_vars
  <2> SUFFICES ASSUME RingInv, [Next]_vars, closed
               PROVE  closed' /\ accepted' = accepted
    OBVIOUS
  <2>1. ~PutStore
    BY DEF PutStore
  <2>2. CASE TakeLocked
    BY <2>2 DEF TakeLocked, HandOut
  <2>3. CASE ~TakeLocked
    <3>1. accepted' = accepted
      BY <2>1, <2>3, OthersKeepRing
    <3>2. closed'
      <4>1. CASE UNCHANGED vars
        BY <4>1 DEF vars
      <4>2. CASE \E f \in Frame : PutTooLarge(f) \/ PutCall(f)
        BY <4>2 DEF PutTooLarge, PutCall, buffer
      <4>3. CASE PutStep \/ PutSpuriousWakeup
        BY <2>1, <4>3 DEF PutStep, PutCaught, PutWait, PutRefused, PutNotify,
                          PutSpuriousWakeup, buffer
      <4>4. CASE \E isTimed \in BOOLEAN : GetCall(isTimed)
        BY <4>4 DEF GetCall, buffer
      <4>5. CASE GetStep \/ GetForTimeout \/ GetSpuriousWakeup
        BY <2>3, <4>5 DEF GetStep, GetWait, GetNotify, GetNothing, Conclude,
                          GetForTimeout, GetSpuriousWakeup, buffer
      <4>6. CASE \E c \in Closer : CloseSet(c) \/ CloseStep(c)
        BY <4>6 DEF CloseSet, CloseStep, CloseNotifyFull, CloseNotifyEmpty, buffer
      <4> QED
        BY <4>1, <4>2, <4>3, <4>4, <4>5, <4>6 DEF Next
    <3> QED
      BY <3>1, <3>2
  <2> QED
    BY <2>2, <2>3
<1> QED
  BY <1>1, RingInvInit, RingInvStep, PTL DEF Spec, ClosedForGood

-----------------------------------------------------------------------------
(* The ring of slots implements the abstract channel                       *)

LEMMA QueuedSeq ==
    ASSUME RingInv
    PROVE  /\ Queued \in Seq(Frame \ Oversize)
           /\ Len(Queued) = load
           /\ Len(accepted) = Len(delivered) + Len(Queued)
<1>1. load \in Nat /\ accepted \in Seq(Frame) /\ delivered \in Seq(Frame)
  BY CapacityPositive DEF RingInv, TypeOK
<1>2. Len(accepted) = Len(delivered) + load
  BY DEF RingInv, Fifo
<1>3. ASSUME NEW k \in 1 .. load PROVE Queued[k] \in Frame \ Oversize
  <2>1. Queued[k] = accepted[Len(delivered) + k]
    BY DEF RingInv, Fifo
  <2>2. Len(delivered) + k \in 1 .. Len(accepted)
    BY <1>1, <1>2
  <2> QED
    BY <2>1, <2>2 DEF RingInv, CallInv
<1>4. Queued = [k \in 1 .. load |-> Queued[k]]
  BY DEF Queued
<1>5. Queued \in [1 .. load -> Frame \ Oversize]
  BY <1>3, <1>4
<1>6. Queued \in Seq(Frame \ Oversize) /\ Len(Queued) = load
  BY <1>1, <1>5
<1> QED
  BY <1>2, <1>6

\* A stored frame is appended to the channel.
LEMMA StoreIsSend ==
    ASSUME RingInv, PutStore
    PROVE  Channel!Send(putFrame) /\ putFrame \in Frame \ Oversize
<1>1. RingInv'
  BY StoreKeepsRing
<1>2. /\ Queued \in Seq(Frame \ Oversize) /\ Len(Queued) = load
      /\ Queued' \in Seq(Frame \ Oversize) /\ Len(Queued') = load'
  <2>1. RingInv' => (Queued \in Seq(Frame \ Oversize) /\ Len(Queued) = load)'
    BY QueuedSeq, PTL
  <2> QED
    BY <1>1, <2>1, QueuedSeq
<1>3. /\ ~closed /\ load < Capacity /\ load' = load + 1
      /\ accepted' = Append(accepted, putFrame)
      /\ UNCHANGED <<delivered, closed, consumer, timed>>
      /\ Len(accepted) < MaxPuts /\ putFrame \in Frame \ Oversize
  BY DEF PutStore, StoreFrame, RingInv, CallInv
<1>4. /\ load \in Nat /\ accepted \in Seq(Frame) /\ delivered \in Seq(Frame)
  BY CapacityPositive DEF RingInv, TypeOK
<1>5. Append(Queued, putFrame) \in Seq(Frame \ Oversize)
      /\ Len(Append(Queued, putFrame)) = load + 1
  BY <1>2, <1>3
<1>6. ASSUME NEW k \in 1 .. load + 1
      PROVE  Queued'[k] = Append(Queued, putFrame)[k]
  <2>1. Queued'[k] = accepted'[Len(delivered) + k]
    BY <1>1, <1>3 DEF RingInv, Fifo
  <2>2. Len(accepted) = Len(delivered) + load
    BY DEF RingInv, Fifo
  <2>3. CASE k = load + 1
    <3>1. Len(delivered) + k = Len(accepted) + 1
      BY <2>2, <2>3, <1>4
    <3>2. accepted'[Len(accepted) + 1] = putFrame
      BY <1>3, <1>4
    <3>3. Append(Queued, putFrame)[load + 1] = putFrame
      BY <1>2, <1>3
    <3> QED
      BY <2>1, <2>3, <3>1, <3>2, <3>3
  <2>4. CASE k \in 1 .. load
    <3>1. Queued[k] = accepted[Len(delivered) + k]
      BY <2>4 DEF RingInv, Fifo
    <3>2. Len(delivered) + k \in 1 .. Len(accepted)
      BY <2>2, <2>4, <1>4
    <3>3. accepted'[Len(delivered) + k] = accepted[Len(delivered) + k]
      BY <3>2, <1>3, <1>4
    <3>4. Append(Queued, putFrame)[k] = Queued[k]
      BY <2>4, <1>2
    <3> QED
      BY <2>1, <3>1, <3>3, <3>4
  <2>5. k = load + 1 \/ k \in 1 .. load
    BY <1>4
  <2> QED
    BY <2>3, <2>4, <2>5
<1>7. Queued' = Append(Queued, putFrame)
  BY <1>2, <1>3, <1>5, <1>6, SeqEqual
<1>8. Len(Queued) + Len(delivered) < MaxPuts
  BY <1>2, <1>3, <1>4 DEF RingInv, Fifo
<1> QED
  BY <1>2, <1>3, <1>7, <1>8 DEF Channel!Send

\* A taken frame is the head of the channel.
LEMMA TakeIsReceive ==
    ASSUME RingInv, TakeLocked
    PROVE  Channel!Receive
<1>1. RingInv'
  BY TakeKeepsRing
<1>2. /\ Queued \in Seq(Frame \ Oversize) /\ Len(Queued) = load
      /\ Queued' \in Seq(Frame \ Oversize) /\ Len(Queued') = load'
  <2>1. RingInv' => (Queued \in Seq(Frame \ Oversize) /\ Len(Queued) = load)'
    BY QueuedSeq, PTL
  <2> QED
    BY <1>1, <2>1, QueuedSeq
<1>3. /\ load > 0 /\ load' = load - 1
      /\ delivered' = Append(delivered, slots[head])
      /\ UNCHANGED <<accepted, closed, timed>>
      /\ consumer # "ended" /\ consumer' # "ended"
  BY DEF TakeLocked, HandOut
<1>4. /\ load \in Nat /\ accepted \in Seq(Frame) /\ delivered \in Seq(Frame)
      /\ head \in Slots
  BY CapacityPositive DEF RingInv, TypeOK
<1>5. Queued # <<>> /\ Head(Queued) = slots[head]
  <2>1. Queued[1] = slots[SlotAt(0)]
    BY <1>3, <1>4 DEF Queued
  <2>2. SlotAt(0) = head
    BY <1>4, SlotAtDistinct
  <2> QED
    BY <2>1, <2>2, <1>2, <1>3, <1>4
<1>6. Tail(Queued) \in Seq(Frame \ Oversize) /\ Len(Tail(Queued)) = load - 1
  BY <1>2, <1>3, <1>4
<1>7. ASSUME NEW k \in 1 .. load - 1
      PROVE  Queued'[k] = Tail(Queued)[k]
  <2>1. Queued'[k] = accepted'[Len(delivered') + k]
    BY <1>1, <1>3 DEF RingInv, Fifo
  <2>2. Len(delivered') + k = Len(delivered) + (k + 1)
    BY <1>3, <1>4
  <2>3. Queued[k + 1] = accepted[Len(delivered) + (k + 1)]
    BY <1>4 DEF RingInv, Fifo
  <2>4. Tail(Queued)[k] = Queued[k + 1]
    BY <1>2, <1>4
  <2> QED
    BY <2>1, <2>2, <2>3, <2>4, <1>3
<1>8. Queued' = Tail(Queued)
  BY <1>2, <1>3, <1>6, <1>7, SeqEqual
<1> QED
  BY <1>3, <1>5, <1>8 DEF Channel!Receive

LEMMA ChannelStep ==
    ASSUME RingInv, EndInv, [Next]_vars
    PROVE  [Channel!Next]_(Channel!channelVars)
<1>1. CASE PutStore
  BY <1>1, StoreIsSend DEF Channel!Next
<1>2. CASE TakeLocked
  BY <1>2, TakeIsReceive DEF Channel!Next
<1>3. CASE ~PutStore /\ ~TakeLocked
  <2>1. Queued' = Queued /\ delivered' = delivered
    BY <1>3, OthersKeepRing DEF Queued, SlotAt
  <2> DEFINE Ended == consumer = "ended" /\ ~timed
  <2> USE DEF buffer
  <2>2. ASSUME closed' = closed, Ended' = Ended
        PROVE  UNCHANGED Channel!channelVars
    BY <2>1, <2>2 DEF Channel!channelVars
  <2>3. CASE UNCHANGED vars
    BY <2>2, <2>3 DEF vars
  <2>4. CASE \E f \in Frame : PutTooLarge(f) \/ PutCall(f)
    BY <2>2, <2>4 DEF PutTooLarge, PutCall
  <2>5. CASE PutStep \/ PutSpuriousWakeup
    BY <1>3, <2>2, <2>5 DEF PutStep, PutCaught, PutWait, PutRefused, PutNotify,
                            PutSpuriousWakeup, NotifiedConsumer
  <2>6. CASE \E isTimed \in BOOLEAN : GetCall(isTimed)
    BY <2>2, <2>6 DEF GetCall
  <2>7. CASE GetWait \/ GetNotify \/ GetNothing \/ GetForTimeout \/ GetSpuriousWakeup
    BY <2>2, <2>7 DEF GetWait, GetNotify, GetNothing, GetForTimeout,
                      GetSpuriousWakeup
  <2>8. CASE Conclude
    <3>1. CASE timed
      BY <2>2, <2>8, <3>1 DEF Conclude
    <3>2. CASE ~timed
      <4>1. closed /\ load = 0 /\ closed' = closed /\ Ended'
        BY <2>8, <3>2 DEF EndInv, Conclude
      <4>2. Queued = <<>>
        BY <4>1, QueuedSeq
      <4>3. Channel!End
        BY <2>1, <4>1, <4>2 DEF Channel!End
      <4> QED
        BY <4>3 DEF Channel!Next
    <3> QED
      BY <3>1, <3>2
  <2>9. CASE \E c \in Closer : CloseSet(c)
    <3>1. Channel!Close
      BY <2>1, <2>9 DEF CloseSet, Channel!Close
    <3> QED
      BY <3>1 DEF Channel!Next
  <2>10. CASE \E c \in Closer : CloseStep(c)
    BY <2>2, <2>10 DEF CloseStep, CloseNotifyFull, CloseNotifyEmpty,
                       NotifiedConsumer
  <2> QED
    BY <1>3, <2>3, <2>4, <2>5, <2>6, <2>7, <2>8, <2>9, <2>10
       DEF Next, GetStep
<1> QED
  BY <1>1, <1>2, <1>3

\* The queue, for every capacity and any number of closers, is the bounded
\* closable channel its two users are written against.
THEOREM QueueImplementsChannel == Spec => ImplementsChannel
<1>1. Init => Channel!Init
  <2> SUFFICES ASSUME Init PROVE Channel!Init
    OBVIOUS
  <2>1. Queued = <<>>
    BY RingInvInit, QueuedSeq DEF Init
  <2> QED
    BY <2>1 DEF Init, Channel!Init
<1> QED
  BY <1>1, EndInvInvariant, ChannelStep, PTL
     DEF Spec, ImplementsChannel, Channel!Spec
=============================================================================
