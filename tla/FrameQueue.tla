----------------------------- MODULE FrameQueue -----------------------------
(***************************************************************************)
(* core/FrameQueue: the bounded blocking queue between the thread that     *)
(* receives DV frames (the producer) and the capture or record thread (the *)
(* consumer), with any number of threads that close it.                    *)
(*                                                                         *)
(* Each critical section of m_mutex is one step; what happens outside it   *)
(* (the notify calls, the consumer's use of the frame it was handed, the   *)
(* unlocked IsClosed) are steps of their own.  A thread in "wait" sleeps   *)
(* on its condition variable; "enter" is a thread about to take the lock   *)
(* and test the wait predicate, for the first time or after a wakeup.      *)
(***************************************************************************)
EXTENDS Integers, Sequences

CONSTANTS
    RequestedCapacity,  \* the constructor's capacity argument
    Frame,              \* the frames the source delivers
    Oversize,           \* those of them that are larger than a slot
    NoFrame,            \* content of a slot nothing was copied to yet
    Closer,             \* threads that call Close
    MaxPuts             \* bound: frames accepted in one behaviour

ASSUME QueueAssumption ==
    /\ RequestedCapacity \in Nat
    /\ Oversize \subseteq Frame
    /\ NoFrame \notin Frame
    /\ MaxPuts \in Nat

Capacity == IF RequestedCapacity > 1 THEN RequestedCapacity ELSE 1

\* Faulty: no spare slot.
SlotCountNoSpare == Capacity

\* One slot more than the capacity, for the frame the consumer still reads.
SlotCount == Capacity + 1
Slots == 0 .. SlotCount - 1
NoSlot == SlotCount

VARIABLES
    head, tail, load, closed,   \* m_head, m_tail, m_load, m_closed
    slots,      \* m_storage and m_slots: what each slot holds
    producer,   \* where the producer thread stands in Put
    putFrame,   \* the frame Put was called with
    consumer,   \* where the consumer thread stands in Get or GetFor
    timed,      \* its call is GetFor
    held,       \* the slot behind the span the last Get returned, or NoSlot
    closer,     \* where each closing thread stands in Close
    accepted,   \* history: frames Put accepted
    delivered   \* history: frames Get returned

buffer == <<head, tail, load, closed, slots>>
vars == <<head, tail, load, closed, slots, producer, putFrame, consumer,
          timed, held, closer, accepted, delivered>>

Init ==
    /\ head = 0
    /\ tail = 0
    /\ load = 0
    /\ closed = FALSE
    /\ slots = [i \in Slots |-> NoFrame]
    /\ producer = "ready"
    /\ putFrame = NoFrame
    /\ consumer = "ready"
    /\ timed = FALSE
    /\ held = NoSlot
    /\ closer = [c \in Closer |-> "ready"]
    /\ accepted = <<>>
    /\ delivered = <<>>

\* Faulty: the index does not wrap around.
AdvanceIndexNoWrap(i) == i + 1

AdvanceIndex(i) == (i + 1) % SlotCount

CanPut == closed \/ load < Capacity
CanGet == closed \/ load > 0

\* notify_one and notify_all: each condition variable has one possible waiter.
NotifiedProducer == IF producer = "wait" THEN "enter" ELSE producer
NotifiedConsumer == IF consumer = "wait" THEN "enter" ELSE consumer

\* The frame is copied into the tail slot, under the lock.
StoreFrame ==
    /\ slots' = [slots EXCEPT ![tail] = putFrame]
    /\ tail' = AdvanceIndex(tail)
    /\ load' = load + 1
    /\ accepted' = Append(accepted, putFrame)
    /\ putFrame' = NoFrame
    /\ producer' = "notify"
    /\ UNCHANGED <<head, closed, consumer, timed, held, closer, delivered>>

\* A slot's frame is handed out as a span into the slot, under the lock.
HandOut(slot) ==
    /\ consumer \in {"enter", "expired"}
    /\ load > 0
    /\ held' = slot
    /\ delivered' = Append(delivered, slots[slot])
    /\ head' = AdvanceIndex(head)
    /\ load' = load - 1
    /\ consumer' = "notify"
    /\ UNCHANGED <<tail, closed, slots, producer, putFrame, timed, closer,
                   accepted>>

-----------------------------------------------------------------------------
(* Faulty variants of the steps below, which the properties must tell from *)
(* the real ones                                                           *)

\* Put does not test the load again after a wakeup.
PutStoreUntested == producer = "enter" /\ ~closed /\ StoreFrame

\* Get does not notify the producer.
GetNotifyNobody ==
    /\ consumer = "notify"
    /\ consumer' = "ready"
    /\ UNCHANGED <<buffer, producer, putFrame, timed, held, closer,
                   accepted, delivered>>

-----------------------------------------------------------------------------
(* Put, on the producer thread                                             *)

\* A frame larger than a slot throws std::length_error before taking the lock.
PutTooLarge(f) ==
    /\ producer = "ready"
    /\ f \in Oversize
    /\ producer' = "threw"
    /\ UNCHANGED <<buffer, putFrame, consumer, timed, held, closer,
                   accepted, delivered>>

\* Its caller catches the exception; the queue is as it was.
PutCaught ==
    /\ producer = "threw"
    /\ producer' = "ready"
    /\ UNCHANGED <<buffer, putFrame, consumer, timed, held, closer,
                   accepted, delivered>>

PutCall(f) ==
    /\ producer = "ready"
    /\ f \notin Oversize
    /\ Len(accepted) < MaxPuts
    /\ producer' = "enter"
    /\ putFrame' = f
    /\ UNCHANGED <<buffer, consumer, timed, held, closer, accepted, delivered>>

PutWait ==
    /\ producer = "enter"
    /\ ~CanPut
    /\ producer' = "wait"
    /\ UNCHANGED <<buffer, putFrame, consumer, timed, held, closer,
                   accepted, delivered>>

\* The queue was closed: the frame is dropped and Put returns false.
PutRefused ==
    /\ producer = "enter"
    /\ closed
    /\ producer' = "ready"
    /\ putFrame' = NoFrame
    /\ UNCHANGED <<buffer, consumer, timed, held, closer, accepted, delivered>>

PutStore ==
    /\ producer = "enter"
    /\ ~closed
    /\ load < Capacity
    /\ StoreFrame

PutNotify ==
    /\ producer = "notify"
    /\ producer' = "ready"
    /\ consumer' = NotifiedConsumer
    /\ UNCHANGED <<buffer, putFrame, timed, held, closer, accepted, delivered>>

\* A condition variable may wake its waiter for no reason.
PutSpuriousWakeup ==
    /\ producer = "wait"
    /\ producer' = "enter"
    /\ UNCHANGED <<buffer, putFrame, consumer, timed, held, closer,
                   accepted, delivered>>

-----------------------------------------------------------------------------
(* Get and GetFor, on the consumer thread                                  *)

\* The next call ends the validity of the frame the last one returned.
GetCall(isTimed) ==
    /\ consumer = "ready"
    /\ consumer' = "enter"
    /\ timed' = isTimed
    /\ held' = NoSlot
    /\ UNCHANGED <<buffer, producer, putFrame, closer, accepted, delivered>>

GetWait ==
    /\ consumer = "enter"
    /\ ~CanGet
    /\ consumer' = "wait"
    /\ UNCHANGED <<buffer, producer, putFrame, timed, held, closer,
                   accepted, delivered>>

\* TakeLocked: the frame stays in its slot and is handed out as a span.
TakeLocked == HandOut(head)

GetNotify ==
    /\ consumer = "notify"
    /\ consumer' = "ready"
    /\ producer' = NotifiedProducer
    /\ UNCHANGED <<buffer, putFrame, timed, held, closer, accepted, delivered>>

\* Nothing to take: because the queue is closed, or because GetFor timed out.
GetNothing ==
    /\ \/ consumer = "enter" /\ closed
       \/ consumer = "expired"
    /\ load = 0
    /\ consumer' = "nothing"
    /\ UNCHANGED <<buffer, producer, putFrame, timed, held, closer,
                   accepted, delivered>>

GetForTimeout ==
    /\ consumer = "wait"
    /\ timed
    /\ consumer' = "expired"
    /\ UNCHANGED <<buffer, producer, putFrame, timed, held, closer,
                   accepted, delivered>>

GetSpuriousWakeup ==
    /\ consumer = "wait"
    /\ consumer' = "enter"
    /\ UNCHANGED <<buffer, producer, putFrame, timed, held, closer,
                   accepted, delivered>>

\* nullopt from Get means the end; after nullopt from GetFor the user reads
\* IsClosed, without the lock, to tell the end from a timeout.
Conclude ==
    /\ consumer = "nothing"
    /\ consumer' = IF timed /\ ~closed THEN "ready" ELSE "ended"
    /\ UNCHANGED <<buffer, producer, putFrame, timed, held, closer,
                   accepted, delivered>>

-----------------------------------------------------------------------------
(* Close, on any thread                                                    *)

CloseSet(c) ==
    /\ closer[c] = "ready"
    /\ closed' = TRUE
    /\ closer' = [closer EXCEPT ![c] = "notifyFull"]
    /\ UNCHANGED <<head, tail, load, slots, producer, putFrame, consumer,
                   timed, held, accepted, delivered>>

CloseNotifyFull(c) ==
    /\ closer[c] = "notifyFull"
    /\ closer' = [closer EXCEPT ![c] = "notifyEmpty"]
    /\ producer' = NotifiedProducer
    /\ UNCHANGED <<buffer, putFrame, consumer, timed, held, accepted,
                   delivered>>

CloseNotifyEmpty(c) ==
    /\ closer[c] = "notifyEmpty"
    /\ closer' = [closer EXCEPT ![c] = "done"]
    /\ consumer' = NotifiedConsumer
    /\ UNCHANGED <<buffer, producer, putFrame, timed, held, accepted,
                   delivered>>

-----------------------------------------------------------------------------

PutStep == PutCaught \/ PutWait \/ PutRefused \/ PutStore \/ PutNotify
GetStep == GetWait \/ TakeLocked \/ GetNotify \/ GetNothing \/ Conclude
CloseStep(c) == CloseNotifyFull(c) \/ CloseNotifyEmpty(c)

Next ==
    \/ \E f \in Frame : PutTooLarge(f) \/ PutCall(f)
    \/ PutStep
    \/ PutSpuriousWakeup
    \/ \E isTimed \in BOOLEAN : GetCall(isTimed)
    \/ GetStep
    \/ GetForTimeout
    \/ GetSpuriousWakeup
    \/ \E c \in Closer : CloseSet(c) \/ CloseStep(c)

Spec == Init /\ [][Next]_vars

(***************************************************************************)
(* A call that has begun goes on: a runnable thread is scheduled, takes    *)
(* the free mutex, and wait_for does time out.  Nobody promises that Put,  *)
(* Get or Close is called (again), nor a spurious wakeup.                  *)
(***************************************************************************)
FairSpec ==
    /\ Spec
    /\ WF_vars(PutStep)
    /\ WF_vars(GetStep)
    /\ WF_vars(GetForTimeout)
    /\ \A c \in Closer : WF_vars(CloseStep(c))

-----------------------------------------------------------------------------
(* Properties                                                              *)

\* Every variable keeps to the values its C++ counterpart can have.
TypeOK ==
    /\ head \in Slots /\ tail \in Slots
    /\ load \in 0 .. Capacity
    /\ closed \in BOOLEAN
    /\ slots \in [Slots -> Frame \cup {NoFrame}]
    /\ producer \in {"ready", "threw", "enter", "wait", "notify"}
    /\ putFrame \in Frame \cup {NoFrame}
    /\ consumer \in {"ready", "enter", "wait", "expired", "notify",
                     "nothing", "ended"}
    /\ timed \in BOOLEAN
    /\ held \in Slots \cup {NoSlot}
    /\ closer \in [Closer -> {"ready", "notifyFull", "notifyEmpty", "done"}]
    /\ accepted \in Seq(Frame) /\ delivered \in Seq(Frame)

\* The slot k places behind the head of the ring.
SlotAt(k) == IF head + k < SlotCount THEN head + k ELSE head + k - SlotCount

\* The frames in the ring, oldest first.
Queued == [k \in 1 .. load |-> slots[SlotAt(k - 1)]]

\* The ring's indices agree with its load, and the slot of the frame that was
\* handed out last is the spare one, outside the queued part (FrameQueue.h:64).
RingConsistent ==
    /\ tail = SlotAt(load)
    /\ held # NoSlot => held = SlotAt(Capacity)

\* Data handed out by Get stays intact until the next Get (FrameQueue.h:38),
\* although the producer keeps copying frames into other slots meanwhile.
HeldIntact ==
    held # NoSlot => /\ delivered # <<>>
                     /\ slots[held] = delivered[Len(delivered)]

\* No accepted frame is lost, duplicated or reordered: what was handed out,
\* followed by what is queued, is exactly what was accepted.
Fifo ==
    /\ Len(accepted) = Len(delivered) + load
    /\ \A i \in 1 .. Len(delivered) : delivered[i] = accepted[i]
    /\ \A k \in 1 .. load : Queued[k] = accepted[Len(delivered) + k]

\* A thread asleep on a condition variable whose predicate came true has a
\* notify on its way: notifying after unlocking loses no wakeup.
NoLostWakeup ==
    /\ producer = "wait" /\ CanPut =>
           \/ consumer = "notify"
           \/ \E c \in Closer : closer[c] = "notifyFull"
    /\ consumer = "wait" /\ CanGet =>
           \/ producer = "notify"
           \/ \E c \in Closer : closer[c] \in {"notifyFull", "notifyEmpty"}

\* nullopt from Get, unlike nullopt from GetFor, is the end of the stream: the
\* queue is closed and every frame accepted before was drained
\* (FrameQueue.h:36).
GetEndsDrained ==
    consumer = "ended" /\ ~timed => closed /\ delivered = accepted

\* Once closed, a queue never accepts a frame again and never reopens, even
\* from a Put that was already blocked when it was closed.
ClosedForGood == [][closed => closed' /\ accepted' = accepted]_vars

\* A producer asleep on a full queue resumes once the consumer took a frame,
\* and a consumer asleep on an empty one once the producer stored a frame; once
\* the queue is closed, both do.
WaiterResumes ==
    /\ (producer = "wait" /\ load < Capacity) ~>
        producer \in {"notify", "ready"}
    /\ (consumer = "wait" /\ load > 0) ~> consumer = "notify"
    /\ (producer = "wait" /\ closed) ~> producer # "wait"
    /\ (consumer = "wait" /\ closed) ~> consumer # "wait"

\* The queue implements the abstract channel. Its reader is told that the
\* channel ended by nullopt from Get.
Channel == INSTANCE FrameChannel WITH
    Bound <- Capacity,
    Frame <- Frame \ Oversize,
    pending <- Queued,
    output <- delivered,
    isClosed <- closed,
    isEnded <- consumer = "ended" /\ ~timed

ImplementsChannel == Channel!Spec
=============================================================================
