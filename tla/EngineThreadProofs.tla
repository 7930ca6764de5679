------------------------- MODULE EngineThreadProofs -------------------------
(***************************************************************************)
(* Proofs about two threads of the engine.                                 *)
(*                                                                         *)
(* EngineThread, for any set of calls and any number of sizes: its type,   *)
(* that the DVEngine is never used off its thread, and that the tasks      *)
(* queued before Dispose have run when the DVEngine is gone.  Monitor, for *)
(* any number of frames: its type, and how buffers are handed over; its    *)
(* names differ from those of EngineThread.                                *)
(***************************************************************************)
EXTENDS EngineThread, Monitor, SequenceTheorems, TLAPS

Tasks == Calls \cup {Reset, Resize}

\* The engine thread has taken a task that is not done yet.
Running == thr \in {"run", "send", "finish"}

\* Dispose has not yet queued its task, and nobody else queues it.
NotYetReset ==
    ui \in {"idle", "invoke"} =>
        /\ engine
        /\ Running => task # Reset
        /\ \A i \in 1 .. Len(tasks) : tasks[i] # Reset

\* The DVEngine is gone before the thread is told to end.
GoneBeforeStop ==
    /\ Reset \in done => ~engine
    /\ ui \in {"stop", "join", "over"} => ~engine
    /\ stop => ui \in {"join", "over"}

\* Whatever is behind the task of Dispose was queued later.
LateBehindReset ==
    \A i, j \in 1 .. Len(tasks) :
        i < j /\ tasks[i] = Reset => tasks[j] \in late

\* Once that task was taken, all that is queued was queued later.
OnlyLateAfterReset ==
    (Running /\ task = Reset) \/ ~engine =>
        \A i \in 1 .. Len(tasks) : tasks[i] \in late

IInv ==
    /\ TypeOK
    /\ NotYetReset
    /\ GoneBeforeStop
    /\ LateBehindReset
    /\ OnlyLateAfterReset
    /\ EngineOnItsThread

\* The invariant holds when the engine was made.
LEMMA InitIInv == ASSUME Init PROVE IInv
<1>1. tasks \in Seq(Calls \cup {Reset, Resize})
  BY DEF Init
<1>2. call \in [Calls -> {"none", "launched", "direct", "post", "push",
                         "waiting", "returned"}]
  BY DEF Init
<1>3. posts \in 0 .. MaxPosts
  BY ThreadAssumption DEF Init
<1>4. TypeOK
  BY <1>1, <1>2, <1>3 DEF Init, TypeOK
<1>5. QED
  BY <1>4 DEF Init, IInv, NotYetReset, GoneBeforeStop, LateBehindReset,
              OnlyLateAfterReset, EngineOnItsThread, Running

-----------------------------------------------------------------------------
(* Steps on the queue                                                      *)

\* The first task is taken, and the others move up.
LEMMA TakeShifts ==
    ASSUME NEW S, NEW s \in Seq(S), s # <<>>
    PROVE  /\ Head(s) = s[1] /\ Head(s) \in S /\ 1 \in 1 .. Len(s)
           /\ Tail(s) \in Seq(S)
           /\ Len(Tail(s)) = Len(s) - 1
           /\ \A i \in 1 .. Len(Tail(s)) :
                  i + 1 \in 1 .. Len(s) /\ Tail(s)[i] = s[i + 1]
  OBVIOUS

\* A task is added behind the others.
LEMMA PushKeeps ==
    ASSUME NEW S, NEW s \in Seq(S), NEW e \in S
    PROVE  /\ Append(s, e) \in Seq(S)
           /\ Len(Append(s, e)) = Len(s) + 1
           /\ Append(s, e)[Len(s) + 1] = e
           /\ \A i \in 1 .. Len(s) : Append(s, e)[i] = s[i]
           /\ \A i \in 1 .. Len(s) + 1 : i \in 1 .. Len(s) \/ i = Len(s) + 1
  OBVIOUS

\* Every step of a call keeps the invariant.
LEMMA CallSteps ==
    ASSUME IInv, NEW c \in Calls, Launch(c) \/ CallStep(c)
    PROVE  IInv'
<1> USE ThreadAssumption
<1>1. CASE Launch(c)
  BY <1>1 DEF IInv, TypeOK, NotYetReset, GoneBeforeStop, LateBehindReset,
              OnlyLateAfterReset, EngineOnItsThread, Running, Launch
<1>2. CASE InvokeTest(c)
  BY <1>2 DEF IInv, TypeOK, NotYetReset, GoneBeforeStop, LateBehindReset,
              OnlyLateAfterReset, EngineOnItsThread, Running, InvokeTest
<1>3. CASE InvokeDirect(c)
  BY <1>3 DEF IInv, TypeOK, NotYetReset, GoneBeforeStop, LateBehindReset,
              OnlyLateAfterReset, EngineOnItsThread, Running, InvokeDirect
<1>4. CASE PostTest(c)
  BY <1>4 DEF IInv, TypeOK, NotYetReset, GoneBeforeStop, LateBehindReset,
              OnlyLateAfterReset, EngineOnItsThread, Running, PostTest
<1>5. CASE InvokeReturn(c)
  BY <1>5 DEF IInv, TypeOK, NotYetReset, GoneBeforeStop, LateBehindReset,
              OnlyLateAfterReset, EngineOnItsThread, Running, InvokeReturn
<1>6. CASE PostPush(c)
  <2>1. /\ tasks \in Seq(Tasks) /\ c \in Tasks /\ c # Reset
    BY DEF IInv, TypeOK, Tasks
  <2>2. /\ tasks' \in Seq(Tasks)
        /\ Len(tasks') = Len(tasks) + 1
        /\ tasks'[Len(tasks) + 1] = c
        /\ \A i \in 1 .. Len(tasks) : tasks'[i] = tasks[i]
        /\ \A i \in 1 .. Len(tasks') : i \in 1 .. Len(tasks) \/ i = Len(tasks) + 1
        /\ Len(tasks) \in Nat
    BY <1>6, <2>1, PushKeeps DEF PostPush
  <2>3. TypeOK'
    BY <1>6, <2>2 DEF IInv, TypeOK, PostPush, Tasks
  <2>4. NotYetReset'
    BY <1>6, <2>1, <2>2 DEF IInv, NotYetReset, Running, PostPush
  <2>5. GoneBeforeStop' /\ EngineOnItsThread'
    BY <1>6 DEF IInv, TypeOK, GoneBeforeStop, EngineOnItsThread, PostPush
  <2>6. LateBehindReset'
    <3>1. SUFFICES ASSUME NEW i \in 1 .. Len(tasks'), NEW j \in 1 .. Len(tasks'),
                          i < j, tasks'[i] = Reset
                   PROVE  tasks'[j] \in late'
      BY DEF LateBehindReset
    <3>2. i \in 1 .. Len(tasks) /\ tasks[i] = Reset
      BY <2>1, <2>2, <3>1
    <3>3. late \subseteq late' /\ c \in late'
      BY <1>6, <3>2 DEF IInv, NotYetReset, PostPush
    <3>4. CASE j \in 1 .. Len(tasks)
      BY <2>2, <3>1, <3>2, <3>3, <3>4 DEF IInv, LateBehindReset
    <3>5. CASE j = Len(tasks) + 1
      BY <2>2, <3>3, <3>5
    <3>6. QED
      BY <2>2, <3>4, <3>5
  <2>7. OnlyLateAfterReset'
    <3>1. SUFFICES ASSUME (Running /\ task = Reset) \/ ~engine,
                          NEW i \in 1 .. Len(tasks')
                   PROVE  tasks'[i] \in late'
      BY <1>6 DEF OnlyLateAfterReset, Running, PostPush
    <3>2. late \subseteq late' /\ c \in late'
      BY <1>6, <3>1 DEF IInv, NotYetReset, PostPush
    <3>3. QED
      BY <2>2, <3>1, <3>2 DEF IInv, OnlyLateAfterReset
  <2>8. QED
    BY <2>3, <2>4, <2>5, <2>6, <2>7 DEF IInv
<1>7. QED
  BY <1>1, <1>2, <1>3, <1>4, <1>5, <1>6 DEF CallStep

\* Every step of the UI thread keeps the invariant.
LEMMA UISteps ==
    ASSUME IInv, PreviewSize \/ Dispose \/ UIStep
    PROVE  IInv'
<1> USE ThreadAssumption
<1>1. CASE PreviewSize
  <2>1. /\ tasks \in Seq(Tasks) /\ Resize \in Tasks /\ Resize # Reset
    BY DEF IInv, TypeOK, Tasks, Resize, Reset
  <2>2. /\ tasks' \in Seq(Tasks)
        /\ Len(tasks') = Len(tasks) + 1
        /\ tasks'[Len(tasks) + 1] = Resize
        /\ \A i \in 1 .. Len(tasks) : tasks'[i] = tasks[i]
        /\ \A i \in 1 .. Len(tasks') : i \in 1 .. Len(tasks) \/ i = Len(tasks) + 1
    BY <1>1, <2>1, PushKeeps DEF PreviewSize
  <2>3. TypeOK'
    BY <1>1, <2>2 DEF IInv, TypeOK, PreviewSize, Tasks
  <2>4. NotYetReset'
    BY <1>1, <2>1, <2>2 DEF IInv, NotYetReset, Running, PreviewSize
  <2>5. GoneBeforeStop' /\ EngineOnItsThread'
    BY <1>1 DEF IInv, GoneBeforeStop, EngineOnItsThread, PreviewSize
  <2>6. \A i \in 1 .. Len(tasks') : tasks'[i] # Reset
    BY <1>1, <2>1, <2>2 DEF IInv, NotYetReset, PreviewSize
  <2>7. LateBehindReset' /\ OnlyLateAfterReset'
    BY <1>1, <2>6 DEF IInv, NotYetReset, LateBehindReset, OnlyLateAfterReset,
                      Running, PreviewSize
  <2>8. QED
    BY <2>3, <2>4, <2>5, <2>7 DEF IInv
<1>2. CASE Dispose
  BY <1>2 DEF IInv, TypeOK, NotYetReset, GoneBeforeStop, LateBehindReset,
              OnlyLateAfterReset, EngineOnItsThread, Running, Dispose
<1>3. CASE DisposeInvoke
  <2>1. /\ tasks \in Seq(Tasks) /\ Reset \in Tasks /\ Len(tasks) \in Nat
    BY DEF IInv, TypeOK, Tasks
  <2>2. /\ tasks' \in Seq(Tasks)
        /\ Len(tasks') = Len(tasks) + 1
        /\ \A i \in 1 .. Len(tasks) : tasks'[i] = tasks[i]
        /\ \A i \in 1 .. Len(tasks') : i \in 1 .. Len(tasks) \/ i = Len(tasks) + 1
    BY <1>3, <2>1, PushKeeps DEF DisposeInvoke
  <2>3. TypeOK'
    BY <1>3, <2>2 DEF IInv, TypeOK, DisposeInvoke, Tasks
  <2>4. NotYetReset' /\ GoneBeforeStop' /\ EngineOnItsThread'
    BY <1>3 DEF IInv, NotYetReset, GoneBeforeStop, EngineOnItsThread,
                DisposeInvoke
  <2>5. LateBehindReset'
    <3>1. SUFFICES ASSUME NEW i \in 1 .. Len(tasks'), NEW j \in 1 .. Len(tasks'),
                          i < j, tasks'[i] = Reset
                   PROVE  FALSE
      BY DEF LateBehindReset
    <3>2. i \in 1 .. Len(tasks)
      BY <2>1, <2>2, <3>1
    <3>3. QED
      BY <1>3, <2>2, <3>1, <3>2 DEF IInv, NotYetReset, DisposeInvoke
  <2>6. OnlyLateAfterReset'
    BY <1>3 DEF IInv, NotYetReset, OnlyLateAfterReset, Running, DisposeInvoke
  <2>7. QED
    BY <2>3, <2>4, <2>5, <2>6 DEF IInv
<1>4. CASE DisposeInvoked
  BY <1>4 DEF IInv, TypeOK, NotYetReset, GoneBeforeStop, LateBehindReset,
              OnlyLateAfterReset, EngineOnItsThread, Running, DisposeInvoked
<1>5. CASE DisposeStop
  BY <1>5 DEF IInv, TypeOK, NotYetReset, GoneBeforeStop, LateBehindReset,
              OnlyLateAfterReset, EngineOnItsThread, Running, DisposeStop
<1>6. CASE DisposeJoin
  BY <1>6 DEF IInv, TypeOK, NotYetReset, GoneBeforeStop, LateBehindReset,
              OnlyLateAfterReset, EngineOnItsThread, Running, DisposeJoin
<1>7. QED
  BY <1>1, <1>2, <1>3, <1>4, <1>5, <1>6 DEF UIStep

\* Every step of the engine thread keeps the invariant.
LEMMA RunSteps ==
    ASSUME IInv, RunStep
    PROVE  IInv'
<1> USE ThreadAssumption
<1>1. CASE RunTake /\ tasks = <<>>
  BY <1>1 DEF IInv, TypeOK, NotYetReset, GoneBeforeStop, LateBehindReset,
              OnlyLateAfterReset, EngineOnItsThread, Running, RunTake
<1>2. CASE RunTake /\ tasks # <<>>
  <2>1. tasks \in Seq(Tasks) /\ Len(tasks) \in Nat
    BY DEF IInv, TypeOK, Tasks
  <2>2. task' = Head(tasks) /\ tasks' = Tail(tasks)
    BY <1>2 DEF RunTake
  <2>3. /\ task' = tasks[1] /\ task' \in Tasks /\ 1 \in 1 .. Len(tasks)
        /\ tasks' \in Seq(Tasks)
        /\ Len(tasks') = Len(tasks) - 1
        /\ \A i \in 1 .. Len(tasks') :
              i + 1 \in 1 .. Len(tasks) /\ tasks'[i] = tasks[i + 1]
    BY <1>2, <2>1, <2>2, TakeShifts
  <2>4. TypeOK'
    BY <1>2, <2>3 DEF IInv, TypeOK, RunTake, Tasks
  <2>5. NotYetReset'
    BY <1>2, <2>3 DEF IInv, NotYetReset, RunTake
  <2>6. GoneBeforeStop' /\ EngineOnItsThread'
    BY <1>2 DEF IInv, GoneBeforeStop, EngineOnItsThread, RunTake
  <2>7. LateBehindReset'
    <3>1. SUFFICES ASSUME NEW i \in 1 .. Len(tasks'), NEW j \in 1 .. Len(tasks'),
                          i < j, tasks'[i] = Reset
                   PROVE  tasks'[j] \in late'
      BY DEF LateBehindReset
    <3>2. /\ i + 1 \in 1 .. Len(tasks) /\ j + 1 \in 1 .. Len(tasks)
          /\ tasks[i + 1] = Reset /\ tasks'[j] = tasks[j + 1] /\ i + 1 < j + 1
      BY <2>3, <3>1
    <3>3. tasks[j + 1] \in late
      BY <3>2 DEF IInv, LateBehindReset
    <3>4. QED
      BY <1>2, <3>2, <3>3 DEF RunTake
  <2>8. OnlyLateAfterReset'
    <3>1. SUFFICES ASSUME task' = Reset \/ ~engine, NEW i \in 1 .. Len(tasks')
                   PROVE  tasks'[i] \in late
      BY <1>2 DEF OnlyLateAfterReset, RunTake
    <3>2. i + 1 \in 1 .. Len(tasks) /\ tasks'[i] = tasks[i + 1] /\ 1 < i + 1
      BY <2>3
    <3>3. CASE task' = Reset
      BY <2>3, <3>2, <3>3 DEF IInv, LateBehindReset
    <3>4. CASE ~engine
      BY <3>2, <3>4 DEF IInv, OnlyLateAfterReset
    <3>5. QED
      BY <3>1, <3>3, <3>4
  <2>9. QED
    BY <2>4, <2>5, <2>6, <2>7, <2>8 DEF IInv
<1>3. CASE RunTask
  BY <1>3 DEF IInv, TypeOK, NotYetReset, GoneBeforeStop, LateBehindReset,
              OnlyLateAfterReset, EngineOnItsThread, Running, RunTask
<1>4. CASE SendHandled
  BY <1>4 DEF IInv, TypeOK, NotYetReset, GoneBeforeStop, LateBehindReset,
              OnlyLateAfterReset, EngineOnItsThread, Running, SendHandled
<1>5. CASE RunFinish
  <2>1. task \in Calls \cup {Reset, Resize} /\ Running
    BY <1>5 DEF IInv, TypeOK, Running, RunFinish
  <2>2. engine' \in BOOLEAN /\ done' \subseteq Calls \cup {Reset}
    BY <1>5, <2>1 DEF IInv, TypeOK, RunFinish
  <2>3. TypeOK'
    BY <1>5, <2>2 DEF IInv, TypeOK, RunFinish
  <2>4. engine' => engine /\ task # Reset
    BY <1>5 DEF RunFinish
  <2>5. ~engine' => ~engine \/ task = Reset
    BY <1>5 DEF RunFinish
  <2>6. NotYetReset'
    BY <1>5, <2>1, <2>5 DEF IInv, NotYetReset, Running, RunFinish
  <2>7. GoneBeforeStop' /\ EngineOnItsThread'
    BY <1>5, <2>4 DEF IInv, GoneBeforeStop, EngineOnItsThread, RunFinish
  <2>8. LateBehindReset' /\ OnlyLateAfterReset'
    BY <1>5, <2>1, <2>5 DEF IInv, LateBehindReset, OnlyLateAfterReset, Running,
                            RunFinish
  <2>9. QED
    BY <2>3, <2>6, <2>7, <2>8 DEF IInv
<1>6. CASE RunTest
  BY <1>6 DEF IInv, TypeOK, NotYetReset, GoneBeforeStop, LateBehindReset,
              OnlyLateAfterReset, EngineOnItsThread, Running, RunTest
<1>7. CASE RunWait
  BY <1>7 DEF IInv, TypeOK, NotYetReset, GoneBeforeStop, LateBehindReset,
              OnlyLateAfterReset, EngineOnItsThread, Running, RunWait
<1>8. QED
  BY <1>1, <1>2, <1>3, <1>4, <1>5, <1>6, <1>7 DEF RunStep

\* A step that changes nothing keeps the invariant.
LEMMA UnchangedKeeps ==
    ASSUME IInv, UNCHANGED vars
    PROVE  IInv'
  BY DEF IInv, TypeOK, NotYetReset, GoneBeforeStop, LateBehindReset,
         OnlyLateAfterReset, EngineOnItsThread, Running, vars

-----------------------------------------------------------------------------

\* The invariant is inductive.
LEMMA Inductive == Spec => []IInv
<1>1. Init => IInv
  BY InitIInv
<1>2. IInv /\ [Next]_vars => IInv'
  <2>1. SUFFICES ASSUME IInv, [Next]_vars PROVE IInv'
    OBVIOUS
  <2>2. CASE Next
    BY <2>1, <2>2, CallSteps, UISteps, RunSteps, UnchangedKeeps DEF Next, Over
  <2>3. CASE UNCHANGED vars
    BY <2>1, <2>3, UnchangedKeeps
  <2>4. QED
    BY <2>1, <2>2, <2>3
<1>3. QED
  BY <1>1, <1>2, PTL DEF Spec

\* Every variable keeps to its values, whatever the calls and the threads do.
THEOREM TypeCorrect == Spec => []TypeOK
<1>1. IInv => TypeOK
  BY DEF IInv
<1>2. QED
  BY <1>1, Inductive, PTL

\* "created, used and destroyed on m_thread" (NativeApi.cpp:114): Invoke runs a
\* call on a thread of the pool only when the DVEngine is gone.
THEOREM EngineStaysOnItsThread == Spec => []EngineOnItsThread
<1>1. IInv => EngineOnItsThread
  BY DEF IInv
<1>2. QED
  BY <1>1, Inductive, PTL

\* When the DVEngine is gone, only calls that came after Dispose are still
\* queued: those are answered that the engine is not running.
THEOREM EarlierTasksRan == Spec => []QueuedBeforeResetRan
<1>1. IInv => QueuedBeforeResetRan
  <2>1. SUFFICES ASSUME IInv, ~engine PROVE ToSet(tasks) \subseteq late
    BY DEF QueuedBeforeResetRan
  <2>2. \A i \in 1 .. Len(tasks) : tasks[i] \in late
    BY <2>1 DEF IInv, OnlyLateAfterReset
  <2>3. tasks \in Seq(Calls \cup {Reset, Resize})
    BY <2>1 DEF IInv, TypeOK
  <2>4. QED
    BY <2>2, <2>3 DEF ToSet
<1>2. QED
  BY <1>1, Inductive, PTL

-----------------------------------------------------------------------------
(* The preview: the safety properties of Monitor, for any number of frames. *)

LendingThread == thread \in {"waits", "wakes", "takes"}

\* A buffer is lent exactly while the thread waits for it; the worker writes
\* to it before it says that it has.
LentInv ==
    /\ sample <=> LendingThread
    /\ worker = "copies" => sample /\ ~filled /\ thread \in {"waits", "wakes"}

\* The frame on offer is later than all that was copied or displayed, and a
\* filled buffer holds a later one than the renderer has shown.
LaterInv ==
    /\ worker \in {"offers", "copies"} => content < frame /\ displayed < frame
    /\ LendingThread /\ filled => content > displayed
    /\ thread = "delivers" => content > displayed

MonitorInv == MonitorTypeOK /\ LentInv /\ LaterInv

\* The first state.
LEMMA MonitorInitInv ==
    ASSUME MonitorInit
    PROVE  MonitorInv
  <1>1. LentInv /\ sample \in BOOLEAN /\ filled \in BOOLEAN
    BY Zenon DEF MonitorInit, LentInv, LendingThread
  <1>2. LaterInv
    BY SMT DEF MonitorInit, LaterInv, LendingThread
  <1>3. frame = 0 /\ content = 0 /\ displayed = 0
    BY Zenon DEF MonitorInit
  <1>4. /\ frame \in 0..MaxFrames
        /\ content \in 0..frame /\ displayed \in 0..frame
    BY ONLY <1>3, MonitorAssumption, SMT DEF MonitorAssumption
  <1>5. mutex = IF worker = "copies" THEN "worker"
                ELSE IF thread = "takes" THEN "thread" ELSE "nobody"
    BY SMT DEF MonitorInit
  <1> QED
    BY <1>1, <1>2, <1>4, <1>5, Zenon DEF MonitorInit, MonitorInv,
                                         MonitorTypeOK

\* The worker's steps, which the mutex keeps apart from the thread's.
LEMMA WorkerKeepsInv ==
    ASSUME MonitorInv, WorkerStep
    PROVE  MonitorInv'
  <1> USE MonitorAssumption
      DEF MonitorInv, MonitorTypeOK, LentInv, LaterInv, LendingThread
  <1>1. CASE NextFrame
    BY <1>1 DEF NextFrame
  <1>2. CASE Offer
    BY <1>2 DEF Offer
  <1>3. CASE Copy
    BY <1>3 DEF Copy
  <1>4. CASE CopyFails
    BY <1>4 DEF CopyFails
  <1>5. CASE Notify
    BY <1>5 DEF Notify
  <1> QED
    BY <1>1, <1>2, <1>3, <1>4, <1>5 DEF WorkerStep

\* The monitoring thread's steps, those of the renderer included.
LEMMA ThreadKeepsInv ==
    ASSUME MonitorInv,
           \/ ThreadStep \/ GetDeliveryBuffer \/ GetDeliveryBufferFails
           \/ Rendered
    PROVE  MonitorInv'
  <1> USE MonitorAssumption
      DEF MonitorInv, MonitorTypeOK, LentInv, LaterInv, LendingThread,
          Goes, stopRequested
  <1>1. CASE Test
    BY <1>1 DEF Test
  <1>2. CASE GetDeliveryBuffer
    BY <1>2 DEF GetDeliveryBuffer
  <1>3. CASE GetDeliveryBufferFails
    BY <1>3 DEF GetDeliveryBufferFails
  <1>4. CASE Slept
    BY <1>4 DEF Slept
  <1>5. CASE Lend
    BY <1>5 DEF Lend
  <1>6. CASE Wake
    BY <1>6 DEF Wake
  <1>7. CASE Take
    BY <1>7 DEF Take
  <1>8. CASE Deliver
    BY <1>8 DEF Deliver
  <1>9. CASE Rendered
    BY <1>9 DEF Rendered
  <1> QED
    BY <1>1, <1>2, <1>3, <1>4, <1>5, <1>6, <1>7, <1>8, <1>9
       DEF ThreadStep

\* The destructor's steps, which come when the worker is gone.
LEMMA DestructorKeepsInv ==
    ASSUME MonitorInv, Destroy \/ DestructorStep
    PROVE  MonitorInv'
  BY MonitorAssumption
     DEF MonitorInv, MonitorTypeOK, LentInv, LaterInv, LendingThread,
         Destroy, DestructorStep, Stop, Join

\* The invariant of the preview.
THEOREM MonitorInvariance == MonitorSpec => []MonitorInv
  <1>0. MonitorInit => MonitorInv
    BY MonitorInitInv
  <1>1. MonitorInv /\ [MonitorNext]_monitorVars => MonitorInv'
    <2> SUFFICES ASSUME MonitorInv, [MonitorNext]_monitorVars
                 PROVE  MonitorInv'
      OBVIOUS
    <2>1. CASE UNCHANGED monitorVars
      BY <2>1 DEF monitorVars, MonitorInv, MonitorTypeOK, LentInv,
                  LaterInv, LendingThread
    <2>2. CASE MonitorNext
      BY <2>2, WorkerKeepsInv, ThreadKeepsInv, DestructorKeepsInv
         DEF MonitorNext
    <2> QED
      BY <2>1, <2>2
  <1> QED
    BY <1>0, <1>1, PTL DEF MonitorSpec

\* Every variable keeps to its values, and m_mutex is held where Monitor.cpp
\* has it locked.
THEOREM MonitorTypeCorrect == MonitorSpec => []MonitorTypeOK
  BY MonitorInvariance, PTL DEF MonitorInv

\* The worker fills a buffer only while it is lent to it, and the renderer is
\* given filled buffers only, each with a later frame (Monitor.cpp:101).
THEOREM BuffersAreHandedOver == MonitorSpec => []BufferHandedOver
  <1>1. MonitorInv => BufferHandedOver
    BY DEF MonitorInv, LentInv, LaterInv, BufferHandedOver
  <1> QED
    BY <1>1, MonitorInvariance, PTL
=============================================================================
