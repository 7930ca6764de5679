----------------------- MODULE DVEngineCaptureProofs -----------------------
(***************************************************************************)
(* Proofs about DVEngineCapture, for every capacity, file length, timeout   *)
(* and number of frames, RECs and builds: its invariants, and that the      *)
(* worker never overrides the controller.                                   *)
(***************************************************************************)
EXTENDS DVEngineCapture, TLAPS

Destroying == ctl \in {"close", "stopInput", "join", "release"}

\* What the controller may rely on while it is inside a call.
ControlInv ==
    /\ Destroying \/ ctl = "create" => state = "Idle"
    /\ ctl \in {"run", "startWorker", "target", "captureTime", "state"} =>
           state = "CapturePaused"
    /\ ctl \in {"release", "create", "run", "startWorker"} => wkr = "none"
    /\ ctl \in {"join", "release", "create", "run"} => src = "off"
    /\ ctl = "run" => queue = "open"
    /\ src # "off" => queue # "none"
    /\ ctl = "create" \/ (ctl = "ready" /\ state = "Idle") =>
           /\ src = "off" /\ wkr = "none" /\ writer = NoFile
           /\ queue = "none" /\ load = 0 /\ stopReason = "None"

\* The reason is stored ahead of the exchange and only by the worker; the
\* controller can at most erase it.  The file is finished before either.
FinishInv ==
    /\ wkr = "exchange" => stopReason \in {reason, "None"}
    /\ wkr \in {"reason", "exchange", "undo"}
           /\ reason \in {"SignalLost", "DiskFull"} => writer = NoFile

\* Where the worker may be once it has finished the capture on its own: it
\* cannot write another frame.
FinishedInv ==
    state = "Finished" =>
        /\ wkr \in {"top", "get", "sample", "noFrame", "frame", "write",
                    "discard", "counters", "exit", "failed", "dead"}
        /\ wkr = "noFrame" => ~capturing

\* There is room in the file for the frame about to be written.
RoomInv ==
    /\ limit <= most
    /\ wkr = "open" => writer = NoFile \/ fileFrameCount < most
    /\ wkr = "put" => fileFrameCount < most

\* Who closed the queue, and what that means for the error and the state.
ClosedInv ==
    /\ queue = "closed" => closedBy # "nobody"
    /\ queue = "closed" /\ closedBy = "controller" => Destroying
    /\ src = "close" => told
    /\ closedBy = "error" => told
    /\ wkr \in {"exit", "dead"} =>
           state = "Idle" \/ told \/ closedBy = "endOfStream"

\* The part of the type that holds Boolean values.
FlagsTyped ==
    /\ error \in BOOLEAN /\ building \in BOOLEAN
    /\ frame \in BOOLEAN /\ capturing \in BOOLEAN /\ wasCapturing \in BOOLEAN
    /\ left \in BOOLEAN /\ told \in BOOLEAN /\ dropped \in BOOLEAN

IInv ==
    /\ TypeOK
    /\ ControlInv
    /\ FinishInv
    /\ FinishedInv
    /\ RoomInv
    /\ ClosedInv
    /\ NoStaleReason
    /\ FinishedFileSaved
    /\ FileWithinLimit
    /\ LeftFileReported

-----------------------------------------------------------------------------
(* Steps                                                                   *)

\* The invariant holds when the engine was made.
LEMMA InitIInv == ASSUME Init PROVE IInv
<1> USE CaptureAssumption DEF NoFile, NoFrameYet
<1>1. FlagsTyped
  BY Zenon DEF Init, FlagsTyped
<1>2. TypeOK
  BY <1>1 DEF Init, TypeOK, FlagsTyped
<1>3. QED
  BY <1>2 DEF Init, IInv, Destroying, TypeOK, ControlInv, FinishInv,
         FinishedInv, RoomInv, ClosedInv, NoStaleReason,
         FinishedFileSaved, FileWithinLimit, LeftFileReported

\* Every step of the engine thread, a look at the error and a change of the
\* options keep it.
LEMMA ControllerSteps ==
    ASSUME IInv, \/ \E b \in BOOLEAN : Destroy(b)
                 \/ \E d \in Durations : StartCapturing(d)
                 \/ StopCapturing \/ ControllerStep \/ TakeError
                 \/ \E l \in Limits : SetOptions(l)
    PROVE  IInv'
<1> USE CaptureAssumption DEF api, status, channel, control, source, locals,
       history, ClosedBy, FreshLocals, Destroying, NoFile, NoFrameYet,
       IInv, TypeOK, FlagsTyped, ControlInv, FinishInv, FinishedInv,
       RoomInv, ClosedInv, NoStaleReason, FinishedFileSaved,
       FileWithinLimit, LeftFileReported
<1>1. ASSUME NEW b \in BOOLEAN, Destroy(b) PROVE IInv'
  BY <1>1 DEF Destroy
<1>2. CASE DestroyClose
  BY <1>2 DEF DestroyClose
<1>3. CASE DestroyStopInput
  BY <1>3 DEF DestroyStopInput
<1>4. CASE DestroyJoin
  <2>1. FlagsTyped'
    BY <1>4, Zenon DEF DestroyJoin
  <2>2. TypeOK'
    BY <1>4, <2>1 DEF DestroyJoin
  <2>3. QED
    BY <1>4, <2>2 DEF DestroyJoin
<1>5. CASE DestroyRelease
  BY <1>5 DEF DestroyRelease
<1>6. CASE BuildCreate
  <2>1. FlagsTyped'
    BY <1>6, Zenon DEF BuildCreate
  <2>2. TypeOK'
    BY <1>6, <2>1 DEF BuildCreate
  <2>3. QED
    BY <1>6, <2>2 DEF BuildCreate
<1>7. CASE BuildRun
  <2>1. FlagsTyped'
    BY <1>7, Zenon DEF BuildRun
  <2>2. TypeOK'
    BY <1>7, <2>1 DEF BuildRun
  <2>3. QED
    BY <1>7, <2>2 DEF BuildRun
<1>8. CASE BuildStartWorker
  BY <1>8 DEF BuildStartWorker
<1>9. ASSUME NEW d \in Durations, StartCapturing(d) PROVE IInv'
  BY <1>9 DEF StartCapturing
<1>10. CASE StartTarget
  BY <1>10 DEF StartTarget
<1>11. CASE StartCaptureTime
  BY <1>11 DEF StartCaptureTime
<1>12. CASE StartState
  BY <1>12 DEF StartState
<1>13. CASE StopCapturing
  BY <1>13 DEF StopCapturing
<1>14. CASE TakeError
  <2>1. FlagsTyped'
    BY <1>14, Zenon DEF TakeError
  <2>2. TypeOK'
    BY <1>14, <2>1 DEF TakeError
  <2>3. QED
    BY <1>14, <2>2 DEF TakeError
<1>15. ASSUME NEW l \in Limits, SetOptions(l) PROVE IInv'
  BY <1>15 DEF SetOptions
<1>16. QED
  BY <1>1, <1>2, <1>3, <1>4, <1>5, <1>6, <1>7, <1>8, <1>9, <1>10, <1>11, <1>12,
         <1>13, <1>14, <1>15 DEF ControllerStep

\* Every step of the streaming thread keeps it.
LEMMA SourceSteps ==
    ASSUME IInv, HandleFrame \/ EndOfStream \/ SourceStep
    PROVE  IInv'
<1> USE CaptureAssumption DEF api, status, channel, control, source, locals,
       history, ClosedBy, SourceUnchanged, Destroying, NoFile, NoFrameYet,
       IInv, TypeOK, FlagsTyped, ControlInv, FinishInv, FinishedInv,
       RoomInv, ClosedInv, NoStaleReason, FinishedFileSaved,
       FileWithinLimit, LeftFileReported
<1>1. CASE HandleFrame
  BY <1>1 DEF HandleFrame
<1>2. CASE HandleFramePut
  BY <1>2 DEF HandleFramePut
<1>3. CASE HandleFrameTooLarge
  BY <1>3 DEF HandleFrameTooLarge
<1>4. CASE HandleFrameClose
  BY <1>4 DEF HandleFrameClose
<1>5. CASE EndOfStream
  BY <1>5 DEF EndOfStream
<1>6. QED
  BY <1>1, <1>2, <1>3, <1>4, <1>5 DEF SourceStep

\* Every step of the capture thread keeps it.
LEMMA WorkerSteps ==
    ASSUME IInv, WorkerStep
    PROVE  IInv'
<1> USE CaptureAssumption DEF api, status, channel, control, source, locals,
       history, WorkerUnchanged, FinishWriter, CallFinish, ReturnFromFinish,
       Round, Memory, Finishing, Shared, FreshLocals, AfterSample, SilenceNow,
       SignalLost, Destroying, NoFile, NoFrameYet,
       IInv, TypeOK, FlagsTyped, ControlInv, FinishInv, FinishedInv,
       RoomInv, ClosedInv, NoStaleReason, FinishedFileSaved,
       FileWithinLimit, LeftFileReported
<1>1. CASE FinishReason
  BY <1>1 DEF FinishReason
<1>2. CASE FinishExchange
  BY <1>2 DEF FinishExchange
<1>3. CASE FinishUndo
  BY <1>3 DEF FinishUndo
<1>4. CASE LoopBegin
  <2>1. FlagsTyped'
    BY <1>4, Zenon DEF LoopBegin
  <2>2. TypeOK'
    BY <1>4, <2>1 DEF LoopBegin
  <2>3. QED
    BY <1>4, <2>2 DEF LoopBegin
<1>5. CASE LoopTest
  <2>1. FlagsTyped'
    BY <1>5, Zenon DEF LoopTest
  <2>2. TypeOK'
    BY <1>5, <2>1 DEF LoopTest
  <2>3. QED
    BY <1>5, <2>2 DEF LoopTest
<1>6. CASE LoopGet
  BY <1>6 DEF LoopGet
<1>7. CASE LoopSample
  <2>1. FlagsTyped'
    BY <1>7, Zenon DEF LoopSample
  <2>2. TypeOK'
    BY <1>7, <2>1 DEF LoopSample
  <2>3. QED
    BY <1>7, <2>2 DEF LoopSample
<1>8. CASE LoopArm
  BY <1>8 DEF LoopArm
<1>9. CASE LoopNoFrame
  BY <1>9 DEF LoopNoFrame
<1>10. CASE LoopLost
  <2>1. FlagsTyped'
    BY <1>10, Zenon DEF LoopLost
  <2>2. TypeOK'
    BY <1>10, <2>1 DEF LoopLost
  <2>3. QED
    BY <1>10, <2>2 DEF LoopLost
<1>11. CASE LoopFrame
  BY <1>11 DEF LoopFrame
<1>12. CASE LoopDiskOk
  BY <1>12 DEF LoopDiskOk
<1>13. CASE LoopDiskFull
  <2>1. FlagsTyped'
    BY <1>13, Zenon DEF LoopDiskFull
  <2>2. TypeOK'
    BY <1>13, <2>1 DEF LoopDiskFull
  <2>3. QED
    BY <1>13, <2>2 DEF LoopDiskFull
<1>14. CASE LoopWrite
  BY <1>14 DEF LoopWrite
<1>15. CASE LoopSplit
  <2>1. FlagsTyped'
    BY <1>15, Zenon DEF LoopSplit
  <2>2. TypeOK'
    BY <1>15, <2>1 DEF LoopSplit
  <2>3. QED
    BY <1>15, <2>2 DEF LoopSplit
<1>16. CASE LoopKeep
  BY <1>16 DEF LoopKeep
<1>17. CASE LoopOpen
  BY <1>17 DEF LoopOpen
<1>18. CASE LoopPut
  BY <1>18 DEF LoopPut
<1>19. CASE LoopWriteFails
  BY <1>19 DEF LoopWriteFails
<1>20. CASE LoopDuration
  BY <1>20 DEF LoopDuration
<1>21. CASE LoopReached
  BY <1>21 DEF LoopReached
<1>22. CASE LoopDiscard
  <2>1. FlagsTyped'
    BY <1>22, Zenon DEF LoopDiscard
  <2>2. TypeOK'
    BY <1>22, <2>1 DEF LoopDiscard
  <2>3. QED
    BY <1>22, <2>2 DEF LoopDiscard
<1>23. CASE LoopCounters
  BY <1>23 DEF LoopCounters
<1>24. CASE LoopExit
  <2>1. FlagsTyped'
    BY <1>24, Zenon DEF LoopExit
  <2>2. TypeOK'
    BY <1>24, <2>1 DEF LoopExit
  <2>3. QED
    BY <1>24, <2>2 DEF LoopExit
<1>25. CASE ReportError
  <2>1. FlagsTyped'
    BY <1>25, Zenon DEF ReportError
  <2>2. TypeOK'
    BY <1>25, <2>1 DEF ReportError
  <2>3. QED
    BY <1>25, <2>2 DEF ReportError
<1>26. QED
  BY <1>1, <1>2, <1>3, <1>4, <1>5, <1>6, <1>7, <1>8, <1>9, <1>10, <1>11, <1>12,
         <1>13, <1>14, <1>15, <1>16, <1>17, <1>18, <1>19, <1>20, <1>21, <1>22,
         <1>23, <1>24, <1>25 DEF WorkerStep

\* A step that changes nothing keeps it.
LEMMA UnchangedKeeps ==
    ASSUME IInv, UNCHANGED vars
    PROVE  IInv'
  BY DEF vars, api, status, channel, control, source, locals, history, IInv,
         TypeOK, ControlInv, FinishInv, FinishedInv, RoomInv, ClosedInv,
         NoStaleReason, FinishedFileSaved, FileWithinLimit,
         LeftFileReported, Destroying

-----------------------------------------------------------------------------
(* The theorems                                                            *)

\* The invariant is inductive.
LEMMA Inductive == Spec => []IInv
<1>1. Init => IInv
  BY InitIInv
<1>2. IInv /\ [Next]_vars => IInv'
  <2>1. SUFFICES ASSUME IInv, [Next]_vars PROVE IInv'
    OBVIOUS
  <2>2. CASE Next
    BY <2>1, <2>2, ControllerSteps, SourceSteps, WorkerSteps DEF Next
  <2>3. CASE UNCHANGED vars
    BY <2>1, <2>3, UnchangedKeeps
  <2>4. QED
    BY <2>1, <2>2, <2>3
<1>3. QED
  BY <1>1, <1>2, PTL DEF Spec

\* Every variable keeps to its values.
THEOREM TypeCorrect == Spec => []TypeOK
<1>1. IInv => TypeOK
  BY DEF IInv
<1>2. QED
  BY <1>1, Inductive, PTL

\* "Capture stopped, the file was finished": whoever sees Finished because of
\* the signal or the disk finds no file being written (DVEngine.cpp:355, 390).
THEOREM FinishedFilesAreSaved == Spec => []FinishedFileSaved
<1>1. IInv => FinishedFileSaved
  BY DEF IInv
<1>2. QED
  BY <1>1, Inductive, PTL

\* A reason stored ahead of an exchange that failed is taken back, whatever the
\* controller did in between (DVEngine.cpp:308).
THEOREM ReasonsAreTakenBack == Spec => []NoStaleReason
<1>1. IInv => NoStaleReason
  BY DEF IInv
<1>2. QED
  BY <1>1, Inductive, PTL

\* No file exceeds the highest limit since it was opened, for any changes of
\* the options in the middle of a capture (DVEngine.cpp:396).
THEOREM FilesStayWithinLimit == Spec => []FileWithinLimit
<1>1. IInv => FileWithinLimit
  BY DEF IInv
<1>2. QED
  BY <1>1, Inductive, PTL

\* A file left under its temporary name is an error that is pending or was
\* taken, in any pipeline, except where BuildCapturing finds that error pending
\* and throws it away (DVEngine.cpp:177, 292).
THEOREM LeftFilesAreReported == Spec => []LeftFileReported
<1>1. IInv => LeftFileReported
  BY DEF IInv
<1>2. QED
  BY <1>1, Inductive, PTL

\* A pipeline is taken down completely: when Destroy returns no thread, frame
\* or file of it is left (DVEngine.cpp:88).
THEOREM DestroyIsComplete == Spec => []ResetIsComplete
<1>1. IInv => ResetIsComplete
  BY DEF IInv, ControlInv, ResetIsComplete
<1>2. QED
  BY <1>1, Inductive, PTL

\* A worker that ended under a pipeline in use has reported an error or met the
\* end of the stream (DVEngine.cpp:286).
THEOREM DeadWorkersAreExplained == Spec => []DeadWorkerExplained
<1>1. IInv => DeadWorkerExplained
  BY DEF IInv, ClosedInv, DeadWorkerExplained
<1>2. QED
  BY <1>1, Inductive, PTL

\* The worker never overrides the controller: Finished is entered from
\* Capturing only, and a pipeline being destroyed stays Idle (DVEngine.cpp:313).
THEOREM WorkerYields == Spec => FinishedFromCapturing
<1>1. IInv /\ [Next]_vars =>
        [/\ state' = "Finished" /\ state # "Finished" => state = "Capturing"
         /\ ctl \in {"close", "stopInput", "join", "release"} => state' = "Idle"
        ]_vars
  <2>1. SUFFICES ASSUME IInv, Next
                 PROVE  /\ state' = "Finished" /\ state # "Finished" =>
                               state = "Capturing"
                        /\ Destroying => state' = "Idle"
    BY DEF Destroying
  <2>2. Destroying => state = "Idle"
    BY <2>1 DEF IInv, ControlInv
  <2>3. CASE \/ \E b \in BOOLEAN : Destroy(b)
             \/ \E d \in Durations : StartCapturing(d)
             \/ StopCapturing \/ ControllerStep \/ TakeError
             \/ \E l \in Limits : SetOptions(l)
    BY <2>2, <2>3 DEF Destroying, Destroy, StartCapturing, StopCapturing,
           ControllerStep, DestroyClose, DestroyStopInput, DestroyJoin,
           DestroyRelease, BuildCreate, BuildRun, BuildStartWorker,
           StartTarget, StartCaptureTime, StartState, TakeError, SetOptions
  <2>4. CASE HandleFrame \/ EndOfStream \/ SourceStep
    BY <2>2, <2>4 DEF HandleFrame, EndOfStream, SourceStep, SourceUnchanged,
           HandleFramePut, HandleFrameTooLarge, HandleFrameClose
  <2>5. CASE WorkerStep
    <3>1. CASE FinishExchange
      BY <2>2, <3>1 DEF FinishExchange
    <3>2. CASE UNCHANGED state
      BY <2>2, <3>2
    <3>3. WorkerStep => FinishExchange \/ UNCHANGED state
      BY DEF WorkerStep, Shared, FinishReason, FinishUndo, FinishWriter,
             LoopBegin, LoopTest, LoopGet, LoopSample, LoopArm, LoopNoFrame,
             LoopLost, LoopFrame, LoopDiskOk, LoopDiskFull, LoopWrite,
             LoopSplit, LoopKeep, LoopOpen, LoopPut, LoopWriteFails,
             LoopDuration, LoopReached, LoopDiscard, LoopCounters, LoopExit,
             ReportError
    <3>4. QED
      BY <2>5, <3>1, <3>2, <3>3
  <2>6. QED
    BY <2>1, <2>3, <2>4, <2>5 DEF Next
<1>2. QED
  BY <1>1, Inductive, PTL DEF Spec, FinishedFromCapturing
=============================================================================
