-------------------------- MODULE DVEngineCapture --------------------------
(***************************************************************************)
(* engine/DVEngine while capturing: the engine thread, on which every API  *)
(* call runs (the controller), the capture thread (the worker) and the     *)
(* DirectShow streaming thread (the source), which share m_state,          *)
(* m_stopReason, m_target, m_captureTime and the frame queue.              *)
(*                                                                         *)
(* A step reads or writes one of the shared atomics, or holds m_mutex      *)
(* once; the worker reads m_state anew wherever the loop does.  The queue  *)
(* is the channel that FrameQueue implements, reduced to its load.  Frames *)
(* last one unit of time each; what the worker finds in a frame (a new     *)
(* scene), on the disk (nearly full) or from DirectShow (a failure) is     *)
(* chosen freely.  A REC, and its m_target, is known by its number.        *)
(***************************************************************************)
EXTENDS Integers

CONSTANTS
    QueueFrames,        \* kQueueFrames
    DiskCheckFrames,    \* kDiskCheckFrames
    LossPolls,          \* signal loss in kSignalPoll periods; 0 turns it off
    Limits,             \* the values m_maxAVIFrames may be set to
    EveryNth,           \* m_everyNth
    Durations,          \* capture times asked for, in frames; 0 is unlimited
    MaxFrames,          \* bound: frames the source delivers in a behaviour
    MaxRecs,            \* bound: StartCapturing calls
    MaxBuilds           \* bound: BuildCapturing calls

ASSUME CaptureAssumption ==
    /\ QueueFrames \in Nat \ {0}
    /\ DiskCheckFrames \in Nat \ {0}
    /\ LossPolls \in Nat
    /\ Limits \subseteq Nat \ {0} /\ Limits # {}
    /\ EveryNth \in Nat \ {0}
    /\ Durations \subseteq Nat
    /\ MaxFrames \in Nat /\ MaxRecs \in Nat /\ MaxBuilds \in Nat

NoFile == 0             \* m_aviWriter is null
NoFrameYet == -1        \* the signal watch has seen no frame

VARIABLES
    state, stopReason,          \* m_state, m_stopReason
    target, captureTime,        \* m_target, m_captureTime
    time, counter,              \* m_time, m_counter
    fileFrameCount,             \* m_fileFrameCount
    writer,                     \* the REC whose target m_aviWriter writes to
    error,                      \* m_error holds a message
    queue, load,                \* m_queue: "none", "open" or "closed"; Load()
    limit,                      \* m_maxAVIFrames
    ctl, building,              \* the controller's place in a call
    duration,                   \* the capture time StartCapturing was given
    src, frames,                \* the source's place; frames it delivered
    wkr,                        \* the worker's place in CaptureLoop
    frame, capturing, wasCapturing, silence, captureFile, sinceDiskCheck,
    fileCounter,                \* locals of CaptureLoop
    reason, resume,             \* FinishOnItsOwn: its argument, its caller
    builds, recs,               \* counts of calls, for their bounds
    \* history of the current pipeline
    left,                       \* a file kept its temporary "~" name, and the
                                \* front end has taken no error since
    told,                       \* ReportError was called
    dropped,                    \* BuildCapturing threw away that error
    closedBy,                   \* who closed the queue first
    most                        \* the highest limit since the file was opened

api == <<target, captureTime, error>>
status == <<time, counter, fileFrameCount, most>>
channel == <<queue, load>>
control == <<ctl, building, duration, builds, recs, limit>>
source == <<src, frames>>
locals == <<frame, capturing, wasCapturing, silence, captureFile,
            sinceDiskCheck, fileCounter, reason, resume>>
history == <<left, told, dropped, closedBy>>
vars == <<state, stopReason, api, status, writer, channel, control, source,
          wkr, locals, history>>

Init ==
    /\ state = "Idle" /\ stopReason = "None"
    /\ target = 0 /\ captureTime = 0
    /\ time = -1 /\ counter = -1 /\ fileFrameCount = -1
    /\ writer = NoFile
    /\ error = FALSE
    /\ queue = "none" /\ load = 0
    /\ ctl = "ready" /\ building = FALSE /\ duration = 0
    /\ src = "off" /\ frames = 0
    /\ wkr = "none"
    /\ frame = FALSE /\ capturing = FALSE /\ wasCapturing = FALSE
    /\ silence = NoFrameYet /\ captureFile = 0 /\ sinceDiskCheck = 0
    /\ fileCounter = 0 /\ reason = "None" /\ resume = "top"
    /\ builds = 0 /\ recs = 0
    /\ limit \in Limits /\ most = limit
    /\ left = FALSE /\ told = FALSE /\ dropped = FALSE
    /\ closedBy = "nobody"

ClosedBy(who) == IF queue = "open" THEN who ELSE closedBy

-----------------------------------------------------------------------------
(* The controller: Destroy and BuildCapturing                              *)

\* Destroy, called for windv_reset or first thing in BuildCapturing.
Destroy(isBuild) ==
    /\ ctl = "ready"
    /\ isBuild => builds < MaxBuilds
    /\ state' = "Idle"
    /\ building' = isBuild
    /\ builds' = IF isBuild THEN builds + 1 ELSE builds
    /\ ctl' = "close"
    /\ UNCHANGED <<stopReason, api, status, writer, channel, duration, recs,
                   limit, source, wkr, locals, history>>

\* Faulty: the queue stays open, and Put and GetFor blocked on it.
DestroyCloseNothing ==
    /\ ctl = "close"
    /\ ctl' = "stopInput"
    /\ UNCHANGED <<state, stopReason, api, status, writer, channel, building,
                   duration, builds, recs, limit, source, wkr, locals,
                   history>>

DestroyClose ==
    /\ ctl = "close"
    /\ queue' = IF queue = "none" THEN "none" ELSE "closed"
    /\ closedBy' = ClosedBy("controller")
    /\ ctl' = "stopInput"
    /\ UNCHANGED <<state, stopReason, api, status, writer, load, building,
                   duration, builds, recs, limit, source, wkr, locals, left,
                   told, dropped>>

\* Stopping the graph waits for a streaming thread that is inside Receive.
DestroyStopInput ==
    /\ ctl = "stopInput"
    /\ src \in {"off", "idle", "ended"}
    /\ src' = "off"
    /\ ctl' = "join"
    /\ UNCHANGED <<state, stopReason, api, status, writer, channel, building,
                   duration, builds, recs, limit, frames, wkr, locals,
                   history>>

\* The locals of CaptureLoop as a thread starts with them.
FreshLocals ==
    /\ frame' = FALSE /\ capturing' = FALSE /\ wasCapturing' = FALSE
    /\ silence' = NoFrameYet /\ captureFile' = 0 /\ sinceDiskCheck' = 0
    /\ fileCounter' = 0 /\ reason' = "None" /\ resume' = "top"

\* The thread is gone, and its locals with it.
DestroyJoin ==
    /\ ctl = "join"
    /\ wkr \in {"none", "dead"}
    /\ wkr' = "none"
    /\ FreshLocals
    /\ ctl' = "release"
    /\ UNCHANGED <<state, stopReason, api, status, writer, channel, building,
                   duration, builds, recs, limit, source, history>>

\* m_fileFrameCount and m_dvTime are not among the counters that are reset.
DestroyRelease ==
    /\ ctl = "release"
    /\ queue' = "none" /\ load' = 0
    /\ writer' = NoFile
    /\ counter' = -1 /\ time' = -1
    /\ captureTime' = 0
    /\ stopReason' = "None"
    /\ ctl' = IF building THEN "create" ELSE "ready"
    /\ UNCHANGED <<state, target, error, fileFrameCount, most, building,
                   duration, builds, recs, limit, source, wkr, locals,
                   history>>

\* BuildCapturing drops the last error, also the one that the worker reported
\* while Destroy waited for it; then it opens the device, which may fail.
BuildCreate ==
    /\ ctl = "create"
    /\ error' = FALSE
    /\ dropped' = (dropped \/ (left /\ error))
    /\ \/ /\ ctl' = "ready"
          /\ UNCHANGED <<state, queue>>
       \/ /\ ctl' = "run"
          /\ queue' = "open"
          /\ state' = "CapturePaused"
    /\ UNCHANGED <<stopReason, target, captureTime, status, writer, load,
                   building, duration, builds, recs, limit, source, wkr,
                   locals, left, told, closedBy>>

\* The source graph runs, or fails to and BuildCapturing throws.
BuildRun ==
    /\ ctl = "run"
    /\ \/ src' = "idle" /\ ctl' = "startWorker"
       \/ src' = "off" /\ ctl' = "ready"
    /\ left' = FALSE /\ told' = FALSE /\ dropped' = FALSE
    /\ closedBy' = "nobody"
    /\ UNCHANGED <<state, stopReason, api, status, writer, channel, building,
                   duration, builds, recs, limit, frames, wkr, locals>>

BuildStartWorker ==
    /\ ctl = "startWorker"
    /\ wkr' = "begin"
    /\ ctl' = "ready"
    /\ UNCHANGED <<state, stopReason, api, status, writer, channel, building,
                   duration, builds, recs, limit, source, locals, history>>

-----------------------------------------------------------------------------
(* The controller: StartCapturing, StopCapturing                           *)

StartCapturing(d) ==
    /\ ctl = "ready"
    /\ state = "CapturePaused"
    /\ recs < MaxRecs
    /\ recs' = recs + 1
    /\ duration' = d
    /\ stopReason' = "None"
    /\ ctl' = "target"
    /\ UNCHANGED <<state, api, status, writer, channel, building, builds,
                   limit, source, wkr, locals, history>>

StartTarget ==
    /\ ctl = "target"
    /\ target' = recs
    /\ ctl' = "captureTime"
    /\ UNCHANGED <<state, stopReason, captureTime, error, status, writer,
                   channel, building, duration, builds, recs, limit, source,
                   wkr, locals, history>>

StartCaptureTime ==
    /\ ctl = "captureTime"
    /\ captureTime' = duration
    /\ ctl' = "state"
    /\ UNCHANGED <<state, stopReason, target, error, status, writer, channel,
                   building, duration, builds, recs, limit, source, wkr,
                   locals, history>>

StartState ==
    /\ ctl = "state"
    /\ state' = "Capturing"
    /\ ctl' = "ready"
    /\ UNCHANGED <<stopReason, api, status, writer, channel, building,
                   duration, builds, recs, limit, source, wkr, locals, left,
                   told, dropped, closedBy>>

\* The exchange fails, and the call does nothing, in any other state.
StopCapturing ==
    /\ ctl = "ready"
    /\ state = "Capturing"
    /\ state' = "CapturePaused"
    /\ UNCHANGED <<stopReason, api, status, writer, channel, control, source,
                   wkr, locals, history>>

\* windv_take_error, from the thread of the front end.
TakeError ==
    /\ error
    /\ error' = FALSE
    /\ left' = (left /\ wkr = "failed")
    /\ UNCHANGED <<state, stopReason, target, captureTime, status, writer,
                   channel, control, source, wkr, locals, told, dropped,
                   closedBy>>

\* windv_set_options, from the thread of the front end at any time; of the
\* options the one that the loop compares with what it has counted.
SetOptions(l) ==
    /\ limit' = l
    /\ most' = IF l > most THEN l ELSE most
    /\ UNCHANGED <<state, stopReason, api, time, counter, fileFrameCount,
                   writer, channel, ctl, building, duration, builds, recs,
                   source, wkr, locals, history>>

-----------------------------------------------------------------------------
(* The source: HandleFrame and EndOfStream on the streaming thread         *)

SourceUnchanged ==
    UNCHANGED <<state, stopReason, target, captureTime, status, writer,
                control, wkr, locals, left, dropped>>

HandleFrame ==
    /\ src = "idle"
    /\ frames < MaxFrames
    /\ frames' = frames + 1
    /\ src' \in {"put", "tooLarge"}
    /\ UNCHANGED <<channel, error, told, closedBy>>
    /\ SourceUnchanged

\* Put waits while the queue is full, and drops the frame once it is closed.
HandleFramePut ==
    /\ src = "put"
    /\ \/ queue = "closed" /\ UNCHANGED load
       \/ queue = "open" /\ load < QueueFrames /\ load' = load + 1
    /\ src' = "idle"
    /\ UNCHANGED <<queue, frames, error, told, closedBy>>
    /\ SourceUnchanged

\* Put throws, before it waits for anything: the frame is larger than a slot.
HandleFrameTooLarge ==
    /\ src = "tooLarge"
    /\ error' = TRUE /\ told' = TRUE
    /\ src' = "close"
    /\ UNCHANGED <<channel, frames, closedBy>>
    /\ SourceUnchanged

HandleFrameClose ==
    /\ src = "close"
    /\ queue' = "closed"
    /\ closedBy' = ClosedBy("error")
    /\ src' = "idle"
    /\ UNCHANGED <<load, frames, error, told>>
    /\ SourceUnchanged

EndOfStream ==
    /\ src = "idle"
    /\ queue' = "closed"
    /\ closedBy' = ClosedBy("endOfStream")
    /\ src' = "ended"
    /\ UNCHANGED <<load, frames, error, told>>
    /\ SourceUnchanged

-----------------------------------------------------------------------------
(* The worker: FinishWriter and FinishOnItsOwn                             *)

WorkerUnchanged ==
    UNCHANGED <<target, queue, control, source, dropped, closedBy>>

\* The writer is given up first; then finishing its file, that is renaming it
\* from its temporary name, succeeds or throws.
FinishWriter(then) ==
    /\ writer' = NoFile
    /\ \/ wkr' = then /\ UNCHANGED left
       \/ writer # NoFile /\ wkr' = "failed" /\ left' = TRUE
    /\ UNCHANGED <<state, stopReason, captureTime, error, status, load, told>>
    /\ WorkerUnchanged

\* The locals that one round sets anew.
Round == <<frame, capturing>>
\* The locals that live as long as the loop.
Memory == <<wasCapturing, silence, captureFile, sinceDiskCheck, fileCounter>>
Finishing == <<reason, resume>>

\* FinishOnItsOwn is entered with "reason" and goes back to "resume".
CallFinish(why, back) == reason' = why /\ resume' = back
ReturnFromFinish == wkr' = resume /\ reason' = "None" /\ resume' = "top"

FinishReason ==
    /\ wkr = "reason"
    /\ stopReason' = reason
    /\ wkr' = "exchange"
    /\ UNCHANGED <<state, captureTime, error, status, writer, load, locals,
                   left, told>>
    /\ WorkerUnchanged

FinishExchange ==
    /\ wkr = "exchange"
    /\ IF state = "Capturing"
       THEN state' = "Finished" /\ ReturnFromFinish
       ELSE wkr' = "undo" /\ UNCHANGED <<state, Finishing>>
    /\ UNCHANGED <<stopReason, captureTime, error, status, writer, load,
                   Round, Memory, left, told>>
    /\ WorkerUnchanged

\* Faulty: the reason stays when the exchange failed.
FinishUndoNothing ==
    /\ wkr = "undo"
    /\ ReturnFromFinish
    /\ UNCHANGED <<state, stopReason, captureTime, error, status, writer, load,
                   Round, Memory, left, told>>
    /\ WorkerUnchanged

FinishUndo ==
    /\ wkr = "undo"
    /\ stopReason' = "None"
    /\ ReturnFromFinish
    /\ UNCHANGED <<state, captureTime, error, status, writer, load, Round,
                   Memory, left, told>>
    /\ WorkerUnchanged

-----------------------------------------------------------------------------
(* The worker: CaptureLoop, once round per frame or timeout                *)

Shared == <<state, stopReason, captureTime, error>>

LoopBegin ==
    /\ wkr = "begin"
    /\ counter' = 0 /\ time' = 0
    /\ FreshLocals
    /\ wkr' = "top"
    /\ UNCHANGED <<Shared, fileFrameCount, most, writer, load, left, told>>
    /\ WorkerUnchanged

\* A round begins without the locals of the one before.
LoopTest ==
    /\ wkr = "top"
    /\ frame' = FALSE /\ capturing' = FALSE
    /\ wkr' = IF state = "Idle" THEN "exit" ELSE "get"
    /\ UNCHANGED <<Shared, status, writer, load, Memory, Finishing,
                   left, told>>
    /\ WorkerUnchanged

\* Faulty: a frame is taken from an empty queue.
LoopGetUntested ==
    /\ wkr = "get"
    /\ frame' = TRUE
    /\ load' = load - 1
    /\ wkr' = "sample"
    /\ UNCHANGED <<Shared, status, writer, capturing, Memory, Finishing, left,
                   told>>
    /\ WorkerUnchanged

\* GetFor: the oldest frame, or nothing once it timed out or the queue closed.
LoopGet ==
    /\ wkr = "get"
    /\ frame' = (load > 0)
    /\ load' = IF load > 0 THEN load - 1 ELSE load
    /\ wkr' = "sample"
    /\ UNCHANGED <<Shared, status, writer, capturing, Memory, Finishing, left,
                   told>>
    /\ WorkerUnchanged

AfterSample == IF frame THEN "frame" ELSE "noFrame"

\* The state as this round sees it; REC was pressed if the last one saw less.
LoopSample ==
    /\ wkr = "sample"
    /\ capturing' = (state = "Capturing")
    /\ IF state = "Capturing" /\ ~wasCapturing
       THEN wkr' = "arm" /\ UNCHANGED wasCapturing
       ELSE wkr' = AfterSample /\ wasCapturing' = (state = "Capturing")
    /\ UNCHANGED <<Shared, status, writer, load, frame, silence, captureFile,
                   sinceDiskCheck, fileCounter, Finishing, left, told>>
    /\ WorkerUnchanged

\* Once per REC: a fresh signal watch, and the folder to check for space.
LoopArm ==
    /\ wkr = "arm"
    /\ wasCapturing' = TRUE
    /\ silence' = NoFrameYet
    /\ captureFile' = target
    /\ sinceDiskCheck' = DiskCheckFrames
    /\ wkr' = AfterSample
    /\ UNCHANGED <<Shared, status, writer, load, Round, fileCounter,
                   Finishing, left, told>>
    /\ WorkerUnchanged

SilenceNow == IF silence \in 0 .. LossPolls - 1 THEN silence + 1 ELSE silence
SignalLost == LossPolls > 0 /\ SilenceNow = LossPolls

\* Faulty: the signal watch is asked only when a frame came.
LoopNoFrameUnwatched ==
    /\ wkr = "noFrame"
    /\ wkr' = IF queue = "closed" THEN "exit" ELSE "top"
    /\ UNCHANGED <<Shared, status, writer, load, locals, left, told>>
    /\ WorkerUnchanged

\* Without a frame: the queue was closed, or the signal may be lost.
LoopNoFrame ==
    /\ wkr = "noFrame"
    /\ silence' = IF capturing THEN SilenceNow ELSE silence
    /\ wkr' = IF queue = "closed" THEN "exit"
              ELSE IF capturing /\ SignalLost THEN "lost" ELSE "top"
    /\ UNCHANGED <<Shared, status, writer, load, Round, wasCapturing,
                   captureFile, sinceDiskCheck, fileCounter, Finishing, left,
                   told>>
    /\ WorkerUnchanged

LoopLost ==
    /\ wkr = "lost"
    /\ CallFinish("SignalLost", "top")
    /\ FinishWriter("reason")
    /\ UNCHANGED <<Round, Memory>>

\* With a frame: about once a second of captured video, look at the disk.
LoopFrame ==
    /\ wkr = "frame"
    /\ silence' = IF capturing THEN 0 ELSE silence
    /\ IF state # "Capturing"
       THEN wkr' = "write" /\ UNCHANGED sinceDiskCheck
       ELSE IF sinceDiskCheck + 1 < DiskCheckFrames
       THEN wkr' = "write" /\ sinceDiskCheck' = sinceDiskCheck + 1
       ELSE wkr' = "disk" /\ sinceDiskCheck' = 0
    /\ UNCHANGED <<Shared, status, writer, load, Round, wasCapturing,
                   captureFile, fileCounter, Finishing, left, told>>
    /\ WorkerUnchanged

LoopDiskOk ==
    /\ wkr = "disk"
    /\ wkr' = "write"
    /\ UNCHANGED <<Shared, status, writer, load, locals, left, told>>
    /\ WorkerUnchanged

\* Faulty: the capture is stopped before its file is finished.
LoopDiskFullUnfinished ==
    /\ wkr = "disk"
    /\ CallFinish("DiskFull", "write")
    /\ wkr' = "reason"
    /\ UNCHANGED <<Shared, status, writer, load, Round, Memory, left, told>>
    /\ WorkerUnchanged

LoopDiskFull ==
    /\ wkr = "disk"
    /\ CallFinish("DiskFull", "write")
    /\ FinishWriter("reason")
    /\ UNCHANGED <<Round, Memory>>

LoopWrite ==
    /\ wkr = "write"
    /\ wkr' = IF state = "Capturing" THEN "split" ELSE "discard"
    /\ UNCHANGED <<Shared, status, writer, load, locals, left, told>>
    /\ WorkerUnchanged

\* A full file, or a jump of the recording time, starts a new file.
LoopSplit ==
    /\ wkr = "split"
    /\ writer # NoFile
    /\ FinishWriter("open")
    /\ UNCHANGED locals

\* Faulty: the file is looked at only when a scene ends.
LoopKeepUnlimited ==
    /\ wkr = "split"
    /\ wkr' = "open"
    /\ UNCHANGED <<Shared, status, writer, load, locals, left, told>>
    /\ WorkerUnchanged

\* The file is not full and the scene goes on, or there is no file yet.
LoopKeep ==
    /\ wkr = "split"
    /\ writer = NoFile \/ fileFrameCount < limit
    /\ wkr' = "open"
    /\ UNCHANGED <<Shared, status, writer, load, locals, left, told>>
    /\ WorkerUnchanged

LoopOpen ==
    /\ wkr = "open"
    /\ IF writer # NoFile
       THEN UNCHANGED <<writer, fileFrameCount, most, fileCounter>>
       ELSE /\ writer' = target /\ fileFrameCount' = 0 /\ fileCounter' = 0
            /\ most' = limit
    /\ wkr' = "put"
    /\ UNCHANGED <<Shared, time, counter, load, Round, wasCapturing, silence,
                   captureFile, sinceDiskCheck, Finishing, left, told>>
    /\ WorkerUnchanged

LoopPut ==
    /\ wkr = "put"
    /\ fileFrameCount' = IF fileCounter % EveryNth = 0
                         THEN fileFrameCount + 1 ELSE fileFrameCount
    /\ fileCounter' = fileCounter + 1
    /\ counter' = counter + 1
    /\ time' = time + 1
    /\ wkr' = "duration"
    /\ UNCHANGED <<Shared, writer, most, load, Round, wasCapturing, silence,
                   captureFile, sinceDiskCheck, Finishing, left, told>>
    /\ WorkerUnchanged

\* Creating the file, or writing a frame that is kept to it, throws.
LoopWriteFails ==
    /\ \/ wkr = "open" /\ writer = NoFile
       \/ wkr = "put" /\ fileCounter % EveryNth = 0
    /\ wkr' = "failed"
    /\ UNCHANGED <<Shared, status, writer, load, locals, left, told>>
    /\ WorkerUnchanged

LoopDuration ==
    /\ wkr = "duration"
    /\ wkr' = IF captureTime # 0 /\ time >= captureTime
                THEN "reached"
                ELSE "top"
    /\ UNCHANGED <<Shared, status, writer, load, locals, left, told>>
    /\ WorkerUnchanged

LoopReached ==
    /\ wkr = "reached"
    /\ captureTime' = 0
    /\ CallFinish("Duration", "top")
    /\ wkr' = "reason"
    /\ UNCHANGED <<state, stopReason, error, status, writer, load, Round,
                   Memory, left, told>>
    /\ WorkerUnchanged

\* A frame that is only previewed ends the file that was being written.
LoopDiscard ==
    /\ wkr = "discard"
    /\ FinishWriter("counters")
    /\ UNCHANGED locals

LoopCounters ==
    /\ wkr = "counters"
    /\ IF state = "Finished"
       THEN UNCHANGED status
       ELSE /\ counter' = 0 /\ time' = 0 /\ fileFrameCount' = -1
            /\ UNCHANGED most
    /\ wkr' = "top"
    /\ UNCHANGED <<Shared, writer, load, locals, left, told>>
    /\ WorkerUnchanged

LoopExit ==
    /\ wkr = "exit"
    /\ FinishWriter("dead")
    /\ UNCHANGED locals

\* Faulty: the exception is caught and forgotten.
ReportNothing ==
    /\ wkr = "failed"
    /\ writer' = NoFile
    /\ \/ UNCHANGED left
       \/ writer # NoFile /\ left' = TRUE
    /\ wkr' = "dead"
    /\ UNCHANGED <<Shared, status, load, locals, told>>
    /\ WorkerUnchanged

\* CapturingThread catches: the error is reported, and the file, if it is
\* still open, finished by the destructor, which keeps a failure to itself.
ReportError ==
    /\ wkr = "failed"
    /\ error' = TRUE /\ told' = TRUE
    /\ writer' = NoFile
    /\ \/ UNCHANGED left
       \/ writer # NoFile /\ left' = TRUE
    /\ wkr' = "dead"
    /\ UNCHANGED <<state, stopReason, captureTime, status, load, locals>>
    /\ WorkerUnchanged

-----------------------------------------------------------------------------

ControllerStep ==
    \/ DestroyClose \/ DestroyStopInput \/ DestroyJoin \/ DestroyRelease
    \/ BuildCreate \/ BuildRun \/ BuildStartWorker
    \/ StartTarget \/ StartCaptureTime \/ StartState

SourceStep == HandleFramePut \/ HandleFrameTooLarge \/ HandleFrameClose

WorkerStep ==
    \/ FinishReason \/ FinishExchange \/ FinishUndo
    \/ LoopBegin \/ LoopTest \/ LoopGet \/ LoopSample \/ LoopArm
    \/ LoopNoFrame \/ LoopLost
    \/ LoopFrame \/ LoopDiskOk \/ LoopDiskFull \/ LoopWrite
    \/ LoopSplit \/ LoopKeep \/ LoopOpen \/ LoopPut \/ LoopWriteFails
    \/ LoopDuration \/ LoopReached \/ LoopDiscard \/ LoopCounters
    \/ LoopExit \/ ReportError

Next ==
    \/ \E isBuild \in BOOLEAN : Destroy(isBuild)
    \/ \E d \in Durations : StartCapturing(d)
    \/ StopCapturing
    \/ ControllerStep
    \/ TakeError
    \/ \E l \in Limits : SetOptions(l)
    \/ HandleFrame \/ EndOfStream \/ SourceStep
    \/ WorkerStep

Spec == Init /\ [][Next]_vars

(***************************************************************************)
(* Each of the three threads runs on as long as it can.  Nobody promises   *)
(* an API call, a frame, the end of the stream or a look at the error.     *)
(***************************************************************************)
FairSpec ==
    /\ Spec
    /\ WF_vars(ControllerStep)
    /\ WF_vars(SourceStep)
    /\ WF_vars(WorkerStep)

-----------------------------------------------------------------------------
(* Properties                                                              *)

TypeOK ==
    /\ state \in {"Idle", "CapturePaused", "Capturing", "Finished"}
    /\ stopReason \in {"None", "Duration", "SignalLost", "DiskFull"}
    /\ target \in 0 .. MaxRecs /\ captureTime \in Durations \cup {0}
    /\ time \in Int /\ counter \in Int /\ fileFrameCount \in Int
    /\ writer \in 0 .. MaxRecs
    /\ error \in BOOLEAN
    /\ queue \in {"none", "open", "closed"} /\ load \in 0 .. QueueFrames
    /\ ctl \in {"ready", "close", "stopInput", "join", "release", "create",
                "run", "startWorker", "target", "captureTime", "state"}
    /\ building \in BOOLEAN /\ duration \in Durations \cup {0}
    /\ src \in {"off", "idle", "put", "tooLarge", "close", "ended"}
    /\ frames \in 0 .. MaxFrames
    /\ wkr \in {"none", "begin", "top", "get", "sample", "arm", "noFrame",
                "lost", "frame", "disk", "write", "split", "open", "put",
                "duration", "reached", "reason", "exchange", "undo",
                "discard", "counters", "exit", "failed", "dead"}
    /\ frame \in BOOLEAN /\ capturing \in BOOLEAN /\ wasCapturing \in BOOLEAN
    /\ silence \in {NoFrameYet} \cup 0 .. LossPolls
    /\ captureFile \in 0 .. MaxRecs
    /\ sinceDiskCheck \in 0 .. DiskCheckFrames
    /\ fileCounter \in Nat
    /\ reason \in {"None", "Duration", "SignalLost", "DiskFull"}
    /\ resume \in {"top", "write"}
    /\ builds \in 0 .. MaxBuilds /\ recs \in 0 .. MaxRecs
    /\ left \in BOOLEAN /\ told \in BOOLEAN /\ dropped \in BOOLEAN
    /\ limit \in Limits /\ most \in Limits
    /\ closedBy \in {"nobody", "controller", "error", "endOfStream"}

\* "Capture stopped, the file was finished" (windv_api.h, WINDV_STOP_DISK_FULL;
\* the same is said of a lost signal): whoever sees Finished with one of those
\* reasons finds no file still being written.
FinishedFileSaved ==
    state = "Finished" /\ stopReason \in {"SignalLost", "DiskFull"} =>
        writer = NoFile

\* A file left behind under its temporary name is an error that is pending or
\* was taken since, in this pipeline and after it; the one way to lose it is
\* that BuildCapturing found it pending and threw it away (DVEngine.cpp:177).
LeftFileReported == left /\ wkr # "failed" => error \/ dropped

\* A pipeline is taken down completely: when Destroy returns no thread, frame
\* or file of it is left, whatever the three threads were doing.
ResetIsComplete ==
    state = "Idle" /\ ctl \in {"ready", "create"} =>
        /\ src = "off" /\ wkr = "none" /\ writer = NoFile
        /\ queue = "none" /\ load = 0
        /\ stopReason = "None"

\* A worker that ended under a pipeline still in use has either reported an
\* error or met the end of the stream.
DeadWorkerExplained ==
    wkr = "dead" /\ state # "Idle" => told \/ closedBy = "endOfStream"

\* A reason written ahead of a transition that then failed is taken back: while
\* the worker is not in between, only Finished has a reason.
NoStaleReason ==
    stopReason # "None" /\ wkr \notin {"exchange", "undo"} =>
        state = "Finished" \/ ctl \in {"close", "stopInput", "join", "release"}

\* No file exceeds the limits it was written under: it has no more frames than
\* the highest m_maxAVIFrames since it was opened, however that is lowered and
\* raised between the worker's look at it and the frame it then writes.
FileWithinLimit == fileFrameCount <= most

\* The worker never overrides the controller: Finished is entered from
\* Capturing only, and a pipeline being destroyed stays Idle.
FinishedFromCapturing ==
    [][/\ state' = "Finished" /\ state # "Finished" => state = "Capturing"
       /\ ctl \in {"close", "stopInput", "join", "release"} => state' = "Idle"
      ]_vars

\* Destroy, and so closing the window or switching tabs, always returns: the
\* source blocked in Put and the worker wherever it is are both released.
DestroyReturns == ctl = "close" ~> ctl \in {"ready", "create"}

\* With the signal watch on, a capture that has seen video does not run on
\* once no more arrives.
SignalLossNoticed ==
    (LossPolls > 0 /\ state = "Capturing" /\ wasCapturing
        /\ silence # NoFrameYet /\ src # "off")
    ~> (state # "Capturing" \/ wkr = "dead")

-----------------------------------------------------------------------------
(* What the documentation claims, and the races refute                     *)

\* REC starts and stops writing files (windv_api.h:160, README.md:148): once
\* the worker has seen the REC, frames go to the file that REC was given.
WritesItsOwnFile == wkr = "put" /\ captureFile = target => writer = target
=============================================================================
