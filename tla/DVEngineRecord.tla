--------------------------- MODULE DVEngineRecord ---------------------------
(***************************************************************************)
(* engine/DVEngine while recording to tape, with engine/AviSource that     *)
(* feeds it: the engine thread (the controller), the streaming thread of   *)
(* the AVI file being read (the reader), the thread that replaces a reader *)
(* that has ended (the joiner), and the record thread (the worker).        *)
(*                                                                         *)
(* The frame queue is the channel FrameQueue implements, with its frames.  *)
(* A frame is <<file, position>>.  The files are those that FileList finds *)
(* for the user's text.  A file that cannot be opened or played for other  *)
(* reasons than its format, and an output that fails, are free choices.    *)
(* IMediaControl::Run and Stop of one graph exclude each other.            *)
(***************************************************************************)
EXTENDS Integers, Sequences, SequencesExt, FileList

CONSTANTS
    QueueFrames,        \* kQueueFrames
    Texts,              \* what the user may ask to record
    MaxBuilds,          \* bound: BuildRecording calls
    MaxStarts           \* bound: StartRecording calls

ASSUME RecordAssumption ==
    /\ QueueFrames \in Nat \ {0}
    /\ \A entry \in Entries : entry.frames \in Nat /\ entry.size \in Nat
    /\ Texts \subseteq Seq(Seq(STRING))
    /\ MaxBuilds \in Nat /\ MaxStarts \in Nat

NoReader == 0           \* m_reader is null
NoFrame == <<0, 0>>

VARIABLES
    state, stopReason,  \* m_state, m_stopReason
    error,              \* m_error holds a message
    queue, buffer,      \* m_queue: "none", "open" or "closed"; its frames
    files, next,        \* m_filenames; m_next
    reader,             \* the file m_reader plays
    stopping,           \* m_stopping
    stopRequested,      \* the joiner's stop token
    readerEnded,        \* m_readerEndedFlag
    ctl, building,      \* the controller's place in a call
    rdr, pos,           \* the reader's place; frames it has read
    jnr,                \* the joiner's place in JoinerThread
    wkr, frame,         \* the worker's place in RecordLoop; its frame
    builds, starts,     \* counts of calls, for their bounds
    \* history of the current pipeline
    sent,               \* frames sent to tape, without repetitions
    told                \* ReportError was called

control == <<ctl, building, builds, starts>>
joining == <<next, reader, stopping, stopRequested, readerEnded, jnr>>
reading == <<rdr, pos>>
working == <<wkr, frame>>
vars == <<state, stopReason, error, queue, buffer, files, joining, control,
          reading, working, sent, told>>

Init ==
    /\ state = "Idle" /\ stopReason = "None"
    /\ error = FALSE
    /\ queue = "none" /\ buffer = <<>>
    /\ files = <<>> /\ next = 1 /\ reader = NoReader
    /\ stopping = FALSE /\ stopRequested = FALSE /\ readerEnded = FALSE
    /\ ctl = "ready" /\ building = FALSE
    /\ rdr = "off" /\ pos = 0
    /\ jnr = "none"
    /\ wkr = "none" /\ frame = NoFrame
    /\ builds = 0 /\ starts = 0
    /\ sent = <<>> /\ told = FALSE

-----------------------------------------------------------------------------
(* The reader's graph: CInputGraph, which CAVIReader is                    *)

\* Run: its streaming thread starts, unless the graph cannot run.
RunReader(place, started, failed) ==
    \/ place' = started /\ rdr' = "stream" /\ pos' = 0
    \/ place' = failed /\ UNCHANGED reading

\* CInputPin::Receive, inside the joiner's HandleFrame.
Receiving == rdr \in {"put", "tooLarge", "close"}

\* Stopping the graph waits for a streaming thread inside Receive.
StopReader ==
    /\ ~Receiving
    /\ rdr' = "off" /\ reader' = NoReader

\* CInputPin::EndOfStream calls the joiner's.
ReaderAtEnd == rdr = "stream" /\ pos = files[reader].frames

-----------------------------------------------------------------------------
(* The controller: Destroy                                                 *)

Destroy(isBuild) ==
    /\ ctl = "ready"
    /\ isBuild => builds < MaxBuilds
    /\ state' = "Idle"
    /\ building' = isBuild
    /\ builds' = IF isBuild THEN builds + 1 ELSE builds
    /\ ctl' = "close"
    /\ UNCHANGED <<stopReason, error, queue, buffer, files, joining, starts,
                   reading, working, sent, told>>

\* Faulty: the queue stays open.
DestroyCloseNothing ==
    /\ ctl = "close"
    /\ ctl' = "stopJoiner"
    /\ UNCHANGED <<state, stopReason, error, queue, buffer, files, joining,
                   building, builds, starts, reading, working, sent, told>>

DestroyClose ==
    /\ ctl = "close"
    /\ queue' = IF queue = "none" THEN "none" ELSE "closed"
    /\ ctl' = "stopJoiner"
    /\ UNCHANGED <<state, stopReason, error, buffer, files, joining, building,
                   builds, starts, reading, working, sent, told>>

\* CAVIJoiner::Stop: frames are dropped from now on, the thread is told to end.
JoinerStop ==
    /\ ctl = "stopJoiner"
    /\ stopping' = TRUE
    /\ stopRequested' = TRUE
    /\ ctl' = "joinJoiner"
    /\ UNCHANGED <<state, stopReason, error, queue, buffer, files, next,
                   reader, readerEnded, jnr, building, builds, starts,
                   reading, working, sent, told>>

JoinerStopJoin ==
    /\ ctl = "joinJoiner"
    /\ jnr \in {"none", "done"}
    /\ jnr' = "none"
    /\ ctl' = "stopReader"
    /\ UNCHANGED <<state, stopReason, error, queue, buffer, files, next,
                   reader, stopping, stopRequested, readerEnded, building,
                   builds, starts, reading, working, sent, told>>

JoinerStopReader ==
    /\ ctl = "stopReader"
    /\ StopReader
    /\ stopping' = FALSE
    /\ ctl' = "join"
    /\ UNCHANGED <<state, stopReason, error, queue, buffer, files, next,
                   stopRequested, readerEnded, jnr, building, builds, starts,
                   pos, working, sent, told>>

DestroyJoin ==
    /\ ctl = "join"
    /\ wkr \in {"none", "dead"}
    /\ wkr' = "none"
    /\ ctl' = "release"
    /\ UNCHANGED <<state, stopReason, error, queue, buffer, files, joining,
                   building, builds, starts, reading, frame, sent, told>>

DestroyRelease ==
    /\ ctl = "release"
    /\ queue' = "none" /\ buffer' = <<>>
    /\ frame' = NoFrame
    /\ stopReason' = "None"
    /\ ctl' = IF building THEN "create" ELSE "ready"
    /\ UNCHANGED <<state, error, files, joining, building, builds, starts,
                   reading, wkr, sent, told>>

-----------------------------------------------------------------------------
(* The controller: BuildRecording, StartRecording, StopRecording           *)

\* The file list, its first file and the output are opened; any may fail.
BuildCreate ==
    /\ ctl = "create"
    /\ error' = FALSE
    /\ sent' = <<>> /\ told' = FALSE
    /\ \/ ctl' = "ready" /\ UNCHANGED <<state, queue, files, next, reader>>
       \/ /\ \E text \in Texts : files' = Filenames(text)
          /\ files' # <<>> /\ IsDVFile(files'[1])
          /\ reader' = 1 /\ next' = 2
          /\ queue' = "open"
          /\ state' = "RecordPaused"
          /\ ctl' = "runJoiner"
    /\ UNCHANGED <<stopReason, buffer, stopping, stopRequested, readerEnded,
                   jnr, building, builds, starts, reading, working>>

\* CAVIJoiner::Run starts its thread with a fresh stop token; it is a new
\* joiner, whose flag is not set.
BuildRunJoiner ==
    /\ ctl = "runJoiner"
    /\ jnr' = "wait"
    /\ stopRequested' = FALSE /\ readerEnded' = FALSE
    /\ ctl' = "runReader"
    /\ UNCHANGED <<state, stopReason, error, queue, buffer, files, next,
                   reader, stopping, building, builds, starts, reading,
                   working, sent, told>>

\* The first file plays, or fails to and BuildRecording throws.
BuildRunReader ==
    /\ ctl = "runReader"
    /\ RunReader(ctl, "startWorker", "ready")
    /\ UNCHANGED <<state, stopReason, error, queue, buffer, files, joining,
                   building, builds, starts, working, sent, told>>

BuildStartWorker ==
    /\ ctl = "startWorker"
    /\ wkr' = "first"
    /\ ctl' = "ready"
    /\ UNCHANGED <<state, stopReason, error, queue, buffer, files, joining,
                   building, builds, starts, reading, frame, sent, told>>

\* windv_record_start does not look at the state: the reason goes in any case.
StartRecording ==
    /\ ctl = "ready"
    /\ starts < MaxStarts
    /\ starts' = starts + 1
    /\ stopReason' = "None"
    /\ ctl' = "exchange"
    /\ UNCHANGED <<state, error, queue, buffer, files, joining, building,
                   builds, reading, working, sent, told>>

StartExchange ==
    /\ ctl = "exchange"
    /\ state' = IF state = "RecordPaused" THEN "Recording" ELSE state
    /\ ctl' = "ready"
    /\ UNCHANGED <<stopReason, error, queue, buffer, files, joining, building,
                   builds, starts, reading, working, sent, told>>

StopRecording ==
    /\ ctl = "ready"
    /\ state = "Recording"
    /\ state' = "RecordPaused"
    /\ UNCHANGED <<stopReason, error, queue, buffer, files, joining, control,
                   reading, working, sent, told>>

TakeError ==
    /\ error
    /\ error' = FALSE
    /\ UNCHANGED <<state, stopReason, queue, buffer, files, joining, control,
                   reading, working, sent, told>>

-----------------------------------------------------------------------------
(* The reader: CAVIJoiner::HandleFrame and EndOfStream, which it calls     *)

ReaderUnchanged ==
    UNCHANGED <<state, stopReason, files, next, reader, stopping,
                stopRequested, jnr, control, working, sent>>

Fits(file) == file.size <= SlotSize(files[1])

\* The next frame; it goes nowhere while the joiner is being stopped.
HandleFrame ==
    /\ rdr = "stream"
    /\ pos < files[reader].frames
    /\ pos' = pos + 1
    /\ rdr' = CASE stopping -> "stream"
               [] ~stopping /\ Fits(files[reader]) -> "put"
               [] OTHER -> "tooLarge"
    /\ UNCHANGED <<error, queue, buffer, readerEnded, told>>
    /\ ReaderUnchanged

\* Faulty: a frame is stored although the queue is full.
HandleFramePutUntested ==
    /\ rdr = "put"
    /\ \/ queue = "closed" /\ UNCHANGED buffer
       \/ queue = "open" /\ buffer' = Append(buffer, <<reader, pos>>)
    /\ rdr' = "stream"
    /\ UNCHANGED <<error, queue, readerEnded, pos, told>>
    /\ ReaderUnchanged

HandleFramePut ==
    /\ rdr = "put"
    /\ \/ queue = "closed" /\ UNCHANGED buffer
       \/ /\ queue = "open" /\ Len(buffer) < QueueFrames
          /\ buffer' = Append(buffer, <<reader, pos>>)
    /\ rdr' = "stream"
    /\ UNCHANGED <<error, queue, readerEnded, pos, told>>
    /\ ReaderUnchanged

\* The frame is larger than the slots of the queue.
HandleFrameTooLarge ==
    /\ rdr = "tooLarge"
    /\ error' = TRUE /\ told' = TRUE
    /\ rdr' = "close"
    /\ UNCHANGED <<queue, buffer, readerEnded, pos>>
    /\ ReaderUnchanged

HandleFrameClose ==
    /\ rdr = "close"
    /\ queue' = "closed"
    /\ rdr' = "stream"
    /\ UNCHANGED <<error, buffer, readerEnded, pos, told>>
    /\ ReaderUnchanged

\* Faulty: the end of each file is handed on as the end of the recording.
EndOfStreamForwarded ==
    /\ ReaderAtEnd
    /\ queue' = "closed"
    /\ readerEnded' = TRUE
    /\ rdr' = "ended"
    /\ UNCHANGED <<error, buffer, pos, told>>
    /\ ReaderUnchanged

EndOfStream ==
    /\ ReaderAtEnd
    /\ readerEnded' = TRUE
    /\ rdr' = "ended"
    /\ UNCHANGED <<error, queue, buffer, pos, told>>
    /\ ReaderUnchanged

-----------------------------------------------------------------------------
(* The joiner: JoinerThread                                                *)

JoinerUnchanged ==
    UNCHANGED <<state, stopReason, buffer, files, stopping, stopRequested,
                control, working, sent>>

\* Faulty: the flag is not put back.
JoinerWaitKeepFlag ==
    /\ jnr = "wait"
    /\ \/ readerEnded /\ jnr' = "reset"
       \/ ~readerEnded /\ stopRequested /\ jnr' = "done"
    /\ UNCHANGED <<error, queue, next, reader, readerEnded, reading, told>>
    /\ JoinerUnchanged

\* A reader that has ended comes before a stop that was requested.
JoinerWait ==
    /\ jnr = "wait"
    /\ \/ readerEnded /\ readerEnded' = FALSE /\ jnr' = "reset"
       \/ ~readerEnded /\ stopRequested /\ jnr' = "done"
          /\ UNCHANGED readerEnded
    /\ UNCHANGED <<error, queue, next, reader, reading, told>>
    /\ JoinerUnchanged

\* m_reader.reset waits for its streaming thread to leave Receive.
JoinerReset ==
    /\ jnr = "reset"
    /\ StopReader
    /\ jnr' = IF next > Len(files) THEN "endOfStream" ELSE "open"
    /\ UNCHANGED <<error, queue, next, readerEnded, pos, told>>
    /\ JoinerUnchanged

\* Faulty: the thread ends without a word after the last file.
JoinerEndSilently ==
    /\ jnr = "endOfStream"
    /\ jnr' = "done"
    /\ UNCHANGED <<error, queue, next, reader, readerEnded, reading, told>>
    /\ JoinerUnchanged

JoinerEndOfStream ==
    /\ jnr = "endOfStream"
    /\ queue' = "closed"
    /\ jnr' = "done"
    /\ UNCHANGED <<error, next, reader, readerEnded, reading, told>>
    /\ JoinerUnchanged

\* m_next moves on whether or not the file can be opened.
JoinerOpen ==
    /\ jnr = "open"
    /\ next' = next + 1
    /\ \/ IsDVFile(files[next]) /\ reader' = next /\ jnr' = "run"
       \/ UNCHANGED reader /\ jnr' = "error"
    /\ UNCHANGED <<error, queue, readerEnded, reading, told>>
    /\ JoinerUnchanged

JoinerRun ==
    /\ jnr = "run"
    /\ RunReader(jnr, "wait", "error")
    /\ UNCHANGED <<error, queue, next, reader, readerEnded, told>>
    /\ JoinerUnchanged

\* SourceError: ReportError, then the queue is closed.
SourceError ==
    /\ jnr = "error"
    /\ error' = TRUE /\ told' = TRUE
    /\ jnr' = "errorClose"
    /\ UNCHANGED <<queue, next, reader, readerEnded, reading>>
    /\ JoinerUnchanged

SourceErrorClose ==
    /\ jnr = "errorClose"
    /\ queue' = "closed"
    /\ jnr' = "done"
    /\ UNCHANGED <<error, next, reader, readerEnded, reading, told>>
    /\ JoinerUnchanged

-----------------------------------------------------------------------------
(* The worker: RecordLoop                                                  *)

WorkerUnchanged == UNCHANGED <<queue, files, joining, control, reading>>

\* Get waits for a frame, or for the queue to be closed and drained.
TakeFrame == frame' = Head(buffer) /\ buffer' = Tail(buffer)
Drained == queue = "closed" /\ buffer = <<>>

LoopFirst ==
    /\ wkr = "first"
    /\ \/ buffer # <<>> /\ TakeFrame /\ wkr' = "top"
       \/ Drained /\ wkr' = "dead" /\ UNCHANGED <<buffer, frame>>
    /\ UNCHANGED <<state, stopReason, error, sent, told>>
    /\ WorkerUnchanged

LoopTest ==
    /\ wkr = "top"
    /\ wkr' = IF state = "Idle" THEN "dead" ELSE "send"
    /\ UNCHANGED <<state, stopReason, error, buffer, frame, sent, told>>
    /\ WorkerUnchanged

\* The frame goes to the output, once more while the recording is paused.
LoopSend ==
    /\ wkr = "send"
    /\ \/ /\ sent' = IF sent # <<>> /\ Last(sent) = frame
                     THEN sent ELSE Append(sent, frame)
          /\ wkr' = "sent"
       \/ UNCHANGED sent /\ wkr' = "failed"
    /\ UNCHANGED <<state, stopReason, error, buffer, frame, told>>
    /\ WorkerUnchanged

LoopRecording ==
    /\ wkr = "sent"
    /\ wkr' = IF state = "Recording" THEN "next" ELSE "top"
    /\ UNCHANGED <<state, stopReason, error, buffer, frame, sent, told>>
    /\ WorkerUnchanged

LoopNext ==
    /\ wkr = "next"
    /\ \/ buffer # <<>> /\ TakeFrame /\ wkr' = "top"
       \/ Drained /\ wkr' = "reason" /\ UNCHANGED <<buffer, frame>>
    /\ UNCHANGED <<state, stopReason, error, sent, told>>
    /\ WorkerUnchanged

FinishReason ==
    /\ wkr = "reason"
    /\ stopReason' = "EndOfFiles"
    /\ wkr' = "exchange"
    /\ UNCHANGED <<state, error, buffer, frame, sent, told>>
    /\ WorkerUnchanged

FinishExchange ==
    /\ wkr = "exchange"
    /\ IF state = "Recording"
       THEN state' = "Finished" /\ wkr' = "top"
       ELSE wkr' = "undo" /\ UNCHANGED state
    /\ UNCHANGED <<stopReason, error, buffer, frame, sent, told>>
    /\ WorkerUnchanged

FinishUndo ==
    /\ wkr = "undo"
    /\ stopReason' = "None"
    /\ wkr' = "top"
    /\ UNCHANGED <<state, error, buffer, frame, sent, told>>
    /\ WorkerUnchanged

\* RecordingThread catches what the output throws.
ReportError ==
    /\ wkr = "failed"
    /\ error' = TRUE /\ told' = TRUE
    /\ wkr' = "dead"
    /\ UNCHANGED <<state, stopReason, buffer, frame, sent>>
    /\ WorkerUnchanged

-----------------------------------------------------------------------------

ControllerStep ==
    \/ DestroyClose \/ JoinerStop \/ JoinerStopJoin \/ JoinerStopReader
    \/ DestroyJoin \/ DestroyRelease
    \/ BuildCreate \/ BuildRunJoiner \/ BuildRunReader \/ BuildStartWorker
    \/ StartExchange

ReaderStep ==
    \/ HandleFrame \/ HandleFramePut \/ HandleFrameTooLarge
    \/ HandleFrameClose \/ EndOfStream

JoinerStep ==
    \/ JoinerWait \/ JoinerReset \/ JoinerEndOfStream \/ JoinerOpen
    \/ JoinerRun \/ SourceError \/ SourceErrorClose

WorkerStep ==
    \/ LoopFirst \/ LoopTest \/ LoopSend \/ LoopRecording \/ LoopNext
    \/ FinishReason \/ FinishExchange \/ FinishUndo \/ ReportError

Next ==
    \/ \E isBuild \in BOOLEAN : Destroy(isBuild)
    \/ StartRecording \/ StopRecording
    \/ ControllerStep
    \/ TakeError
    \/ ReaderStep
    \/ JoinerStep
    \/ WorkerStep

Spec == Init /\ [][Next]_vars

(***************************************************************************)
(* The four threads run on as long as they can: a file is read, and the    *)
(* output takes a frame, at their own pace.  No call is promised.          *)
(***************************************************************************)
FairSpec ==
    /\ Spec
    /\ WF_vars(ControllerStep)
    /\ WF_vars(ReaderStep)
    /\ WF_vars(JoinerStep)
    /\ WF_vars(WorkerStep)

-----------------------------------------------------------------------------
(* Properties                                                              *)

TypeOK ==
    /\ state \in {"Idle", "RecordPaused", "Recording", "Finished"}
    /\ stopReason \in {"None", "EndOfFiles"}
    /\ error \in BOOLEAN
    /\ queue \in {"none", "open", "closed"} /\ Len(buffer) \in 0 .. QueueFrames
    /\ files \in Seq(Entries) /\ next \in 1 .. Len(files) + 1
    /\ reader \in 0 .. Len(files)
    /\ stopping \in BOOLEAN /\ stopRequested \in BOOLEAN
    /\ readerEnded \in BOOLEAN
    /\ ctl \in {"ready", "close", "stopJoiner", "joinJoiner", "stopReader",
                "join", "release", "create", "runJoiner", "runReader",
                "startWorker", "exchange"}
    /\ building \in BOOLEAN
    /\ rdr \in {"off", "stream", "put", "tooLarge", "close", "ended"}
    /\ rdr = "stream" => pos \in 0 .. files[reader].frames
    /\ jnr \in {"none", "wait", "reset", "open", "run", "endOfStream",
                "error", "errorClose", "done"}
    /\ wkr \in {"none", "first", "top", "send", "sent", "next", "reason",
                "exchange", "undo", "failed", "dead"}
    /\ builds \in 0 .. MaxBuilds /\ starts \in 0 .. MaxStarts
    /\ told \in BOOLEAN

\* A frame of a file, and what comes before and after it if the files between
\* have none.
IsFrame(f) == f[1] \in 1..Len(files) /\ f[2] \in 1..files[f[1]].frames
Blank(from, to) == \A file \in from..to : files[file].frames = 0
IsFirst(f) == f[2] = 1 /\ Blank(1, f[1] - 1)
IsLast(f) == f[2] = files[f[1]].frames /\ Blank(f[1] + 1, Len(files))
Follows(f, g) ==
    \/ f[1] = g[1] /\ g[2] = f[2] + 1
    \/ /\ f[1] < g[1] /\ Blank(f[1] + 1, g[1] - 1)
       /\ f[2] = files[f[1]].frames /\ g[2] = 1

\* The frame the worker has taken and not sent yet.
Unsent ==
    IF frame = NoFrame \/ (sent # <<>> /\ Last(sent) = frame)
    THEN <<>> ELSE <<frame>>
Recorded == sent \o Unsent \o buffer

\* "Plays a list of AVI files back to back as one stream" (AviSource.h): the
\* tape gets every frame, file after file, none left out or exchanged, while
\* readers, joiner and worker run side by side and a reader is replaced.
FilesInOrder ==
    queue # "none" =>
        /\ \A i \in 1..Len(Recorded) : IsFrame(Recorded[i])
        /\ Recorded # <<>> => IsFirst(Recorded[1])
        /\ \A i \in 1..(Len(Recorded) - 1) :
             Follows(Recorded[i], Recorded[i + 1])

\* WINDV_STOP_END_OF_FILES, "all files sent to tape" (windv_api.h): a
\* recording that ends with that reason has sent the last frame of the last
\* file, unless an error was reported.
EndsWithLastFrame ==
    state = "Finished" /\ stopReason = "EndOfFiles" =>
        told \/ (sent # <<>> /\ IsLast(Last(sent)))

\* Destroy always returns, wherever it meets the reader, the joiner between
\* two files and the worker.
DestroyReturns == ctl = "close" ~> ctl \in {"ready", "create"}

\* A recording that is not paused ends: it finishes or its worker gives up.
RecordingEnds ==
    (state = "Recording" /\ wkr # "none") ~>
        (state # "Recording" \/ wkr = "dead")
=============================================================================
