# WinDV2 in TLA+

Specifications of WinDV2, a program that copies DV video between a camcorder and AVI
files: TLA+ modules translated from its source, TLC configurations that check them on
small instances, and theorems that TLAPS checks for all values of the constants. Paths
below are relative to the repository (`src/` in `PROJECT.json`).

## The system

    ui/ (C#, one UI thread)          native/ (engine thread)     engine/ (pipeline threads)
    MainWindow                        NativeApi  windv_* calls    DVEngine
      MainViewModel  --Task.Run-->      EngineThread  --runs-->     StartCapturing, Destroy, ...
      DvEngine (Interop)                Tick: status                worker thread: CaptureLoop / RecordLoop
        ^------ events: error, recording time ------------------    source thread: HandleFrame --> FrameQueue
      DeviceChangeWatcher, timers                                   joiner thread, monitor thread

Every front end call is run by the engine thread, one at a time. A pipeline (one at
most) has a source that pushes frames from a DirectShow streaming thread into a bounded
queue, and a worker thread that takes them out and writes files (capture) or sends them
to the camcorder (record). The three threads share a handful of atomics in `DVEngine`
and two strings under `m_mutex`; the UI thread reads the same atomics whenever a timer
asks.

| component | state it keeps | operations | hard because | correct when |
|---|---|---|---|---|
| `core/FrameQueue` | ring of slots, head, tail, load, closed | Put, Get, GetFor, Close | three or more threads, two conditions, notify after unlock, a slot lent to the consumer | first in first out, nothing lent is overwritten, no lost wakeup, closing drains and releases everyone |
| `engine/DVEngine`, capture | state, stop reason, target, capture time, counters, writer, error | Build, Start, Stop, Destroy; source callbacks; the capture loop | the loop reads the state up to six times a round; any call may come between two reads; every write can throw | a capture that ends has saved its file and says why, a pipeline is torn down completely, failures are reported |
| `engine/DVEngine`, record | the same state, the frame that is repeated | Build, Start, Stop; RecordLoop | pause, end of the last file and errors all close the queue | every file is sent once, the end is announced for what it is |
| `engine/AviSource` | current reader, next file, flags | Run, Stop, HandleFrame, EndOfStream, joiner thread | the reader is replaced by a third thread while calls stop it | files in order, Stop always returns |
| `engine/AviWriter` | temporary and final name | open, write, Finish | names are looked up, then used | no file is overwritten |
| `engine/Monitor` | the lent sample, filled flag | HandleFrame, monitoring thread | hand-off between two threads, teardown in the middle | capture never waits for the preview |
| `engine/InputGraph`, `OutputGraph` | handler, sample times | Run, Stop, Receive, deliver | callbacks on DirectShow threads during Stop | no callback after Stop |
| `native/EngineThread` | task queue, stop flag | Post, Invoke, Run, destructor | posts that race with the end | every invoked task runs, its caller resumes |
| `native/NativeApi` | last call error, published status | windv_* calls, Tick | two kinds of error in one mailbox | each failure is told once, to the right party |
| `ui/Interop/DVEngine` | handle | calls on the thread pool, events on the UI thread | Dispose while calls are under way | no call on a freed engine |
| `engine/DVDevice`, `core/TransportLogic` | the tape's mode, which device is open | GetMode, SetMode, buttons, device lists | a deck answers with other words than it was told, and has keys of its own | the tape follows the pipeline, a button keeps the picture, closing leaves the deck stopped |
| `ui/ViewModels/MainViewModel` | cached status, busy flag, device timer | commands, device changes, errors, timer | decisions on a state read before an await | no running capture is thrown away, a failed or lost pipeline goes although calls and lists fail beside it, `-exit` closes |
| `core/*` (names, timecode, command line, time format) | none | pure functions | boundaries | reference definitions |
| `ui/Services` | settings, update state | load, save, check, download | values of other versions, answers that overtake one another, a save that breaks off | values in range, the history complete, the notice what the user has not seen |

`PROJECT.json` lists every component with its status, and every hazard of the code
at its line with the properties that cover it.

## The modules

### FrameChannel

What a queue of frames promises, without slots, locks or conditions: `accepted` and
`delivered` frames, a bound on the difference, a `closed` flag; frames are delivered in
the order they were accepted, none is accepted once it is closed.

### FrameQueue

`core/FrameQueue.cpp` step by step: `m_slots` (one more than the capacity), `m_head`,
`m_tail`, `m_load`, `m_closed`, the mutex as atomicity of the steps between two waits,
the condition variables as sets of sleeping and of notified threads. One producer
(HandleFrame), one consumer (the worker, with `Get` and `GetFor`), any number of closing
threads. Notifies are steps of their own, because the code sends them after the lock is
given up. Waits may wake up spuriously, and `GetFor` may time out at any moment. The
slot the consumer was handed is compared with what it was handed (`HeldIntact`). With
the mapping given at its end FrameQueue implements FrameChannel.

### DVEngineCapture

The capture pipeline with its three threads:

- the controller (`ctl`): `Destroy` in five steps in the order of the code (close the
  queue, stop the source, join the worker, release, reset), `BuildCapturing` in three
  (a device that cannot be opened, a graph that does not run), `StartCapturing` in the
  order of its four stores, `StopCapturing` as its compare-exchange; `TakeError` and
  `SetOptions`, which the front end calls on threads of its own, at any moment;
- the source (`src`): `HandleFrame` blocked in Put, too large a frame, `EndOfStream`;
- the worker (`wkr`): `CaptureLoop` with one step for each read or write of a shared
  atomic, `FinishOnItsOwn` as its store, exchange and undo, `FinishWriter`, which may
  throw wherever it is called, and `CapturingThread` catching.

The queue is here the channel FrameQueue implements, reduced to its load. Data is
abstracted to what the properties tell apart: a target is the number of the REC that
stored it, a frame is one unit of time, the time without signal is counted in polls, a
scene change, a full disk and a failure to write are free choices. What the calls tell
the deck is DeckControl, the preview is Monitor. The recording date and the count of
dropped frames are left out: they feed the display and nothing in the loop depends on
them. Of the options the limit of frames (`limit`, `m_maxAVIFrames`) may change in the
middle of a capture, because the loop compares it with what it has counted; the others
are constants of a behaviour.

Ghost variables (`left`, `told`, `dropped`, `closedBy`, `most`) record what happened in
the current pipeline; no guard reads them. `left` and `dropped` are kept across a
`Destroy` until the next pipeline runs, so that an error of the old one which
`BuildCapturing` throws away is not forgotten with it. The locals of the loop go back to
their first values when the thread, the round or the call they belong to ends.

Definitions with the word "Faulty" above them, here and in the other modules, are
plausible bugs of the same code. They are used by no specification; substituting one for
the definition it varies makes the run named in `PROJECT.json` fail, which shows that
the property looks at that piece of code.

### DVEngineRecord and FileList

The record pipeline with its four threads:

- the controller: `Destroy` (close the queue, `CAVIJoiner::Stop` in three steps, join
  the worker, release), `BuildRecording`, `StartRecording` with its store and its
  exchange, `StopRecording`, `TakeError`;
- the reader (`rdr`): the streaming thread of the file that plays, through
  `CAVIJoiner::HandleFrame` (which drops frames once `m_stopping` is set) into
  `DVEngine::HandleFrame`, and `EndOfStream`, which sets `m_readerEndedFlag`;
  `RunReader` and `StopReader` are `CFilterGraph::Run` and Stop as `InputGraph` has them,
  the latter waiting for a thread inside `Receive`;
- the joiner (`jnr`): waits for that flag or a stop, resets the reader, which waits
  for the reader's thread, opens and runs the next file, and reports an error or the
  end of all files by closing the queue;
- the worker (`wkr`): `RecordLoop`, which repeats the last frame while the recording
  is paused.

A frame is the pair of its file and its place in it; `sent` is what the tape got,
repetitions left out. Opening, running and sending may each fail.

FileList is how the user's text becomes the files: fields between bars, blanks trimmed,
patterns, folders left out, the order of the names within one pattern; which files are
DV (type 1 or type 2), and the size of the queue's slots, which the first file sets: a
file whose frames are larger is refused frame by frame (`Fits`).

### DeckControl

Who drives the tape: `CDVInput` and `CDVOutput` with `GetMode` (families of words that a
deck answers with, `Answers`, `ToDeckMode`), `SetMode`, `TransportRequests`, the deck
commands inside `StartCapturing`, `StopCapturing`, `StartRecording`, `StopRecording`,
`BuildRecording` and `Destroy`, builds that fail before or after port and state were set
(`CreateFails`), a start that is refused for want of disk space, the status that the
engine thread's `Tick` publishes, and the buttons, the settings page, the tools and the
closing of the view model. A call that looks first and acts later is two steps.
`DeckKey` is the deck's own: its keys, the end of its tape. Only the pipeline's port and
state are left of the engine. `ordered` is a ghost, the last word sent on this port.

### DeviceList

`ForEachVideoDevice`, `GetVideoDeviceList`, `FindVideoDevice` and `IsDVDevicePath`:
which devices there are, which of them are DV, which has a name.

### AviWriter and DVTimecode

`CAviWriter` in a folder that several programs write to: `Create` picks the temporary
name, `Run` opens it, `HandleFrame` counts the frames and asks the graph for its events
every `CheckEvery`, `Finish`, `FinishName` and `FinishMove` are the end of a file, and
`Crash` may come anywhere. Others add and remove files. A name is a stem (with a date,
with the "~" or without), a width and a number; `NextCaptureFilename` is `NextFree`.
DVTimecode is how the first frames tell the recording time that the stem holds: the
packs that are found, their BCD digits, the ranges, `mktime`.

### Monitor

The preview: the worker in `HandleFrame` (`Offer`, `Copy`, `Notify`), the monitoring
thread (`Test`, `GetDeliveryBuffer`, `Lend`, `Wake`, `Take`, `Deliver`, `Rendered`), and
the destructor (`Destroy`, `Stop`, `Join`). The mutex is a variable with its holder,
since it is held while the worker copies. The renderer may keep a buffer, or the thread
that delivers one, for as long as it likes, until its graph is stopped.

### SettingsStore and Updates

SettingsStore is `Load` with the clamping of each value, `UseDateTimeFormat`'s history
of date formats and `Save`, one value after another; one field stands for each kind of
setting. Updates is a user's WinDV over several runs of it: start and load, the settings
page, `CheckForUpdatesAsync` with several requests under way (`Serve` is GitHub's
answer, `Answer` its arrival), the notice and its closing, `UpdateInstaller` with its
redirects, headers and body, any of which may fail, `Shutdown`, which saves the first n
values if it breaks off, crashes, installers that succeed or give up, releases that
appear and clocks that are set back. Everything a user, GitHub or the clock does spends
one event of a budget. What is stored to begin with is what an earlier WinDV may have
left, lists that are too long or have repeats included, since `Load` cuts nothing.

The ghost `usedSaved` is the formats used, as far as they are to be found again after
the next start, and is kept from what the user did and how far a save came, never from
what is in the registry: nothing when nothing was written, the new format behind those
saved before when only it was written, all when the history was too. In the middle case
(`torn`) the format stored before is in neither value.

### EngineThread

`native/EngineThread.cpp` with the callers above it: `Launch` is `DvEngine.Run`, which
copies the handle and goes to the thread pool; `InvokeTest`, `PostTest` and `PostPush`
are the two tests for stop and the push, each a step of its own, because nothing is
locked in between; `Dispose...` is `windv_destroy` on the UI thread, with the invoked
task that destroys the `DVEngine`, `request_stop` and the join; `Run...` is the loop of
the engine thread. A task may send a message to a window of the UI thread, and then
waits until that thread is idle or pumps sent messages inside `Invoke`. `m_wake` is not
modelled: the loop wakes at least every 200 ms. The calls that are not invoked but look
at the `DVEngine` from the caller's thread (`GetStatus`, `TakeError`, `SetOptions`,
`NativeApi.cpp:81`, 91-100, 283-294) are not modelled here, and `EngineOnItsThread` does
not speak of them.

### CommandLine and MainViewModel

CommandLine is `ParseCommandLine` with `ParseDuration`: an argument is a word, with the
fields and digits of the duration it may be. MainViewModel starts with one of the
command lines so parsed; it is what the user works with, above an engine reduced to the
states that the pipeline modules show. A method of the view model runs on the UI thread
up to its next await, which is one step here:

- `RunAsync`, `Begin`, `Granted`, `Continue`, `Recover`, `End`: the actions behind the
  semaphore `_busy`, first come first served. An action is a list of calls, decided when
  it starts (`Play`, `Pause`, `Stop`, `Rec`, `Disconnect`, the jobs of the command
  line, and `Ask` for the parts that look at the tool or the tape again). `Release`
  hands the semaphore to the next action before that one runs, so the status is read,
  and other handlers come, in between (`Granted`);
- `UpdateStatus` wherever the code reads the status: the timer, the end of an action.
  It asks for the window to close when `-exit` was given;
- `Command` (buttons), `ChangeTool`, `StartAsync`, `Close`, `ShutdownTransport` and
  `Closed` (`MainWindow.ShutdownAndCloseAsync`, which waits for one deck command);
- `Switch`, `OnDevicesChanged`, `DevicesListed`: a camcorder turned off or on, the timer
  that lets it settle, the decision once the list is there or has failed;
- `ListDevices` with `CheckList` and `Refreshed`: a list of devices, asked for by the start,
  a device change or the user's button (`Askers`), each with a progress of its own. It may
  fail whenever it is asked for; then `_presentDevices` stays as it was, and the decision
  is made on that;
- the calls (`Reset`, `BuildDestroy` and `BuildCreate`, `CaptureStart`, ...) with their
  results, the two error slots `m_callError` and `m_error` that all of them share, `Check` and
  `CheckList` on the thread pool and `Raise` on the UI thread, each of which takes whatever
  error there is, and what the engine does on its own (`CaptureEnds`, `RecordEnds`,
  `PipelineFails`).

Two ghosts tell the failures of lists apart: `missed`, the last look failed and no other
is due, and `swallowed`, the `Check` of a list took the error of the pipeline.

Abstracted: one camcorder serves both tools, beside other devices that never go; its
deck can be controlled whenever there is a pipeline, and "deck control" is on
(DeckControl has the rest); `GetStatus` is read at once; fast forward and rewind are
like Play of the capture tool; a notification and the timer it restarts are one delay; a
second look at the devices does not begin while the first one waits for its list; the
message texts are left out. Dispose ends the model.

## Runs

| run | bounds | shows |
|---|---|---|
| `queue` | 2 frames of capacity, 3 slots, 4 puts, two closing threads | that the frame being read stays intact, that a waiting thread resumes, and the refinement, with order, draining and closing in it |
| `capture` | queue 1, limits of 1 and 2 frames that change at any time, 2 frames, a duration of 2, 2 RECs, 2 builds, signal loss after 1 poll | what a capture that ended, failed or was destroyed has left and told, that no file exceeds the limits it was written under, that Destroy returns, that a capture without signal ends |
| `capture_file` | queue 1, files of 2 frames, 3 frames, 2 RECs, 1 build | Findings, 1 |
| `record` | queue 1, nine texts over ten entries, lists of up to 4 files with 0 to 2 frames, 3 starts, 2 builds | what the tape gets, in which order, that Destroy returns and a recording ends |
| `engine_thread` | 3 calls, 2 posts | the thread a task runs on, that Dispose and calls return |
| `ui` | 2 events: buttons, tool changes, the camcorder turned off or on, failures; seven command lines | the pipeline is the tool's, failed and lost pipelines go, `-exit` closes |
| `ui_capture_kept` | the same with 3 events | Findings, 2 |
| `deck` | 2 events: buttons, settings, tools, the deck's keys, builds and starts that fail | the tape follows the pipeline, buttons keep the picture, closing leaves the deck stopped |
| `deck_rec` | 1 event | Findings, 3 |
| `writer` | 2 programs, 0 or 1 digits of at most 2, around the numbers 9 and 99, an error check every 2 frames, 2 files, 1 file of others, four kinds of frames | which names are picked, that nothing finished is overwritten, when an error is noticed |
| `monitor` | 4 frames | the hand-off of buffers, that an offer and the destructor return whatever the renderer does |
| `updates` | a history of 2 formats, 3 releases, 2 days, 2 requests, 1 redirect; two registries, one with a history of four entries, and three scenarios (formats, checks, installations) | the settings in range, the history complete, the notice what is new and not closed |

The values that the pure functions return are checked where their modules are
instantiated, by assumptions that TLC evaluates on every run: `TimesDecoded`
(MCAviWriter: times of frames, days that are carried over), `FilesFound`
(MCDVEngineRecord: the files of the nine texts), `DurationsParsed`, `UsageErrors` and
`WebcamListed` (MCMainViewModel: every duration of up to four fields against its worth,
the modes of the command lines, the list without a DV device).

Why these bounds are enough: a ring of three slots with more frames than slots goes
round, is full and is empty in one behaviour, and a second closer adds the only new
interleaving of closing. In the capture pipeline a second REC is what all the races
between two captures need; a third one meets the same states as the second. A queue of
one frame is full and empty within two frames, and the second frame starts a second
file. A second build is what one pipeline can leave to the next, which is cut off from
the one before its predecessor by a complete Destroy. In the record pipeline a list of
two files with more frames than the queue holds has a reader blocked in Put while the
joiner waits; the list of four has a file without frames and two readers in a row that
are replaced; the list without a frame, larger frames and a file without video are cases
of their own. In EngineThread two calls are needed for one to be queued and one still on
its way; a third allows both before Dispose and one behind its task. In MainViewModel
everything that nobody is bound to do counts as one event, while timers, polls, ends of
captures, lists of devices that fail and the command line's job are free: the first
set-up or the job is the action that runs, one event puts another behind it, and the
second is the failure, the tool or the device change that comes amid both. What does not
need fairness is proved for any number of events. DeckControl counts in the same way;
there is one call at a time, so a button and the deck's own key meet every pair. In
AviWriter the races need two programs and one file that comes or goes between the look
and the use of a name, and the second capture of one program meets what its first has
left; 9 and 99 are where the width of a number changes and where the digits run out. In
Monitor two frames are lent, taken and delivered in turn, and two more are offered while
the thread is in between or the preview ends. In Updates two requests are what can
overtake one another; a third release is one that is newer than a closed notice and than
the installed one at the same time.

Fairness: in FrameQueue a thread that is awake goes on, a notified one included, and a
thread waiting for the mutex gets it, since nobody holds it for more than a few
instructions; no frame, no call and no timeout is promised. In the two pipelines each
thread goes on while it can (weak fairness of its disjunction, as it has one step
enabled at a time), because the operating system schedules all of them; nobody promises
a call, a frame, the end of the stream or a look at the error. The record pipeline also
takes for granted that a file which plays goes on to its end, which is DirectShow's
part, and that the driver takes a frame. In EngineThread the pool threads, the UI thread
inside Dispose and the engine thread go on. In MainViewModel the UI thread comes to the
poll, to each continuation and to each queued event, the timer elapses and the engine
thread serves calls (each weakly fair while the window is open); nobody promises a
button, a camcorder or the end of a capture. In Monitor the threads run, and stopping
the graph releases who waits for its renderer; a running renderer need not give or
return anything. `Offer` is strongly fair: the mutex it waits for is taken again and
again by the other thread, for a few instructions each time. In DeckControl, which has
no liveness property, the engine thread ticks and serves and the UI thread polls and
goes on; Updates has neither liveness properties nor fairness.

## Findings

Each is a run that TLC finishes with a counterexample; the quotes are in `PROJECT.json`.

1. `capture_file`: a REC pressed before a frame came since the last one was stopped
   (there is no signal, say) goes on with the file of the capture before. The same
   unnoticed restart keeps `m_time`, the signal watch and the folder of the free space
   check.
2. `ui_capture_kept`: `OnDevicesChangedAsync` tests `IsBusy` before it awaits the list of
   devices, not after. When the list comes in the middle of a build, the engine is Idle;
   the rebuild then waits for the action, and throws away the capture that it has
   started, the command line's with its `-exit` included.
3. `deck_rec`: `StartCaptureAsync` asks the status published last whether the deck can be
   controlled. Straight after a build that is the status of the pipeline before it, and
   the tape is not started.

## Disagreements

Where the code and what is written about it differ, met while modelling and either left
out of the properties or made a condition of one; no run is spent on them.

- `README.md:255-256`, of a capture whose file could not be renamed: "The failure is now
  reported." `BuildCapturing` drops the last error after its own `Destroy` (`DVEngine.cpp:177`).
  When the worker, on its way out, could not rename its file and the front end has not yet taken
  that error, nobody is told that the file kept its temporary name. `LeftFileReported` says that
  an error is lost in no other way (`dropped`).
- `windv_api.h:85`, "a worker failed; call windv_take_error": whoever takes an error takes
  whatever there is (`Interop/DVEngine.cs:112`). A list of devices fails while a pipeline fails;
  `Raise` takes the message of the list and rebuilds; the new pipeline fails, the `Check` of the
  list, late, takes its error, and the second event finds none: the failed pipeline stays.
  `FailedIsRebuilt` excepts that (`swallowed`); no other call's failure does it.
- `MainViewModel.cs:463-464`, "let go of it when it disappears": when the list of devices fails
  after the camcorder went, the decision is made on the list of an earlier look (273-277, 485),
  and nothing looks again until the next notification. `LostIsLetGo` excepts that (`missed`).
- `windv_api.h:111`, "the deck plays/pauses/records with capture and record": with the capture
  tool chosen while a tape is recorded, the options of that tool reach the engine before the
  pipeline is taken down (`MainViewModel.cs:697`); "the deck follows" is off by then, and
  `Destroy` leaves the tape recording. `TapeFollowsPipeline` speaks of a pipeline whose option
  is as it was when it was built (`steady`).
- `SettingsStore.cs:158`, "the old one moves into the history": a save that writes a new format
  and breaks off before the history (135-136) loses the format stored before, which the one has
  written over and the other does not hold yet. `FormatsRemembered` excepts that (`torn`).
- `FrameQueue.h:41` says timeout and closed queue can be told apart with `IsClosed()`.
  It is read after the lock was given up: the last frame can be stored, and the queue
  closed, between timeout and test, and the capture loop leaves that frame.
- `DVEngine.cpp:310`, `FinishOnItsOwn`: "whoever sees Finished also sees why".
  StopCapturing and StartCapturing between its two statements leave Finished with the
  reason None. What does hold is `FinishedFileSaved`.
- `windv_api.h:121`, "all files sent to tape": a recording cut short by an error drains
  and ends with that reason too (`EndsWithLastFrame` allows it when an error was told).
- `README.md:172`: a list of files without a frame is never finished, so `-exit` waits for
  ever (`RecordingEnds` asks for a worker that is there).
- `EngineThread.cpp:120`: a task queued between the engine thread's last look at its queue
  and its stop test is never run, and the pool thread that invoked it waits for ever;
  `CallReturns` promises a call's return until the thread is told to end.
- `README.md:287` on captured files: `Finish` does not look at how the wait for the end of
  the file came out, so a write error in the last frames of a file, fewer than 25, is
  noticed by nobody; `ErrorsNoticed` speaks of the frames before.
- `MainViewModel.cs:329`: the day of the last check is saved when the window closes, so
  a program that is ended otherwise asks GitHub again on the same day.
- `SettingsStore.cs:60`, a closed notice "isn't shown again": it is when an older answer
  arrives after a newer one (`NoticeIsNews` speaks of answers that come in order).
- `CommandLine.cpp:61`: three fields of nine digits make a duration beyond 64 bits;
  CommandLine leaves such durations out.

## Proofs

TLAPS checks the theorems below for all values of the constants that satisfy the
modules' assumptions; TLC evaluates those assumptions on every run.

`FrameQueueProofs` proves, for every capacity, set of frames and set of closing threads:
`TypeCorrect`, `HeldFrameIntact`, `FirstInFirstOut`, `WakeupsNotLost`, `GetDrains`,
`ClosingIsFinal` and `QueueImplementsChannel` (the safety part of the refinement:
initial states and steps). They rest on one assumption about the constants,
`QueueAssumption` (a capacity of at least one, as the constructor makes it). The
inductive invariant joins to the type that the ring is consistent (tail is head plus
load, modulo the slots), that the slots from head on hold exactly what was accepted and
not yet handed out, and that the lent slot is the one before head; only the last makes
`HeldIntact` inductive, since Put writes at tail, which with a load below the capacity
is neither a queued slot nor the lent one. For the wakeups it adds who still owes a
notify: a thread that made a condition true and has not sent its notify yet is a state
of its own.

`EngineThreadProofs` proves, for every set of calls and number of posts, `TypeCorrect`,
`EngineStaysOnItsThread` and `EarlierTasksRan`, from `ThreadAssumption` (the task of
Dispose and that of a resize are no calls, the posts are a natural number). The
properties speak of the moment the engine is gone, so the invariant says what leads
there: until Dispose queues the reset task that task is neither queued nor running and
the DVEngine is there (`NotYetReset`); a stop is only asked for once the reset task was
run (`GoneBeforeStop`); what is queued after the reset task stands behind it
(`LateBehindReset`), so that from the moment it is taken only late tasks are left
(`OnlyLateAfterReset`).

The module also extends Monitor, whose names differ from those of EngineThread, and
proves `MonitorTypeCorrect` and `BuffersAreHandedOver` for any number of frames, from
`MonitorAssumption`. What makes the hand-off inductive is where the sample is lent
(`LentInv`: from `Lend` to `Take`, where the worker copies only into a buffer not filled
yet) and which frame a buffer holds (`LaterInv`: the frame on offer is later than all
that was copied or displayed, a filled buffer's later than the one displayed).

`DVEngineCaptureProofs` proves the type, six safety properties and one action property
of the capture pipeline, for every capacity, set of limits, signal timeout and number of
frames, RECs and builds, from `CaptureAssumption`. What the runs check of them are
`FinishedFileSaved`, `LeftFileReported`, `NoStaleReason` and `FileWithinLimit`. None of
them is inductive alone; the invariant joins to them and to the type:

- `ControlInv`: what holds while the controller is inside a call (the state is Idle in
  Destroy and CapturePaused in StartCapturing; the source is off and the worker gone in
  the last steps of Destroy). `ResetIsComplete` follows from it;
- `FinishInv`: between the two stores of `FinishOnItsOwn` the reason is the worker's or
  None, which is why the undo finds what it stored; the file is finished before either;
- `FinishedInv`: after Finished the worker is nowhere from where it opens a file again;
- `RoomInv`: a frame is written only where the split has left room for it, under the
  highest limit there was since the file was opened (`most`): the limit may be lowered between
  the worker's look at it and the frame, so a file may exceed the limit of the moment;
- `ClosedInv`: who closed the queue, and that the closing by an error was reported.

`DVEngineRecordProofs` proves, for every list of files, capacity and number of builds
and RECs, the type, `FilesInOrder` and `EndsWithLastFrame`, from `RecordAssumption` and
`EntriesAssumption` (the file system is finite, and no two names in it differ in case
only). What a text of the field stands for is a list of entries (`FilenamesTyped`): the
fold over its patterns and the sorting of their matches are shown to exist by the same
induction as in AviWriterProofs (`JoinsExist`, `OrderExists`). The invariant of places
(`PlaceInv`) adds to the type that every frame on its way is one (`FramesTyped`), what
holds inside a call of the controller (`ControlInv`), that reader and joiner take turns
(`TurnInv`) and what the worker has sent (`WorkInv`). On it stands the order
(`OrderInv`): the frames sent, the one in the worker's hands and the queued ones, joined
(`Recorded`), follow the files in order (`InOrder`); while the queue is open they come
up to where the reader is, and once it is closed without an error up to the end of the
last file (`Upto`), which is why a recording that finished itself has all of them.

`AviWriterProofs` proves, from `WriterAssumption`, for any programs, settings, frames,
files of others and crashes, all five properties of the writer that runs check: the
type, `NameIsFree`, `NamesGrow`, `FinishedKept` and `ErrorsNoticed`. Its invariant is

- `FileInv`: the folder is finite and no number in it is further than one past those of
  `MaxDigits` digits (`FolderInv`), and no two files hold the same capture;
- `SavedInv`: a finished file that is still there has the name it was given;
- `WriterInv`: a writer that has a file has it under a temporary name, so that what it
  opens, closes or moves away never has a final name, and no two writers have the same one
  open; that the name it moves to is free is `Move`'s condition, at the moment of the move;
- `OrderInv`: `NamesGrow`, and that a name looked for comes later than the files already
  saved, which is what `NamesGrow` needs when the move comes;
- `UnnoticedInv`: the frames after an error are among those since the last check.

`NameIsFree` and `OrderInv` are about `NextFree`, a fold over the listing of the folder.
A fold of the community modules is a CHOOSE of a recursive function, and the induction
theorems of the library are closed to the provers, so the module proves `Induction` as a
statement about sets of numbers (from the well-foundedness of their order), shows that
the function of the fold exists (`FoldsExist`), and what the fold has computed after
each place of the listing: a name that is later than all it was picked after
(`PickedName`). The same goes for the times that frames tell, which are the dates of the
names.

`UpdatesProofs` proves, from `SettingsAssumption` and `UpdatesAssumption`, the type,
`NoticeIsNews` and `FormatsRemembered`, for any formats, registries to begin with,
pages, requests, days, releases, redirects and events. The assumption about the
registries is what an earlier WinDV may have left: any value may be missing, numbers
have any size, a list any length, repeats and empty entries, and no closed notice is
later than the last release. Its invariant is

- `Typed`: the type, and that a closed process has no notice and no requests;
- `Noticed`: unless an answer came after a later one, the settings and what the registry
  would load both know the latest release and which notice was closed last (`Seen`), the
  registry knows none that is later than the one in memory, and a notice is the latest
  release and may be shown. The registry is part of it because a crash makes it the memory
  again, and `Save` may break off between any two values;
- `Formatted`: unless a save was torn, for the settings and for what the registry would load,
  the list is that of the formats used, the latest first and each once, and lacks none but
  the oldest (`Recall`). A list has a place less while no format is current (`Room`), which is
  why `FormatsRemembered` speaks of `MaxFormatHistory - 1`.

The steps of the last rest on lemmas about lists, shown by the same induction: removing
formats and removing repetitions commute (`DistinctWithout`), either goes through a
concatenation (`WithoutConcat`), what a removed entry leaves (`OneLess`), and that what
is saved, as far as it went, loads as it was (`SavedLoads`).

`MainViewModelProofs` proves, from `ViewModelAssumption`, the type and
`ToolMatchesPipeline` for any number of events: buttons, tool changes, errors, lists
that fail, devices that come and go, in any order. The property speaks of the moment
nothing is under way, so its invariant (`Right`) speaks of the actions still to come.
Either one of those that wait begins with a new pipeline for the chosen tool, or with
none, and those behind it are not the other tool's (`ToBePutRight`), or the pipeline is
not the other tool's, or the call just asked for replaces it, and nothing that is left
of the running action or waits makes it another (`StaysRight`). `ActionInv` says what
phase and calls a running action can have.

`DeckControlProofs` proves, from `DeckAssumption`, the type, `TapeFollowsPipeline`,
`ClosedDeckStopped` and the action property `PictureKept`, for any number of buttons,
keys of the camcorder, changes of the settings and failures. Its invariant joins to the
type

- `TodoInv` and `CallInv`: an action is one call or one of four pairs of calls, with the
  tools chosen meanwhile behind it; there is a request only amid a call;
- `TapeInv`: between the two halves of a call the deck is about to be told what the state
  of the pipeline already says; a pipeline that was built half way has told it nothing, and
  is taken down before it is asked for anything else (`Undone`);
- `SettledInv`: once no set-up waits, the port and `DVctrl` are those of the chosen tool;
- `SeenInv`: a deck that the capture tool has told something can be told, and the published
  status and then the shown one say so; that is why the guard of `ShutdownAsync`, which
  reads the shown one, does not pass over it;
- `QuietInv`: while the window closes, what is still going to stop the deck.

What the theorems do not name is checked by TLC only. These are the liveness properties
(`WaiterResumes`, `DestroyReturns` of three modules, `SignalLossNoticed`,
`RecordingEnds`, `DisposeReturns`, `CallReturns`, `OfferReturns`, `FailedIsRebuilt`,
`LostIsLetGo`, `ExitCloses`), which need fairness and so are out of the prover's reach,
and what the pure functions return for chosen inputs (`TimesDecoded`, `FilesFound`,
`DurationsParsed`, `UsageErrors`, `WebcamListed`), which is a matter of evaluating them.
Every invariant and safety property of a passing run is stated by a theorem. The
preview's type invariant is proved (`MonitorTypeCorrect`) and not checked by a run.

## Not modelled

See the components with that status. DirectShow, COM, the drivers and the file system
are represented only by what they may do to the code: deliver, block, fail. Of the
modelled parts these are left out, since no property tells them apart: the recording
date and the other values that only the display shows, the wording of names, dates and
messages, window placement, the marshalling of strings, and the arithmetic of sample
times and of disk sizes.

## Plan

1. The composition of MainViewModel with DeckControl: one user, the tool changes and the
   deck buttons in the same queue of actions.
2. `InputGraph` and `OutputGraph` with their sample times, and a source whose samples come
   late or twice.
