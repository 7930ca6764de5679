--------------------------- MODULE MainViewModel ---------------------------
(***************************************************************************)
(* ui/ViewModels/MainViewModel, with what it talks to: the engine's calls  *)
(* and errors through Interop/DVEngine and native/NativeApi, the window    *)
(* that closes, and a camcorder that is turned off and on.                 *)
(*                                                                         *)
(* Each method runs on the UI thread until its next await, which is one    *)
(* step here.  A call of the engine is asked for, served by the engine     *)
(* thread and answered; building a pipeline takes two steps, because the   *)
(* engine is Idle in between and anyone may look at it.  The engine itself *)
(* is reduced to the states the pipeline modules show.  What WinDV is      *)
(* started with is parsed by CommandLine.  There is one camcorder, which   *)
(* both tools use, among the other devices that DeviceList finds; files    *)
(* and options are given.                                                  *)
(***************************************************************************)
EXTENDS Naturals, Sequences, SequencesExt, CommandLine, DeviceList

CONSTANTS
    CommandLines,   \* what WinDV may be started with
    Camcorder,      \* the chosen device, of both tools
    Others,         \* the devices that are there besides
    MaxEvents   \* bound: buttons pressed, tools chosen, the camcorder turned
                \* off or on, calls and pipelines that fail, all together; a
                \* list of devices may fail whenever it is asked for

ASSUME ViewModelAssumption ==
    /\ MaxEvents \in Nat
    /\ IsDVDevicePath(Camcorder.path)
    /\ Camcorder.name \notin ToSet(Names(Others)) \cup {NoName}

VARIABLES
    tool,               \* SelectedTool
    commandLine,        \* what StartAsync is given; Started when it was
    window,             \* ShutdownAndCloseAsync's progress
    status,             \* _status.State, which is _lastState too
    exitOnFinish,       \* _exitOnFinish
    waitingForDevice,   \* _waitingForDevice
    busy,               \* IsBusy
    running,            \* the action that holds _busy, or NoAction
    waiting,            \* the actions that wait for _busy
    steps, phase,       \* the calls an action makes yet; the first's phase
    present,            \* the camcorder is on
    deviceTimer,        \* a notification is on its way or _deviceTimer running
    presentDevices,     \* the camcorder is in _presentDevices
    listing,            \* the call ListDevicesAsync of each that awaits one
    missed,             \* history: the last look failed, no other is due
    swallowed,          \* history: that failure took the engine's error
    engine,             \* m_state
    worker,             \* the pipeline's worker thread
    error, callError,   \* m_error of DVEngine, m_callError of windv_engine
    raised,             \* error events queued for the UI thread
    events              \* count of what happened, for its bound

shared == <<tool, commandLine, window>>
shown == <<status, exitOnFinish, waitingForDevice>>
actions == <<busy, running, waiting, steps, phase>>
devices ==
    <<present, deviceTimer, presentDevices, listing, missed, swallowed>>
pipeline == <<engine, worker>>
errors == <<error, callError, raised>>
vars ==
    <<shared, shown, actions, devices, pipeline, errors, events>>

Live == {"CapturePaused", "Capturing", "Finished"}
States == Live \cup {"Idle", "RecordPaused", "Recording"}
Started == [Interactive EXCEPT !.mode = "started"]
Given == {ParseCommandLine(args) : args \in CommandLines} \ {UsageError}
Attached == IF present THEN Append(Others, Camcorder) ELSE Others
\* Who awaits RefreshDevicesAsync: StartAsync, OnDevicesChangedAsync and the
\* user.
Askers == {"start", "changed", "user"}
Listed == {"present", "absent", "thrown"}
Lists == [Askers -> Listed \cup {"none", "asked", "failed"}]
Kinds == {"init", "reconnect", "captureJob", "recordJob", "play", "pause",
          "stop", "rec", "error", "disconnect"}
NoAction == [kind |-> "none", seen |-> "Idle", recovers |-> FALSE]
Action(k) == [NoAction EXCEPT !.kind = k]

Happens == events < MaxEvents /\ events' = events + 1

Init ==
    /\ tool \in {"Capture", "Record"}
    /\ commandLine \in Given
    /\ window = "open"
    /\ status = "Idle" /\ exitOnFinish = FALSE
    /\ waitingForDevice = FALSE
    /\ busy = FALSE /\ running = NoAction /\ waiting = <<>>
    /\ steps = <<>> /\ phase = "none"
    /\ present \in BOOLEAN
    /\ deviceTimer = FALSE /\ presentDevices = FALSE
    /\ listing = [a \in Askers |-> IF a = "start" THEN "asked" ELSE "none"]
    /\ missed = FALSE /\ swallowed = FALSE
    /\ engine = "Idle" /\ worker = "none"
    /\ error = FALSE /\ callError = FALSE /\ raised = 0
    /\ events = 0

-----------------------------------------------------------------------------
(* Status                                                                  *)

\* ShutdownAndCloseAsync: with a deck to stop it waits for that call.
Shutdown(s) == IF tool = "Capture" /\ s # "Idle" THEN "stopping" ELSE "closed"

\* Faulty: an end that is seen while an action runs clears the flag only.
UpdateStatusOnce ==
    /\ status' = engine
    /\ exitOnFinish' = (exitOnFinish /\ engine # "Finished")
    /\ window' = IF /\ exitOnFinish /\ ~busy
                    /\ engine = "Finished" /\ window = "open"
                   THEN Shutdown(engine)
                   ELSE window

\* The status is read, and a finished command line asks for the window to
\* close.
UpdateStatus ==
    /\ status' = engine
    /\ exitOnFinish' = (exitOnFinish /\ engine # "Finished")
    /\ window' = IF exitOnFinish /\ engine = "Finished" /\ window = "open"
                   THEN Shutdown(engine)
                   ELSE window

Tick ==
    /\ UpdateStatus
    /\ UNCHANGED <<tool, commandLine, waitingForDevice, actions, devices,
                   pipeline, errors, events>>

-----------------------------------------------------------------------------
(* Actions: RunAsync and what it runs                                      *)

\* The calls an action makes, decided when it is run with tool t.  "init" is
\* InitPipelineAsync, "startCapture" StartCaptureAsync.
Play(t) ==
    IF t = "Capture"
      THEN <<"transport">>
      ELSE CASE status = "RecordPaused" -> <<"recordStart">>
             [] status = "Recording" -> <<>>
             [] OTHER -> <<"buildRecord", "recordStart">>

Pause(t) ==
    IF t = "Capture"
      THEN <<"transport">>
      ELSE CASE status = "RecordPaused" -> <<"recordStart">>
             [] status = "Recording" -> <<"recordStop">>
             [] OTHER -> <<"buildRecord">>

Stop(t) ==
    IF t = "Capture"
      THEN (IF status = "Capturing" THEN <<"captureStop", "transport">>
                                    ELSE <<"transport">>)
      ELSE <<"init">>

Rec ==
    CASE status = "Capturing" -> <<"captureStop">>
      [] status \in {"Idle", "Finished"} -> <<"buildCapture", "startCapture">>
      [] OTHER -> <<"startCapture">>

Disconnect(seen) ==
    IF seen = "Capturing" THEN <<"captureStop", "reset">> ELSE <<"reset">>

Body(a, t) ==
    CASE a.kind = "play" -> Play(t)
      [] a.kind = "pause" -> Pause(t)
      [] a.kind = "stop" -> Stop(t)
      [] a.kind = "rec" -> Rec
      [] a.kind = "captureJob" -> <<"buildCapture", "startCapture">>
      [] a.kind = "recordJob" -> <<"buildRecord", "recordStart">>
      [] a.kind = "disconnect" -> Disconnect(a.seen)
      [] OTHER -> <<"init">>

ResetOnError(a) == a.kind \notin {"init", "reconnect", "error"}

\* Goes on to the next call.  InitPipelineAsync looks at the tool and starts
\* afresh; StartCaptureAsync starts the tape first if it does not move.  exit
\* is _exitOnFinish so far.
Ask(list, t, exit) ==
    /\ phase' = IF list = <<>> THEN "ok" ELSE "asked"
    /\ IF list # <<>> /\ Head(list) = "init"
         THEN /\ steps' = IF t = "Capture" THEN <<"initCapture">>
                                           ELSE <<"reset">>
              /\ exitOnFinish' = FALSE /\ waitingForDevice' = FALSE
         ELSE /\ IF list # <<>> /\ Head(list) = "startCapture"
                   THEN steps' \in {<<"captureStart">>,
                                    <<"transport", "captureStart">>}
                   ELSE steps' = list
              /\ exitOnFinish' = exit /\ UNCHANGED waitingForDevice

Begin(a, t, exit) ==
    /\ running' = a /\ busy' = TRUE
    /\ Ask(Body(a, t), t, exit)
    /\ UNCHANGED status

\* RunAsync: at once if _busy is free, behind those that wait otherwise.
RunAsync(a, t, exit) ==
    IF running = NoAction
      THEN Begin(a, t, exit) /\ UNCHANGED waiting
      ELSE /\ waiting' = Append(waiting, a)
           /\ exitOnFinish' = exit
           /\ UNCHANGED <<status, waitingForDevice, busy, running, steps,
                          phase>>

\* The action that was waiting comes to run on the UI thread.
Granted ==
    /\ running # NoAction /\ ~busy
    /\ Begin(running, tool, exitOnFinish)
    /\ UNCHANGED <<waiting, shared, devices, pipeline, errors,
                   events>>

\* The device was not found: InitPipelineAsync waits for it.
NotConnected == phase = "thrownMissing" /\ Head(steps) = "initCapture"

GoesOn == phase = "ok" \/ NotConnected

\* An answer came, and there is more to do.
Continue ==
    /\ busy
    /\ phase = "ok" /\ Len(steps) > 1
    /\ Ask(Tail(steps), tool, exitOnFinish)
    /\ UNCHANGED <<shared, status, busy, running, waiting, devices,
                   pipeline, errors, events>>

\* The action failed: the pipeline is set up again first.
Recover ==
    /\ busy
    /\ phase \in {"thrown", "thrownMissing"} /\ ~GoesOn
    /\ ResetOnError(running) /\ ~running.recovers
    /\ running' = [running EXCEPT !.recovers = TRUE]
    /\ Ask(<<"init">>, tool, exitOnFinish)
    /\ UNCHANGED <<shared, status, busy, waiting, devices, pipeline,
                   errors, events>>

\* The last answer came, or the error of an action that is not recovered from.
\* The next one is given _busy before it runs.
End ==
    /\ busy
    /\ \/ GoesOn /\ Len(steps) <= 1
       \/ /\ phase \in {"thrown", "thrownMissing"} /\ ~GoesOn
          /\ ~ResetOnError(running) \/ running.recovers
    /\ UpdateStatus
    /\ waitingForDevice' = IF running.kind = "disconnect"
                             THEN tool = "Capture"
                             ELSE waitingForDevice \/ NotConnected
    /\ busy' = FALSE /\ steps' = <<>> /\ phase' = "none"
    /\ running' = IF waiting = <<>> THEN NoAction ELSE Head(waiting)
    /\ waiting' = IF waiting = <<>> THEN <<>> ELSE Tail(waiting)
    /\ UNCHANGED <<tool, commandLine, devices, pipeline, errors, events>>

-----------------------------------------------------------------------------
(* The user and the window                                                 *)

InUse(k) == \E a \in {running} \cup ToSet(waiting) : a.kind = k

CanUse(k) ==
    IF k = "rec" THEN tool = "Capture" /\ status \in Live
                 ELSE tool = "Record" \/ status # "Idle"

\* A button is pressed.  Winding is Play of the capture tool to this module.
Command(k) ==
    /\ ~busy /\ CanUse(k) /\ ~InUse(k)
    /\ Happens
    /\ RunAsync(Action(k), tool, exitOnFinish)
    /\ UNCHANGED <<shared, devices, pipeline, errors>>

\* Faulty: a tool chosen while an action runs does not set up its pipeline.
ChangeToolFree ==
    /\ Happens
    /\ tool' = IF tool = "Capture" THEN "Record" ELSE "Capture"
    /\ IF busy THEN UNCHANGED <<shown, actions>>
               ELSE RunAsync(Action("init"), tool', exitOnFinish)
    /\ UNCHANGED <<commandLine, window, pipeline, devices, errors>>

ChangeTool ==
    /\ Happens
    /\ tool' = IF tool = "Capture" THEN "Record" ELSE "Capture"
    /\ RunAsync(Action("init"), tool', exitOnFinish)
    /\ UNCHANGED <<commandLine, window, devices, pipeline, errors>>

\* RefreshDevicesAsync goes on: what is there, or what was there before if that
\* could not be told.
Refreshed(a) ==
    /\ listing[a] \in Listed
    /\ listing' = [listing EXCEPT ![a] = "none"]
    /\ presentDevices' = IF listing[a] = "thrown" THEN presentDevices
                                                 ELSE listing[a] = "present"
    /\ UNCHANGED <<present, deviceTimer, swallowed>>

\* The first start, after a first look at the devices: the pipeline, or the job
\* of the command line.
StartAsync ==
    /\ commandLine # Started
    /\ commandLine' = Started
    /\ Refreshed("start") /\ UNCHANGED missed
    /\ \/ /\ commandLine.mode = "interactive"
          /\ RunAsync(Action("init"), tool, exitOnFinish)
          /\ UNCHANGED tool
       \/ /\ commandLine.mode = "capture" /\ tool' = "Capture"
          /\ RunAsync(Action("captureJob"), tool', commandLine.exitOnFinish)
       \/ /\ commandLine.mode = "record" /\ tool' = "Record"
          /\ RunAsync(Action("recordJob"), tool', commandLine.exitOnFinish)
    /\ UNCHANGED <<window, pipeline, errors, events>>

Close ==
    /\ window = "open"
    /\ window' = Shutdown(status)
    /\ UNCHANGED <<tool, commandLine, shown, actions, devices, pipeline,
                   errors, events>>

\* ShutdownAsync's call has returned: Detach and Dispose.
Closed ==
    /\ window = "stopped"
    /\ window' = "closed"
    /\ UNCHANGED <<tool, commandLine, shown, actions, devices, pipeline,
                   errors, events>>

-----------------------------------------------------------------------------
(* Devices coming and going                                                *)

\* The camcorder is turned off or on.  The notification restarts the timer.
Switch ==
    /\ Happens
    /\ present' = ~present /\ deviceTimer' = TRUE /\ missed' = FALSE
    /\ UNCHANGED <<shared, shown, actions, presentDevices, listing, swallowed,
                   pipeline, errors>>

Asks(a) ==
    /\ listing[a] = "none"
    /\ listing' = [listing EXCEPT ![a] = "asked"]
    /\ UNCHANGED <<shared, shown, actions, present, presentDevices, missed,
                   swallowed, pipeline, errors>>

\* The button beside the list.
RefreshDevices == Asks("user") /\ Happens /\ UNCHANGED deviceTimer
DevicesRefreshed ==
    /\ Refreshed("user")
    /\ UNCHANGED <<shared, shown, actions, missed, pipeline, errors, events>>

\* Faulty: the look that comes while an action runs is not made up for.
OnDevicesChangedOnce ==
    /\ deviceTimer
    /\ deviceTimer' = FALSE
    /\ IF ~busy THEN Asks("changed")
                ELSE UNCHANGED <<shared, shown, actions, present, listing,
                                 presentDevices, missed, swallowed, pipeline,
                                 errors>>
    /\ UNCHANGED events

\* The timer elapses: look again later if an action is under way.  Bound: the
\* timer is not let run out twice while one list is awaited.
OnDevicesChanged ==
    /\ deviceTimer /\ ~busy
    /\ deviceTimer' = FALSE
    /\ Asks("changed") /\ UNCHANGED events

\* windv_list_devices: the devices cannot always be enumerated.
ListDevices(a) ==
    /\ listing[a] = "asked" /\ phase # "building"
    /\ \/ /\ listing' = [listing EXCEPT ![a] =
                IF Camcorder.name \in ToSet(GetVideoDeviceList(Attached))
                  THEN "present" ELSE "absent"]
          /\ UNCHANGED callError
       \/ /\ listing' = [listing EXCEPT ![a] = "failed"]
          /\ callError' = TRUE
    /\ UNCHANGED <<shared, shown, actions, present, deviceTimer,
                   presentDevices, missed, swallowed, pipeline, error, raised,
                   events>>

\* The list is here, or the error is shown: connect to the device that came,
\* let go of the one that went, by the state the engine is in now.
DevicesListed ==
    /\ Refreshed("changed")
    /\ missed' = (listing["changed"] = "thrown" /\ ~deviceTimer)
    /\ CASE presentDevices' /\ engine = "Idle" /\ tool = "Capture" ->
               RunAsync(Action("reconnect"), tool, exitOnFinish)
         [] ~presentDevices' /\ engine # "Idle" ->
               RunAsync([Action("disconnect") EXCEPT !.seen = engine], tool,
                        exitOnFinish)
         [] OTHER -> UNCHANGED <<shown, actions>>
    /\ UNCHANGED <<shared, pipeline, errors, events>>

-----------------------------------------------------------------------------
(* Calls: DvEngine.Run, windv_engine::Call                                 *)

Builds == {"initCapture", "buildCapture", "buildRecord"}
Paused(c) == IF c = "buildRecord" THEN "RecordPaused" ELSE "CapturePaused"

Answer(a) ==
    /\ phase' = a
    /\ callError' = (callError \/ a \in {"failed", "missing"})
    /\ UNCHANGED <<shared, shown, busy, running, waiting, steps, present,
                   deviceTimer, presentDevices, listing, missed, raised>>

\* Nothing of the old pipeline is left.
Destroyed == engine' = "Idle" /\ worker' = "none" /\ swallowed' = FALSE

Called(c) == phase = "asked" /\ Head(steps) = c

Reset ==
    /\ Called("reset")
    /\ Destroyed /\ Answer("ok")
    /\ UNCHANGED <<error, events>>

\* Build destroys the old pipeline and drops its error.
BuildDestroy ==
    /\ \E c \in Builds : Called(c)
    /\ Destroyed /\ Answer("building")
    /\ error' = FALSE
    /\ UNCHANGED events

\* The new one may fail before or after it has entered its state.
Found == FindVideoDevice(Camcorder.name, Attached) # 0
BuildCreate ==
    /\ phase = "building"
    /\ \/ /\ Found
          /\ engine' = Paused(Head(steps)) /\ worker' = "runs"
          /\ Answer("ok")
          /\ UNCHANGED events
       \/ /\ ~Found
          /\ Answer("missing")
          /\ UNCHANGED <<engine, worker, events>>
       \/ /\ Found
          /\ Happens
          /\ engine' \in {"Idle", Paused(Head(steps))}
          /\ Answer("failed")
          /\ UNCHANGED worker
    /\ UNCHANGED <<swallowed, error>>

\* windv_capture_start, which refuses unless the engine waits for it.
CaptureStart ==
    /\ Called("captureStart")
    /\ \/ /\ engine = "CapturePaused"
          /\ engine' = "Capturing"
          /\ Answer("ok")
          /\ UNCHANGED events
       \/ /\ Answer("failed")
          /\ IF engine = "CapturePaused" THEN Happens ELSE UNCHANGED events
          /\ UNCHANGED engine
    /\ UNCHANGED <<worker, swallowed, error>>

\* The calls that only go from one state to another, if it is the right one.
Exchange(c, from, to) ==
    /\ Called(c)
    /\ engine' = IF engine = from THEN to ELSE engine
    /\ Answer("ok")
    /\ UNCHANGED <<worker, swallowed, error, events>>

CaptureStop == Exchange("captureStop", "Capturing", "CapturePaused")
RecordStart == Exchange("recordStart", "RecordPaused", "Recording")
RecordStop == Exchange("recordStop", "Recording", "RecordPaused")

Transport ==
    /\ Called("transport")
    /\ \/ Answer("ok") /\ UNCHANGED events
       \/ Answer("failed") /\ Happens
    /\ UNCHANGED <<pipeline, swallowed, error>>

\* ShutdownAsync's call, which no action waits for.
ShutdownTransport ==
    /\ window = "stopping" /\ phase # "building"
    /\ window' = "stopped"
    /\ UNCHANGED <<tool, commandLine, shown, actions, devices, pipeline,
                   errors, events>>

Serve ==
    \/ Reset \/ BuildDestroy \/ BuildCreate
    \/ CaptureStart \/ CaptureStop \/ RecordStart \/ RecordStop \/ Transport

\* windv_engine::TakeError: a call's message goes before the engine's.
TakeError ==
    /\ callError' = FALSE
    /\ error' = (error /\ callError)

\* Check, on the thread pool: the failed call becomes an exception.  Each takes
\* whatever error there is.
Check ==
    /\ phase \in {"failed", "missing"}
    /\ phase' = IF phase = "missing" THEN "thrownMissing" ELSE "thrown"
    /\ TakeError
    /\ UNCHANGED <<shared, shown, busy, running, waiting, steps, devices,
                   pipeline, raised, events>>

CheckList(a) ==
    /\ listing[a] = "failed"
    /\ listing' = [listing EXCEPT ![a] = "thrown"]
    /\ swallowed' = (swallowed \/ (error /\ ~callError))
    /\ TakeError
    /\ UNCHANGED <<shared, shown, actions, present, deviceTimer,
                   presentDevices, missed, pipeline, raised, events>>

\* The error is taken, and the pipeline set up again if there was one.
\* Faulty on its own: it handles an event that nobody sent.
RaiseOne ==
    /\ raised' = raised - 1
    /\ TakeError
    /\ IF callError \/ error
         THEN RunAsync(Action("error"), tool, exitOnFinish)
         ELSE UNCHANGED <<shown, actions>>
    /\ UNCHANGED <<shared, devices, pipeline, events>>

\* Faulty: an error told while an action runs is left to that action.
RaiseFree ==
    /\ raised > 0
    /\ raised' = raised - 1
    /\ TakeError
    /\ IF error /\ ~busy
         THEN RunAsync(Action("error"), tool, exitOnFinish)
         ELSE UNCHANGED <<shown, actions>>
    /\ UNCHANGED <<shared, devices, pipeline, events>>

\* Raise, on the UI thread: an error of the engine that nobody has taken.
Raise == raised > 0 /\ RaiseOne

-----------------------------------------------------------------------------
(* The engine on its own                                                   *)

\* A capture ends: its time is over, the signal was lost, the disk is full.
CaptureEnds ==
    /\ engine = "Capturing" /\ worker = "runs"
    /\ engine' = "Finished"
    /\ UNCHANGED <<shared, shown, actions, devices, worker, errors, events>>

\* A recording ends with its files, or with the error that cut it short.
RecordEnds ==
    /\ engine = "Recording" /\ worker # "none"
    /\ engine' = "Finished"
    /\ UNCHANGED <<shared, shown, actions, devices, worker, errors,
                   events>>

\* ReportError: the first error of a pipeline is told.
PipelineFails ==
    /\ worker = "runs"
    /\ Happens
    /\ worker' = "failed"
    /\ error' = TRUE
    /\ raised' = IF error THEN raised ELSE raised + 1
    /\ UNCHANGED <<shared, shown, actions, devices, engine, callError>>

-----------------------------------------------------------------------------

Open == window # "closed"

\* Dispose ends it all.
Next ==
    /\ Open
    /\ \/ Tick \/ Granted \/ Continue \/ Recover \/ End
       \/ \E k \in {"play", "pause", "stop", "rec"} : Command(k)
       \/ ChangeTool \/ StartAsync \/ Close \/ Closed
       \/ Switch \/ OnDevicesChanged \/ DevicesListed
       \/ RefreshDevices \/ DevicesRefreshed
       \/ (\E a \in Askers : ListDevices(a) \/ CheckList(a))
       \/ Serve \/ ShutdownTransport \/ Check \/ Raise
       \/ CaptureEnds \/ RecordEnds \/ PipelineFails

Spec == Init /\ [][Next]_vars

\* The UI thread comes to every handler and every continuation, the engine
\* thread serves every call.  Nobody promises a user, a device or an end.
FairSpec ==
    /\ Spec
    /\ WF_vars(Open /\ Tick)
    /\ WF_vars(Open /\ (Granted \/ Continue \/ Recover \/ End))
    /\ WF_vars(Open /\ StartAsync) /\ WF_vars(Closed)
    /\ WF_vars(Open /\ OnDevicesChanged) /\ WF_vars(Open /\ DevicesListed)
    /\ WF_vars(Open /\ Raise) /\ WF_vars(Open /\ Check)
    /\ \A a \in Askers : /\ WF_vars(Open /\ ListDevices(a))
                         /\ WF_vars(Open /\ CheckList(a))
    /\ WF_vars(Open /\ Serve)
    /\ WF_vars(ShutdownTransport)

-----------------------------------------------------------------------------
(* Properties                                                              *)

\* Every variable keeps to its values.
TypeOK ==
    /\ tool \in {"Capture", "Record"}
    /\ commandLine \in Given \cup {Started}
    /\ window \in {"open", "stopping", "stopped", "closed"}
    /\ status \in States /\ engine \in States
    /\ running \in [kind : Kinds \cup {"none"}, seen : States,
                    recovers : BOOLEAN]
    /\ waiting \in Seq([kind : Kinds, seen : States, recovers : {FALSE}])
    /\ phase \in {"none", "asked", "building", "ok", "failed", "missing",
                 "thrown", "thrownMissing"}
    /\ listing \in Lists
    /\ worker \in {"none", "runs", "failed"}
    /\ raised \in Nat

\* Nothing is under way.
Quiet ==
    /\ window = "open" /\ commandLine = Started /\ running = NoAction
    /\ ~deviceTimer /\ listing["changed"] = "none" /\ raised = 0

\* Whatever was pressed in whatever order, in the end the pipeline is the
\* chosen tool's: an action that began under the other tool, or waited while
\* the tool was changed, is followed by the one that puts it right.
ToolMatchesPipeline ==
    Quiet => IF tool = "Capture"
               THEN engine \notin {"RecordPaused", "Recording"}
               ELSE engine \notin {"CapturePaused", "Capturing"}

\* A pipeline that failed is set up again (OnEngineErrorAsync), whatever else
\* was under way and whichever of the calls that failed beside it took its
\* error, unless that was the call for a list of devices.
FailedIsRebuilt ==
    worker = "failed" ~> worker # "failed" \/ swallowed \/ ~Open

\* A camcorder that went is let go of, though its notification may come amid
\* other actions (MainViewModel.cs:463), unless the list of devices failed when
\* WinDV looked last.
LostIsLetGo ==
    ~present ~> present \/ engine = "Idle" \/ missed \/ ~Open

\* "-exit closes WinDV when the capture or recording finishes"
\* (README.md:170), unless something set up the pipeline anew: a finished one
\* does not stay.
ExitCloses ==
    exitOnFinish /\ engine = "Finished" ~> engine # "Finished" \/ ~Open

\* "look again once the current action is done" (MainViewModel.cs:474): a
\* camcorder that appears does not end a capture that an action has begun.
CaptureKept ==
    [][engine = "Capturing" /\ engine' = "Idle" =>
           running.kind # "reconnect"]_vars
=============================================================================
