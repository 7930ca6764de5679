----------------------------- MODULE DeckControl -----------------------------
(***************************************************************************)
(* Who drives the tape: engine/DVDevice and core/TransportLogic under      *)
(* engine/DVEngine's deck calls, the status native/NativeApi publishes     *)
(* once per tick, and ui/ViewModels/MainViewModel, which decides on what   *)
(* was published last.  The deck also goes its own way: it reports other   *)
(* modes than it was asked for, comes to the end of its tape and has       *)
(* buttons of its own.                                                     *)
(*                                                                         *)
(* The pipeline is reduced to its port and state; a call is served by the  *)
(* engine thread, in two steps where it looks before it acts.              *)
(***************************************************************************)
EXTENDS Naturals, Sequences

CONSTANT
    MaxEvents   \* bound: buttons, settings and tools of the user, keys of the
                \* camcorder and devices that do not open, all together

ASSUME DeckAssumption == MaxEvents \in Nat

VARIABLES
    deck,           \* the code the device reports, IAMExtTransport::get_Mode
    transport,      \* the device has IAMExtTransport (m_ET)
    ordered,        \* history: the last mode sent on this port, or OwnWay
    port, state,    \* m_dvInput or m_dvOutput, m_state
    DVctrl,         \* m_DVctrl, "the deck follows the pipeline"
    steady,         \* history: DVctrl is as it was when the port was opened
    published,      \* m_status of windv_engine: deckMode and canControlDeck
    shown,          \* what UpdateStatus read last
    tool, deckControl,  \* SelectedTool, the setting DeckControl
    todo,           \* what the running action and those after it do yet
    call,           \* progress of the engine call that todo begins with
    request,        \* the modes that call has still to send
    window,         \* "open", "stopping" (ShutdownAsync), "closed"
    quiet,          \* history: closed while driving the deck, nothing running
    events

device == <<deck, transport, ordered>>
engine == <<port, state, DVctrl, steady>>
ui == <<shown, tool, deckControl>>
closing == <<window, quiet>>
vars ==
    <<device, engine, published, ui, todo, call, request, closing, events>>

-----------------------------------------------------------------------------
(* Modes: codes the device reports, and what they stand for                *)

\* Only told apart, so the numbers of xprtdefs.h are kept without ED_BASE and
\* each range is represented by its ends.
STOP == 201   PLAY == 200   FREEZE == 202   FF == 204   REW == 205
RECORD == 206 RECORD_FREEZE == 808
PlayFastestFwd == 933
PlayFastestRev == 935

InRange(mode, first, last) == mode >= first /\ mode <= last

\* Faulty: only the codes that were asked for are known.
ToDeckModeExact(mode) ==
    CASE mode = STOP -> "Stopped"
      [] mode = PLAY -> "Playing"
      [] mode = FREEZE -> "Paused"
      [] mode = FF -> "FastForward"
      [] mode = REW -> "Rewind"
      [] mode = PlayFastestFwd -> "CueForward"
      [] mode = PlayFastestRev -> "CueReverse"
      [] mode = RECORD -> "Recording"
      [] mode = RECORD_FREEZE -> "RecordPaused"
      [] OTHER -> "Unknown"

\* A deck told PLAY_FASTEST_FWD answers e.g. PLAY_FAST_FWD_6.
ToDeckMode(mode) ==
    CASE mode = STOP -> "Stopped"
      [] mode \in {PLAY, 934, 1026} \/ InRange(mode, 1001, 1006) -> "Playing"
      [] mode \in {FREEZE, 1025} -> "Paused"
      [] mode = FF -> "FastForward"
      [] mode \in {REW, 938} -> "Rewind"
      [] mode \in {PlayFastestFwd, 1027} \/ InRange(mode, 1007, 1012)
           -> "CueForward"
      [] mode \in {PlayFastestRev, 936, 1029, 1028, 939}
           \/ InRange(mode, 1013, 1018) \/ InRange(mode, 1019, 1024)
           -> "CueReverse"
      [] mode = RECORD -> "Recording"
      [] mode = RECORD_FREEZE -> "RecordPaused"
      [] OTHER -> "Unknown"

DeckModes == {"Unknown", "Stopped", "Playing", "Paused", "FastForward",
              "Rewind", "CueForward", "CueReverse", "Recording",
              "RecordPaused"}
IsOnTape(mode) == mode \in {"Playing", "Paused", "CueForward", "CueReverse"}

Keys == {STOP, 1001, 1025, 939, RECORD, 0}
Picture == {PLAY, FREEZE, 1001, 1025, PlayFastestFwd, 1007, 1012,
            PlayFastestRev, 1019, 1024, 939}

\* What the device reports after put_Mode: it pauses only where there is a
\* picture, and searches at a speed of its own.
Answers(current, mode) ==
    CASE mode = FREEZE -> IF current \in Picture THEN {FREEZE} ELSE {current}
      [] mode = PlayFastestFwd -> {PlayFastestFwd, 1007}
      [] mode = PlayFastestRev -> {PlayFastestRev, 1024}
      [] OTHER -> {mode}
NoOrder == 0
OwnWay == 1     \* the deck did something by itself since
States == {"Idle", "CapturePaused", "Capturing", "RecordPaused", "Recording",
           "Finished"}
Live == {"CapturePaused", "Capturing", "Finished"}
Buttons == {"Play", "Pause", "Stop", "FastForward", "Rewind"}
Steps == Buttons \cup {"init", "reset", "connect", "buildCapture", "start",
    "captureStart", "captureStop", "buildRecord", "recordStart", "recordStop"}

\* The modes to send for a button, given what the deck does.
ResolveDeckCommand(command, current) ==
    IF current \in {"Recording", "RecordPaused"}
      THEN IF command = "Stop" THEN <<STOP>> ELSE <<>>
      ELSE CASE command = "Play" ->
                  IF current = "Playing" THEN <<>> ELSE <<PLAY>>
             [] command = "Pause" ->
                  IF current = "Paused" THEN <<PLAY>>
                  ELSE IF IsOnTape(current) THEN <<FREEZE>>
                                            ELSE <<PLAY, FREEZE>>
             [] command = "Stop" ->
                  IF current = "Stopped" THEN <<>> ELSE <<STOP>>
             [] command = "FastForward" ->
                  IF IsOnTape(current) THEN <<PlayFastestFwd>> ELSE <<FF>>
             [] command = "Rewind" ->
                  IF IsOnTape(current) THEN <<PlayFastestRev>> ELSE <<REW>>

\* The modes to send one after the other, as the deck takes them.
Send(modes) ==
    /\ deck' \in CASE modes = <<>> -> {deck}
                   [] Len(modes) = 1 -> Answers(deck, modes[1])
                   [] OTHER -> UNION {Answers(d, modes[2]) :
                                        d \in Answers(deck, modes[1])}
    /\ ordered' = IF modes = <<>> THEN ordered ELSE modes[Len(modes)]
Controls == port # "none" /\ transport
If(condition, mode) == IF condition /\ transport THEN <<mode>> ELSE <<>>
ModeNow == IF Controls THEN ToDeckMode(deck) ELSE "Unknown"

Happens == events < MaxEvents /\ events' = events + 1

Init ==
    /\ deck \in {STOP, PLAY}
    /\ transport \in BOOLEAN /\ ordered = NoOrder
    /\ port = "none" /\ state = "Idle" /\ DVctrl = FALSE /\ steady = TRUE
    /\ published = [mode |-> "Unknown", can |-> FALSE]
    /\ shown = [state |-> "Idle", mode |-> "Unknown", can |-> FALSE]
    /\ deckControl \in BOOLEAN
    /\ \/ tool \in {"Capture", "Record"} /\ todo = <<"init">>
       \/ tool = "Capture" /\ todo = <<"buildCapture", "start">>
       \/ tool = "Record" /\ todo = <<"buildRecord", "recordStart">>
    /\ call = "no" /\ request = <<>>
    /\ window = "open" /\ quiet = FALSE /\ events = 0

-----------------------------------------------------------------------------
(* The user                                                                *)

CanUseDeckButtons == todo = <<>> /\ (tool = "Record" \/ shown.can)
CanWind == todo = <<>> /\ tool = "Capture" /\ shown.can
CanRec == todo = <<>> /\ tool = "Capture" /\ shown.state \in Live

Presses(steps) ==
    /\ Happens
    /\ todo' = steps
    /\ quiet' = FALSE
    /\ UNCHANGED <<device, engine, published, ui, call, request, window>>

Play ==
    /\ CanUseDeckButtons
    /\ Presses(IF tool = "Capture"
                 THEN <<"Play">>
                 ELSE CASE shown.state = "RecordPaused" -> <<"recordStart">>
                        [] shown.state = "Recording" -> <<>>
                        [] OTHER -> <<"buildRecord", "recordStart">>)

Pause ==
    /\ CanUseDeckButtons
    /\ Presses(IF tool = "Capture"
                 THEN <<"Pause">>
                 ELSE CASE shown.state = "Recording" -> <<"recordStop">>
                        [] shown.state = "RecordPaused" -> <<"recordStart">>
                        [] OTHER -> <<"buildRecord">>)

Stop ==
    /\ CanUseDeckButtons
    /\ Presses(IF tool = "Record"
                 THEN <<"init">>
                 ELSE IF shown.state = "Capturing"
                        THEN <<"captureStop", "Stop">>
                        ELSE <<"Stop">>)

Wind == CanWind /\ \E b \in {"FastForward", "Rewind"} : Presses(<<b>>)

Rec ==
    /\ CanRec
    /\ Presses(CASE shown.state = "Capturing" -> <<"captureStop">>
                 [] shown.state = "Finished" -> <<"buildCapture", "start">>
                 [] OTHER -> <<"start">>)

\* The pipeline is set up anew, after what is running.
ChangeTool ==
    /\ Happens
    /\ tool' = IF tool = "Capture" THEN "Record" ELSE "Capture"
    /\ todo' = Append(todo, "init")
    /\ quiet' = FALSE
    /\ UNCHANGED <<device, engine, published, shown, deckControl, call,
                   request, window>>

\* m_DVctrl is written where it stands, whatever the engine does.
ApplyOptions(control) ==
    /\ DVctrl' = (tool = "Record" /\ control)
    /\ steady' = (steady /\ (port = "none" \/ DVctrl' = DVctrl))

ApplySettings ==
    /\ window = "open"
    /\ Happens
    /\ deckControl' = ~deckControl
    /\ ApplyOptions(deckControl')
    /\ UNCHANGED <<device, port, state, published, shown, tool, todo, call,
                   request, closing>>

\* The camcorder's own buttons, or the end of its tape.
DeckKey ==
    /\ Happens
    /\ deck' \in Keys \ {deck}
    /\ ordered' = OwnWay
    /\ UNCHANGED <<transport, engine, published, ui, todo, call, request,
                   closing>>

-----------------------------------------------------------------------------
(* MainViewModel between its calls                                         *)

UpdateStatus ==
    shown' = [state |-> state, mode |-> published.mode, can |-> published.can]

\* The timer.
Poll ==
    /\ UpdateStatus
    /\ UNCHANGED <<device, engine, published, tool, deckControl, todo, call,
                   request, closing, events>>

\* StartCaptureAsync decides on what the last tick published.
Decide ==
    /\ todo # <<>> /\ Head(todo) = "start"
    /\ todo' = (IF deckControl /\ published.can /\ published.mode # "Playing"
                  THEN <<"Play", "captureStart">>
                  ELSE <<"captureStart">>) \o Tail(todo)
    /\ UNCHANGED <<device, engine, published, ui, call, request, closing,
                   events>>

\* A call is handed to the engine thread; options go ahead of a build.
Ask ==
    LET step == Head(todo)
        does == IF step # "init" THEN step
                ELSE IF tool = "Capture" THEN "connect" ELSE "reset"
    IN  /\ todo # <<>> /\ call = "no" /\ step # "start"
        /\ call' = "asked"
        /\ todo' = <<does>> \o Tail(todo)
        /\ IF does \in {"connect", "buildCapture", "buildRecord"}
             THEN ApplyOptions(deckControl)
             ELSE UNCHANGED <<DVctrl, steady>>
        /\ UNCHANGED <<device, port, state, published, ui, request, closing,
                       events>>

\* The call is answered.  A build or a start that failed sets the pipeline up
\* again, except when that was what failed.
Continue ==
    /\ call \in {"done", "failed"}
    /\ todo' = IF call = "failed" /\ Head(todo) # "connect"
                 THEN <<"init">>
                 ELSE Tail(todo)
    /\ call' = "no"
    /\ IF todo' = <<>> THEN UpdateStatus ELSE UNCHANGED shown
    /\ UNCHANGED <<device, engine, published, tool, deckControl, request,
                   closing, events>>

\* ShutdownAsync: a deck that is driven from the capture tool is stopped.
ShutdownAsync ==
    /\ window = "open"
    /\ window' = IF tool = "Capture" /\ shown.can /\ deckControl
                   THEN "stopping"
                   ELSE "stopped"
    /\ quiet' = (todo = <<>> /\ port # "none" /\ deckControl /\ steady)
    /\ UNCHANGED <<device, engine, published, ui, todo, call, request, events>>

\* Faulty: a deck that only waits on its tape is not stopped.
DestroyModesPaused == IF state = "RecordPaused" THEN <<>>
                      ELSE If(DVctrl /\ port # "none", STOP)

\* Destroy, as far as the deck is concerned.
DestroyModes == If(DVctrl /\ port # "none", STOP)

\* Detach and Dispose: what was not served by now never is.
Closed ==
    /\ window = "stopped" /\ call # "half"
    /\ window' = "closed"
    /\ Send(DestroyModes)
    /\ port' = "none" /\ state' = "Idle"
    /\ UNCHANGED <<transport, DVctrl, steady, published, ui, todo, call,
                   request, quiet, events>>

-----------------------------------------------------------------------------
(* The engine thread                                                       *)

\* windv_engine::Tick, between two tasks.
Tick ==
    /\ call # "half"
    /\ published' = [mode |-> ModeNow, can |-> Controls]
    /\ UNCHANGED <<device, engine, ui, todo, call, request, closing, events>>

Asked(step) == todo # <<>> /\ Head(todo) = step /\ call = "asked"
Served(result, modes) == call' = result /\ request' = modes
Rests == UNCHANGED <<published, ui, todo, closing, events>>

\* Transport and Command: the mode is read, then the request is sent.
Command(button) ==
    /\ Asked(button)
    /\ Served("half", IF port = "input" /\ transport
                        THEN ResolveDeckCommand(button, ToDeckMode(deck))
                        ELSE <<>>)
    /\ UNCHANGED <<device, engine>> /\ Rests

\* The second half of a call: the deck is told.
Tell ==
    /\ call = "half"
    /\ Head(todo) \notin {"reset", "connect", "buildCapture", "buildRecord"}
    /\ Send(request)
    /\ Served("done", <<>>)
    /\ UNCHANGED <<transport, engine>> /\ Rests

\* ShutdownAsync's Stop.
ShutdownStop ==
    /\ window = "stopping" /\ call # "half"
    /\ Send(IF port = "input" /\ transport
              THEN ResolveDeckCommand("Stop", ToDeckMode(deck))
              ELSE <<>>)
    /\ window' = "stopped"
    /\ UNCHANGED <<transport, engine, published, ui, todo, call, request,
                   quiet, events>>

\* The state is exchanged first, then the deck is told.
Exchange(step, from, to, modes) ==
    /\ Asked(step)
    /\ state' = IF state = from THEN to ELSE state
    /\ Served("half", IF state = from /\ DVctrl /\ transport THEN modes
                                                             ELSE <<>>)
    /\ UNCHANGED <<device, port, DVctrl, steady>> /\ Rests

StopCapturing ==
    Exchange("captureStop", "Capturing", "CapturePaused", <<PLAY, FREEZE>>)
StartRecording ==
    Exchange("recordStart", "RecordPaused", "Recording", <<RECORD>>)

\* Faulty: the deck is told although the recording has finished.
StopRecordingUntested ==
    /\ Asked("recordStop")
    /\ state' = IF state = "Recording" THEN "RecordPaused" ELSE state
    /\ Served("half", If(DVctrl, RECORD_FREEZE))
    /\ UNCHANGED <<device, port, DVctrl, steady>> /\ Rests

StopRecording ==
    Exchange("recordStop", "Recording", "RecordPaused", <<RECORD_FREEZE>>)

StartCapturing ==
    /\ Asked("captureStart")
    /\ IF state = "CapturePaused"
         THEN state' = "Capturing" /\ Served("half", If(DVctrl, PLAY))
         ELSE state' = state /\ Served("failed", <<>>)
    /\ UNCHANGED <<device, port, DVctrl, steady>> /\ Rests

\* There is not enough space on the disk.
StartCapturingRefused ==
    /\ Asked("captureStart")
    /\ state = "CapturePaused"
    /\ Happens
    /\ Served("failed", <<>>)
    /\ UNCHANGED <<device, engine, published, ui, todo, closing>>

\* Faulty: the state stays until the next pipeline has one.
DestroyKeepsState ==
    /\ \E step \in {"reset", "connect", "buildCapture", "buildRecord"} :
         Asked(step)
    /\ Send(DestroyModes)
    /\ port' = "none" /\ state' = state
    /\ Served(IF Head(todo) = "reset" THEN "done" ELSE "half", <<>>)
    /\ UNCHANGED <<transport, DVctrl, steady>> /\ Rests

\* The first half of Reset, BuildCapturing and BuildRecording.
Destroy ==
    /\ \E step \in {"reset", "connect", "buildCapture", "buildRecord"} :
         Asked(step)
    /\ Send(DestroyModes)
    /\ port' = "none" /\ state' = "Idle"
    /\ Served(IF Head(todo) = "reset" THEN "done" ELSE "half", <<>>)
    /\ UNCHANGED <<transport, DVctrl, steady>> /\ Rests

\* Their second half: the deck opened for recording waits on its tape.
Create ==
    /\ call = "half"
    /\ Head(todo) \in {"connect", "buildCapture", "buildRecord"}
    /\ IF Head(todo) = "buildRecord"
         THEN port' = "output" /\ state' = "RecordPaused"
         ELSE port' = "input" /\ state' = "CapturePaused"
    /\ LET modes == If(port' = "output" /\ DVctrl, RECORD_FREEZE)
       IN  /\ deck' \in IF modes = <<>> THEN {deck}
                                       ELSE Answers(deck, modes[1])
           /\ ordered' = IF modes = <<>> THEN NoOrder ELSE modes[1]
    /\ steady' = TRUE
    /\ Served("done", <<>>)
    /\ UNCHANGED <<transport, DVctrl>> /\ Rests

\* The device is not found or cannot be opened; or it is, and then what needs
\* its format fails; or the state is set, and then the graph does not run.  The
\* deck is told nothing, and what was made stays until the next Destroy.
CreateFails ==
    /\ call = "half"
    /\ Head(todo) \in {"connect", "buildCapture", "buildRecord"}
    /\ Happens
    /\ \/ UNCHANGED <<device, engine>>
       \/ /\ IF Head(todo) = "buildRecord"
                THEN port' = "output" /\ state' \in {"Idle", "RecordPaused"}
                ELSE port' = "input" /\ state' \in {"Idle", "CapturePaused"}
          /\ ordered' = NoOrder /\ steady' = TRUE
          /\ UNCHANGED <<deck, transport, DVctrl>>
    /\ Served("failed", <<>>)
    /\ UNCHANGED <<published, ui, todo, closing>>

\* FinishOnItsOwn of either worker.
Finish ==
    /\ state \in {"Capturing", "Recording"}
    /\ state' = "Finished"
    /\ UNCHANGED <<device, port, DVctrl, steady, published, ui, todo, call,
                   request, closing, events>>

-----------------------------------------------------------------------------

Open == window # "closed"

\* Dispose ends it all.
Next ==
    /\ Open
    /\ \/ Play \/ Pause \/ Stop \/ Wind \/ Rec \/ ChangeTool
       \/ ApplySettings \/ DeckKey
       \/ Poll \/ Decide \/ Ask \/ Continue
       \/ ShutdownAsync \/ ShutdownStop \/ Closed
       \/ Tick \/ Tell \/ (\E b \in Buttons : Command(b))
       \/ StopCapturing \/ StartCapturing \/ StartCapturingRefused
       \/ StopRecording \/ StartRecording
       \/ Destroy \/ Create \/ CreateFails \/ Finish

Spec == Init /\ [][Next]_vars

\* The engine thread ticks and serves, the UI thread polls and goes on.
Engine == Tell \/ (\E b \in Buttons : Command(b))
          \/ StopCapturing \/ StartCapturing \/ StopRecording
          \/ StartRecording \/ Destroy \/ Create
FairSpec ==
    /\ Spec
    /\ WF_vars(Open /\ Tick) /\ WF_vars(Open /\ Engine)
    /\ WF_vars(Open /\ Poll) /\ WF_vars(Open /\ (Decide \/ Ask \/ Continue))

-----------------------------------------------------------------------------
(* Properties                                                              *)

\* Every variable keeps to its values.
TypeOK ==
    /\ deck \in Nat /\ ordered \in Nat
    /\ state \in CASE port = "none" -> {"Idle"}
                    [] port = "input" -> Live \cup {"Idle"}
                    [] port = "output" -> {"Idle", "RecordPaused", "Recording",
                                           "Finished"}
    /\ published \in [mode : DeckModes, can : BOOLEAN]
    /\ shown \in [state : States, mode : DeckModes, can : BOOLEAN]
    /\ tool \in {"Capture", "Record"}
    /\ todo \in Seq(Steps)
    /\ call \in {"no", "asked", "half", "done", "failed"}
    /\ request \in Seq(Nat) /\ Len(request) <= 2
    /\ window \in {"open", "stopping", "stopped", "closed"}

\* However the deck words what it does ("a camcorder told PLAY_FASTEST_FWD
\* answers e.g. PLAY_FAST_FWD_6", DVDevice.cpp:16), a button other than Stop
\* does not take its picture away, nor interrupt a tape that is recorded on
\* ("driven by the record pipeline, not these buttons", TransportLogic.cpp:27).
ReadsDeck(button) ==
    todo # <<>> /\ Head(todo) = button /\ call = "asked" /\ call' = "half"
PictureKept ==
    [][\A b \in Buttons \ {"Stop"} : ReadsDeck(b) =>
         /\ deck \in Picture =>
              \A i \in DOMAIN request' : request'[i] \notin {STOP, FF, REW}
         /\ deck \in {RECORD, RECORD_FREEZE} => request' = <<>>]_vars

\* A pipeline whose building failed half way is taken down next.
TakenDown ==
    \/ call = "failed" /\ todo # <<>> /\ Head(todo) = "buildRecord"
    \/ call \in {"no", "asked"} /\ todo # <<>>
           /\ Head(todo) \in {"init", "reset", "connect"}

\* "while recording to tape the deck follows Start/StopRecording" (DVEngine.h:
\* 90), also when the recording ends between the two halves of a call.  A
\* pipeline that could not be built has told the deck nothing: it never gets to
\* record, and is about to be taken down.
TapeFollowsPipeline ==
    port = "output" /\ DVctrl /\ steady /\ transport /\ call # "half" =>
        \/ ordered = OwnWay
        \/ state = "RecordPaused" /\ ordered = RECORD_FREEZE
        \/ state \in {"Recording", "Finished"} /\ ordered = RECORD
        \/ state \in {"Idle", "RecordPaused"} /\ ordered = NoOrder
               /\ TakenDown

\* Closing "leaves the deck stopped if WinDV was driving it"
\* (MainViewModel.cs:239), from either tool, if nothing runs meanwhile.
ClosedDeckStopped ==
    window = "closed" /\ quiet =>
        deck = STOP \/ ordered \in {NoOrder, OwnWay, STOP}

\* "With *Let WinDV run the tape* turned on in Settings, REC also starts the
\* tape" (README.md:149): when a capture begins the tape was started, or went
\* its own way, or is playing.
RecStartsTape ==
    [][state = "CapturePaused" /\ state' = "Capturing" /\ deckControl
         /\ transport =>
       ordered \in {PLAY, OwnWay} \/ ToDeckMode(deck) = "Playing"]_vars
=============================================================================
