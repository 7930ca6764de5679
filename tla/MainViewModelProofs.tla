------------------------ MODULE MainViewModelProofs ------------------------
(* The pipeline of the chosen tool, for any number of buttons, tool changes *)
(* and failures, any command lines and any devices.                         *)
EXTENDS MainViewModel, TLAPS

-----------------------------------------------------------------------------
(* The inductive invariant                                                  *)

Waiting == [kind : Kinds, seen : States, recovers : {FALSE}]
Calls == Builds \cup {"init", "startCapture", "reset", "captureStart",
                      "captureStop", "recordStart", "recordStop", "transport"}

\* The action that was given _busy and those behind it.
Queued == IF running # NoAction /\ ~busy THEN <<running>> \o waiting
                                         ELSE waiting

ActionInv ==
    /\ busy \in BOOLEAN /\ steps \in Seq(Calls)
    /\ running = NoAction => ~busy /\ waiting = <<>>
    /\ running # NoAction => running.kind \in Kinds
    /\ ~busy => steps = <<>> /\ phase = "none"
    /\ phase \notin {"none", "ok"} => steps # <<>>
    /\ phase = "building" => Head(steps) \in Builds

\* A state of the pipeline, a call and an action that are not tool t's.
WrongState(s, t) ==
    s \in IF t = "Capture" THEN {"RecordPaused", "Recording"}
                           ELSE {"CapturePaused", "Capturing"}
WrongCall(c, t) ==
    c \in IF t = "Capture" THEN {"buildRecord"}
                           ELSE {"initCapture", "buildCapture"}
WrongAction(a, t) ==
    a.kind \in IF t = "Capture" THEN {"recordJob"} ELSE {"rec", "captureJob"}

\* An action that begins with a new pipeline for t, or with none.
SetsUp(a, t) ==
    a.kind \in {"init", "reconnect", "error",
                IF t = "Capture" THEN "captureJob" ELSE "recordJob"}

\* Among the actions that wait, one puts the pipeline right, and those behind
\* it leave it so.
ToBePutRight ==
    \E i \in DOMAIN Queued :
        /\ SetsUp(Queued[i], tool)
        /\ \A j \in DOMAIN Queued : j > i => ~WrongAction(Queued[j], tool)

\* The pipeline is the tool's, or about to be replaced by the tool's; nothing
\* that is done or waits makes it another.
StaysRight ==
    /\ WrongState(engine, tool) =>
         phase = "asked" /\ Head(steps) \in Builds \cup {"reset"}
    /\ \A i \in DOMAIN steps : ~WrongCall(steps[i], tool)
    /\ \A j \in DOMAIN Queued : ~WrongAction(Queued[j], tool)

Right == ToBePutRight \/ StaysRight
IInv == TypeOK /\ ActionInv /\ Right

Tools == {"Capture", "Record"}
NoWrongCall(list, t) == \A i \in DOMAIN list : ~WrongCall(list[i], t)
BeginsAnew(list) ==
    list # <<>> /\ Head(list) \in Builds \cup {"init", "reset"}

-----------------------------------------------------------------------------
(* What an action does                                                      *)

\* What a list of one or two calls is.
LEMMA OneCall ==
    ASSUME NEW c \in Calls, NEW t
    PROVE  /\ <<c>> \in Seq(Calls)
           /\ ~WrongCall(c, t) => NoWrongCall(<<c>>, t)
           /\ c \in Builds \cup {"init", "reset"} => BeginsAnew(<<c>>)
  BY DEF NoWrongCall, BeginsAnew

\* The same of two.
LEMMA TwoCalls ==
    ASSUME NEW c \in Calls, NEW d \in Calls, NEW t
    PROVE  /\ <<c, d>> \in Seq(Calls)
           /\ ~WrongCall(c, t) /\ ~WrongCall(d, t)
                => NoWrongCall(<<c, d>>, t)
           /\ c \in Builds \cup {"init", "reset"} => BeginsAnew(<<c, d>>)
  BY DEF NoWrongCall, BeginsAnew

\* And of none.
LEMMA NoCalls ==
    ASSUME NEW t
    PROVE  <<>> \in Seq(Calls) /\ NoWrongCall(<<>>, t)
  BY DEF NoWrongCall

\* The calls of an action that is t's are t's.
LEMMA BodyRight ==
    ASSUME NEW a, a.kind \in Kinds, NEW t \in Tools
    PROVE  /\ Body(a, t) \in Seq(Calls)
           /\ ~WrongAction(a, t) => NoWrongCall(Body(a, t), t)
           /\ SetsUp(a, t) => BeginsAnew(Body(a, t))
  <1> DEFINE Good(list) ==
               /\ list \in Seq(Calls)
               /\ ~WrongAction(a, t) => NoWrongCall(list, t)
               /\ SetsUp(a, t) => BeginsAnew(list)
  <1> USE DEF Calls, Builds, Tools, WrongAction, WrongCall, SetsUp
  <1>1. Good(<<"init">>)
    BY OneCall
  <1>2. ~SetsUp(a, t) => Good(<<>>) /\ Good(<<"transport">>)
    BY OneCall, NoCalls
  <1>3. CASE a.kind = "play"
    <2>1. CASE t = "Capture"
      BY <1>2, <1>3, <2>1 DEF Body, Play
    <2>2. CASE t = "Record"
      <3>1. Good(<<"recordStart">>)
        BY <1>3, OneCall
      <3>2. Good(<<"buildRecord", "recordStart">>)
        BY <1>3, <2>2, TwoCalls
      <3>3. Body(a, t) \in {<<>>, <<"recordStart">>,
                            <<"buildRecord", "recordStart">>}
        BY <1>3, <2>2 DEF Body, Play
      <3> QED
        BY <1>2, <1>3, <3>1, <3>2, <3>3
    <2> QED
      BY <2>1, <2>2
  <1>4. CASE a.kind = "pause"
    <2>1. CASE t = "Capture"
      BY <1>2, <1>4, <2>1 DEF Body, Pause
    <2>2. CASE t = "Record"
      <3>1. Good(<<"recordStart">>) /\ Good(<<"recordStop">>)
        BY <1>4, OneCall
      <3>2. Good(<<"buildRecord">>)
        BY <1>4, <2>2, OneCall
      <3>3. Body(a, t) \in {<<"recordStart">>, <<"recordStop">>,
                            <<"buildRecord">>}
        BY <1>4, <2>2 DEF Body, Pause
      <3> QED
        BY <3>1, <3>2, <3>3
    <2> QED
      BY <2>1, <2>2
  <1>5. CASE a.kind = "stop"
    <2>1. Good(<<"captureStop", "transport">>)
      BY <1>5, TwoCalls
    <2>2. Body(a, t) \in {<<"init">>, <<"transport">>,
                          <<"captureStop", "transport">>}
      BY <1>5 DEF Body, Stop
    <2> QED
      BY <1>1, <1>2, <1>5, <2>1, <2>2
  <1>6. CASE a.kind = "rec"
    <2>1. Good(<<"captureStop">>) /\ Good(<<"startCapture">>)
      BY <1>6, OneCall
    <2>2. Good(<<"buildCapture", "startCapture">>)
      BY <1>6, TwoCalls
    <2>3. Body(a, t) \in {<<"captureStop">>, <<"startCapture">>,
                          <<"buildCapture", "startCapture">>}
      BY <1>6 DEF Body, Rec
    <2> QED
      BY <2>1, <2>2, <2>3
  <1>7. CASE a.kind = "captureJob"
    <2>1. Good(<<"buildCapture", "startCapture">>)
      BY <1>7, TwoCalls
    <2> QED
      BY <1>7, <2>1 DEF Body
  <1>8. CASE a.kind = "recordJob"
    <2>1. Good(<<"buildRecord", "recordStart">>)
      BY <1>8, TwoCalls
    <2> QED
      BY <1>8, <2>1 DEF Body
  <1>9. CASE a.kind = "disconnect"
    <2>1. Good(<<"reset">>) /\ Good(<<"captureStop", "reset">>)
      BY <1>9, OneCall, TwoCalls
    <2>2. Body(a, t) \in {<<"reset">>, <<"captureStop", "reset">>}
      BY <1>9 DEF Body, Disconnect
    <2> QED
      BY <2>1, <2>2
  <1>10. CASE a.kind \in {"init", "reconnect", "error"}
    BY <1>1, <1>10 DEF Body
  <1> QED
    BY <1>3, <1>4, <1>5, <1>6, <1>7, <1>8, <1>9, <1>10 DEF Kinds

\* The calls that are asked for are those of the list, with a set-up that is
\* t's.
LEMMA AskRight ==
    ASSUME NEW list \in Seq(Calls), NEW t \in Tools, NEW exit,
           Ask(list, t, exit)
    PROVE  /\ steps' \in Seq(Calls)
           /\ phase' \in {"ok", "asked"}
           /\ phase' = "asked" => steps' # <<>>
           /\ NoWrongCall(list, t) => NoWrongCall(steps', t)
           /\ BeginsAnew(list) =>
                phase' = "asked" /\ Head(steps') \in Builds \cup {"reset"}
  <1>1. CASE list # <<>> /\ Head(list) = "init"
    <2>1. /\ phase' = "asked"
          /\ \/ t = "Capture" /\ steps' = <<"initCapture">>
             \/ t = "Record" /\ steps' = <<"reset">>
      BY <1>1 DEF Ask, Tools
    <2>2. /\ <<"initCapture">> \in Seq(Calls)
          /\ t = "Capture" => NoWrongCall(<<"initCapture">>, t)
          /\ Head(<<"initCapture">>) \in Builds
      BY OneCall DEF Calls, Builds, WrongCall
    <2>3. /\ <<"reset">> \in Seq(Calls) /\ NoWrongCall(<<"reset">>, t)
          /\ Head(<<"reset">>) = "reset"
      BY OneCall DEF Calls, Builds, WrongCall
    <2>4. steps' # <<>>
      BY <2>1
    <2> QED
      BY <2>1, <2>2, <2>3, <2>4
  <1>2. CASE list # <<>> /\ Head(list) = "startCapture"
    <2>1. /\ phase' = "asked" /\ ~BeginsAnew(list)
          /\ steps' \in {<<"captureStart">>, <<"transport", "captureStart">>}
      BY <1>2 DEF Ask, BeginsAnew, Builds
    <2>2. /\ <<"captureStart">> \in Seq(Calls)
          /\ NoWrongCall(<<"captureStart">>, t)
      BY OneCall DEF Calls, Builds, WrongCall
    <2>3. /\ <<"transport", "captureStart">> \in Seq(Calls)
          /\ NoWrongCall(<<"transport", "captureStart">>, t)
      BY TwoCalls DEF Calls, Builds, WrongCall
    <2>4. steps' # <<>>
      BY <2>1
    <2> QED
      BY <2>1, <2>2, <2>3, <2>4
  <1>3. CASE ~(list # <<>> /\ Head(list) \in {"init", "startCapture"})
    <2>1. steps' = list
      BY <1>3 DEF Ask
    <2> QED
      BY <1>3, <2>1 DEF Ask, BeginsAnew
  <1> QED
    BY <1>1, <1>2, <1>3

-----------------------------------------------------------------------------
(* Actions that begin or wait                                               *)

\* An action that begins asks for calls of the tool.
LEMMA BeginActs ==
    ASSUME NEW a, a.kind \in Kinds, tool' \in Tools, NEW exit,
           Begin(a, tool', exit)
    PROVE  /\ ActionInv' /\ Queued' = waiting'
           /\ ~WrongAction(a, tool') => NoWrongCall(steps', tool')
           /\ SetsUp(a, tool') =>
                phase' = "asked" /\ Head(steps') \in Builds \cup {"reset"}
  <1>1. Ask(Body(a, tool'), tool', exit) /\ running' = a /\ busy' = TRUE
    BY DEF Begin
  <1>2. /\ Body(a, tool') \in Seq(Calls)
        /\ ~WrongAction(a, tool') => NoWrongCall(Body(a, tool'), tool')
        /\ SetsUp(a, tool') => BeginsAnew(Body(a, tool'))
    BY BodyRight
  <1>3. /\ steps' \in Seq(Calls) /\ phase' \in {"ok", "asked"}
        /\ phase' = "asked" => steps' # <<>>
        /\ ~WrongAction(a, tool') => NoWrongCall(steps', tool')
        /\ SetsUp(a, tool') =>
             phase' = "asked" /\ Head(steps') \in Builds \cup {"reset"}
    BY <1>1, <1>2, AskRight
  <1>4. a # NoAction
    BY DEF NoAction, Kinds
  <1>5. Queued' = waiting'
    BY <1>1 DEF Queued
  <1>6. ActionInv'
    BY <1>1, <1>3, <1>4 DEF ActionInv
  <1> QED
    BY <1>3, <1>5, <1>6

\* It makes the pipeline the tool's, or finds it so.
LEMMA BeginRight ==
    ASSUME NEW a, a.kind \in Kinds, tool' \in Tools, NEW exit,
           Begin(a, tool', exit), engine' = engine,
           SetsUp(a, tool') \/ ~WrongState(engine, tool'),
           ~WrongAction(a, tool'),
           \A j \in DOMAIN waiting' : ~WrongAction(waiting'[j], tool')
    PROVE  StaysRight'
  <1>1. /\ Queued' = waiting' /\ NoWrongCall(steps', tool')
        /\ SetsUp(a, tool') =>
             phase' = "asked" /\ Head(steps') \in Builds \cup {"reset"}
    BY BeginActs
  <1> QED
    BY <1>1 DEF StaysRight, NoWrongCall

Acting == [kind : Kinds, seen : States, recovers : BOOLEAN]

\* The queue is one of actions.
LEMMA QueuedTyped == TypeOK /\ ActionInv => Queued \in Seq(Acting)
  <1> SUFFICES ASSUME TypeOK, ActionInv PROVE Queued \in Seq(Acting)
    OBVIOUS
  <1>1. waiting \in Seq(Acting)
    <2>1. waiting \in Seq(Waiting) /\ Waiting \subseteq Acting
      BY DEF TypeOK, Waiting, Acting
    <2>2. \A i \in 1..Len(waiting) : waiting[i] \in Acting
      BY <2>1
    <2> QED
      BY <2>1, <2>2
  <1>2. CASE running # NoAction /\ ~busy
    <2>1. running \in Acting
      BY <1>2 DEF TypeOK, ActionInv, Acting
    <2> QED
      BY <1>1, <1>2, <2>1 DEF Queued
  <1>3. CASE ~(running # NoAction /\ ~busy)
    BY <1>1, <1>3 DEF Queued
  <1> QED
    BY <1>2, <1>3

\* RunAsync: whoever asks for an action of the tool, or for one that sets up
\* the pipeline of a tool just chosen.
LEMMA RunRight ==
    ASSUME IInv, NEW a \in Waiting, tool' \in Tools, NEW exit,
           RunAsync(a, tool', exit), engine' = engine, ~WrongAction(a, tool'),
           tool' = tool \/ SetsUp(a, tool')
    PROVE  ActionInv' /\ Right'
  <1> USE DEF IInv
  <1>1. CASE running = NoAction
    <2>1. /\ waiting = <<>> /\ waiting' = <<>> /\ ~busy /\ phase = "none"
          /\ Queued = <<>>
      BY <1>1 DEF RunAsync, ActionInv, Queued
    <2>2. StaysRight
      BY <2>1 DEF Right, ToBePutRight
    <2>3. SetsUp(a, tool') \/ ~WrongState(engine, tool')
      BY <2>1, <2>2 DEF StaysRight
    <2>4. Begin(a, tool', exit) /\ a.kind \in Kinds
      BY <1>1 DEF RunAsync, Waiting
    <2> QED
      BY <2>1, <2>3, <2>4, BeginActs, BeginRight DEF Right
  <1>2. CASE running # NoAction
    <2>1. /\ waiting' = Append(waiting, a)
          /\ UNCHANGED <<busy, running, steps, phase>>
      BY <1>2 DEF RunAsync
    <2>2. ActionInv'
      BY <1>2, <2>1 DEF ActionInv
    <2>3. Queued \in Seq(Acting) /\ waiting \in Seq(Waiting)
      BY QueuedTyped DEF TypeOK, Waiting
    <2>4. Queued' = Append(Queued, a)
      <3>1. CASE busy
        BY <1>2, <2>1, <3>1 DEF Queued
      <3>2. CASE ~busy
        <4>1. <<running>> \o Append(waiting, a)
                = Append(<<running>> \o waiting, a)
          BY <2>3
        <4> QED
          BY <1>2, <2>1, <3>2, <4>1 DEF Queued
      <3> QED
        BY <3>1, <3>2
    <2>5. /\ DOMAIN Queued' = 1..(Len(Queued) + 1)
          /\ DOMAIN Queued = 1..Len(Queued) /\ Len(Queued) \in Nat
          /\ Queued'[Len(Queued) + 1] = a
          /\ \A j \in 1..Len(Queued) : Queued'[j] = Queued[j]
      BY <2>3, <2>4 DEF Waiting, Acting
    <2>6. CASE SetsUp(a, tool')
      <3>1. ToBePutRight'
        BY <2>5, <2>6 DEF ToBePutRight
      <3> QED
        BY <2>2, <3>1 DEF Right
    <2>7. CASE tool' = tool /\ ToBePutRight
      <3>1. ToBePutRight'
        BY <2>5, <2>7 DEF ToBePutRight
      <3> QED
        BY <2>2, <3>1 DEF Right
    <2>8. CASE tool' = tool /\ StaysRight
      <3>1. StaysRight'
        BY <2>1, <2>5, <2>8 DEF StaysRight
      <3> QED
        BY <2>2, <3>1 DEF Right
    <2> QED
      BY <2>6, <2>7, <2>8 DEF Right
  <1> QED
    BY <1>1, <1>2

-----------------------------------------------------------------------------
(* Every step                                                               *)

ActionsTyped ==
    /\ running \in [kind : Kinds \cup {"none"}, seen : States,
                    recovers : BOOLEAN]
    /\ waiting \in Seq(Waiting)
    /\ phase \in {"none", "asked", "building", "ok", "failed", "missing",
                 "thrown", "thrownMissing"}

OthersTyped ==
    /\ tool \in Tools /\ commandLine \in Given \cup {Started}
    /\ window \in {"open", "stopping", "stopped", "closed"}
    /\ status \in States /\ engine \in States
    /\ listing \in Lists
    /\ worker \in {"none", "runs", "failed"} /\ raised \in Nat

\* The type's two halves.
LEMMA TypeHalves == TypeOK <=> ActionsTyped /\ OthersTyped
  BY Zenon DEF TypeOK, ActionsTyped, OthersTyped, Tools, Waiting

\* And in the next state.
LEMMA TypeHalvesNext == TypeOK' <=> ActionsTyped' /\ OthersTyped'
  BY Zenon DEF TypeOK, ActionsTyped, OthersTyped, Tools, Waiting

\* An action that begins or waits is of its type.
LEMMA RunTyped ==
    ASSUME ActionsTyped, NEW a \in Waiting, NEW t, NEW exit,
           RunAsync(a, t, exit)
    PROVE  ActionsTyped' /\ status' = status
  <1>1. CASE running = NoAction
    <2>1. /\ running' = a /\ waiting' = waiting /\ status' = status
          /\ phase' \in {"ok", "asked"}
      BY <1>1 DEF RunAsync, Begin, Ask
    <2> QED
      BY <2>1 DEF ActionsTyped, Waiting
  <1>2. CASE running # NoAction
    <2>1. /\ waiting' = Append(waiting, a)
          /\ UNCHANGED <<status, running, phase>>
      BY <1>2 DEF RunAsync
    <2>2. waiting \in Seq(Waiting)
      BY DEF ActionsTyped
    <2>3. waiting' \in Seq(Waiting)
      <3> HIDE DEF Waiting
      <3> QED
        BY <2>1, <2>2
    <2> QED
      BY <2>1, <2>3 DEF ActionsTyped
  <1> QED
    BY <1>1, <1>2

\* The next action behind the one that ended.
LEMMA GrantedKeeps == IInv /\ Granted => IInv'
  <1> SUFFICES ASSUME IInv, Granted PROVE IInv'
    OBVIOUS
  <1>1. /\ running # NoAction /\ ~busy /\ running.kind \in Kinds
        /\ Begin(running, tool', exitOnFinish) /\ waiting' = waiting
        /\ tool' = tool /\ tool' \in Tools /\ engine' = engine
        /\ waiting \in Seq(Waiting)
    BY DEF IInv, Granted, ActionInv, TypeOK, Tools, shared, pipeline, Waiting
  <1>2. TypeOK'
    <2>1. running' = running /\ phase' \in {"ok", "asked"} /\ status' = status
      BY <1>1 DEF Begin, Ask
    <2> QED
      BY <1>1, <2>1 DEF IInv, TypeOK, Granted, shared, devices, pipeline,
                        errors
  <1>3. ActionInv' /\ Queued' = waiting
    BY <1>1, BeginActs
  <1>4. /\ DOMAIN Queued = 1..(Len(waiting) + 1) /\ Queued[1] = running
        /\ DOMAIN waiting = 1..Len(waiting) /\ Len(waiting) \in Nat
        /\ \A j \in 1..Len(waiting) : Queued[j + 1] = waiting[j]
    <2>1. Queued = <<running>> \o waiting
      BY <1>1 DEF Queued
    <2> QED
      BY <1>1, <2>1
  <1>5. CASE StaysRight
    <2>1. ~WrongAction(running, tool)
      <3>1. ~WrongAction(Queued[1], tool)
        BY <1>4, <1>5 DEF StaysRight
      <3> QED
        BY <1>4, <3>1
    <2>2. \A j \in DOMAIN waiting : ~WrongAction(waiting[j], tool)
      <3> SUFFICES ASSUME NEW j \in 1..Len(waiting)
                   PROVE  ~WrongAction(waiting[j], tool)
        BY <1>4
      <3>1. j + 1 \in DOMAIN Queued /\ Queued[j + 1] = waiting[j]
        BY <1>4
      <3>2. ~WrongAction(Queued[j + 1], tool)
        BY <1>5, <3>1 DEF StaysRight
      <3> QED
        BY <3>1, <3>2
    <2>3. ~WrongState(engine, tool)
      BY <1>1, <1>5 DEF StaysRight, IInv, ActionInv
    <2>4. StaysRight'
      BY <1>1, <2>1, <2>2, <2>3, BeginRight
    <2> QED
      BY <1>2, <1>3, <2>4 DEF IInv, Right
  <1>6. CASE ToBePutRight
    <2>1. PICK i \in DOMAIN Queued :
            /\ SetsUp(Queued[i], tool)
            /\ \A j \in DOMAIN Queued : j > i => ~WrongAction(Queued[j], tool)
      BY <1>6 DEF ToBePutRight
    <2>2. \A j \in DOMAIN waiting :
            j + 1 > i => ~WrongAction(waiting[j], tool)
      <3> SUFFICES ASSUME NEW j \in 1..Len(waiting), j + 1 > i
                   PROVE  ~WrongAction(waiting[j], tool)
        BY <1>4
      <3>1. j + 1 \in DOMAIN Queued /\ Queued[j + 1] = waiting[j]
        BY <1>4
      <3>2. ~WrongAction(Queued[j + 1], tool)
        BY <2>1, <3>1
      <3> QED
        BY <3>1, <3>2
    <2>3. CASE i = 1
      <3>1. SetsUp(running, tool) /\ ~WrongAction(running, tool)
        <4>1. SetsUp(running, tool)
          BY <1>4, <2>1, <2>3
        <4> QED
          BY <1>1, <4>1 DEF SetsUp, WrongAction, Tools
      <3>2. \A j \in DOMAIN waiting : ~WrongAction(waiting[j], tool)
        BY <1>4, <2>2, <2>3
      <3>3. StaysRight'
        BY <1>1, <3>1, <3>2, BeginRight
      <3> QED
        BY <1>2, <1>3, <3>3 DEF IInv, Right
    <2>4. CASE i # 1
      <3>1. PICK k \in 1..Len(waiting) : i = k + 1
        <4>1. i - 1 \in 1..Len(waiting) /\ i = (i - 1) + 1
          BY <1>4, <2>1, <2>4
        <4> QED
          BY <4>1
      <3>2. SetsUp(waiting[k], tool)
        BY <1>4, <2>1, <3>1
      <3>3. \A j \in DOMAIN waiting : j > k => ~WrongAction(waiting[j], tool)
        BY <1>4, <2>2, <3>1
      <3>4. ToBePutRight'
        BY <1>1, <1>3, <1>4, <3>2, <3>3 DEF ToBePutRight
      <3> QED
        BY <1>2, <1>3, <3>4 DEF IInv, Right
    <2> QED
      BY <2>3, <2>4
  <1> QED
    BY <1>5, <1>6 DEF IInv, Right

\* What leaves the actions, the tool and the state of the pipeline alone.
LEMMA Untouched ==
    ActionInv /\ Right /\ UNCHANGED <<tool, actions, engine>>
      => ActionInv' /\ Right'
  <1> SUFFICES ASSUME ActionInv, Right, UNCHANGED <<tool, actions, engine>>
               PROVE  ActionInv' /\ Right'
    OBVIOUS
  <1>1. UNCHANGED <<tool, engine, busy, running, waiting, steps, phase>>
    BY DEF actions
  <1>2. Queued' = Queued
    BY <1>1 DEF Queued
  <1>3. ActionInv'
    BY <1>1 DEF ActionInv
  <1>4. ToBePutRight => ToBePutRight'
    BY <1>1, <1>2, Zenon DEF ToBePutRight
  <1>5. StaysRight => StaysRight'
    BY <1>1, <1>2, Zenon DEF StaysRight
  <1> QED
    BY <1>3, <1>4, <1>5 DEF Right

\* What goes on with the action that runs, and leaves the queue alone.
LEMMA QueueKept ==
    ASSUME ActionInv, UNCHANGED <<tool, waiting>>, busy, busy' = TRUE
    PROVE  /\ Queued = waiting /\ Queued' = Queued
           /\ ToBePutRight => ToBePutRight'
           /\ (\A j \in DOMAIN Queued : ~WrongAction(Queued[j], tool))
                => \A j \in DOMAIN Queued' : ~WrongAction(Queued'[j], tool')
  <1>1. Queued = waiting /\ Queued' = waiting
    BY DEF Queued
  <1>2. ToBePutRight => ToBePutRight'
    BY <1>1, Zenon DEF ToBePutRight
  <1> QED
    BY <1>1, <1>2

\* An answer came, and there is more to do.
LEMMA ContinueKeeps == IInv /\ Continue => IInv'
  <1> SUFFICES ASSUME IInv, Continue PROVE IInv'
    OBVIOUS
  <1> USE DEF IInv
  <1>1. /\ busy /\ phase = "ok" /\ Len(steps) > 1 /\ tool' = tool
        /\ Ask(Tail(steps), tool, exitOnFinish) /\ steps \in Seq(Calls)
        /\ UNCHANGED <<tool, status, busy, running, waiting, engine>>
        /\ busy' = TRUE /\ running # NoAction /\ tool \in Tools
    BY DEF Continue, ActionInv, TypeOK, Tools, shared, pipeline
  <1>2. /\ Tail(steps) \in Seq(Calls)
        /\ NoWrongCall(steps, tool) => NoWrongCall(Tail(steps), tool)
    <2> HIDE DEF Calls
    <2>1. steps # <<>> /\ Len(steps) \in Nat /\ DOMAIN steps = 1..Len(steps)
      BY <1>1
    <2>2. /\ Tail(steps) \in Seq(Calls)
          /\ \A i \in DOMAIN Tail(steps) :
               i + 1 \in DOMAIN steps /\ Tail(steps)[i] = steps[i + 1]
      BY <1>1, <2>1
    <2> QED
      BY <2>2 DEF NoWrongCall
  <1>3. /\ steps' \in Seq(Calls) /\ phase' \in {"ok", "asked"}
        /\ phase' = "asked" => steps' # <<>>
        /\ NoWrongCall(Tail(steps), tool) => NoWrongCall(steps', tool)
    BY <1>1, <1>2, AskRight
  <1>4. TypeOK'
    BY <1>1, <1>3 DEF TypeOK, Continue, shared, devices, pipeline, errors
  <1>5. ActionInv'
    BY <1>1, <1>3 DEF ActionInv
  <1>6. StaysRight => StaysRight'
    <2> SUFFICES ASSUME StaysRight PROVE StaysRight'
      OBVIOUS
    <2>1. NoWrongCall(steps, tool) /\ ~WrongState(engine, tool)
      BY <1>1 DEF StaysRight, NoWrongCall
    <2>2. NoWrongCall(steps', tool')
      BY <1>1, <1>2, <1>3, <2>1
    <2>3. ~WrongState(engine', tool')
      BY <1>1, <2>1
    <2>4. \A j \in DOMAIN Queued' : ~WrongAction(Queued'[j], tool')
      BY <1>1, QueueKept DEF StaysRight
    <2> QED
      BY <2>2, <2>3, <2>4 DEF StaysRight, NoWrongCall
  <1> QED
    BY <1>1, <1>4, <1>5, <1>6, QueueKept DEF Right

\* The action failed: the pipeline is set up again.
LEMMA RecoverKeeps == IInv /\ Recover => IInv'
  <1> SUFFICES ASSUME IInv, Recover PROVE IInv'
    OBVIOUS
  <1> USE DEF IInv
  <1>1. /\ busy /\ busy' = TRUE /\ tool \in Tools
        /\ running' = [running EXCEPT !.recovers = TRUE]
        /\ Ask(<<"init">>, tool, exitOnFinish)
        /\ UNCHANGED <<tool, status, busy, waiting, engine>>
        /\ running # NoAction /\ running.kind \in Kinds
    BY DEF Recover, ActionInv, TypeOK, Tools, shared, pipeline
  <1>2. <<"init">> \in Seq(Calls) /\ NoWrongCall(<<"init">>, tool)
    BY OneCall DEF Calls, Builds, WrongCall
  <1>3. /\ steps' \in Seq(Calls) /\ phase' \in {"ok", "asked"}
        /\ phase' = "asked" => steps' # <<>>
        /\ NoWrongCall(steps', tool)
    BY <1>1, <1>2, AskRight
  <1>4. BeginsAnew(<<"init">>)
    BY OneCall DEF Calls, Builds
  <1>5. phase' = "asked" /\ Head(steps') \in Builds \cup {"reset"}
    BY <1>1, <1>2, <1>4, AskRight
  <1>6. /\ running' \in [kind : Kinds \cup {"none"}, seen : States,
                         recovers : BOOLEAN]
        /\ running'.kind = running.kind
    BY <1>1 DEF TypeOK
  <1>7. TypeOK'
    BY <1>1, <1>3, <1>6 DEF TypeOK, Recover, shared, devices, pipeline, errors
  <1>8. running' # NoAction
    BY <1>1, <1>6 DEF NoAction, Kinds
  <1>9. ActionInv'
    BY <1>1, <1>3, <1>6, <1>8 DEF ActionInv
  <1>10. StaysRight => StaysRight'
    <2> SUFFICES ASSUME StaysRight PROVE StaysRight'
      OBVIOUS
    <2>1. \A j \in DOMAIN Queued' : ~WrongAction(Queued'[j], tool')
      BY <1>1, QueueKept DEF StaysRight
    <2> QED
      BY <1>1, <1>3, <1>5, <2>1 DEF StaysRight, NoWrongCall
  <1> QED
    BY <1>1, <1>7, <1>9, <1>10, QueueKept DEF Right

\* The status is read: the window may be asked to close.
LEMMA StatusTyped ==
    ASSUME OthersTyped, UpdateStatus
    PROVE  /\ status' \in States
           /\ window' \in {"open", "stopping", "stopped", "closed"}
  BY DEF OthersTyped, UpdateStatus, Shutdown

\* The action ends, and the next one is given _busy.
LEMMA EndKeeps == IInv /\ End => IInv'
  <1> SUFFICES ASSUME IInv, End PROVE IInv'
    OBVIOUS
  <1>1. /\ busy /\ busy' = FALSE /\ steps' = <<>> /\ phase' = "none"
        /\ running' = IF waiting = <<>> THEN NoAction ELSE Head(waiting)
        /\ waiting' = IF waiting = <<>> THEN <<>> ELSE Tail(waiting)
        /\ UpdateStatus /\ UNCHANGED <<tool, engine>>
        /\ phase \in {"ok", "thrown", "thrownMissing"}
        /\ waiting \in Seq(Waiting)
    BY DEF IInv, TypeOK, Waiting, End, GoesOn, NotConnected, pipeline
  <1>2. /\ waiting # <<>> => /\ Head(waiting) \in Waiting
                             /\ Tail(waiting) \in Seq(Waiting)
                             /\ <<Head(waiting)>> \o Tail(waiting) = waiting
    <2> HIDE DEF Waiting
    <2> QED
      BY <1>1
  <1>3. waiting # <<>> =>
          /\ running' \in Waiting /\ running' # NoAction
          /\ running'.kind \in Kinds
    <2> SUFFICES ASSUME waiting # <<>>
                 PROVE  /\ running' \in Waiting /\ running' # NoAction
                        /\ running'.kind \in Kinds
      OBVIOUS
    <2>1. running' \in Waiting
      BY <1>1, <1>2
    <2>2. running'.kind \in Kinds
      BY <2>1 DEF Waiting
    <2> QED
      BY <2>1, <2>2 DEF NoAction, Kinds
  <1>4. OthersTyped /\ ActionsTyped
    BY TypeHalves DEF IInv
  <1>5. OthersTyped'
    <2>1. /\ status' \in States
          /\ window' \in {"open", "stopping", "stopped", "closed"}
      BY <1>1, <1>4, StatusTyped
    <2> QED
      BY <1>4, <2>1 DEF OthersTyped, End, devices, pipeline, errors
  <1>6. ActionsTyped'
    <2>1. NoAction \in [kind : Kinds \cup {"none"}, seen : States,
                        recovers : BOOLEAN]
      BY DEF NoAction, States, Live
    <2>2. running' \in [kind : Kinds \cup {"none"}, seen : States,
                        recovers : BOOLEAN]
      BY <1>1, <1>3, <2>1 DEF Waiting
    <2>3. waiting' \in Seq(Waiting)
      BY <1>1, <1>2
    <2> QED
      BY <1>1, <2>2, <2>3 DEF ActionsTyped
  <1>7. ActionInv'
    <2>1. steps' \in Seq(Calls)
      BY <1>1, NoCalls
    <2>2. running' = NoAction \/ running'.kind \in Kinds
      BY <1>1, <1>3
    <2>3. running' = NoAction => waiting' = <<>>
      BY <1>1, <1>3
    <2> QED
      BY <1>1, <2>1, <2>2, <2>3 DEF ActionInv
  <1>8. Queued' = Queued /\ Queued = waiting
    BY <1>1, <1>2, <1>3 DEF Queued
  <1>9. ToBePutRight => ToBePutRight'
    BY <1>1, <1>8, Zenon DEF ToBePutRight
  <1>10. StaysRight => StaysRight'
    <2> SUFFICES ASSUME StaysRight PROVE StaysRight'
      OBVIOUS
    <2>1. ~WrongState(engine', tool')
      BY <1>1 DEF StaysRight
    <2>2. \A i \in DOMAIN steps' : ~WrongCall(steps'[i], tool')
      BY <1>1
    <2>3. \A j \in DOMAIN Queued' : ~WrongAction(Queued'[j], tool')
      BY <1>1, <1>8 DEF StaysRight
    <2> QED
      BY <2>1, <2>2, <2>3 DEF StaysRight
  <1> QED
    BY <1>5, <1>6, <1>7, <1>9, <1>10, TypeHalvesNext DEF IInv, Right

-----------------------------------------------------------------------------
(* The user, the window, the devices                                        *)

\* Whoever asks for an action: the invariant is kept, if what else changes
\* is of its type.
LEMMA AskedKeeps ==
    ASSUME IInv, NEW a \in Waiting, tool' \in Tools, NEW exit,
           RunAsync(a, tool', exit), engine' = engine, ~WrongAction(a, tool'),
           tool' = tool \/ SetsUp(a, tool'),
           commandLine' \in Given \cup {Started},
           listing' \in Lists,
           raised' \in Nat, UNCHANGED <<window, worker>>
    PROVE  IInv'
  <1>1. ActionInv' /\ Right'
    BY RunRight
  <1>2. ActionsTyped /\ OthersTyped
    BY TypeHalves DEF IInv
  <1>3. ActionsTyped' /\ status' = status
    BY <1>2, RunTyped
  <1>4. OthersTyped'
    BY <1>2, <1>3 DEF OthersTyped
  <1> QED
    BY <1>1, <1>3, <1>4, TypeHalvesNext DEF IInv

\* The actions that are asked for, and what they are.
LEMMA ActionTyped ==
    /\ \A k \in Kinds : Action(k) \in Waiting /\ Action(k).kind = k
    /\ \A s \in States :
         LET a == [Action("disconnect") EXCEPT !.seen = s]
         IN  a \in Waiting /\ a.kind = "disconnect"
  BY DEF Action, NoAction, Waiting, Kinds, States, Live

\* What is known of a list goes on.
LEMMA ListTyped ==
    ASSUME listing \in Lists, NEW a \in Askers,
           NEW v \in Listed \cup {"none", "asked", "failed"}
    PROVE  [listing EXCEPT ![a] = v] \in Lists
  BY DEF Lists

\* And it has been dealt with.
LEMMA RefreshedTyped ==
    ASSUME listing \in Lists, NEW a \in Askers, Refreshed(a)
    PROVE  listing' \in Lists
  <1>1. listing' = [listing EXCEPT ![a] = "none"]
    BY DEF Refreshed
  <1> QED
    BY <1>1, ListTyped

\* A button is pressed.
LEMMA CommandKeeps ==
    ASSUME IInv, NEW k \in {"play", "pause", "stop", "rec"}, Command(k)
    PROVE  IInv'
  <1>1. /\ RunAsync(Action(k), tool', exitOnFinish)
        /\ UNCHANGED <<tool, commandLine, listing, window, worker, engine,
                       raised>>
        /\ k = "rec" => tool = "Capture"
    BY DEF Command, CanUse, shared, devices, pipeline, errors
  <1>2. /\ tool \in Tools /\ commandLine \in Given \cup {Started}
        /\ listing \in Lists
        /\ raised \in Nat
    BY DEF IInv, TypeOK, Tools
  <1>3. Action(k) \in Waiting /\ Action(k).kind = k
    BY ActionTyped DEF Kinds
  <1>4. ~WrongAction(Action(k), tool')
    BY <1>1, <1>3 DEF WrongAction
  <1> QED
    BY <1>1, <1>2, <1>3, <1>4, AskedKeeps

\* Another tool is chosen.
LEMMA ChangeToolKeeps == IInv /\ ChangeTool => IInv'
  <1> SUFFICES ASSUME IInv, ChangeTool PROVE IInv'
    OBVIOUS
  <1>1. /\ RunAsync(Action("init"), tool', exitOnFinish) /\ tool' \in Tools
        /\ UNCHANGED <<commandLine, listing, window, worker, engine, raised>>
    BY DEF ChangeTool, Tools, devices, pipeline, errors
  <1>2. /\ commandLine \in Given \cup {Started}
        /\ listing \in Lists
        /\ raised \in Nat
    BY DEF IInv, TypeOK
  <1>3. Action("init") \in Waiting /\ Action("init").kind = "init"
    BY ActionTyped DEF Kinds
  <1>4. ~WrongAction(Action("init"), tool') /\ SetsUp(Action("init"), tool')
    BY <1>3 DEF WrongAction, SetsUp
  <1> QED
    BY <1>1, <1>2, <1>3, <1>4, AskedKeeps

\* The first start: a job of the command line chooses its own tool.
LEMMA StartKeeps == IInv /\ StartAsync => IInv'
  <1> SUFFICES ASSUME IInv, StartAsync PROVE IInv'
    OBVIOUS
  <1>1. /\ commandLine' \in Given \cup {Started}
        /\ UNCHANGED <<window, worker, engine, raised>>
        /\ listing' \in Lists /\ raised \in Nat /\ tool \in Tools
    <2>1. Refreshed("start") /\ "start" \in Askers
      BY DEF StartAsync, Askers
    <2>2. listing' \in Lists
      BY <2>1, RefreshedTyped DEF IInv, TypeOK
    <2> QED
      BY <2>2 DEF IInv, TypeOK, Tools, StartAsync, pipeline, errors
  <1>2. PICK k \in {"init", "captureJob", "recordJob"}, exit \in
               {exitOnFinish, commandLine.exitOnFinish} :
          /\ RunAsync(Action(k), tool', exit)
          /\ k = "init" => tool' = tool
          /\ k = "captureJob" => tool' = "Capture"
          /\ k = "recordJob" => tool' = "Record"
    <2>1. CASE /\ commandLine.mode = "interactive"
               /\ RunAsync(Action("init"), tool, exitOnFinish)
               /\ UNCHANGED tool
      BY <2>1, Zenon
    <2>2. CASE /\ commandLine.mode = "capture" /\ tool' = "Capture"
               /\ RunAsync(Action("captureJob"), tool',
                           commandLine.exitOnFinish)
      BY <2>2, Zenon
    <2>3. CASE /\ commandLine.mode = "record" /\ tool' = "Record"
               /\ RunAsync(Action("recordJob"), tool',
                           commandLine.exitOnFinish)
      BY <2>3, Zenon
    <2> QED
      BY <2>1, <2>2, <2>3 DEF StartAsync
  <1>3. tool' \in Tools
    BY <1>1, <1>2 DEF Tools
  <1>4. Action(k) \in Waiting /\ Action(k).kind = k
    BY ActionTyped DEF Kinds
  <1>5. ~WrongAction(Action(k), tool') /\ SetsUp(Action(k), tool')
    BY <1>2, <1>4 DEF WrongAction, SetsUp
  <1> QED
    BY <1>1, <1>2, <1>3, <1>4, <1>5, AskedKeeps

\* The devices are listed: one came, or went.
LEMMA ListedKeeps == IInv /\ DevicesListed => IInv'
  <1> SUFFICES ASSUME IInv, DevicesListed PROVE IInv'
    OBVIOUS
  <1>1. /\ UNCHANGED <<tool, commandLine, window, worker, engine, raised>>
        /\ listing' \in Lists
        /\ tool \in Tools /\ commandLine \in Given \cup {Started}
        /\ raised \in Nat /\ engine \in States
    <2>1. Refreshed("changed") /\ "changed" \in Askers
      BY DEF DevicesListed, Askers
    <2>2. listing' \in Lists
      BY <2>1, RefreshedTyped DEF IInv, TypeOK
    <2> QED
      BY <2>2 DEF DevicesListed, IInv, TypeOK, Tools, shared, pipeline,
                  errors
  <1>2. CASE RunAsync(Action("reconnect"), tool, exitOnFinish)
    <2>1. /\ Action("reconnect") \in Waiting
          /\ Action("reconnect").kind = "reconnect"
      BY ActionTyped DEF Kinds
    <2>2. ~WrongAction(Action("reconnect"), tool')
      BY <2>1 DEF WrongAction
    <2> QED
      BY <1>1, <1>2, <2>1, <2>2, AskedKeeps
  <1>3. CASE RunAsync([Action("disconnect") EXCEPT !.seen = engine], tool,
                      exitOnFinish)
    <2> DEFINE a == [Action("disconnect") EXCEPT !.seen = engine]
    <2>1. a \in Waiting /\ a.kind = "disconnect"
      BY <1>1, ActionTyped
    <2>2. ~WrongAction(a, tool')
      BY <2>1 DEF WrongAction
    <2> HIDE DEF a
    <2>3. RunAsync(a, tool', exitOnFinish)
      BY <1>1, <1>3 DEF a
    <2> QED
      BY <1>1, <2>1, <2>2, <2>3, AskedKeeps
  <1>4. CASE UNCHANGED <<shown, actions>>
    <2>1. ActionInv' /\ Right'
      BY <1>1, <1>4, Untouched DEF IInv
    <2>2. TypeOK'
      BY <1>1, <1>4 DEF IInv, TypeOK, Tools, shown, actions
    <2> QED
      BY <2>1, <2>2 DEF IInv
  <1> QED
    BY <1>2, <1>3, <1>4 DEF DevicesListed

\* The engine's error is told to the view model.
LEMMA RaiseKeeps == IInv /\ Raise => IInv'
  <1> SUFFICES ASSUME IInv, Raise PROVE IInv'
    OBVIOUS
  <1>1. /\ UNCHANGED <<tool, commandLine, window, worker, engine, listing>>
        /\ raised' \in Nat
        /\ tool \in Tools /\ commandLine \in Given \cup {Started}
        /\ listing \in Lists
    BY DEF Raise, RaiseOne, IInv, TypeOK, Tools, shared, pipeline, devices
  <1>2. CASE RunAsync(Action("error"), tool, exitOnFinish)
    <2>1. Action("error") \in Waiting /\ Action("error").kind = "error"
      BY ActionTyped DEF Kinds
    <2>2. ~WrongAction(Action("error"), tool')
      BY <2>1 DEF WrongAction
    <2> QED
      BY <1>1, <1>2, <2>1, <2>2, AskedKeeps
  <1>3. CASE UNCHANGED <<shown, actions>>
    <2>1. ActionInv' /\ Right'
      BY <1>1, <1>3, Untouched DEF IInv
    <2>2. TypeOK'
      BY <1>1, <1>3 DEF IInv, TypeOK, Tools, shown, actions
    <2> QED
      BY <2>1, <2>2 DEF IInv
  <1> QED
    BY <1>2, <1>3 DEF Raise, RaiseOne

\* What goes on beside the actions.
LEMMA BesideKeeps ==
    ASSUME IInv, \/ Tick \/ Close \/ Closed \/ Switch \/ OnDevicesChanged
                 \/ RefreshDevices \/ DevicesRefreshed
                 \/ \E a \in Askers : ListDevices(a) \/ CheckList(a)
                 \/ ShutdownTransport \/ PipelineFails
    PROVE  IInv'
  <1>1. UNCHANGED <<tool, actions, engine>>
    BY DEF Tick, Close, Closed, Switch, OnDevicesChanged, RefreshDevices,
           DevicesRefreshed, Asks, ListDevices, CheckList, ShutdownTransport,
           PipelineFails, UpdateStatus, shared, pipeline
  <1>2. ActionInv' /\ Right'
    BY <1>1, Untouched DEF IInv
  <1>3. ActionsTyped /\ OthersTyped
    BY TypeHalves DEF IInv
  <1>4. ActionsTyped'
    BY <1>1, <1>3 DEF ActionsTyped, actions
  <1>5. CASE Tick
    <2>1. /\ status' \in States
          /\ window' \in {"open", "stopping", "stopped", "closed"}
      BY <1>3, <1>5, StatusTyped DEF Tick
    <2>2. OthersTyped'
      BY <1>3, <1>5, <2>1 DEF OthersTyped, Tick, devices, pipeline, errors
    <2> QED
      BY <1>2, <1>4, <2>2, TypeHalvesNext DEF IInv
  <1>6. CASE Close \/ Closed \/ ShutdownTransport
    <2>1. OthersTyped'
      BY <1>3, <1>6 DEF OthersTyped, Close, Closed, ShutdownTransport,
         Shutdown, shown, devices, pipeline, errors
    <2> QED
      BY <1>2, <1>4, <2>1, TypeHalvesNext DEF IInv
  <1>7. CASE \/ Switch \/ OnDevicesChanged \/ RefreshDevices
             \/ DevicesRefreshed
             \/ \E a \in Askers : ListDevices(a) \/ CheckList(a)
    <2>1. UNCHANGED <<tool, commandLine, window, status, engine, worker,
                      raised>>
      BY <1>7 DEF Switch, OnDevicesChanged, RefreshDevices, DevicesRefreshed,
                  Asks, ListDevices, CheckList, shared, shown, pipeline,
                  errors
    <2>2. listing' \in Lists
      <3>1. listing \in Lists /\ {"changed", "user"} \subseteq Askers
        BY <1>3 DEF OthersTyped, Askers
      <3>2. CASE Switch
        BY <3>1, <3>2 DEF Switch
      <3>3. CASE OnDevicesChanged \/ RefreshDevices
        BY <3>1, <3>3, ListTyped DEF OnDevicesChanged, RefreshDevices, Asks
      <3>4. CASE DevicesRefreshed
        BY <3>1, <3>4, RefreshedTyped DEF DevicesRefreshed
      <3>5. CASE \E a \in Askers : ListDevices(a) \/ CheckList(a)
        <4>1. PICK a \in Askers : ListDevices(a) \/ CheckList(a)
          BY <3>5
        <4>2. \E v \in {"present", "absent", "failed", "thrown"} :
                listing' = [listing EXCEPT ![a] = v]
          BY <4>1, Zenon DEF ListDevices, CheckList
        <4> QED
          BY <3>1, <4>2, ListTyped DEF Listed
      <3> QED
        BY <1>7, <3>2, <3>3, <3>4, <3>5
    <2>3. OthersTyped'
      BY <1>3, <2>1, <2>2 DEF OthersTyped
    <2> QED
      BY <1>2, <1>4, <2>3, TypeHalvesNext DEF IInv
  <1>8. CASE PipelineFails
    <2>1. OthersTyped'
      BY <1>3, <1>8 DEF OthersTyped, PipelineFails, shared, shown, devices
    <2> QED
      BY <1>2, <1>4, <2>1, TypeHalvesNext DEF IInv
  <1> QED
    BY <1>5, <1>6, <1>7, <1>8

-----------------------------------------------------------------------------
(* The engine                                                               *)

\* A call is served, answered, or the engine goes on by itself: the action
\* and the queue stay what they were.
Served ==
    /\ UNCHANGED <<tool, commandLine, window, status, busy, running, waiting,
                   steps, listing>>
    /\ raised' = raised
    /\ engine' \in States /\ worker' \in {"none", "runs", "failed"}
    /\ phase' \in {"none", "asked", "building", "ok", "failed", "missing",
                   "thrown", "thrownMissing"}

\* A call that is served leaves no pipeline that is not the tool's.
LEMMA ServedKeeps ==
    ASSUME IInv, Served,
           phase \in {"none", "ok"} => phase' = phase,
           phase' = "building" => Head(steps) \in Builds,
           StaysRight /\ WrongState(engine', tool) =>
             phase' = "asked" /\ WrongState(engine, tool)
    PROVE  IInv'
  <1>1. ActionsTyped /\ OthersTyped
    BY TypeHalves DEF IInv
  <1>2. OthersTyped'
    BY <1>1 DEF OthersTyped, Served
  <1>3. ActionsTyped'
    BY <1>1 DEF ActionsTyped, Served
  <1>4. Queued' = Queued
    BY DEF Served, Queued
  <1>5. ToBePutRight => ToBePutRight'
    BY <1>4, Zenon DEF ToBePutRight, Served
  <1>6. StaysRight => StaysRight'
    BY <1>4 DEF StaysRight, Served
  <1>7. ActionInv'
    BY DEF IInv, ActionInv, Served
  <1> QED
    BY <1>2, <1>3, <1>5, <1>6, <1>7, TypeHalvesNext DEF IInv, Right

\* The calls.
LEMMA CallKeeps ==
    ASSUME IInv, \/ Reset \/ BuildDestroy \/ CaptureStart \/ CaptureStop
                 \/ RecordStart \/ RecordStop \/ Transport
    PROVE  IInv'
  <1>1. /\ phase = "asked" /\ tool \in Tools /\ engine \in States
        /\ worker \in {"none", "runs", "failed"}
    BY DEF IInv, TypeOK, Tools, Reset, BuildDestroy, CaptureStart,
           CaptureStop, RecordStart, RecordStop, Exchange, Transport, Called
  <1>2. CASE Reset
    <2>1. Served /\ engine' = "Idle" /\ phase' = "ok"
      BY <1>1, <1>2 DEF Reset, Destroyed, Answer, Served, States, shared,
                        shown, devices
    <2> QED
      BY <1>1, <2>1, ServedKeeps DEF WrongState
  <1>3. CASE BuildDestroy
    <2>1. Served /\ engine' = "Idle" /\ Head(steps) \in Builds
      BY <1>1, <1>3 DEF BuildDestroy, Called, Destroyed, Answer, Served,
                        States, shared, shown, devices
    <2> QED
      BY <1>1, <2>1, ServedKeeps DEF WrongState
  <1>4. CASE CaptureStart
    <2>1. /\ Served /\ engine' \in {engine, "Capturing"}
          /\ engine' # engine => engine = "CapturePaused"
          /\ Head(steps) = "captureStart" /\ phase' \in {"ok", "failed"}
      BY <1>1, <1>4 DEF CaptureStart, Called, Answer, Served, States, Live,
                        shared, shown, devices
    <2>2. StaysRight => ~WrongState(engine, tool)
      BY <2>1 DEF StaysRight, Builds
    <2> QED
      BY <1>1, <2>1, <2>2, ServedKeeps DEF WrongState, Tools
  <1>5. CASE CaptureStop
    <2>1. /\ Served /\ engine' \in {engine, "CapturePaused"}
          /\ engine' # engine => engine = "Capturing"
          /\ Head(steps) = "captureStop" /\ phase' \in {"ok", "failed"}
      BY <1>1, <1>5 DEF CaptureStop, Exchange, Called, Answer, Served, States,
                        Live, shared, shown, devices
    <2>2. StaysRight => ~WrongState(engine, tool)
      BY <2>1 DEF StaysRight, Builds
    <2> QED
      BY <1>1, <2>1, <2>2, ServedKeeps DEF WrongState, Tools
  <1>6. CASE RecordStart
    <2>1. /\ Served /\ engine' \in {engine, "Recording"}
          /\ engine' # engine => engine = "RecordPaused"
          /\ Head(steps) = "recordStart" /\ phase' \in {"ok", "failed"}
      BY <1>1, <1>6 DEF RecordStart, Exchange, Called, Answer, Served, States,
                        Live, shared, shown, devices
    <2>2. StaysRight => ~WrongState(engine, tool)
      BY <2>1 DEF StaysRight, Builds
    <2> QED
      BY <1>1, <2>1, <2>2, ServedKeeps DEF WrongState, Tools
  <1>7. CASE RecordStop
    <2>1. /\ Served /\ engine' \in {engine, "RecordPaused"}
          /\ engine' # engine => engine = "Recording"
          /\ Head(steps) = "recordStop" /\ phase' \in {"ok", "failed"}
      BY <1>1, <1>7 DEF RecordStop, Exchange, Called, Answer, Served, States,
                        Live, shared, shown, devices
    <2>2. StaysRight => ~WrongState(engine, tool)
      BY <2>1 DEF StaysRight, Builds
    <2> QED
      BY <1>1, <2>1, <2>2, ServedKeeps DEF WrongState, Tools
  <1>8. CASE Transport
    <2>1. /\ Served /\ engine' = engine /\ Head(steps) = "transport"
          /\ phase' \in {"ok", "failed"}
      BY <1>1, <1>8 DEF Transport, Called, Answer, Served, shared, shown,
                        devices, pipeline
    <2>2. StaysRight => ~WrongState(engine, tool)
      BY <2>1 DEF StaysRight, Builds
    <2> QED
      BY <1>1, <2>1, <2>2, ServedKeeps
  <1> QED
    BY <1>2, <1>3, <1>4, <1>5, <1>6, <1>7, <1>8

\* The new pipeline is the one that was asked for.
LEMMA BuildKeeps == IInv /\ BuildCreate => IInv'
  <1> SUFFICES ASSUME IInv, BuildCreate PROVE IInv'
    OBVIOUS
  <1>1. /\ phase = "building" /\ tool \in Tools /\ engine \in States
        /\ worker \in {"none", "runs", "failed"} /\ steps \in Seq(Calls)
        /\ steps # <<>>
    BY DEF IInv, TypeOK, ActionInv, Tools, BuildCreate
  <1>2. /\ engine' \in {engine, "Idle", Paused(Head(steps))}
        /\ worker' \in {worker, "runs"}
        /\ phase' \in {"ok", "missing", "failed"} /\ raised' = raised
    BY DEF BuildCreate, Answer
  <1>3. Paused(Head(steps)) \in {"RecordPaused", "CapturePaused"}
    BY DEF Paused
  <1>4. Served
    BY <1>1, <1>2, <1>3 DEF BuildCreate, Answer, Served, States, Live,
                            shared, shown, devices
  <1>5. StaysRight => ~WrongState(engine', tool)
    <2> SUFFICES ASSUME StaysRight PROVE ~WrongState(engine', tool)
      OBVIOUS
    <2>1. ~WrongState(engine, tool)
      BY <1>1 DEF StaysRight
    <2>2. ~WrongCall(Head(steps), tool)
      <3>1. 1 \in DOMAIN steps /\ Head(steps) = steps[1]
        <4> HIDE DEF Calls
        <4> QED
          BY <1>1
      <3> QED
        BY <3>1 DEF StaysRight
    <2>3. Head(steps) \in Builds
      BY <1>1 DEF IInv, ActionInv
    <2> QED
      BY <1>1, <1>2, <2>1, <2>2, <2>3 DEF Paused, WrongState, WrongCall,
                                          Tools, Builds
  <1> QED
    BY <1>1, <1>2, <1>4, <1>5, ServedKeeps

\* A failed call is noticed; the engine ends a capture or a recording.
LEMMA EngineKeeps ==
    ASSUME IInv, Check \/ CaptureEnds \/ RecordEnds
    PROVE  IInv'
  <1>1. /\ phase \in {"none", "asked", "building", "ok", "failed", "missing",
                      "thrown", "thrownMissing"}
        /\ tool \in Tools /\ engine \in States
        /\ worker \in {"none", "runs", "failed"}
        /\ phase = "building" => Head(steps) \in Builds
    BY DEF IInv, TypeOK, ActionInv, Tools
  <1>2. CASE Check
    <2>1. /\ Served /\ engine' = engine /\ phase \in {"failed", "missing"}
          /\ phase' \in {"thrown", "thrownMissing"}
      BY <1>1, <1>2 DEF Check, Served, shared, shown, devices, pipeline
    <2>2. StaysRight => ~WrongState(engine, tool)
      BY <2>1 DEF StaysRight
    <2> QED
      BY <2>1, <2>2, ServedKeeps
  <1>3. CASE CaptureEnds \/ RecordEnds
    <2>1. Served /\ engine' = "Finished" /\ phase' = phase
      BY <1>1, <1>3 DEF CaptureEnds, RecordEnds, Served, States, Live,
                        shared, shown, actions, devices, errors
    <2> QED
      BY <1>1, <2>1, ServedKeeps DEF WrongState
  <1> QED
    BY <1>2, <1>3

-----------------------------------------------------------------------------
(* The theorems                                                             *)

\* The first state.
LEMMA InitInv == Init => IInv
  <1> SUFFICES ASSUME Init PROVE IInv
    OBVIOUS
  <1>1. OthersTyped
    <2>1. listing \in Lists
      BY DEF Init, Lists
    <2> QED
      BY <2>1 DEF Init, OthersTyped, Tools, States
  <1>2. ActionsTyped
    <2>1. waiting = <<>> /\ phase = "none" /\ running = NoAction
      BY DEF Init
    <2>2. NoAction \in [kind : Kinds \cup {"none"}, seen : States,
                        recovers : BOOLEAN]
      BY DEF NoAction, States
    <2>3. waiting \in Seq(Waiting)
      <3> HIDE DEF Waiting
      <3> QED
        BY <2>1
    <2> QED
      BY <2>1, <2>2, <2>3 DEF ActionsTyped
  <1>3. ActionInv
    BY NoCalls DEF Init, ActionInv
  <1>4. StaysRight
    <2>1. Queued = <<>> /\ steps = <<>> /\ engine = "Idle"
      BY DEF Init, Queued
    <2> QED
      BY <2>1 DEF StaysRight, WrongState
  <1> QED
    BY <1>1, <1>2, <1>3, <1>4, TypeHalves DEF IInv, Right

\* Every step keeps the invariant.
LEMMA StepInv == IInv /\ [Next]_vars => IInv'
  <1> SUFFICES ASSUME IInv, [Next]_vars PROVE IInv'
    OBVIOUS
  <1>1. CASE \/ Tick \/ Close \/ Closed \/ Switch \/ OnDevicesChanged
             \/ RefreshDevices \/ DevicesRefreshed
             \/ \E a \in Askers : ListDevices(a) \/ CheckList(a)
             \/ ShutdownTransport \/ PipelineFails
    BY <1>1, BesideKeeps
  <1>2. CASE Granted
    BY <1>2, GrantedKeeps
  <1>3. CASE Continue
    BY <1>3, ContinueKeeps
  <1>4. CASE Recover
    BY <1>4, RecoverKeeps
  <1>5. CASE End
    BY <1>5, EndKeeps
  <1>6. CASE \E k \in {"play", "pause", "stop", "rec"} : Command(k)
    BY <1>6, CommandKeeps
  <1>7. CASE ChangeTool
    BY <1>7, ChangeToolKeeps
  <1>8. CASE StartAsync
    BY <1>8, StartKeeps
  <1>9. CASE DevicesListed
    BY <1>9, ListedKeeps
  <1>10. CASE Raise
    BY <1>10, RaiseKeeps
  <1>11. CASE Serve
    BY <1>11, CallKeeps, BuildKeeps DEF Serve
  <1>12. CASE Check \/ CaptureEnds \/ RecordEnds
    BY <1>12, EngineKeeps
  <1>13. CASE UNCHANGED vars
    <2>1. UNCHANGED <<tool, actions, engine>>
      BY <1>13 DEF vars, shared, pipeline
    <2>2. ActionInv' /\ Right'
      BY <2>1, Untouched DEF IInv
    <2>3. TypeOK'
      BY <1>13 DEF IInv, TypeOK, vars, shared, shown, actions, devices,
                   pipeline, errors
    <2> QED
      BY <2>2, <2>3 DEF IInv
  <1> QED
    BY <1>1, <1>2, <1>3, <1>4, <1>5, <1>6, <1>7, <1>8, <1>9, <1>10, <1>11,
       <1>12, <1>13 DEF Next

\* The invariant holds of every behaviour of the view model.
THEOREM Invariance == Spec => []IInv
  BY InitInv, StepInv, PTL DEF Spec

\* Whatever is pressed, fails or is plugged in, the view model's state keeps
\* to its values: above all, what waits for _busy are actions, and none that
\* is recovering (RunAsync).
THEOREM TypeCorrect == Spec => []TypeOK
  <1>1. IInv => TypeOK
    BY DEF IInv
  <1> QED
    BY Invariance, <1>1, PTL

\* However many buttons are pressed, tools chosen and calls and devices lost,
\* when nothing is under way any more the pipeline is not that of the other
\* tool (MainViewModel's OnSelectedToolChanged and InitPipelineAsync).
THEOREM PipelineIsTheTools == Spec => []ToolMatchesPipeline
  <1>1. IInv => ToolMatchesPipeline
    <2> SUFFICES ASSUME IInv, Quiet
                 PROVE  IF tool = "Capture"
                          THEN engine \notin {"RecordPaused", "Recording"}
                          ELSE engine \notin {"CapturePaused", "Capturing"}
      BY DEF ToolMatchesPipeline
    <2>1. Queued = <<>> /\ phase = "none"
      BY DEF IInv, ActionInv, Quiet, Queued
    <2>2. StaysRight
      BY <2>1 DEF IInv, Right, ToBePutRight
    <2> QED
      BY <2>1, <2>2 DEF StaysRight, WrongState
  <1> QED
    BY Invariance, <1>1, PTL
====
