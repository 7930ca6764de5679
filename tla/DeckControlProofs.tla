------------------------- MODULE DeckControlProofs -------------------------
(* The deck, its pipeline and its window, for any number of buttons, tools, *)
(* settings, keys of the camcorder and failures.                            *)
EXTENDS DeckControl, TLAPS

-----------------------------------------------------------------------------
(* What is to be done                                                       *)

Builds == {"connect", "buildCapture", "buildRecord"}

\* What is done second, by what is done first.
Pairs == {<<"captureStop", "Stop">>, <<"Play", "captureStart">>,
          <<"buildCapture", "start">>, <<"buildRecord", "recordStart">>}

\* One action of one or two calls, and tools chosen meanwhile.
Shape(list) ==
    \A i \in 2..Len(list) :
        list[i] = "init" \/ (i = 2 /\ <<list[1], list[2]>> \in Pairs)
NoInit(list) == \A i \in 1..Len(list) : list[i] # "init"
NoButton(list) == \A i \in 1..Len(list) : list[i] \notin Buttons
First(steps) == todo # <<>> /\ Head(todo) \in steps

-----------------------------------------------------------------------------
(* The inductive invariant                                                  *)

Modes == {STOP, PLAY, FREEZE, FF, REW, RECORD, RECORD_FREEZE, PlayFastestFwd,
          PlayFastestRev}
Requests == {<<>>, <<PLAY, FREEZE>>} \cup {<<mode>> : mode \in Modes}

TodoInv ==
    /\ Shape(todo)
    /\ todo = <<>> => call = "no"
    /\ call # "no" => ~First({"init", "start"})
    /\ call = "no" => ~First({"reset", "connect"})
    /\ call = "half" => ~First({"reset"})

\* There is a request only amid a call, to a deck that can be told.
CallInv ==
    /\ DVctrl \in BOOLEAN /\ steady \in BOOLEAN /\ transport \in BOOLEAN
    /\ deckControl \in BOOLEAN /\ quiet \in BOOLEAN
    /\ port \in {"none", "input", "output"} /\ request \in Requests
    /\ request # <<>> => call = "half" /\ port # "none" /\ transport
    /\ call = "half" /\ First(Builds) => port = "none"
    /\ call = "done" /\ First({"reset"}) => port = "none"
    /\ ~transport => ordered \in {NoOrder, OwnWay}

Follows ==
    \/ ordered = OwnWay
    \/ state = "RecordPaused" /\ ordered = RECORD_FREEZE
    \/ state \in {"Recording", "Finished"} /\ ordered = RECORD

\* A pipeline that was built half way is taken down before anything else.
Undone == /\ state \in {"Idle", "RecordPaused"} /\ ordered = NoOrder
          /\ TakenDown

\* Between the two halves of a call the deck is about to be told what the
\* state already says.
TapeInv ==
    port = "output" /\ DVctrl /\ steady /\ transport =>
        \/ request = <<>> /\ Follows
        \/ request = <<RECORD_FREEZE>> /\ state = "RecordPaused"
        \/ request = <<RECORD>> /\ state \in {"Recording", "Finished"}
        \/ request = <<>> /\ Undone

\* No set-up waits, or is asked for and not begun.
Settled == NoInit(todo)
SetUp == Settled /\ (First({"connect", "reset"}) => call # "asked")
Right == DVctrl <=> (tool = "Record" /\ deckControl)

\* Then the pipeline and its options are those of the tool.
SettledInv ==
    Settled =>
        /\ First({"connect", "buildCapture"}) => tool = "Capture"
        /\ First({"reset", "buildRecord"}) => tool = "Record"
        /\ First(Builds) /\ call # "no" => Right
        /\ SetUp /\ port # "none" =>
             /\ port = IF tool = "Capture" THEN "input" ELSE "output"
             /\ Right

\* And a deck that was told something by the capture tool is one that the
\* published status, and then the shown one, says it can be.
SeenInv ==
    transport /\ port = "input" /\ SetUp =>
        /\ todo = <<>> /\ shown.can => published.can
        /\ ~NoButton(todo) \/ request # <<>> => published.can
        /\ ordered \notin {NoOrder, OwnWay, STOP} =>
             published.can /\ (todo = <<>> => shown.can)

Stopped == deck = STOP \/ ordered \in {NoOrder, OwnWay, STOP}

\* The window closes while nothing runs: what stops the deck yet.
QuietInv ==
    quiet =>
        /\ todo = <<>>
        /\ \/ window = "stopping" /\ port = "input"
           \/ window = "stopped" /\ port = "input" /\ Stopped
           \/ window = "stopped" /\ port = "output" /\ DVctrl
           \/ window = "closed" /\ Stopped

IInv == /\ TypeOK /\ TodoInv /\ CallInv /\ TapeInv /\ SettledInv /\ SeenInv
        /\ QuietInv

-----------------------------------------------------------------------------
(* Lists of steps                                                           *)

\* A list of one step, and one of two.
LEMMA OneStep ==
    ASSUME NEW s \in Steps
    PROVE  /\ <<s>> \in Seq(Steps) /\ <<s>> # <<>> /\ Head(<<s>>) = s
           /\ Shape(<<s>>)
           /\ s \notin Buttons => NoButton(<<s>>)
           /\ s = "init" => ~NoInit(<<s>>)
  BY DEF Shape, NoButton, NoInit

\* Two of the pairs.
LEMMA TwoSteps ==
    ASSUME NEW s \in Steps, NEW t \in Steps, <<s, t>> \in Pairs
    PROVE  /\ <<s, t>> \in Seq(Steps) /\ <<s, t>> # <<>>
           /\ Head(<<s, t>>) = s /\ Shape(<<s, t>>)
           /\ s \notin Buttons /\ t \notin Buttons => NoButton(<<s, t>>)
  <1>1. /\ <<s, t>> \in Seq(Steps) /\ Len(<<s, t>>) = 2
        /\ <<s, t>>[1] = s /\ <<s, t>>[2] = t
    OBVIOUS
  <1> QED
    BY <1>1 DEF Shape, NoButton

\* A tool is chosen behind what is to be done.
LEMMA Chosen ==
    ASSUME NEW list \in Seq(Steps), Shape(list)
    PROVE  LET longer == Append(list, "init")
           IN  /\ longer \in Seq(Steps) /\ longer # <<>>
               /\ Shape(longer) /\ ~NoInit(longer)
               /\ list # <<>> => Head(longer) = Head(list)
               /\ list = <<>> => Head(longer) = "init"
  <1> DEFINE longer == Append(list, "init")
  <1>1. /\ longer \in Seq(Steps) /\ Len(longer) = Len(list) + 1
        /\ Len(list) \in Nat /\ longer[Len(list) + 1] = "init"
        /\ \A i \in 1..Len(list) : longer[i] = list[i]
    BY DEF Steps
  <1>2. /\ list # <<>> => Len(list) >= 1 /\ Head(longer) = Head(list)
        /\ list = <<>> => Head(longer) = "init"
        /\ longer # <<>>
    BY <1>1
  <1>3. ~NoInit(longer)
    BY <1>1 DEF NoInit
  <1>4. Shape(longer)
    BY <1>1 DEF Shape
  <1> QED
    BY <1>1, <1>2, <1>3, <1>4

\* The first step is done.
LEMMA Done ==
    ASSUME NEW list \in Seq(Steps), list # <<>>, Shape(list)
    PROVE  /\ Tail(list) \in Seq(Steps) /\ Shape(Tail(list))
           /\ NoInit(Tail(list)) /\ Head(list) # "init" => NoInit(list)
           /\ NoButton(list) => NoButton(Tail(list))
           /\ NoInit(Tail(list)) /\ Tail(list) # <<>> =>
                <<Head(list), Head(Tail(list))>> \in Pairs
           /\ Tail(list) # <<>> =>
                \/ Head(Tail(list)) = "init"
                \/ <<Head(list), Head(Tail(list))>> \in Pairs
  <1> HIDE DEF Steps
  <1>1. /\ Tail(list) \in Seq(Steps) /\ Len(list) \in Nat /\ Len(list) >= 1
        /\ Len(Tail(list)) = Len(list) - 1 /\ list[1] = Head(list)
        /\ \A i \in 1..Len(Tail(list)) : Tail(list)[i] = list[i + 1]
    OBVIOUS
  <1>2. Tail(list) # <<>> => Len(list) >= 2 /\ Head(Tail(list)) = list[2]
    BY <1>1
  <1>3. \A i \in 2..Len(Tail(list)) : Tail(list)[i] = "init"
    <2> SUFFICES ASSUME NEW i \in 2..Len(Tail(list))
                 PROVE  Tail(list)[i] = "init"
      OBVIOUS
    <2>1. i + 1 \in 2..Len(list) /\ i + 1 # 2 /\ Tail(list)[i] = list[i + 1]
      BY <1>1
    <2> QED
      BY <2>1 DEF Shape
  <1>4. Shape(Tail(list))
    BY <1>3 DEF Shape
  <1>5. NoInit(Tail(list)) /\ Head(list) # "init" => NoInit(list)
    <2> SUFFICES ASSUME NoInit(Tail(list)), Head(list) # "init",
                        NEW i \in 1..Len(list)
                 PROVE  list[i] # "init"
      BY DEF NoInit
    <2>1. CASE i = 1
      BY <1>1, <2>1
    <2>2. CASE i # 1
      <3>1. i - 1 \in 1..Len(Tail(list)) /\ (i - 1) + 1 = i
        BY <1>1, <2>2
      <3>2. Tail(list)[i - 1] = list[i]
        BY <1>1, <3>1
      <3> QED
        BY <3>1, <3>2 DEF NoInit
    <2> QED
      BY <2>1, <2>2
  <1>6. NoButton(list) => NoButton(Tail(list))
    <2> SUFFICES ASSUME NoButton(list), NEW i \in 1..Len(Tail(list))
                 PROVE  Tail(list)[i] \notin Buttons
      BY DEF NoButton
    <2>1. i + 1 \in 1..Len(list) /\ Tail(list)[i] = list[i + 1]
      BY <1>1
    <2> QED
      BY <2>1 DEF NoButton
  <1>7. Tail(list) # <<>> => \/ list[2] = "init"
                             \/ <<list[1], list[2]>> \in Pairs
    BY <1>1, <1>2 DEF Shape
  <1>8. NoInit(Tail(list)) /\ Tail(list) # <<>> => list[2] # "init"
    <2> SUFFICES ASSUME NoInit(Tail(list)), Tail(list) # <<>>
                 PROVE  list[2] # "init"
      OBVIOUS
    <2>1. 1 \in 1..Len(Tail(list)) /\ Tail(list)[1] = list[2]
      BY <1>1, <1>2
    <2> QED
      BY <2>1 DEF NoInit
  <1> QED
    BY <1>1, <1>2, <1>4, <1>5, <1>6, <1>7, <1>8

\* What is behind a step that has no second one are set-ups.
LEMMA OnlyInits ==
    ASSUME NEW list \in Seq(Steps), list # <<>>, Shape(list),
           Head(list) \in {"start", "init"}
    PROVE  \A i \in 1..Len(Tail(list)) : Tail(list)[i] = "init"
  <1>1. /\ Len(list) \in Nat /\ Len(list) >= 1
        /\ Len(Tail(list)) = Len(list) - 1 /\ list[1] = Head(list)
        /\ \A i \in 1..Len(Tail(list)) : Tail(list)[i] = list[i + 1]
    <2> HIDE DEF Steps
    <2> QED
      OBVIOUS
  <1>2. <<list[1], list[2]>> \notin Pairs
    BY <1>1 DEF Pairs
  <1> SUFFICES ASSUME NEW i \in 1..Len(Tail(list))
               PROVE  Tail(list)[i] = "init"
    OBVIOUS
  <1>3. i + 1 \in 2..Len(list) /\ Tail(list)[i] = list[i + 1]
    BY <1>1
  <1> QED
    BY <1>2, <1>3 DEF Shape

\* Steps put before set-ups.
LEMMA Before ==
    ASSUME NEW rest \in Seq(Steps), \A i \in 1..Len(rest) : rest[i] = "init",
           NEW steps \in Seq(Steps), Shape(steps),
           Len(steps) \in {1, 2}
    PROVE  LET list == steps \o rest
           IN  /\ list \in Seq(Steps) /\ list # <<>>
               /\ Head(list) = Head(steps) /\ Shape(list)
               /\ NoInit(list) => NoInit(rest)
               /\ NoButton(steps) => NoButton(list)
  <1> HIDE DEF Steps
  <1> DEFINE list == steps \o rest
  <1>1. /\ list \in Seq(Steps) /\ Len(list) = Len(steps) + Len(rest)
        /\ Len(steps) \in 1..2 /\ Len(rest) \in Nat
        /\ \A i \in 1..Len(steps) : list[i] = steps[i]
        /\ \A i \in 1..Len(rest) : list[Len(steps) + i] = rest[i]
    <2>1. list \in Seq(Steps) /\ Len(list) = Len(steps) + Len(rest)
      OBVIOUS
    <2>2. Len(steps) \in 1..2 /\ Len(rest) \in Nat
      OBVIOUS
    <2>3. \A i \in 1..Len(steps) : list[i] = steps[i]
      BY <2>2
    <2>4. \A i \in 1..Len(rest) : list[Len(steps) + i] = rest[i]
      BY <2>2
    <2> QED
      BY <2>1, <2>2, <2>3, <2>4
  <1>2. list # <<>> /\ Head(list) = Head(steps)
    BY <1>1
  <1>3. \A i \in 1..Len(list) : i > Len(steps) => list[i] = "init"
    <2> SUFFICES ASSUME NEW i \in 1..Len(list), i > Len(steps)
                 PROVE  list[i] = "init"
      OBVIOUS
    <2>1. i - Len(steps) \in 1..Len(rest) /\ Len(steps) + (i - Len(steps)) = i
      BY <1>1
    <2> QED
      BY <1>1, <2>1
  <1>4. Shape(list)
    <2> SUFFICES ASSUME NEW i \in 2..Len(list), list[i] # "init"
                 PROVE  i = 2 /\ <<list[1], list[2]>> \in Pairs
      BY DEF Shape
    <2>1. i <= Len(steps) /\ i \in 1..Len(list)
      BY <1>1, <1>3
    <2>2. i = 2 /\ Len(steps) = 2
      <3>1. i \in Nat /\ i >= 2 /\ Len(steps) \in {1, 2}
        BY <1>1
      <3> QED
        BY <2>1, <3>1
    <2>3. list[1] = steps[1] /\ list[2] = steps[2]
      BY <1>1, <2>2
    <2> QED
      BY <2>2, <2>3 DEF Shape
  <1>5. NoInit(list) => NoInit(rest)
    <2> SUFFICES ASSUME NoInit(list), NEW i \in 1..Len(rest)
                 PROVE  rest[i] # "init"
      BY DEF NoInit
    <2>1. Len(steps) + i \in 1..Len(list)
      BY <1>1
    <2> QED
      BY <1>1, <2>1 DEF NoInit
  <1>6. NoButton(steps) => NoButton(list)
    <2> SUFFICES ASSUME NoButton(steps), NEW i \in 1..Len(list)
                 PROVE  list[i] \notin Buttons
      BY DEF NoButton
    <2>1. CASE i > Len(steps)
      BY <1>3, <2>1 DEF Buttons
    <2>2. CASE i <= Len(steps)
      <3>1. i \in 1..Len(steps) /\ list[i] = steps[i]
        BY <1>1, <2>2
      <3> QED
        BY <3>1 DEF NoButton
    <2> QED
      BY <1>1, <2>1, <2>2
  <1> QED
    BY <1>1, <1>2, <1>4, <1>5, <1>6

-----------------------------------------------------------------------------
(* The deck                                                                 *)

\* The codes of the driver are numbers.
LEMMA CodesTyped == /\ Modes \subseteq Nat /\ Picture \subseteq Nat
                    /\ Keys \subseteq Nat
  BY DEF Modes, Picture, Keys, STOP, PLAY, FREEZE, FF, REW, RECORD,
         RECORD_FREEZE, PlayFastestFwd, PlayFastestRev

\* What the deck answers is a code, and to STOP it is STOP.
LEMMA AnswerTyped ==
    ASSUME NEW d \in Nat, NEW m \in Modes, NEW e \in Answers(d, m)
    PROVE  e \in Nat /\ (m = STOP => e = STOP)
  BY DEF Answers, Modes, STOP, PLAY, FREEZE, FF, REW, RECORD, RECORD_FREEZE,
         PlayFastestFwd, PlayFastestRev, Picture

\* A request of one mode, and what it is when it is not empty.
LEMMA RequestTyped ==
    /\ \A m \in Modes : /\ <<m>> \in Requests /\ Len(<<m>>) = 1
                        /\ <<m>>[1] = m /\ <<m>> # <<>>
    /\ <<>> \in Requests
    /\ \A r \in Requests :
         /\ r \in Seq(Nat) /\ Len(r) <= 2
         /\ r # <<>> => r[Len(r)] \in Modes
  <1>1. \A m \in Modes : /\ <<m>> \in Requests /\ Len(<<m>>) = 1
                         /\ <<m>>[1] = m /\ <<m>> # <<>>
    BY DEF Requests
  <1>2. \A m \in Modes : <<m>> \in Seq(Nat) /\ Len(<<m>>) <= 2
    BY CodesTyped
  <1>3. /\ <<PLAY, FREEZE>> \in Seq(Nat) /\ Len(<<PLAY, FREEZE>>) = 2
        /\ <<PLAY, FREEZE>>[2] = FREEZE
    BY DEF PLAY, FREEZE
  <1>4. FREEZE \in Modes
    BY DEF Modes
  <1>5. <<>> \in Seq(Nat) /\ Len(<<>>) = 0
    OBVIOUS
  <1>6. ASSUME NEW r \in Requests
        PROVE  /\ r \in Seq(Nat) /\ Len(r) <= 2
               /\ r # <<>> => r[Len(r)] \in Modes
    <2>1. CASE r = <<>>
      BY <1>5, <2>1
    <2>2. CASE r = <<PLAY, FREEZE>>
      BY <1>3, <1>4, <2>2
    <2>3. CASE \E m \in Modes : r = <<m>>
      <3>1. PICK m \in Modes : r = <<m>>
        BY <2>3
      <3> QED
        BY <1>1, <1>2, <3>1
    <2> QED
      BY <2>1, <2>2, <2>3 DEF Requests
  <1> QED
    BY <1>1, <1>6 DEF Requests

\* The deck is told.
LEMMA Sending ==
    ASSUME deck \in Nat, NEW r \in Requests, Send(r)
    PROVE  /\ deck' \in Nat
           /\ r = <<>> => deck' = deck /\ ordered' = ordered
           /\ r # <<>> => ordered' = r[Len(r)] /\ ordered' \in Modes
           /\ r = <<STOP>> => deck' = STOP
  <1>1. r # <<>> => ordered' = r[Len(r)] /\ ordered' \in Modes
    BY RequestTyped DEF Send
  <1>2. CASE r = <<>>
    BY <1>2 DEF Send
  <1>3. CASE r = <<PLAY, FREEZE>>
    <2>1. /\ Len(r) = 2 /\ r[1] = PLAY /\ r[2] = FREEZE /\ r # <<>>
          /\ r # <<STOP>>
      BY <1>3
    <2>2. PICK d \in Answers(deck, PLAY) : deck' \in Answers(d, FREEZE)
      BY <2>1 DEF Send
    <2>3. PLAY \in Modes /\ FREEZE \in Modes
      BY DEF Modes
    <2>4. d \in Nat
      BY <2>2, <2>3, AnswerTyped
    <2>5. deck' \in Nat
      BY <2>2, <2>3, <2>4, AnswerTyped
    <2> QED
      BY <1>1, <2>1, <2>5
  <1>4. CASE \E m \in Modes : r = <<m>>
    <2>1. PICK m \in Modes : r = <<m>>
      BY <1>4
    <2>2. r # <<>> /\ Len(r) = 1 /\ r[1] = m
      BY <2>1
    <2>3. deck' \in Answers(deck, m)
      BY <2>2 DEF Send
    <2>4. r = <<STOP>> => m = STOP
      BY <2>2
    <2> QED
      BY <1>1, <2>2, <2>3, <2>4, AnswerTyped
  <1> QED
    BY <1>2, <1>3, <1>4 DEF Requests

\* What the deck's own words are read as.
LEMMA ModeTyped == \A d : ToDeckMode(d) \in DeckModes
  BY DEF ToDeckMode, DeckModes

\* Only a deck that stands still is shown as stopped (ToDeckMode).
LEMMA StoppedIsStop == \A d \in Nat : ToDeckMode(d) = "Stopped" => d = STOP
  BY DEF ToDeckMode

\* A deck that shows or records a picture is on tape (IsOnTape).
LEMMA PictureIsOnTape ==
    /\ \A d \in Picture :
         ToDeckMode(d) \in {"Playing", "Paused", "CueForward", "CueReverse"}
    /\ ToDeckMode(RECORD) = "Recording"
    /\ ToDeckMode(RECORD_FREEZE) = "RecordPaused"
  BY DEF ToDeckMode, Picture, InRange, STOP, PLAY, FREEZE, FF, REW, RECORD,
         RECORD_FREEZE, PlayFastestFwd, PlayFastestRev

\* The modes that a button asks for.
LEMMA ResolveTyped ==
    ASSUME NEW b \in Buttons, NEW mode \in DeckModes
    PROVE  ResolveDeckCommand(b, mode) \in Requests
  <1>1. /\ <<STOP>> \in Requests /\ <<PLAY>> \in Requests
        /\ <<FREEZE>> \in Requests /\ <<FF>> \in Requests
        /\ <<REW>> \in Requests /\ <<PlayFastestFwd>> \in Requests
        /\ <<PlayFastestRev>> \in Requests /\ <<>> \in Requests
        /\ <<PLAY, FREEZE>> \in Requests
    BY RequestTyped DEF Requests, Modes
  <1>2. ResolveDeckCommand(b, mode) \in
          {<<>>, <<STOP>>, <<PLAY>>, <<FREEZE>>, <<FF>>, <<REW>>,
           <<PlayFastestFwd>>, <<PlayFastestRev>>, <<PLAY, FREEZE>>}
    BY DEF ResolveDeckCommand, Buttons
  <1> QED
    BY <1>1, <1>2

-----------------------------------------------------------------------------
(* The user                                                                 *)

\* A button is pressed that is enabled: nothing is being done.
LEMMA PressKeeps ==
    ASSUME IInv, todo = <<>>, NEW steps \in Seq(Steps), Shape(steps),
           Presses(steps),
           steps # <<>> => Head(steps) \notin {"reset", "connect"},
           steps # <<>> /\ Head(steps) = "buildCapture" => tool = "Capture",
           steps # <<>> /\ Head(steps) = "buildRecord" => tool = "Record",
           ~NoButton(steps) => shown.can
    PROVE  IInv'
  <1> USE DEF IInv
  <1>1. /\ todo' = steps /\ quiet' = FALSE
        /\ UNCHANGED <<deck, transport, ordered, port, state, DVctrl, steady,
                       published, shown, tool, deckControl, call, request,
                       window>>
    BY DEF Presses, device, engine, ui
  <1>2. /\ call = "no" /\ NoInit(todo) /\ NoButton(todo) /\ request = <<>>
        /\ ~First({"connect", "reset"})
    BY DEF TodoInv, CallInv, NoInit, NoButton, First
  <1>3. TypeOK'
    BY <1>1 DEF TypeOK
  <1>4. TodoInv'
    BY <1>1, <1>2 DEF TodoInv, First
  <1>5. CallInv'
    BY <1>1, <1>2 DEF CallInv
  <1>6. TapeInv'
    BY <1>1 DEF TapeInv, Follows, Undone, TakenDown
  <1>7. SettledInv'
    BY <1>1, <1>2 DEF SettledInv, SetUp, Settled, First, Right
  <1>8. SeenInv'
    BY <1>1, <1>2 DEF SeenInv, SetUp, Settled
  <1>9. QuietInv'
    BY <1>1 DEF QuietInv
  <1> QED
    BY <1>3, <1>4, <1>5, <1>6, <1>7, <1>8, <1>9

\* The lists of steps that buttons ask for.
LEMMA ButtonsKeep ==
    ASSUME IInv, Play \/ Pause \/ Stop \/ Wind \/ Rec
    PROVE  IInv'
  <1>1. /\ todo = <<>> /\ tool \in {"Capture", "Record"}
        /\ tool = "Capture" /\ (Play \/ Pause \/ Stop) => shown.can
        /\ Rec => tool = "Capture"
    BY DEF IInv, TypeOK, Play, Pause, Stop, Wind, Rec, CanUseDeckButtons,
           CanWind, CanRec
  <1>2. CASE Presses(<<>>)
    <2>1. <<>> \in Seq(Steps) /\ Shape(<<>>) /\ NoButton(<<>>)
      BY DEF Shape, NoButton
    <2> QED
      BY <1>1, <1>2, <2>1, PressKeeps
  <1>3. ASSUME NEW x \in Steps \ {"reset", "connect"}, Presses(<<x>>),
               x \in Buttons => shown.can,
               x = "buildCapture" => tool = "Capture",
               x = "buildRecord" => tool = "Record"
        PROVE  IInv'
    <2>1. /\ <<x>> \in Seq(Steps) /\ <<x>> # <<>> /\ Head(<<x>>) = x
          /\ Shape(<<x>>) /\ (x \notin Buttons => NoButton(<<x>>))
      BY OneStep
    <2> QED
      BY <1>1, <1>3, <2>1, PressKeeps
  <1>4. ASSUME NEW x \in Steps \ {"reset", "connect"}, NEW y \in Steps,
               <<x, y>> \in Pairs, Presses(<<x, y>>),
               x \in Buttons \/ y \in Buttons => shown.can,
               x = "buildCapture" => tool = "Capture",
               x = "buildRecord" => tool = "Record"
        PROVE  IInv'
    <2>1. /\ <<x, y>> \in Seq(Steps) /\ <<x, y>> # <<>>
          /\ Head(<<x, y>>) = x /\ Shape(<<x, y>>)
          /\ x \notin Buttons /\ y \notin Buttons => NoButton(<<x, y>>)
      BY <1>4, TwoSteps
    <2> QED
      BY <1>1, <1>4, <2>1, PressKeeps
  <1>5. {"Play", "Pause", "Stop", "FastForward", "Rewind", "init",
         "recordStart", "recordStop", "buildRecord", "captureStop", "start"}
          \subseteq Steps \ {"reset", "connect"}
    BY DEF Steps, Buttons
  <1>6. /\ \A x \in {"init", "recordStart", "recordStop", "buildRecord",
                     "captureStop", "start"} : x \notin Buttons
        /\ <<"buildRecord", "recordStart">> \in Pairs
        /\ <<"captureStop", "Stop">> \in Pairs
        /\ <<"buildCapture", "start">> \in Pairs
        /\ {"buildCapture", "buildRecord"} \cap Buttons = {}
        /\ "buildCapture" \in Steps \ {"reset", "connect"}
    BY DEF Buttons, Pairs, Steps
  <1>7. CASE Play
    <2>1. \/ Presses(<<"Play">>) /\ tool = "Capture"
          \/ Presses(<<"recordStart">>) \/ Presses(<<>>)
          \/ Presses(<<"buildRecord", "recordStart">>) /\ tool = "Record"
      BY <1>1, <1>7 DEF Play
    <2>2. CASE Presses(<<"Play">>) /\ tool = "Capture"
      BY <1>1, <1>3, <1>5, <1>7, <2>2
    <2>3. CASE Presses(<<"recordStart">>)
      BY <1>3, <1>5, <1>6, <2>3
    <2>4. CASE Presses(<<"buildRecord", "recordStart">>) /\ tool = "Record"
      BY <1>4, <1>5, <1>6, <2>4
    <2> QED
      BY <1>2, <2>1, <2>2, <2>3, <2>4
  <1>8. CASE Pause
    <2>1. \/ Presses(<<"Pause">>) /\ tool = "Capture"
          \/ Presses(<<"recordStart">>) \/ Presses(<<"recordStop">>)
          \/ Presses(<<"buildRecord">>) /\ tool = "Record"
      BY <1>1, <1>8 DEF Pause
    <2>2. CASE Presses(<<"Pause">>) /\ tool = "Capture"
      BY <1>1, <1>3, <1>5, <1>8, <2>2
    <2>3. CASE Presses(<<"recordStart">>) \/ Presses(<<"recordStop">>)
      BY <1>3, <1>5, <1>6, <2>3
    <2>4. CASE Presses(<<"buildRecord">>) /\ tool = "Record"
      BY <1>3, <1>5, <1>6, <2>4
    <2> QED
      BY <2>1, <2>2, <2>3, <2>4
  <1>9. CASE Stop
    <2>1. CASE tool = "Record"
      <3>1. Presses(<<"init">>)
        BY <1>9, <2>1 DEF Stop
      <3> QED
        BY <1>3, <1>5, <1>6, <3>1
    <2>2. CASE tool = "Capture" /\ shown.state = "Capturing"
      <3>1. Presses(<<"captureStop", "Stop">>)
        BY <1>9, <2>2 DEF Stop
      <3>2. shown.can /\ "Stop" \in Steps
        BY <1>1, <1>5, <1>9, <2>2
      <3> QED
        BY <1>4, <1>5, <1>6, <3>1, <3>2
    <2>3. CASE tool = "Capture" /\ shown.state # "Capturing"
      <3>1. Presses(<<"Stop">>)
        BY <1>9, <2>3 DEF Stop
      <3>2. shown.can
        BY <1>1, <1>9, <2>3
      <3> QED
        BY <1>3, <1>5, <3>1, <3>2
    <2> QED
      BY <1>1, <2>1, <2>2, <2>3
  <1>10. CASE Wind
    <2>1. /\ Presses(<<"FastForward">>) \/ Presses(<<"Rewind">>)
          /\ shown.can
      BY <1>10 DEF Wind, CanWind
    <2> QED
      BY <1>3, <1>5, <2>1
  <1>11. CASE Rec
    <2>1. \/ Presses(<<"captureStop">>) \/ Presses(<<"start">>)
          \/ Presses(<<"buildCapture", "start">>) /\ tool = "Capture"
      BY <1>1, <1>11 DEF Rec
    <2> QED
      BY <1>3, <1>4, <1>5, <1>6, <2>1
  <1> QED
    BY <1>7, <1>8, <1>9, <1>10, <1>11

\* Another tool: a set-up waits for it.
LEMMA ChangeToolKeeps == IInv /\ ChangeTool => IInv'
  <1> SUFFICES ASSUME IInv, ChangeTool PROVE IInv'
    OBVIOUS
  <1> USE DEF IInv
  <1>1. /\ todo' = Append(todo, "init") /\ quiet' = FALSE
        /\ tool' \in {"Capture", "Record"}
        /\ UNCHANGED <<deck, transport, ordered, port, state, DVctrl, steady,
                       published, shown, deckControl, call, request, window>>
    BY DEF ChangeTool, device, engine
  <1>2. /\ todo' \in Seq(Steps) /\ todo' # <<>>
        /\ Shape(todo)' /\ ~NoInit(todo')
        /\ todo # <<>> => Head(todo') = Head(todo)
        /\ todo = <<>> => Head(todo') = "init"
    BY <1>1, Chosen DEF TypeOK, TodoInv, Shape
  <1>3. TypeOK'
    BY <1>1, <1>2 DEF TypeOK
  <1>4. TodoInv'
    BY <1>1, <1>2 DEF TodoInv, First
  <1>5. CallInv'
    BY <1>1, <1>2 DEF CallInv, TodoInv, First, Builds
  <1>6. TapeInv'
    BY <1>1, <1>2 DEF TapeInv, Follows, Undone, TakenDown
  <1>7. SettledInv' /\ SeenInv'
    BY <1>2 DEF SettledInv, SeenInv, SetUp, Settled
  <1>8. QuietInv'
    BY <1>1 DEF QuietInv
  <1> QED
    BY <1>3, <1>4, <1>5, <1>6, <1>7, <1>8

\* The setting is changed where the engine stands.
LEMMA ApplySettingsKeeps == IInv /\ ApplySettings => IInv'
  <1> SUFFICES ASSUME IInv, ApplySettings PROVE IInv'
    OBVIOUS
  <1> USE DEF IInv
  <1>1. /\ window = "open"
        /\ UNCHANGED <<deck, transport, ordered, port, state, published, shown,
                       tool, todo, call, request, window, quiet>>
    BY DEF ApplySettings, device, closing
  <1>2. deckControl' \in BOOLEAN /\ DVctrl' \in BOOLEAN /\ steady' \in BOOLEAN
    BY Zenon DEF ApplySettings, ApplyOptions
  <1>3. DVctrl' <=> tool = "Record" /\ deckControl'
    BY Zenon DEF ApplySettings, ApplyOptions
  <1>4. steady' => steady /\ (port = "none" \/ DVctrl' = DVctrl)
    BY Zenon DEF ApplySettings, ApplyOptions
  <1>5. TypeOK'
    BY <1>1 DEF TypeOK
  <1>6. TodoInv'
    BY <1>1, Zenon DEF TodoInv, First
  <1>7. CallInv'
    BY <1>1, <1>2 DEF CallInv, First
  <1>8. TapeInv'
    BY <1>1, <1>4 DEF TapeInv, Follows, Undone, TakenDown
  <1>9. SettledInv'
    BY <1>1, <1>3 DEF SettledInv, SetUp, Settled, First, Right
  <1>10. SeenInv'
    BY <1>1 DEF SeenInv, SetUp, Settled, First
  <1>11. QuietInv'
    BY <1>1 DEF QuietInv
  <1> QED
    BY <1>5, <1>6, <1>7, <1>8, <1>9, <1>10, <1>11

\* A key of the camcorder; a worker that ends; the published and the shown
\* status.
LEMMA DeckKeyKeeps == IInv /\ DeckKey => IInv'
  <1> SUFFICES ASSUME IInv, DeckKey PROVE IInv'
    OBVIOUS
  <1> USE DEF IInv
  <1>1. /\ UNCHANGED <<transport, port, state, DVctrl, steady, published,
                       shown, tool, deckControl, todo, call, request, window,
                       quiet>>
        /\ ordered' = OwnWay /\ deck' \in Nat
    BY CodesTyped DEF DeckKey, engine, ui, closing
  <1>2. TypeOK'
    BY <1>1 DEF TypeOK, OwnWay
  <1>3. TodoInv' /\ CallInv'
    BY <1>1 DEF TodoInv, CallInv, First
  <1>4. TapeInv'
    BY <1>1 DEF TapeInv, Follows, Undone, TakenDown
  <1>5. SettledInv' /\ SeenInv'
    BY <1>1 DEF SettledInv, SeenInv, SetUp, Settled, First, Right
  <1>6. QuietInv'
    BY <1>1 DEF QuietInv, Stopped
  <1> QED
    BY <1>2, <1>3, <1>4, <1>5, <1>6

\* The end of a recording.
LEMMA FinishKeeps == IInv /\ Finish => IInv'
  <1> SUFFICES ASSUME IInv, Finish PROVE IInv'
    OBVIOUS
  <1> USE DEF IInv
  <1>1. /\ UNCHANGED <<deck, transport, ordered, port, DVctrl, steady,
                       published, shown, tool, deckControl, todo, call,
                       request, window, quiet>>
        /\ state \in {"Capturing", "Recording"} /\ state' = "Finished"
    BY DEF Finish, device, ui, closing
  <1>2. TypeOK'
    <2>1. port \in {"none", "input", "output"}
      BY DEF CallInv
    <2>2. port \in {"input", "output"}
      BY <1>1, <2>1 DEF TypeOK
    <2> QED
      BY <1>1, <2>2 DEF TypeOK, Live
  <1>3. TodoInv' /\ CallInv'
    BY <1>1 DEF TodoInv, CallInv, First
  <1>4. TapeInv'
    <2>1. port = "output" => state = "Recording"
      BY <1>1 DEF TypeOK
    <2> QED
      BY <1>1, <2>1 DEF TapeInv, Follows, Undone, TakenDown
  <1>5. SettledInv' /\ SeenInv'
    BY <1>1 DEF SettledInv, SeenInv, SetUp, Settled, First, Right
  <1>6. QuietInv'
    BY <1>1 DEF QuietInv, Stopped
  <1> QED
    BY <1>2, <1>3, <1>4, <1>5, <1>6

\* The status is published by the worker and shown by the timer.
LEMMA StatusKeeps == IInv /\ (Tick \/ Poll) => IInv'
  <1> SUFFICES ASSUME IInv, Tick \/ Poll PROVE IInv'
    OBVIOUS
  <1> USE DEF IInv
  <1>1. /\ UNCHANGED <<deck, transport, ordered, port, state, DVctrl, steady,
                       tool, deckControl, todo, call, request, window, quiet>>
        /\ \/ /\ published' = [mode |-> ModeNow, can |-> Controls]
              /\ shown' = shown
           \/ /\ shown' = [state |-> state, mode |-> published.mode,
                           can |-> published.can]
              /\ published' = published
    BY DEF Tick, Poll, UpdateStatus, device, engine, ui, closing
  <1>2. /\ ModeNow \in DeckModes /\ Controls \in BOOLEAN
        /\ Controls <=> port # "none" /\ transport
    BY ModeTyped DEF ModeNow, Controls, DeckModes
  <1>3. state \in States
    BY DEF TypeOK, CallInv, States, Live
  <1>4. TypeOK'
    <2>1. [mode |-> ModeNow, can |-> Controls]
            \in [mode : DeckModes, can : BOOLEAN]
      BY <1>2
    <2>2. [state |-> state, mode |-> published.mode, can |-> published.can]
            \in [state : States, mode : DeckModes, can : BOOLEAN]
      BY <1>3 DEF TypeOK
    <2>3. /\ published' \in [mode : DeckModes, can : BOOLEAN]
          /\ shown' \in [state : States, mode : DeckModes, can : BOOLEAN]
      BY <1>1, <2>1, <2>2, Zenon DEF TypeOK
    <2> QED
      BY <1>1, <2>3 DEF TypeOK
  <1>5. TodoInv' /\ CallInv'
    BY <1>1 DEF TodoInv, CallInv, First
  <1>6. TapeInv'
    BY <1>1 DEF TapeInv, Follows, Undone, TakenDown
  <1>7. SettledInv'
    BY <1>1 DEF SettledInv, SetUp, Settled, First, Right
  <1>8. SeenInv'
    <2>1. CASE published' = [mode |-> ModeNow, can |-> Controls]
               /\ shown' = shown
      <3>1. published'.can <=> port # "none" /\ transport
        BY <1>2, <2>1
      <3> QED
        BY <1>1, <2>1, <3>1 DEF SeenInv, SetUp, Settled, First
    <2>2. CASE shown' = [state |-> state, mode |-> published.mode,
                         can |-> published.can]
               /\ published' = published
      <3>1. shown'.can = published.can /\ published' = published
        BY <2>2
      <3> QED
        BY <1>1, <3>1 DEF SeenInv, SetUp, Settled, First
    <2> QED
      BY <1>1, <2>1, <2>2
  <1>9. QuietInv'
    BY <1>1 DEF QuietInv, Stopped
  <1> QED
    BY <1>4, <1>5, <1>6, <1>7, <1>8, <1>9

-----------------------------------------------------------------------------
(* Between the calls                                                        *)

\* The tape is started first if the published status allows it.
LEMMA DecideKeeps == IInv /\ Decide => IInv'
  <1> SUFFICES ASSUME IInv, Decide PROVE IInv'
    OBVIOUS
  <1> USE DEF IInv
  <1>1. /\ UNCHANGED <<deck, transport, ordered, port, state, DVctrl, steady,
                       published, shown, tool, deckControl, call, request,
                       window, quiet>>
        /\ todo # <<>> /\ Head(todo) = "start" /\ todo \in Seq(Steps)
        /\ Shape(todo)
    BY DEF Decide, device, engine, ui, closing, TypeOK, TodoInv
  <1>2. call = "no"
    BY <1>1 DEF TodoInv, First
  <1>3. PICK steps \in {<<"captureStart">>, <<"Play", "captureStart">>} :
          /\ todo' = steps \o Tail(todo)
          /\ steps = <<"Play", "captureStart">> => published.can
    BY DEF Decide
  <1>4. /\ steps \in Seq(Steps) /\ Shape(steps) /\ Len(steps) \in {1, 2}
        /\ Head(steps) \in {"captureStart", "Play"}
        /\ ~NoButton(steps) => published.can
    <2>1. /\ "captureStart" \in Steps /\ "captureStart" \notin Buttons
          /\ "Play" \in Steps /\ <<"Play", "captureStart">> \in Pairs
      BY DEF Steps, Buttons, Pairs
    <2>2. CASE steps = <<"captureStart">>
      <3>1. Len(steps) = 1
        BY <2>2
      <3> QED
        BY <2>1, <2>2, <3>1, OneStep
    <2>3. CASE steps = <<"Play", "captureStart">>
      <3>1. Len(steps) = 2
        BY <2>3
      <3> QED
        BY <1>3, <2>1, <2>3, <3>1, TwoSteps
    <2> QED
      BY <1>3, <2>2, <2>3
  <1>5. /\ Tail(todo) \in Seq(Steps)
        /\ \A i \in 1..Len(Tail(todo)) : Tail(todo)[i] = "init"
        /\ NoInit(Tail(todo)) => NoInit(todo)
    BY <1>1, Done, OnlyInits
  <1>6. /\ todo' \in Seq(Steps) /\ todo' # <<>> /\ Shape(todo')
        /\ Head(todo') \in {"captureStart", "Play"}
        /\ NoInit(todo') => NoInit(todo)
        /\ ~NoButton(todo') => published.can
    BY <1>3, <1>4, <1>5, Before
  <1>7. TypeOK'
    BY <1>1, <1>6 DEF TypeOK
  <1>8. TodoInv'
    BY <1>1, <1>2, <1>6 DEF TodoInv, First, Shape
  <1>9. CallInv'
    BY <1>1, <1>2, <1>6 DEF CallInv
  <1>10. TapeInv'
    BY <1>1, <1>2, <1>6 DEF TapeInv, Follows, Undone, TakenDown
  <1>11. SettledInv'
    BY <1>1, <1>2, <1>6 DEF SettledInv, SetUp, Settled, First, Right, Builds
  <1>12. SeenInv'
    BY <1>1, <1>2, <1>6 DEF SeenInv, SetUp, Settled, First
  <1>13. QuietInv'
    BY <1>1 DEF QuietInv
  <1> QED
    BY <1>7, <1>8, <1>9, <1>10, <1>11, <1>12, <1>13

\* A call is handed over: a set-up decides what it is, options go ahead.
LEMMA AskKeeps == IInv /\ Ask => IInv'
  <1> SUFFICES ASSUME IInv, Ask PROVE IInv'
    OBVIOUS
  <1> USE DEF IInv
  <1> DEFINE does == IF Head(todo) # "init" THEN Head(todo)
                     ELSE IF tool = "Capture" THEN "connect" ELSE "reset"
  <1>1. /\ UNCHANGED <<deck, transport, ordered, port, state, published,
                       shown, tool, deckControl, request, window, quiet>>
        /\ todo # <<>> /\ Head(todo) # "start" /\ todo \in Seq(Steps)
        /\ call = "no" /\ call' = "asked" /\ Shape(todo)
        /\ todo' = <<does>> \o Tail(todo)
        /\ tool \in {"Capture", "Record"}
    BY DEF Ask, device, ui, closing, TypeOK, TodoInv
  <1>2. /\ DVctrl' \in BOOLEAN /\ steady' \in BOOLEAN
        /\ does \in Builds => (DVctrl' <=> tool = "Record" /\ deckControl)
        /\ does \notin Builds => UNCHANGED <<DVctrl, steady>>
        /\ steady' => steady /\ (port = "none" \/ DVctrl' = DVctrl)
    <2>1. CASE does \in Builds
      <3>1. ApplyOptions(deckControl)
        BY <2>1 DEF Ask, Builds
      <3>2. /\ DVctrl' \in BOOLEAN /\ steady' \in BOOLEAN
            /\ DVctrl' <=> tool = "Record" /\ deckControl
            /\ steady' => steady /\ (port = "none" \/ DVctrl' = DVctrl)
        BY <3>1, Zenon DEF ApplyOptions
      <3> QED
        BY <2>1, <3>2, Zenon
    <2>2. CASE does \notin Builds
      <3>1. UNCHANGED <<DVctrl, steady>>
        BY <2>2 DEF Ask, Builds
      <3> QED
        BY <2>2, <3>1, Zenon DEF CallInv
    <2> QED
      BY <2>1, <2>2, Zenon
  <1>3. /\ todo' \in Seq(Steps) /\ todo' # <<>> /\ Shape(todo')
        /\ Head(todo') = does
        /\ Head(todo) # "init" => todo' = todo
    <2>1. CASE Head(todo) # "init"
      <3>1. todo' = todo
        <4>1. \A list \in Seq(Steps) :
                list # <<>> => <<Head(list)>> \o Tail(list) = list
          <5> HIDE DEF Steps
          <5> QED
            OBVIOUS
        <4> QED
          BY <1>1, <2>1, <4>1
      <3> QED
        BY <1>1, <2>1, <3>1
    <2>2. CASE Head(todo) = "init"
      <3>1. does \in {"connect", "reset"} /\ does \in Steps
        BY <2>2 DEF Steps
      <3>2. /\ <<does>> \in Seq(Steps) /\ Head(<<does>>) = does
            /\ Shape(<<does>>) /\ Len(<<does>>) = 1
        BY <3>1, OneStep
      <3>3. /\ Tail(todo) \in Seq(Steps)
            /\ \A i \in 1..Len(Tail(todo)) : Tail(todo)[i] = "init"
        BY <1>1, <2>2, Done, OnlyInits
      <3> HIDE DEF does
      <3>4. /\ <<does>> \o Tail(todo) \in Seq(Steps)
            /\ <<does>> \o Tail(todo) # <<>>
            /\ Head(<<does>> \o Tail(todo)) = does
            /\ Shape(<<does>> \o Tail(todo))
        BY <3>2, <3>3, Before
      <3> QED
        BY <1>1, <2>2, <3>4
    <2> QED
      BY <2>1, <2>2
  <1>4. /\ does \notin {"init", "start"}
        /\ Head(todo) = "init" =>
             /\ does = "connect" => tool = "Capture"
             /\ does = "reset" => tool = "Record"
             /\ does \in {"connect", "reset"}
        /\ Head(todo) # "init" => does = Head(todo)
        /\ Head(todo) \notin {"connect", "reset"}
    BY <1>1 DEF TodoInv, First
  <1> HIDE DEF does
  <1>5. TypeOK'
    BY <1>1, <1>3 DEF TypeOK
  <1>6. TodoInv'
    BY <1>1, <1>3, <1>4 DEF TodoInv, First, Shape
  <1>7. CallInv'
    BY <1>1, <1>2 DEF CallInv
  <1>8. TapeInv'
    BY <1>1, <1>2, <1>3, <1>4 DEF TapeInv, Follows, Undone, TakenDown
  <1>9. SettledInv'
    <2>1. CASE Head(todo) = "init"
      BY <1>1, <1>2, <1>3, <1>4, <2>1 DEF SettledInv, SetUp, First, Right,
                                          Builds
    <2>2. CASE Head(todo) # "init"
      <3>1. todo' = todo /\ does = Head(todo)
        BY <1>3, <1>4, <2>2
      <3>2. Settled' => Settled /\ SetUp
        BY <1>4, <3>1 DEF Settled, SetUp, First
      <3>3. does \in Builds => Right'
        BY <1>1, <1>2 DEF Right
      <3>4. does \notin Builds => (Right => Right')
        BY <1>1, <1>2 DEF Right
      <3> QED
        BY <1>1, <3>1, <3>2, <3>3, <3>4 DEF SettledInv, First
    <2> QED
      BY <2>1, <2>2
  <1>10. SeenInv'
    <2>1. CASE Head(todo) = "init"
      BY <1>1, <1>3, <1>4, <2>1 DEF SeenInv, SetUp, First
    <2>2. CASE Head(todo) # "init"
      <3>1. todo' = todo
        BY <1>3, <2>2
      <3>2. SetUp' => SetUp
        BY <1>4, <3>1 DEF Settled, SetUp, First
      <3> QED
        BY <1>1, <3>1, <3>2 DEF SeenInv
    <2> QED
      BY <2>1, <2>2
  <1>11. QuietInv'
    BY <1>1 DEF QuietInv
  <1> QED
    BY <1>5, <1>6, <1>7, <1>8, <1>9, <1>10, <1>11

\* The call is answered.
LEMMA ContinueKeeps == IInv /\ Continue => IInv'
  <1> SUFFICES ASSUME IInv, Continue PROVE IInv'
    OBVIOUS
  <1> USE DEF IInv
  <1>1. /\ UNCHANGED <<deck, transport, ordered, port, state, DVctrl, steady,
                       published, tool, deckControl, request, window, quiet>>
        /\ call \in {"done", "failed"} /\ call' = "no"
        /\ todo' = IF call = "failed" /\ Head(todo) # "connect"
                     THEN <<"init">> ELSE Tail(todo)
        /\ IF todo' = <<>> THEN UpdateStatus ELSE UNCHANGED shown
    BY DEF Continue, device, engine, closing
  <1>2. /\ todo # <<>> /\ Head(todo) \notin {"init", "start"}
        /\ Shape(todo) /\ todo \in Seq(Steps) /\ request = <<>>
        /\ call = "done" /\ Head(todo) = "reset" => port = "none"
    BY <1>1 DEF TodoInv, CallInv, TypeOK, First
  <1>3. state \in States
    BY DEF TypeOK, CallInv, States, Live
  <1>4. shown' \in [state : States, mode : DeckModes, can : BOOLEAN]
    <2>1. [state |-> state, mode |-> published.mode, can |-> published.can]
            \in [state : States, mode : DeckModes, can : BOOLEAN]
      BY <1>3 DEF TypeOK
    <2> QED
      BY <1>1, <2>1, Zenon DEF TypeOK, UpdateStatus
  <1>5. todo' = <<>> => shown'.can = published.can
    BY <1>1 DEF UpdateStatus
  <1>6. CASE todo' = <<"init">>
    <2>1. /\ todo' \in Seq(Steps) /\ todo' # <<>> /\ Head(todo') = "init"
          /\ Shape(todo') /\ ~NoInit(todo')
      BY <1>6, OneStep DEF Steps
    <2>2. TypeOK'
      BY <1>1, <1>4, <2>1 DEF TypeOK
    <2>3. TodoInv'
      BY <1>1, <2>1 DEF TodoInv, First, Shape
    <2>4. CallInv'
      BY <1>1, <1>2 DEF CallInv
    <2>5. TapeInv'
      BY <1>1, <2>1 DEF TapeInv, Follows, Undone, TakenDown
    <2>6. SettledInv' /\ SeenInv'
      BY <2>1 DEF SettledInv, SeenInv, SetUp, Settled
    <2>7. QuietInv'
      BY <1>1, <1>2 DEF QuietInv
    <2> QED
      BY <2>2, <2>3, <2>4, <2>5, <2>6, <2>7
  <1>7. CASE todo' = Tail(todo)
    <2>1. /\ todo' \in Seq(Steps) /\ Shape(todo')
          /\ NoInit(todo') => NoInit(todo)
          /\ NoButton(todo) => NoButton(todo')
          /\ todo' # <<>> =>
               \/ Head(todo') = "init"
               \/ Head(todo') \in {"Stop", "captureStart", "start",
                                   "recordStart"}
          /\ NoInit(todo') /\ todo' # <<>> => Head(todo') # "init"
      <3>1. /\ todo' \in Seq(Steps) /\ Shape(todo')
            /\ NoInit(todo') => NoInit(todo)
            /\ NoButton(todo) => NoButton(todo')
            /\ NoInit(todo') /\ todo' # <<>> =>
                 <<Head(todo), Head(todo')>> \in Pairs
            /\ todo' # <<>> =>
                 \/ Head(todo') = "init"
                 \/ <<Head(todo), Head(todo')>> \in Pairs
        BY <1>2, <1>7, Done
      <3>2. \A x, y : <<x, y>> \in Pairs =>
              y \in {"Stop", "captureStart", "start", "recordStart"}
        BY DEF Pairs
      <3> QED
        BY <3>1, <3>2
    <2>2. Settled' => Settled /\ SetUp /\ SetUp'
      BY <1>1, <2>1 DEF Settled, SetUp, First
    <2>3. TypeOK'
      BY <1>1, <1>4, <2>1 DEF TypeOK
    <2>4. TodoInv'
      BY <1>1, <2>1 DEF TodoInv, First, Shape
    <2>5. CallInv'
      BY <1>1, <1>2 DEF CallInv
    <2>6. TapeInv'
      BY <1>1, <1>2 DEF TapeInv, Follows, Undone, TakenDown
    <2>7. SettledInv'
      BY <1>1, <2>1, <2>2 DEF SettledInv, First, Right
    <2>8. SeenInv'
      <3>1. SetUp' => SetUp
        BY <2>2 DEF SetUp
      <3> QED
        BY <1>1, <1>2, <1>5, <2>1, <3>1 DEF SeenInv
    <2>9. QuietInv'
      BY <1>1, <1>2 DEF QuietInv
    <2> QED
      BY <2>3, <2>4, <2>5, <2>6, <2>7, <2>8, <2>9
  <1> QED
    BY <1>1, <1>6, <1>7

-----------------------------------------------------------------------------
(* The window closes                                                        *)

\* What was told to the deck and may stop it yet is known here.
LEMMA ShutdownKeeps == IInv /\ ShutdownAsync => IInv'
  <1> SUFFICES ASSUME IInv, ShutdownAsync PROVE IInv'
    OBVIOUS
  <1> USE DEF IInv
  <1>1. /\ UNCHANGED <<deck, transport, ordered, port, state, DVctrl, steady,
                       published, shown, tool, deckControl, todo, call,
                       request>>
        /\ window' = IF tool = "Capture" /\ shown.can /\ deckControl
                       THEN "stopping" ELSE "stopped"
    BY DEF ShutdownAsync, device, engine, ui
  <1>2. quiet' \in BOOLEAN
    BY Zenon DEF ShutdownAsync
  <1>3. quiet' => todo = <<>> /\ port # "none" /\ deckControl
    BY Zenon DEF ShutdownAsync
  <1>4. TypeOK'
    BY <1>1 DEF TypeOK
  <1>5. TodoInv' /\ CallInv'
    BY <1>1, <1>2 DEF TodoInv, CallInv, First
  <1>6. TapeInv'
    BY <1>1 DEF TapeInv, Follows, Undone, TakenDown
  <1>7. SettledInv' /\ SeenInv'
    BY <1>1 DEF SettledInv, SeenInv, SetUp, Settled, First, Right
  <1>8. QuietInv'
    <2> SUFFICES ASSUME quiet' PROVE QuietInv'
      BY DEF QuietInv
    <2>1. todo = <<>> /\ SetUp /\ Settled
      BY <1>3 DEF SetUp, Settled, NoInit, First
    <2>2. /\ port = IF tool = "Capture" THEN "input" ELSE "output"
          /\ DVctrl <=> tool = "Record" /\ deckControl
      BY <1>3, <2>1 DEF SettledInv, Right
    <2>3. CASE tool = "Capture"
      <3>1. ~shown.can => Stopped
        BY <2>1, <2>2, <2>3 DEF SeenInv, CallInv, Stopped
      <3>2. window' = "stopping" \/ (window' = "stopped" /\ Stopped)
        BY <1>1, <1>3, <2>3, <3>1
      <3> QED
        BY <1>1, <2>1, <2>2, <2>3, <3>2 DEF QuietInv, Stopped
    <2>4. CASE tool # "Capture"
      <3>1. tool = "Record" /\ DVctrl /\ port = "output"
        BY <1>3, <2>2, <2>4 DEF TypeOK
      <3> QED
        BY <1>1, <2>1, <3>1 DEF QuietInv
    <2> QED
      BY <2>3, <2>4
  <1> QED
    BY <1>4, <1>5, <1>6, <1>7, <1>8

\* ShutdownAsync's Stop reaches a deck that is not stopped.
LEMMA ShutdownStopKeeps == IInv /\ ShutdownStop => IInv'
  <1> SUFFICES ASSUME IInv, ShutdownStop PROVE IInv'
    OBVIOUS
  <1> USE DEF IInv
  <1> DEFINE modes == IF port = "input" /\ transport
                        THEN ResolveDeckCommand("Stop", ToDeckMode(deck))
                        ELSE <<>>
  <1>1. /\ UNCHANGED <<transport, port, state, DVctrl, steady, published,
                       shown, tool, deckControl, todo, call, request, quiet>>
        /\ window = "stopping" /\ window' = "stopped" /\ call # "half"
        /\ Send(modes)
    BY DEF ShutdownStop, engine, ui
  <1>2. /\ modes \in {<<>>, <<STOP>>}
        /\ modes = <<STOP>> => port = "input" /\ transport
        /\ port = "input" /\ transport /\ modes = <<>> => deck = STOP
    <2>1. CASE port = "input" /\ transport
      <3>1. \/ ToDeckMode(deck) = "Stopped" /\ modes = <<>>
            \/ modes = <<STOP>>
        BY <2>1 DEF ResolveDeckCommand
      <3>2. ToDeckMode(deck) = "Stopped" => deck = STOP
        BY StoppedIsStop DEF TypeOK
      <3>3. <<STOP>> # <<>>
        OBVIOUS
      <3> QED
        BY <2>1, <3>1, <3>2, <3>3
    <2>2. CASE ~(port = "input" /\ transport)
      <3>1. <<STOP>> # <<>>
        OBVIOUS
      <3> QED
        BY <2>2, <3>1
    <2> QED
      BY <2>1, <2>2
  <1> HIDE DEF modes
  <1>3. /\ deck' \in Nat
        /\ modes = <<>> => deck' = deck /\ ordered' = ordered
        /\ modes = <<STOP>> => deck' = STOP /\ ordered' = STOP
    <2>1. modes \in Requests
      BY <1>2, RequestTyped DEF Modes
    <2>2. /\ Len(<<STOP>>) = 1 /\ <<STOP>>[1] = STOP /\ <<STOP>> # <<>>
      OBVIOUS
    <2> QED
      BY <1>1, <2>1, <2>2, Sending DEF TypeOK
  <1>4. STOP \in Nat
    BY DEF STOP
  <1>5. TypeOK'
    BY <1>1, <1>2, <1>3, <1>4 DEF TypeOK
  <1>6. TodoInv'
    BY <1>1 DEF TodoInv, First
  <1>7. CallInv'
    BY <1>1, <1>2, <1>3 DEF CallInv, First
  <1>8. TapeInv'
    BY <1>1, <1>2, <1>3 DEF TapeInv, Follows, Undone, TakenDown
  <1>9. SettledInv'
    BY <1>1 DEF SettledInv, SetUp, Settled, First, Right
  <1>10. SeenInv'
    BY <1>1, <1>2, <1>3 DEF SeenInv, SetUp, Settled, First
  <1>11. QuietInv'
    <2> SUFFICES ASSUME quiet PROVE QuietInv'
      BY <1>1 DEF QuietInv
    <2>1. todo = <<>> /\ port = "input"
      BY <1>1 DEF QuietInv
    <2>2. Stopped'
      BY <1>1, <1>2, <1>3, <2>1 DEF Stopped, CallInv
    <2> QED
      BY <1>1, <2>1, <2>2 DEF QuietInv
  <1> QED
    BY <1>5, <1>6, <1>7, <1>8, <1>9, <1>10, <1>11

\* The pipeline is destroyed: a deck it drives is stopped.
LEMMA Destroying ==
    ASSUME TypeOK, CallInv, Send(DestroyModes), UNCHANGED transport
    PROVE  /\ deck' \in Nat /\ ordered' \in Nat
           /\ ~transport => ordered' = ordered
           /\ DVctrl /\ port # "none" /\ transport => deck' = STOP
           /\ \/ deck' = deck /\ ordered' = ordered
              \/ deck' = STOP
  <1>1. /\ DestroyModes \in {<<>>, <<STOP>>}
        /\ DVctrl /\ port # "none" /\ transport <=> DestroyModes = <<STOP>>
    <2>1. <<STOP>> # <<>>
      OBVIOUS
    <2> QED
      BY <2>1 DEF DestroyModes, If
  <1>2. /\ <<STOP>> \in Requests /\ <<>> \in Requests
        /\ Len(<<STOP>>) = 1 /\ <<STOP>>[1] = STOP /\ <<STOP>> # <<>>
    BY RequestTyped DEF Modes
  <1>3. /\ deck' \in Nat
        /\ DestroyModes = <<>> => deck' = deck /\ ordered' = ordered
        /\ DestroyModes = <<STOP>> => deck' = STOP /\ ordered' = STOP
    BY <1>1, <1>2, Sending DEF TypeOK
  <1>4. STOP \in Nat /\ ordered \in Nat
    BY DEF STOP, TypeOK
  <1> QED
    BY <1>1, <1>3, <1>4

\* Detach and Dispose.
LEMMA ClosedKeeps == IInv /\ Closed => IInv'
  <1> SUFFICES ASSUME IInv, Closed PROVE IInv'
    OBVIOUS
  <1> USE DEF IInv
  <1>1. /\ UNCHANGED <<transport, DVctrl, steady, published, shown, tool,
                       deckControl, todo, call, request, quiet>>
        /\ window = "stopped" /\ window' = "closed" /\ call # "half"
        /\ Send(DestroyModes) /\ port' = "none" /\ state' = "Idle"
    BY DEF Closed, ui
  <1>2. /\ deck' \in Nat /\ ordered' \in Nat
        /\ ~transport => ordered' = ordered
        /\ DVctrl /\ port # "none" /\ transport => deck' = STOP
        /\ \/ deck' = deck /\ ordered' = ordered
           \/ deck' = STOP
    BY <1>1, Destroying
  <1>3. request = <<>>
    BY <1>1 DEF CallInv
  <1>4. TypeOK'
    BY <1>1, <1>2 DEF TypeOK
  <1>5. TodoInv'
    BY <1>1 DEF TodoInv, First
  <1>6. CallInv'
    BY <1>1, <1>2, <1>3 DEF CallInv, First
  <1>7. TapeInv' /\ SeenInv'
    BY <1>1 DEF TapeInv, SeenInv
  <1>8. SettledInv'
    BY <1>1 DEF SettledInv, SetUp, Settled, First, Right
  <1>9. QuietInv'
    <2> SUFFICES ASSUME quiet PROVE QuietInv'
      BY <1>1 DEF QuietInv
    <2>1. /\ todo = <<>>
          /\ Stopped \/ (port = "output" /\ DVctrl)
      BY <1>1 DEF QuietInv
    <2>2. Stopped'
      BY <1>2, <2>1 DEF Stopped, CallInv
    <2> QED
      BY <1>1, <2>1, <2>2 DEF QuietInv
  <1> QED
    BY <1>4, <1>5, <1>6, <1>7, <1>8, <1>9

-----------------------------------------------------------------------------
(* The engine thread                                                        *)

\* The first half of a call that leaves the pipeline built: the state is
\* exchanged, and the deck is to be told what follows from it.
LEMMA HalfKeeps ==
    ASSUME IInv, todo # <<>>, call = "asked", call' \in {"half", "failed"},
           Head(todo) \notin Builds \cup {"reset"},
           request' \in Requests,
           request' # <<>> => call' = "half" /\ port # "none" /\ transport,
           request' # <<>> /\ port = "input" /\ SetUp => published.can,
           port = "output" /\ DVctrl /\ transport =>
               \/ request' = <<>> /\ state' = state
               \/ request' = <<RECORD_FREEZE>> /\ state' = "RecordPaused"
               \/ request' = <<RECORD>> /\ state' = "Recording",
           port = "none" => state' = "Idle",
           port = "input" => state' \in Live \cup {"Idle"},
           port = "output" => state' \in {"Idle", "RecordPaused",
                                          "Recording", "Finished"},
           UNCHANGED <<device, port, DVctrl, steady, published, ui, todo,
                       closing>>
    PROVE  IInv'
  <1> USE DEF IInv
  <1>1. UNCHANGED <<deck, transport, ordered, port, DVctrl, steady, published,
                    shown, tool, deckControl, todo, window, quiet>>
    BY DEF device, ui, closing
  <1>2. request = <<>>
    BY DEF CallInv
  <1>3. TypeOK'
    <2>1. request' \in Seq(Nat) /\ Len(request') <= 2
      BY RequestTyped
    <2>2. port \in {"none", "input", "output"}
      BY DEF CallInv
    <2> QED
      BY <1>1, <2>1, <2>2 DEF TypeOK
  <1>4. TodoInv'
    BY <1>1 DEF TodoInv, First
  <1>5. CallInv'
    BY <1>1 DEF CallInv, First, Builds
  <1>6. TapeInv'
    BY <1>1, <1>2 DEF TapeInv, Follows, Undone, TakenDown, TodoInv, First,
                       Builds
  <1>7. SettledInv'
    BY <1>1 DEF SettledInv, SetUp, Settled, First, Right, Builds
  <1>8. SeenInv'
    <2>1. SetUp' => SetUp
      BY <1>1 DEF SetUp, Settled, First, Builds
    <2> QED
      BY <1>1, <2>1 DEF SeenInv
  <1>9. QuietInv'
    BY <1>1 DEF QuietInv
  <1> QED
    BY <1>3, <1>4, <1>5, <1>6, <1>7, <1>8, <1>9

\* The state is of its port.
LEMMA StateOfPort ==
    IInv => /\ port \in {"none", "input", "output"}
            /\ port = "none" => state = "Idle"
            /\ port = "input" => state \in Live \cup {"Idle"}
            /\ port = "output" => state \in {"Idle", "RecordPaused",
                                             "Recording", "Finished"}
            /\ SetUp /\ port = "input" => ~DVctrl
  BY DEF IInv, TypeOK, CallInv, SettledInv, Right, SetUp

\* A button of the deck.
LEMMA CommandKeeps ==
    ASSUME IInv, NEW b \in Buttons, Command(b)
    PROVE  IInv'
  <1> DEFINE modes == IF port = "input" /\ transport
                        THEN ResolveDeckCommand(b, ToDeckMode(deck))
                        ELSE <<>>
  <1>1. /\ todo # <<>> /\ Head(todo) = b /\ call = "asked" /\ call' = "half"
        /\ request' = modes /\ state' = state
        /\ UNCHANGED <<device, port, DVctrl, steady, published, ui, todo,
                       closing>>
    BY DEF Command, Asked, Served, Rests, engine
  <1>2. modes \in Requests /\ (modes # <<>> => port = "input" /\ transport)
    BY ModeTyped, ResolveTyped, RequestTyped
  <1>3. b \notin Builds \cup {"reset"}
    BY DEF Builds, Buttons
  <1>4. port = "input" /\ SetUp /\ transport => published.can
    <2>1. ~NoButton(todo)
      <3>1. 1 \in 1..Len(todo) /\ todo[1] = b
        <4>1. todo \in Seq(Steps)
          BY DEF IInv, TypeOK
        <4> QED
          BY <1>1, <4>1
      <3> QED
        BY <3>1 DEF NoButton
    <2> QED
      BY <2>1 DEF IInv, SeenInv
  <1> HIDE DEF modes
  <1> QED
    BY <1>1, <1>2, <1>3, <1>4, StateOfPort, HalfKeeps

\* The calls that exchange the state.
LEMMA ExchangeKeeps ==
    ASSUME IInv,
           StopCapturing \/ StartCapturing \/ StopRecording \/ StartRecording
    PROVE  IInv'
  <1>1. /\ <<PLAY, FREEZE>> \in Requests /\ <<PLAY>> \in Requests
        /\ <<RECORD>> \in Requests /\ <<RECORD_FREEZE>> \in Requests
        /\ <<>> \in Requests
    BY RequestTyped DEF Requests, Modes
  <1>2. CASE StopCapturing
    <2>1. /\ todo # <<>> /\ Head(todo) = "captureStop" /\ call = "asked"
          /\ call' = "half"
          /\ UNCHANGED <<device, port, DVctrl, steady, published, ui, todo,
                         closing>>
      BY <1>2 DEF StopCapturing, Exchange, Asked, Served, Rests
    <2>2. /\ state' = IF state = "Capturing" THEN "CapturePaused" ELSE state
          /\ request' = IF state = "Capturing" /\ DVctrl /\ transport
                          THEN <<PLAY, FREEZE>> ELSE <<>>
      BY <1>2 DEF StopCapturing, Exchange, Served
    <2>3. Head(todo) \notin Builds \cup {"reset"}
      BY <2>1 DEF Builds
    <2>4. request' \in Requests
      BY <1>1, <2>2
    <2>5. request' # <<>> => state = "Capturing" /\ DVctrl /\ transport
      BY <2>2
    <2>6. /\ port = "none" => state' = "Idle"
          /\ port = "input" => state' \in Live \cup {"Idle"}
          /\ port = "output" => state' = state /\ request' = <<>>
      BY <2>2, StateOfPort DEF Live
    <2>7. request' # <<>> => port = "input"
      BY <2>5, StateOfPort
    <2> QED
      BY <2>1, <2>3, <2>4, <2>5, <2>6, <2>7, StateOfPort, HalfKeeps
  <1>3. CASE StartCapturing
    <2>1. /\ todo # <<>> /\ Head(todo) = "captureStart" /\ call = "asked"
          /\ call' \in {"half", "failed"}
          /\ UNCHANGED <<device, port, DVctrl, steady, published, ui, todo,
                         closing>>
      BY <1>3 DEF StartCapturing, Asked, Served, Rests
    <2>2. \/ /\ state = "CapturePaused" /\ state' = "Capturing"
             /\ call' = "half"
             /\ request' = IF DVctrl /\ transport THEN <<PLAY>> ELSE <<>>
          \/ state' = state /\ request' = <<>>
      BY <1>3 DEF StartCapturing, Served, If
    <2>3. Head(todo) \notin Builds \cup {"reset"}
      BY <2>1 DEF Builds
    <2>4. request' \in Requests
      BY <1>1, <2>2
    <2>5. request' # <<>> =>
            state = "CapturePaused" /\ DVctrl /\ transport /\ call' = "half"
      BY <2>2
    <2>6. /\ port = "none" => state' = "Idle"
          /\ port = "input" => state' \in Live \cup {"Idle"}
          /\ port = "output" => state' = state /\ request' = <<>>
      BY <2>2, StateOfPort DEF Live
    <2>7. request' # <<>> => port = "input"
      BY <2>5, StateOfPort
    <2> QED
      BY <2>1, <2>3, <2>4, <2>5, <2>6, <2>7, StateOfPort, HalfKeeps
  <1>4. CASE StopRecording
    <2>1. /\ todo # <<>> /\ Head(todo) = "recordStop" /\ call = "asked"
          /\ call' = "half"
          /\ UNCHANGED <<device, port, DVctrl, steady, published, ui, todo,
                         closing>>
      BY <1>4 DEF StopRecording, Exchange, Asked, Served, Rests
    <2>2. /\ state' = IF state = "Recording" THEN "RecordPaused" ELSE state
          /\ request' = IF state = "Recording" /\ DVctrl /\ transport
                          THEN <<RECORD_FREEZE>> ELSE <<>>
      BY <1>4 DEF StopRecording, Exchange, Served
    <2>3. Head(todo) \notin Builds \cup {"reset"}
      BY <2>1 DEF Builds
    <2>4. request' \in Requests
      BY <1>1, <2>2
    <2>5. request' # <<>> => port = "output" /\ transport
      BY <2>2, StateOfPort DEF Live
    <2>6. /\ port = "none" => state' = "Idle"
          /\ port = "input" => state' \in Live \cup {"Idle"}
          /\ port = "output" => state' \in {"Idle", "RecordPaused",
                                            "Recording", "Finished"}
      BY <2>2, StateOfPort DEF Live
    <2>7. port = "output" /\ DVctrl /\ transport =>
               \/ request' = <<>> /\ state' = state
               \/ request' = <<RECORD_FREEZE>> /\ state' = "RecordPaused"
      BY <2>2
    <2> QED
      BY <2>1, <2>3, <2>4, <2>5, <2>6, <2>7, HalfKeeps
  <1>5. CASE StartRecording
    <2>1. /\ todo # <<>> /\ Head(todo) = "recordStart" /\ call = "asked"
          /\ call' = "half"
          /\ UNCHANGED <<device, port, DVctrl, steady, published, ui, todo,
                         closing>>
      BY <1>5 DEF StartRecording, Exchange, Asked, Served, Rests
    <2>2. /\ state' = IF state = "RecordPaused" THEN "Recording" ELSE state
          /\ request' = IF state = "RecordPaused" /\ DVctrl /\ transport
                          THEN <<RECORD>> ELSE <<>>
      BY <1>5 DEF StartRecording, Exchange, Served
    <2>3. Head(todo) \notin Builds \cup {"reset"}
      BY <2>1 DEF Builds
    <2>4. request' \in Requests
      BY <1>1, <2>2
    <2>5. request' # <<>> => port = "output" /\ transport
      BY <2>2, StateOfPort DEF Live
    <2>6. /\ port = "none" => state' = "Idle"
          /\ port = "input" => state' \in Live \cup {"Idle"}
          /\ port = "output" => state' \in {"Idle", "RecordPaused",
                                            "Recording", "Finished"}
      BY <2>2, StateOfPort DEF Live
    <2>7. port = "output" /\ DVctrl /\ transport =>
               \/ request' = <<>> /\ state' = state
               \/ request' = <<RECORD>> /\ state' = "Recording"
      BY <2>2
    <2> QED
      BY <2>1, <2>3, <2>4, <2>5, <2>6, <2>7, HalfKeeps
  <1> QED
    BY <1>2, <1>3, <1>4, <1>5

\* A capture that is refused.
LEMMA RefusedKeeps == IInv /\ StartCapturingRefused => IInv'
  <1> SUFFICES ASSUME IInv, StartCapturingRefused PROVE IInv'
    OBVIOUS
  <1>1. /\ todo # <<>> /\ Head(todo) = "captureStart" /\ call = "asked"
        /\ call' = "failed" /\ request' = <<>> /\ state' = state
        /\ UNCHANGED <<device, port, DVctrl, steady, published, ui, todo,
                       closing>>
    BY DEF StartCapturingRefused, Asked, Served, engine
  <1>2. /\ <<>> \in Requests /\ "captureStart" \notin Builds \cup {"reset"}
        /\ call' \in {"half", "failed"}
    BY <1>1, RequestTyped DEF Builds
  <1> QED
    BY <1>1, <1>2, StateOfPort, HalfKeeps

\* The second half: the deck is told.
LEMMA TellKeeps == IInv /\ Tell => IInv'
  <1> SUFFICES ASSUME IInv, Tell PROVE IInv'
    OBVIOUS
  <1> USE DEF IInv
  <1>1. /\ UNCHANGED <<transport, port, state, DVctrl, steady, published,
                       shown, tool, deckControl, todo, window, quiet>>
        /\ call = "half" /\ call' = "done" /\ request' = <<>>
        /\ Send(request) /\ Head(todo) \notin Builds \cup {"reset"}
        /\ todo # <<>>
    BY DEF Tell, Served, Rests, engine, ui, closing, TodoInv, Builds
  <1>2. /\ deck' \in Nat
        /\ request = <<>> => ordered' = ordered
        /\ request # <<>> => ordered' = request[Len(request)]
                             /\ ordered' \in Modes
    BY <1>1, Sending DEF TypeOK, CallInv
  <1>3. ordered' \in Nat
    BY <1>2, CodesTyped DEF TypeOK
  <1>4. TypeOK'
    <2>1. <<>> \in Seq(Nat) /\ Len(<<>>) <= 2
      OBVIOUS
    <2> QED
      BY <1>1, <1>2, <1>3, <2>1 DEF TypeOK
  <1>5. TodoInv'
    BY <1>1 DEF TodoInv, First
  <1>6. CallInv'
    BY <1>1, <1>2, RequestTyped DEF CallInv, First, Builds
  <1>7. TapeInv'
    <2>1. /\ request = <<RECORD>> => ordered' = RECORD
          /\ request = <<RECORD_FREEZE>> => ordered' = RECORD_FREEZE
      BY <1>2
    <2> QED
      BY <1>1, <1>2, <2>1 DEF TapeInv, Follows, Undone, TakenDown
  <1>8. SettledInv'
    BY <1>1 DEF SettledInv, SetUp, Settled, First, Right, Builds
  <1>9. SeenInv'
    <2>1. SetUp' => SetUp
      BY <1>1 DEF SetUp, Settled, First, Builds
    <2> QED
      BY <1>1, <1>2, <2>1 DEF SeenInv
  <1>10. QuietInv'
    BY <1>1 DEF QuietInv
  <1> QED
    BY <1>4, <1>5, <1>6, <1>7, <1>8, <1>9, <1>10

\* The old pipeline goes, the new one comes or fails to.
LEMMA DestroyKeeps == IInv /\ Destroy => IInv'
  <1> SUFFICES ASSUME IInv, Destroy PROVE IInv'
    OBVIOUS
  <1> USE DEF IInv
  <1>1. /\ UNCHANGED <<transport, DVctrl, steady, published, shown, tool,
                       deckControl, todo, window, quiet>>
        /\ todo # <<>> /\ Head(todo) \in Builds \cup {"reset"}
        /\ call = "asked" /\ request' = <<>>
        /\ call' = IF Head(todo) = "reset" THEN "done" ELSE "half"
        /\ Send(DestroyModes) /\ port' = "none" /\ state' = "Idle"
    BY DEF Destroy, Asked, Served, Rests, Builds, ui, closing
  <1>2. /\ deck' \in Nat /\ ordered' \in Nat
        /\ ~transport => ordered' = ordered
    BY <1>1, Destroying
  <1>3. <<>> \in Requests /\ <<>> \in Seq(Nat) /\ Len(<<>>) <= 2
    BY RequestTyped
  <1>4. TypeOK'
    BY <1>1, <1>2, <1>3 DEF TypeOK
  <1>5. TodoInv'
    BY <1>1 DEF TodoInv, First
  <1>6. CallInv'
    BY <1>1, <1>2, <1>3 DEF CallInv, First
  <1>7. TapeInv' /\ SeenInv'
    BY <1>1 DEF TapeInv, SeenInv
  <1>8. SettledInv'
    BY <1>1 DEF SettledInv, SetUp, Settled, First, Right
  <1>9. QuietInv'
    BY <1>1 DEF QuietInv
  <1> QED
    BY <1>4, <1>5, <1>6, <1>7, <1>8, <1>9

\* No button waits behind a set-up.
LEMMA BuildHasNoButton ==
    ASSUME todo \in Seq(Steps), todo # <<>>, Shape(todo),
           Head(todo) \in Builds
    PROVE  NoButton(todo)
  <1>1. /\ todo[1] = Head(todo) /\ Len(todo) \in Nat
        /\ todo[1] \notin Buttons
    BY DEF Builds, Buttons
  <1>2. \A y : <<todo[1], y>> \in Pairs => y \in {"start", "recordStart"}
    BY <1>1 DEF Pairs, Builds
  <1> SUFFICES ASSUME NEW i \in 1..Len(todo)
               PROVE  todo[i] \notin Buttons
    BY DEF NoButton
  <1>3. CASE i = 1
    BY <1>1, <1>3
  <1>4. CASE i # 1
    <2>1. i \in 2..Len(todo)
      BY <1>1, <1>4
    <2>2. todo[i] \in {"init", "start", "recordStart"}
      BY <1>2, <2>1 DEF Shape
    <2> QED
      BY <2>2 DEF Buttons
  <1> QED
    BY <1>3, <1>4

\* A pipeline is set up.
LEMMA CreateKeeps == IInv /\ Create => IInv'
  <1> SUFFICES ASSUME IInv, Create PROVE IInv'
    OBVIOUS
  <1> USE DEF IInv
  <1> DEFINE modes == If(port' = "output" /\ DVctrl, RECORD_FREEZE)
  <1>1. /\ UNCHANGED <<transport, DVctrl, published, shown, tool,
                       deckControl, todo, window, quiet>>
        /\ call = "half" /\ call' = "done" /\ request' = <<>>
        /\ Head(todo) \in Builds /\ steady' = TRUE
        /\ \/ /\ Head(todo) = "buildRecord" /\ port' = "output"
              /\ state' = "RecordPaused"
           \/ /\ Head(todo) \in {"connect", "buildCapture"}
              /\ port' = "input" /\ state' = "CapturePaused"
        /\ todo # <<>> /\ Shape(todo) /\ todo \in Seq(Steps)
    BY DEF Create, Served, Rests, Builds, ui, closing, TodoInv, TypeOK
  <1>2. /\ deck' \in IF modes = <<>> THEN {deck} ELSE Answers(deck, modes[1])
        /\ ordered' = IF modes = <<>> THEN NoOrder ELSE modes[1]
    BY DEF Create
  <1>3. /\ deck' \in Nat
        /\ \/ port' = "output" /\ DVctrl /\ transport
                /\ ordered' = RECORD_FREEZE
           \/ ~(port' = "output" /\ DVctrl /\ transport)
                /\ ordered' = NoOrder
    <2>1. CASE port' = "output" /\ DVctrl /\ transport
      <3>1. modes # <<>> /\ modes[1] = RECORD_FREEZE
        BY <2>1 DEF If
      <3>2. RECORD_FREEZE \in Modes /\ deck \in Nat
        BY DEF Modes, TypeOK
      <3> HIDE DEF modes
      <3>3. deck' \in Answers(deck, RECORD_FREEZE)
        BY <1>2, <3>1
      <3> QED
        BY <1>2, <2>1, <3>1, <3>2, <3>3, AnswerTyped
    <2>2. CASE ~(port' = "output" /\ DVctrl /\ transport)
      <3>1. modes = <<>>
        BY <1>1, <2>2 DEF If
      <3> HIDE DEF modes
      <3> QED
        BY <1>2, <2>2, <3>1 DEF TypeOK
    <2> QED
      BY <2>1, <2>2
  <1> HIDE DEF modes
  <1>4. ordered' \in Nat
    BY <1>3 DEF RECORD_FREEZE, NoOrder
  <1>5. <<>> \in Requests /\ <<>> \in Seq(Nat) /\ Len(<<>>) <= 2
    BY RequestTyped
  <1>6. TypeOK'
    BY <1>1, <1>3, <1>4, <1>5 DEF TypeOK, Live
  <1>7. TodoInv'
    BY <1>1 DEF TodoInv, First, Builds
  <1>8. CallInv'
    BY <1>1, <1>3, <1>5 DEF CallInv, First, Builds
  <1>9. TapeInv'
    BY <1>1, <1>3 DEF TapeInv, Follows, Undone, TakenDown
  <1>10. SettledInv'
    BY <1>1 DEF SettledInv, SetUp, Settled, First, Right, Builds
  <1>11. SeenInv'
    <2>1. NoButton(todo)
      BY <1>1, BuildHasNoButton
    <2> QED
      BY <1>1, <1>3, <2>1 DEF SeenInv
  <1>12. QuietInv'
    BY <1>1 DEF QuietInv
  <1> QED
    BY <1>6, <1>7, <1>8, <1>9, <1>10, <1>11, <1>12

\* The set-up of a pipeline fails, before it has a port or after.
LEMMA CreateFailsKeeps == IInv /\ CreateFails => IInv'
  <1> SUFFICES ASSUME IInv, CreateFails PROVE IInv'
    OBVIOUS
  <1> USE DEF IInv
  <1>1. /\ UNCHANGED <<deck, transport, DVctrl, published, shown, tool,
                       deckControl, todo, window, quiet>>
        /\ call = "half" /\ call' = "failed" /\ request' = <<>>
        /\ Head(todo) \in Builds
        /\ \/ UNCHANGED <<ordered, port, state, steady>>
           \/ /\ ordered' = NoOrder /\ steady' = TRUE
              /\ \/ /\ Head(todo) = "buildRecord" /\ port' = "output"
                    /\ state' \in {"Idle", "RecordPaused"}
                 \/ /\ Head(todo) \in {"connect", "buildCapture"}
                    /\ port' = "input"
                    /\ state' \in {"Idle", "CapturePaused"}
    BY DEF CreateFails, Served, Builds, device, engine, ui, closing
  <1>2. todo # <<>> /\ Shape(todo) /\ todo \in Seq(Steps) /\ port = "none"
    BY <1>1 DEF TodoInv, CallInv, TypeOK, First
  <1>3. <<>> \in Requests /\ <<>> \in Seq(Nat) /\ Len(<<>>) <= 2
    BY RequestTyped
  <1>4. TypeOK'
    BY <1>1, <1>2, <1>3 DEF TypeOK, Live, NoOrder
  <1>5. TodoInv'
    BY <1>1, <1>2 DEF TodoInv, First, Builds
  <1>6. CallInv'
    BY <1>1, <1>2, <1>3 DEF CallInv, First, Builds
  <1>7. TapeInv'
    BY <1>1, <1>2 DEF TapeInv, Undone, TakenDown
  <1>8. SettledInv'
    BY <1>1, <1>2 DEF SettledInv, SetUp, Settled, First, Right, Builds
  <1>9. SeenInv'
    <2>1. NoButton(todo)
      BY <1>1, <1>2, BuildHasNoButton
    <2> QED
      BY <1>1, <1>2, <2>1 DEF SeenInv
  <1>10. QuietInv'
    BY <1>1, <1>2 DEF QuietInv
  <1> QED
    BY <1>4, <1>5, <1>6, <1>7, <1>8, <1>9, <1>10

-----------------------------------------------------------------------------
(* The theorems                                                             *)

\* The first state.
LEMMA InitInv == Init => IInv
  <1> SUFFICES ASSUME Init PROVE IInv
    OBVIOUS
  <1>1. /\ todo \in Seq(Steps) /\ todo # <<>> /\ Shape(todo)
        /\ NoButton(todo)
        /\ \/ Head(todo) = "init" /\ ~NoInit(todo)
           \/ Head(todo) = "buildCapture" /\ tool = "Capture"
           \/ Head(todo) = "buildRecord" /\ tool = "Record"
    <2>1. /\ "init" \in Steps /\ "buildCapture" \in Steps
          /\ "start" \in Steps /\ "buildRecord" \in Steps
          /\ "recordStart" \in Steps
          /\ <<"buildCapture", "start">> \in Pairs
          /\ <<"buildRecord", "recordStart">> \in Pairs
          /\ {"init", "buildCapture", "start", "buildRecord", "recordStart"}
               \cap Buttons = {}
      BY DEF Steps, Pairs, Buttons
    <2>2. CASE todo = <<"init">>
      BY <2>1, <2>2, OneStep
    <2>3. CASE tool = "Capture" /\ todo = <<"buildCapture", "start">>
      BY <2>1, <2>3, TwoSteps
    <2>4. CASE tool = "Record" /\ todo = <<"buildRecord", "recordStart">>
      BY <2>1, <2>4, TwoSteps
    <2> QED
      BY <2>2, <2>3, <2>4 DEF Init
  <1>2. /\ call = "no" /\ request = <<>> /\ window = "open" /\ quiet = FALSE
        /\ port = "none" /\ state = "Idle" /\ ordered = NoOrder
        /\ deck \in Nat /\ tool \in {"Capture", "Record"}
    BY DEF Init, STOP, PLAY
  <1>3. /\ DVctrl \in BOOLEAN /\ steady \in BOOLEAN /\ transport \in BOOLEAN
        /\ deckControl \in BOOLEAN /\ quiet \in BOOLEAN
    BY Zenon DEF Init
  <1>4. /\ published \in [mode : DeckModes, can : BOOLEAN]
        /\ shown \in [state : States, mode : DeckModes, can : BOOLEAN]
    BY DEF Init, DeckModes, States
  <1>5. <<>> \in Requests /\ <<>> \in Seq(Nat) /\ Len(<<>>) <= 2
    BY RequestTyped
  <1>6. TypeOK
    BY <1>1, <1>2, <1>4, <1>5 DEF TypeOK, NoOrder
  <1>7. TodoInv
    BY <1>1, <1>2 DEF TodoInv, First
  <1>8. CallInv
    BY <1>2, <1>3, <1>5 DEF CallInv
  <1>9. TapeInv /\ SeenInv /\ QuietInv
    BY <1>2 DEF TapeInv, SeenInv, QuietInv
  <1>10. SettledInv
    BY <1>1, <1>2 DEF SettledInv, Settled, First
  <1> QED
    BY <1>6, <1>7, <1>8, <1>9, <1>10 DEF IInv

\* Every step keeps the invariant.
LEMMA StepInv == IInv /\ [Next]_vars => IInv'
  <1> SUFFICES ASSUME IInv, [Next]_vars PROVE IInv'
    OBVIOUS
  <1>1. CASE Play \/ Pause \/ Stop \/ Wind \/ Rec
    BY <1>1, ButtonsKeep
  <1>2. CASE ChangeTool \/ ApplySettings \/ DeckKey \/ Finish \/ Tick \/ Poll
    BY <1>2, ChangeToolKeeps, ApplySettingsKeeps, DeckKeyKeeps, FinishKeeps,
       StatusKeeps
  <1>3. CASE Decide \/ Ask \/ Continue
    BY <1>3, DecideKeeps, AskKeeps, ContinueKeeps
  <1>4. CASE ShutdownAsync \/ ShutdownStop \/ Closed
    BY <1>4, ShutdownKeeps, ShutdownStopKeeps, ClosedKeeps
  <1>5. CASE \E b \in Buttons : Command(b)
    BY <1>5, CommandKeeps
  <1>6. CASE StopCapturing \/ StartCapturing \/ StopRecording
             \/ StartRecording \/ StartCapturingRefused \/ Tell
    BY <1>6, ExchangeKeeps, RefusedKeeps, TellKeeps
  <1>7. CASE Destroy \/ Create \/ CreateFails
    BY <1>7, DestroyKeeps, CreateKeeps, CreateFailsKeeps
  <1>8. CASE UNCHANGED vars
    <2>1. UNCHANGED <<deck, transport, ordered, port, state, DVctrl, steady,
                      published, shown, tool, deckControl, todo, call,
                      request, window, quiet>>
      BY <1>8 DEF vars, device, engine, ui, closing
    <2> USE DEF IInv
    <2>2. TypeOK'
      BY <2>1 DEF TypeOK
    <2>3. TodoInv' /\ CallInv'
      BY <2>1 DEF TodoInv, CallInv, First
    <2>4. TapeInv' /\ QuietInv'
      BY <2>1 DEF TapeInv, Follows, Undone, TakenDown, QuietInv, Stopped
    <2>5. SettledInv' /\ SeenInv'
      BY <2>1 DEF SettledInv, SeenInv, SetUp, Settled, First, Right
    <2> QED
      BY <2>2, <2>3, <2>4, <2>5
  <1> QED
    BY <1>1, <1>2, <1>3, <1>4, <1>5, <1>6, <1>7, <1>8 DEF Next

\* The invariant holds of every behaviour of the deck.
THEOREM Invariance == Spec => []IInv
  BY InitInv, StepInv, PTL DEF Spec

\* The state of the pipeline is always one of its port, and there is never a
\* third mode to send (DeckRequest): for any keys, buttons and settings.
THEOREM TypeCorrect == Spec => []TypeOK
  <1>1. IInv => TypeOK
    BY DEF IInv
  <1> QED
    BY Invariance, <1>1, PTL

\* While recording to tape the deck follows StartRecording, StopRecording and
\* the end of the recording, unless its own keys or a change of the setting
\* came between; and a pipeline that could not be built, which has told the
\* deck nothing, is taken down before it is asked to record (BuildRecording).
THEOREM DeckFollowsPipeline == Spec => []TapeFollowsPipeline
  <1>1. IInv => TapeFollowsPipeline
    <2> SUFFICES ASSUME IInv, port = "output", DVctrl, steady, transport,
                        call # "half"
                 PROVE  Follows \/ Undone
      BY DEF TapeFollowsPipeline, Follows, Undone
    <2>1. request = <<>>
      BY DEF IInv, CallInv
    <2>2. <<RECORD>> # <<>> /\ <<RECORD_FREEZE>> # <<>>
      OBVIOUS
    <2> QED
      BY <2>1, <2>2 DEF IInv, TapeInv
  <1> QED
    BY Invariance, <1>1, PTL

\* Closing the window while nothing runs leaves a deck that WinDV was driving
\* stopped, whatever was published and shown when (ShutdownAsync, Destroy).
THEOREM ClosingStopsDeck == Spec => []ClosedDeckStopped
  <1>1. IInv => ClosedDeckStopped
    BY DEF IInv, QuietInv, Stopped, ClosedDeckStopped
  <1> QED
    BY Invariance, <1>1, PTL

\* No button other than Stop ends the picture of a tape, in whatever words the
\* deck reports its mode, or goes to a tape that is recorded on.
THEOREM ButtonsKeepPicture == Spec => PictureKept
  <1> DEFINE Kept ==
        \A b \in Buttons \ {"Stop"} : ReadsDeck(b) =>
          /\ deck \in Picture =>
               \A i \in DOMAIN request' : request'[i] \notin {STOP, FF, REW}
          /\ deck \in {RECORD, RECORD_FREEZE} => request' = <<>>
  <1>1. ASSUME [Next]_vars PROVE [Kept]_vars
    <2> SUFFICES ASSUME NEW b \in Buttons \ {"Stop"}, ReadsDeck(b)
                 PROVE  /\ deck \in Picture =>
                             \A i \in DOMAIN request' :
                                 request'[i] \notin {STOP, FF, REW}
                        /\ deck \in {RECORD, RECORD_FREEZE} =>
                             request' = <<>>
      OBVIOUS
    <2>1. /\ Head(todo) = b /\ call = "asked" /\ call' = "half"
          /\ b \notin {"captureStart", "captureStop", "recordStart",
                       "recordStop", "reset", "connect", "buildCapture",
                       "buildRecord"}
      BY DEF ReadsDeck, Buttons
    <2>2. \E c \in Buttons : Command(c)
      <3>1. call' # call
        BY <2>1
      <3>2. CASE Play \/ Pause \/ Stop \/ Wind \/ Rec
        BY <3>1, <3>2 DEF Play, Pause, Stop, Wind, Rec, Presses
      <3>3. CASE \/ ChangeTool \/ ApplySettings \/ DeckKey \/ Finish \/ Tick
                 \/ Poll \/ Decide \/ Ask \/ Continue \/ ShutdownAsync
                 \/ ShutdownStop \/ Closed \/ Tell \/ Create \/ CreateFails
        BY <2>1, <3>1, <3>3 DEF ChangeTool, ApplySettings, DeckKey, Finish,
           Tick, Poll, Decide, Ask, Continue, ShutdownAsync, ShutdownStop,
           Closed, Tell, Create, CreateFails, Served
      <3>4. CASE \/ StopCapturing \/ StartCapturing \/ StopRecording
                 \/ StartRecording \/ StartCapturingRefused \/ Destroy
        BY <2>1, <3>4 DEF StopCapturing, StartCapturing, StopRecording,
           StartRecording, StartCapturingRefused, Destroy, Exchange, Asked
      <3>5. CASE UNCHANGED vars
        BY <3>1, <3>5 DEF vars
      <3>6. CASE \E c \in Buttons : Command(c)
        BY <3>6
      <3> QED
        BY <1>1, <3>2, <3>3, <3>4, <3>5, <3>6 DEF Next
    <2>3. request' = IF port = "input" /\ transport
                       THEN ResolveDeckCommand(b, ToDeckMode(deck))
                       ELSE <<>>
      BY <2>1, <2>2 DEF Command, Asked, Served
    <2>4. CASE deck \in Picture
      <3>1. ToDeckMode(deck) \in
              {"Playing", "Paused", "CueForward", "CueReverse"}
        BY <2>4, PictureIsOnTape
      <3>2. request' \in {<<>>, <<PLAY>>, <<FREEZE>>, <<PlayFastestFwd>>,
                          <<PlayFastestRev>>}
        BY <2>3, <3>1 DEF ResolveDeckCommand, IsOnTape, Buttons
      <3>3. \A m \in {PLAY, FREEZE, PlayFastestFwd, PlayFastestRev} :
              \A i \in DOMAIN <<m>> : <<m>>[i] \notin {STOP, FF, REW}
        BY DEF STOP, PLAY, FREEZE, FF, REW, PlayFastestFwd, PlayFastestRev
      <3>4. \A i \in DOMAIN request' : request'[i] \notin {STOP, FF, REW}
        <4>1. CASE request' = <<>>
          BY <4>1
        <4>2. CASE \E m \in {PLAY, FREEZE, PlayFastestFwd, PlayFastestRev} :
                      request' = <<m>>
          <5>1. PICK m \in {PLAY, FREEZE, PlayFastestFwd, PlayFastestRev} :
                       request' = <<m>>
            BY <4>2
          <5> QED
            BY <3>3, <5>1
        <4> QED
          BY <3>2, <4>1, <4>2
      <3>5. deck \notin {RECORD, RECORD_FREEZE}
        BY <3>1, PictureIsOnTape
      <3> QED
        BY <3>4, <3>5
    <2>5. CASE deck \in {RECORD, RECORD_FREEZE}
      <3>1. ToDeckMode(deck) \in {"Recording", "RecordPaused"}
        BY <2>5, PictureIsOnTape
      <3>2. request' = <<>>
        BY <2>3, <3>1 DEF ResolveDeckCommand
      <3> QED
        BY <3>2
    <2> QED
      BY <2>4, <2>5
  <1> QED
    BY <1>1, PTL DEF Spec, PictureKept
====
