------------------------ MODULE DVEngineRecordProofs ------------------------
(* Type, order and completeness of what the record pipeline sends to tape,  *)
(* for any files, lists of files, capacity of the queue and calls.          *)
EXTENDS DVEngineRecord, FiniteSetTheorems, TLAPS

-----------------------------------------------------------------------------
(* The list of files that a text stands for                                 *)

\* What 0 has and each successor inherits, every number has.
LEMMA Induction ==
    ASSUME NEW S, 0 \in S, \A n \in Nat : n \in S => n + 1 \in S
    PROVE  Nat \subseteq S
  <1> SUFFICES ASSUME ~(Nat \subseteq S) PROVE FALSE
    OBVIOUS
  <1> DEFINE T == {n \in Nat : n \notin S}
  <1>1. T \subseteq Nat /\ T # {}
    OBVIOUS
  <1>2. \E x \in T : \A y \in T : ~(<<y, x>> \in OpToRel(<, Nat))
    <2> HIDE DEF T
    <2> QED
      BY <1>1, NatLessThanWellFounded, WFMin
  <1>3. PICK x \in T : \A y \in T : ~(y < x)
    BY <1>2 DEF OpToRel
  <1>4. x # 0 /\ x - 1 \in Nat
    OBVIOUS
  <1>5. x - 1 \in S
    BY <1>3, <1>4
  <1> QED
    BY <1>4, <1>5

\* Of some entries one comes first.
LEMMA FirstEntry ==
    ASSUME NEW found \in SUBSET Entries, found # {}
    PROVE  \E first \in found : \A entry \in found \ {first} :
              first.folded < entry.folded
  <1> DEFINE places == {entry.folded : entry \in found}
  <1>1. places \subseteq Nat /\ places # {}
    BY EntriesAssumption
  <1>2. \E x \in places : \A y \in places : ~(<<y, x>> \in OpToRel(<, Nat))
    <2> HIDE DEF places
    <2> QED
      BY <1>1, NatLessThanWellFounded, WFMin
  <1>3. PICK x \in places : \A y \in places : ~(y < x)
    BY <1>1, <1>2 DEF OpToRel
  <1>4. PICK first \in found : x = first.folded
    OBVIOUS
  <1>5. ASSUME NEW entry \in found \ {first}
        PROVE  first.folded < entry.folded
    <2>1. entry.folded # first.folded
      BY <1>4, <1>5, EntriesAssumption
    <2>2. entry.folded \in Nat /\ first.folded \in Nat
      BY <1>4, <1>5, EntriesAssumption
    <2>3. ~(entry.folded < first.folded)
      BY <1>3, <1>4, <1>5
    <2> QED
      BY <2>1, <2>2, <2>3
  <1> QED
    BY <1>4, <1>5

\* A list of all of some entries, in their order.
InOrderOf(found, n, list) ==
    /\ list \in [1..n -> found]
    /\ \A i, j \in 1..n : i < j => list[i].folded < list[j].folded

\* Any number of entries can be put into their order.
LEMMA OrderExists ==
    ASSUME NEW found \in SUBSET Entries
    PROVE  \E list : InOrderOf(found, Cardinality(found), list)
  <1> DEFINE Has(n) == \A some \in SUBSET Entries :
                 Cardinality(some) = n => \E list : InOrderOf(some, n, list)
             Good == {n \in Nat : Has(n)}
  <1>1. \A some \in SUBSET Entries :
           IsFiniteSet(some) /\ Cardinality(some) \in Nat
    BY EntriesAssumption, FS_Subset, FS_CardinalityType
  <1>2. 0 \in Good
    <2>1. \A some : InOrderOf(some, 0, [i \in 1..0 |-> 0])
      BY DEF InOrderOf
    <2> QED
      BY <2>1
  <1>3. ASSUME NEW n \in Nat, n \in Good
        PROVE  n + 1 \in Good
    <2> SUFFICES ASSUME NEW some \in SUBSET Entries,
                        Cardinality(some) = n + 1
                 PROVE  \E list : InOrderOf(some, n + 1, list)
      OBVIOUS
    <2>1. some # {}
      BY FS_EmptySet
    <2>2. PICK first \in some : \A entry \in some \ {first} :
                                   first.folded < entry.folded
      BY <2>1, FirstEntry
    <2> DEFINE rest == some \ {first}
    <2>3. rest \in SUBSET Entries /\ Cardinality(rest) = n
      BY <1>1, FS_RemoveElement
    <2>4. PICK list : InOrderOf(rest, n, list)
      <3> HIDE DEF rest
      <3> QED
        BY <1>3, <2>3
    <2> DEFINE more == [i \in 1..(n + 1) |->
                          IF i = 1 THEN first ELSE list[i - 1]]
    <2>5. \A i \in 1..(n + 1) :
             i # 1 => i - 1 \in 1..n /\ more[i] = list[i - 1]
      OBVIOUS
    <2>6. more[1] = first
      OBVIOUS
    <2>7. \A i \in 1..n : list[i] \in rest
      BY <2>4 DEF InOrderOf
    <2>8. more \in [1..(n + 1) -> some]
      <3>1. \A i \in 1..(n + 1) : more[i] \in some
        <4> HIDE DEF more
        <4> QED
          BY <2>2, <2>5, <2>6, <2>7
      <3> QED
        BY <3>1
    <2>9. ASSUME NEW i \in 1..(n + 1), NEW j \in 1..(n + 1), i < j
          PROVE  more[i].folded < more[j].folded
      <3>1. j # 1 /\ j - 1 \in 1..n /\ more[j] = list[j - 1]
        BY <2>5, <2>9
      <3>2. CASE i = 1
        <4>1. more[j] \in some \ {first} /\ more[i] = first
          BY <2>6, <2>7, <3>1, <3>2
        <4> HIDE DEF more
        <4> QED
          BY <2>2, <4>1
      <3>3. CASE i # 1
        <4>1. i - 1 \in 1..n /\ more[i] = list[i - 1] /\ i - 1 < j - 1
          BY <2>5, <2>9, <3>3
        <4> HIDE DEF more
        <4> QED
          BY <2>4, <3>1, <4>1 DEF InOrderOf
      <3> QED
        BY <3>2, <3>3
    <2> HIDE DEF more
    <2> QED
      BY <2>8, <2>9 DEF InOrderOf
  <1>4. Cardinality(found) \in Good
    <2>1. Cardinality(found) \in Nat
      BY <1>1
    <2> HIDE DEF Good
    <2> QED
      BY <1>2, <1>3, <2>1, Induction
  <1> QED
    BY <1>4

\* The files of a pattern are a list of entries.
LEMMA SortedTyped ==
    ASSUME NEW pattern
    PROVE  Sorted(FindFiles(pattern)) \in Seq(Entries)
  <1> DEFINE matches == {entry \in FindFiles(pattern) : ~entry.isDirectory}
             Is(list) == /\ list \in [1..Cardinality(matches) -> matches]
                         /\ \A i, j \in DOMAIN list :
                              i < j => list[i].folded < list[j].folded
  <1>1. matches \in SUBSET Entries
    BY DEF FindFiles
  <1>2. Cardinality(matches) \in Nat
    BY <1>1, EntriesAssumption, FS_Subset, FS_CardinalityType
  <1>3. Sorted(FindFiles(pattern)) = CHOOSE list : Is(list)
    BY DEF Sorted
  <1> HIDE DEF matches
  <1>4. PICK list : InOrderOf(matches, Cardinality(matches), list)
    BY <1>1, OrderExists
  <1>5. Is(list)
    BY <1>4 DEF InOrderOf
  <1>6. Is(Sorted(FindFiles(pattern)))
    <2> HIDE DEF Is
    <2> QED
      BY <1>3, <1>5
  <1>7. Sorted(FindFiles(pattern)) \in [1..Cardinality(matches) -> Entries]
    BY <1>1, <1>6
  <1> QED
    BY <1>2, <1>7

\* The greatest of the first numbers.
LEMMA MaxIs ==
    ASSUME NEW s, NEW m \in Nat, s \subseteq 1..m, m \in s
    PROVE  Max(s) = m
  <1> DEFINE Top(x) == x \in s /\ \A y \in s : x >= y
  <1>1. \A x \in s : x \in Int /\ m >= x
    OBVIOUS
  <1>2. Top(m) /\ \A x : Top(x) => x >= m /\ x \in s
    BY <1>1
  <1>3. \A x : Top(x) => x = m
    BY <1>1, <1>2
  <1> QED
    BY <1>2, <1>3 DEF Max

\* A set of the first numbers has a greatest one.
LEMMA Greatest ==
    ASSUME NEW m \in Nat, NEW s \in SUBSET (1..m), s # {}
    PROVE  Max(s) \in s
  <1> DEFINE Has == {j \in Nat : \A t \in SUBSET (1..j) : t # {} =>
                       \E x \in t : \A y \in t : x >= y}
  <1>1. 0 \in Has
    <2>1. 1..0 = {}
      OBVIOUS
    <2> QED
      BY <2>1
  <1>2. ASSUME NEW j \in Nat, j \in Has
        PROVE  j + 1 \in Has
    <2> SUFFICES ASSUME NEW t \in SUBSET (1..(j + 1)), t # {}
                 PROVE  \E x \in t : \A y \in t : x >= y
      OBVIOUS
    <2>1. CASE j + 1 \in t
      BY <2>1
    <2>2. CASE j + 1 \notin t
      <3>1. t \in SUBSET (1..j)
        BY <2>2
      <3> QED
        BY <3>1, <1>2
    <2> QED
      BY <2>1, <2>2
  <1>3. m \in Has
    <2> HIDE DEF Has
    <2> QED
      BY <1>1, <1>2, Induction
  <1>4. \E x \in s : \A y \in s : x >= y
    BY <1>3
  <1> QED
    BY <1>4 DEF Max

\* What a pattern adds to the files.
Joined(before, pattern) ==
    IF pattern = <<>> THEN before ELSE before \o Sorted(FindFiles(pattern))

\* What FoldLeft computes of each set of places.
Joins(it, patterns) ==
    it = [s \in SUBSET DOMAIN patterns |->
            IF s = {} THEN <<>>
                      ELSE Joined(it[s \ {Max(s)}], patterns[Max(s)])]

\* There is such a function.
LEMMA JoinsExist ==
    ASSUME NEW n \in Nat, NEW patterns, DOMAIN patterns = 1..n
    PROVE  \E it : Joins(it, patterns)
  <1> DEFINE rhs(it, m) ==
               [s \in SUBSET (1..m) |->
                  IF s = {} THEN <<>>
                            ELSE Joined(it[s \ {Max(s)}], patterns[Max(s)])]
             JoinsTo(it, m) == it = rhs(it, m)
             Good == {m \in Nat : \E it : JoinsTo(it, m)}
  <1>1. 0 \in Good
    <2>1. 1..0 = {}
      OBVIOUS
    <2>2. JoinsTo([s \in SUBSET (1..0) |-> <<>>], 0)
      BY <2>1
    <2> QED
      BY <2>2
  <1>2. ASSUME NEW m \in Nat, m \in Good
        PROVE  m + 1 \in Good
    <2>1. PICK it : JoinsTo(it, m)
      BY <1>2
    <2> DEFINE k == m + 1
               more == [s \in SUBSET (1..k) |->
                          IF k \in s THEN Joined(it[s \ {k}], patterns[k])
                                     ELSE it[s]]
    <2>2. ASSUME NEW s \in SUBSET (1..k)
          PROVE  more[s] = IF s = {} THEN <<>>
                           ELSE Joined(more[s \ {Max(s)}], patterns[Max(s)])
      <3>1. CASE k \in s
        <4>1. Max(s) = k /\ s # {}
          <5>1. k \in Nat /\ s \subseteq 1..k
            OBVIOUS
          <5> HIDE DEF k
          <5> QED
            BY <3>1, <5>1, MaxIs
        <4>2. s \ {k} \in SUBSET (1..k) /\ k \notin s \ {k}
          OBVIOUS
        <4>3. more[s \ {k}] = it[s \ {k}]
          BY <4>2
        <4> QED
          BY <3>1, <4>1, <4>3
      <3>2. CASE k \notin s
        <4>1. s \in SUBSET (1..m)
          BY <3>2
        <4>2. more[s] = it[s]
          BY <3>2
        <4>3. s # {} => Max(s) \in s
          BY <4>1, Greatest
        <4>4. s # {} => k \notin s \ {Max(s)} /\ s \ {Max(s)} \in SUBSET (1..k)
          BY <3>2
        <4>5. s # {} => more[s \ {Max(s)}] = it[s \ {Max(s)}]
          BY <4>4
        <4>6. it[s] = IF s = {} THEN <<>>
                      ELSE Joined(it[s \ {Max(s)}], patterns[Max(s)])
          BY <2>1, <4>1
        <4> QED
          BY <4>2, <4>5, <4>6
      <3> QED
        BY <3>1, <3>2
    <2>3. JoinsTo(more, k)
      <3>1. /\ DOMAIN more = SUBSET (1..k)
            /\ more = [s \in DOMAIN more |-> more[s]]
        OBVIOUS
      <3> HIDE DEF more, k
      <3>2. more = rhs(more, k)
        BY <2>2, <3>1
      <3> QED
        BY <3>2
    <2>4. \E f : JoinsTo(f, k)
      <3> HIDE DEF more, k, JoinsTo
      <3> QED
        BY <2>3
    <2> HIDE DEF JoinsTo
    <2> QED
      BY <2>4
  <1>3. n \in Good
    <2> HIDE DEF Good
    <2> QED
      BY <1>1, <1>2, Induction
  <1> QED
    BY <1>3 DEF Joins

\* The files that a text stands for are a list of entries.
LEMMA FilenamesTyped ==
    ASSUME NEW text \in Texts
    PROVE  Filenames(text) \in Seq(Entries)
  <1> DEFINE patterns == [i \in DOMAIN text |-> Trim(text[i])]
             J(it) == it = [s \in SUBSET DOMAIN patterns |->
                IF s = {} THEN <<>>
                ELSE IF patterns[Max(s)] = <<>> THEN it[s \ {Max(s)}]
                ELSE it[s \ {Max(s)}] \o Sorted(FindFiles(patterns[Max(s)]))]
  <1>1. CASE Filenames(text) = <<>>
    BY <1>1
  <1>2. CASE Filenames(text) # <<>>
    <2>1. PICK n \in Nat : DOMAIN text = 1..n
      BY RecordAssumption
    <2>2. DOMAIN patterns = 1..n
      BY <2>1
    <2>3. Filenames(text) = (CHOOSE it : J(it))[DOMAIN patterns]
      BY <1>2 DEF Filenames, FoldLeft, MapThenFoldSet
    <2> HIDE DEF patterns
    <2>4. \A it : J(it) <=> Joins(it, patterns)
      BY DEF Joins, Joined
    <2>5. \E it : J(it)
      BY <2>1, <2>2, <2>4, JoinsExist
    <2> HIDE DEF J
    <2>6. PICK it : Joins(it, patterns) /\ Filenames(text) = it[1..n]
      BY <2>2, <2>3, <2>4, <2>5
    <2> DEFINE Good == {m \in Nat : m <= n => it[1..m] \in Seq(Entries)}
    <2>7. 0 \in Good
      <3>1. it[{}] = <<>> /\ 1..0 = {}
        BY <2>6 DEF Joins
      <3>2. it[1..0] = <<>> /\ <<>> \in Seq(Entries)
        BY <3>1
      <3> QED
        BY <3>2
    <2>8. ASSUME NEW m \in Nat, m \in Good
          PROVE  m + 1 \in Good
      <3> SUFFICES ASSUME m + 1 <= n PROVE it[1..(m + 1)] \in Seq(Entries)
        OBVIOUS
      <3>1. it[1..m] \in Seq(Entries)
        BY <2>1, <2>8
      <3> HIDE DEF Good
      <3>2. Max(1..(m + 1)) = m + 1
        <4> DEFINE k == m + 1
        <4>1. k \in Nat /\ 1..k \subseteq 1..k /\ k \in 1..k
          OBVIOUS
        <4> HIDE DEF k
        <4>2. Max(1..k) = k
          BY <4>1, MaxIs, Zenon
        <4> QED
          BY <4>2 DEF k
      <3>3. (1..(m + 1)) \ {m + 1} = 1..m /\ 1..(m + 1) # {}
        <4>1. \A x : x \in (1..(m + 1)) \ {m + 1} <=> x \in 1..m
          OBVIOUS
        <4>2. m + 1 \in 1..(m + 1)
          OBVIOUS
        <4> QED
          BY <4>1, <4>2
      <3>4. 1..(m + 1) \in SUBSET DOMAIN patterns
        BY <2>1, <2>2
      <3>5. it[1..(m + 1)] = Joined(it[1..m], patterns[m + 1])
        BY <2>6, <3>2, <3>3, <3>4 DEF Joins
      <3>6. Sorted(FindFiles(patterns[m + 1])) \in Seq(Entries)
        BY SortedTyped
      <3> QED
        BY <3>1, <3>5, <3>6 DEF Joined
    <2>9. n \in Good
      <3> HIDE DEF Good
      <3> QED
        BY <2>1, <2>7, <2>8, Induction
    <2> QED
      BY <2>1, <2>6, <2>9
  <1> QED
    BY <1>1, <1>2

-----------------------------------------------------------------------------
(* Frames of a list of files                                                *)

\* No file of fs between two places has a frame.
NoFrames(fs, from, to) == \A file \in from..to : fs[file].frames = 0
After(fs, f, g) ==
    \/ f[1] = g[1] /\ g[2] = f[2] + 1
    \/ /\ f[1] < g[1] /\ NoFrames(fs, f[1] + 1, g[1] - 1)
       /\ f[2] = fs[f[1]].frames /\ g[2] = 1

\* The frames s are those of fs, from the first one on, in their order.
InOrder(fs, s) ==
    /\ \A i \in 1..Len(s) : /\ s[i][1] \in 1..Len(fs)
                            /\ s[i][2] \in 1..fs[s[i][1]].frames
    /\ s # <<>> => s[1][2] = 1 /\ NoFrames(fs, 1, s[1][1] - 1)
    /\ \A i \in 1..(Len(s) - 1) : After(fs, s[i], s[i + 1])

\* s ends with the p-th frame of the file f, or with all that come before that
\* file if p is 0.
Upto(fs, s, f, p) ==
    IF s = <<>> THEN p = 0 /\ NoFrames(fs, 1, f - 1)
    ELSE LET last == s[Len(s)]
         IN  \/ last = <<f, p>>
             \/ /\ p = 0 /\ last[1] < f /\ last[2] = fs[last[1]].frames
                /\ NoFrames(fs, last[1] + 1, f - 1)

-----------------------------------------------------------------------------
(* The inductive invariant                                                  *)

Sample == Nat \X (Nat \ {0})

FramesTyped ==
    /\ buffer \in Seq(Sample) /\ sent \in Seq(Sample)
    /\ frame \in Sample \cup {NoFrame} /\ pos \in Nat

Building == ctl \in {"runJoiner", "runReader", "startWorker"}
Releasing == ctl \in {"stopReader", "join", "release"}

\* What the controller relies on: no thread or frame of the pipeline is there
\* before it was built or after it was destroyed; a queue is closed before the
\* joiner is stopped.
ControlInv ==
    /\ queue = "none" => /\ rdr = "off" /\ jnr = "none" /\ wkr = "none"
                         /\ buffer = <<>> /\ frame = NoFrame /\ ~Building
    /\ ctl = "create" => queue = "none"
    /\ Building => wkr = "none" /\ frame = NoFrame /\ sent = <<>>
    /\ ctl \in {"runJoiner", "runReader"} =>
         /\ queue = "open" /\ rdr = "off" /\ buffer = <<>>
         /\ reader = 1 /\ next = 2
         /\ jnr = IF ctl = "runJoiner" THEN "none" ELSE "wait"
    /\ ctl = "runReader" => ~readerEnded /\ ~stopRequested
    /\ state # "Idle" => /\ ~Releasing
                         /\ ctl \notin {"close", "stopJoiner", "joinJoiner",
                                        "create"}
    /\ queue = "open" => ~Releasing /\ ctl \notin {"stopJoiner", "joinJoiner"}
    /\ stopping => ctl \in {"joinJoiner", "stopReader"}
    /\ Releasing => jnr = "none"
    /\ ctl \in {"join", "release"} => rdr = "off"
    /\ ctl = "release" => wkr = "none"

\* Reader and joiner take turns: a reader is replaced once it has ended.
TurnInv ==
    /\ jnr = "reset" => ~readerEnded
    /\ jnr = "reset" \/ (jnr # "none" /\ readerEnded) => rdr = "ended"
    /\ rdr \in {"stream", "put", "tooLarge", "close"} =>
         jnr \in {"wait", "done", "none"}
    /\ jnr \in {"open", "run", "endOfStream"} => rdr = "off"
    /\ rdr # "off" => reader \in 1..Len(files) /\ next = reader + 1
    /\ jnr = "open" => next <= Len(files)
    /\ jnr = "run" => reader >= 1 /\ next = reader + 1
    /\ jnr = "endOfStream" => next = Len(files) + 1
    /\ rdr # "off" => pos <= files[reader].frames
    /\ Receiving => pos >= 1
    /\ rdr = "ended" => pos = files[reader].frames
    /\ rdr = "close" \/ jnr = "errorClose" => told

\* How far the frames that are recorded have come.
OrderInv ==
    /\ queue # "none" => InOrder(files, Recorded)
    /\ queue = "open" =>
         /\ rdr \in {"stream", "ended"} => Upto(files, Recorded, reader, pos)
         /\ rdr = "put" => Upto(files, Recorded, reader, pos - 1)
         /\ jnr = "open" => Upto(files, Recorded, next, 0)
         /\ jnr = "run" => Upto(files, Recorded, reader, 0)
         /\ jnr = "endOfStream" => Upto(files, Recorded, Len(files) + 1, 0)
    /\ queue = "closed" /\ ~told /\ state # "Idle" =>
         Upto(files, Recorded, Len(files) + 1, 0)

Ending == wkr \in {"reason", "exchange", "undo"}

\* What the worker has sent, and why it ends.
WorkInv ==
    /\ wkr = "first" => frame = NoFrame
    /\ wkr \in {"top", "send", "sent", "next"} \/ Ending => frame # NoFrame
    /\ wkr \in {"sent", "next"} \/ Ending => sent # <<>> /\ Last(sent) = frame
    /\ Ending => queue = "closed" /\ buffer = <<>>
    /\ stopReason = "EndOfFiles" =>
         queue = "closed" /\ buffer = <<>> /\ sent # <<>> /\ Last(sent) = frame

PlaceInv == TypeOK /\ FramesTyped /\ ControlInv /\ TurnInv /\ WorkInv
IInv == PlaceInv /\ OrderInv

\* The first state.
LEMMA InitPlaces == Init => PlaceInv
  <1> SUFFICES ASSUME Init PROVE PlaceInv
    OBVIOUS
  <1>1. TypeOK
    <2>1. /\ error \in BOOLEAN /\ stopping \in BOOLEAN
          /\ stopRequested \in BOOLEAN /\ readerEnded \in BOOLEAN
          /\ building \in BOOLEAN /\ told \in BOOLEAN
      BY Zenon DEF Init
    <2>2. /\ Len(buffer) \in 0..QueueFrames
          /\ files \in Seq(Entries) /\ next \in 1..Len(files) + 1
          /\ reader \in 0..Len(files)
          /\ builds \in 0..MaxBuilds /\ starts \in 0..MaxStarts
      BY RecordAssumption, SMT DEF Init, RecordAssumption, NoReader
    <2> QED
      BY <2>1, <2>2, Zenon DEF Init, TypeOK
  <1>2. FramesTyped
    BY DEF Init, FramesTyped, Sample, NoFrame
  <1>3. ControlInv /\ TurnInv /\ WorkInv
    BY DEF Init, ControlInv, TurnInv, WorkInv, Building, Releasing, Ending,
           Receiving
  <1> QED
    BY <1>1, <1>2, <1>3 DEF PlaceInv

\* Destroy and BuildRecording, step by step.
LEMMA ControllerKeepsPlaces ==
    ASSUME PlaceInv, ControllerStep
    PROVE  PlaceInv'
  <1> USE RecordAssumption
      DEF RecordAssumption, PlaceInv, TypeOK, FramesTyped, ControlInv, TurnInv,
          WorkInv, Building, Releasing, Ending, Receiving, joining, reading,
          working
  <1>1. CASE DestroyClose
    BY <1>1 DEF DestroyClose
  <1>2. CASE JoinerStop
    BY <1>2 DEF JoinerStop
  <1>3. CASE JoinerStopJoin
    BY <1>3 DEF JoinerStopJoin
  <1>4. CASE JoinerStopReader
    <2>1. TypeOK'
      <3>1. stopping' \in BOOLEAN
        BY <1>4, Zenon DEF JoinerStopReader
      <3>2. reader' \in 0..Len(files')
        BY <1>4 DEF JoinerStopReader, StopReader, NoReader
      <3> QED
        BY <1>4, <3>1, <3>2 DEF JoinerStopReader, StopReader
    <2>2. FramesTyped'
      BY <1>4 DEF JoinerStopReader, StopReader, NoReader
    <2>3. ControlInv'
      BY <1>4 DEF JoinerStopReader, StopReader, NoReader
    <2>4. TurnInv'
      BY <1>4 DEF JoinerStopReader, StopReader, NoReader
    <2>5. WorkInv'
      BY <1>4 DEF JoinerStopReader, StopReader, NoReader
    <2> QED
      BY <2>1, <2>2, <2>3, <2>4, <2>5
  <1>5. CASE DestroyJoin
    BY <1>5 DEF DestroyJoin
  <1>6. CASE DestroyRelease
    BY <1>6 DEF DestroyRelease
  <1>7. CASE BuildCreate
    <2>1. CASE UNCHANGED <<state, queue, files, next, reader>>
                 /\ ctl' = "ready"
      BY <1>7, <2>1 DEF BuildCreate
    <2>2. CASE /\ \E text \in Texts : files' = Filenames(text)
               /\ files' # <<>>
               /\ reader' = 1 /\ next' = 2
               /\ queue' = "open"
               /\ state' = "RecordPaused"
               /\ ctl' = "runJoiner"
      <3>1. files' \in Seq(Entries) /\ Len(files') >= 1
        <4>1. files' \in Seq(Entries) /\ files' # <<>>
          BY <2>2, FilenamesTyped, Zenon
        <4> QED
          BY <4>1
      <3>2. TypeOK'
        <4>1. error' \in BOOLEAN /\ told' \in BOOLEAN
          BY <1>7, Zenon DEF BuildCreate
        <4>2. reader' \in 0..Len(files') /\ next' \in 1..Len(files') + 1
          BY <2>2, <3>1
        <4> QED
          BY <1>7, <2>2, <3>1, <4>1, <4>2 DEF BuildCreate
      <3>3. FramesTyped'
        BY <1>7, <2>2, <3>1 DEF BuildCreate
      <3>4. ControlInv'
        BY <1>7, <2>2, <3>1 DEF BuildCreate
      <3>5. TurnInv'
        BY <1>7, <2>2, <3>1 DEF BuildCreate
      <3>6. WorkInv'
        BY <1>7, <2>2, <3>1 DEF BuildCreate
      <3> QED
        BY <3>2, <3>3, <3>4, <3>5, <3>6
    <2> QED
      BY <1>7, <2>1, <2>2 DEF BuildCreate
  <1>8. CASE BuildRunJoiner
    BY <1>8 DEF BuildRunJoiner
  <1>9. CASE BuildRunReader
    BY <1>9 DEF BuildRunReader, RunReader
  <1>10. CASE BuildStartWorker
    BY <1>10 DEF BuildStartWorker
  <1>11. CASE StartExchange
    BY <1>11 DEF StartExchange
  <1> QED
    BY <1>1, <1>2, <1>3, <1>4, <1>5, <1>6, <1>7, <1>8, <1>9, <1>10, <1>11
    DEF ControllerStep

\* The frames of the file that plays, and its end.
LEMMA ReaderKeepsPlaces ==
    ASSUME PlaceInv, ReaderStep
    PROVE  PlaceInv'
  <1> USE RecordAssumption
      DEF RecordAssumption, PlaceInv, TypeOK, FramesTyped, ControlInv, TurnInv,
          WorkInv, Building, Releasing, Ending, Receiving, joining, reading,
          working, ReaderUnchanged,
          control
  <1>1. CASE HandleFrame
    <2>1. files[reader].frames \in Nat
      BY <1>1 DEF HandleFrame
    <2>2. rdr' \in {"stream", "put", "tooLarge"} /\ pos' = pos + 1
          /\ pos' \in 1..files[reader].frames
      BY <1>1, <2>1 DEF HandleFrame
    <2> QED
      BY <1>1, <2>1, <2>2 DEF HandleFrame
  <1>2. CASE HandleFramePut
    <2>1. <<reader, pos>> \in Sample
      BY <1>2 DEF HandleFramePut, Sample
    <2>2. CASE queue = "closed" /\ buffer' = buffer
      BY <1>2, <2>2 DEF HandleFramePut
    <2>3. CASE /\ queue = "open" /\ Len(buffer) < QueueFrames
               /\ buffer' = Append(buffer, <<reader, pos>>)
      <3>1. /\ buffer' \in Seq(Sample) /\ Len(buffer') = Len(buffer) + 1
        BY <2>1, <2>3
      <3> QED
        BY <1>2, <2>3, <3>1 DEF HandleFramePut
    <2> QED
      BY <1>2, <2>2, <2>3 DEF HandleFramePut
  <1>3. CASE HandleFrameTooLarge
    BY <1>3 DEF HandleFrameTooLarge
  <1>4. CASE HandleFrameClose
    BY <1>4 DEF HandleFrameClose
  <1>5. CASE EndOfStream
    BY <1>5 DEF EndOfStream, ReaderAtEnd
  <1> QED
    BY <1>1, <1>2, <1>3, <1>4, <1>5 DEF ReaderStep

\* The replacement of a reader, and the end of the files.
LEMMA JoinerKeepsPlaces ==
    ASSUME PlaceInv, JoinerStep
    PROVE  PlaceInv'
  <1> USE RecordAssumption
      DEF RecordAssumption, PlaceInv, TypeOK, FramesTyped, ControlInv, TurnInv,
          WorkInv, Building, Releasing, Ending, Receiving, joining, reading,
          working, JoinerUnchanged,
          control
  <1>1. CASE JoinerWait
    <2>1. readerEnded' \in BOOLEAN
      BY <1>1, Zenon DEF JoinerWait
    <2>2. CASE readerEnded /\ readerEnded' = FALSE /\ jnr' = "reset"
      BY <1>1, <2>1, <2>2 DEF JoinerWait
    <2>3. CASE /\ ~readerEnded /\ stopRequested /\ jnr' = "done"
               /\ UNCHANGED readerEnded
      BY <1>1, <2>1, <2>3 DEF JoinerWait
    <2> QED
      BY <1>1, <2>2, <2>3 DEF JoinerWait
  <1>2. CASE JoinerReset
    BY <1>2 DEF JoinerReset, StopReader, NoReader
  <1>3. CASE JoinerEndOfStream
    BY <1>3 DEF JoinerEndOfStream
  <1>4. CASE JoinerOpen
    BY <1>4 DEF JoinerOpen
  <1>5. CASE JoinerRun
    BY <1>5 DEF JoinerRun, RunReader
  <1>6. CASE SourceError
    BY <1>6 DEF SourceError
  <1>7. CASE SourceErrorClose
    BY <1>7 DEF SourceErrorClose
  <1> QED
    BY <1>1, <1>2, <1>3, <1>4, <1>5, <1>6, <1>7 DEF JoinerStep

\* Get returns a frame of some file, and leaves the rest.
LEMMA Taken ==
    ASSUME NEW queued \in Seq(Sample), queued # <<>>
    PROVE  /\ Head(queued) \in Sample /\ Head(queued) # NoFrame
           /\ Tail(queued) \in Seq(Sample)
           /\ Len(Tail(queued)) = Len(queued) - 1
  <1>1. Head(queued) \in Sample /\ Tail(queued) \in Seq(Sample)
        /\ Len(Tail(queued)) = Len(queued) - 1
    OBVIOUS
  <1> QED
    BY <1>1 DEF Sample, NoFrame

\* RecordLoop and FinishOnItsOwn.
LEMMA WorkerKeepsPlaces ==
    ASSUME PlaceInv, WorkerStep
    PROVE  PlaceInv'
  <1> USE RecordAssumption
      DEF RecordAssumption, PlaceInv, TypeOK, FramesTyped, ControlInv, TurnInv,
          WorkInv, Building, Releasing, Ending, Receiving, joining, reading,
          working, WorkerUnchanged,
          control
  <1>1. CASE LoopFirst
    <2>1. CASE TakeFrame /\ buffer # <<>> /\ wkr' = "top"
      <3>1. /\ frame' \in Sample /\ buffer' \in Seq(Sample)
            /\ Len(buffer') = Len(buffer) - 1 /\ frame' # NoFrame
        BY <2>1, Taken DEF TakeFrame
      <3> QED
        BY <1>1, <2>1, <3>1 DEF LoopFirst
    <2>2. CASE Drained /\ UNCHANGED <<buffer, frame>> /\ wkr' = "dead"
      BY <1>1, <2>2 DEF LoopFirst, Drained
    <2> QED
      BY <1>1, <2>1, <2>2 DEF LoopFirst
  <1>2. CASE LoopTest
    BY <1>2 DEF LoopTest
  <1>3. CASE LoopSend
    <2>1. CASE sent' = Append(sent, frame) /\ wkr' = "sent"
      <3>1. frame \in Sample
        BY <1>3 DEF LoopSend
      <3>2. /\ sent' \in Seq(Sample) /\ Len(sent') = Len(sent) + 1
            /\ sent'[Len(sent) + 1] = frame
        BY <2>1, <3>1
      <3>3. sent' # <<>> /\ Last(sent') = frame
        BY <3>2 DEF Last
      <3> QED
        BY <1>3, <2>1, <3>2, <3>3 DEF LoopSend
    <2>2. CASE sent' = sent /\ sent # <<>> /\ Last(sent) = frame
               /\ wkr' = "sent"
      BY <1>3, <2>2 DEF LoopSend
    <2>3. CASE sent' = sent /\ wkr' = "failed"
      BY <1>3, <2>3 DEF LoopSend
    <2> QED
      BY <1>3, <2>1, <2>2, <2>3 DEF LoopSend
  <1>4. CASE LoopRecording
    BY <1>4 DEF LoopRecording
  <1>5. CASE LoopNext
    <2>1. CASE TakeFrame /\ buffer # <<>> /\ wkr' = "top"
      <3>1. /\ frame' \in Sample /\ buffer' \in Seq(Sample)
            /\ Len(buffer') = Len(buffer) - 1 /\ frame' # NoFrame
        BY <2>1, Taken DEF TakeFrame
      <3> QED
        BY <1>5, <2>1, <3>1 DEF LoopNext
    <2>2. CASE Drained /\ UNCHANGED <<buffer, frame>> /\ wkr' = "reason"
      BY <1>5, <2>2 DEF LoopNext, Drained
    <2> QED
      BY <1>5, <2>1, <2>2 DEF LoopNext
  <1>6. CASE FinishReason
    BY <1>6 DEF FinishReason
  <1>7. CASE FinishExchange
    BY <1>7 DEF FinishExchange
  <1>8. CASE FinishUndo
    BY <1>8 DEF FinishUndo
  <1>9. CASE ReportError
    BY <1>9 DEF ReportError
  <1> QED
    BY <1>1, <1>2, <1>3, <1>4, <1>5, <1>6, <1>7, <1>8, <1>9 DEF WorkerStep

\* The steps of the front end.
LEMMA CallsKeepPlaces ==
    ASSUME PlaceInv,
           \/ \E isBuild \in BOOLEAN : Destroy(isBuild)
           \/ StartRecording \/ StopRecording \/ TakeError
           \/ UNCHANGED vars
    PROVE  PlaceInv'
  <1> USE RecordAssumption
      DEF RecordAssumption, PlaceInv, TypeOK, FramesTyped, ControlInv, TurnInv,
          WorkInv, Building, Releasing, Ending, Receiving, joining, reading,
          working, control
  <1>1. ASSUME NEW isBuild \in BOOLEAN, Destroy(isBuild)
        PROVE  PlaceInv'
    BY <1>1 DEF Destroy
  <1>2. CASE StartRecording
    BY <1>2 DEF StartRecording
  <1>3. CASE StopRecording
    BY <1>3 DEF StopRecording
  <1>4. CASE TakeError
    <2>1. error' \in BOOLEAN
      BY <1>4, Zenon DEF TakeError
    <2> QED
      BY <1>4, <2>1 DEF TakeError
  <1>5. CASE UNCHANGED vars
    BY <1>5 DEF vars
  <1> QED
    BY <1>1, <1>2, <1>3, <1>4, <1>5

\* Every step.
LEMMA PlacesKept == PlaceInv /\ [Next]_vars => PlaceInv'
  BY ControllerKeepsPlaces, ReaderKeepsPlaces, JoinerKeepsPlaces,
     WorkerKeepsPlaces, CallsKeepPlaces DEF Next

-----------------------------------------------------------------------------
(* The order of the frames                                                  *)

\* The next frame of the file that plays goes behind those before it.
LEMMA PutInOrder ==
    ASSUME NEW fs \in Seq(Entries), NEW s \in Seq(Sample),
           NEW f \in 1..Len(fs), NEW p \in 1..fs[f].frames,
           fs[f].frames \in Nat,
           InOrder(fs, s), Upto(fs, s, f, p - 1)
    PROVE  /\ InOrder(fs, Append(s, <<f, p>>))
           /\ Upto(fs, Append(s, <<f, p>>), f, p)
  <1> DEFINE t == Append(s, <<f, p>>)
  <1>1. /\ Len(t) = Len(s) + 1 /\ t # <<>>
        /\ t[Len(s) + 1] = <<f, p>>
        /\ \A i \in 1..Len(s) : t[i] = s[i]
    OBVIOUS
  <1>2. Upto(fs, t, f, p)
    BY <1>1 DEF Upto
  <1>3. \A i \in 1..Len(t) : /\ t[i][1] \in 1..Len(fs)
                             /\ t[i][2] \in 1..fs[t[i][1]].frames
    BY <1>1 DEF InOrder
  <1>4. t[1][2] = 1 /\ NoFrames(fs, 1, t[1][1] - 1)
    <2>1. CASE s = <<>>
      BY <1>1, <2>1 DEF Upto
    <2>2. CASE s # <<>>
      BY <1>1, <2>2 DEF InOrder
    <2> QED
      BY <2>1, <2>2
  <1>5. ASSUME NEW i \in 1..(Len(t) - 1)
        PROVE  After(fs, t[i], t[i + 1])
    <2>1. CASE i < Len(s)
      BY <1>1, <2>1 DEF InOrder
    <2>2. CASE i = Len(s)
      <3>1. s # <<>> /\ t[i] = s[Len(s)] /\ t[i + 1] = <<f, p>>
        BY <1>1, <2>2
      <3> QED
        BY <3>1 DEF Upto, After
    <2> QED
      BY <1>1, <2>1, <2>2
  <1> QED
    BY <1>1, <1>2, <1>3, <1>4, <1>5 DEF InOrder

\* A file that was read to its end leaves off where the next one begins.
LEMMA NextFile ==
    ASSUME NEW fs \in Seq(Entries), NEW s \in Seq(Sample),
           NEW f \in 1..Len(fs), fs[f].frames \in Nat,
           Upto(fs, s, f, fs[f].frames)
    PROVE  Upto(fs, s, f + 1, 0)
  <1>1. CASE s = <<>>
    BY <1>1 DEF Upto, NoFrames
  <1>2. CASE s # <<>>
    <2>1. s[Len(s)] \in Sample
      BY <1>2
    <2> QED
      BY <1>2, <2>1 DEF Upto, NoFrames, Sample
  <1> QED
    BY <1>1, <1>2

\* Frames stay recorded on their way through the worker.
LEMMA RecordedTyped == FramesTyped => Recorded \in Seq(Sample)
  BY DEF FramesTyped, Recorded, Unsent

\* A step that leaves the worker and the queue alone.
LEMMA RecordedSame ==
    UNCHANGED <<sent, frame, buffer>> => Recorded' = Recorded
  BY DEF Recorded, Unsent

\* A frame that is stored comes last.
LEMMA RecordedPut ==
    ASSUME FramesTyped, NEW f \in Sample, UNCHANGED <<sent, frame>>,
           buffer' = Append(buffer, f)
    PROVE  Recorded' = Append(Recorded, f)
  <1>1. Unsent \in Seq(Sample) /\ Unsent' = Unsent
    BY DEF Unsent, FramesTyped
  <1>2. Recorded' = (sent \o Unsent) \o Append(buffer, f)
    BY <1>1 DEF Recorded
  <1> QED
    BY <1>1, <1>2 DEF Recorded, FramesTyped

\* A frame that is taken keeps its place: it is not the one sent before, which
\* would otherwise hide it.
LEMMA RecordedTaken ==
    ASSUME FramesTyped, InOrder(files, Recorded), buffer # <<>>, TakeFrame,
           Unsent = <<>>, sent' = sent
    PROVE  Recorded' = Recorded
  <1> DEFINE taken == Head(buffer)
  <1>1. /\ taken \in Sample /\ taken # NoFrame
        /\ Tail(buffer) \in Seq(Sample)
        /\ buffer = <<taken>> \o Tail(buffer)
    BY Taken DEF FramesTyped
  <1>2. Recorded = sent \o buffer
    BY DEF Recorded, FramesTyped
  <1>3. ~(sent # <<>> /\ Last(sent) = taken)
    <2> SUFFICES ASSUME sent # <<>>, Last(sent) = taken
                 PROVE  FALSE
      OBVIOUS
    <2> DEFINE n == Len(sent)
    <2>1. /\ n \in 1..(Len(Recorded) - 1)
          /\ Recorded[n] = taken /\ Recorded[n + 1] = taken
      BY <1>2 DEF FramesTyped, Last
    <2>2. After(files, taken, taken)
      BY <2>1 DEF InOrder
    <2> QED
      BY <1>1, <2>2 DEF After, Sample
  <1>4. Unsent' = <<taken>>
    BY <1>1, <1>3 DEF Unsent, TakeFrame
  <1>5. Recorded' = (sent \o <<taken>>) \o Tail(buffer)
    BY <1>4 DEF Recorded, TakeFrame
  <1>6. Recorded' = sent \o (<<taken>> \o Tail(buffer))
    BY <1>1, <1>5 DEF FramesTyped
  <1> QED
    BY <1>1, <1>2, <1>6

\* So does a frame that is sent, for the first time or again.
LEMMA RecordedSent ==
    ASSUME FramesTyped, frame # NoFrame, UNCHANGED <<frame, buffer>>,
           sent' = IF sent # <<>> /\ Last(sent) = frame
                   THEN sent ELSE Append(sent, frame)
    PROVE  Recorded' = Recorded
  <1>1. CASE sent # <<>> /\ Last(sent) = frame
    BY <1>1, RecordedSame
  <1>2. CASE ~(sent # <<>> /\ Last(sent) = frame)
    <2>1. /\ frame \in Sample /\ sent' = Append(sent, frame)
          /\ sent' # <<>> /\ Last(sent') = frame
      BY <1>2 DEF FramesTyped, Last
    <2>2. Unsent' = <<>> /\ Unsent = <<frame>>
      BY <1>2, <2>1 DEF Unsent
    <2>3. Recorded' = (Append(sent, frame) \o <<>>) \o buffer
      BY <2>1, <2>2 DEF Recorded
    <2>4. Append(sent, frame) \o <<>> = sent \o <<frame>>
      <3>1. Append(sent, frame) \in Seq(Sample) /\ sent \in Seq(Sample)
        BY <2>1 DEF FramesTyped
      <3>2. Append(sent, frame) \o <<>> = Append(sent, frame)
        BY <3>1
      <3>3. Append(sent, frame) = sent \o <<frame>>
        BY <2>1, <3>1
      <3> QED
        BY <3>2, <3>3
    <2> QED
      BY <2>2, <2>3, <2>4 DEF Recorded
  <1> QED
    BY <1>1, <1>2

\* A new pipeline has recorded nothing; an old one records no more.
LEMMA ControllerKeepsOrder ==
    ASSUME IInv, ControllerStep
    PROVE  OrderInv'
  <1> USE DEF IInv, PlaceInv, TypeOK, ControlInv, TurnInv, OrderInv,
              Building, Releasing, Receiving, joining, reading, working
  <1>1. CASE DestroyClose
    BY <1>1, RecordedSame DEF DestroyClose
  <1>2. CASE JoinerStop
    BY <1>2, RecordedSame DEF JoinerStop
  <1>3. CASE JoinerStopJoin
    BY <1>3, RecordedSame DEF JoinerStopJoin
  <1>4. CASE JoinerStopReader
    BY <1>4, RecordedSame DEF JoinerStopReader, StopReader
  <1>5. CASE DestroyJoin
    BY <1>5, RecordedSame DEF DestroyJoin
  <1>6. CASE DestroyRelease
    BY <1>6 DEF DestroyRelease
  <1>7. CASE BuildCreate
    <2>1. buffer' = <<>> /\ Unsent' = <<>> /\ sent' = <<>>
      BY <1>7 DEF BuildCreate, Unsent
    <2>2. Recorded' = <<>>
      BY <2>1 DEF Recorded
    <2>3. InOrder(files', Recorded')
      BY <2>2 DEF InOrder
    <2> QED
      BY <1>7, <2>3 DEF BuildCreate
  <1>8. CASE BuildRunJoiner
    BY <1>8, RecordedSame DEF BuildRunJoiner
  <1>9. CASE BuildRunReader
    <2>1. Unsent = <<>>
      BY <1>9 DEF BuildRunReader, Unsent
    <2>2. Recorded = <<>>
      BY <1>9, <2>1 DEF BuildRunReader, Recorded
    <2>3. Upto(files, Recorded, 1, 0)
      BY <2>2 DEF Upto, NoFrames
    <2> QED
      BY <1>9, <2>3, RecordedSame DEF BuildRunReader, RunReader
  <1>10. CASE BuildStartWorker
    BY <1>10, RecordedSame DEF BuildStartWorker
  <1>11. CASE StartExchange
    BY <1>11, RecordedSame DEF StartExchange
  <1> QED
    BY <1>1, <1>2, <1>3, <1>4, <1>5, <1>6, <1>7, <1>8, <1>9, <1>10, <1>11
    DEF ControllerStep

\* Only HandleFramePut records a frame, the next of the file.
LEMMA ReaderKeepsOrder ==
    ASSUME IInv, ReaderStep
    PROVE  OrderInv'
  <1> USE DEF IInv, PlaceInv, TypeOK, ControlInv, TurnInv, OrderInv,
              Building, Releasing, Receiving, joining, reading, working,
              ReaderUnchanged
  <1>1. CASE HandleFrame
    <2>1. queue = "open" => rdr' \in {"put", "tooLarge"}
      BY <1>1 DEF HandleFrame
    <2>2. pos' = pos + 1 /\ pos' - 1 = pos
      BY <1>1 DEF HandleFrame, FramesTyped
    <2> QED
      BY <1>1, <2>1, <2>2, RecordedSame DEF HandleFrame
  <1>2. CASE HandleFramePut
    <2>1. CASE queue = "closed" /\ UNCHANGED buffer
      BY <1>2, <2>1, RecordedSame DEF HandleFramePut
    <2>2. CASE queue = "open" /\ buffer' = Append(buffer, <<reader, pos>>)
      <3>1. /\ <<reader, pos>> \in Sample
            /\ reader \in 1..Len(files) /\ pos \in 1..files[reader].frames
            /\ files[reader].frames \in Nat
        BY <1>2, RecordAssumption
        DEF HandleFramePut, Sample, FramesTyped, RecordAssumption
      <3>2. Recorded' = Append(Recorded, <<reader, pos>>)
        BY <1>2, <2>2, <3>1, RecordedPut DEF HandleFramePut
      <3>3. /\ InOrder(files, Recorded')
            /\ Upto(files, Recorded', reader, pos)
        BY <1>2, <2>2, <3>1, <3>2, PutInOrder, RecordedTyped
        DEF HandleFramePut
      <3> QED
        BY <1>2, <2>2, <3>3 DEF HandleFramePut
    <2> QED
      BY <1>2, <2>1, <2>2 DEF HandleFramePut
  <1>3. CASE HandleFrameTooLarge
    BY <1>3, RecordedSame DEF HandleFrameTooLarge
  <1>4. CASE HandleFrameClose
    BY <1>4, RecordedSame DEF HandleFrameClose
  <1>5. CASE EndOfStream
    BY <1>5, RecordedSame DEF EndOfStream, ReaderAtEnd
  <1> QED
    BY <1>1, <1>2, <1>3, <1>4, <1>5 DEF ReaderStep

\* The next file begins where the one before left off.
LEMMA JoinerKeepsOrder ==
    ASSUME IInv, JoinerStep
    PROVE  OrderInv'
  <1> USE DEF IInv, PlaceInv, TypeOK, ControlInv, TurnInv, OrderInv,
              Building, Releasing, Receiving, joining, reading, working,
              JoinerUnchanged
  <1>1. CASE JoinerWait
    BY <1>1, RecordedSame DEF JoinerWait
  <1>2. CASE JoinerReset
    <2>1. /\ reader \in 1..Len(files) /\ next = reader + 1
          /\ files[reader].frames \in Nat /\ pos = files[reader].frames
      BY <1>2, RecordAssumption DEF JoinerReset, RecordAssumption
    <2>2. queue = "open" => Upto(files, Recorded, next, 0)
      BY <1>2, <2>1, NextFile, RecordedTyped DEF JoinerReset
    <2>3. jnr' = "endOfStream" => next = Len(files) + 1
      BY <1>2, <2>1 DEF JoinerReset
    <2> QED
      BY <1>2, <2>2, <2>3, RecordedSame DEF JoinerReset, StopReader
  <1>3. CASE JoinerEndOfStream
    BY <1>3, RecordedSame DEF JoinerEndOfStream
  <1>4. CASE JoinerOpen
    BY <1>4, RecordedSame DEF JoinerOpen
  <1>5. CASE JoinerRun
    BY <1>5, RecordedSame DEF JoinerRun, RunReader
  <1>6. CASE SourceError
    BY <1>6, RecordedSame DEF SourceError
  <1>7. CASE SourceErrorClose
    BY <1>7, RecordedSame DEF SourceErrorClose
  <1> QED
    BY <1>1, <1>2, <1>3, <1>4, <1>5, <1>6, <1>7 DEF JoinerStep

\* The worker only passes frames on.
LEMMA WorkerKeepsOrder ==
    ASSUME IInv, WorkerStep
    PROVE  OrderInv'
  <1> USE DEF IInv, PlaceInv, TypeOK, ControlInv, TurnInv, OrderInv,
              Building, Releasing, Receiving, joining, reading, working,
              WorkerUnchanged, control
  <1>1. CASE LoopFirst
    <2>1. CASE buffer # <<>> /\ TakeFrame
      <3>1. Unsent = <<>>
        BY <1>1 DEF LoopFirst, WorkInv, Unsent
      <3>2. queue # "none" /\ Recorded' = Recorded
        BY <1>1, <2>1, <3>1, RecordedTaken DEF LoopFirst
      <3> QED
        BY <1>1, <3>2 DEF LoopFirst
    <2>2. CASE UNCHANGED <<buffer, frame>>
      BY <1>1, <2>2, RecordedSame DEF LoopFirst
    <2> QED
      BY <1>1, <2>1, <2>2 DEF LoopFirst
  <1>2. CASE LoopTest
    BY <1>2, RecordedSame DEF LoopTest
  <1>3. CASE LoopSend
    <2>1. Recorded' = Recorded
      BY <1>3, RecordedSame, RecordedSent DEF LoopSend, WorkInv
    <2> QED
      BY <1>3, <2>1 DEF LoopSend
  <1>4. CASE LoopRecording
    BY <1>4, RecordedSame DEF LoopRecording
  <1>5. CASE LoopNext
    <2>1. CASE buffer # <<>> /\ TakeFrame
      <3>1. Unsent = <<>>
        BY <1>5 DEF LoopNext, WorkInv, Unsent
      <3>2. queue # "none" /\ Recorded' = Recorded
        BY <1>5, <2>1, <3>1, RecordedTaken DEF LoopNext
      <3> QED
        BY <1>5, <3>2 DEF LoopNext
    <2>2. CASE UNCHANGED <<buffer, frame>>
      BY <1>5, <2>2, RecordedSame DEF LoopNext
    <2> QED
      BY <1>5, <2>1, <2>2 DEF LoopNext
  <1>6. CASE FinishReason
    BY <1>6, RecordedSame DEF FinishReason
  <1>7. CASE FinishExchange
    BY <1>7, RecordedSame DEF FinishExchange
  <1>8. CASE FinishUndo
    BY <1>8, RecordedSame DEF FinishUndo
  <1>9. CASE ReportError
    BY <1>9, RecordedSame DEF ReportError
  <1> QED
    BY <1>1, <1>2, <1>3, <1>4, <1>5, <1>6, <1>7, <1>8, <1>9 DEF WorkerStep

\* The steps of the front end.
LEMMA CallsKeepOrder ==
    ASSUME IInv,
           \/ \E isBuild \in BOOLEAN : Destroy(isBuild)
           \/ StartRecording \/ StopRecording \/ TakeError
           \/ UNCHANGED vars
    PROVE  OrderInv'
  <1> USE DEF IInv, OrderInv, joining, reading, working
  <1>1. ASSUME NEW isBuild \in BOOLEAN, Destroy(isBuild)
        PROVE  OrderInv'
    BY <1>1, RecordedSame DEF Destroy
  <1>2. CASE StartRecording
    BY <1>2, RecordedSame DEF StartRecording
  <1>3. CASE StopRecording
    BY <1>3, RecordedSame DEF StopRecording
  <1>4. CASE TakeError
    BY <1>4, RecordedSame DEF TakeError
  <1>5. CASE UNCHANGED vars
    BY <1>5, RecordedSame DEF vars
  <1> QED
    BY <1>1, <1>2, <1>3, <1>4, <1>5

\* The first state.
LEMMA InitInv == Init => IInv
  BY InitPlaces DEF Init, IInv, OrderInv

\* Every step.
LEMMA StepInv == IInv /\ [Next]_vars => IInv'
  <1> SUFFICES ASSUME IInv, [Next]_vars PROVE IInv'
    OBVIOUS
  <1>1. PlaceInv'
    BY PlacesKept DEF IInv
  <1>2. OrderInv'
    BY ControllerKeepsOrder, ReaderKeepsOrder, JoinerKeepsOrder,
       WorkerKeepsOrder, CallsKeepOrder DEF Next
  <1> QED
    BY <1>1, <1>2 DEF IInv

\* What holds in every reachable state of the record pipeline.
THEOREM Invariance == Spec => []IInv
  BY InitInv, StepInv, PTL DEF Spec

-----------------------------------------------------------------------------
(* The theorems                                                             *)

\* The variables of the record pipeline keep to their values.
THEOREM TypeCorrect == Spec => []TypeOK
  <1>1. IInv => TypeOK
    BY DEF IInv, PlaceInv
  <1> QED
    BY <1>1, Invariance, PTL

\* The tape gets every frame of every file in their order (CAVIJoiner,
\* RecordLoop), whoever of the four threads is ahead.
THEOREM TapeGetsFilesInOrder == Spec => []FilesInOrder
  <1>1. IInv => FilesInOrder
    BY DEF IInv, OrderInv, InOrder, After, NoFrames, FilesInOrder, IsFrame,
           IsFirst, Follows, Blank
  <1> QED
    BY <1>1, Invariance, PTL

\* A recording that finishes (FinishOnItsOwn) has sent the last frame there is,
\* or an error was reported.
THEOREM FinishedRecordingsAreComplete == Spec => []EndsWithLastFrame
  <1>1. IInv => EndsWithLastFrame
    <2> SUFFICES ASSUME IInv, state = "Finished", stopReason = "EndOfFiles",
                        ~told
                 PROVE  sent # <<>> /\ IsLast(Last(sent))
      BY DEF EndsWithLastFrame
    <2>1. /\ queue = "closed" /\ buffer = <<>> /\ sent \in Seq(Sample)
          /\ sent # <<>> /\ Last(sent) = frame /\ files \in Seq(Entries)
      BY DEF IInv, PlaceInv, WorkInv, FramesTyped, TypeOK
    <2>2. Unsent = <<>>
      BY <2>1 DEF Unsent
    <2>3. Recorded = sent
      BY <2>1, <2>2 DEF Recorded
    <2>4. Upto(files, sent, Len(files) + 1, 0) /\ InOrder(files, sent)
      BY <2>1, <2>3 DEF IInv, OrderInv
    <2>5. /\ Last(sent) = sent[Len(sent)] /\ Len(sent) \in 1..Len(sent)
          /\ sent[Len(sent)][1] \in 1..Len(files)
      BY <2>1, <2>4 DEF Last, InOrder
    <2> QED
      BY <2>1, <2>4, <2>5 DEF Upto, IsLast, Blank, NoFrames
  <1> QED
    BY <1>1, Invariance, PTL
=============================================================================
