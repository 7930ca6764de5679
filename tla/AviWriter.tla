------------------------------ MODULE AviWriter ------------------------------
(***************************************************************************)
(* Captured files on the disk: engine/AviWriter and the engine/OutputGraph *)
(* under it, with the names that core/CaptureNaming picks from the         *)
(* listing of engine/FileFind.                                             *)
(*                                                                         *)
(* Several programs may capture into one folder, each with one writer at a *)
(* time; its user and other programs add and remove files there.  A name   *)
(* is looked for first and used later.  A file is written under a          *)
(* temporary name, "~" before its date, and gets its name at the end; it   *)
(* keeps the temporary one when its program crashes or the move fails.     *)
(* What of a frame was written shows when the file writer says so, by an   *)
(* event that waits for CheckForErrors.                                    *)
(***************************************************************************)
EXTENDS Naturals, Sequences, SequencesExt, DVTimecode

CONSTANTS
    Writers,        \* programs that capture into the folder
    Digits,         \* the settings of SuffixDigits they use
    MaxDigits,      \* kMaxDigits
    CheckEvery,     \* frames between two calls of CheckForErrors
    ForeignNumbers, \* numbers, as [width, number], that other files have
    Frames,         \* what a frame may tell of its recording time
    MaxCaptures,    \* bound: files opened
    MaxForeign      \* bound: files that others add or remove

ASSUME WriterAssumption ==
    /\ MaxDigits \in 1..9 /\ Digits \subseteq 0..MaxDigits
    /\ CheckEvery \in Nat \ {0}
    /\ IsFiniteSet(ForeignNumbers)
    /\ ForeignNumbers \subseteq [width : 1..MaxDigits, number : Nat]
    /\ \A k \in ForeignNumbers : k.number < 10^k.width
    /\ \A frame \in Frames :
         \A i \in DOMAIN frame.packs : frame.packs[i] \in Seq(0..255)
    /\ MaxCaptures \in Nat /\ MaxForeign \in Nat

VARIABLES
    dir,        \* the folder: names to what the file holds
    pc,         \* what each program's writer does
    tmpfile,    \* m_tmpfile
    filename,   \* the final name that Finish has looked for
    dvTime,     \* m_dvTime; NoTime means now
    ndigits,    \* m_ndigits
    since,      \* m_framesSinceCheck
    event,      \* an error event waits to be read
    unnoticed,  \* history: frames accepted since that event
    saved,      \* history: finished files and their names, in order
    captures, foreign

writer == <<tmpfile, filename, dvTime, ndigits>>
checks == <<since, event, unnoticed>>
history == <<saved, captures, foreign>>
vars == <<dir, pc, writer, checks, history>>

-----------------------------------------------------------------------------
(* Names                                                                   *)

TimeOf == [frame \in Frames |-> GetDVRecordingTime(frame)]
Dates == {TimeOf[frame] : frame \in Frames}
\* CaptureStem: the base, and the date where "~" marks a temporary name.
CaptureStem(temp, date) == [temp |-> temp, date |-> date]
Plain(stem) == [stem |-> stem, width |-> 0, number |-> 0]

\* A number takes as many digits as it needs, and at least width.
DigitsOf(number) ==
    CHOOSE k \in 1..10 : number < 10^k /\ (k = 1 \/ number >= 10^(k - 1))
Numbered(stem, width, number) ==
    [stem |-> stem, number |-> number,
     width |-> IF DigitsOf(number) > width THEN DigitsOf(number) ELSE width]

\* Names with that stem, in the order the file system likes.
FindFiles(stem) == SetToSeqs({name \in DOMAIN dir : name.stem = stem})

\* Faulty: a wider number raises the number, but not the width.
TakeNarrow(found, name) ==
    IF name.width = 0 THEN [found EXCEPT !.plainExists = TRUE]
    ELSE IF /\ name.width \in found.width..MaxDigits
            /\ name.number > found.highest \/ found.none
      THEN [found EXCEPT !.highest = name.number, !.none = FALSE]
      ELSE found

\* One candidate: narrower numbers are not ours, "a wider number is always a
\* later one, so restart the search there".
Take(found, name) ==
    IF name.width = 0 THEN [found EXCEPT !.plainExists = TRUE]
    ELSE IF /\ name.width \in found.width..MaxDigits
            /\ \/ name.width > found.width
               \/ name.number > found.highest \/ found.none
      THEN [found EXCEPT !.width = name.width, !.highest = name.number,
                         !.none = FALSE]
      ELSE found

\* Faulty: without digits there is one name.
NextCaptureFilenamePlain(stem, digits, existing) ==
    LET found == FoldLeft(Take, [width |-> digits, highest |-> 0,
                                 none |-> TRUE, plainExists |-> FALSE],
                          existing)
    IN  IF found.width = 0
          THEN Plain(stem)
          ELSE Numbered(stem, found.width,
                        IF found.none THEN 0 ELSE found.highest + 1)

\* "none" stands for highest = -1.
NextCaptureFilename(stem, digits, existing) ==
    LET found == FoldLeft(Take, [width |-> digits, highest |-> 0,
                                 none |-> TRUE, plainExists |-> FALSE],
                          existing)
    IN  IF found.width = 0 /\ ~found.plainExists
          THEN Plain(stem)
          ELSE Numbered(stem, found.width,
                        IF found.none THEN 0 ELSE found.highest + 1)

\* What NextCaptureFilename of AviWriter.cpp may return.
NextFree(stem, digits) ==
    {NextCaptureFilename(stem, digits, found) : found \in FindFiles(stem)}

-----------------------------------------------------------------------------

NoName == Plain(CaptureStem(FALSE, -1))
Foreign == [of |-> 0, open |-> FALSE]
Recording(id) == [of |-> id, open |-> TRUE]
With(name, content) ==
    [n \in DOMAIN dir \cup {name} |-> IF n = name THEN content ELSE dir[n]]
Without(name) == [n \in DOMAIN dir \ {name} |-> dir[n]]
Edited(f, w, value) == [f EXCEPT ![w] = value]

Init ==
    /\ \E numbers \in SUBSET ForeignNumbers, date \in Dates \ {NoTime} :
         dir = [n \in {[stem |-> CaptureStem(FALSE, date), width |-> k.width,
                        number |-> k.number] : k \in numbers} |-> Foreign]
    /\ pc = [w \in Writers |-> "none"]
    /\ tmpfile = [w \in Writers |-> NoName]
    /\ filename = [w \in Writers |-> NoName]
    /\ dvTime = [w \in Writers |-> NoTime]
    /\ ndigits = [w \in Writers |-> 0]
    /\ since = [w \in Writers |-> 0]
    /\ event = [w \in Writers |-> FALSE]
    /\ unnoticed = [w \in Writers |-> 0]
    /\ saved = <<>> /\ captures = 0 /\ foreign = 0

\* The writer is gone, and the program told of what it did not know.
Gone(w) ==
    /\ pc' = Edited(pc, w, "none")
    /\ tmpfile' = Edited(tmpfile, w, NoName)
    /\ filename' = Edited(filename, w, NoName)
    /\ dvTime' = Edited(dvTime, w, NoTime) /\ ndigits' = Edited(ndigits, w, 0)
    /\ since' = Edited(since, w, 0) /\ event' = Edited(event, w, FALSE)
    /\ unnoticed' = Edited(unnoticed, w, 0)

\* The constructor looks for a free temporary name ...
Create(w) ==
    /\ pc[w] = "none"
    /\ captures < MaxCaptures
    /\ \E frame \in Frames, digits \in Digits :
         /\ dvTime' = Edited(dvTime, w, TimeOf[frame])
         /\ ndigits' = Edited(ndigits, w, digits)
         /\ \E name \in NextFree(CaptureStem(TRUE, TimeOf[frame]), digits) :
              tmpfile' = Edited(tmpfile, w, name)
    /\ pc' = Edited(pc, w, "creating")
    /\ UNCHANGED <<dir, filename, checks, history>>

\* ... and creates or overwrites it; what somebody still writes to does not
\* open.
Run(w) ==
    /\ pc[w] = "creating"
    /\ IF tmpfile[w] \in DOMAIN dir /\ dir[tmpfile[w]].open
         THEN Gone(w) /\ UNCHANGED <<dir, captures>>
         ELSE /\ captures < MaxCaptures
              /\ captures' = captures + 1
              /\ dir' = With(tmpfile[w], Recording(captures'))
              /\ pc' = Edited(pc, w, "writing")
              /\ UNCHANGED <<writer, checks>>
    /\ UNCHANGED <<saved, foreign>>

-----------------------------------------------------------------------------
(* Frames                                                                  *)

\* An exception, which CapturingThread reports: the writer is destroyed.
Throws(w) ==
    /\ pc' = Edited(pc, w, "unwinding")

\* There is no buffer, the frame is too large or its delivery fails.
HandleFrameFails(w) ==
    /\ pc[w] = "writing"
    /\ Throws(w)
    /\ UNCHANGED <<dir, writer, since, event, unnoticed, history>>

\* Faulty: errors are read and dropped.
CheckForErrorsQuietly(w) ==
    /\ since' = Edited(since, w, 0)
    /\ UNCHANGED pc

CheckForErrors(w) ==
    /\ since' = Edited(since, w, 0)
    /\ IF event[w] THEN Throws(w) ELSE UNCHANGED pc

\* The first frame that tells its time tells that of the file.
TakeTime(w) ==
    \E frame \in Frames :
        dvTime' = Edited(dvTime, w, IF dvTime[w] = NoTime THEN TimeOf[frame]
                                                          ELSE dvTime[w])

\* Faulty: the count goes on.
HandleFrameCounts(w) ==
    /\ pc[w] = "writing"
    /\ TakeTime(w)
    /\ unnoticed' = IF event[w] THEN Edited(unnoticed, w, unnoticed[w] + 1)
                                ELSE unnoticed
    /\ since' = Edited(since, w, since[w] + 1)
    /\ IF since[w] + 1 >= CheckEvery /\ event[w]
         THEN Throws(w)
         ELSE UNCHANGED pc
    /\ UNCHANGED <<dir, tmpfile, filename, ndigits, event, history>>

\* A frame is accepted, and tells the recording time if none was known; after
\* CheckEvery frames the events are read.
HandleFrame(w) ==
    /\ pc[w] = "writing"
    /\ TakeTime(w)
    /\ unnoticed' = IF event[w] THEN Edited(unnoticed, w, unnoticed[w] + 1)
                                ELSE unnoticed
    /\ IF since[w] + 1 >= CheckEvery
         THEN CheckForErrors(w)
         ELSE since' = Edited(since, w, since[w] + 1)
              /\ UNCHANGED pc
    /\ UNCHANGED <<dir, tmpfile, filename, ndigits, event, history>>

\* The disk fails under the file writer, which posts an event.
DiskFails(w) ==
    /\ pc[w] = "writing" /\ ~event[w]
    /\ event' = Edited(event, w, TRUE)
    /\ UNCHANGED <<dir, pc, writer, since, unnoticed, history>>

-----------------------------------------------------------------------------
(* The end of a file                                                       *)

\* Finish, from CaptureLoop or from the destructor: the end of the stream goes
\* through and the graph stops, whatever event ended the wait for it.
Finish(w) ==
    /\ pc[w] \in {"writing", "unwinding"}
    /\ pc' = Edited(pc, w, "stopped")
    /\ dir' = [dir EXCEPT ![tmpfile[w]].open = FALSE]
    /\ since' = Edited(since, w, 0) /\ event' = Edited(event, w, FALSE)
    /\ unnoticed' = Edited(unnoticed, w, 0)
    /\ UNCHANGED <<writer, history>>

\* The final name is looked for, with the date that is known by now.
FinishName(w) ==
    /\ pc[w] = "stopped"
    /\ \E name \in NextFree(CaptureStem(FALSE, dvTime[w]), ndigits[w]) :
         filename' = Edited(filename, w, name)
    /\ pc' = Edited(pc, w, "moving")
    /\ UNCHANGED <<dir, tmpfile, dvTime, ndigits, checks, history>>

Closed(name) == name \in DOMAIN dir /\ ~dir[name].open

\* Faulty: MoveFileExW replaces what has the name.
MoveReplacing(w) ==
    /\ Closed(tmpfile[w])
    /\ dir' = [n \in (DOMAIN dir \ {tmpfile[w]}) \cup {filename[w]} |->
                 IF n = filename[w] THEN dir[tmpfile[w]] ELSE dir[n]]

\* MoveFileExW without flags: only to a name that nobody has.
Move(w) ==
    /\ Closed(tmpfile[w])
    /\ filename[w] \notin DOMAIN dir
    /\ dir' = [n \in (DOMAIN dir \ {tmpfile[w]}) \cup {filename[w]} |->
                 IF n = filename[w] THEN dir[tmpfile[w]] ELSE dir[n]]

\* The file is moved, or left under its temporary name: which is reported, but
\* by the destructor, when an error was reported before.
FinishMove(w) ==
    /\ pc[w] = "moving"
    /\ Gone(w)
    /\ \/ /\ Move(w)
          /\ saved' = Append(saved, [by |-> w, name |-> filename[w],
                                     of |-> dir[tmpfile[w]].of])
       \/ /\ ~Closed(tmpfile[w]) \/ filename[w] \in DOMAIN dir
          /\ UNCHANGED <<dir, saved>>
    /\ UNCHANGED <<captures, foreign>>

\* The program is ended; its file stays as it is.
Crash(w) ==
    /\ pc[w] # "none"
    /\ Gone(w)
    /\ dir' = IF pc[w] \in {"writing", "unwinding"}
                THEN [dir EXCEPT ![tmpfile[w]].open = FALSE]
                ELSE dir
    /\ UNCHANGED history

-----------------------------------------------------------------------------
(* Others                                                                  *)

\* A closed file goes, or one with a name like ours comes.
RemoveFile ==
    /\ foreign < MaxForeign /\ foreign' = foreign + 1
    /\ \E n \in DOMAIN dir : Closed(n) /\ dir' = Without(n)
    /\ UNCHANGED <<pc, writer, checks, saved, captures>>

AddFile ==
    /\ foreign < MaxForeign /\ foreign' = foreign + 1
    /\ \E k \in ForeignNumbers \cup {[width |-> 0, number |-> 0]},
          date \in Dates :
         LET n == [stem |-> CaptureStem(FALSE, date), width |-> k.width,
                   number |-> k.number]
         IN  n \notin DOMAIN dir /\ dir' = With(n, Foreign)
    /\ UNCHANGED <<pc, writer, checks, saved, captures>>

Next ==
    \/ \E w \in Writers :
         \/ Create(w) \/ Run(w) \/ HandleFrame(w) \/ HandleFrameFails(w)
         \/ DiskFails(w) \/ Finish(w) \/ FinishName(w) \/ FinishMove(w)
         \/ Crash(w)
    \/ RemoveFile \/ AddFile

Spec == Init /\ [][Next]_vars

-----------------------------------------------------------------------------
(* Properties                                                              *)

\* Every variable keeps to its values.
TypeOK ==
    /\ \A w \in Writers :
         /\ pc[w] \in {"none", "creating", "writing", "unwinding", "stopped",
                       "moving"}
         /\ tmpfile[w].width \in Nat /\ filename[w].width \in Nat
         /\ dvTime[w] \in Dates \cup {NoTime}
         /\ ndigits[w] \in 0..MaxDigits
         /\ since[w] \in 0..(CheckEvery - 1)
         /\ pc[w] \in {"writing", "unwinding"} =>
              tmpfile[w] \in DOMAIN dir /\ dir[tmpfile[w]].open
    /\ captures \in 0..MaxCaptures /\ foreign \in 0..MaxForeign

\* Whoever captures into the folder at the same time, under whatever settings,
\* no file that has its final name is overwritten or lost (the flags of
\* MoveFileExW, AviWriter.cpp:88).
FinishedKept ==
    [][foreign' = foreign =>
         \A n \in DOMAIN dir : ~n.stem.temp =>
             n \in DOMAIN dir' /\ dir'[n] = dir[n]]_vars

\* A name that was just picked is free: also the temporary one, which would be
\* overwritten with what an earlier crash left behind.  Nine digits may run
\* out ("too long to be one of ours", CaptureNamingTests.cpp:71).
RunOut == \E n \in DOMAIN dir : n.number >= 10^MaxDigits
NameIsFree ==
    [][\A w \in Writers : ~RunOut =>
         /\ tmpfile'[w] \notin DOMAIN dir
              \/ tmpfile'[w] \in {tmpfile[w], NoName}
         /\ filename'[w] \notin DOMAIN dir
              \/ filename'[w] \in {filename[w], NoName}]_vars

\* "continuing after the highest existing number" (CaptureNaming.h:21): the
\* files of one program that are still there keep the order they were captured
\* in, in the order of their widths and numbers, also when the settings change
\* in between.
Later(a, b) ==
    a.width < b.width \/ (a.width = b.width /\ a.number < b.number)
StillThere(file) == file.name \in DOMAIN dir /\ dir[file.name].of = file.of
NamesGrow ==
    \A i, j \in DOMAIN saved :
        LET a == saved[i]
            b == saved[j]
        IN  i < j /\ a.by = b.by /\ a.name.stem = b.name.stem
              /\ StillThere(a) /\ StillThere(b) /\ a.name.width <= MaxDigits
              => Later(a.name, b.name)

\* "HandleFrame calls it about once a second" (OutputGraph.h:30): while frames
\* come, fewer than CheckEvery of them follow a write error unnoticed.
ErrorsNoticed ==
    \A w \in Writers : pc[w] = "writing" => unnoticed[w] < CheckEvery
=============================================================================
