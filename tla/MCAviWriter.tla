---------------------------- MODULE MCAviWriter ----------------------------
(* AviWriter over two programs and the numbers around one and two digits.   *)
EXTENDS AviWriter
Programs == Permutations(Writers)
Around == {[width |-> 1, number |-> 9], [width |-> 2, number |-> 99]}

(* Frames that tell the 15th of July 2004, 13:45:30, with flags above the   *)
(* digits, or no time: digits that are none, a pack alone, an odd size.     *)
Date == <<98, 255, 213, 231, 4>>
Time == <<99, 255, 176, 197, 211>>
Blank(pack) == <<pack[1], 255, 255, 255, 255>>
Told(size, packs) == [size |-> size, packs |-> packs]
MCFrames ==
    {Told(FrameSizePAL, <<<<96, 255, 255, 255, 255>>, Date, Time>>),
     Told(FrameSizePAL, <<Blank(Date), Blank(Time)>>),
     Told(FrameSizeNTSC, <<Date>>), Told(FrameSizePAL - 1, <<Date, Time>>)}

\* The time in UTC, and times that are refused or carried over.
At(year, month, day) ==
    [year |-> year, month |-> month, day |-> day, hour |-> 0, min |-> 0,
     sec |-> 0]
ASSUME TimesDecoded ==
    /\ Dates = {NoTime, 1089899130}
    /\ MkTime(At(2000, 2, 30)) = MkTime(At(2000, 3, 1))
    /\ MkTime(At(2001, 2, 29)) = MkTime(At(2001, 3, 1))
    /\ MkTime(At(1969, 12, 31)) = -1
    /\ \A year \in 1970..2037 :
         Days(year + 1, 1, 1) - Days(year, 12, 31) = 1
=============================================================================
