------------------------------ MODULE DVTimecode ------------------------------
(***************************************************************************)
(* core/DVTimecode: the recording time that a DV frame carries.  A frame   *)
(* is its size with the packs of its subcode blocks, in their order; a     *)
(* pack is its five bytes, the first of which is its id.                   *)
(***************************************************************************)
EXTENDS Integers, Sequences, SequencesExt

FrameSizePAL == 144000
FrameSizeNTSC == 120000
NoPack == <<>>
NoTime == 0         \* what CaptureLoop makes of no time

FindSSYBPack(frame, id) ==
    LET at == SelectInSeq(frame.packs, LAMBDA pack : pack[1] = id)
    IN  IF at = 0 THEN NoPack ELSE frame.packs[at]

\* The flags above the tens digit are masked off; -1 unless both digits are
\* decimal ones.
DecodeBCD(value, tensMask) ==
    LET units == value % 16
        tens == (value \div 16) % (tensMask + 1)
    IN  IF units > 9 \/ tens > 9 THEN -1 ELSE tens * 10 + units

\* A day of 1950 to 2049, as the days since 1970; the 31st of a shorter month
\* is a day of the next one.
DaysBefore == <<0, 31, 59, 90, 120, 151, 181, 212, 243, 273, 304, 334>>
Days(year, month, day) ==
    365 * (year - 1970) + (year - 1969) \div 4 + DaysBefore[month] + day - 1
        + (IF month > 2 /\ year % 4 = 0 THEN 1 ELSE 0)

\* mktime, which knows no time before 1970 (and here no time zone).
MkTime(tm) ==
    IF tm.year < 1970
      THEN -1
      ELSE ((Days(tm.year, tm.month, tm.day) * 24 + tm.hour) * 60 + tm.min)
               * 60 + tm.sec

InRange(tm) ==
    /\ tm.day \in 1..31 /\ tm.month \in 1..12 /\ tm.year >= 0
    /\ tm.sec \in 0..59 /\ tm.min \in 0..59 /\ tm.hour \in 0..23

\* Two packs are needed, and digits that make a time.
GetDVRecordingTime(frame) ==
    LET date == FindSSYBPack(frame, 98)
        time == FindSSYBPack(frame, 99)
        tm == [day |-> DecodeBCD(date[3], 3),
               month |-> DecodeBCD(date[4], 1),
               year |-> DecodeBCD(date[5], 15),
               sec |-> DecodeBCD(time[3], 7),
               min |-> DecodeBCD(time[4], 7),
               hour |-> DecodeBCD(time[5], 3)]
        century == IF tm.year < 50 THEN 2000 ELSE 1900
        result == MkTime([tm EXCEPT !.year = @ + century])
    IN  IF \/ frame.size \notin {FrameSizePAL, FrameSizeNTSC}
           \/ date = NoPack \/ time = NoPack
           \/ ~InRange(tm) \/ result = -1
          THEN NoTime ELSE result
=============================================================================
