-------------------------- MODULE MCMainViewModel --------------------------
(* MainViewModel over a number of events that its configurations choose,    *)
(* with a camcorder beside a webcam, and command lines of every kind.       *)
EXTENDS MainViewModel

Usb(name) == [name |-> name, path |-> "usb#"]
MCCamcorder == [name |-> "camcorder", path |-> "avc#"]
MCOthers == <<Usb("webcam"), Usb(NoName)>>

Field(value) == [size |-> 2, value |-> value]
Duration(fields, fraction) == [fields |-> fields, fraction |-> fraction]
Word(word) ==
    [word |-> word,
     duration |-> Duration(<<Field(NotDecimal)>>, <<>>)]
Time(fields, fraction) ==
    [word |-> "time", duration |-> Duration(fields, fraction)]
OneMinute == Time(<<Field(1), Field(0)>>, <<5>>)
MCCommandLines ==
    {<<>>,
     <<Word("capture"), OneMinute, Word("tape")>>,
     <<Word("capture"), Word("-exit"), OneMinute, Word("tape")>>,
     <<Word("capture"), Word("tape"), OneMinute>>,
     <<Word("record"), Word("a.avi")>>,
     <<Word("record"), Word("-exit"), Word("a.avi"), Word("b.avi")>>,
     <<Word("record"), Word("-exit")>>}

(* A duration is refused or its parts count for what they are worth, up to  *)
(* the tenths of a microsecond that a number of TLC can hold.               *)
Small == {Field(0), Field(59), Field(NotDecimal)}
Fields == UNION {[1..n -> Small] : n \in 1..4}
Fractions == {<<>>, <<5>>, <<2, NotDecimal>>, [i \in 1..9 |-> i]}
At(fields, back) ==
    IF back < Len(fields) THEN fields[Len(fields) - back].value ELSE 0
Worth(fraction) ==
    CASE fraction = <<>> -> 0
      [] fraction = <<5>> -> 5000000
      [] OTHER -> 1234567
ASSUME DurationsParsed ==
    \A fields \in Fields, fraction \in Fractions :
        LET refused == \/ Len(fields) > 3 \/ fraction = <<2, NotDecimal>>
                       \/ \E i \in DOMAIN fields : fields[i].value = NotDecimal
            seconds == At(fields, 0) + 60 * At(fields, 1)
                           + 3600 * At(fields, 2)
        IN  seconds < 200 =>
                ParseDuration(Duration(fields, fraction)) =
                    IF refused THEN Malformed
                    ELSE seconds * UnitsPerSecond + Worth(fraction)
ASSUME UsageErrors ==
    {ParseCommandLine(args).mode : args \in MCCommandLines} =
        {"interactive", "capture", "record", "usage"}
ASSUME WebcamListed == GetVideoDeviceList(MCOthers) = <<"webcam">>
=============================================================================
