----------------------------- MODULE CommandLine -----------------------------
(***************************************************************************)
(* core/CommandLine.  An argument is a word, and the duration it may be:   *)
(* the fields between the colons, each its number of characters and its    *)
(* value, and the digits behind the dot.  NotDecimal stands for a field or *)
(* a digit with any other character in it.                                 *)
(***************************************************************************)
EXTENDS Integers, Sequences, SequencesExt

UnitsPerSecond == 10000000
MaxFieldDigits == 9
NotDecimal == -1
Malformed == -1         \* nullopt of ParseField and ParseDuration

ParseField(field) ==
    IF field.size \in 1..MaxFieldDigits THEN field.value ELSE Malformed

\* Digits past 100 ns are accepted and ignored.
Fraction(digits) ==
    FoldLeft(LAMBDA sum, i : sum + digits[i] * (UnitsPerSecond \div 10^i), 0,
             [i \in 1..(IF Len(digits) < 7 THEN Len(digits) ELSE 7) |-> i])

Seconds(fields) ==
    FoldLeft(LAMBDA sum, field : sum * 60 + ParseField(field), 0, fields)

ParseDuration(text) ==
    IF \/ NotDecimal \in ToSet(text.fraction)
       \/ Len(text.fields) > 3
       \/ \E i \in DOMAIN text.fields : ParseField(text.fields[i]) = Malformed
      THEN Malformed
      ELSE Seconds(text.fields) * UnitsPerSecond + Fraction(text.fraction)

Interactive ==
    [mode |-> "interactive", exitOnFinish |-> FALSE, duration |-> 0,
     files |-> <<>>]
UsageError == [Interactive EXCEPT !.mode = "usage"]

\* "capture" takes a duration and a file, "record" files; "-exit" comes first.
ParseCommandLine(args) ==
    LET exit == Len(args) > 1 /\ args[2].word = "-exit"
        rest == SubSeq(args, IF exit THEN 3 ELSE 2, Len(args))
        duration == ParseDuration(rest[1].duration)
        command(mode, time, files) ==
            [mode |-> mode, exitOnFinish |-> exit, duration |-> time,
             files |-> [i \in DOMAIN files |-> files[i].word]]
    IN  CASE args = <<>> -> Interactive
          [] args # <<>> /\ args[1].word = "capture" /\ Len(rest) = 2 ->
               IF duration = Malformed
                 THEN UsageError
                 ELSE command("capture", duration, Tail(rest))
          [] args # <<>> /\ args[1].word = "record" /\ rest # <<>> ->
               command("record", 0, rest)
          [] OTHER -> UsageError
=============================================================================
