--------------------------- MODULE SettingsStore ---------------------------
(***************************************************************************)
(* ui/Services/SettingsStore: the settings of a running WinDV, the values  *)
(* in the registry they are loaded from and saved to, and the list of date *)
(* formats used before.  One field stands for each kind of setting: the    *)
(* format and its history, a number with a range (SignalLossSeconds), a    *)
(* switch, a time and two release tags.                                    *)
(***************************************************************************)
EXTENDS Integers, Sequences, SequencesExt

CONSTANTS
    Absent,             \* a value that is not in the registry
    NaN,                \* what an empty number box holds
    NoFormat,           \* "", no date in the file name
    DefaultFormat,
    DefaultFormatHistory,
    MaxFormatHistory,
    DefaultSignalLossSeconds,
    MaxSignalLossSeconds  \* 3600

ASSUME SettingsAssumption ==
    /\ MaxFormatHistory \in Nat \ {0} /\ MaxSignalLossSeconds \in Nat
    /\ DefaultSignalLossSeconds \in 1..MaxSignalLossSeconds

\* The properties of a new SettingsStore; releases are numbered, 0 is "".
Defaults ==
    [format |-> DefaultFormat, history |-> DefaultFormatHistory, loss |-> 0,
     check |-> TRUE, last |-> 0, latest |-> 0, dismissed |-> 0]

\* A list of formats, without some of them.
Without(list, away) ==
    FoldLeft(LAMBDA kept, x : IF x \in away THEN kept ELSE Append(kept, x),
             <<>>, list)

Clamp(low, x, high) == Max({low, Min({x, high})})

\* Faulty: what another version stored is taken as it is.
LoadUnclamped(registry) ==
    [f \in DOMAIN Defaults |->
        IF registry[f] = Absent THEN Defaults[f] ELSE registry[f]]

\* Every value has a fallback, and numbers are brought into their range.
Load(registry) ==
    LET stored == [f \in DOMAIN Defaults |->
                    IF registry[f] = Absent THEN Defaults[f] ELSE registry[f]]
    IN  [stored EXCEPT
            !.history = Without(@, {NoFormat}),
            !.loss = Clamp(0, @, MaxSignalLossSeconds)]

SaveOrder ==
    <<"format", "history", "loss", "check", "last", "latest", "dismissed">>

\* The registry when Save wrote the first n values.
Save(registry, settings, n) ==
    [f \in DOMAIN settings |->
        IF \E i \in 1..n : SaveOrder[i] = f
        THEN settings[f] ELSE registry[f]]

Distinct(list) ==
    FoldLeft(LAMBDA seen, x : IF Contains(seen, x) THEN seen
                                                   ELSE Append(seen, x),
             <<>>, list)

Take(list) == SubSeq(list, 1, Min({Len(list), MaxFormatHistory}))

\* Faulty: the format that becomes current stays in the history.
UseDateTimeFormatKept(settings, format) ==
    [settings EXCEPT
        !.history = Take(Without(<<settings.format>> \o @, {NoFormat})),
        !.format = format]

\* Makes format the current one; the old one moves into the history.
UseDateTimeFormat(settings, format) ==
    [settings EXCEPT
        !.history = Take(Distinct(Without(<<settings.format>> \o @,
                                          {NoFormat, format}))),
        !.format = format]

-----------------------------------------------------------------------------
(* The settings page                                                       *)

\* The formats that the page offers beside the current one.
Offered(settings) ==
    Without(settings.history, {settings.format})

ReadNumber(box, minimum, fallback) ==
    IF box = NaN THEN fallback ELSE Max({minimum, box})

\* What Save_Click leaves, when the user chose this on the page.
FromPage(settings, page) ==
    [UseDateTimeFormat(settings, page.format) EXCEPT
        !.loss = IF page.lossOn
                 THEN Clamp(0, ReadNumber(page.lossBox, 1,
                                          DefaultSignalLossSeconds),
                            MaxSignalLossSeconds)
                 ELSE 0,
        !.check = page.check]
=============================================================================
