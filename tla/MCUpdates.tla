----------------------------- MODULE MCUpdates -----------------------------
(* Updates with what has been stored before, and the events of a scenario:  *)
(* one of the formats on the settings page, one of the checks, one of the   *)
(* installation.                                                            *)
EXTENDS Updates

CONSTANTS f1, f2, f3

Fresh == [f \in DOMAIN Defaults |-> Absent]
Later ==
    [format |-> f1, history |-> <<f3, NoFormat, f2, f3>>, loss |-> 9,
     check |-> FALSE, last |-> 2, latest |-> 2, dismissed |-> 2]
TheRegistries == {Fresh, Later}

TheHistory == <<f2>>
TheFormats == {NoFormat, f1, f2, f3}

Page(format, lossOn, lossBox, check) ==
    [format |-> format, lossOn |-> lossOn, lossBox |-> lossBox,
     check |-> check]
ThePages ==
    {Page(f, FALSE, NaN, TRUE) : f \in TheFormats} \union
    {Page(f1, TRUE, NaN, TRUE), Page(f1, TRUE, 9, TRUE),
     Page(f1, FALSE, NaN, FALSE)}

Events(start, crash, save, check, dismiss, try, clock, publish) ==
    [start |-> start, crash |-> crash, save |-> save, check |-> check,
     dismiss |-> dismiss, install |-> try, clock |-> clock,
     publish |-> publish]
TheBudgets ==
    {Events(2, 0, 3, 0, 0, 0, 0, 0), Events(2, 0, 1, 1, 2, 0, 0, 2),
     Events(2, 2, 0, 0, 0, 2, 1, 2)}
=============================================================================
