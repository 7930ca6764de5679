SPECIFICATION Spec
CHECK_DEADLOCK FALSE
CONSTANTS
    Writers = {w1, w2}
    Digits = {0, 1}
    MaxDigits = 2
    CheckEvery = 2
    ForeignNumbers <- Around
    Frames <- MCFrames
    MaxCaptures = 2
    MaxForeign = 1
SYMMETRY Programs
INVARIANTS
    TypeOK
    NamesGrow
    ErrorsNoticed
PROPERTIES
    FinishedKept
    NameIsFree
