SPECIFICATION Spec
CONSTANTS
    QueueFrames = 1
    DiskCheckFrames = 2
    LossPolls = 2
    Limits <- MCLongFiles
    EveryNth = 1
    Durations <- MCDurations
    MaxFrames = 3
    MaxRecs = 2
    MaxBuilds = 1
INVARIANTS
    WritesItsOwnFile
