SPECIFICATION FairSpec
CONSTANTS
    QueueFrames = 1
    DiskCheckFrames = 2
    LossPolls = 1
    Limits <- MCLimits
    EveryNth = 1
    Durations <- MCDuration
    MaxFrames = 2
    MaxRecs = 2
    MaxBuilds = 2
INVARIANTS
    TypeOK
    FinishedFileSaved
    
    NoStaleReason
    FileWithinLimit
PROPERTIES
    DestroyReturns
    SignalLossNoticed
