SPECIFICATION FairSpec
CHECK_DEADLOCK FALSE
CONSTANTS
    MaxEvents = 2
INVARIANTS
    TypeOK
    TapeFollowsPipeline
    ClosedDeckStopped
PROPERTIES
    PictureKept
