SPECIFICATION FairSpec
CHECK_DEADLOCK FALSE
CONSTANTS
    MaxEvents = 2
    CommandLines <- MCCommandLines
    Camcorder <- MCCamcorder
    Others <- MCOthers
INVARIANTS
    TypeOK
    ToolMatchesPipeline
PROPERTIES
    FailedIsRebuilt
    LostIsLetGo
    ExitCloses
