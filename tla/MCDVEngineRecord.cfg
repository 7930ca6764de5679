SPECIFICATION FairSpec
CONSTANTS
    QueueFrames = 1
    Entries <- MCEntries
    Texts <- MCTexts
    MaxBuilds = 2
    MaxStarts = 3
INVARIANTS
    TypeOK
    FilesInOrder
    EndsWithLastFrame
PROPERTIES
    DestroyReturns
    RecordingEnds
