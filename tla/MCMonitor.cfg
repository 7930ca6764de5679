SPECIFICATION FairMonitorSpec
CHECK_DEADLOCK FALSE
CONSTANTS
    MaxFrames = 4
INVARIANTS
    BufferHandedOver
PROPERTIES
    OfferReturns
    DestroyReturns
