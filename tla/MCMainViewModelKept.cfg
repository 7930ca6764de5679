SPECIFICATION Spec
CHECK_DEADLOCK FALSE
CONSTANTS
    MaxEvents = 3
    CommandLines <- MCCommandLines
    Camcorder <- MCCamcorder
    Others <- MCOthers
PROPERTIES
    CaptureKept
