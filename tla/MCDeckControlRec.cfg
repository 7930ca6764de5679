SPECIFICATION Spec
CHECK_DEADLOCK FALSE
CONSTANTS
    MaxEvents = 1
PROPERTIES
    RecStartsTape
