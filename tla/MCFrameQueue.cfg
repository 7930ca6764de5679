SPECIFICATION FairSpec
CONSTANTS
    f1 = f1
    f2 = f2
    big = big
    c1 = c1
    c2 = c2
    Frame <- MCFrame
    Oversize <- MCOversize
    Closer <- MCCloser
    NoFrame = NoFrame
    RequestedCapacity = 2
    MaxPuts = 4
INVARIANTS
    TypeOK
    HeldIntact
PROPERTIES
    WaiterResumes
    ImplementsChannel
\* A closed queue whose threads all returned is left alone.
CHECK_DEADLOCK FALSE
