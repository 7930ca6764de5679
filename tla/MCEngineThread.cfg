SPECIFICATION FairSpec
CONSTANTS
    c1 = c1
    c2 = c2
    c3 = c3
    Calls <- MCCalls
    MaxPosts = 2
INVARIANTS
    TypeOK
    EngineOnItsThread

PROPERTIES
    DisposeReturns
    CallReturns
