\* Ticks that may take up to seven quarters of a period.
SPECIFICATION Spec
CONSTANTS
    Resolution = 4
    TickLimit = 7
    None = None
INVARIANTS
    CollectionTimely
    NothingStaleServed
PROPERTIES
    EventuallyReady
    LoopEnds
    StopReturns
CHECK_DEADLOCK FALSE
