SPECIFICATION Spec
CONSTANTS
    Nodes = {n1, n2}
    NoSource = NoSource
    Resolution = 3
    ScrapeTimeout = 2
    DelayPerSource = 2
    MaxDelay = 3
    Lists = {{}, {n1, n2}}
    Lag = 1
    MaxAge = 16
    NoPoint = NoPoint
    None = None
SYMMETRY Symmetry
INVARIANTS
    TypeOK
    ServedIsFresh
PROPERTIES
    ImplementsServer
    EndsWhenCancelled
CHECK_DEADLOCK FALSE
