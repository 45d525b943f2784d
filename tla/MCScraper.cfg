SPECIFICATION Spec
CONSTANTS
    Nodes = {n1, n2, n3}
    Pods = {p1}
    NoSource = NoSource
    ScrapeTimeout = 3
    BaseTimeout = 4
    DelayPerSource = 1
    MaxDelay = 3
INVARIANTS
    SendIsSafe
    BatchIsComplete
    ScrapeInTime
PROPERTY
    ScrapeReturns
