SPECIFICATION DecodeSpec
CONSTANTS
    MaxDuration = 8
    MaxInt64 = 12
    NoPoint = NoPoint
    Undefined = Undefined
    NotServed = NotServed
    Nodes = {n1}
    Pods = {p1}
    Containers = {c1, c2}
    Resolution = 3
    FreshMin = 2
    Values = {0, 1}
    Stamps = {11}
    DefaultTime = 12
    Unreported = Unreported
INVARIANT
    TimestampIsCpuTime
CHECK_DEADLOCK FALSE
