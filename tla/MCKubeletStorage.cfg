SPECIFICATION Spec
CONSTANTS
    MaxDuration = 8
    MaxInt64 = 12
    NoPoint = NoPoint
    Undefined = Undefined
    NotServed = NotServed
    Nodes = {n1}
    Pods = {p1}
    Containers = {c1, c2}
    Resolution = 3
    FreshMin = 2
    Epoch = 10
    MaxClock = 14
    Rates = {0, 1}
    Capacity = 1
    Clusters = {{n1}, {p1}}
SYMMETRY ContainerSymmetry
INVARIANTS
    NoRestartInWindow
    ServedPodIsComplete
    UsageWithinCapacity
PROPERTY
    TimestampsAdvance
