SPECIFICATION Spec
CONSTANTS
    MaxDuration = 8
    MaxInt64 = 12
    NoPoint = NoPoint
    Undefined = Undefined
    NotServed = NotServed
    Nodes = {}
    Pods = {p1}
    Containers = {c1, c2}
    Resolution = 3
    FreshMin = 2
    Epoch = 10
    MaxClock = 13
    Rates = {0, 1}
    Capacity = 1
    Clusters = {{p1}}
SYMMETRY ContainerSymmetry
INVARIANT
    SameStartTime
