SPECIFICATION Spec
CONSTANTS
    MaxDuration = 8
    MaxInt64 = 12
    NoPoint = NoPoint
    Undefined = Undefined
    NotServed = NotServed
    Nodes = {n1, n2}
    Pods = {p1}
    Containers = {"c1", "c2"}
    Resolution = 3
    FreshMin = 2
    Readers = {r1, r2}
    Batches <- MCBatches
INVARIANTS
    ExclusiveStore
    ReadersSeeOneStore
PROPERTIES
    Linearizable
    StoreReturns
    QueryReturns
