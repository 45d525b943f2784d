\* Two goroutines, bodies that fit in a new slice and bodies that do not.
SPECIFICATION Spec
CONSTANTS
    Callers = {g1, g2}
    Small = {s1, s2}
    Large = {t1, t2}
    SmallRoom = 1
    MaxPieces = 2
    NoArray = NoArray
    NodeStatuses <- MCNodeStatuses
    AddressTypePriority <- MCPriority
    DefaultPort = 1
    UseNodeStatusPort = TRUE
INVARIANTS
    TypeOK
    ExclusiveArrays
    DecodesOwnBody
    AsksPreferred
