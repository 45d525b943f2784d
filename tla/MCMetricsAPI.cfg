\* A node, two pods of two namespaces, and a server with a node selector.
SPECIFICATION Spec
CONSTANTS
    Nodes <- MCNodes
    Pods <- MCPods
    HasNodeSelector = TRUE
    FieldSelectors <- MCFieldSelectors
    MaxContainers = 2
    MaxStores = 2
INVARIANTS
    TypeOK
    ServesOnlyCurrent
    ServesAllSteady
    TableShowsAnswer
