SPECIFICATION Spec
CONSTANTS
    Proc = {p1, p2, p3}
    Idle = idle
    None = none
    MaxPriority = 1
    MaxZombies = 2
    Node = {n1, n2, n3, n4}
    NULL = null
    Garbage = garbage
    MaxLeaks = 1
INVARIANTS
    NodesWellUsed
PROPERTIES
    ResetEnds
    ImplementsReadyQueue
