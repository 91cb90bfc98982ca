SPECIFICATION Spec
CONSTANTS
    cb1 = cb1
    cb2 = cb2
    cb3 = cb3
    k1 = k1
    k2 = k2
    k3 = k3
    Id <- MCId
    Cell <- MCCell
    Null = Null
    None = None
    TimeHigh = 2
INVARIANTS
    CellsPartitioned
    FirstTimeoutExact
PROPERTIES
    ImplementsQueue
\* Once every callback is registered and the time is TimeHigh, all rest.
CHECK_DEADLOCK FALSE
