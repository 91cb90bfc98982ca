SPECIFICATION Spec
CONSTANTS
    v1 = v1
    v2 = v2
    Value = {v1, v2}
    Delays <- MCDelays
    TimeHigh = 4
INVARIANTS
    Ascending
PROPERTIES
    ImplementsLRM
