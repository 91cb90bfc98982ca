SPECIFICATION Spec
CONSTANTS
    s1 = s1
    s2 = s2
    d1 = d1
    d2 = d2
    v0 = v0
    v1 = v1
    Value = {v0, v1}
    Resolve <- WiredOr
    Signal = {s1}
    Drivers <- SharedDrivers
    Direct = {}
    Resolved = {s1}
    Has_Active = {}
    Delays = {0, 1}
    Rejects = {0, 1}
    Late_Callbacks = FALSE
    TimeHigh = 2
INVARIANTS
    NoCrash
