SPECIFICATION Spec
CONSTANTS
    s1 = s1
    s2 = s2
    d1 = d1
    d2 = d2
    v0 = v0
    v1 = v1
    Value = {v0, v1}
    Resolve <- WiredOr
    Signal = {s1, s2}
    Drivers <- LonelyDrivers
    Direct = {d2}
    Resolved = {}
    Has_Active = {}
    Delays = {0, 1, 2}
    Rejects = {0}
    Late_Callbacks = TRUE
    TimeHigh = 3
PROPERTIES
    OnTime
