SPECIFICATION SpecPair
CONSTANTS
    s1 = s1
    s2 = s2
    d1 = d1
    d2 = d2
    v0 = v0
    v1 = v1
    Value = {v0, v1}
    Resolve <- WiredOr
    Signal = {s1, s2}
    Drivers <- LonelyDrivers
    Direct = {d2}
    Resolved = {}
    Has_Active = {s2}
    Delays <- MCDelays
    Rejects = {0, 1, 2}
    Late_Callbacks = FALSE
    TimeHigh = 4
INVARIANTS
    ActiveExact
    FutureCovers
    NoFailure
PROPERTIES
    OnTime
    SharedSettled
