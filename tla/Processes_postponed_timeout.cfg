SPECIFICATION Spec
CONSTANTS
    p1 = p1
    p2 = p2
    p3 = p3
    s1 = s1
    None = None
    Process = {p1, p2}
    Sensitized = {}
    Postponed = {p2}
    Signal <- MCSignal
    StaticSensitivity <- MCSensitivity
    Delays <- MCDelays
    FarTimeouts = FALSE
    TimeHigh = 3
    Stop_Time = 3
    Stop_Delta = 2
INVARIANTS
    NoInternalError
