SPECIFICATION Spec
CONSTANTS
    p1 = p1
    p2 = p2
    p3 = p3
    s1 = s1
    None = None
    Process = {p1, p2, p3}
    Sensitized = {p3}
    Postponed = {p2}
    Signal <- MCSignal
    StaticSensitivity <- MCSensitivity
    Delays <- MCDelays
    FarTimeouts = FALSE
    TimeHigh = 4
    Stop_Time = 2
    Stop_Delta = 2
INVARIANTS
    TypeOK
    ResumedIffQueued
    FirstTimeoutExact
    NoMissedTimeout
    TimedOutOnTime
PROPERTIES
    TimeNeverDecreases
    NobodyLeftBehind
    StoppedInTime
    TimeoutTaken
    Termination
