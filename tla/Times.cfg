SPECIFICATION Spec
CONSTANTS
    Second = 3
    Margin = 2
    MaxSkew = 1
    Minute = 1
    Hour = 3
    Day = 6
    Cycle <- Cycles
    SafetyMargin = 1
    MinExpire = 1
    MaxExpire = 4
    MaxClock = 17
    MaxQueue = 2
    MaxEdits = 1
INVARIANTS
    TypeOK
    ExpiresBeforeNext
    NoEarlyRun
PROPERTIES
    ReportIsNextSlot
    UnlistedIsImminent
CHECK_DEADLOCK FALSE
