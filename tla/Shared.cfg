SPECIFICATION Spec
CONSTANTS
    s1 = s1
    s2 = s2
    m1 = m1
    m2 = m2
    NoScheduler = NoScheduler
    N = 2
    Scheduler <- OneScheduler
    Owned <- OneScheduler
    Maintainer <- OneMaintainer
    Shared = TRUE
    RequireRecord = FALSE
    Timeout = 0
    KeepAge = 0
    KeepCount = 1
    MainKeepAge = 0
    MainKeepCount = 1
    MaxClock = 0
    MaxFaults = 2
INVARIANTS
    TypeOK
    PublishOnce
    MarkerIffSent
    SentIsOutcome
    NothingLost
    MainGroupBound
